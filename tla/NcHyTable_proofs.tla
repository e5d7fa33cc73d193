-------------------------- MODULE NcHyTable_proofs --------------------------
(***************************************************************************)
(* Proofs about the device table of the HuaYi driver, for any number of    *)
(* slots, devices and channels.                                            *)
(***************************************************************************)
EXTENDS NcHyTable, TLAPS

(* What one slot owes to the sessions on it. *)
Held(i) == {s \in sessions : s.slot = i /\ s.kind \in Stream}

(* A slot with no stream enabled has no session, and the other way round:  *)
(* what lets Reap take it and the next start have it.                      *)
LEMMA QuietSlot ==
    ASSUME Served, NEW i \in Slot
    PROVE  on[i] \cap Stream = {} <=> Held(i) = {}
BY DEF Served, Held

(* A slot that is not up holds no stream.                                   *)
LEMMA FreeIsQuiet ==
    ASSUME Served, NEW i \in Slot, ~up[i]
    PROVE  Held(i) = {}
BY DEF Served, Held

(* A start takes a slot of its own device or one that holds no stream.      *)
LEMMA PlaceFits ==
    ASSUME Served, TypeOK, NEW x \in Info, NEW i \in First(Place(x))
    PROVE  i \in Slot /\ (Held(i) # {} => info[i] = x)
<1>1. CASE Running(x) # {}
  BY <1>1 DEF First, Place, Running
<1>2. CASE Running(x) = {}
  BY <1>2, FreeIsQuiet DEF First, Place, Free
<1> QED BY <1>1, <1>2

(* Types of the state. *)
THEOREM TypeCorrect == Spec => []TypeOK
<1>1. Init => TypeOK
  BY DEF Init, TypeOK, NoReply
<1>2. TypeOK /\ [Next]_vars => TypeOK'
  <2> SUFFICES ASSUME TypeOK, [Next]_vars PROVE TypeOK'
    OBVIOUS
  <2>1. ASSUME NEW x \in Info, Ask(x) PROVE TypeOK'
    BY <2>1 DEF TypeOK, Ask, Use, First, Place, Running, Free, NoReply
  <2>2. ASSUME NEW x \in Info, Ptz(x) PROVE TypeOK'
    BY <2>2 DEF TypeOK, Ptz, NoReply
  <2>3. ASSUME NEW x \in Info, NEW k \in Kind, Open(x, k) PROVE TypeOK'
    BY <2>3 DEF TypeOK, Open, Use, First, Place, Running, Free
  <2>4. ASSUME NEW x \in Info, NEW k \in Kind, Full(x, k) PROVE TypeOK'
    BY <2>4 DEF TypeOK, Full
  <2>5. ASSUME NEW s \in sessions, Close(s) PROVE TypeOK'
    BY <2>5 DEF TypeOK, Close, NoReply
  <2>6. ASSUME NEW i \in Slot, Minute(i) PROVE TypeOK'
    BY <2>6 DEF TypeOK, Minute, NoReply
  <2>7. ASSUME Reap PROVE TypeOK'
    BY <2>7 DEF TypeOK, Reap, NoReply
  <2>8. CASE UNCHANGED vars
    BY <2>8 DEF TypeOK, vars
  <2> QED BY <2>1, <2>2, <2>3, <2>4, <2>5, <2>6, <2>7, <2>8 DEF Next
<1> QED BY <1>1, <1>2, PTL DEF Spec

(* A step that leaves the sessions, what is enabled and the address of     *)
(* every slot with a session alone, and stops no slot with one.            *)
LEMMA QuietStep ==
    ASSUME Served, UNCHANGED <<on, sessions>>,
           \A i \in Slot : Held(i) # {} => up'[i] /\ info'[i] = info[i]
    PROVE  Served'
BY DEF Served, Held

(* A start leaves every stream on its device,                               *)
LEMMA OpenStep ==
    ASSUME TypeOK, Served, NEW x \in Info, NEW k \in Kind, Open(x, k)
    PROVE  Served'
<1>1. PICK i \in First(Place(x)) : Open(x, k)!(i)
  BY DEF Open
<1>2. i \in Slot /\ (Held(i) # {} => info[i] = x)
  BY <1>1, PlaceFits
<1>3. \A j \in Slot : Held(j) # {} => up'[j] /\ info'[j] = info[j]
  BY <1>1, <1>2 DEF Served, Held, Use, TypeOK
<1>4. CASE UNCHANGED <<on, sessions>>
  BY <1>3, <1>4, QuietStep
<1>5. CASE /\ k \notin on[i]
           /\ on' = [on EXCEPT ![i] = @ \cup {k}]
           /\ sessions' = sessions \cup {[slot |-> i, kind |-> k, info |-> x]}
  <2> DEFINE new == [slot |-> i, kind |-> k, info |-> x]
  <2> SUFFICES ASSUME NEW j \in Slot
               PROVE  /\ on'[j] \cap Stream = {s.kind : s \in Held(j)'}
                      /\ \A s, t \in Held(j)' : s.kind = t.kind => s = t
                      /\ \A s \in Held(j)' : up'[j] /\ info'[j] = s.info
    BY DEF Served, Held
  <2>1. CASE j # i \/ k \notin Stream
    <3>1. Held(j)' = Held(j) /\ on'[j] \cap Stream = on[j] \cap Stream
      BY <1>5, <2>1, <1>2 DEF Held, TypeOK
    <3>2. \A s \in Held(j) : up'[j] /\ info'[j] = s.info
      BY <1>3 DEF Served, Held
    <3> QED BY <3>1, <3>2 DEF Served, Held
  <2>2. CASE j = i /\ k \in Stream
    <3>1. Held(j)' = Held(j) \cup {new} /\ on'[j] \cap Stream = (on[j] \cap Stream) \cup {k}
      BY <1>5, <2>2, <1>2 DEF Held, TypeOK
    <3>2. k \notin {s.kind : s \in Held(j)}
      BY <1>5, <2>2 DEF Served, Held
    <3>3. up'[j] /\ info'[j] = x
      BY <1>1, <1>2, <2>2 DEF Use, TypeOK
    <3>4. \A s \in Held(j) : s.info = x
      BY <1>2, <2>2 DEF Served, Held
    <3>5. new.kind = k /\ new.info = x
      OBVIOUS
    <3>6. /\ on[j] \cap Stream = {s.kind : s \in Held(j)}
          /\ \A s, t \in Held(j) : s.kind = t.kind => s = t
      BY DEF Served, Held
    <3> HIDE DEF new, Held
    <3>7. on'[j] \cap Stream = {s.kind : s \in Held(j)'}
      BY <3>1, <3>5, <3>6
    <3>8. \A s, t \in Held(j)' : s.kind = t.kind => s = t
      BY <3>1, <3>2, <3>5, <3>6
    <3>9. \A s \in Held(j)' : up'[j] /\ info'[j] = s.info
      BY <3>1, <3>3, <3>4, <3>5
    <3> QED BY <3>7, <3>8, <3>9
  <2> QED BY <2>1, <2>2
<1> QED BY <1>1, <1>4, <1>5

(* and so does a stop.                                                      *)
LEMMA CloseStep ==
    ASSUME TypeOK, Served, NEW s \in sessions, Close(s)
    PROVE  Served'
<1>1. s.slot \in Slot /\ s.kind \in Kind
  BY DEF TypeOK
<1> SUFFICES ASSUME NEW j \in Slot
             PROVE  /\ on'[j] \cap Stream = {t.kind : t \in Held(j)'}
                    /\ \A t, u \in Held(j)' : t.kind = u.kind => t = u
                    /\ \A t \in Held(j)' : up'[j] /\ info'[j] = t.info
  BY DEF Served, Held
<1>2. Held(j)' = Held(j) \ {s} /\ UNCHANGED <<up, info>>
  BY DEF Close, Held
<1>3. CASE s \in Held(j)
  <2>1. on'[j] \cap Stream = (on[j] \cap Stream) \ {s.kind}
    BY <1>1, <1>3 DEF Close, Held, TypeOK
  <2> QED BY <1>2, <1>3, <2>1 DEF Served, Held
<1>4. CASE s \notin Held(j)
  <2>1. on'[j] \cap Stream = on[j] \cap Stream
    BY <1>1, <1>4 DEF Close, Held, TypeOK
  <2> QED BY <1>2, <1>4, <2>1 DEF Served, Held
<1> QED BY <1>3, <1>4

(* A stream that was started and not stopped is served, whatever the       *)
(* thread that stops idle devices and other callers do (nc_hy_run and the  *)
(* calls of nc_hy.c).                                                      *)
THEOREM TableServes == Spec => []Served
<1>1. Init => Served
  BY DEF Init, Served
<1>2. TypeOK /\ Served /\ [Next]_vars => Served'
  <2> SUFFICES ASSUME TypeOK, Served, [Next]_vars PROVE Served'
    OBVIOUS
  <2>1. ASSUME NEW x \in Info, Ask(x) PROVE Served'
    <3>1. PICK i \in First(Place(x)) : Ask(x)!(i)
      BY <2>1 DEF Ask
    <3>2. \A j \in Slot : Held(j) # {} => up'[j] /\ info'[j] = info[j]
      BY <3>1, PlaceFits DEF Served, Held, Use, TypeOK
    <3> QED BY <3>1, <3>2, QuietStep
  <2>2. ASSUME NEW x \in Info, Ptz(x) PROVE Served'
    BY <2>2, QuietStep DEF Ptz, Served, Held
  <2>3. ASSUME NEW x \in Info, NEW k \in Kind, Full(x, k) PROVE Served'
    BY <2>3, QuietStep DEF Full, Served, Held
  <2>4. ASSUME NEW i \in Slot, Minute(i) PROVE Served'
    BY <2>4, QuietStep DEF Minute, Served, Held
  <2>5. ASSUME Reap PROVE Served'
    <3>1. \A j \in Slot : Held(j) # {} => up'[j]
      BY <2>5, QuietSlot DEF Reap, Served, Held
    <3> QED BY <2>5, <3>1, QuietStep DEF Reap
  <2>6. CASE UNCHANGED vars
    BY <2>6, QuietStep DEF vars, Served, Held
  <2> QED BY <2>1, <2>2, <2>3, <2>4, <2>5, <2>6, OpenStep, CloseStep DEF Next
<1> QED BY <1>1, <1>2, TypeCorrect, PTL DEF Spec
=============================================================================
