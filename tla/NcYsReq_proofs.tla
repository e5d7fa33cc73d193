--------------------------- MODULE NcYsReq_proofs ---------------------------
(***************************************************************************)
(* Proofs about the requests of the YuShi driver, for any number of        *)
(* outputs, calls and failures.                                            *)
(***************************************************************************)
EXTENDS NcYsReq, TLAPS

(* The request of the call that waits is still in the device structure:    *)
(* calls come one at a time, and an answer ends the wait.                  *)
Left == caller # Nobody => req[caller.kind].call = caller.call

(* If the login thread serves a request of the waiting caller's kind, then *)
(* that very request, unless the call came in the middle.                  *)
Mine ==
    caller # Nobody /\ Serving(caller.kind) /\ caller.call \notin late
        => copy.call = caller.call

LoggedOut == pos = 0 => copy = Nothing

IInv == TypeOK /\ Left /\ Mine /\ LoggedOut /\ OwnAnswer

(* The four requests of a pass.                                             *)
LEMMA Kinds == Len(Pass) = 4 /\ Request = {"records", "time", "status", "set"}
<1>1. Len(Pass) = 4 /\ Pass[1] = "records" /\ Pass[2] = "time" /\ Pass[3] = "status" /\ Pass[4] = "set"
  BY DEF Pass
<1>2. 1..Len(Pass) = {1, 2, 3, 4}
  BY <1>1
<1>3. Request = {Pass[1], Pass[2], Pass[3], Pass[4]}
  BY <1>2 DEF Request
<1> QED BY <1>1, <1>3

(* Positions of a pass, as numbers. *)
LEMMA Positions ==
    ASSUME TypeOK
    PROVE  /\ pos \in 0..4
           /\ pos # 0 => Further \in 0..4 /\ Pass[pos] \in Request
BY Kinds DEF TypeOK, Further, Request

(* A broken connection leaves the types.                                    *)
LEMMA BrokenTypes ==
    ASSUME TypeOK, Broken
    PROVE  pos' \in 0..Len(Pass) /\ copy' \in [call : Call, cur : Call] /\ breaks' \in 0..BreakBound
<1>1. pos' \in 0..Len(Pass) /\ copy' \in [call : Call, cur : Call]
  BY YsReqAssumption, Kinds DEF Broken, Nothing, Call
<1>2. breaks \in 0..BreakBound
  BY DEF TypeOK
<1>3. breaks' \in 0..BreakBound
  BY <1>2, YsReqAssumption DEF Broken
<1> QED BY <1>1, <1>3

(* A call leaves the slot with a device and its history.                    *)
LEMMA CalledTypes ==
    ASSUME TypeOK, NEW k \in Request, Called(k)
    PROVE  /\ state' \in {0, 1} /\ calls' \in Call /\ calls' = calls + 1
           /\ device' \in [time : Call, out : [1..NOut -> Call]]
           /\ own' \in [Setting -> Call] /\ stray' \subseteq Request
           /\ caller' \in [kind : Answered, call : Call] \cup {Nobody} /\ late' \subseteq Call
<1> USE YsReqAssumption
<1>0. 0 \in Call
  BY DEF Call
<1>1. calls' \in Call /\ calls' = calls + 1
  <2>1. calls' = calls + 1 /\ calls < CallBound
    BY DEF Called
  <2>2. calls \in 0..CallBound
    BY DEF TypeOK, Call
  <2> QED BY <2>1, <2>2 DEF Call
<1>2. /\ device' \in [time : Call, out : [1..NOut -> Call]]
      /\ own' \in [Setting -> Call] /\ stray' \subseteq Request
  <2>1. CASE Known(k)
    BY <1>1, <2>1 DEF Known, TypeOK
  <2>2. CASE Another(k)
    <3>1. own' \in [Setting -> Call] /\ stray' \subseteq Request
      BY <1>0, <1>1, <2>2 DEF Another
    <3>2. device' \in [time : Call, out : [1..NOut -> Call]]
      BY <1>0, <2>2 DEF Another, Unset
    <3> QED BY <3>1, <3>2
  <2> QED BY <2>1, <2>2 DEF Called
<1>3. caller' \in [kind : Answered, call : Call] \cup {Nobody} /\ late' \subseteq Call
  BY <1>1 DEF Called, TypeOK
<1> QED BY <1>1, <1>2, <1>3 DEF Called

(* Every step keeps the types.                                              *)
LEMMA TypeStep == TypeOK /\ [Next]_vars => TypeOK'
<1> SUFFICES ASSUME TypeOK, [Next]_vars PROVE TypeOK'
  OBVIOUS
<1> USE YsReqAssumption
<1>0. 0 \in Call /\ Nothing \in [call : Call, cur : Call]
  BY DEF Call, Nothing
<1>1. ASSUME NEW k \in Request, Ask(k) PROVE TypeOK'
  <2>0. Called(k)
    BY <1>1 DEF Ask
  <2>1. calls' \in Call /\ calls' = calls + 1 /\ calls \in Nat
    <3>1. calls' \in Call /\ calls' = calls + 1
      BY <1>1, <2>0, CalledTypes
    <3>2. calls \in Nat
      BY DEF TypeOK, Call
    <3> QED BY <3>1, <3>2
  <2>2. req[k].cur + 1 \in Call /\ req[k].cur + 1 <= calls'
    <3>1. req[k].cur \in 0..CallBound /\ req[k].cur <= calls
      BY DEF TypeOK, Call
    <3>2. calls' \in 0..CallBound
      BY <2>1 DEF Call
    <3> QED BY <2>1, <3>1, <3>2 DEF Call
  <2>3. req' \in [Request -> [cur : Call, last : Call, call : Call]]
    BY <1>1, <2>1, <2>2 DEF Ask, TypeOK
  <2>4. \A m \in Request : req'[m].cur <= calls'
    <3> SUFFICES ASSUME NEW m \in Request PROVE req'[m].cur <= calls'
      OBVIOUS
    <3>1. req[m].cur \in Nat /\ req[m].cur <= calls
      BY DEF TypeOK, Call
    <3>2. req'[m].cur = IF m = k THEN req[k].cur + 1 ELSE req[m].cur
      BY <1>1 DEF Ask, TypeOK
    <3> QED BY <2>1, <2>2, <3>1, <3>2
  <2>5. UNCHANGED <<pos, copy, outs, ret, breaks>>
    BY <2>0 DEF Called
  <2>6. /\ state' \in {0, 1} /\ device' \in [time : Call, out : [1..NOut -> Call]]
        /\ own' \in [Setting -> Call] /\ stray' \subseteq Request
        /\ caller' \in [kind : Answered, call : Call] \cup {Nobody} /\ late' \subseteq Call
    BY <1>1, <2>0, CalledTypes
  <2> QED BY <2>1, <2>3, <2>4, <2>5, <2>6 DEF TypeOK
<1>2. CASE TimeOut
  BY <1>2 DEF TimeOut, TypeOK, slot
<1>3. CASE IdleStop \/ Drop
  BY <1>3, BrokenTypes DEF IdleStop, Drop, TypeOK, slot
<1>4. CASE Login
  BY <1>4, Kinds DEF Login, TypeOK, slot
<1>5. CASE Look
  BY <1>5, Kinds, Positions DEF Look, TypeOK, slot
<1>6. CASE Serve
  <2>1. PICK k \in Answered : Serving(k) /\ Answer(k, copy.call)
    BY <1>6 DEF Serve
  <2>2. k \in Request /\ copy.call \in Call /\ req[k].cur \in Call
    BY Kinds DEF Answered, TypeOK
  <2>3. /\ req' \in [Request -> [cur : Call, last : Call, call : Call]]
        /\ \A m \in Request : req'[m].cur = req[m].cur
    BY <2>1, <2>2 DEF Answer, TypeOK
  <2>4. caller' \in [kind : Answered, call : Call] \cup {Nobody}
    BY <2>1 DEF Answer, TypeOK
  <2>5. ret' \in [call : Call, got : Call]
    <3>1. CASE caller.kind = k
      <4>1. caller.call \in Call
        BY <1>0 DEF TypeOK, Nobody
      <4> QED BY <2>1, <2>2, <3>1, <4>1 DEF Answer
    <3>2. CASE caller.kind # k
      BY <2>1, <3>2 DEF Answer, TypeOK
    <3> QED BY <3>1, <3>2
  <2>6. pos' \in 0..Len(Pass) /\ copy' \in [call : Call, cur : Call] /\ breaks' \in 0..BreakBound
    BY <1>6, <1>0, <2>1, BrokenTypes, Positions, Kinds DEF Serve, Serving, TypeOK
  <2> QED BY <1>6, <2>3, <2>4, <2>5, <2>6 DEF Serve, TypeOK, slot
<1>7. CASE SyncTime
  <2>1. copy.call \in Call /\ device.time \in Call
    BY DEF TypeOK
  <2>2. "time" \in Request /\ pos # 0
    BY <1>7, Kinds DEF SyncTime, Serving
  <2>3. /\ req' \in [Request -> [cur : Call, last : Call, call : Call]]
        /\ \A m \in Request : req'[m].cur = req[m].cur
    <3>1. CASE UNCHANGED req
      BY <3>1 DEF TypeOK
    <3>2. CASE req' = [req EXCEPT !["time"].last = req["time"].cur]
      <4>1. req["time"].cur \in Call
        BY <2>2 DEF TypeOK
      <4> QED BY <2>2, <3>2, <4>1 DEF TypeOK
    <3> QED BY <1>7, <3>1, <3>2 DEF SyncTime
  <2>4. device' \in [time : Call, out : [1..NOut -> Call]]
    BY <1>7, <2>1 DEF SyncTime, TypeOK
  <2>5. pos' \in 0..Len(Pass) /\ copy' \in [call : Call, cur : Call] /\ breaks' \in 0..BreakBound
    BY <1>7, <1>0, <2>2, BrokenTypes, Positions, Kinds DEF SyncTime, TypeOK
  <2> QED BY <1>7, <2>3, <2>4, <2>5 DEF SyncTime, TypeOK
<1>8. CASE SetOutput
  <2>1. copy.call \in Call /\ outs + 1 \in 1..NOut /\ device.out[outs + 1] \in Call
    BY <1>8 DEF SetOutput, TypeOK
  <2>2. device' \in [time : Call, out : [1..NOut -> Call]]
    <3>1. PICK o \in {device.out[outs + 1], copy.call} : device' = [device EXCEPT !.out[outs + 1] = o]
      BY <1>8 DEF SetOutput
    <3>2. o \in Call /\ device \in [time : Call, out : [1..NOut -> Call]]
      BY <2>1, <3>1 DEF TypeOK
    <3>3. [device.out EXCEPT ![outs + 1] = o] \in [1..NOut -> Call]
      BY <3>2
    <3>4. device' = [device EXCEPT !.out = [device.out EXCEPT ![outs + 1] = o]]
      BY <3>1
    <3> QED BY <3>2, <3>3, <3>4
  <2>3. /\ pos' \in 0..Len(Pass) /\ copy' \in [call : Call, cur : Call]
        /\ breaks' \in 0..BreakBound /\ outs' \in 0..NOut
    BY <1>8, <2>1, BrokenTypes DEF SetOutput, TypeOK
  <2> QED BY <1>8, <2>2, <2>3 DEF SetOutput, TypeOK
<1>9. CASE SetDone
  <2>1. "set" \in Request /\ pos # 0 /\ copy.cur \in Call
    BY <1>9, Kinds DEF SetDone, Serving, TypeOK
  <2>2. /\ req' \in [Request -> [cur : Call, last : Call, call : Call]]
        /\ \A m \in Request : req'[m].cur = req[m].cur
    BY <1>9, <2>1 DEF SetDone, TypeOK
  <2>3. pos' \in 0..Len(Pass) /\ copy' \in [call : Call, cur : Call]
    BY <1>9, <1>0, <2>1, Positions, Kinds DEF SetDone
  <2> QED BY <1>9, <2>2, <2>3 DEF SetDone, TypeOK, slot
<1>10. CASE UNCHANGED vars
  BY <1>10 DEF vars, TypeOK, slot
<1> QED BY <1>1, <1>2, <1>3, <1>4, <1>5, <1>6, <1>7, <1>8, <1>9, <1>10 DEF Next, LoginThread

(* The invariant holds at the start,                                        *)
LEMMA InitHolds == Init => IInv
<1> SUFFICES ASSUME Init PROVE IInv
  OBVIOUS
<1>1. TypeOK
  BY YsReqAssumption, Kinds DEF Init, TypeOK, Call, Nobody, Nothing, Unset
<1> QED BY <1>1 DEF Init, IInv, Left, Mine, LoggedOut, OwnAnswer

(* A step that leaves the waiting call, its request and what is served     *)
(* alone, or stops serving.                                                *)
LEMMA OtherStep ==
    ASSUME IInv, TypeOK',
           \A k \in Answered : req'[k].call = req[k].call,
           UNCHANGED <<ret, late>>, caller' \in {caller, Nobody},
           \/ UNCHANGED <<pos, copy>>
           \/ copy' = Nothing
    PROVE  IInv'
<1>1. caller' # Nobody => caller' = caller /\ caller.kind \in Answered
  BY DEF IInv, TypeOK
<1>2. Left'
  BY <1>1 DEF IInv, Left
<1>3. Mine'
  BY <1>1 DEF IInv, Mine, Serving
<1> QED BY <1>2, <1>3 DEF IInv, LoggedOut, OwnAnswer

(* after a call,                                                            *)
LEMMA AskStep ==
    ASSUME IInv, TypeOK', NEW k \in Request, Ask(k)
    PROVE  IInv'
<1>1. req'[k].call = calls' /\ UNCHANGED <<pos, copy, ret>>
  BY DEF Ask, Called, IInv, TypeOK
<1>2. caller' # Nobody => caller' = [kind |-> k, call |-> calls']
  BY DEF Ask, Called
<1>3. Left'
  BY <1>1, <1>2 DEF Left
<1>4. Mine'
  BY <1>1, <1>2 DEF Ask, Called, Mine, Serving
<1>5. OwnAnswer'
  BY <1>1 DEF Ask, Called, IInv, OwnAnswer
<1> QED BY <1>1, <1>3, <1>4, <1>5 DEF IInv, LoggedOut

(* after the thread copies a request,                                       *)
LEMMA LookStep ==
    ASSUME IInv, TypeOK', Look
    PROVE  IInv'
<1>1. CASE copy' = copy
  <2>1. copy' = Nothing
    BY <1>1 DEF Look
  <2> QED BY <2>1, OtherStep DEF Look
<1>2. CASE copy' = [call |-> req[Pass[pos]].call, cur |-> req[Pass[pos]].cur] /\ pos' = pos
  <2>1. Left' /\ OwnAnswer' /\ LoggedOut'
    BY <1>2 DEF Look, IInv, Left, OwnAnswer, LoggedOut
  <2>2. Mine'
    BY <1>2 DEF Look, IInv, Left, Mine, Serving
  <2> QED BY <2>1, <2>2 DEF IInv
<1> QED BY <1>1, <1>2 DEF Look

(* after it serves one,                                                     *)
LEMMA ServeStep ==
    ASSUME IInv, TypeOK', Serve
    PROVE  IInv'
<1>1. PICK k \in Answered : Serving(k) /\ Answer(k, copy.call)
  BY DEF Serve
<1>2. copy' = Nothing /\ late' = late
  BY DEF Serve, Broken
<1>3. Mine' /\ LoggedOut'
  BY <1>2 DEF Mine, LoggedOut, Serving
<1>4. CASE caller.kind = k
  <2>1. caller # Nobody
    BY <1>4 DEF Answered, Nobody
  <2>2. caller' = Nobody /\ ret' = [call |-> caller.call, got |-> copy.call]
    BY <1>1, <1>4 DEF Answer
  <2>3. OwnAnswer'
    BY <1>1, <1>2, <1>4, <2>1, <2>2 DEF IInv, Mine, OwnAnswer
  <2> QED BY <1>3, <2>2, <2>3 DEF IInv, Left
<1>5. CASE caller.kind # k
  <2>1. UNCHANGED <<caller, ret>>
    BY <1>1, <1>5 DEF Answer
  <2>2. Left'
    BY <1>1, <1>5, <2>1, Kinds DEF Answer, IInv, Left, TypeOK, Answered
  <2> QED BY <1>2, <1>3, <2>1, <2>2 DEF IInv, OwnAnswer
<1> QED BY <1>4, <1>5

(* A step of the login thread that answers nobody leaves every request to  *)
(* be answered alone.                                                      *)
LEMMA QuietRequests ==
    ASSUME IInv, SyncTime \/ SetDone
    PROVE  \A k \in Answered : req'[k].call = req[k].call
BY Kinds DEF IInv, TypeOK, SyncTime, SetDone, Answered

(* and after every step.                                                    *)
LEMMA IInvStep == IInv /\ [Next]_vars => IInv'
<1> SUFFICES ASSUME IInv, [Next]_vars PROVE IInv'
  OBVIOUS
<1>1. TypeOK'
  BY TypeStep DEF IInv
<1>2. ASSUME NEW k \in Request, Ask(k) PROVE IInv'
  BY <1>1, <1>2, AskStep
<1>3. CASE TimeOut
  BY <1>1, <1>3, OtherStep DEF TimeOut
<1>4. CASE IdleStop \/ Drop
  BY <1>1, <1>4, OtherStep DEF IdleStop, Drop, Broken
<1>5. CASE Login
  BY <1>1, <1>5, OtherStep DEF Login, IInv, LoggedOut
<1>6. CASE Look
  BY <1>1, <1>6, LookStep
<1>7. CASE Serve
  BY <1>1, <1>7, ServeStep
<1>8. CASE SyncTime
  BY <1>1, <1>8, OtherStep, QuietRequests DEF SyncTime, Broken
<1>9. CASE SetOutput
  BY <1>1, <1>9, OtherStep DEF SetOutput, Broken
<1>10. CASE SetDone
  BY <1>1, <1>10, OtherStep, QuietRequests DEF SetDone
<1>11. CASE UNCHANGED vars
  BY <1>1, <1>11, OtherStep DEF vars
<1> QED BY <1>2, <1>3, <1>4, <1>5, <1>6, <1>7, <1>8, <1>9, <1>10, <1>11 DEF Next, LoginThread

(* Types of the state. *)
THEOREM TypeCorrect == Spec => []TypeOK
BY InitHolds, IInvStep, PTL DEF Spec, IInv

(* A call of searchRecords or getStatus returns the answer to its own      *)
(* request, unless it came while the login thread served another's         *)
(* (nc_ys_dev_doRecords, nc_ys_dev_doGetStatus).                           *)
THEOREM AnswerSafety == Spec => []OwnAnswer
BY InitHolds, IInvStep, PTL DEF Spec, IInv
=============================================================================
