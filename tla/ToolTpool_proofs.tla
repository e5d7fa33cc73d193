-------------------------- MODULE ToolTpool_proofs --------------------------
(***************************************************************************)
(* Proofs about the worker pool, for any number of threads and works, any  *)
(* size of the list and any number of starts.                              *)
(***************************************************************************)
EXTENDS ToolTpool, TLAPS, FiniteSetTheorems

(* The pool is up exactly while state is 1, and once the joins are over    *)
(* every thread has ended.                                                 *)
Lives ==
    /\ state = 1 <=> owner = "up"
    /\ owner \in {"freeing", "down"} => \A t \in Thread : pc[t] = "gone"
    /\ owner = "down" => queue = <<>>

(* A thread is between taking and giving up the mutex exactly while it     *)
(* holds it, so the list does not change between its test and its step.    *)
Locked == {"test", "sleep", "check"}
Holds ==
    \A t \in Thread :
        /\ pc[t] \in Locked <=> mutex = t
        /\ pc[t] = "sleep" => queue = <<>>
        /\ pc[t] = "check" /\ state = 1 => queue # <<>>

(* work_num counts the list. *)
Counts == owner # "down" => workNum = Len(queue) /\ workNum <= WorkSize

(* Every accepted work is in one place. *)
Places ==
    /\ IsInjective(queue)
    /\ \A t \in Thread : current[t] # None <=> pc[t] = "run"
    /\ \A s, t \in Thread : current[s] = current[t] /\ current[s] # None => s = t
    /\ \A t \in Thread : current[t] \notin ToSet(queue) \cup finished \cup dropped
    /\ ToSet(queue) \cap (finished \cup dropped) = {}
    /\ finished \cap dropped = {}
    /\ accepted = ToSet(queue) \cup finished \cup dropped
                    \cup ({current[t] : t \in Thread} \ {None})

IInv == TypeOK /\ Lives /\ Holds /\ Counts /\ Places /\ NoLostWakeup

-----------------------------------------------------------------------------
(* Lists. *)

(* Taking the head off a list without repetitions. *)
LEMMA HeadAndTail ==
    ASSUME NEW S, NEW q \in Seq(S), q # <<>>
    PROVE  /\ Head(q) \in S /\ Tail(q) \in Seq(S)
           /\ Len(q) \in Nat \ {0} /\ Len(Tail(q)) = Len(q) - 1
           /\ Head(q) = q[1]
           /\ \A i \in 1..Len(Tail(q)) : Tail(q)[i] = q[i + 1]
OBVIOUS

(* The first of a list without repetitions is not in the rest.              *)
LEMMA TakeHead ==
    ASSUME NEW S, NEW q \in Seq(S), q # <<>>, IsInjective(q)
    PROVE  /\ ToSet(q) = ToSet(Tail(q)) \cup {Head(q)}
           /\ Head(q) \notin ToSet(Tail(q))
           /\ IsInjective(Tail(q))
<1> DEFINE r == Tail(q)
<1>1. /\ r \in Seq(S) /\ Len(q) \in Nat \ {0} /\ Len(r) = Len(q) - 1 /\ Head(q) = q[1]
      /\ \A i \in 1..Len(r) : r[i] = q[i + 1]
  BY HeadAndTail
<1>2. DOMAIN q = 1..Len(q) /\ DOMAIN r = 1..Len(r)
  BY <1>1
<1> HIDE DEF r
<1>3. \A i \in 1..Len(q) : i = 1 \/ (i - 1 \in 1..Len(r) /\ (i - 1) + 1 = i)
  BY <1>1
<1>4. \A i \in 1..Len(r) : i + 1 \in 1..Len(q) /\ i + 1 # 1
  BY <1>1
<1>5. ToSet(q) \subseteq ToSet(r) \cup {Head(q)}
  <2> SUFFICES ASSUME NEW i \in 1..Len(q)
               PROVE  q[i] \in ToSet(r) \cup {Head(q)}
    BY <1>2 DEF ToSet
  <2>1. CASE i = 1
    BY <1>1, <2>1
  <2>2. CASE i - 1 \in 1..Len(r) /\ (i - 1) + 1 = i
    <3>1. q[i] = r[i - 1]
      BY <1>1, <2>2
    <3> QED BY <1>2, <2>2, <3>1 DEF ToSet
  <2> QED BY <1>3, <2>1, <2>2
<1>6. ToSet(r) \cup {Head(q)} \subseteq ToSet(q)
  <2>1. Head(q) \in ToSet(q)
    <3>1. 1 \in DOMAIN q /\ Head(q) = q[1]
      BY <1>1, <1>2
    <3> QED BY <3>1 DEF ToSet
  <2>2. ASSUME NEW i \in 1..Len(r) PROVE r[i] \in ToSet(q)
    <3>1. i + 1 \in DOMAIN q /\ r[i] = q[i + 1]
      BY <1>1, <1>2, <1>4
    <3> QED BY <3>1 DEF ToSet
  <2>3. ToSet(r) \subseteq ToSet(q)
    BY <1>2, <2>2 DEF ToSet
  <2> QED BY <2>1, <2>3
<1>7. Head(q) \notin ToSet(r)
  <2> SUFFICES ASSUME NEW i \in 1..Len(r), r[i] = Head(q) PROVE FALSE
    BY <1>2 DEF ToSet
  <2>1. 1 \in DOMAIN q /\ i + 1 \in DOMAIN q /\ q[1] = q[i + 1]
    BY <1>1, <1>2, <1>4
  <2>2. i + 1 # 1
    BY <1>4
  <2> QED BY <2>1, <2>2 DEF IsInjective
<1>8. IsInjective(r)
  <2> SUFFICES ASSUME NEW i \in 1..Len(r), NEW j \in 1..Len(r), r[i] = r[j]
               PROVE  i = j
    BY <1>2 DEF IsInjective
  <2>1. q[i + 1] = q[j + 1]
    BY <1>1
  <2>2. i + 1 \in DOMAIN q /\ j + 1 \in DOMAIN q
    BY <1>2, <1>4
  <2>3. i + 1 = j + 1
    BY <2>1, <2>2 DEF IsInjective
  <2>4. i \in Int /\ j \in Int
    BY <1>1
  <2> QED BY <2>3, <2>4
<1> QED BY <1>5, <1>6, <1>7, <1>8 DEF r

(* The last of a list is what was put there.                                *)
LEMMA PutLast ==
    ASSUME NEW S, NEW q \in Seq(S), NEW e \in S
    PROVE  /\ Append(q, e) \in Seq(S)
           /\ Len(q) \in Nat /\ Len(Append(q, e)) = Len(q) + 1
           /\ Append(q, e) # <<>>
           /\ ToSet(Append(q, e)) = ToSet(q) \cup {e}
           /\ IsInjective(q) /\ e \notin ToSet(q) => IsInjective(Append(q, e))
<1> DEFINE r == Append(q, e)
<1>1. /\ r \in Seq(S) /\ Len(q) \in Nat /\ Len(r) = Len(q) + 1 /\ r[Len(q) + 1] = e
      /\ \A i \in 1..Len(q) : r[i] = q[i]
  OBVIOUS
<1>2. DOMAIN q = 1..Len(q) /\ DOMAIN r = 1..Len(r)
  BY <1>1
<1> HIDE DEF r
<1>3. \A i \in 1..Len(r) : i \in 1..Len(q) \/ i = Len(q) + 1
  BY <1>1
<1>4. \A i \in 1..Len(q) : i \in 1..Len(r)
  BY <1>1
<1>5. Len(q) + 1 \in 1..Len(r)
  BY <1>1
<1>6. ToSet(r) = ToSet(q) \cup {e}
  BY <1>1, <1>2, <1>3, <1>4, <1>5 DEF ToSet
<1>7. ASSUME IsInjective(q), e \notin ToSet(q) PROVE IsInjective(r)
  BY <1>1, <1>2, <1>3, <1>7 DEF ToSet, IsInjective
<1>8. r # <<>>
  BY <1>1
<1> QED BY <1>1, <1>6, <1>7, <1>8 DEF r

(* The empty list of works.                                                 *)
LEMMA EmptyList == <<>> \in Seq(Work) /\ Len(<<>>) = 0 /\ ToSet(<<>>) = {} /\ IsInjective(<<>>)
BY DEF ToSet, IsInjective

-----------------------------------------------------------------------------
(* Threads. *)

(* Where the threads are after one of them went from one place to another. *)
LEMMA GoMoves ==
    ASSUME TypeOK, NEW t \in Thread, NEW from, NEW to \in Location, Go(t, from, to)
    PROVE  /\ pc[t] = from
           /\ pc' \in [Thread -> Location]
           /\ pc'[t] = to
           /\ \A s \in Thread : s # t => pc'[s] = pc[s]
BY DEF TypeOK, Go

(* Sets of threads are finite.                                              *)
LEMMA Few ==
    ASSUME NEW A, A \subseteq Thread
    PROVE  IsFiniteSet(A) /\ Cardinality(A) \in Nat
BY TpoolAssumption, FS_Subset, FS_CardinalityType

(* Who is on the way is a thread.                                           *)
LEMMA OnTheWayType == OnTheWay \subseteq Thread /\ OnTheWay' \subseteq Thread
BY DEF OnTheWay

(* More threads on their way for the same works. *)
LEMMA WakeupKept ==
    ASSUME NoLostWakeup, UNCHANGED queue, TypeOK,
           state' = 1 => state = 1,
           state' = 1 /\ Asleep' # {} => Asleep # {},
           OnTheWay \subseteq OnTheWay'
    PROVE  NoLostWakeup'
<1>1. /\ Cardinality(OnTheWay) \in Nat /\ Cardinality(OnTheWay)' \in Nat
      /\ Cardinality(OnTheWay) <= Cardinality(OnTheWay)'
  BY Few, OnTheWayType, FS_Subset
<1>2. Len(queue) \in Nat /\ Len(queue)' = Len(queue)
  BY DEF TypeOK
<1>3. CASE state' = 1 /\ Asleep' # {}
  <2>1. Len(queue) <= Cardinality(OnTheWay)
    BY <1>3 DEF NoLostWakeup
  <2> QED BY <1>1, <1>2, <2>1 DEF NoLostWakeup
<1> QED BY <1>3 DEF NoLostWakeup

(* An empty list needs no thread on the way. *)
LEMMA WakeupIdle ==
    ASSUME queue' = <<>>
    PROVE  NoLostWakeup'
<1>1. Len(queue)' = 0
  BY EmptyList
<1>2. Cardinality(OnTheWay)' \in Nat
  BY Few, OnTheWayType
<1> QED BY <1>1, <1>2 DEF NoLostWakeup

(* The works stay where they are. *)
LEMMA PlacesKept ==
    ASSUME Places, UNCHANGED <<queue, current, accepted, finished, dropped>>,
           \A t \in Thread : pc'[t] = "run" <=> pc[t] = "run"
    PROVE  Places'
BY DEF Places

-----------------------------------------------------------------------------
(* The threads of the pool. *)

(* The invariant holds at the start,                                        *)
LEMMA InitHolds == Init => IInv
<1> SUFFICES ASSUME Init PROVE IInv
  OBVIOUS
<1>1. TypeOK
  BY EmptyList, TpoolAssumption DEF Init, TypeOK, Location
<1>2. Lives /\ Counts
  BY EmptyList, TpoolAssumption DEF Init, Lives, Counts
<1>3. Holds
  BY TpoolAssumption DEF Init, Holds, Locked
<1>4. Places
  <2>1. {current[t] : t \in Thread} \ {None} = {}
    BY DEF Init
  <2> QED BY <2>1, EmptyList DEF Init, Places
<1>5. NoLostWakeup
  BY DEF Init, NoLostWakeup, Asleep
<1> QED BY <1>1, <1>2, <1>3, <1>4, <1>5 DEF IInv

(* when a thread gets the mutex,                                            *)
LEMMA LockStep ==
    ASSUME IInv, NEW t \in Thread, Lock(t)
    PROVE  IInv'
<1> USE DEF IInv
<1>1. /\ pc[t] = "lock" /\ pc' \in [Thread -> Location] /\ pc'[t] = "test"
      /\ \A s \in Thread : s # t => pc'[s] = pc[s]
  BY GoMoves DEF Lock, Location
<1>2. TypeOK'
  BY <1>1 DEF TypeOK, Lock
<1>3. Lives' /\ Counts'
  BY <1>1 DEF Lives, Counts, Lock
<1>4. Holds'
  BY <1>1, TpoolAssumption DEF Holds, Locked, Lock
<1>5. Places'
  BY <1>1, PlacesKept DEF Lock
<1>6. NoLostWakeup'
  <2>1. OnTheWay \subseteq OnTheWay' /\ (Asleep' # {} => Asleep # {})
    BY <1>1 DEF OnTheWay, Asleep
  <2> QED BY <2>1, WakeupKept DEF Lock
<1> QED BY <1>2, <1>3, <1>4, <1>5, <1>6

(* looks at the list,                                                       *)
LEMMA TestStep ==
    ASSUME IInv, NEW t \in Thread, Test(t)
    PROVE  IInv'
<1> USE DEF IInv
<1> DEFINE to == IF queue = <<>> /\ state = 1 THEN "sleep" ELSE "check"
<1>1. /\ pc[t] = "test" /\ pc' \in [Thread -> Location] /\ pc'[t] = to
      /\ \A s \in Thread : s # t => pc'[s] = pc[s]
  BY GoMoves DEF Test, Location
<1>2. TypeOK'
  BY <1>1 DEF TypeOK, Test
<1>3. Lives' /\ Counts'
  BY <1>1 DEF Lives, Counts, Test
<1>4. Holds'
  BY <1>1, TpoolAssumption DEF Holds, Locked, Test
<1>5. Places'
  BY <1>1, PlacesKept DEF Test
<1>6. NoLostWakeup'
  <2>1. CASE queue = <<>>
    BY <2>1, WakeupIdle DEF Test
  <2>2. CASE queue # <<>>
    <3>1. OnTheWay \subseteq OnTheWay' /\ (Asleep' # {} => Asleep # {})
      BY <1>1, <2>2 DEF OnTheWay, Asleep
    <3> QED BY <3>1, WakeupKept DEF Test
  <2> QED BY <2>1, <2>2
<1> QED BY <1>2, <1>3, <1>4, <1>5, <1>6

(* goes to sleep,                                                           *)
LEMMA SleepStep ==
    ASSUME IInv, NEW t \in Thread, Sleep(t)
    PROVE  IInv'
<1> USE DEF IInv
<1>1. /\ pc[t] = "sleep" /\ pc' \in [Thread -> Location] /\ pc'[t] = "asleep"
      /\ \A s \in Thread : s # t => pc'[s] = pc[s]
  BY GoMoves DEF Sleep, Location
<1>2. TypeOK'
  BY <1>1 DEF TypeOK, Sleep
<1>3. Lives' /\ Counts'
  BY <1>1 DEF Lives, Counts, Sleep
<1>4. Holds'
  BY <1>1, TpoolAssumption DEF Holds, Locked, Sleep
<1>5. Places'
  BY <1>1, PlacesKept DEF Sleep
<1>6. NoLostWakeup'
  <2>1. queue' = <<>>
    BY <1>1 DEF Holds, Sleep
  <2> QED BY <2>1, WakeupIdle
<1> QED BY <1>2, <1>3, <1>4, <1>5, <1>6

(* wakes without a signal,                                                  *)
LEMMA WakeSpuriouslyStep ==
    ASSUME IInv, NEW t \in Thread, WakeSpuriously(t)
    PROVE  IInv'
<1> USE DEF IInv
<1>1. /\ pc[t] = "asleep" /\ pc' \in [Thread -> Location] /\ pc'[t] = "lock"
      /\ \A s \in Thread : s # t => pc'[s] = pc[s]
  BY GoMoves DEF WakeSpuriously, Location
<1>2. TypeOK'
  BY <1>1 DEF TypeOK, WakeSpuriously
<1>3. Lives' /\ Counts'
  BY <1>1 DEF Lives, Counts, WakeSpuriously
<1>4. Holds'
  BY <1>1, TpoolAssumption DEF Holds, Locked, WakeSpuriously
<1>5. Places'
  BY <1>1, PlacesKept DEF WakeSpuriously
<1>6. NoLostWakeup'
  <2>1. OnTheWay \subseteq OnTheWay' /\ (Asleep' # {} => Asleep # {})
    BY <1>1 DEF OnTheWay, Asleep
  <2> QED BY <2>1, WakeupKept DEF WakeSpuriously
<1> QED BY <1>2, <1>3, <1>4, <1>5, <1>6

(* leaves,                                                                  *)
LEMMA LeaveStep ==
    ASSUME IInv, NEW t \in Thread, Leave(t)
    PROVE  IInv'
<1> USE DEF IInv
<1>1. /\ pc[t] = "check" /\ pc' \in [Thread -> Location] /\ pc'[t] = "gone"
      /\ \A s \in Thread : s # t => pc'[s] = pc[s]
  BY GoMoves DEF Leave, Location
<1>2. TypeOK'
  BY <1>1 DEF TypeOK, Leave
<1>3. Lives' /\ Counts'
  BY <1>1 DEF Lives, Counts, Leave
<1>4. Holds'
  BY <1>1, TpoolAssumption DEF Holds, Locked, Leave
<1>5. Places'
  BY <1>1, PlacesKept DEF Leave
<1>6. NoLostWakeup'
  BY DEF NoLostWakeup, Leave
<1> QED BY <1>2, <1>3, <1>4, <1>5, <1>6

(* takes a work,                                                            *)
LEMMA TakeStep ==
    ASSUME IInv, NEW t \in Thread, Take(t)
    PROVE  IInv'
<1> USE DEF IInv
<1>1. /\ pc[t] = "check" /\ pc' \in [Thread -> Location] /\ pc'[t] = "run"
      /\ \A s \in Thread : s # t => pc'[s] = pc[s]
  BY GoMoves DEF Take, Location
<1>2. /\ queue \in Seq(Work) /\ queue # <<>>
      /\ state = 1 /\ mutex = t /\ owner = "up"
  BY <1>1 DEF TypeOK, Holds, Locked, Lives, Take
<1>3. /\ Head(queue) \in Work /\ queue' \in Seq(Work)
      /\ Len(queue) \in Nat \ {0} /\ Len(queue') = Len(queue) - 1
  BY <1>2, HeadAndTail DEF Take
<1>4. /\ ToSet(queue) = ToSet(queue') \cup {Head(queue)}
      /\ Head(queue) \notin ToSet(queue')
      /\ IsInjective(queue')
  BY <1>2, TakeHead DEF Take, Places
<1>5. /\ current' \in [Thread -> Work \cup {None}]
      /\ current'[t] = Head(queue)
      /\ \A s \in Thread : s # t => current'[s] = current[s]
  BY <1>3 DEF TypeOK, Take
<1>6. current[t] = None
  BY <1>1 DEF Places
<1>7. TypeOK'
  BY <1>1, <1>2, <1>3, <1>5 DEF TypeOK, Take, Counts
<1>8. Lives'
  BY <1>1, <1>2 DEF Lives, Take
<1>9. Counts'
  BY <1>2, <1>3, TpoolAssumption DEF Counts, Take
<1>10. Holds'
  BY <1>1, <1>2, TpoolAssumption DEF Holds, Locked, Take
<1>11. Places'
  <2>1. {current'[s] : s \in Thread} \ {None}
          = ({current[s] : s \in Thread} \ {None}) \cup {Head(queue)}
    BY <1>3, <1>5, <1>6, TpoolAssumption
  <2>2. \A s \in Thread : current'[s] # None <=> pc'[s] = "run"
    BY <1>1, <1>3, <1>5, TpoolAssumption DEF Places
  <2>3. \A s \in Thread : current[s] # Head(queue)
    BY <1>4 DEF Places
  <2>4. \A r, s \in Thread : current'[r] = current'[s] /\ current'[r] # None => r = s
    BY <1>5, <2>3 DEF Places
  <2>5. \A s \in Thread : current'[s] \notin ToSet(queue') \cup finished \cup dropped
    BY <1>4, <1>5 DEF Places
  <2> QED BY <1>4, <2>1, <2>2, <2>4, <2>5 DEF Places, Take
<1>12. NoLostWakeup'
  <2>1. CASE Asleep = {}
    BY <1>1, <2>1 DEF NoLostWakeup, Asleep
  <2>2. CASE Asleep # {}
    <3>1. OnTheWay' = OnTheWay \ {t} /\ t \in OnTheWay
      BY <1>1 DEF OnTheWay
    <3>2. /\ Cardinality(OnTheWay)' = Cardinality(OnTheWay) - 1
          /\ Cardinality(OnTheWay) \in Nat
      BY <3>1, Few, OnTheWayType, FS_RemoveElement
    <3>3. Len(queue) <= Cardinality(OnTheWay)
      BY <1>2, <2>2 DEF NoLostWakeup
    <3> QED BY <1>3, <3>2, <3>3 DEF NoLostWakeup
  <2> QED BY <2>1, <2>2
<1> QED BY <1>7, <1>8, <1>9, <1>10, <1>11, <1>12

(* and has run it;                                                          *)
LEMMA FinishStep ==
    ASSUME IInv, NEW t \in Thread, Finish(t)
    PROVE  IInv'
<1> USE DEF IInv
<1>1. /\ pc[t] = "run" /\ pc' \in [Thread -> Location] /\ pc'[t] = "lock"
      /\ \A s \in Thread : s # t => pc'[s] = pc[s]
  BY GoMoves DEF Finish, Location
<1>2. /\ current' \in [Thread -> Work \cup {None}]
      /\ current'[t] = None
      /\ \A s \in Thread : s # t => current'[s] = current[s]
  BY DEF TypeOK, Finish
<1>3. current[t] \in Work
  BY <1>1 DEF TypeOK, Places
<1>4. TypeOK'
  BY <1>1, <1>2, <1>3 DEF TypeOK, Finish
<1>5. Lives' /\ Counts'
  BY <1>1 DEF Lives, Counts, Finish
<1>6. Holds'
  BY <1>1 DEF Holds, Locked, Finish
<1>7. Places'
  <2>1. {current[s] : s \in Thread} \ {None}
          = ({current'[s] : s \in Thread} \ {None}) \cup {current[t]}
    BY <1>2, <1>3, TpoolAssumption
  <2>2. \A s \in Thread : current'[s] # None <=> pc'[s] = "run"
    BY <1>1, <1>2 DEF Places
  <2>3. \A r, s \in Thread : current'[r] = current'[s] /\ current'[r] # None => r = s
    BY <1>2 DEF Places
  <2>4. None \notin finished \cup dropped \cup ToSet(queue)
    <3>1. ToSet(queue) \subseteq Work
      BY DEF TypeOK, ToSet
    <3> QED BY <3>1, TpoolAssumption DEF TypeOK
  <2>5. \A s \in Thread : current'[s] # current[t]
    BY <1>2, <1>3, TpoolAssumption DEF Places
  <2>6. \A s \in Thread :
          current'[s] \notin ToSet(queue) \cup (finished \cup {current[t]}) \cup dropped
    BY <1>2, <2>4, <2>5 DEF Places
  <2> QED BY <2>1, <2>2, <2>3, <2>6 DEF Places, Finish
<1>8. NoLostWakeup'
  <2>1. OnTheWay \subseteq OnTheWay' /\ (Asleep' # {} => Asleep # {})
    BY <1>1 DEF OnTheWay, Asleep
  <2> QED BY <2>1, WakeupKept DEF Finish
<1> QED BY <1>4, <1>5, <1>6, <1>7, <1>8

-----------------------------------------------------------------------------
(* tpool_addWork. *)

(* Nobody sleeps, or one sleeper is woken. *)
LEMMA Signalled ==
    ASSUME TypeOK, Signal
    PROVE  /\ pc' \in [Thread -> Location]
           /\ \A s \in Thread : pc'[s] # pc[s] => pc[s] = "asleep" /\ pc'[s] = "lock"
           /\ Asleep # {} =>
                \E t \in Thread : t \notin OnTheWay /\ OnTheWay' = OnTheWay \cup {t}
           /\ Asleep = {} => Asleep' = {}
<1>1. CASE Asleep = {} /\ UNCHANGED pc
  BY <1>1 DEF TypeOK, Asleep
<1>2. ASSUME NEW t \in Asleep, pc' = [pc EXCEPT ![t] = "lock"]
      PROVE  /\ pc' \in [Thread -> Location]
             /\ \A s \in Thread : pc'[s] # pc[s] => pc[s] = "asleep" /\ pc'[s] = "lock"
             /\ t \notin OnTheWay /\ OnTheWay' = OnTheWay \cup {t}
  <2>1. t \in Thread /\ pc[t] = "asleep"
    BY DEF Asleep
  <2>2. /\ pc' \in [Thread -> Location] /\ pc'[t] = "lock"
        /\ \A s \in Thread : s # t => pc'[s] = pc[s]
    BY <1>2, <2>1 DEF TypeOK, Location
  <2> QED BY <2>1, <2>2 DEF OnTheWay
<1> QED BY <1>1, <1>2 DEF Signal, Asleep

(* when a work is added,                                                    *)
LEMMA AddWorkStep ==
    ASSUME IInv, NEW w \in Work, AddWork(w)
    PROVE  IInv'
<1> USE DEF IInv
<1>1. /\ pc' \in [Thread -> Location]
      /\ \A s \in Thread : pc'[s] # pc[s] => pc[s] = "asleep" /\ pc'[s] = "lock"
  BY Signalled DEF AddWork
<1>2. queue \in Seq(Work) /\ w \notin ToSet(queue)
  BY DEF TypeOK, Places, AddWork
<1>3. /\ queue' \in Seq(Work) /\ queue' # <<>>
      /\ Len(queue) \in Nat /\ Len(queue') = Len(queue) + 1
      /\ ToSet(queue') = ToSet(queue) \cup {w}
      /\ IsInjective(queue')
  BY <1>2, PutLast DEF AddWork, Places
<1>4. TypeOK'
  BY <1>1, <1>3 DEF TypeOK, AddWork
<1>5. Lives'
  BY <1>1 DEF Lives, AddWork
<1>6. Counts'
  BY <1>3, TpoolAssumption DEF Counts, AddWork
<1>7. Holds'
  <2>1. \A s \in Thread : pc[s] \notin Locked
    BY TpoolAssumption DEF Holds, AddWork
  <2>2. \A s \in Thread : pc'[s] \notin Locked
    BY <1>1, <2>1 DEF Locked
  <2> QED BY <2>2, TpoolAssumption DEF Holds, Locked, AddWork
<1>8. Places'
  <2>1. w \notin finished \cup dropped /\ \A s \in Thread : current[s] # w
    <3>1. w # None
      BY TpoolAssumption
    <3> QED BY <3>1 DEF Places, AddWork
  <2>2. \A s \in Thread : pc'[s] = "run" <=> pc[s] = "run"
    BY <1>1
  <2> QED BY <1>3, <2>1, <2>2 DEF Places, AddWork
<1>9. NoLostWakeup'
  <2>1. CASE Asleep = {}
    BY <2>1, Signalled DEF AddWork, NoLostWakeup
  <2>2. CASE Asleep # {}
    <3>1. PICK t \in Thread : t \notin OnTheWay /\ OnTheWay' = OnTheWay \cup {t}
      BY <2>2, Signalled DEF AddWork
    <3>2. /\ Cardinality(OnTheWay)' = Cardinality(OnTheWay) + 1
          /\ Cardinality(OnTheWay) \in Nat
      BY <3>1, Few, OnTheWayType, FS_AddElement
    <3>3. state = 1 => Len(queue) <= Cardinality(OnTheWay)
      BY <2>2 DEF NoLostWakeup
    <3> QED BY <1>3, <3>2, <3>3 DEF NoLostWakeup, AddWork
  <2> QED BY <2>1, <2>2
<1> QED BY <1>4, <1>5, <1>6, <1>7, <1>8, <1>9

-----------------------------------------------------------------------------
(* The owner. *)

(* when a stop sets the flag,                                               *)
LEMMA StopFlagStep ==
    ASSUME IInv, StopFlag
    PROVE  IInv'
<1> USE DEF IInv
<1>1. TypeOK' /\ Lives' /\ Counts' /\ Holds' /\ NoLostWakeup'
  BY DEF TypeOK, Lives, Counts, Holds, Locked, NoLostWakeup, StopFlag
<1>2. Places'
  BY PlacesKept DEF StopFlag
<1> QED BY <1>1, <1>2

(* wakes everybody,                                                         *)
LEMMA StopBroadcastStep ==
    ASSUME IInv, StopBroadcast
    PROVE  IInv'
<1> USE DEF IInv
<1>1. /\ pc' \in [Thread -> Location]
      /\ \A s \in Thread : pc'[s] = IF pc[s] = "asleep" THEN "lock" ELSE pc[s]
  BY DEF TypeOK, Location, StopBroadcast, WakeAll
<1>2. TypeOK'
  BY <1>1 DEF TypeOK, StopBroadcast
<1>3. Lives' /\ Counts' /\ state' = 0
  BY DEF TypeOK, Lives, Counts, StopBroadcast
<1>4. Holds'
  BY <1>1 DEF Holds, Locked, StopBroadcast
<1>5. Places'
  BY <1>1, PlacesKept DEF StopBroadcast
<1>6. NoLostWakeup'
  BY <1>3 DEF NoLostWakeup
<1> QED BY <1>2, <1>3, <1>4, <1>5, <1>6

(* joins the threads,                                                       *)
LEMMA StopJoinStep ==
    ASSUME IInv, StopJoin
    PROVE  IInv'
<1> USE DEF IInv
<1>1. TypeOK' /\ Lives' /\ Counts' /\ Holds'
  BY DEF TypeOK, Lives, Counts, Holds, Locked, StopJoin
<1>2. Places'
  BY PlacesKept DEF StopJoin
<1>3. NoLostWakeup'
  BY DEF NoLostWakeup, Lives, StopJoin
<1> QED BY <1>1, <1>2, <1>3

(* and frees the list;                                                      *)
LEMMA StopFreeStep ==
    ASSUME IInv, StopFree
    PROVE  IInv'
<1> USE DEF IInv
<1>1. ToSet(queue) \subseteq Work
  BY DEF TypeOK, ToSet
<1>2. TypeOK'
  BY <1>1, EmptyList DEF TypeOK, StopFree
<1>3. Lives' /\ Counts'
  BY DEF Lives, Counts, StopFree
<1>4. Holds'
  BY DEF Holds, Locked, Lives, StopFree
<1>5. Places'
  BY EmptyList DEF Places, StopFree
<1>6. NoLostWakeup'
  BY WakeupIdle DEF StopFree
<1> QED BY <1>2, <1>3, <1>4, <1>5, <1>6

(* and when the pool starts again.                                          *)
LEMMA StartStep ==
    ASSUME IInv, Start
    PROVE  IInv'
<1> USE DEF IInv
<1>1. /\ pc' \in [Thread -> Location]
      /\ \A s \in Thread : pc'[s] = "lock" /\ pc[s] = "gone"
      /\ queue' = queue /\ queue' = <<>>
  BY DEF Location, Lives, Start
<1>2. TypeOK'
  BY <1>1, EmptyList, TpoolAssumption DEF TypeOK, Start
<1>3. Lives' /\ Counts'
  BY EmptyList, TpoolAssumption DEF Lives, Counts, Start
<1>4. Holds'
  BY <1>1, TpoolAssumption DEF Holds, Locked, Start
<1>5. Places'
  BY <1>1, PlacesKept DEF Start
<1>6. NoLostWakeup'
  BY <1>1, WakeupIdle
<1> QED BY <1>2, <1>3, <1>4, <1>5, <1>6

(* So every step keeps the invariant.                                       *)
LEMMA StepKeeps ==
    ASSUME IInv, [Next]_vars
    PROVE  IInv'
<1>1. ASSUME NEW t \in Thread, Run(t) \/ WakeSpuriously(t) PROVE IInv'
  BY <1>1, LockStep, TestStep, SleepStep, LeaveStep, TakeStep, FinishStep,
     WakeSpuriouslyStep DEF Run
<1>2. ASSUME NEW w \in Work, AddWork(w) PROVE IInv'
  BY <1>2, AddWorkStep
<1>3. CASE StopFlag \/ Stop \/ Start
  BY <1>3, StopFlagStep, StopBroadcastStep, StopJoinStep, StopFreeStep, StartStep DEF Stop
<1>4. CASE UNCHANGED vars
  BY <1>4 DEF vars, IInv, TypeOK, Lives, Holds, Counts, Places, NoLostWakeup,
     Asleep, OnTheWay
<1> QED BY <1>1, <1>2, <1>3, <1>4 DEF Next

-----------------------------------------------------------------------------
(* What the invariant shows of a state. *)

(* A work that is in one place at a time is conserved.                      *)
LEMMA OnePlace ==
    ASSUME IInv
    PROVE  Conservation
<1> USE DEF IInv
<1> SUFFICES ASSUME NEW w \in Work
             PROVE  LET places == {x \in {"list", "done", "freed"} \cup Thread :
                                    \/ x = "list" /\ w \in ToSet(queue)
                                    \/ x = "done" /\ w \in finished
                                    \/ x = "freed" /\ w \in dropped
                                    \/ x \in Thread /\ current[x] = w}
                    IN  Cardinality(places) = IF w \in accepted THEN 1 ELSE 0
  BY DEF Conservation, Counts, Places
<1> DEFINE places == {x \in {"list", "done", "freed"} \cup Thread :
                        \/ x = "list" /\ w \in ToSet(queue)
                        \/ x = "done" /\ w \in finished
                        \/ x = "freed" /\ w \in dropped
                        \/ x \in Thread /\ current[x] = w}
<1> SUFFICES Cardinality(places) = IF w \in accepted THEN 1 ELSE 0
  OBVIOUS
<1>1. w # None
  BY TpoolAssumption
<1>2. CASE w \notin accepted
  <2>1. w \notin ToSet(queue) \cup finished \cup dropped
    BY <1>2 DEF Places
  <2>2. \A t \in Thread : current[t] # w
    BY <1>1, <1>2 DEF Places
  <2>3. places = {}
    BY <2>1, <2>2
  <2> QED BY <1>2, <2>3, FS_EmptySet
<1>3. ASSUME w \in accepted, NEW p, places = {p}
      PROVE  Cardinality(places) = IF w \in accepted THEN 1 ELSE 0
  BY <1>3, FS_Singleton
<1>4. CASE w \in ToSet(queue)
  <2>1. w \in accepted /\ w \notin finished \cup dropped
    BY <1>4 DEF Places
  <2>2. \A t \in Thread : current[t] # w
    BY <1>4 DEF Places
  <2>3. places = {"list"}
    BY <1>4, <2>1, <2>2
  <2> QED BY <1>3, <2>1, <2>3
<1>5. CASE w \in finished
  <2>1. w \in accepted /\ w \notin ToSet(queue) \cup dropped
    BY <1>5 DEF Places
  <2>2. \A t \in Thread : current[t] # w
    BY <1>5 DEF Places
  <2>3. places = {"done"}
    BY <1>5, <2>1, <2>2
  <2> QED BY <1>3, <2>1, <2>3
<1>6. CASE w \in dropped
  <2>1. w \in accepted /\ w \notin ToSet(queue) \cup finished
    BY <1>6 DEF Places
  <2>2. \A t \in Thread : current[t] # w
    BY <1>6 DEF Places
  <2>3. places = {"freed"}
    BY <1>6, <2>1, <2>2
  <2> QED BY <1>3, <2>1, <2>3
<1>7. ASSUME NEW t \in Thread, current[t] = w
      PROVE  Cardinality(places) = IF w \in accepted THEN 1 ELSE 0
  <2>1. w \in accepted /\ w \notin ToSet(queue) \cup finished \cup dropped
    BY <1>1, <1>7 DEF Places
  <2>2. \A s \in Thread : current[s] = w => s = t
    BY <1>1, <1>7 DEF Places
  <2>3. places = {t}
    BY <1>7, <2>1, <2>2
  <2> QED BY <1>3, <2>1, <2>3
<1> QED
  <2> SUFFICES ASSUME w \in accepted
               PROVE  w \in ToSet(queue) \cup finished \cup dropped
                      \/ \E t \in Thread : current[t] = w
    BY <1>2, <1>4, <1>5, <1>6, <1>7
  <2> QED BY DEF Places

(* Nothing is left of a pool whose threads have left.                       *)
LEMMA Quiet ==
    ASSUME IInv
    PROVE  StoppedIsQuiet
<1> USE DEF IInv
<1> SUFFICES ASSUME owner = "down"
             PROVE  /\ \A t \in Thread : pc[t] = "gone" /\ current[t] = None
                    /\ accepted = finished \cup dropped
  BY DEF StoppedIsQuiet
<1>1. \A t \in Thread : pc[t] = "gone" /\ current[t] = None
  BY DEF Lives, Places
<1>2. ToSet(queue) = {} /\ {current[t] : t \in Thread} \ {None} = {}
  BY <1>1, EmptyList DEF Lives
<1> QED BY <1>1, <1>2 DEF Places

-----------------------------------------------------------------------------
(* Theorems. *)

(* The invariant holds always.                                              *)
LEMMA Invariance == Spec => []IInv
<1>1. IInv /\ [Next]_vars => IInv'
  BY StepKeeps
<1> QED BY <1>1, InitHolds, PTL DEF Spec

(* tool_tpool.c's state keeps its types. *)
THEOREM TypeCorrect == Spec => []TypeOK
<1>1. IInv => TypeOK
  BY DEF IInv
<1> QED BY <1>1, Invariance, PTL

(* A work tpool_addWork accepted is in exactly one place, and work_num is    *)
(* the length of the list while the pool accepts work.                       *)
THEOREM WorksConserved == Spec => []Conservation
<1>1. IInv => Conservation
  BY OnePlace
<1> QED BY <1>1, Invariance, PTL

(* While a thread sleeps in tool_thread_waitCond, every work on the list has *)
(* a thread on its way to it.                                                *)
THEOREM WakeupsKept == Spec => []NoLostWakeup
<1>1. IInv => NoLostWakeup
  BY DEF IInv
<1> QED BY <1>1, Invariance, PTL

(* After tpool_stop no thread of the pool runs and every accepted work was   *)
(* run or freed.                                                             *)
THEOREM StopLeavesNothing == Spec => []StoppedIsQuiet
<1>1. IInv => StoppedIsQuiet
  BY Quiet
<1> QED BY <1>1, Invariance, PTL
=============================================================================
