--------------------------- MODULE NcQhPbs_proofs ---------------------------
(***************************************************************************)
(* Proofs about playback sessions of the qh driver, for every recording,   *)
(* every set of requests and any number of failures.                       *)
(***************************************************************************)
EXTENDS NcQhPbs, TLAPS, FiniteSetTheorems, WellFoundedInduction

(* The part of TypeOK the requests depend on. *)
Shape ==
    /\ cmd \in 1..4
    /\ flag \in [Cmd -> Nat]
    /\ owed \in [Cmd -> BOOLEAN]

(* The thread holds user->mutex from the test of a flag to its clearing: no  *)
(* request comes between.                                                    *)
Held == pc \in {"send", "clear"} => mutex

IInv == Shape /\ Held /\ RequestKept

(* The four requests of a pass.                                             *)
LEMMA OrderIsCmd == Len(Order) = 4 /\ \A i \in 1..4 : Order[i] \in Cmd
BY DEF Order, Cmd

(* No request is owed at the start.                                         *)
LEMMA InitHolds == Init => IInv
BY OrderIsCmd DEF Init, IInv, Shape, Held, RequestKept

(* A request keeps the other flags, and finds the mutex free: the thread is   *)
(* not between the send and the clear of a flag.                             *)
LEMMA AskStep ==
    ASSUME IInv, NEW k \in Cmd, NEW v \in Values[k], Ask(k, v)
    PROVE  IInv'
<1>1. v \in Nat
  BY PbsAssumption
<1>2. Shape' /\ Held'
  BY <1>1 DEF Ask, IInv, Shape, Held
<1>3. RequestKept'
  BY <1>1, <1>2, OrderIsCmd DEF Ask, IInv, Shape, Held, RequestKept
<1> QED BY <1>2, <1>3 DEF IInv

(* What leaves the requests and the thread's place among them alone, or ends *)
(* the pass without having cleared a flag.                                   *)
LEMMA OtherStep ==
    ASSUME IInv,
           UNCHANGED <<flag, owed>>,
           cmd' \in 1..4,
           \/ UNCHANGED <<pc, cmd, mutex>>
           \/ pc # "clear" /\ pc' \notin {"send", "clear"}
           \/ pc # "clear" /\ pc' = "send" /\ mutex'
    PROVE  IInv'
BY DEF IInv, Shape, Held, RequestKept

(* A pass that ends early leaves the requests it has not sent for the next. *)
LEMMA GiveUpStep ==
    ASSUME IInv, NEW from, NEW report, GiveUp(from, report), from # "clear"
    PROVE  IInv'
<1>1. pc # "clear" /\ pc' = "top" /\ cmd' = 1 /\ UNCHANGED <<flag, owed>>
  BY DEF GiveUp, Go, user
<1>2. cmd' \in 1..4 /\ pc' \notin {"send", "clear"}
  BY <1>1
<1> QED BY <1>1, <1>2, OtherStep

(* A request is owed until it is sent,                                      *)
LEMMA SendStep ==
    ASSUME IInv, Send
    PROVE  IInv'
<1>1. /\ pc = "send" /\ pc' = "clear" /\ UNCHANGED <<flag, cmd, mutex>>
      /\ owed' = [owed EXCEPT ![Order[cmd]] = FALSE]
  BY DEF Send, Go, user
<1>2. Shape' /\ Held'
  BY <1>1, OrderIsCmd DEF IInv, Shape, Held
<1>3. RequestKept'
  BY <1>1, <1>2, OrderIsCmd DEF IInv, Shape, RequestKept
<1> QED BY <1>2, <1>3 DEF IInv

(* a pass goes on to the next request or to polling,                        *)
LEMMA AdvanceStep ==
    ASSUME cmd \in 1..4, Advance
    PROVE  /\ cmd' \in 1..4
           /\ \/ pc' = "send" /\ UNCHANGED mutex
              \/ pc' = "poll"
<1>1. CASE cmd < Len(Order)
  <2>1. cmd < 4
    BY <1>1, OrderIsCmd
  <2>2. pc' = "send" /\ cmd' = cmd + 1 /\ UNCHANGED mutex
    BY <1>1 DEF Advance
  <2> QED BY <2>1, <2>2
<1>2. CASE ~(cmd < Len(Order))
  <2>1. pc' = "poll" /\ cmd' = 1
    BY <1>2 DEF Advance
  <2> QED BY <2>1
<1> QED BY <1>1, <1>2

(* a flag is reset in the same hold of the mutex in which its request went  *)
(* out,                                                                     *)
LEMMA ClearStep ==
    ASSUME IInv, Clear
    PROVE  IInv'
<1>1. /\ pc = "clear" /\ UNCHANGED owed
      /\ flag' = [flag EXCEPT ![Order[cmd]] = 0]
      /\ Advance
  BY DEF Clear
<1>2. /\ cmd' \in 1..4
      /\ \/ pc' = "send" /\ UNCHANGED mutex
         \/ pc' = "poll"
  BY <1>1, AdvanceStep DEF IInv, Shape
<1>3. Shape' /\ Held'
  <2>1. Order[cmd] \in Cmd
    BY OrderIsCmd DEF IInv, Shape
  <2>2. Shape'
    BY <1>1, <1>2, <2>1 DEF IInv, Shape
  <2>3. Held'
    <3>1. pc \in {"send", "clear"}
      BY <1>1
    <3>2. mutex
      BY <3>1, Zenon DEF IInv, Held
    <3>3. CASE pc' = "send" /\ UNCHANGED mutex
      BY <3>2, <3>3 DEF Held
    <3>4. CASE pc' = "poll"
      BY <3>4 DEF Held
    <3> QED BY <1>2, <3>3, <3>4
  <2> QED BY <2>2, <2>3
<1>4. RequestKept'
  BY <1>1, <1>2, <1>3, OrderIsCmd DEF IInv, Shape, RequestKept
<1> QED BY <1>3, <1>4 DEF IInv

(* and a request nobody made is passed over.                                *)
LEMMA SkipStep ==
    ASSUME IInv, Skip
    PROVE  IInv'
<1>1. pc = "send" /\ mutex /\ UNCHANGED <<flag, owed>> /\ Advance
  BY DEF Skip, IInv, Held, user
<1>2. /\ cmd' \in 1..4
      /\ \/ pc' = "send" /\ UNCHANGED mutex
         \/ pc' = "poll"
  BY <1>1, AdvanceStep DEF IInv, Shape
<1> QED BY <1>1, <1>2, OtherStep

(* The thread keeps the invariant,                                          *)
LEMMA ThreadStep ==
    ASSUME IInv, Thread
    PROVE  IInv'
<1>0. cmd \in 1..4
  BY DEF IInv, Shape
<1>1. CASE Leave \/ Ended \/ Wait \/ Dial \/ Continue
  BY <1>0, <1>1, OtherStep DEF Leave, Ended, Wait, Dial, Continue, Go, user
<1>2. CASE Connect \/ Login \/ Start
  BY <1>0, <1>2, OtherStep DEF Connect, Login, Start, Go, user
<1>3. CASE ConnectFails
  BY <1>3, GiveUpStep DEF ConnectFails
<1>4. CASE Beat
  BY <1>0, <1>4, OtherStep DEF Beat, Go, user
<1>5. CASE Skip \/ Send \/ Clear
  BY <1>5, SkipStep, SendStep, ClearStep
<1>6. CASE Receive \/ ReceiveEnd \/ PollTimeout
  BY <1>0, <1>6, OtherStep DEF Receive, ReceiveEnd, PollTimeout, Go, user
<1>7. CASE PassFails
  BY <1>7, GiveUpStep DEF PassFails, SendFails
<1> QED BY <1>1, <1>2, <1>3, <1>4, <1>5, <1>6, <1>7 DEF Thread

(* and so does every step.                                                  *)
LEMMA StepKeeps == IInv /\ [Next]_vars => IInv'
<1> SUFFICES ASSUME IInv, [Next]_vars PROVE IInv'
  OBVIOUS
<1>0. cmd \in 1..4
  BY DEF IInv, Shape
<1>1. CASE Stop \/ DeviceSends \/ DeviceObeys
  BY <1>0, <1>1, OtherStep DEF Stop, DeviceSends, DeviceObeys, user
<1>2. CASE UNCHANGED vars
  BY <1>0, <1>2, OtherStep DEF vars, user
<1> QED BY <1>1, <1>2, AskStep, ThreadStep DEF Next

(* Whatever the application asks for and however often the connection        *)
(* breaks, nc_qh_user_doPbs neither forgets a request before it is sent nor  *)
(* sends it twice.                                                           *)
THEOREM RequestSafety == Spec => []RequestKept
<1>1. IInv => RequestKept
  BY DEF IInv
<1> QED BY <1>1, InitHolds, StepKeeps, PTL DEF Spec

-----------------------------------------------------------------------------
(* The frame a device starts from. *)

(* Every nonempty set of naturals has a least element: the intervals up to   *)
(* its elements are finite sets, and inclusion of those is well-founded.     *)
LEMMA Least ==
    ASSUME NEW Q, Q \subseteq Nat, Q # {}
    PROVE  \E m \in Q : \A n \in Q : m <= n
<1> DEFINE T == {1..n : n \in Q}
<1>1. T # {} /\ T \subseteq FiniteSubsetsOf(Nat)
  <2> SUFFICES ASSUME NEW n \in Q PROVE 1..n \in SUBSET Nat /\ IsFiniteSet(1..n)
    BY DEF FiniteSubsetsOf
  <2> QED BY FS_Interval
<1>2. PICK t \in T : \A s \in T : ~ (<<s, t>> \in StrictSubsetOrdering(Nat))
  <2> HIDE DEF T
  <2> QED BY <1>1, FS_StrictSubsetOrderingWellFounded, WFMin
<1>3. PICK m \in Q : t = 1..m
  OBVIOUS
<1>4. ASSUME NEW n \in Q, n < m PROVE FALSE
  <2>1. 1..n \subseteq 1..m /\ m \in 1..m /\ m \notin 1..n /\ 1..n \subseteq Nat /\ 1..m \subseteq Nat
    BY <1>4
  <2>2. <<1..n, 1..m>> \in StrictSubsetOrdering(Nat)
    BY <2>1 DEF StrictSubsetOrdering
  <2> QED BY <1>2, <1>3, <2>2
<1> QED BY <1>4

(* The device finds a frame for every second it is asked for. *)
LEMMA FirstFromFound ==
    ASSUME NEW sec \in Nat
    PROVE  /\ FirstFrom(sec) \in 1..End
           /\ FirstFrom(sec) = End \/ SecondOf[FirstFrom(sec)] >= sec
           /\ \A g \in Frame : SecondOf[g] >= sec => FirstFrom(sec) <= g
<1> DEFINE Q == {f \in 1..End : f = End \/ SecondOf[f] >= sec}
<1>1. Len(SecondOf) \in Nat /\ End \in Nat /\ End \in 1..End
  BY PbsAssumption DEF End
<1>2. Q \subseteq Nat /\ End \in Q
  BY <1>1
<1>3. PICK m \in Q : \A n \in Q : m <= n
  <2> HIDE DEF Q
  <2> QED BY <1>2, Least
<1>4. \A g \in Frame : SecondOf[g] >= sec => m <= g
  BY <1>1, <1>3 DEF Frame, End
<1> QED BY <1>3, <1>4 DEF FirstFrom

-----------------------------------------------------------------------------
(* The pass and its connection. *)

(* TypeOK in three parts: what is true or false, the session, the network.   *)
Switches ==
    /\ live \in BOOLEAN /\ cooling \in BOOLEAN /\ mutex \in BOOLEAN
    /\ sought \in BOOLEAN /\ paused \in BOOLEAN
    /\ owed \in [Cmd -> BOOLEAN]
SessionTypes ==
    /\ pc \in {"top", "dial", "login", "start", "beat", "send", "clear", "poll", "gone"}
    /\ cmd \in 1..4
    /\ state \in {0, 1} /\ endFlag \in {0, 1}
    /\ lastType \in {"none", "wait", "timeout", "connect", "connect_fail", "login", "login_fail",
                     "auth_fail", "video_busy", "start", "start_fail", "running"}
    /\ flag \in [Cmd -> Nat]
    /\ startTime \in Nat /\ last \in 0..Len(SecondOf)
    /\ asks \in 0..MaxAsk /\ breaks \in 0..MaxBreak
DeviceTypes ==
    /\ next \in 0..(End + 1)
    /\ wire \in Seq([cmd : Cmd, value : Nat])
    /\ chan \in Seq([frame : 1..End, sought : BOOLEAN])

(* A position is that of a frame, also on its way to the device. *)
Positions ==
    /\ flag["pos"] \in Frame \cup {0}
    /\ \A i \in 1..Len(wire) : wire[i].cmd = "pos" => wire[i].value \in Frame

(* A pass works on an open connection whose stream was reported. *)
Reported ==
    /\ pc \in {"login", "start", "beat", "send", "clear", "poll"} => live
    /\ live /\ pc \notin {"login", "start"} => lastType \in {"running", "timeout"}

(* After the end no connection is open and none is being opened. *)
Closed == endFlag = 1 => ~live /\ pc \in {"top", "gone"}

PassInv == Switches /\ SessionTypes /\ DeviceTypes /\ Positions /\ Reported /\ Closed

(* The recording has a first frame, and every frame a second.               *)
LEMMA SecondsType ==
    /\ Len(SecondOf) \in Nat \ {0} /\ End = Len(SecondOf) + 1 /\ Frame = 1..Len(SecondOf)
    /\ \A f \in Frame : SecondOf[f] \in Nat
    /\ 1 \in Frame
BY PbsAssumption DEF Frame, End

(* The invariant of the pass has the types in it.                           *)
LEMMA PassTypes == PassInv => TypeOK
BY OrderIsCmd DEF PassInv, Switches, SessionTypes, DeviceTypes, TypeOK

(* It holds at the start,                                                   *)
LEMMA PassInit == Init => PassInv
<1> SUFFICES ASSUME Init PROVE PassInv
  OBVIOUS
<1>1. asks \in 0..MaxAsk /\ breaks \in 0..MaxBreak
  BY PbsAssumption DEF Init
<1>2. startTime \in Nat /\ last \in 0..Len(SecondOf) /\ next \in 0..(End + 1)
  BY SecondsType DEF Init
<1>3. SessionTypes
  BY <1>1, <1>2 DEF Init, SessionTypes
<1>4. DeviceTypes
  BY <1>2 DEF Init, DeviceTypes
<1>5. Switches
  BY DEF Init, Switches
<1>6. Positions /\ Reported /\ Closed
  BY DEF Init, Positions, Reported, Closed, Cmd
<1> QED BY <1>3, <1>4, <1>5, <1>6 DEF PassInv

(* when the application asks for something,                                 *)
LEMMA AskPass ==
    ASSUME PassInv, NEW k \in Cmd, NEW v \in Values[k], Ask(k, v)
    PROVE  PassInv'
<1>1. v \in Nat /\ (k = "pos" => v \in Frame \cup {0})
  BY PbsAssumption
<1>2. Switches' /\ SessionTypes' /\ DeviceTypes'
  <2>1. owed' \in [Cmd -> BOOLEAN]
    BY DEF PassInv, Switches, Ask
  <2>2. Switches'
    BY <2>1 DEF PassInv, Switches, Ask, device
  <2>3. SessionTypes' /\ DeviceTypes'
    BY <1>1, PbsAssumption DEF PassInv, SessionTypes, DeviceTypes, Ask, device
  <2> QED BY <2>2, <2>3
<1>3. flag'["pos"] \in Frame \cup {0}
  BY <1>1 DEF PassInv, SessionTypes, Positions, Ask, Cmd
<1>4. Positions' /\ Reported' /\ Closed'
  BY <1>3 DEF PassInv, Positions, Reported, Closed, Ask, device, Frame
<1> QED BY <1>2, <1>4 DEF PassInv

(* when it stops the playback,                                              *)
LEMMA StopPass ==
    ASSUME PassInv, Stop
    PROVE  PassInv'
BY DEF PassInv, Switches, SessionTypes, DeviceTypes, Positions, Reported, Closed, Frame, Stop,
       user, device

-----------------------------------------------------------------------------
(* The device. *)

(* What the device does leaves the session alone. *)
LEMMA DevicePass ==
    ASSUME PassInv, UNCHANGED <<pc, cmd, state, live, cooling, lastType, mutex, user, owed, asks, breaks>>,
           sought' \in BOOLEAN, paused' \in BOOLEAN, DeviceTypes',
           \A i \in 1..Len(wire') : wire'[i].cmd = "pos" => wire'[i].value \in Frame
    PROVE  PassInv'
<1>1. SessionTypes' /\ Reported' /\ Closed'
  BY DEF PassInv, SessionTypes, Reported, Closed, user
<1>2. Positions'
  BY DEF PassInv, Positions, user, Frame
<1>3. Switches'
  BY DEF PassInv, Switches
<1> QED BY <1>1, <1>2, <1>3 DEF PassInv

(* when the device sends a frame or the end,                                *)
LEMMA DeviceSendsPass ==
    ASSUME PassInv, DeviceSends
    PROVE  PassInv'
<1>1. next \in 0..(End + 1) /\ next # 0 /\ next <= End /\ next' = next + 1
  BY DEF PassInv, DeviceTypes, DeviceSends
<1>2. next \in 1..End /\ next' \in 0..(End + 1)
  BY <1>1, SecondsType
<1>3. [frame |-> next, sought |-> sought] \in [frame : 1..End, sought : BOOLEAN]
  BY <1>2 DEF PassInv, Switches
<1>4. chan' \in Seq([frame : 1..End, sought : BOOLEAN])
  BY <1>3 DEF PassInv, DeviceTypes, DeviceSends
<1>5. DeviceTypes'
  BY <1>2, <1>4 DEF PassInv, DeviceTypes, DeviceSends
<1>6. sought' \in BOOLEAN /\ paused' \in BOOLEAN
  BY DEF PassInv, Switches, DeviceSends
<1> QED BY <1>5, <1>6, DevicePass DEF DeviceSends, PassInv, Positions

(* when it does what it was asked,                                          *)
LEMMA DeviceObeysPass ==
    ASSUME PassInv, DeviceObeys
    PROVE  PassInv'
<1> DEFINE r == Head(wire)
<1>1. /\ wire \in Seq([cmd : Cmd, value : Nat]) /\ wire # <<>>
      /\ r = wire[1] /\ 1 \in 1..Len(wire)
      /\ wire' \in Seq([cmd : Cmd, value : Nat])
      /\ \A i \in 1..Len(wire') : i + 1 \in 1..Len(wire) /\ wire'[i] = wire[i + 1]
  BY DEF PassInv, DeviceTypes, DeviceObeys
<1>2. r.cmd = "pos" => r.value \in Frame
  BY <1>1 DEF PassInv, Positions
<1>3. \A f \in Frame : f \in 0..(End + 1)
  BY SecondsType
<1>4. next' \in 0..(End + 1)
  BY <1>2, <1>3 DEF PassInv, DeviceTypes, DeviceObeys
<1>5. sought' \in BOOLEAN /\ paused' \in BOOLEAN
  BY DEF PassInv, Switches, DeviceObeys
<1>6. DeviceTypes'
  BY <1>1, <1>4 DEF PassInv, DeviceTypes, DeviceObeys
<1>7. \A i \in 1..Len(wire') : wire'[i].cmd = "pos" => wire'[i].value \in Frame
  BY <1>1 DEF PassInv, Positions
<1> QED BY <1>5, <1>6, <1>7, DevicePass DEF DeviceObeys

-----------------------------------------------------------------------------
(* The thread. *)

(* What is in flight stays, or is lost with the connection. *)
LEMMA LineKept ==
    ASSUME PassInv, UNCHANGED device \/ Disconnect
    PROVE  /\ sought' \in BOOLEAN /\ paused' \in BOOLEAN /\ DeviceTypes'
           /\ \A i \in 1..Len(wire') : wire'[i].cmd = "pos" => wire'[i].value \in Frame
<1>1. CASE UNCHANGED device
  BY <1>1 DEF PassInv, Switches, DeviceTypes, Positions, device
<1>2. CASE Disconnect
  <2>1. next' \in 0..(End + 1)
    BY <1>2, SecondsType DEF Disconnect
  <2>2. DeviceTypes'
    BY <1>2, <2>1 DEF DeviceTypes, Disconnect
  <2>3. sought' \in BOOLEAN /\ paused' \in BOOLEAN
    BY <1>2 DEF Disconnect
  <2>4. Len(wire') = 0
    BY <1>2 DEF Disconnect
  <2> QED BY <2>2, <2>3, <2>4
<1> QED BY <1>1, <1>2

(* Steps of the thread that leave the requests and the frames alone. *)
LEMMA QuietPass ==
    ASSUME PassInv, UNCHANGED flag, UNCHANGED device \/ Disconnect,
           live' \in BOOLEAN, cooling' \in BOOLEAN, mutex' \in BOOLEAN, UNCHANGED owed,
           SessionTypes', Reported', Closed'
    PROVE  PassInv'
<1>1. Positions'
  BY LineKept DEF PassInv, Positions, Frame
<1>2. Switches'
  BY LineKept DEF PassInv, Switches
<1> QED BY <1>1, <1>2, LineKept DEF PassInv

(* however often the connection breaks,                                     *)
LEMMA BreaksType ==
    ASSUME PassInv, Works \/ Fails
    PROVE  breaks' \in 0..MaxBreak
BY PbsAssumption DEF PassInv, SessionTypes, Works, Fails

(* at the top of a pass,                                                    *)
LEMMA TopPass ==
    ASSUME PassInv, Leave \/ Ended \/ Wait \/ Dial \/ Continue
    PROVE  PassInv'
<1>1. CASE Leave
  <2>1. SessionTypes' /\ Reported' /\ Closed'
    BY <1>1 DEF PassInv, SessionTypes, Reported, Closed, Leave, Go, user
  <2>2. live' \in BOOLEAN /\ cooling' \in BOOLEAN /\ mutex' \in BOOLEAN
    BY <1>1 DEF PassInv, Switches, Leave
  <2> QED BY <1>1, <2>1, <2>2, QuietPass DEF Leave, user
<1>2. CASE Ended
  <2>1. SessionTypes' /\ Reported' /\ Closed'
    BY <1>2 DEF PassInv, SessionTypes, Reported, Closed, Ended, MayTimeOut, user
  <2>2. live' \in BOOLEAN /\ cooling' \in BOOLEAN /\ mutex' \in BOOLEAN
    BY <1>2 DEF PassInv, Switches, Ended
  <2> QED BY <1>2, <2>1, <2>2, QuietPass DEF Ended, user
<1>3. CASE Wait
  <2>1. SessionTypes' /\ Reported' /\ Closed'
    BY <1>3 DEF PassInv, SessionTypes, Reported, Closed, Wait, user
  <2>2. live' \in BOOLEAN /\ cooling' \in BOOLEAN /\ mutex' \in BOOLEAN
    BY <1>3 DEF PassInv, Switches, Wait
  <2> QED BY <1>3, <2>1, <2>2, QuietPass DEF Wait, user
<1>4. CASE Dial
  <2>1. SessionTypes' /\ Reported' /\ Closed'
    BY <1>4 DEF PassInv, SessionTypes, Reported, Closed, Dial, Unfinished, Go, user
  <2>2. live' \in BOOLEAN /\ cooling' \in BOOLEAN /\ mutex' \in BOOLEAN
    BY <1>4 DEF PassInv, Switches, Dial
  <2> QED BY <1>4, <2>1, <2>2, QuietPass DEF Dial, user
<1>5. CASE Continue
  <2>1. SessionTypes' /\ Reported' /\ Closed'
    BY <1>5 DEF PassInv, SessionTypes, Reported, Closed, Continue, MayTimeOut, Unfinished, Go, user
  <2>2. live' \in BOOLEAN /\ cooling' \in BOOLEAN /\ mutex' \in BOOLEAN
    BY <1>5 DEF PassInv, Switches, Continue
  <2> QED BY <1>5, <2>1, <2>2, QuietPass DEF Continue, user
<1> QED BY <1>1, <1>2, <1>3, <1>4, <1>5

(* when a pass ends early,                                                  *)
LEMMA GiveUpPass ==
    ASSUME PassInv, NEW from,
           NEW report \in {"connect_fail", "login_fail", "auth_fail", "video_busy", "start_fail", "wait"},
           GiveUp(from, report), from \notin {"top", "gone"}
    PROVE  PassInv'
<1>1. breaks' \in 0..MaxBreak
  BY BreaksType DEF GiveUp
<1>2. SessionTypes'
  BY <1>1 DEF PassInv, SessionTypes, GiveUp, Go, user
<1>3. Reported' /\ Closed'
  BY DEF PassInv, Reported, Closed, GiveUp, Go, user
<1>4. live' \in BOOLEAN /\ cooling' \in BOOLEAN /\ mutex' \in BOOLEAN
  BY DEF GiveUp
<1> QED BY <1>2, <1>3, <1>4, QuietPass DEF GiveUp, user

(* while the connection is made,                                            *)
LEMMA ConnectPass ==
    ASSUME PassInv, Connect \/ Login \/ Start
    PROVE  PassInv'
<1>0. breaks' \in 0..MaxBreak
  BY BreaksType DEF Connect, Login, Start
<1>1. CASE Connect
  <2>1. SessionTypes' /\ Reported' /\ Closed'
    BY <1>0, <1>1 DEF PassInv, SessionTypes, Reported, Closed, Connect, Go, user
  <2>2. live' \in BOOLEAN /\ cooling' \in BOOLEAN /\ mutex' \in BOOLEAN
    BY <1>1 DEF PassInv, Switches, Connect
  <2> QED BY <1>1, <2>1, <2>2, QuietPass DEF Connect, user
<1>2. CASE Login
  <2>1. SessionTypes' /\ Reported' /\ Closed'
    BY <1>0, <1>2 DEF PassInv, SessionTypes, Reported, Closed, Login, Go, user
  <2>2. live' \in BOOLEAN /\ cooling' \in BOOLEAN /\ mutex' \in BOOLEAN
    BY <1>2 DEF PassInv, Switches, Login
  <2> QED BY <1>2, <2>1, <2>2, QuietPass DEF Login, user
<1>3. CASE Start
  <2>0. SessionTypes'
    BY <1>0, <1>3 DEF PassInv, SessionTypes, Start, Go, user
  <2>1. Reported' /\ Closed'
    BY <1>3 DEF PassInv, Reported, Closed, Start, Go, user
  <2>2. next' \in 1..End /\ wire' = <<>> /\ chan' = <<>>
    BY <1>3, FirstFromFound DEF PassInv, SessionTypes, Start, DeviceStarts
  <2>3. next' \in 0..(End + 1)
    BY <2>2, SecondsType
  <2>4. DeviceTypes'
    BY <2>2, <2>3 DEF DeviceTypes
  <2>5. Positions'
    BY <1>3, <2>2 DEF PassInv, Positions, Start, user, Frame
  <2>6. Switches'
    BY <1>3 DEF PassInv, Switches, Start, DeviceStarts
  <2> QED BY <2>0, <2>1, <2>4, <2>5, <2>6 DEF PassInv
<1> QED BY <1>1, <1>2, <1>3

(* at a heart beat,                                                         *)
LEMMA BeatPass ==
    ASSUME PassInv, Beat
    PROVE  PassInv'
<1>1. SessionTypes'
  BY DEF PassInv, SessionTypes, Beat, Go, user
<1>2. Reported' /\ Closed'
  BY DEF PassInv, Reported, Closed, Beat, Go, user
<1>3. live' \in BOOLEAN /\ cooling' \in BOOLEAN /\ mutex' \in BOOLEAN
  BY DEF PassInv, Switches, Beat
<1> QED BY <1>1, <1>2, <1>3, QuietPass DEF Beat, user

(* On to the next request, or out to the poll. *)
LEMMA AdvancePass ==
    ASSUME cmd \in 1..4, mutex \in BOOLEAN, Advance
    PROVE  cmd' \in 1..4 /\ pc' \in {"send", "poll"} /\ mutex' \in BOOLEAN
<1>1. cmd' \in 1..4 /\ pc' \in {"send", "poll"}
  BY AdvanceStep
<1>2. mutex' \in BOOLEAN
  BY DEF Advance
<1> QED BY <1>1, <1>2

(* when a request is passed over,                                           *)
LEMMA SkipPass ==
    ASSUME PassInv, Skip
    PROVE  PassInv'
<1>1. cmd' \in 1..4 /\ pc' \in {"send", "poll"} /\ mutex' \in BOOLEAN /\ pc = "send"
  BY AdvancePass DEF PassInv, Switches, SessionTypes, Skip
<1>2. SessionTypes'
  BY <1>1 DEF PassInv, SessionTypes, Skip, user
<1>3. Reported' /\ Closed'
  BY <1>1 DEF PassInv, Reported, Closed, Skip, user
<1>4. live' \in BOOLEAN /\ cooling' \in BOOLEAN
  BY DEF PassInv, Switches, Skip
<1> QED BY <1>1, <1>2, <1>3, <1>4, QuietPass DEF Skip, user

(* sent,                                                                    *)
LEMMA SendPass ==
    ASSUME PassInv, Send
    PROVE  PassInv'
<1> DEFINE k == Order[cmd]
           r == [cmd |-> k, value |-> flag[k]]
<1>1. /\ k \in Cmd /\ flag[k] \in Nat /\ r \in [cmd : Cmd, value : Nat]
      /\ r.cmd = k /\ r.value = flag[k]
  BY OrderIsCmd DEF PassInv, SessionTypes
<1>2. r.cmd = "pos" => r.value \in Frame
  BY <1>1 DEF PassInv, Positions, Send
<1> HIDE DEF r
<1>3. wire' = Append(wire, r) /\ wire \in Seq([cmd : Cmd, value : Nat])
  BY DEF PassInv, DeviceTypes, Send, r
<1>4. /\ wire' \in Seq([cmd : Cmd, value : Nat])
      /\ \A i \in 1..Len(wire') :
            (i \in 1..Len(wire) /\ wire'[i] = wire[i]) \/ wire'[i] = r
  BY <1>1, <1>3
<1>5. breaks' \in 0..MaxBreak
  BY BreaksType DEF Send
<1>6. SessionTypes'
  BY <1>5 DEF PassInv, SessionTypes, Send, Go, user
<1>7. Reported' /\ Closed'
  BY DEF PassInv, Reported, Closed, Send, Go, user
<1>8. DeviceTypes'
  BY <1>4 DEF PassInv, DeviceTypes, Send
<1>9. Switches'
  BY DEF PassInv, Switches, Send
<1>10. Positions'
  <2>1. UNCHANGED flag
    BY DEF Send, user
  <2> QED BY <1>2, <1>4, <2>1 DEF PassInv, Positions, Frame
<1> QED BY <1>6, <1>7, <1>8, <1>9, <1>10 DEF PassInv

(* or its flag reset,                                                       *)
LEMMA ClearPass ==
    ASSUME PassInv, Clear
    PROVE  PassInv'
<1>1. cmd' \in 1..4 /\ pc' \in {"send", "poll"} /\ mutex' \in BOOLEAN /\ pc = "clear"
  BY AdvancePass DEF PassInv, Switches, SessionTypes, Clear
<1>2. Order[cmd] \in Cmd
  BY OrderIsCmd DEF PassInv, SessionTypes
<1>3. flag' \in [Cmd -> Nat] /\ flag'["pos"] \in Frame \cup {0}
  BY <1>2 DEF PassInv, SessionTypes, Positions, Clear, Cmd
<1>4. SessionTypes'
  BY <1>1, <1>3 DEF PassInv, SessionTypes, Clear
<1>5. Reported' /\ Closed'
  BY <1>1 DEF PassInv, Reported, Closed, Clear
<1>6. Positions' /\ DeviceTypes'
  BY <1>3 DEF PassInv, Positions, DeviceTypes, Clear, device, Frame
<1>7. Switches'
  BY <1>1 DEF PassInv, Switches, Clear, device
<1> QED BY <1>4, <1>5, <1>6, <1>7 DEF PassInv

(* The first of a queue and the rest.                                       *)
LEMMA HeadAndTail ==
    ASSUME NEW S, NEW q \in Seq(S), q # <<>>
    PROVE  /\ Head(q) \in S /\ Tail(q) \in Seq(S) /\ Head(q) = q[1]
           /\ Len(q) \in Nat \ {0} /\ Len(Tail(q)) = Len(q) - 1
           /\ \A i \in 1..Len(q) - 1 : Tail(q)[i] = q[i + 1]
           /\ Tail(q) # <<>> <=> Len(q) # 1
<1>1. /\ Head(q) \in S /\ Tail(q) \in Seq(S) /\ Head(q) = q[1]
      /\ Len(q) \in Nat \ {0} /\ Len(Tail(q)) = Len(q) - 1
      /\ \A i \in 1..Len(q) - 1 : Tail(q)[i] = q[i + 1]
  OBVIOUS
<1>2. ASSUME NEW r \in Seq(S) PROVE r # <<>> <=> Len(r) # 0
  OBVIOUS
<1>3. Tail(q) # <<>> <=> Len(Tail(q)) # 0
  BY <1>1, <1>2
<1> QED BY <1>1, <1>3

(* when a frame comes in,                                                   *)
LEMMA ReceivePass ==
    ASSUME PassInv, Receive
    PROVE  PassInv'
<1>1. /\ Head(chan) \in [frame : 1..End, sought : BOOLEAN]
      /\ chan' \in Seq([frame : 1..End, sought : BOOLEAN])
  <2>1. chan \in Seq([frame : 1..End, sought : BOOLEAN]) /\ chan # <<>> /\ chan' = Tail(chan)
    BY DEF PassInv, DeviceTypes, Receive
  <2> QED BY <2>1, HeadAndTail
<1>2. Head(chan).frame \in Frame
  <2>1. Head(chan).frame \in 1..End /\ Head(chan).frame # End
    BY <1>1 DEF Receive
  <2> QED BY <2>1, SecondsType
<1>3. startTime' \in Nat /\ last' \in 0..Len(SecondOf)
  BY <1>2, SecondsType DEF Receive
<1>4. breaks' \in 0..MaxBreak
  BY BreaksType DEF Receive
<1>5. SessionTypes'
  BY <1>3, <1>4 DEF PassInv, SessionTypes, Receive, Go
<1>6. Reported' /\ Closed'
  BY DEF PassInv, Reported, Closed, Receive, Go
<1>7. Positions' /\ DeviceTypes'
  BY <1>1 DEF PassInv, Positions, DeviceTypes, Receive, Frame
<1>8. Switches'
  BY DEF PassInv, Switches, Receive
<1> QED BY <1>5, <1>6, <1>7, <1>8 DEF PassInv

(* when the end or nothing comes in,                                        *)
LEMMA ReceiveEndPass ==
    ASSUME PassInv, ReceiveEnd \/ PollTimeout
    PROVE  PassInv'
<1>1. CASE ReceiveEnd
  <2>1. breaks' \in 0..MaxBreak
    BY <1>1, BreaksType DEF ReceiveEnd
  <2>2. SessionTypes'
    BY <1>1, <2>1 DEF PassInv, SessionTypes, ReceiveEnd, Go
  <2>3. Reported' /\ Closed'
    BY <1>1 DEF PassInv, Reported, Closed, ReceiveEnd, Go
  <2>4. live' \in BOOLEAN /\ cooling' \in BOOLEAN /\ mutex' \in BOOLEAN
    BY <1>1 DEF PassInv, Switches, ReceiveEnd
  <2> QED BY <1>1, <2>2, <2>3, <2>4, QuietPass DEF ReceiveEnd
<1>2. CASE PollTimeout
  <2>2. SessionTypes'
    BY <1>2 DEF PassInv, SessionTypes, PollTimeout, Go, user
  <2>3. Reported' /\ Closed'
    BY <1>2 DEF PassInv, Reported, Closed, PollTimeout, Go, user
  <2>4. live' \in BOOLEAN /\ cooling' \in BOOLEAN /\ mutex' \in BOOLEAN
    BY <1>2 DEF PassInv, Switches, PollTimeout
  <2> QED BY <1>2, <2>2, <2>3, <2>4, QuietPass DEF PollTimeout, user
<1> QED BY <1>1, <1>2

(* so in every step,                                                        *)
LEMMA PassKeeps ==
    ASSUME PassInv, [Next]_vars
    PROVE  PassInv'
<1>1. ASSUME NEW k \in Cmd, NEW v \in Values[k], Ask(k, v) PROVE PassInv'
  BY <1>1, AskPass
<1>2. CASE Stop \/ DeviceSends \/ DeviceObeys
  BY <1>2, StopPass, DeviceSendsPass, DeviceObeysPass
<1>3. CASE Thread
  <2>1. CASE Leave \/ Ended \/ Wait \/ Dial \/ Continue
    BY <2>1, TopPass
  <2>2. CASE Connect \/ Login \/ Start
    BY <2>2, ConnectPass
  <2>3. CASE ConnectFails
    BY <2>3, GiveUpPass DEF ConnectFails
  <2>4. CASE Beat \/ Skip \/ Send \/ Clear
    BY <2>4, BeatPass, SkipPass, SendPass, ClearPass
  <2>5. CASE Receive \/ ReceiveEnd \/ PollTimeout
    BY <2>5, ReceivePass, ReceiveEndPass
  <2>6. CASE PassFails
    BY <2>6, GiveUpPass DEF PassFails, SendFails
  <2> QED BY <1>3, <2>1, <2>2, <2>3, <2>4, <2>5, <2>6 DEF Thread
<1>4. CASE UNCHANGED vars
  BY <1>4 DEF vars, user, device, PassInv, Switches, SessionTypes, DeviceTypes, Positions,
     Reported, Closed, Frame
<1> QED BY <1>1, <1>2, <1>3, <1>4 DEF Next

(* and always.                                                              *)
LEMMA PassInvariance == Spec => []PassInv
<1>1. PassInv /\ [Next]_vars => PassInv'
  BY PassKeeps
<1> QED BY <1>1, PassInit, PTL DEF Spec

(* The state of a playback session and of its connection keeps its types. *)
THEOREM TypeCorrect == Spec => []TypeOK
BY PassInvariance, PassTypes, PTL

(* Only a frame taken from the socket moves the place in the recording. *)
LEMMA LastMoves ==
    ASSUME [Next]_vars, last' # last
    PROVE  Receive
<1>1. ASSUME NEW k \in Cmd, NEW v \in Values[k], Ask(k, v) PROVE FALSE
  BY <1>1 DEF Ask
<1>2. CASE Stop \/ DeviceSends \/ DeviceObeys
  BY <1>2 DEF Stop, DeviceSends, DeviceObeys, user
<1>3. ASSUME NEW from, NEW report, GiveUp(from, report) PROVE FALSE
  BY <1>3 DEF GiveUp, user
<1>4. CASE Leave \/ Ended \/ Wait \/ Dial \/ Continue \/ Connect \/ Login \/ Start
  BY <1>4 DEF Leave, Ended, Wait, Dial, Continue, Connect, Login, Start, user
<1>5. CASE Beat \/ Skip \/ Send \/ Clear \/ ReceiveEnd \/ PollTimeout
  BY <1>5 DEF Beat, Skip, Send, Clear, ReceiveEnd, PollTimeout, user
<1>6. CASE ConnectFails \/ PassFails
  BY <1>3, <1>6 DEF ConnectFails, PassFails, SendFails
<1>7. CASE UNCHANGED vars
  BY <1>7 DEF vars, user
<1> QED BY <1>1, <1>2, <1>4, <1>5, <1>6, <1>7 DEF Next, Thread

(* nc_qh_user_doPbs hands a frame on only under the report that the stream   *)
(* runs or is late, never under one of a connection being made or lost.      *)
THEOREM MediaReported == Spec => MediaWhenRunning
<1>1. PassInv /\ [Next]_vars => [last' # last => lastType \in {"running", "timeout"}]_vars
  <2> SUFFICES ASSUME PassInv, [Next]_vars, last' # last
               PROVE  lastType \in {"running", "timeout"}
    OBVIOUS
  <2>1. pc = "poll"
    BY LastMoves DEF Receive, Go
  <2> QED BY <2>1 DEF PassInv, Reported
<1> QED BY <1>1, PassInvariance, PTL DEF Spec, MediaWhenRunning

(* A pass after the end of the recording leaves only. *)
LEMMA EndStep ==
    ASSUME PassInv, [Next]_vars, endFlag = 1
    PROVE  ~live' /\ last' = last /\ pc' \in {"top", "gone"}
<1>1. ~live /\ pc \in {"top", "gone"}
  BY DEF PassInv, Closed
<1>2. last' = last
  BY <1>1, LastMoves DEF Receive, Go
<1>3. ASSUME NEW k \in Cmd, NEW v \in Values[k], Ask(k, v)
      PROVE  ~live' /\ pc' \in {"top", "gone"}
  BY <1>1, <1>3 DEF Ask
<1>4. CASE Stop \/ DeviceSends \/ DeviceObeys
  BY <1>1, <1>2, <1>4 DEF Stop, DeviceSends, DeviceObeys
<1>5. CASE Leave \/ Ended \/ UNCHANGED vars
  BY <1>1, <1>2, <1>5 DEF Leave, Ended, Go, vars
<1>6. ~(Wait \/ Dial \/ Continue \/ Connect \/ Login \/ Start)
  BY <1>1 DEF Wait, Dial, Continue, Unfinished, Connect, Login, Start, Go
<1>7. ~(Beat \/ Skip \/ Send \/ Clear \/ Receive \/ ReceiveEnd \/ PollTimeout)
  BY <1>1 DEF Beat, Skip, Send, Clear, Receive, ReceiveEnd, PollTimeout, Go
<1>8. ~(ConnectFails \/ PassFails)
  BY <1>1 DEF ConnectFails, PassFails, SendFails, GiveUp, Go
<1> QED BY <1>2, <1>3, <1>4, <1>5, <1>6, <1>7, <1>8 DEF Next, Thread

(* Once the end of the recording is read, nc_qh_user_doPbs opens no          *)
(* connection and hands on no frame until the thread ends.                   *)
THEOREM EndFinal == Spec => EndIsFinal
<1>1. PassInv /\ [Next]_vars => [endFlag = 1 => ~live' /\ last' = last /\ pc' \in {"top", "gone"}]_vars
  BY EndStep
<1> QED BY <1>1, PassInvariance, PTL DEF Spec, EndIsFinal

-----------------------------------------------------------------------------
(* The recording without a gap. *)

(* What the player may get after frame l (0: after nothing): the next frame, *)
(* or one it had of the same second.                                         *)
Continued(l, f) == f = l + 1 \/ (f \in 1..l /\ SecondOf[f] = SecondOf[l])

(* The connection is opened at the second of the last frame. *)
Resumes == startTime = SecondOf[IF last = 0 THEN 1 ELSE last]

(* The frames in flight and those to come follow each other and the last     *)
(* one, but for the jumps to a position that was asked for.                  *)
Stream ==
    /\ chan # <<>> => chan[1].sought \/ Continued(last, chan[1].frame)
    /\ chan = <<>> /\ next # 0 => sought \/ Continued(last, next)
    /\ \A i \in 1..Len(chan) - 1 : chan[i + 1].sought \/ chan[i + 1].frame = chan[i].frame + 1
    /\ chan # <<>> => sought \/ next = chan[Len(chan)].frame + 1

GapInv == PassInv /\ Resumes /\ Stream

(* Nothing is on its way at the start.                                      *)
LEMMA GapInit == Init => GapInv
<1> SUFFICES ASSUME Init PROVE Resumes /\ Stream
  BY PassInit DEF GapInv
<1>1. Len(chan) = 0 /\ chan = <<>> /\ next = 0
  BY DEF Init
<1> QED BY <1>1 DEF Init, Resumes, Stream

(* What keeps the stream, or loses it with the connection, keeps the order. *)
LEMMA LineGap ==
    ASSUME GapInv, PassInv', UNCHANGED <<startTime, last>>,
           UNCHANGED <<chan, next, sought>> \/ Disconnect
    PROVE  GapInv'
<1>1. Resumes'
  BY DEF GapInv, Resumes
<1>2. CASE UNCHANGED <<chan, next, sought>>
  BY <1>1, <1>2 DEF GapInv, Stream, Continued
<1>3. CASE Disconnect
  <2>1. Len(chan') = 0 /\ chan' = <<>> /\ next' = 0
    BY <1>3 DEF Disconnect
  <2> QED BY <1>1, <2>1 DEF GapInv, Stream
<1> QED BY <1>2, <1>3

(* The device starts at the first frame of the last one's second. *)
LEMMA StartGap ==
    ASSUME GapInv, PassInv', Start
    PROVE  GapInv'
<1> DEFINE g == IF last = 0 THEN 1 ELSE last
<1>1. g \in Frame /\ startTime = SecondOf[g] /\ SecondOf[g] \in Nat /\ last \in Nat
  BY SecondsType DEF GapInv, PassInv, SessionTypes, Resumes
<1>2. /\ next' \in 1..End /\ next' <= g
      /\ next' = End \/ SecondOf[next'] >= SecondOf[g]
      /\ chan' = <<>> /\ UNCHANGED <<startTime, last>>
  <2>1. next' = FirstFrom(startTime) /\ chan' = <<>> /\ UNCHANGED <<startTime, last>>
    BY DEF Start, DeviceStarts, user
  <2>2. SecondOf[g] >= startTime
    BY <1>1
  <2> QED BY <1>1, <2>1, <2>2, FirstFromFound
<1>3. next' \in Frame /\ next' # End
  BY <1>1, <1>2, SecondsType
<1>4. SecondOf[next'] = SecondOf[g]
  <2>1. SecondOf[next'] <= SecondOf[g]
    BY <1>1, <1>2, <1>3, PbsAssumption
  <2>2. SecondOf[next'] >= SecondOf[g] /\ SecondOf[next'] \in Nat
    BY <1>2, <1>3, SecondsType
  <2> QED BY <1>1, <2>1, <2>2
<1>5. Continued(last, next')
  <2>1. CASE last = 0
    BY <1>2, <2>1 DEF Continued
  <2>2. CASE last # 0
    <3>1. next' \in 1..last
      BY <1>1, <1>2, <2>2
    <3> QED BY <1>4, <2>2, <3>1 DEF Continued
  <2> QED BY <2>1, <2>2
<1>6. Len(chan') = 0
  BY <1>2
<1>7. Stream'
  BY <1>2, <1>5, <1>6 DEF Stream, Continued
<1> QED BY <1>2, <1>7 DEF GapInv, Resumes

(* The last of a queue is what was put there.                               *)
LEMMA PutLast ==
    ASSUME NEW S, NEW q \in Seq(S), NEW e \in S
    PROVE  /\ Len(q) \in Nat /\ Len(Append(q, e)) = Len(q) + 1
           /\ Append(q, e) # <<>> /\ Append(q, e)[Len(q) + 1] = e
           /\ \A i \in 1..Len(q) : Append(q, e)[i] = q[i]
           /\ q # <<>> <=> Len(q) # 0
OBVIOUS

(* What the device sends follows what it sent before.                       *)
LEMMA DeviceSendsGap ==
    ASSUME GapInv, PassInv', DeviceSends
    PROVE  GapInv'
<1> DEFINE e == [frame |-> next, sought |-> sought]
           n == Len(chan)
<1>1. next \in 1..End /\ chan \in Seq([frame : 1..End, sought : BOOLEAN])
  <2>1. next \in 0..(End + 1) /\ next # 0 /\ next <= End
    BY DEF GapInv, PassInv, DeviceTypes, DeviceSends
  <2> QED BY <2>1, SecondsType DEF GapInv, PassInv, DeviceTypes
<1>2. e \in [frame : 1..End, sought : BOOLEAN] /\ e.frame = next /\ e.sought = sought
  BY <1>1 DEF GapInv, PassInv, Switches
<1> HIDE DEF e
<1>3. chan' = Append(chan, e)
  BY DEF DeviceSends, e
<1>4. /\ n \in Nat /\ Len(chan') = n + 1 /\ chan' # <<>> /\ chan'[n + 1] = e
      /\ \A i \in 1..n : chan'[i] = chan[i]
      /\ chan # <<>> <=> n # 0
  BY <1>1, <1>2, <1>3, PutLast
<1>5. next' = next + 1 /\ UNCHANGED <<startTime, last>>
  BY DEF DeviceSends, user
<1>6. chan'[1].sought \/ Continued(last, chan'[1].frame)
  <2>1. CASE chan = <<>>
    BY <1>1, <1>2, <1>4, <2>1 DEF GapInv, Stream
  <2>2. CASE chan # <<>>
    BY <1>4, <2>2 DEF GapInv, Stream
  <2> QED BY <2>1, <2>2
<1>7. ASSUME NEW i \in 1..Len(chan') - 1
      PROVE  chan'[i + 1].sought \/ chan'[i + 1].frame = chan'[i].frame + 1
  <2>1. CASE i = n
    <3>1. chan # <<>> /\ chan'[i] = chan[n] /\ chan'[i + 1] = e
      BY <1>4, <2>1
    <3> QED BY <1>2, <3>1 DEF GapInv, Stream
  <2>2. CASE i # n
    <3>1. i \in 1..n - 1 /\ chan'[i] = chan[i] /\ chan'[i + 1] = chan[i + 1]
      BY <1>4, <2>2
    <3> QED BY <3>1 DEF GapInv, Stream
  <2> QED BY <2>1, <2>2
<1>8. next' = chan'[Len(chan')].frame + 1
  BY <1>2, <1>4, <1>5
<1>9. Stream'
  BY <1>4, <1>5, <1>6, <1>7, <1>8 DEF Stream, Continued
<1> QED BY <1>5, <1>9 DEF GapInv, Resumes

(* Where it was told to go on is where the receiver is, or a place the user *)
(* sought.                                                                  *)
LEMMA DeviceObeysGap ==
    ASSUME GapInv, PassInv', DeviceObeys
    PROVE  GapInv'
<1>1. UNCHANGED <<chan, startTime, last>>
  BY DEF DeviceObeys, user
<1>2. sought' \/ UNCHANGED <<next, sought>>
  <2>1. CASE Head(wire).cmd = "pos"
    BY <2>1 DEF DeviceObeys
  <2>2. CASE Head(wire).cmd # "pos"
    BY <2>2 DEF DeviceObeys, GapInv, PassInv, Switches
  <2> QED BY <2>1, <2>2
<1>3. CASE sought'
  BY <1>1, <1>3 DEF GapInv, Stream, Resumes, Continued
<1>4. CASE UNCHANGED <<next, sought>>
  BY <1>1, <1>4 DEF GapInv, Stream, Resumes, Continued
<1> QED BY <1>2, <1>3, <1>4

(* What is taken follows what was taken before, or was sought.              *)
LEMMA ReceiveGap ==
    ASSUME GapInv, PassInv', Receive
    PROVE  GapInv'
<1> DEFINE n == Len(chan)
<1>1. /\ chan \in Seq([frame : 1..End, sought : BOOLEAN]) /\ chan # <<>> /\ chan' = Tail(chan)
      /\ UNCHANGED <<next, sought>>
  BY DEF GapInv, PassInv, DeviceTypes, Receive
<1>2. /\ n \in Nat \ {0} /\ Len(chan') = n - 1 /\ Head(chan) = chan[1]
      /\ chan[1] \in [frame : 1..End, sought : BOOLEAN]
      /\ \A i \in 1..n - 1 : chan'[i] = chan[i + 1]
      /\ chan' # <<>> <=> n # 1
  BY <1>1, HeadAndTail
<1>3. /\ chan[1].frame \in 1..End /\ chan[1].frame # End
      /\ last' = chan[1].frame /\ startTime' = SecondOf[chan[1].frame]
  BY <1>2 DEF Receive
<1>4. Resumes'
  BY <1>3, SecondsType DEF Resumes
<1>5. chan' # <<>> => chan'[1].sought \/ Continued(last', chan'[1].frame)
  <2> SUFFICES ASSUME chan' # <<>> PROVE chan'[1].sought \/ Continued(last', chan'[1].frame)
    OBVIOUS
  <2>1. 1 \in 1..n - 1 /\ chan'[1] = chan[1 + 1]
    BY <1>2
  <2>2. chan[1 + 1].sought \/ chan[1 + 1].frame = chan[1].frame + 1
    BY <2>1 DEF GapInv, Stream
  <2> QED BY <1>3, <2>1, <2>2 DEF Continued
<1>6. chan' = <<>> /\ next' # 0 => sought' \/ Continued(last', next')
  <2> SUFFICES ASSUME n = 1 PROVE sought \/ Continued(last', next)
    BY <1>1, <1>2
  <2>1. sought \/ next = chan[1].frame + 1
    BY <1>1 DEF GapInv, Stream
  <2> QED BY <1>3, <2>1 DEF Continued
<1>7. ASSUME NEW i \in 1..Len(chan') - 1
      PROVE  chan'[i + 1].sought \/ chan'[i + 1].frame = chan'[i].frame + 1
  <2>1. i + 1 \in 1..n - 1 /\ chan'[i] = chan[i + 1] /\ chan'[i + 1] = chan[(i + 1) + 1]
    BY <1>2
  <2> QED BY <2>1 DEF GapInv, Stream
<1>8. chan' # <<>> => sought' \/ next' = chan'[Len(chan')].frame + 1
  <2> SUFFICES ASSUME n # 1 PROVE sought \/ next = chan'[Len(chan')].frame + 1
    BY <1>1, <1>2
  <2>1. chan'[Len(chan')] = chan[n]
    BY <1>2
  <2> QED BY <1>1, <2>1 DEF GapInv, Stream
<1>9. Stream'
  BY <1>5, <1>6, <1>7, <1>8 DEF Stream, Continued
<1> QED BY <1>4, <1>9 DEF GapInv

(* No step leaves a gap on the way.                                         *)
LEMMA GapKeeps ==
    ASSUME GapInv, [Next]_vars
    PROVE  GapInv'
<1>0. PassInv'
  BY PassKeeps DEF GapInv
<1>1. ASSUME NEW k \in Cmd, NEW v \in Values[k], Ask(k, v) PROVE GapInv'
  BY <1>0, <1>1, LineGap DEF Ask, device
<1>2. CASE DeviceSends \/ DeviceObeys \/ Start \/ Receive
  BY <1>0, <1>2, DeviceSendsGap, DeviceObeysGap, StartGap, ReceiveGap
<1>3. ASSUME NEW from, NEW report, GiveUp(from, report) PROVE GapInv'
  BY <1>0, <1>3, LineGap DEF GiveUp, user
<1>4. CASE Stop \/ Leave \/ Ended \/ Wait \/ Dial \/ Continue \/ Connect \/ Login
  BY <1>0, <1>4, LineGap DEF Stop, Leave, Ended, Wait, Dial, Continue, Connect, Login, user, device
<1>5. CASE Beat \/ Skip \/ Send \/ Clear \/ ReceiveEnd \/ PollTimeout
  BY <1>0, <1>5, LineGap DEF Beat, Skip, Send, Clear, ReceiveEnd, PollTimeout, user, device
<1>6. CASE ConnectFails \/ PassFails
  BY <1>3, <1>6 DEF ConnectFails, PassFails, SendFails
<1>7. CASE UNCHANGED vars
  BY <1>0, <1>7, LineGap DEF vars, user, device
<1> QED BY <1>1, <1>2, <1>4, <1>5, <1>6, <1>7 DEF Next, Thread

(* Across any number of broken connections nc_qh_user_doPbs hands on the     *)
(* recording without a gap.                                                  *)
THEOREM RecordingContiguous == Spec => Contiguous
<1>1. GapInv /\ [Next]_vars => GapInv'
  BY GapKeeps
<1>2. GapInv /\ [Next]_vars =>
        [last' # last => \/ last' = last + 1
                         \/ last' < last /\ SecondOf[last'] = SecondOf[last]
                         \/ Head(chan).sought]_vars
  <2> SUFFICES ASSUME GapInv, [Next]_vars, last' # last, ~Head(chan).sought
               PROVE  last' = last + 1 \/ (last' < last /\ SecondOf[last'] = SecondOf[last])
    OBVIOUS
  <2>1. chan # <<>> /\ last' = Head(chan).frame
    BY LastMoves DEF Receive
  <2>2. Head(chan) = chan[1] /\ last \in Nat
    BY <2>1, HeadAndTail, SecondsType DEF GapInv, PassInv, DeviceTypes, SessionTypes
  <2>3. Continued(last, last')
    BY <2>1, <2>2 DEF GapInv, Stream
  <2> QED BY <2>2, <2>3 DEF Continued
<1> QED BY <1>1, <1>2, GapInit, PTL DEF Spec, Contiguous
=============================================================================
