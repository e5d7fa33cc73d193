--------------------------- MODULE NcHyDev_proofs ---------------------------
(***************************************************************************)
(* Proofs about a device of the HuaYi driver, for any size of the ring and *)
(* of the socket, and any number of calls and failures.                    *)
(***************************************************************************)
EXTENDS NcHyDev, TLAPS

Second  == 0..LastSecond
Frames  == [of : Nat, sec : Nat]
Wants   == [rts : Type \cup {"off"}, pbs : Nat, rec : Nat, start : Second]
Streams == [rts : Type \cup {"off"}, pbs : Nat, sec : Second]
Threads == [at : {"idle", "look", "put", "held", "call", "gone"}, frame : Frames]
Flags   == [state : BOOLEAN, active : BOOLEAN, pause : BOOLEAN, start : BOOLEAN]
History == [mixed : BOOLEAN, carried : BOOLEAN, swapped : BOOLEAN, alike : BOOLEAN,
            unheard : BOOLEAN]

(* The types the playback's frames depend on. *)
Shape ==
    /\ want \in Wants /\ snap \in Wants
    /\ want.pbs \in {0, want.rec}
    /\ pbs \in Flags
    /\ recv \in Threads /\ play \in Threads
    /\ ring \in Seq(Frames) /\ chan \in Seq(Frames)
    /\ device \in Streams
    /\ past \in History

(* Frames come in the order of their playbacks and, in a playback, of      *)
(* their seconds; none is of a playback the pass has not seen yet.         *)
Upto(f, g) == f.of < g.of \/ (f.of = g.of /\ f.sec <= g.sec)
OnAir == [of |-> device.pbs, sec |-> device.sec]

Order ==
    /\ device.pbs <= snap.rec /\ snap.rec <= want.rec
    /\ \A i \in 1..Len(chan) :
        /\ chan[i].of <= snap.rec
        /\ device.pbs # 0 => Upto(chan[i], OnAir)
        /\ recv.at = "look" => Upto(recv.frame, chan[i])
    /\ \A i, j \in 1..Len(chan) : i <= j => Upto(chan[i], chan[j])
    /\ recv.at = "look" =>
        /\ recv.frame.of <= snap.rec
        /\ device.pbs # 0 => Upto(recv.frame, OnAir)

(* A pass that starts a playback has found none active; one that stops a   *)
(* playback has found one active that nobody wants, and nobody starts one  *)
(* before it has.                                                          *)
Passes ==
    /\ after \in {"top", "gone"}
    /\ pc \in {"pbsStop", "pbsMark"} =>
        /\ pbs.active <=> snap.pbs = 0
        /\ snap.pbs = 0 => want.pbs = 0
    /\ pc = "pbsStart" => ~pbs.active /\ snap.pbs # 0

(* A playback the device is about to be asked for has sent no frame yet,   *)
(* and no other is streaming.                                              *)
Unsent(r) ==
    /\ \A i \in 1..Len(chan) : chan[i].of < r
    /\ recv.at = "look" => recv.frame.of < r
Closed == live \in {"none", "refused"} => chan = <<>> /\ device.pbs = 0
Silenced ==
    live = "ok" =>
        /\ pc = "pbsMark" /\ snap.pbs = 0 => device.pbs = 0
        /\ pc # "pbsMark" /\ ~pbs.active => device.pbs = 0
Unstarted ==
    live = "ok" /\ ~pbs.active =>
        /\ pc # "pbsMark" /\ want.pbs # 0 => Unsent(want.rec)
        /\ pc \in {"pbsStop", "pbsStart"} => Unsent(snap.rec)
Quiet == Closed /\ Silenced /\ Unstarted

(* What is on its way to the test of start_flag is of the playback that is *)
(* wanted, or the test tells it by its second.                             *)
Told(f) == f.of = want.rec \/ f.sec # want.start
Apart ==
    want.pbs # 0 =>
        /\ Starting => snap.rec = want.rec
        /\ \A i \in 1..Len(chan) : Told(chan[i])
        /\ recv.at = "look" => Told(recv.frame)
        /\ live = "ok" => device.pbs \in {0, want.rec}

Playing == pbs.active /\ want.pbs # 0

(* What is behind the test is due to the playback that is on; once the     *)
(* flag is set, so is what is before it.                                   *)
Behind ==
    Playing =>
        /\ play.at = "held" => Due(play.frame)
        /\ \A i \in 1..Len(ring) : Due(ring[i])
        /\ recv.at = "put" => Due(recv.frame)
Before ==
    Playing /\ pbs.start =>
        /\ \A i \in 1..Len(chan) : Due(chan[i])
        /\ recv.at = "look" => Due(recv.frame)
        /\ device.pbs = 0 \/ Due(OnAir)
Calling == play.at = "call" /\ want.pbs # 0 => Due(play.frame)

Clean == Behind /\ Before /\ Calling /\ ~past.mixed

Excused == past.carried \/ past.alike \/ past.swapped

IInv == Shape /\ Order /\ Passes /\ Quiet /\ (~Excused => Apart /\ Clean)

-----------------------------------------------------------------------------
(* The empty sequence is a sequence of frames.                              *)
LEMMA NoFrames == <<>> \in Seq(Frames)
OBVIOUS

(* Threads that hold no frame.                                              *)
LEMMA Empty == Idle \in Threads /\ Gone \in Threads /\ Silent \in Streams
BY HyDevAssumption DEF Idle, Gone, Thread, Threads, NoFrame, Frames, Silent, Streams, Second

(* The device at rest has the types of a slot in use.                       *)
LEMMA InitHolds == Init => IInv
<1> SUFFICES ASSUME Init PROVE IInv
  OBVIOUS
<1>1. Shape
  <2>1. want \in Wants /\ snap \in Wants
    BY HyDevAssumption DEF Init, Wants, Second
  <2> QED BY <2>1, NoFrames, Empty DEF Init, Shape, Flags, History
<1>2. recv.at = "gone" /\ play.at = "gone" /\ chan = <<>> /\ ring = <<>> /\ device.pbs = 0
  BY DEF Init, Gone, Thread, Silent
<1>3. Order
  BY <1>2 DEF Init, Order
<1>4. Passes
  BY DEF Init, Passes
<1>5. Quiet
  BY <1>2 DEF Init, Quiet, Closed, Silenced, Unstarted
<1>6. Apart
  BY DEF Init, Apart
<1>7. Clean
  BY <1>2 DEF Init, Clean, Behind, Before, Calling, Playing
<1> QED BY <1>1, <1>3, <1>4, <1>5, <1>6, <1>7 DEF IInv

(* Every step keeps the types. *)
LEMMA ShapeCalls ==
    ASSUME Shape,
           (\E t \in Type : StartRts(t)) \/ (\E s \in Second : StartPbs(s)) \/ StopRts \/ StopPbs
    PROVE  Shape'
<1>1. ASSUME NEW t \in Type, StartRts(t) PROVE Shape'
  BY <1>1 DEF StartRts, Call, Shape, Wants, login, stream, net
<1>2. CASE StopRts
  BY <1>2 DEF StopRts, Call, Shape, Wants, login, stream, net
<1>3. CASE StopPbs
  BY <1>3 DEF StopPbs, Call, Shape, Wants, login, stream, net
<1>4. ASSUME NEW s \in Second, StartPbs(s) PROVE Shape'
  <2>1. want' = [want EXCEPT !.pbs = want.rec + 1, !.rec = want.rec + 1, !.start = s]
    BY <1>4 DEF StartPbs, Call
  <2>2. want.rec + 1 \in Nat
    BY DEF Shape, Wants
  <2>3. want' \in Wants /\ want'.pbs = want'.rec
    BY <1>4, <2>1, <2>2 DEF Shape, Wants
  <2>4. past' \in History
    BY <1>4 DEF StartPbs, Shape, History, Starting, Coming
  <2> QED BY <1>4, <2>3, <2>4 DEF StartPbs, Call, Shape, login, stream, net
<1> QED BY <1>1, <1>2, <1>3, <1>4

(* Telling the device to stream leaves it streaming something it can        *)
(* stream.                                                                  *)
LEMMA SendsTypes ==
    ASSUME Shape, NEW d, NEW to, Sends(d, to),
           d \in Streams
    PROVE  device' \in Streams
BY DEF Shape, Streams, Sends

(* The login thread keeps the shape.                                        *)
LEMMA ShapeLogin ==
    ASSUME Shape, LoginThread
    PROVE  Shape'
<1>1. CASE Top
  BY <1>1 DEF Top, Shape, stream, net
<1>2. CASE Login
  <2>1. pbs' \in Flags /\ recv' \in Threads /\ play' \in Threads /\ ring' \in Seq(Frames)
    <3>1. CASE UNCHANGED <<pbs, stream>>
      BY <3>1 DEF Shape, stream
    <3>2. CASE /\ pbs' = [pbs EXCEPT !.state = TRUE, !.start = FALSE]
               /\ recv' = Idle /\ play' = Idle /\ ring' = <<>>
      <4>1. pbs' \in Flags
        BY <3>2 DEF Shape, Flags
      <4>2. recv' \in Threads /\ play' \in Threads
        BY <3>2, Empty
      <4> QED BY <3>2, <4>1, <4>2, NoFrames
    <3> QED BY <1>2, <3>1, <3>2 DEF Login
  <2> QED BY <1>2, <2>1 DEF Login, Shape
<1>3. CASE RtsLook
  BY <1>3 DEF RtsLook, Shape, stream, net
<1>4. CASE RtsStop
  <2>1. device' \in Streams
    BY <1>4, SendsTypes DEF RtsStop, Shape, Streams, Wants
  <2> QED BY <1>4, <2>1 DEF RtsStop, Shape, stream
<1>5. CASE RtsStart
  <2>1. device' \in Streams
    BY <1>5, SendsTypes DEF RtsStart, Shape, Wants, Streams
  <2> QED BY <1>5, <2>1 DEF RtsStart, Shape, stream
<1>6. CASE PbsLook
  BY <1>6 DEF PbsLook, Shape, stream, net
<1>7. CASE PbsStop
  <2>0. [device EXCEPT !.pbs = 0, !.sec = 0] \in Streams
    <3>1. 0 \in Second
      BY HyDevAssumption DEF Second
    <3> QED BY <3>1 DEF Shape, Streams
  <2>1. device' \in Streams
    BY <1>7, <2>0, SendsTypes DEF PbsStop
  <2> QED BY <1>7, <2>1 DEF PbsStop, Shape, stream
<1>8. CASE PbsStart
  <2>0. PICK s \in 0..snap.start : Sends([device EXCEPT !.pbs = snap.rec, !.sec = s], "pbsMark")
    BY <1>8 DEF PbsStart
  <2>1. s \in Second
    BY HyDevAssumption DEF Shape, Wants, Second
  <2>2. [device EXCEPT !.pbs = snap.rec, !.sec = s] \in Streams
    BY <2>1 DEF Shape, Wants, Streams
  <2>3. device' \in Streams
    BY <2>0, <2>2, SendsTypes
  <2> QED BY <1>8, <2>3 DEF PbsStart, Shape, stream
<1>9. CASE PbsMark
  <2>1. pbs' \in Flags
    BY <1>9 DEF PbsMark, Shape, Flags
  <2>2. past' \in History
    BY <1>9 DEF PbsMark, Shape, History, Remains
  <2> QED BY <1>9, <2>1, <2>2 DEF PbsMark, Shape, stream, net
<1>10. CASE Pause
  <2>1. device' \in Streams
    BY <1>10, SendsTypes DEF Pause, Shape
  <2>2. pbs' \in Flags
    BY <1>10 DEF Pause, Shape, Flags
  <2> QED BY <1>10, <2>1, <2>2 DEF Pause, Shape, stream
<1>11. CASE Rest
  <2>1. device' \in Streams
    BY <1>11, SendsTypes DEF Rest, Shape
  <2> QED BY <1>11, <2>1 DEF Rest, Shape, stream
<1>12. CASE Logout
  <2>1. pbs' \in Flags
    BY <1>12 DEF Logout, Shape, Flags
  <2>2. chan' \in Seq(Frames) /\ device' \in Streams
    BY <1>12, NoFrames, Empty DEF Logout
  <2>3. past' \in History
    BY <1>12 DEF Logout, Shape, History, Flags
  <2> QED BY <1>12, <2>1, <2>2, <2>3 DEF Logout, Shape, stream
<1>13. CASE JoinPlay
  BY <1>13 DEF JoinPlay, Shape, stream, net
<1>14. CASE JoinRecv
  <2>1. pbs' \in Flags /\ ring' \in Seq(Frames)
    BY <1>14, NoFrames DEF JoinRecv, Shape, Flags
  <2> QED BY <1>14, <2>1 DEF JoinRecv, Shape, net
<1> QED BY <1>1, <1>2, <1>3, <1>4, <1>5, <1>6, <1>7, <1>8, <1>9, <1>10, <1>11,
           <1>12, <1>13, <1>14 DEF LoginThread

(* So do the device, the receiver and the player,                           *)
LEMMA ShapeStreams ==
    ASSUME Shape, Break \/ DeviceSends \/ DevStop \/ RtsError \/ Receiver \/ Player
    PROVE  Shape'
<1>1. CASE Break \/ DevStop \/ RtsError
  BY <1>1 DEF Break, DevStop, RtsError, Shape, login, stream, net
<1>2. CASE DeviceSends
  <2>1. [of |-> device.pbs, sec |-> device.sec] \in Frames
    BY DEF Shape, Streams, Frames, Second
  <2>2. chan' \in Seq(Frames)
    BY <1>2, <2>1 DEF DeviceSends, Shape
  <2>3. PICK s \in device.sec..LastSecond : device' = [device EXCEPT !.sec = s]
    BY <1>2 DEF DeviceSends
  <2>4. s \in Second
    BY <2>3, HyDevAssumption DEF Shape, Streams, Second
  <2>5. device' \in Streams
    BY <2>3, <2>4 DEF Shape, Streams
  <2> QED BY <1>2, <2>2, <2>5 DEF DeviceSends, Shape, login, stream
<1>3. CASE RecvEnd \/ RecvError
  <2>1. recv' \in Threads
    BY <1>3, Empty DEF RecvEnd, RecvError
  <2> QED BY <1>3, <2>1 DEF RecvEnd, RecvError, Shape, others, login
<1>4. CASE RecvTake
  <2>1. recv' \in Threads /\ chan' \in Seq(Frames)
    BY <1>4 DEF RecvTake, Shape, Thread, Threads
  <2> QED BY <1>4, <2>1 DEF RecvTake, Shape, others, login
<1>5. CASE RecvLook
  <2>1. pbs' \in Flags
    BY <1>5 DEF RecvLook, Shape, Flags
  <2>2. recv' \in Threads
    BY <1>5, Empty DEF RecvLook, Threads, Shape
  <2> QED BY <1>5, <2>1, <2>2 DEF RecvLook, Shape, others, login
<1>6. CASE RecvPut
  <2>1. recv' \in Threads
    BY <1>6, Empty DEF RecvPut
  <2>2. ring' \in Seq(Frames)
    BY <1>6 DEF RecvPut, Shape, Threads
  <2> QED BY <1>6, <2>1, <2>2 DEF RecvPut, Shape, others, login
<1>7. CASE PlayEnd
  <2>1. play' \in Threads
    BY <1>7, Empty DEF PlayEnd
  <2> QED BY <1>7, <2>1 DEF PlayEnd, Shape, others, login
<1>8. CASE PlayTake
  <2>1. play' \in Threads /\ ring' \in Seq(Frames)
    BY <1>8 DEF PlayTake, Shape, Thread, Threads
  <2> QED BY <1>8, <2>1 DEF PlayTake, Shape, others, login
<1>9. CASE PlayLook
  <2>1. ring' \in Seq(Frames)
    BY <1>9, NoFrames DEF PlayLook, Shape
  <2>2. play' \in Threads
    BY <1>9, Empty DEF PlayLook, Threads, Shape
  <2> QED BY <1>9, <2>1, <2>2 DEF PlayLook, Shape, others, login
<1>10. CASE PlayCall
  <2>1. play' \in Threads
    BY <1>10, Empty DEF PlayCall
  <2>2. past' \in History
    <3>1. (past.mixed \/ (want.pbs # 0 /\ ~Due(play.frame))) \in BOOLEAN
      BY DEF Shape, History
    <3> QED BY <1>10, <3>1 DEF PlayCall, Shape, History
  <2> QED BY <1>10, <2>1, <2>2 DEF PlayCall, Shape, others, login
<1> QED BY <1>1, <1>2, <1>3, <1>4, <1>5, <1>6, <1>7, <1>8, <1>9, <1>10 DEF Receiver, Player

(* and with the calls of the application every step does.                   *)
LEMMA ShapeHolds ==
    ASSUME Shape, [Next]_vars
    PROVE  Shape'
<1>1. CASE UNCHANGED vars
  BY <1>1 DEF Shape, vars, login, stream, net
<1> QED BY <1>1, ShapeCalls, ShapeLogin, ShapeStreams DEF Next, Second

-----------------------------------------------------------------------------
(* A pass that starts a playback has found none active, and nobody but the *)
(* login thread changes that.                                              *)
LEMMA PassesHolds ==
    ASSUME Shape, Passes, [Next]_vars
    PROVE  Passes'
<1>1. ASSUME pbs'.active = pbs.active, UNCHANGED login, want'.pbs \in {0, want.pbs} PROVE Passes'
  BY <1>1 DEF Passes, login
<1>2. ASSUME pc' \notin {"pbsStop", "pbsStart", "pbsMark"}, after' \in {"top", "gone"} PROVE Passes'
  BY <1>2 DEF Passes
<1>3. CASE PbsLook
  BY <1>3 DEF PbsLook, Passes, Shape, Flags
<1>4. CASE PbsStop
  BY <1>4 DEF PbsStop, Sends, Passes
<1>5. CASE PbsStart
  <2>1. UNCHANGED <<pbs, snap, after, want>> /\ pc' \in {"pbsMark", "logout"}
    BY <1>5 DEF PbsStart, Sends
  <2> QED BY <1>5, <2>1 DEF PbsStart, Passes
<1>6. CASE RecvLook
  <2>1. pbs'.active = pbs.active
    BY <1>6 DEF RecvLook, Shape, Flags
  <2> QED BY <1>6, <2>1, <1>1 DEF RecvLook, others
<1>7. CASE (\E t \in Type : StartRts(t)) \/ StopRts \/ StopPbs \/ DevStop
  <2>1. UNCHANGED <<pbs, login>> /\ want'.pbs \in {0, want.pbs}
    BY <1>7 DEF StartRts, StopRts, StopPbs, Call, DevStop, Shape, Wants
  <2> QED BY <2>1, <1>1
<1>8. ASSUME NEW s \in Second, StartPbs(s) PROVE Passes'
  <2>1. UNCHANGED <<pbs, login>> /\ ~pbs.active
    BY <1>8 DEF StartPbs, Call
  <2> QED BY <2>1 DEF Passes, login
<1>9. CASE Break \/ DeviceSends \/ RtsError
  <2>1. UNCHANGED <<pbs, login, want>>
    BY <1>9 DEF Break, DeviceSends, RtsError
  <2> QED BY <2>1, <1>1
<1>10. CASE RecvEnd \/ RecvError \/ RecvTake \/ RecvPut \/ Player
  <2>1. UNCHANGED <<pbs, login, want>>
    BY <1>10 DEF RecvEnd, RecvError, RecvTake, RecvPut, Player, PlayEnd, PlayTake, PlayLook,
                 PlayCall, others
  <2> QED BY <2>1, <1>1
<1>11. CASE Top \/ Login \/ RtsLook \/ RtsStop \/ RtsStart
  <2>1. pc' \notin {"pbsStop", "pbsStart", "pbsMark"} /\ after' \in {"top", "gone"}
    BY <1>11 DEF Top, Login, RtsLook, RtsStop, RtsStart, Sends, Passes
  <2> QED BY <2>1, <1>2
<1>12. CASE PbsMark \/ Rest \/ Logout \/ JoinPlay \/ JoinRecv
  <2>1. pc' \notin {"pbsStop", "pbsStart", "pbsMark"} /\ after' \in {"top", "gone"}
    BY <1>12 DEF PbsMark, Rest, Logout, JoinPlay, JoinRecv, Sends, Passes
  <2> QED BY <2>1, <1>2
<1>13. CASE Pause
  <2>1. pc' \notin {"pbsStop", "pbsStart", "pbsMark"} /\ after' \in {"top", "gone"}
    BY <1>13 DEF Pause, Sends, Passes
  <2> QED BY <2>1, <1>2
<1>14. CASE UNCHANGED vars
  BY <1>14, <1>1 DEF vars, login
<1> QED BY <1>3, <1>4, <1>5, <1>6, <1>7, <1>8, <1>9, <1>10, <1>11, <1>12, <1>13, <1>14
        DEF Next, LoginThread, Receiver, Second

-----------------------------------------------------------------------------
(* Two frames in the order of a third are in order.                        *)
LEMMA UptoChain ==
    ASSUME NEW f \in Frames, NEW g \in Frames, NEW h \in Frames, Upto(f, g), Upto(g, h)
    PROVE  Upto(f, h)
BY DEF Upto, Frames

(* What the device streams is a frame.                                     *)
LEMMA OnAirFrame == Shape => OnAir \in Frames
BY HyDevAssumption DEF Shape, Streams, OnAir, Frames, Second

(* Most steps put nothing into the socket and take nothing out of it: they *)
(* close it, or let the device play none, or a playback none of whose      *)
(* frames it has sent.                                                     *)
NoTraffic ==
    /\ chan' \in {chan, <<>>}
    /\ recv' = recv \/ recv'.at # "look"
    /\ snap.rec <= snap'.rec /\ snap'.rec <= want'.rec
    /\ \/ device'.pbs = 0
       \/ device'.pbs = device.pbs /\ device'.sec = device.sec
       \/ device'.pbs = snap.rec /\ Unsent(snap.rec)

(* Frames stay in order when none is sent, taken or put,                    *)
LEMMA OrderKept ==
    ASSUME Shape, Shape', Order, NoTraffic
    PROVE  Order'
<1>1. /\ want.rec \in Nat /\ snap.rec \in Nat /\ device.pbs \in Nat
      /\ want'.rec \in Nat /\ snap'.rec \in Nat /\ device'.pbs \in Nat
  BY DEF Shape, Wants, Streams
<1>2. /\ \A i \in 1..Len(chan) : chan[i] \in Frames /\ chan[i].of \in Nat
      /\ recv.frame.of \in Nat
  <2>1. recv.frame \in Frames /\ \A i \in 1..Len(chan) : chan[i] \in Frames
    BY DEF Shape, Threads
  <2> QED BY <2>1 DEF Frames
<1>3. snap.rec <= snap'.rec /\ snap'.rec <= want'.rec /\ device'.pbs <= snap'.rec
  BY <1>1 DEF Order, NoTraffic
<1>4. ASSUME NEW f, f.of \in Nat, device.pbs # 0 => Upto(f, OnAir), Unsent(snap.rec) => f.of < snap.rec
      PROVE  device'.pbs # 0 => Upto(f, OnAir')
  <2>1. CASE device'.pbs = device.pbs /\ device'.sec = device.sec
    BY <1>4, <2>1 DEF OnAir
  <2>2. CASE device'.pbs = snap.rec /\ Unsent(snap.rec)
    <3>1. f.of < device'.pbs /\ OnAir'.of = device'.pbs
      BY <1>4, <2>2 DEF OnAir
    <3> QED BY <3>1 DEF Upto
  <2> QED BY <2>1, <2>2 DEF NoTraffic
<1>5. recv'.at = "look" => recv' = recv
  BY DEF NoTraffic
<1>6. ASSUME recv'.at = "look"
      PROVE  recv'.frame.of <= snap'.rec /\ (device'.pbs # 0 => Upto(recv'.frame, OnAir'))
  <2>1. recv' = recv /\ recv.at = "look"
    BY <1>5, <1>6
  <2>2. device'.pbs # 0 => Upto(recv.frame, OnAir')
    BY <1>2, <1>4, <2>1 DEF Order, Unsent
  <2>3. recv.frame.of <= snap'.rec
    BY <1>1, <1>2, <1>3, <2>1 DEF Order
  <2> QED BY <2>1, <2>2, <2>3
<1>7. CASE chan' = <<>>
  BY <1>3, <1>6, <1>7 DEF Order
<1>8. CASE chan' = chan
  <2>1. ASSUME NEW i \in 1..Len(chan)
        PROVE  /\ chan[i].of <= snap'.rec
               /\ device'.pbs # 0 => Upto(chan[i], OnAir')
               /\ recv'.at = "look" => Upto(recv'.frame, chan[i])
    <3>1. chan[i].of <= snap'.rec
      BY <1>1, <1>2, <1>3 DEF Order
    <3>2. device'.pbs # 0 => Upto(chan[i], OnAir')
      BY <1>2, <1>4 DEF Order, Unsent
    <3>3. recv'.at = "look" => Upto(recv'.frame, chan[i])
      BY <1>5 DEF Order
    <3> QED BY <3>1, <3>2, <3>3
  <2>2. \A i, j \in 1..Len(chan) : i <= j => Upto(chan[i], chan[j])
    BY DEF Order
  <2> QED BY <1>3, <1>6, <1>8, <2>1, <2>2 DEF Order
<1> QED BY <1>7, <1>8 DEF NoTraffic

(* when the device sends one of the newest playback,                        *)
LEMMA OrderSends ==
    ASSUME Shape, Order, DeviceSends
    PROVE  Order'
<1>1. /\ chan' = Append(chan, OnAir) /\ device.pbs # 0
      /\ UNCHANGED <<snap, want, recv>>
  BY DEF DeviceSends, login, stream, OnAir
<1>2. PICK s \in device.sec..LastSecond : device' = [device EXCEPT !.sec = s]
  BY DEF DeviceSends
<1>3. device.sec \in Nat /\ s \in Nat /\ device.sec <= s
  BY <1>2, HyDevAssumption DEF Shape, Streams, Second
<1>4. device'.pbs = device.pbs /\ OnAir' = [of |-> device.pbs, sec |-> s]
  BY <1>2 DEF Shape, Streams, OnAir
<1>5. OnAir \in Frames /\ OnAir' \in Frames /\ Upto(OnAir, OnAir') /\ OnAir.of = device.pbs
  BY <1>3, <1>4, OnAirFrame DEF Shape, Streams, Frames, OnAir, Upto
<1>6. /\ Len(chan') = Len(chan) + 1 /\ Len(chan) \in Nat
      /\ chan'[Len(chan) + 1] = OnAir
      /\ \A i \in 1..Len(chan) : chan'[i] = chan[i] /\ chan[i] \in Frames
  BY <1>1, <1>5 DEF Shape
<1>7. \A i \in 1..Len(chan') : i \in 1..Len(chan) \/ i = Len(chan) + 1
  BY <1>6
<1>8. Upto(OnAir, OnAir)
  BY <1>5 DEF Upto, Frames
<1>9. \A i \in 1..Len(chan') : chan'[i] \in Frames /\ chan'[i].of <= snap.rec /\ Upto(chan'[i], OnAir)
  <2> SUFFICES ASSUME NEW i \in 1..Len(chan')
               PROVE  chan'[i] \in Frames /\ chan'[i].of <= snap.rec /\ Upto(chan'[i], OnAir)
    OBVIOUS
  <2>1. CASE i \in 1..Len(chan)
    BY <1>1, <1>6, <2>1 DEF Order
  <2>2. CASE i = Len(chan) + 1
    BY <1>1, <1>5, <1>6, <1>8, <2>2 DEF Order
  <2> QED BY <1>7, <2>1, <2>2
<1>10. \A i \in 1..Len(chan') : Upto(chan'[i], OnAir')
  BY <1>5, <1>9, UptoChain
<1>11. \A i \in 1..Len(chan') : recv.at = "look" => Upto(recv.frame, chan'[i])
  <2>1. recv.at = "look" => Upto(recv.frame, OnAir)
    BY <1>1 DEF Order
  <2> QED BY <1>6, <1>7, <2>1 DEF Order
<1>12. recv.at = "look" => Upto(recv.frame, OnAir') /\ recv.frame.of <= snap.rec
  <2>1. recv.frame \in Frames
    BY DEF Shape, Threads
  <2>2. recv.at = "look" => Upto(recv.frame, OnAir) /\ recv.frame.of <= snap.rec
    BY <1>1 DEF Order
  <2> QED BY <1>5, <2>1, <2>2, UptoChain
<1>13. \A i, j \in 1..Len(chan') : i <= j => Upto(chan'[i], chan'[j])
  <2> SUFFICES ASSUME NEW i \in 1..Len(chan'), NEW j \in 1..Len(chan'), i <= j
               PROVE  Upto(chan'[i], chan'[j])
    OBVIOUS
  <2>1. CASE j = Len(chan) + 1
    BY <1>6, <1>9, <2>1
  <2>2. CASE j \in 1..Len(chan)
    <3>1. i \in 1..Len(chan)
      BY <1>6, <2>2
    <3> QED BY <1>6, <2>2, <3>1 DEF Order
  <2> QED BY <1>7, <2>1, <2>2
<1>14. device'.pbs <= snap.rec /\ snap.rec <= want.rec
  BY <1>4 DEF Order
<1> QED BY <1>1, <1>9, <1>10, <1>11, <1>12, <1>13, <1>14 DEF Order

(* when the receiver takes the oldest,                                      *)
LEMMA OrderTake ==
    ASSUME Shape, Order, RecvTake
    PROVE  Order'
<1>1. /\ recv'.frame = chan[1] /\ chan' = Tail(chan) /\ chan # <<>>
      /\ UNCHANGED <<device, snap, want>>
  BY DEF RecvTake, Thread, others, login
<1>2. /\ Len(chan) \in Nat \ {0} /\ Len(chan') = Len(chan) - 1
      /\ \A i \in 1..Len(chan') : chan'[i] = chan[i + 1] /\ i + 1 \in 1..Len(chan)
  BY <1>1 DEF Shape
<1>3. \A i \in 1..Len(chan') :
        /\ chan'[i].of <= snap.rec
        /\ device.pbs # 0 => Upto(chan'[i], OnAir)
        /\ Upto(recv'.frame, chan'[i])
  BY <1>1, <1>2 DEF Order
<1>4. \A i, j \in 1..Len(chan') : i <= j => Upto(chan'[i], chan'[j])
  BY <1>2 DEF Order
<1>5. recv'.frame.of <= snap.rec /\ (device.pbs # 0 => Upto(recv'.frame, OnAir))
  BY <1>1, <1>2 DEF Order
<1>6. OnAir' = OnAir
  BY <1>1 DEF OnAir
<1>7. device.pbs <= snap.rec /\ snap.rec <= want.rec
  BY DEF Order
<1> QED BY <1>1, <1>3, <1>4, <1>5, <1>6, <1>7 DEF Order

(* the login thread moves none,                                             *)
LEMMA OrderLogin ==
    ASSUME Shape, Order, Passes, Quiet, LoginThread
    PROVE  NoTraffic
<1> want.rec \in Nat /\ snap.rec \in Nat /\ device.pbs \in Nat /\ snap.rec <= want.rec
  BY DEF Shape, Wants, Streams, Order
<1>1. CASE Top \/ PbsMark \/ JoinPlay \/ JoinRecv
  BY <1>1 DEF Top, PbsMark, JoinPlay, JoinRecv, NoTraffic, stream, net
<1>2. CASE Login
  <2>1. recv' = recv \/ recv' = Idle
    BY <1>2 DEF Login, stream
  <2>2. recv' = recv \/ recv'.at # "look"
    BY <2>1 DEF Idle, Thread, Threads
  <2> QED BY <1>2, <2>2 DEF Login, NoTraffic
<1>3. CASE RtsLook \/ PbsLook
  BY <1>3 DEF RtsLook, PbsLook, NoTraffic, stream, net
<1>4. CASE RtsStop \/ RtsStart
  <2>1. device'.pbs = device.pbs /\ device'.sec = device.sec
    BY <1>4 DEF RtsStop, RtsStart, Sends, Shape, Streams
  <2> QED BY <1>4, <2>1 DEF RtsStop, RtsStart, NoTraffic, stream
<1>5. CASE PbsStop
  <2>1. device'.pbs = 0 \/ UNCHANGED device
    BY <1>5 DEF PbsStop, Sends, Shape, Streams
  <2> QED BY <1>5, <2>1 DEF PbsStop, NoTraffic, stream
<1>6. CASE PbsStart
  <2>1. UNCHANGED <<chan, recv, snap, want>>
    BY <1>6 DEF PbsStart, stream
  <2>2. UNCHANGED device \/ (live = "ok" /\ device'.pbs = snap.rec)
    BY <1>6 DEF PbsStart, Sends, Shape, Streams
  <2>3. live = "ok" => Unsent(snap.rec)
    BY <1>6 DEF PbsStart, Passes, Quiet, Unstarted
  <2> QED BY <2>1, <2>2, <2>3 DEF NoTraffic
<1>7. CASE Pause \/ Rest
  BY <1>7 DEF Pause, Rest, Sends, NoTraffic, stream
<1>8. CASE Logout
  BY <1>8 DEF Logout, Silent, NoTraffic, stream
<1> QED BY <1>1, <1>2, <1>3, <1>4, <1>5, <1>6, <1>7, <1>8 DEF LoginThread

(* so every step keeps them in order.                                       *)
LEMMA OrderHolds ==
    ASSUME Shape, Order, Passes, Quiet, [Next]_vars
    PROVE  Order'
<1> want.rec \in Nat /\ snap.rec \in Nat /\ device.pbs \in Nat /\ snap.rec <= want.rec
  BY DEF Shape, Wants, Streams, Order
<1> DEFINE Same == UNCHANGED <<chan, recv, snap, device>>
<1>1. CASE (\E t \in Type : StartRts(t)) \/ StopRts \/ StopPbs
  <2>1. want'.rec = want.rec /\ Same
    BY <1>1 DEF StartRts, StopRts, StopPbs, Call, Shape, Wants, login, stream, net
  <2> QED BY <2>1, ShapeHolds, OrderKept DEF NoTraffic
<1>2. ASSUME NEW s \in Second, StartPbs(s) PROVE Order'
  <2>1. want'.rec = want.rec + 1 /\ Same
    BY <1>2 DEF StartPbs, Call, Shape, Wants, login, stream, net
  <2> QED BY <2>1, ShapeHolds, OrderKept DEF NoTraffic
<1>3. CASE DevStop \/ Break \/ RtsError \/ Player \/ UNCHANGED vars
  <2>1. UNCHANGED want /\ Same
    BY <1>3 DEF DevStop, Break, RtsError, Player, PlayEnd, PlayTake, PlayLook, PlayCall,
                others, vars, login, stream, net
  <2> QED BY <2>1, ShapeHolds, OrderKept DEF NoTraffic
<1>4. CASE RecvEnd \/ RecvError \/ RecvLook \/ RecvPut
  <2>1. UNCHANGED <<chan, snap, want, device>>
    BY <1>4 DEF RecvEnd, RecvError, RecvLook, RecvPut, others, login
  <2>2. recv' \in {Gone, Idle} \/ recv' = [recv EXCEPT !.at = "put"]
    BY <1>4 DEF RecvEnd, RecvError, RecvLook, RecvPut
  <2>3. recv'.at # "look" \/ recv' = recv
    BY <2>2 DEF Gone, Idle, Thread, Threads, Shape
  <2> QED BY <2>1, <2>3, ShapeHolds, OrderKept DEF NoTraffic
<1>5. CASE LoginThread
  BY <1>5, OrderLogin, OrderKept, ShapeHolds
<1> QED BY <1>1, <1>2, <1>3, <1>4, <1>5, OrderSends, OrderTake DEF Next, Receiver, Second

-----------------------------------------------------------------------------
(* A step that sends, takes and asks for nothing, while a pass is not in   *)
(* the middle of doPbs or stays where it is.                               *)
Idles ==
    /\ live' = live /\ pbs'.active = pbs.active /\ device'.pbs \in {0, device.pbs}
    /\ chan' \in {chan, <<>>}
    /\ recv' = recv \/ recv'.at # "look"
    /\ want'.rec = want.rec /\ want'.pbs \in {0, want.pbs}
    /\ \/ UNCHANGED <<pc, snap>>
       \/ {pc, pc'} \cap {"pbsStop", "pbsStart", "pbsMark"} = {}

(* It leaves the connection as quiet as it was,                             *)
LEMMA QuietKept ==
    ASSUME Quiet, Idles
    PROVE  Quiet'
<1>1. \A r : Unsent(r) => Unsent(r)'
  BY DEF Unsent, Idles
<1>2. Closed'
  BY DEF Quiet, Closed, Idles
<1>3. pc' = "pbsMark" <=> pc = "pbsMark"
  BY DEF Idles
<1>4. Silenced'
  BY <1>3 DEF Quiet, Silenced, Idles
<1>5. ASSUME live' = "ok", ~pbs'.active, pc' # "pbsMark", want'.pbs # 0 PROVE Unsent(want.rec)'
  BY <1>1, <1>3, <1>5 DEF Quiet, Unstarted, Idles
<1>6. ASSUME live' = "ok", ~pbs'.active, pc' \in {"pbsStop", "pbsStart"} PROVE Unsent(snap.rec)'
  <2>1. UNCHANGED <<pc, snap>> /\ Unsent(snap.rec)
    BY <1>6 DEF Quiet, Unstarted, Idles
  <2> QED BY <1>1, <2>1
<1>7. Unstarted'
  BY <1>5, <1>6 DEF Unstarted
<1> QED BY <1>2, <1>4, <1>7 DEF Quiet

(* and so does every step of the login thread: the one that starts a        *)
(* playback has found none of its frames.                                   *)
LEMMA QuietLogin ==
    ASSUME Shape, Passes, Quiet, LoginThread
    PROVE  Quiet'
<1>1. CASE Top \/ RtsLook \/ JoinPlay
  <2>1. Idles
    BY <1>1 DEF Top, RtsLook, JoinPlay, Idles, stream, net
  <2> QED BY <2>1, QuietKept
<1>2. CASE Login
  <2>1. CASE live' = live
    <3>1. /\ UNCHANGED <<device, chan, want>>
          /\ pc = "login" /\ pc' \in {"rts", "top"}
      BY <1>2, <2>1 DEF Login
    <3>2. UNCHANGED <<pbs, recv>>
      BY <1>2, <2>1 DEF Login, stream
    <3>3. Idles
      BY <2>1, <3>1, <3>2 DEF Idles
    <3> QED BY <3>3, QuietKept
  <2>2. CASE live' = "refused" /\ live = "none"
    BY <1>2, <2>2 DEF Login, Quiet, Closed, Silenced, Unstarted
  <2>3. CASE live' = "ok" /\ live = "none"
    <3>1. UNCHANGED <<device, chan>> /\ pc' = "rts" /\ recv'.at = "idle"
      BY <1>2, <2>3 DEF Login, Idle, Thread
    <3>2. chan' = <<>> /\ device'.pbs = 0
      BY <2>3, <3>1 DEF Quiet, Closed
    <3>3. \A r : Unsent(r)'
      BY <3>1, <3>2 DEF Unsent
    <3> QED BY <3>1, <3>2, <3>3 DEF Quiet, Closed, Silenced, Unstarted
  <2> QED BY <1>2, <2>1, <2>2, <2>3 DEF Login
<1>3. CASE RtsStop \/ RtsStart
  <2>1. device'.pbs = device.pbs
    BY <1>3 DEF RtsStop, RtsStart, Sends, Shape, Streams
  <2>2. {pc, pc'} \cap {"pbsStop", "pbsStart", "pbsMark"} = {}
    BY <1>3 DEF RtsStop, RtsStart, Sends
  <2>3. Idles
    BY <1>3, <2>1, <2>2 DEF RtsStop, RtsStart, Idles, stream
  <2> QED BY <2>3, QuietKept
<1>4. CASE PbsLook
  <2>1. UNCHANGED <<want, pbs, stream, net>> /\ pc = "pbs"
    BY <1>4 DEF PbsLook
  <2>2. CASE pc' # "pbsStop"
    <3>1. pc' \in {"logout", "pause"}
      BY <1>4, <2>2 DEF PbsLook
    <3>2. Idles
      BY <2>1, <3>1 DEF Idles, stream, net
    <3> QED BY <3>2, QuietKept
  <2>3. CASE pc' = "pbsStop"
    <3>1. snap' = want /\ (~pbs.active => want.pbs # 0)
      BY <1>4, <2>3 DEF PbsLook, Shape, Flags
    <3>2. \A r : Unsent(r)' <=> Unsent(r)
      BY <2>1 DEF Unsent, stream, net
    <3>3. live = "ok" /\ ~pbs.active => Unsent(want.rec)
      BY <2>1, <3>1 DEF Quiet, Unstarted
    <3>4. Unstarted'
      BY <2>1, <2>3, <3>1, <3>2, <3>3 DEF Unstarted, net
    <3>5. Closed' /\ Silenced'
      BY <2>1, <2>3 DEF Quiet, Closed, Silenced, net
    <3> QED BY <3>4, <3>5 DEF Quiet
  <2> QED BY <2>2, <2>3
<1>5. CASE PbsStop
  <2>1. UNCHANGED <<snap, want, pbs, stream, live, chan>> /\ pc = "pbsStop"
    BY <1>5 DEF PbsStop
  <2>2. device'.pbs = 0 \/ UNCHANGED device
    BY <1>5 DEF PbsStop, Sends, Shape, Streams
  <2>3. \A r : Unsent(r)' <=> Unsent(r)
    BY <2>1 DEF Unsent, stream
  <2>4. Closed' /\ Silenced'
    <3>1. live = "ok" => device'.pbs = 0 \/ pc' = "logout"
      BY <1>5 DEF PbsStop, Sends, Shape, Streams
    <3> QED BY <2>1, <2>2, <3>1 DEF Quiet, Closed, Silenced
  <2>5. ASSUME live = "ok", ~pbs.active PROVE pc' # "pbsMark" /\ Unsent(snap.rec)
    BY <1>5, <2>1, <2>5 DEF PbsStop, Sends, Passes, Quiet, Unstarted
  <2>6. live = "ok" /\ ~pbs.active /\ want.pbs # 0 => Unsent(want.rec)
    BY <2>1 DEF Quiet, Unstarted
  <2>7. Unstarted'
    BY <2>1, <2>3, <2>5, <2>6 DEF Unstarted
  <2> QED BY <2>4, <2>7 DEF Quiet
<1>6. CASE PbsStart
  <2>1. UNCHANGED <<snap, want, pbs, stream, live, chan>> /\ snap.pbs # 0
    BY <1>6 DEF PbsStart, Passes
  <2>2. UNCHANGED device \/ live = "ok"
    BY <1>6 DEF PbsStart, Sends
  <2>3. live = "ok" => pc' = "pbsMark" \/ (pc' = "logout" /\ UNCHANGED device)
    BY <1>6 DEF PbsStart, Sends
  <2>4. pc = "pbsStart"
    BY <1>6 DEF PbsStart
  <2>5. \A r : Unsent(r)' <=> Unsent(r)
    BY <2>1 DEF Unsent, stream
  <2>6. Closed' /\ Silenced'
    BY <2>1, <2>2, <2>3, <2>4 DEF Quiet, Closed, Silenced
  <2>7. Unstarted'
    BY <2>1, <2>3, <2>4, <2>5 DEF Quiet, Unstarted
  <2> QED BY <2>6, <2>7 DEF Quiet
<1>7. CASE PbsMark
  <2>1. UNCHANGED <<snap, want, stream, net>> /\ pc = "pbsMark" /\ pc' = "pause"
    BY <1>7 DEF PbsMark
  <2>2. pbs'.active = (snap.pbs # 0)
    BY <1>7 DEF PbsMark, Shape, Flags
  <2>3. Closed'
    BY <2>1 DEF Quiet, Closed, net
  <2>4. ASSUME ~pbs'.active PROVE snap.pbs = 0 /\ want.pbs = 0
    BY <2>1, <2>2, <2>4 DEF Passes
  <2>5. Silenced'
    BY <2>1, <2>4 DEF Quiet, Silenced, net
  <2>6. Unstarted'
    BY <2>1, <2>4 DEF Unstarted
  <2> QED BY <2>3, <2>5, <2>6 DEF Quiet
<1>8. CASE Pause
  <2>1. pbs'.active = pbs.active
    BY <1>8 DEF Pause, Shape, Flags
  <2>2. pc = "pause" /\ pc' \in {"rest", "logout"} /\ UNCHANGED device
    BY <1>8 DEF Pause, Sends
  <2>3. Idles
    BY <1>8, <2>1, <2>2 DEF Pause, Idles, stream
  <2> QED BY <2>3, QuietKept
<1>9. CASE Rest
  <2>1. Idles
    BY <1>9 DEF Rest, Sends, Idles, stream
  <2> QED BY <2>1, QuietKept
<1>10. CASE Logout
  BY <1>10 DEF Logout, Silent, Quiet, Closed, Silenced, Unstarted
<1>11. CASE JoinRecv
  <2>1. pbs'.active = pbs.active /\ pc' \in {"top", "gone"}
    BY <1>11 DEF JoinRecv, Shape, Flags, Passes
  <2>2. Idles
    BY <1>11, <2>1 DEF JoinRecv, Idles, net
  <2> QED BY <2>2, QuietKept
<1> QED BY <1>1, <1>2, <1>3, <1>4, <1>5, <1>6, <1>7, <1>8, <1>9, <1>10, <1>11 DEF LoginThread

(* every other step too, as a device streams nothing while no playback is   *)
(* active but the one a pass is about to note.                              *)
LEMMA QuietHolds ==
    ASSUME Shape, Order, Passes, Quiet, [Next]_vars
    PROVE  Quiet'
<1>1. CASE (\E t \in Type : StartRts(t)) \/ StopRts \/ StopPbs
  <2>1. want'.rec = want.rec /\ want'.pbs \in {0, want.pbs}
    BY <1>1 DEF StartRts, StopRts, StopPbs, Call, Shape, Wants
  <2>2. UNCHANGED <<pbs, login, stream, net>>
    BY <1>1 DEF StartRts, StopRts, StopPbs, Call
  <2>3. Idles
    BY <2>1, <2>2 DEF Idles, login, stream, net
  <2> QED BY <2>3, QuietKept
<1>2. ASSUME NEW s \in Second, StartPbs(s) PROVE Quiet'
  <2>1. UNCHANGED <<pbs, pc, snap, recv, live, chan, device>> /\ want'.rec = want.rec + 1
    BY <1>2 DEF StartPbs, Call, login, stream, net, Shape, Wants
  <2>2. want.rec \in Nat /\ snap.rec \in Nat
    BY DEF Shape, Wants
  <2>3. recv.frame \in Frames /\ \A i \in 1..Len(chan) : chan[i] \in Frames
    BY DEF Shape, Threads
  <2>4. \A i \in 1..Len(chan) : chan[i].of \in Nat
    BY <2>3 DEF Frames
  <2>5. recv.frame.of \in Nat
    BY <2>3 DEF Frames
  <2>6. Unsent(want.rec + 1)
    BY <2>2, <2>4, <2>5 DEF Order, Unsent
  <2>7. \A r : Unsent(r)' <=> Unsent(r)
    BY <2>1 DEF Unsent
  <2>8. Closed' /\ Silenced'
    BY <2>1 DEF Quiet, Closed, Silenced
  <2>9. Unstarted'
    BY <2>1, <2>6, <2>7 DEF Quiet, Unstarted
  <2> QED BY <2>8, <2>9 DEF Quiet
<1>3. CASE DevStop \/ RtsError \/ Player \/ UNCHANGED vars
  <2>1. UNCHANGED <<want, pbs, pc, snap, recv, live, chan, device>>
    BY <1>3 DEF DevStop, RtsError, Player, PlayEnd, PlayTake, PlayLook, PlayCall,
                others, vars, login, stream, net
  <2>2. Idles
    BY <2>1 DEF Idles
  <2> QED BY <2>2, QuietKept
<1>4. CASE Break
  BY <1>4 DEF Break, Quiet, Closed, Silenced, Unstarted
<1>5. CASE DeviceSends
  <2>1. /\ live = "ok" /\ device.pbs # 0
        /\ UNCHANGED <<want, pbs, pc, snap, live>>
    BY <1>5 DEF DeviceSends, login
  <2>2. device'.pbs = device.pbs
    BY <1>5 DEF DeviceSends, Shape, Streams
  <2>3. pbs.active \/ pc = "pbsMark"
    BY <2>1 DEF Quiet, Silenced
  <2> QED BY <2>1, <2>2, <2>3 DEF Quiet, Closed, Silenced, Unstarted
<1>6. CASE RecvEnd \/ RecvError \/ RecvLook \/ RecvPut
  <2>1. UNCHANGED <<want, pc, snap, live, chan, device>>
    BY <1>6 DEF RecvEnd, RecvError, RecvLook, RecvPut, others, login
  <2>2. recv' \in {Gone, Idle} \/ recv' = [recv EXCEPT !.at = "put"]
    BY <1>6 DEF RecvEnd, RecvError, RecvLook, RecvPut
  <2>3. recv'.at # "look"
    BY <2>2 DEF Gone, Idle, Thread, Threads, Shape
  <2>4. pbs'.active = pbs.active
    BY <1>6 DEF RecvEnd, RecvError, RecvLook, RecvPut, Shape, Flags
  <2>5. Idles
    BY <2>1, <2>3, <2>4 DEF Idles
  <2> QED BY <2>5, QuietKept
<1>7. CASE RecvTake
  <2>1. /\ UNCHANGED <<want, pbs, pc, snap, live, device>>
        /\ recv'.frame = chan[1] /\ chan' = Tail(chan) /\ chan # <<>>
    BY <1>7 DEF RecvTake, Thread, others, login
  <2>2. /\ Len(chan) \in Nat \ {0} /\ Len(chan') = Len(chan) - 1
        /\ \A i \in 1..Len(chan') : chan'[i] = chan[i + 1] /\ i + 1 \in 1..Len(chan)
    BY <2>1 DEF Shape
  <2>3. ASSUME NEW r, Unsent(r) PROVE Unsent(r)'
    BY <2>1, <2>2, <2>3 DEF Unsent
  <2>4. Closed' /\ Silenced'
    BY <2>1 DEF Quiet, Closed, Silenced
  <2>5. Unstarted'
    BY <2>1, <2>3 DEF Quiet, Unstarted
  <2> QED BY <2>4, <2>5 DEF Quiet
<1> QED BY <1>1, <1>2, <1>3, <1>4, <1>5, <1>6, <1>7, QuietLogin DEF Next, Receiver, Second

-----------------------------------------------------------------------------
(* Most steps bring nothing new before the test of start_flag.             *)
Steady ==
    want'.pbs # 0 =>
        /\ want.pbs # 0 /\ want'.rec = want.rec /\ want'.start = want.start
        /\ Starting' => snap'.rec = want.rec \/ (Starting /\ snap' = snap)
        /\ chan' \in {chan, <<>>}
        /\ recv' = recv \/ recv'.at # "look"
        /\ live' = "ok" => \/ device'.pbs \in {0, want.rec}
                           \/ live = "ok" /\ device'.pbs = device.pbs

(* What is before the test stays apart from what is wanted,                 *)
LEMMA ApartKept ==
    ASSUME Apart, Steady
    PROVE  Apart'
<1> SUFFICES ASSUME want'.pbs # 0
             PROVE  /\ Starting' => snap'.rec = want'.rec
                    /\ (\A i \in 1..Len(chan) : Told(chan[i]))'
                    /\ recv'.at = "look" => Told(recv.frame)'
                    /\ live' = "ok" => device'.pbs \in {0, want'.rec}
  BY DEF Apart
<1>1. want.pbs # 0 /\ want'.rec = want.rec /\ want'.start = want.start
  BY DEF Steady
<1>2. Starting' => snap'.rec = want'.rec
  BY <1>1 DEF Apart, Steady
<1>3. (\A i \in 1..Len(chan) : Told(chan[i]))'
  BY <1>1 DEF Apart, Steady, Told
<1>4. recv'.at = "look" => Told(recv.frame)'
  BY <1>1 DEF Apart, Steady, Told
<1>5. live' = "ok" => device'.pbs \in {0, want'.rec}
  BY <1>1 DEF Apart, Steady
<1> QED BY <1>2, <1>3, <1>4, <1>5

(* in every step of the login thread                                        *)
LEMMA SteadyLogin ==
    ASSUME Shape, Passes, Quiet, Apart, LoginThread
    PROVE  Steady
<1>1. CASE Top \/ RtsLook \/ PbsMark \/ JoinPlay \/ JoinRecv
  <2>1. UNCHANGED <<want, live, chan, recv, device>> /\ ~Starting'
    BY <1>1 DEF Top, RtsLook, PbsMark, JoinPlay, JoinRecv, Passes, Starting, stream, net
  <2> QED BY <2>1 DEF Steady
<1>2. CASE Login
  <2>1. UNCHANGED <<want, chan, device>> /\ ~Starting'
    BY <1>2 DEF Login, Starting
  <2>2. recv' = recv \/ recv'.at # "look"
    BY <1>2 DEF Login, stream, Idle, Thread
  <2>3. live' = "ok" => live = "ok" \/ device.pbs = 0
    BY <1>2 DEF Login, Quiet, Closed
  <2> QED BY <2>1, <2>2, <2>3 DEF Steady
<1>3. CASE RtsStop \/ RtsStart
  <2>1. device'.pbs = device.pbs
    BY <1>3 DEF RtsStop, RtsStart, Sends, Shape, Streams
  <2>2. ~Starting'
    BY <1>3 DEF RtsStop, RtsStart, Sends, Starting
  <2> QED BY <1>3, <2>1, <2>2 DEF RtsStop, RtsStart, Steady, stream
<1>4. CASE PbsLook
  <2>1. snap' = want \/ ~Starting'
    BY <1>4 DEF PbsLook, Starting
  <2>2. UNCHANGED <<want, live, chan, recv, device>>
    BY <1>4 DEF PbsLook, stream, net
  <2> QED BY <2>1, <2>2 DEF Steady
<1>5. CASE PbsStop
  <2>1. device'.pbs = 0 \/ UNCHANGED device
    BY <1>5 DEF PbsStop, Sends, Shape, Streams
  <2>2. Starting' => Starting
    BY <1>5 DEF PbsStop, Starting
  <2>3. UNCHANGED <<want, snap, live, chan, recv>>
    BY <1>5 DEF PbsStop, stream
  <2> QED BY <2>1, <2>2, <2>3 DEF Steady
<1>6. CASE PbsStart
  <2>1. device'.pbs = snap.rec \/ UNCHANGED device
    BY <1>6 DEF PbsStart, Sends, Shape, Streams
  <2>2. Starting
    BY <1>6 DEF PbsStart, Passes, Starting
  <2>3. UNCHANGED <<want, snap, live, chan, recv>>
    BY <1>6 DEF PbsStart, stream
  <2>4. want.pbs # 0 => snap.rec = want.rec
    BY <2>2 DEF Apart
  <2> QED BY <2>1, <2>2, <2>3, <2>4 DEF Steady
<1>7. CASE Pause \/ Rest
  <2>1. ~Starting'
    BY <1>7 DEF Pause, Rest, Sends, Starting
  <2>2. UNCHANGED <<want, live, chan, recv, device>>
    BY <1>7 DEF Pause, Rest, Sends, stream
  <2> QED BY <2>1, <2>2 DEF Steady
<1>8. CASE Logout
  <2>1. ~Starting' /\ live' = "none" /\ chan' = <<>> /\ UNCHANGED <<want, recv>>
    BY <1>8 DEF Logout, Starting, stream
  <2> QED BY <2>1 DEF Steady
<1> QED BY <1>1, <1>2, <1>3, <1>4, <1>5, <1>6, <1>7, <1>8 DEF LoginThread

(* and every other, until a playback begins with old frames of its second   *)
(* on their way, or while another is being started.                         *)
LEMMA ApartHolds ==
    ASSUME Shape, Order, Passes, Quiet, Apart, [Next]_vars, ~past'.alike, ~past'.swapped
    PROVE  Apart'
<1>1. CASE (\E t \in Type : StartRts(t)) \/ StopRts \/ StopPbs
  <2>1. /\ want'.rec = want.rec /\ want'.start = want.start /\ want'.pbs \in {0, want.pbs}
    BY <1>1 DEF StartRts, StopRts, StopPbs, Call, Shape, Wants
  <2>2. UNCHANGED <<pc, snap, recv, live, chan, device>>
    BY <1>1 DEF StartRts, StopRts, StopPbs, Call, login, stream, net
  <2>3. Starting' => Starting
    BY <2>2 DEF Starting
  <2> QED BY <2>1, <2>2, <2>3, ApartKept DEF Steady
<1>2. ASSUME NEW s \in Second, StartPbs(s) PROVE Apart'
  <2>1. UNCHANGED <<pbs, pc, snap, recv, live, chan, device>> /\ ~pbs.active
    BY <1>2 DEF StartPbs, Call, login, stream, net
  <2>2. want'.start = s
    BY <1>2 DEF StartPbs, Call, Shape, Wants
  <2>3. ~Starting /\ ~Coming(s)
    BY <1>2 DEF StartPbs, Shape, History
  <2>4. ~Starting'
    BY <2>1, <2>3 DEF Starting
  <2>5. live = "ok" => device.pbs = 0
    BY <2>1, <2>3 DEF Quiet, Silenced, Passes, Starting
  <2>6. /\ \A i \in 1..Len(chan) : chan[i].sec # s
        /\ recv.at = "look" => recv.frame.sec # s
    BY <2>3 DEF Coming
  <2> QED BY <2>1, <2>2, <2>4, <2>5, <2>6 DEF Apart, Told
<1>3. CASE DevStop \/ RtsError \/ Player \/ UNCHANGED vars
  <2>1. UNCHANGED <<want, pc, snap, recv, live, chan, device>>
    BY <1>3 DEF DevStop, RtsError, Player, PlayEnd, PlayTake, PlayLook, PlayCall,
                others, vars, login, stream, net
  <2>2. Starting' => Starting
    BY <2>1 DEF Starting
  <2> QED BY <2>1, <2>2, ApartKept DEF Steady
<1>4. CASE Break
  <2>1. UNCHANGED <<want, pc, snap, recv, chan, device>> /\ live' = "broken"
    BY <1>4 DEF Break, login, stream
  <2>2. Starting' => Starting
    BY <2>1 DEF Starting
  <2> QED BY <2>1, <2>2, ApartKept DEF Steady
<1>5. CASE DeviceSends
  <2>1. /\ live = "ok" /\ device.pbs # 0 /\ chan' = Append(chan, OnAir)
        /\ UNCHANGED <<want, pc, snap, recv, live>>
    BY <1>5 DEF DeviceSends, login, stream, OnAir
  <2>2. device'.pbs = device.pbs
    BY <1>5 DEF DeviceSends, Shape, Streams
  <2>3. Starting' <=> Starting
    BY <2>1 DEF Starting
  <2>4. OnAir \in Frames /\ OnAir.of = device.pbs
    BY OnAirFrame DEF OnAir
  <2>5. /\ Len(chan') = Len(chan) + 1 /\ Len(chan) \in Nat
        /\ chan'[Len(chan) + 1] = OnAir
        /\ \A i \in 1..Len(chan) : chan'[i] = chan[i]
    BY <2>1, <2>4 DEF Shape
  <2>6. \A i \in 1..Len(chan') : i \in 1..Len(chan) \/ i = Len(chan) + 1
    BY <2>5
  <2>7. ASSUME want.pbs # 0 PROVE \A i \in 1..Len(chan') : Told(chan'[i])
    <3>1. OnAir.of = want.rec /\ \A i \in 1..Len(chan) : Told(chan[i])
      BY <2>1, <2>4, <2>7 DEF Apart
    <3>2. Told(OnAir)
      BY <3>1 DEF Told
    <3> QED BY <2>5, <2>6, <3>1, <3>2
  <2> QED BY <2>1, <2>2, <2>3, <2>7 DEF Apart, Told
<1>6. CASE RecvEnd \/ RecvError \/ RecvLook \/ RecvPut
  <2>1. UNCHANGED <<want, pc, snap, live, chan, device>>
    BY <1>6 DEF RecvEnd, RecvError, RecvLook, RecvPut, others, login
  <2>2. recv' \in {Gone, Idle} \/ recv' = [recv EXCEPT !.at = "put"]
    BY <1>6 DEF RecvEnd, RecvError, RecvLook, RecvPut
  <2>3. recv'.at # "look"
    BY <2>2 DEF Gone, Idle, Thread, Threads, Shape
  <2>4. Starting' => Starting
    BY <2>1 DEF Starting
  <2> QED BY <2>1, <2>3, <2>4, ApartKept DEF Steady
<1>7. CASE RecvTake
  <2>1. /\ UNCHANGED <<want, pc, snap, live, device>>
        /\ recv'.frame = chan[1] /\ chan' = Tail(chan) /\ chan # <<>>
    BY <1>7 DEF RecvTake, Thread, others, login
  <2>2. /\ Len(chan) \in Nat \ {0} /\ Len(chan') = Len(chan) - 1
        /\ \A i \in 1..Len(chan') : chan'[i] = chan[i + 1] /\ i + 1 \in 1..Len(chan)
    BY <2>1 DEF Shape
  <2>3. ASSUME want.pbs # 0
        PROVE  Told(recv'.frame) /\ \A i \in 1..Len(chan') : Told(chan'[i])
    <3>1. \A i \in 1..Len(chan) : Told(chan[i])
      BY <2>3 DEF Apart
    <3> QED BY <2>1, <2>2, <3>1
  <2>4. Starting' <=> Starting
    BY <2>1 DEF Starting
  <2> QED BY <2>1, <2>3, <2>4 DEF Apart, Told
<1> QED BY <1>1, <1>2, <1>3, <1>4, <1>5, <1>6, <1>7, SteadyLogin, ApartKept
        DEF Next, Receiver, Second

-----------------------------------------------------------------------------
(* Most steps bring no frame nearer to the callback.                       *)
NoFrameMoves ==
    /\ want'.rec = want.rec /\ want'.start = want.start /\ want'.pbs \in {0, want.pbs}
    /\ pbs'.active => pbs.active
    /\ pbs'.start => pbs.start
    /\ play' = play \/ play'.at \notin {"held", "call"}
    /\ recv' = recv \/ recv'.at \notin {"look", "put"}
    /\ ring' \in {ring, <<>>} /\ chan' \in {chan, <<>>}
    /\ \/ device'.pbs = 0 \/ ~pbs.active
       \/ device'.pbs = device.pbs /\ device'.sec = device.sec
    /\ past'.mixed = past.mixed

(* Where no frame moves, no old frame comes in,                             *)
LEMMA CleanKept ==
    ASSUME Clean, NoFrameMoves
    PROVE  Clean'
<1> USE DEF NoFrameMoves
<1>1. Playing' => Playing
  BY DEF Playing
<1>2. Behind'
  <2> SUFFICES ASSUME Playing' PROVE
        /\ play'.at = "held" => Due(play.frame)'
        /\ (\A i \in 1..Len(ring) : Due(ring[i]))'
        /\ recv'.at = "put" => Due(recv.frame)'
    BY DEF Behind
  <2>1. Playing
    BY <1>1
  <2>2. play'.at = "held" => Due(play.frame)'
    BY <2>1 DEF Clean, Behind, Due
  <2>3. recv'.at = "put" => Due(recv.frame)'
    BY <2>1 DEF Clean, Behind, Due
  <2>4. (\A i \in 1..Len(ring) : Due(ring[i]))'
    BY <2>1 DEF Clean, Behind, Due
  <2> QED BY <2>2, <2>3, <2>4
<1>3. Before'
  <2> SUFFICES ASSUME Playing', pbs'.start PROVE
        /\ (\A i \in 1..Len(chan) : Due(chan[i]))'
        /\ recv'.at = "look" => Due(recv.frame)'
        /\ device'.pbs = 0 \/ Due(OnAir)'
    BY DEF Before
  <2>1. Playing /\ pbs.start /\ pbs.active
    BY <1>1 DEF Playing
  <2>2. recv'.at = "look" => Due(recv.frame)'
    BY <2>1 DEF Clean, Before, Due
  <2>3. device'.pbs = 0 \/ Due(OnAir)'
    BY <2>1 DEF Clean, Before, Due, OnAir
  <2>4. (\A i \in 1..Len(chan) : Due(chan[i]))'
    BY <2>1 DEF Clean, Before, Due
  <2> QED BY <2>2, <2>3, <2>4
<1>4. Calling'
  BY DEF Clean, Calling, Due
<1>5. ~past'.mixed
  BY DEF Clean
<1> QED BY <1>2, <1>3, <1>4, <1>5 DEF Clean

(* which is so in every step of the login thread but the one that marks a   *)
(* playback as on.                                                          *)
LEMMA LoginQuiet ==
    ASSUME Shape, Passes, LoginThread, ~PbsMark
    PROVE  NoFrameMoves
<1>1. CASE Top \/ JoinPlay \/ RtsLook \/ PbsLook
  BY <1>1 DEF Top, JoinPlay, RtsLook, PbsLook, NoFrameMoves, stream, net
<1>2. CASE Login
  <2>1. CASE UNCHANGED <<pbs, stream>>
    BY <1>2, <2>1 DEF Login, NoFrameMoves, stream
  <2>2. CASE /\ pbs' = [pbs EXCEPT !.state = TRUE, !.start = FALSE]
             /\ recv' = Idle /\ play' = Idle /\ ring' = <<>>
    <3>1. pbs'.active = pbs.active /\ pbs'.start = FALSE
      BY <2>2 DEF Shape, Flags
    <3>2. recv'.at = "idle" /\ play'.at = "idle"
      BY <2>2 DEF Idle, Thread
    <3> QED BY <1>2, <2>2, <3>1, <3>2 DEF Login, NoFrameMoves
  <2> QED BY <1>2, <2>1, <2>2 DEF Login
<1>3. CASE RtsStop \/ RtsStart
  <2>1. device'.pbs = device.pbs /\ device'.sec = device.sec
    BY <1>3 DEF RtsStop, RtsStart, Sends, Shape, Streams
  <2> QED BY <1>3, <2>1 DEF RtsStop, RtsStart, NoFrameMoves, stream
<1>4. CASE PbsStop
  <2>1. device'.pbs = 0 \/ UNCHANGED device
    BY <1>4 DEF PbsStop, Sends, Shape, Streams
  <2> QED BY <1>4, <2>1 DEF PbsStop, NoFrameMoves, stream
<1>5. CASE PbsStart
  BY <1>5 DEF PbsStart, Passes, NoFrameMoves, stream
<1>6. CASE Pause
  <2>1. pbs'.active = pbs.active /\ pbs'.start = pbs.start
    BY <1>6 DEF Pause, Shape, Flags
  <2> QED BY <1>6, <2>1 DEF Pause, Sends, NoFrameMoves, stream
<1>7. CASE Rest
  BY <1>7 DEF Rest, Sends, NoFrameMoves, stream
<1>8. CASE Logout
  <2>1. (pbs'.active => pbs.active) /\ pbs'.start = pbs.start
    BY <1>8 DEF Logout, Shape, Flags
  <2>2. past'.mixed = past.mixed
    BY <1>8 DEF Logout, Shape, History
  <2> QED BY <1>8, <2>1, <2>2 DEF Logout, Silent, NoFrameMoves, stream
<1>9. CASE JoinRecv
  <2>1. pbs'.active = pbs.active /\ pbs'.start = pbs.start
    BY <1>9 DEF JoinRecv, Shape, Flags
  <2> QED BY <1>9, <2>1 DEF JoinRecv, NoFrameMoves, net
<1> QED BY <1>1, <1>2, <1>3, <1>4, <1>5, <1>6, <1>7, <1>8, <1>9 DEF LoginThread

(* A mark that finds no remains finds nothing behind the test of the flag, *)
(* and the flag reset.                                                     *)
LEMMA MarkClean ==
    ASSUME Shape, Clean, PbsMark, ~past'.carried
    PROVE  Clean'
<1>1. pbs'.active = (snap.pbs # 0) /\ pbs'.start = pbs.start
  BY DEF PbsMark, Shape, Flags
<1>2. UNCHANGED <<want, recv, play, ring, chan, device>> /\ past'.mixed = past.mixed
  BY DEF PbsMark, stream, net, Shape, History
<1>3. ~(snap.pbs # 0 /\ Remains)
  BY DEF PbsMark, Shape, History
<1>4. Calling' /\ ~past'.mixed
  BY <1>2 DEF Clean, Calling, Due
<1>5. CASE snap.pbs = 0
  <2>1. ~Playing'
    BY <1>1, <1>5 DEF Playing
  <2> QED BY <1>4, <2>1 DEF Clean, Behind, Before
<1>6. CASE ~Remains
  <2>1. pbs'.start = FALSE /\ ring' = <<>> /\ recv'.at # "put" /\ play'.at \notin {"held", "call"}
    BY <1>1, <1>2, <1>6 DEF Remains, Shape, Flags
  <2> QED BY <1>4, <2>1 DEF Clean, Behind, Before
<1> QED BY <1>3, <1>5, <1>6

(* A playback that begins over an empty way has nothing old before it.      *)
LEMMA StartClean ==
    ASSUME Shape, Clean, NEW s, StartPbs(s), ~past'.carried
    PROVE  Clean'
<1>1. UNCHANGED <<pbs, play>> /\ ~pbs.active
  BY DEF StartPbs, Call, stream
<1>2. play.at # "call" /\ past'.mixed = past.mixed
  BY DEF StartPbs, Shape, History
<1> QED BY <1>1, <1>2 DEF Clean, Behind, Before, Calling, Playing

(* Once the flag is set the device sends frames of the current playback.   *)
LEMMA SendsClean ==
    ASSUME Shape, Clean, DeviceSends
    PROVE  Clean'
<1>1. /\ UNCHANGED <<want, pbs, recv, play, ring, past>>
      /\ chan' = Append(chan, OnAir) /\ device.pbs # 0
  BY DEF DeviceSends, stream, OnAir
<1>2. Behind' /\ Calling' /\ ~past'.mixed
  BY <1>1 DEF Clean, Behind, Calling, Playing, Due
<1>3. OnAir.of = OnAir'.of /\ OnAir.sec <= OnAir'.sec
  <2>1. PICK s \in device.sec..LastSecond : device' = [device EXCEPT !.sec = s]
    BY DEF DeviceSends
  <2>2. device'.pbs = device.pbs /\ device'.sec = s
    BY <2>1 DEF Shape, Streams
  <2>3. device.sec \in Int /\ LastSecond \in Int
    BY HyDevAssumption DEF Shape, Streams, Second
  <2> QED BY <2>1, <2>2, <2>3 DEF OnAir
<1>4. ASSUME Playing, pbs.start PROVE Due(OnAir) /\ \A i \in 1..Len(chan) : Due(chan[i])
  BY <1>1, <1>4 DEF Clean, Before
<1>5. ASSUME Playing, pbs.start PROVE Due(OnAir)'
  <2>1. OnAir \in Frames /\ OnAir' \in Frames
    <3>1. Shape'
      BY ShapeStreams
    <3>2. OnAir'.sec \in Nat /\ OnAir'.of \in Nat
      BY <3>1, HyDevAssumption DEF Shape, Streams, OnAir, Second
    <3>3. OnAir' = [of |-> OnAir'.of, sec |-> OnAir'.sec]
      BY DEF OnAir
    <3> QED BY <3>2, <3>3, OnAirFrame DEF Frames
  <2>2. want.start \in Nat
    BY HyDevAssumption DEF Shape, Wants, Second
  <2>3. OnAir.of = want.rec /\ OnAir.sec >= want.start
    BY <1>4, <1>5 DEF Due
  <2>4. OnAir'.of = want.rec /\ OnAir'.sec >= want.start
    BY <1>3, <2>1, <2>2, <2>3 DEF Frames
  <2> QED BY <1>1, <2>4 DEF Due
<1>6. ASSUME Playing, pbs.start
      PROVE  \A i \in 1..Len(chan') : Due(chan'[i])
  <2>1. OnAir \in Frames /\ chan \in Seq(Frames)
    BY OnAirFrame DEF Shape
  <2>2. /\ Len(chan') = Len(chan) + 1 /\ Len(chan) \in Nat
        /\ chan'[Len(chan) + 1] = OnAir
        /\ \A i \in 1..Len(chan) : chan'[i] = chan[i]
    BY <1>1, <2>1
  <2>3. \A i \in 1..Len(chan') : i \in 1..Len(chan) \/ i = Len(chan) + 1
    BY <2>2
  <2> QED BY <1>4, <1>6, <2>2, <2>3
<1>7. ASSUME Playing, pbs.start PROVE recv.at = "look" => Due(recv.frame)
  BY <1>7 DEF Clean, Before
<1>8. Playing' <=> Playing
  BY <1>1 DEF Playing
<1>9. \A f : Due(f)' <=> Due(f)
  BY <1>1 DEF Due
<1>10. Before'
  BY <1>1, <1>5, <1>6, <1>7, <1>8, <1>9 DEF Before
<1> QED BY <1>2, <1>10 DEF Clean

(* The receiver takes a frame of the playback that is on,                   *)
LEMMA TakeClean ==
    ASSUME Shape, Clean, RecvTake
    PROVE  Clean'
<1>1. /\ UNCHANGED <<want, pbs, play, ring, device, past>>
      /\ recv'.at = "look" /\ recv'.frame = chan[1]
      /\ chan' = Tail(chan) /\ chan # <<>>
  BY DEF RecvTake, others, Thread
<1>2. Behind' /\ Calling' /\ ~past'.mixed
  BY <1>1 DEF Clean, Behind, Calling, Playing, Due
<1>3. ASSUME Playing, pbs.start
      PROVE  Due(chan[1]) /\ \A i \in 1..Len(chan') : Due(chan'[i])
  <2>1. \A i \in 1..Len(chan) : Due(chan[i])
    BY <1>3 DEF Clean, Before
  <2>2. /\ Len(chan) \in Nat \ {0} /\ Len(chan') = Len(chan) - 1
        /\ \A i \in 1..Len(chan') : chan'[i] = chan[i + 1] /\ i + 1 \in 1..Len(chan)
    BY <1>1 DEF Shape
  <2> QED BY <1>1, <2>1, <2>2
<1>4. ASSUME Playing, pbs.start PROVE device.pbs = 0 \/ Due(OnAir)
  BY <1>4 DEF Clean, Before
<1>5. Before'
  BY <1>1, <1>3, <1>4 DEF Before, Playing, Due, OnAir
<1> QED BY <1>2, <1>5 DEF Clean

(* The frame that sets the flag is of the current playback: it is of the    *)
(* second the record starts at, as no other frame on its way is; and what   *)
(* comes after it is neither of an earlier playback nor of an earlier       *)
(* second.                                                                  *)
LEMMA LookClean ==
    ASSUME Shape, Order, Apart, Clean, RecvLook
    PROVE  Clean'
<1>1. UNCHANGED <<want, play, ring, chan, device, past, snap>> /\ recv.at = "look"
  BY DEF RecvLook, others, login
<1>2. pbs'.active = pbs.active
  BY DEF RecvLook, Shape, Flags
<1>3. CASE recv' = Idle /\ (pbs' = pbs \/ pbs' = [pbs EXCEPT !.start = FALSE])
  <2>1. recv'.at = "idle" /\ (pbs'.start => pbs.start)
    BY <1>3 DEF Idle, Thread, Shape, Flags
  <2>2. NoFrameMoves
    BY <1>1, <1>2, <2>1 DEF NoFrameMoves
  <2> QED BY <2>2, CleanKept
<1>4. CASE /\ pbs.active /\ want.pbs # 0 /\ (pbs.start \/ recv.frame.sec = want.start)
           /\ recv' = [recv EXCEPT !.at = "put"]
  <2>1. recv'.at = "put" /\ recv'.frame = recv.frame
    BY <1>4 DEF Shape, Threads
  <2>2. Playing
    BY <1>4 DEF Playing
  <2>3. /\ want.rec \in Nat /\ snap.rec \in Nat /\ device.pbs \in Nat
        /\ want.start \in Nat /\ snap.rec <= want.rec
    BY HyDevAssumption DEF Shape, Wants, Streams, Second, Order
  <2>4. Due(recv.frame)
    <3>1. CASE pbs.start
      BY <1>1, <2>2, <3>1 DEF Clean, Before
    <3>2. CASE recv.frame.sec = want.start
      <4>1. recv.frame.of = want.rec
        BY <1>1, <1>4, <3>2 DEF Apart, Told
      <4> QED BY <2>3, <3>2, <4>1 DEF Due
    <3> QED BY <1>4, <3>1, <3>2
  <2>5. recv.frame \in Frames /\ recv.frame.of = want.rec /\ recv.frame.sec >= want.start
    BY <2>4 DEF Shape, Threads, Due
  <2>6. ASSUME NEW f \in Frames, Upto(recv.frame, f), f.of <= snap.rec PROVE Due(f)
    BY <2>3, <2>5, <2>6 DEF Frames, Upto, Due
  <2>7. \A i \in 1..Len(chan) : Due(chan[i])
    <3>1. \A i \in 1..Len(chan) : chan[i] \in Frames
      BY DEF Shape
    <3>2. \A i \in 1..Len(chan) : chan[i].of <= snap.rec /\ Upto(recv.frame, chan[i])
      BY <1>1 DEF Order
    <3> QED BY <2>6, <3>1, <3>2
  <2>8. device.pbs = 0 \/ Due(OnAir)
    <3>1. OnAir \in Frames /\ OnAir.of <= snap.rec
      BY OnAirFrame DEF Order, OnAir
    <3>2. device.pbs = 0 \/ Upto(recv.frame, OnAir)
      BY <1>1 DEF Order
    <3> QED BY <2>6, <3>1, <3>2
  <2>9. \A f : Due(f)' <=> Due(f)
    BY <1>1 DEF Due
  <2>10. play.at = "held" => Due(play.frame)
    BY <2>2 DEF Clean, Behind
  <2>11. \A i \in 1..Len(ring) : Due(ring[i])
    BY <2>2 DEF Clean, Behind
  <2>12. Behind'
    BY <1>1, <2>1, <2>4, <2>9, <2>10, <2>11 DEF Behind
  <2>13. OnAir' = OnAir
    BY <1>1 DEF OnAir
  <2>14. Before'
    BY <1>1, <2>1, <2>7, <2>8, <2>9, <2>13 DEF Before
  <2>15. Calling' /\ ~past'.mixed
    BY <1>1 DEF Clean, Calling, Due
  <2> QED BY <2>12, <2>14, <2>15 DEF Clean
<1> QED BY <1>3, <1>4 DEF RecvLook

(* and puts it into the ring as it is.                                      *)
LEMMA PutClean ==
    ASSUME Shape, Clean, RecvPut
    PROVE  Clean'
<1>1. /\ UNCHANGED <<want, pbs, play, chan, device, past>>
      /\ recv.at = "put" /\ recv'.at = "idle"
  BY DEF RecvPut, others, Idle, Thread
<1>2. ASSUME Playing PROVE \A i \in 1..Len(ring') : Due(ring'[i])
  <2>1. Due(recv.frame) /\ \A i \in 1..Len(ring) : Due(ring[i])
    BY <1>1, <1>2 DEF Clean, Behind
  <2>2. CASE ring' = ring
    BY <2>1, <2>2
  <2>3. CASE ring' = Append(ring, recv.frame)
    <3>1. recv.frame \in Frames /\ ring \in Seq(Frames)
      BY DEF Shape, Threads
    <3>2. /\ Len(ring') = Len(ring) + 1 /\ Len(ring) \in Nat
          /\ ring'[Len(ring) + 1] = recv.frame
          /\ \A i \in 1..Len(ring) : ring'[i] = ring[i]
      BY <2>3, <3>1
    <3>3. \A i \in 1..Len(ring') : i \in 1..Len(ring) \/ i = Len(ring) + 1
      BY <3>2
    <3> QED BY <2>1, <3>2, <3>3
  <2> QED BY <2>2, <2>3 DEF RecvPut
<1>3. Playing => (play.at = "held" => Due(play.frame))
  BY DEF Clean, Behind
<1>4. \A f : Due(f)' <=> Due(f)
  BY <1>1 DEF Due
<1>5. Behind'
  BY <1>1, <1>2, <1>3, <1>4 DEF Behind, Playing
<1>6. Before' /\ Calling' /\ ~past'.mixed
  BY <1>1 DEF Clean, Before, Calling, Playing, Due, OnAir
<1> QED BY <1>5, <1>6 DEF Clean

(* From the ring to the callback. *)
LEMMA PlayClean ==
    ASSUME Shape, Clean, Player
    PROVE  Clean'
<1>1. UNCHANGED <<want, pbs, recv, chan, device>>
  BY DEF Player, PlayEnd, PlayTake, PlayLook, PlayCall, others
<1>2. \A f : Due(f)' <=> Due(f)
  BY <1>1 DEF Due
<1>3. (Playing' <=> Playing) /\ (OnAir' = OnAir)
  BY <1>1 DEF Playing, OnAir
<1>4. Before'
  BY <1>1, <1>2, <1>3 DEF Clean, Before
<1>5. CASE PlayEnd
  <2>1. play'.at = "gone" /\ UNCHANGED <<ring, past>>
    BY <1>5 DEF PlayEnd, Gone, Thread
  <2>2. NoFrameMoves
    BY <1>1, <2>1 DEF NoFrameMoves
  <2> QED BY <2>2, CleanKept
<1>6. CASE PlayTake
  <2>1. /\ play'.at = "held" /\ play'.frame = ring[1] /\ UNCHANGED past
        /\ ring # <<>> /\ ring' = Tail(ring)
    BY <1>6 DEF PlayTake, Thread
  <2>2. ASSUME Playing
        PROVE  /\ Due(play'.frame) /\ \A i \in 1..Len(ring') : Due(ring'[i])
               /\ recv.at = "put" => Due(recv.frame)
    <3>1. /\ \A i \in 1..Len(ring) : Due(ring[i])
          /\ recv.at = "put" => Due(recv.frame)
      BY <2>2 DEF Clean, Behind
    <3>2. /\ Len(ring) \in Nat \ {0} /\ Len(ring') = Len(ring) - 1
          /\ \A i \in 1..Len(ring') : ring'[i] = ring[i + 1] /\ i + 1 \in 1..Len(ring)
      BY <2>1 DEF Shape
    <3> QED BY <2>1, <3>1, <3>2
  <2>3. Behind'
    BY <1>1, <1>2, <1>3, <2>2 DEF Behind
  <2>4. Calling' /\ ~past'.mixed
    BY <2>1 DEF Clean, Calling
  <2> QED BY <1>4, <2>3, <2>4 DEF Clean
<1>7. CASE PlayLook
  <2>1. CASE play' = Idle /\ ring' = <<>>
    <3>1. play'.at = "idle" /\ UNCHANGED past
      BY <1>7, <2>1 DEF PlayLook, Idle, Thread
    <3>2. NoFrameMoves
      BY <1>1, <2>1, <3>1 DEF NoFrameMoves
    <3> QED BY <3>2, CleanKept
  <2>2. CASE pbs.active /\ want.pbs # 0 /\ play' = [play EXCEPT !.at = "call"] /\ UNCHANGED ring
    <3>1. /\ play.at = "held" /\ play'.at = "call" /\ play'.frame = play.frame
          /\ UNCHANGED past
      BY <1>7, <2>2 DEF PlayLook, Shape, Threads
    <3>2. Playing
      BY <2>2 DEF Playing
    <3>3. /\ Due(play'.frame) /\ \A i \in 1..Len(ring) : Due(ring[i])
          /\ recv.at = "put" => Due(recv.frame)
      BY <3>1, <3>2 DEF Clean, Behind
    <3>4. Behind'
      BY <1>1, <1>2, <2>2, <3>1, <3>3 DEF Behind
    <3>5. Calling' /\ ~past'.mixed
      BY <1>2, <3>1, <3>3 DEF Clean, Calling
    <3> QED BY <1>4, <3>4, <3>5 DEF Clean
  <2> QED BY <1>7, <2>1, <2>2 DEF PlayLook
<1>8. CASE PlayCall
  <2>1. play.at = "call" /\ play'.at = "idle" /\ UNCHANGED ring
    BY <1>8 DEF PlayCall, Idle, Thread
  <2>2. ~(want.pbs # 0 /\ ~Due(play.frame))
    BY <2>1 DEF Clean, Calling
  <2>3. past'.mixed = past.mixed
    BY <1>8, <2>2 DEF PlayCall, Shape, History
  <2>4. NoFrameMoves
    BY <1>1, <2>1, <2>3 DEF NoFrameMoves
  <2> QED BY <2>4, CleanKept
<1> QED BY <1>5, <1>6, <1>7, <1>8 DEF Player

(* What has excused a frame once stays noted.                               *)
LEMMA ExcusedStays ==
    ASSUME Shape, [Next]_vars
    PROVE  /\ past.carried => past'.carried
           /\ past.alike => past'.alike
           /\ past.swapped => past'.swapped
<1>1. CASE UNCHANGED past
  BY <1>1
<1>2. ASSUME NEW s, StartPbs(s)
      PROVE  /\ past.carried => past'.carried
             /\ past.alike => past'.alike
             /\ past.swapped => past'.swapped
  BY <1>2 DEF StartPbs, Shape, History
<1>3. CASE PbsMark
  BY <1>3 DEF PbsMark, Shape, History
<1>4. CASE PlayCall
  BY <1>4 DEF PlayCall, Shape, History
<1>5. CASE Logout
  BY <1>5 DEF Logout, Shape, History
<1>6. CASE (\E t \in Type : StartRts(t)) \/ StopRts \/ StopPbs \/ DevStop
           \/ Break \/ DeviceSends \/ RtsError \/ UNCHANGED vars
  BY <1>1, <1>6 DEF StartRts, StopRts, StopPbs, DevStop, Break, DeviceSends, RtsError, vars
<1>7. CASE LoginThread /\ ~PbsMark /\ ~Logout
  BY <1>1, <1>7 DEF LoginThread, Top, Login, RtsLook, RtsStop, RtsStart, PbsLook, PbsStop,
                    PbsStart, Pause, Rest, JoinPlay, JoinRecv
<1>8. CASE Receiver \/ PlayEnd \/ PlayTake \/ PlayLook
  BY <1>1, <1>8 DEF Receiver, RecvEnd, RecvError, RecvTake, RecvLook, RecvPut,
                    PlayEnd, PlayTake, PlayLook
<1> QED BY <1>2, <1>3, <1>4, <1>5, <1>6, <1>7, <1>8 DEF Next, Player

(* Every step keeps the way clean until a playback begins over remains.     *)
LEMMA CleanHolds ==
    ASSUME Shape, Order, Passes, Apart, Clean, [Next]_vars, ~past'.carried
    PROVE  Clean'
<1>1. CASE (\E t \in Type : StartRts(t)) \/ StopRts \/ StopPbs
  <2>1. want'.rec = want.rec /\ want'.start = want.start /\ want'.pbs \in {0, want.pbs}
    BY <1>1 DEF StartRts, StopRts, StopPbs, Call, Shape, Wants
  <2>2. UNCHANGED <<pbs, stream, net, past>>
    BY <1>1 DEF StartRts, StopRts, StopPbs, Call
  <2>3. NoFrameMoves
    BY <2>1, <2>2 DEF NoFrameMoves, stream, net
  <2> QED BY <2>3, CleanKept
<1>2. CASE DevStop \/ Break \/ RtsError \/ UNCHANGED vars
  <2>1. UNCHANGED <<want, pbs, stream, chan, device, past>>
    BY <1>2 DEF DevStop, Break, RtsError, vars, net
  <2>2. NoFrameMoves
    BY <2>1 DEF NoFrameMoves, stream
  <2> QED BY <2>2, CleanKept
<1>3. CASE LoginThread /\ ~PbsMark
  BY <1>3, LoginQuiet, CleanKept
<1>4. CASE RecvEnd \/ RecvError
  <2>1. /\ recv'.at = "gone"
        /\ UNCHANGED <<want, pbs, play, ring, chan, device, past>>
    BY <1>4 DEF RecvEnd, RecvError, others, Gone, Thread
  <2>2. NoFrameMoves
    BY <2>1 DEF NoFrameMoves
  <2> QED BY <2>2, CleanKept
<1> QED BY <1>1, <1>2, <1>3, <1>4, StartClean, MarkClean, SendsClean, TakeClean,
           LookClean, PutClean, PlayClean DEF Next, LoginThread, Receiver

-----------------------------------------------------------------------------
(* The bounds of TypeOK. *)

Plain ==
    /\ state \in {0, 1} /\ online \in {"none", "fail", "wait", "running"}
    /\ live \in {"none", "ok", "broken", "refused"}
    /\ act \in Type \cup {"off"}
Counted == calls \in Nat /\ want.rec <= calls /\ calls <= CallBound
Sides == recv.at \in {"idle", "look", "put", "gone"} /\ play.at \in {"idle", "held", "call", "gone"}
Room == Len(ring) <= RingSize /\ Len(chan) <= ChanSize

(* Every step keeps the fields that are plain choices,                      *)
LEMMA PlainHolds ==
    ASSUME Shape, Plain, [Next]_vars
    PROVE  Plain'
<1>1. CASE (\E t \in Type : StartRts(t)) \/ StopRts \/ (\E s \in Second : StartPbs(s)) \/ StopPbs \/ DevStop
  BY <1>1 DEF StartRts, StopRts, StartPbs, StopPbs, Call, DevStop, Plain, net
<1>2. CASE Break \/ DeviceSends \/ RtsError \/ UNCHANGED vars
  BY <1>2 DEF Break, DeviceSends, RtsError, vars, Plain, net
<1>3. CASE Top \/ Login \/ RtsLook \/ RtsStop
  BY <1>3 DEF Top, Login, RtsLook, RtsStop, Plain, net
<1>4. CASE RtsStart
  BY <1>4 DEF RtsStart, Plain, Shape, Wants
<1>5. CASE PbsLook \/ PbsStop \/ PbsStart \/ PbsMark \/ Pause \/ Rest
  BY <1>5 DEF PbsLook, PbsStop, PbsStart, PbsMark, Pause, Rest, Plain, net
<1>6. CASE Logout \/ JoinPlay \/ JoinRecv
  BY <1>6 DEF Logout, JoinPlay, JoinRecv, Plain, net
<1>7. CASE Receiver \/ Player
  BY <1>7 DEF Receiver, RecvEnd, RecvError, RecvTake, RecvLook, RecvPut,
              Player, PlayEnd, PlayTake, PlayLook, PlayCall, others, Plain
<1> QED BY <1>1, <1>2, <1>3, <1>4, <1>5, <1>6, <1>7 DEF Next, LoginThread, Second

(* the numbers of calls and of playbacks,                                   *)
LEMMA CountedHolds ==
    ASSUME Shape, Counted, [Next]_vars
    PROVE  Counted'
<1>1. ASSUME NEW w, Call(w), w.rec \in {want.rec, want.rec + 1} PROVE Counted'
  <2>1. want' = w /\ calls' = calls + 1 /\ calls < CallBound /\ want.rec \in Nat
    BY <1>1 DEF Call, Shape, Wants
  <2> QED BY <1>1, <2>1, HyDevAssumption DEF Counted
<1>2. CASE (\E t \in Type : StartRts(t)) \/ StopRts \/ StopPbs
  BY <1>1, <1>2 DEF StartRts, StopRts, StopPbs, Shape, Wants
<1>3. ASSUME NEW s \in Second, StartPbs(s) PROVE Counted'
  <2>1. [want EXCEPT !.pbs = want.rec + 1, !.rec = want.rec + 1, !.start = s].rec = want.rec + 1
    BY DEF Shape, Wants
  <2> QED BY <1>1, <1>3, <2>1 DEF StartPbs
<1>4. ASSUME UNCHANGED <<want, calls>> PROVE Counted'
  BY <1>4 DEF Counted
<1>5. CASE DevStop \/ Break \/ DeviceSends \/ RtsError \/ UNCHANGED vars
  BY <1>4, <1>5 DEF DevStop, Break, DeviceSends, RtsError, vars, bound
<1>6. CASE LoginThread
  BY <1>4, <1>6 DEF LoginThread, Top, Login, RtsLook, RtsStop, RtsStart, PbsLook, PbsStop,
     PbsStart, PbsMark, Pause, Rest, Logout, JoinPlay, JoinRecv, bound
<1>7. CASE Receiver \/ Player
  BY <1>4, <1>7 DEF Receiver, RecvEnd, RecvError, RecvTake, RecvLook, RecvPut,
     Player, PlayEnd, PlayTake, PlayLook, PlayCall, others, bound
<1> QED BY <1>2, <1>3, <1>5, <1>6, <1>7 DEF Next, Second

(* the threads' own places,                                                 *)
LEMMA SidesHold ==
    ASSUME Shape, Sides, [Next]_vars
    PROVE  Sides'
<1>1. ASSUME UNCHANGED <<recv, play>> PROVE Sides'
  BY <1>1 DEF Sides
<1>2. CASE (\E t \in Type : StartRts(t)) \/ StopRts \/ (\E s \in Second : StartPbs(s)) \/ StopPbs \/ DevStop
  BY <1>1, <1>2 DEF StartRts, StopRts, StartPbs, StopPbs, Call, DevStop, stream
<1>3. CASE Break \/ DeviceSends \/ RtsError \/ UNCHANGED vars
  BY <1>1, <1>3 DEF Break, DeviceSends, RtsError, vars, stream
<1>4. CASE Login
  <2>1. CASE UNCHANGED stream
    BY <1>1, <2>1 DEF stream
  <2>2. CASE recv' = Idle /\ play' = Idle
    BY <2>2 DEF Sides, Idle, Thread
  <2> QED BY <1>4, <2>1, <2>2 DEF Login
<1>5. CASE LoginThread /\ ~Login
  BY <1>1, <1>5 DEF LoginThread, Top, RtsLook, RtsStop, RtsStart, PbsLook, PbsStop,
     PbsStart, PbsMark, Pause, Rest, Logout, JoinPlay, JoinRecv, stream
<1>6. CASE Receiver
  BY <1>6 DEF Receiver, RecvEnd, RecvError, RecvTake, RecvLook, RecvPut, Idle, Gone, Thread,
     Shape, Threads, Sides
<1>7. CASE Player
  BY <1>7 DEF Player, PlayEnd, PlayTake, PlayLook, PlayCall, Idle, Gone, Thread,
     Shape, Threads, Sides
<1> QED BY <1>2, <1>3, <1>4, <1>5, <1>6, <1>7 DEF Next, Second

(* and the bounds of the ring and of the channel.                           *)
LEMMA RoomHolds ==
    ASSUME Shape, Room, [Next]_vars
    PROVE  Room'
<1>1. ASSUME UNCHANGED ring \/ ring' = <<>>, UNCHANGED chan \/ chan' = <<>> PROVE Room'
  BY <1>1, HyDevAssumption DEF Room
<1>2. CASE (\E t \in Type : StartRts(t)) \/ StopRts \/ (\E s \in Second : StartPbs(s)) \/ StopPbs \/ DevStop
  BY <1>1, <1>2 DEF StartRts, StopRts, StartPbs, StopPbs, Call, DevStop, stream, net
<1>3. CASE Break \/ RtsError \/ UNCHANGED vars
  BY <1>1, <1>3 DEF Break, RtsError, vars, stream, net
<1>4. CASE LoginThread
  BY <1>1, <1>4 DEF LoginThread, Top, Login, RtsLook, RtsStop, RtsStart, PbsLook, PbsStop,
     PbsStart, PbsMark, Pause, Rest, Logout, JoinPlay, JoinRecv, stream, net
<1>5. CASE RecvEnd \/ RecvError \/ RecvLook \/ PlayEnd \/ PlayLook \/ PlayCall
  BY <1>1, <1>5 DEF RecvEnd, RecvError, RecvLook, PlayEnd, PlayLook, PlayCall
<1>6. CASE DeviceSends
  <2>1. chan \in Seq(Frames) /\ OnAir \in Frames /\ Len(chan) < ChanSize
        /\ chan' = Append(chan, OnAir) /\ UNCHANGED ring
    BY <1>6, OnAirFrame DEF DeviceSends, Shape, stream, OnAir
  <2>2. Len(chan') = Len(chan) + 1 /\ Len(chan) \in Nat
    BY <2>1
  <2> QED BY <2>1, <2>2, HyDevAssumption DEF Room
<1>7. CASE RecvPut
  <2>1. ring \in Seq(Frames) /\ recv.frame \in Frames /\ UNCHANGED chan
        /\ ring' = IF Len(ring) < RingSize THEN Append(ring, recv.frame) ELSE ring
    BY <1>7 DEF RecvPut, Shape, Threads
  <2>2. Len(Append(ring, recv.frame)) = Len(ring) + 1 /\ Len(ring) \in Nat
    BY <2>1
  <2> QED BY <2>1, <2>2, HyDevAssumption DEF Room
<1>8. CASE RecvTake
  <2>1. chan \in Seq(Frames) /\ chan # <<>> /\ chan' = Tail(chan) /\ UNCHANGED ring
    BY <1>8 DEF RecvTake, Shape
  <2>2. Len(chan') = Len(chan) - 1 /\ Len(chan) \in Nat
    BY <2>1
  <2> QED BY <2>1, <2>2, HyDevAssumption DEF Room
<1>9. CASE PlayTake
  <2>1. ring \in Seq(Frames) /\ ring # <<>> /\ ring' = Tail(ring) /\ UNCHANGED chan
    BY <1>9 DEF PlayTake, Shape
  <2>2. Len(ring') = Len(ring) - 1 /\ Len(ring) \in Nat
    BY <2>1
  <2> QED BY <2>1, <2>2, HyDevAssumption DEF Room
<1> QED BY <1>2, <1>3, <1>4, <1>5, <1>6, <1>7, <1>8, <1>9 DEF Next, Receiver, Player, Second

(* Together they are the types.                                             *)
LEMMA RangesShow ==
    ASSUME Shape, Order, Plain, Counted, Sides, Room
    PROVE  TypeOK
<1>1. want.rec \in 0..CallBound /\ snap.rec \in 0..CallBound
  BY HyDevAssumption DEF Shape, Wants, Order, Counted
<1>2. want \in [rts : Type \cup {"off"}, pbs : 0..CallBound, rec : 0..CallBound,
                start : 0..LastSecond]
  <2>1. want.pbs \in 0..CallBound
    <3>1. want.pbs = 0 \/ want.pbs = want.rec
      BY DEF Shape
    <3>2. 0 \in 0..CallBound
      BY HyDevAssumption
    <3> QED BY <1>1, <3>1, <3>2
  <2> QED BY <1>1, <2>1 DEF Shape, Wants, Second
<1>3. device.pbs \in 0..CallBound
  BY <1>1, HyDevAssumption DEF Shape, Wants, Streams, Order
<1>4. device \in [rts : Type \cup {"off"}, pbs : 0..CallBound, sec : 0..LastSecond]
  BY <1>3 DEF Shape, Streams, Second
<1> QED BY <1>2, <1>4 DEF TypeOK, Shape, Flags, Plain, Sides, Room

(* The types of a device of nc_hy.c: the ring and the socket of a playback   *)
(* are never over their size, and no playback is ahead of the calls.         *)
THEOREM TypeCorrect == Spec => []TypeOK
<1> DEFINE J == Shape /\ Order /\ Passes /\ Quiet /\ Plain /\ Counted /\ Sides /\ Room
<1>1. Init => J
  <2> SUFFICES ASSUME Init PROVE J
    OBVIOUS
  <2>1. Shape /\ Order /\ Passes /\ Quiet
    BY InitHolds DEF IInv
  <2>2. Plain /\ Sides
    BY DEF Init, Plain, Sides, Gone, Thread
  <2>3. Counted
    BY HyDevAssumption DEF Init, Counted
  <2>4. Room
    BY HyDevAssumption DEF Init, Room
  <2> QED BY <2>1, <2>2, <2>3, <2>4
<1>2. J /\ [Next]_vars => J'
  BY ShapeHolds, OrderHolds, PassesHolds, QuietHolds, PlainHolds, CountedHolds, SidesHold, RoomHolds
<1>3. J => TypeOK
  BY RangesShow
<1> QED BY <1>1, <1>2, <1>3, PTL DEF Spec

(* A callback gets a frame of another playback, or from before the start   *)
(* of its record, only if a playback began over what the threads and the   *)
(* ring still held of the one before, or with frames of its very second on *)
(* their way, or while a pass was starting another: the test of start_flag *)
(* in nc_hy_dev_runRecvPbs, which compares nothing but the second of a     *)
(* frame, keeps back everything else, however long it takes to come.       *)
THEOREM FreshPlayback == Spec => []FreshFrames
<1>1. Init => IInv
  BY InitHolds
<1>2. IInv /\ [Next]_vars => IInv'
  <2> SUFFICES ASSUME IInv, [Next]_vars PROVE IInv'
    OBVIOUS
  <2>1. Shape' /\ Order' /\ Passes' /\ Quiet'
    BY ShapeHolds, OrderHolds, PassesHolds, QuietHolds DEF IInv
  <2>2. ASSUME ~Excused' PROVE Apart' /\ Clean'
    <3>1. ~past'.carried /\ ~past'.alike /\ ~past'.swapped
      BY <2>2 DEF Excused
    <3>2. ~Excused
      BY <3>1, ExcusedStays DEF IInv, Excused
    <3>3. Apart /\ Clean
      BY <3>2 DEF IInv
    <3> QED BY <3>1, <3>3, ApartHolds, CleanHolds DEF IInv
  <2> QED BY <2>1, <2>2 DEF IInv
<1>3. IInv => FreshFrames
  BY DEF IInv, Clean, Excused, FreshFrames
<1> QED BY <1>1, <1>2, <1>3, PTL DEF Spec
=============================================================================
