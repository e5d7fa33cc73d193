------------------------------ MODULE NcQhPbs -------------------------------
(***************************************************************************)
(* nc_qh.c: a playback session, the passes of nc_qh_user_doPbs over a      *)
(* connection that breaks, with the application's nc_qh_setPbsPos,         *)
(* nc_qh_pausePbs, nc_qh_restartPbs and nc_qh_setPbsSpeed running beside   *)
(* it and a stop at any time.  A request is a flag in the user that the    *)
(* thread sends and clears with user->mutex held; a broken connection is   *)
(* opened again at the second of the last frame (pbs_start.start_time).    *)
(*                                                                         *)
(* A frame is its index in the recording, SecondOf its head's sec, the     *)
(* index after the last one PTC_FRAME_PBS_END.  Where frames go is module  *)
(* ToolStream3.  The device is external: it streams from the first frame   *)
(* of the second it is asked for, obeys requests in order and is silent    *)
(* while paused.                                                           *)
(***************************************************************************)
EXTENDS Integers, Sequences, FiniteSets

CONSTANTS
    SecondOf,   \* the second of each frame of the recording
    Values,     \* what the application may pass with each request
    ChanSize,   \* frames in flight
    MaxAsk,     \* bound: requests of the application
    MaxBreak    \* bound: failures of the network

Frame == 1..Len(SecondOf)
End == Len(SecondOf) + 1

(* The order in which a pass sends the requests. *)
Order == <<"pos", "pause", "restart", "speed">>
Cmd == {"pos", "pause", "restart", "speed"}

ASSUME PbsAssumption ==
    /\ SecondOf \in Seq(Nat) /\ SecondOf # <<>>
    /\ \A f, g \in Frame : f <= g => SecondOf[f] <= SecondOf[g]
    /\ Values \in [Cmd -> SUBSET Nat] /\ Values["pos"] \subseteq Frame \cup {0}
    /\ ChanSize \in Nat \ {0} /\ MaxAsk \in Nat /\ MaxBreak \in Nat

VARIABLES
    pc,         \* where the device thread is in a pass
    cmd,        \* the request of Order it is at
    state,      \* user->state
    live,       \* is the socket open
    cooling,    \* NC_QH_RECONNECT_CYCLE has not passed since the socket's last use
    lastType,   \* user->last_type
    flag,       \* user->pbs_pos, pbs_pause, pbs_restart, pbs_speed
    mutex,      \* does the thread hold user->mutex
    startTime,  \* user->pbs_start.start_time
    endFlag,    \* user->pbs_end_flag
    last,       \* the last frame put in stream3_recv
    wire,       \* requests on their way to the device
    chan,       \* frames on their way from the device
    next,       \* device: the frame it sends next; 0 when it streams nothing
    sought,     \* device: has it just moved to a requested position
    paused,     \* device: is it paused
    owed,       \* history: requests asked for and not yet sent
    asks,       \* history: requests so far
    breaks      \* history: failures of the network so far

user == <<flag, startTime, endFlag, last>>
device == <<wire, chan, next, sought, paused>>
vars == <<pc, cmd, state, live, cooling, lastType, mutex, user, device, owed, asks, breaks>>

Init ==
    /\ pc = "top" /\ cmd = 1 /\ state = 1
    /\ live = FALSE /\ cooling = FALSE /\ lastType = "none"
    /\ flag = [k \in Cmd |-> 0] /\ mutex = FALSE
    /\ startTime = SecondOf[1] /\ endFlag = 0 /\ last = 0
    /\ wire = <<>> /\ chan = <<>> /\ next = 0 /\ sought = FALSE /\ paused = FALSE
    /\ owed = [k \in Cmd |-> FALSE] /\ asks = 0 /\ breaks = 0

-----------------------------------------------------------------------------
(* The application. *)

(* Faulty: sets the flag without user->mutex. *)
AskUnlocked(k, v) ==
    /\ asks < MaxAsk
    /\ flag' = [flag EXCEPT ![k] = v]
    /\ owed' = [owed EXCEPT ![k] = v # 0]
    /\ asks' = asks + 1
    /\ UNCHANGED <<pc, cmd, state, live, cooling, lastType, mutex, startTime, endFlag, last, device, breaks>>

Ask(k, v) ==
    /\ asks < MaxAsk
    /\ ~mutex
    /\ flag' = [flag EXCEPT ![k] = v]
    /\ owed' = [owed EXCEPT ![k] = v # 0]
    /\ asks' = asks + 1
    /\ UNCHANGED <<pc, cmd, state, live, cooling, lastType, mutex, startTime, endFlag, last, device, breaks>>

Stop ==
    /\ state = 1
    /\ state' = 0
    /\ UNCHANGED <<pc, cmd, live, cooling, lastType, mutex, user, device, owed, asks, breaks>>

-----------------------------------------------------------------------------
(* The network and the device. *)

(* A send or a receive does not succeed once user->state is 0, and fails     *)
(* whenever the network does.                                                *)
Works == state = 1 /\ UNCHANGED breaks
Fails == \/ state = 0 /\ UNCHANGED breaks
         \/ breaks < MaxBreak /\ breaks' = breaks + 1

(* What was in flight dies with the connection. *)
Disconnect ==
    /\ wire' = <<>> /\ chan' = <<>>
    /\ next' = 0 /\ sought' = FALSE /\ paused' = FALSE

FirstFrom(sec) == CHOOSE f \in 1..End :
    /\ f = End \/ SecondOf[f] >= sec
    /\ \A g \in Frame : SecondOf[g] >= sec => f <= g

DeviceStarts ==
    /\ wire' = <<>> /\ chan' = <<>>
    /\ next' = FirstFrom(startTime) /\ sought' = FALSE /\ paused' = FALSE

DeviceSends ==
    /\ next # 0 /\ next <= End /\ ~paused
    /\ Len(chan) < ChanSize
    /\ chan' = Append(chan, [frame |-> next, sought |-> sought])
    /\ next' = next + 1 /\ sought' = FALSE
    /\ UNCHANGED <<pc, cmd, state, live, cooling, lastType, mutex, user, wire, paused, owed, asks, breaks>>

DeviceObeys ==
    /\ wire # <<>>
    /\ LET k == Head(wire).cmd
       IN /\ paused' = IF k \in {"pause", "restart"} THEN k = "pause" ELSE paused
          /\ next' = IF k = "pos" THEN Head(wire).value ELSE next
          /\ sought' = (sought \/ k = "pos")
    /\ wire' = Tail(wire)
    /\ UNCHANGED <<pc, cmd, state, live, cooling, lastType, mutex, user, chan, owed, asks, breaks>>

-----------------------------------------------------------------------------
(* nc_qh_user_run and nc_qh_user_doPbs up to a connection. *)

Go(from, to) == pc = from /\ pc' = to

(* The loop ends and logs out, which only closes: its message is not sent.   *)
Leave ==
    /\ Go("top", "gone") /\ state = 0
    /\ live' = FALSE /\ Disconnect
    /\ UNCHANGED <<cmd, state, cooling, lastType, mutex, user, owed, asks, breaks>>

(* NC_QH_STREAM_TIMEOUT may have passed without a frame. *)
MayTimeOut == lastType' \in {lastType, "timeout"}

Ended ==
    /\ pc = "top" /\ state = 1 /\ endFlag = 1
    /\ MayTimeOut
    /\ UNCHANGED <<pc, cmd, state, live, cooling, mutex, user, device, owed, asks, breaks>>

(* Faulty: goes on after the end. *)
UnfinishedUnchecked == state = 1

Unfinished == state = 1 /\ endFlag = 0

Wait ==
    /\ pc = "top" /\ Unfinished
    /\ ~live /\ cooling
    /\ cooling' = FALSE
    /\ lastType' = "wait"
    /\ UNCHANGED <<pc, cmd, state, live, mutex, user, device, owed, asks, breaks>>

Dial ==
    /\ Go("top", "dial") /\ Unfinished
    /\ ~live /\ ~cooling
    /\ lastType' = "connect"
    /\ UNCHANGED <<cmd, state, live, cooling, mutex, user, device, owed, asks, breaks>>

Continue ==
    /\ Go("top", "beat") /\ Unfinished
    /\ live
    /\ MayTimeOut
    /\ UNCHANGED <<cmd, state, live, cooling, mutex, user, device, owed, asks, breaks>>

(* A failure closes the socket, reports and returns. *)
GiveUp(from, report) ==
    /\ Go(from, "top") /\ Fails
    /\ live' = FALSE /\ cooling' = TRUE /\ mutex' = FALSE
    /\ Disconnect
    /\ lastType' = report
    /\ cmd' = 1
    /\ UNCHANGED <<state, user, owed, asks>>

Connect ==
    /\ Go("dial", "login") /\ Works
    /\ live' = TRUE
    /\ lastType' = "login"
    /\ UNCHANGED <<cmd, state, cooling, mutex, user, device, owed, asks>>

Login ==
    /\ Go("login", "start") /\ Works
    /\ lastType' = "start"
    /\ UNCHANGED <<cmd, state, live, cooling, mutex, user, device, owed, asks>>

(* Faulty: does not report the stream. *)
StartSilently ==
    /\ Go("start", "beat") /\ Works
    /\ DeviceStarts
    /\ UNCHANGED <<cmd, state, live, cooling, lastType, mutex, user, owed, asks>>

Start ==
    /\ Go("start", "beat") /\ Works
    /\ DeviceStarts
    /\ lastType' = "running"
    /\ UNCHANGED <<cmd, state, live, cooling, mutex, user, owed, asks>>

ConnectFails ==
    \/ GiveUp("dial", "connect_fail")
    \/ \E report \in {"login_fail", "auth_fail", "video_busy"} : GiveUp("login", report)
    \/ GiveUp("start", "start_fail")

-----------------------------------------------------------------------------
(* A pass over the connection. *)

(* The heartbeat, if it is due, and then the mutex. *)
Beat ==
    /\ Go("beat", "send")
    /\ mutex' = TRUE
    /\ UNCHANGED <<cmd, state, live, cooling, lastType, user, device, owed, asks, breaks>>

(* Faulty: steps past the last request. *)
AdvancePast ==
    IF cmd <= Len(Order)
    THEN pc' = "send" /\ cmd' = cmd + 1 /\ UNCHANGED mutex
    ELSE pc' = "poll" /\ cmd' = 1 /\ mutex' = FALSE

(* On to the next request, or out of the mutex. *)
Advance ==
    IF cmd < Len(Order)
    THEN pc' = "send" /\ cmd' = cmd + 1 /\ UNCHANGED mutex
    ELSE pc' = "poll" /\ cmd' = 1 /\ mutex' = FALSE

Skip ==
    /\ pc = "send" /\ flag[Order[cmd]] = 0
    /\ Advance
    /\ UNCHANGED <<state, live, cooling, lastType, user, device, owed, asks, breaks>>

Send ==
    /\ Go("send", "clear") /\ flag[Order[cmd]] # 0 /\ Works
    /\ wire' = Append(wire, [cmd |-> Order[cmd], value |-> flag[Order[cmd]]])
    /\ owed' = [owed EXCEPT ![Order[cmd]] = FALSE]
    /\ UNCHANGED <<cmd, state, live, cooling, lastType, mutex, user, chan, next, sought, paused, asks>>

SendFails == pc = "send" /\ flag[Order[cmd]] # 0 /\ GiveUp("send", "wait")

Clear ==
    /\ pc = "clear"
    /\ flag' = [flag EXCEPT ![Order[cmd]] = 0]
    /\ Advance
    /\ UNCHANGED <<state, live, cooling, lastType, startTime, endFlag, last, device, owed, asks, breaks>>

(* Faulty: asks for what follows the second of the last frame. *)
ReceiveResumesAfter ==
    /\ Go("poll", "top") /\ Works
    /\ chan # <<>> /\ Head(chan).frame # End
    /\ startTime' = SecondOf[Head(chan).frame] + 1
    /\ last' = Head(chan).frame
    /\ chan' = Tail(chan)
    /\ UNCHANGED <<cmd, state, live, cooling, lastType, mutex, flag, endFlag, wire, next, sought, paused, owed, asks>>

Receive ==
    /\ Go("poll", "top") /\ Works
    /\ chan # <<>> /\ Head(chan).frame # End
    /\ startTime' = SecondOf[Head(chan).frame]
    /\ last' = Head(chan).frame
    /\ chan' = Tail(chan)
    /\ UNCHANGED <<cmd, state, live, cooling, lastType, mutex, flag, endFlag, wire, next, sought, paused, owed, asks>>

ReceiveEnd ==
    /\ Go("poll", "top") /\ Works
    /\ chan # <<>> /\ Head(chan).frame = End
    /\ endFlag' = 1
    /\ live' = FALSE /\ cooling' = TRUE
    /\ Disconnect
    /\ UNCHANGED <<cmd, state, lastType, mutex, flag, startTime, last, owed, asks>>

(* Faulty: goes on waiting for a silent device. *)
PollAgain ==
    /\ Go("poll", "top") /\ chan = <<>> /\ paused
    /\ UNCHANGED <<cmd, state, live, cooling, lastType, mutex, user, device, owed, asks, breaks>>

(* Five seconds without a byte, as of a paused device: closed and reported.  *)
PollTimeout ==
    /\ Go("poll", "top") /\ chan = <<>> /\ paused
    /\ live' = FALSE /\ cooling' = TRUE
    /\ Disconnect
    /\ lastType' = "wait"
    /\ UNCHANGED <<cmd, state, mutex, user, owed, asks, breaks>>

PassFails == GiveUp("beat", "wait") \/ SendFails \/ GiveUp("poll", "wait")

-----------------------------------------------------------------------------
Thread ==
    \/ Leave \/ Ended \/ Wait \/ Dial \/ Continue
    \/ Connect \/ Login \/ Start \/ ConnectFails
    \/ Beat \/ Skip \/ Send \/ Clear
    \/ Receive \/ ReceiveEnd \/ PollTimeout \/ PassFails

Next ==
    \/ \E k \in Cmd : \E v \in Values[k] : Ask(k, v)
    \/ Stop
    \/ Thread
    \/ DeviceSends \/ DeviceObeys

(* The thread runs, and a connected device answers.  Nobody has to ask or to *)
(* stop, and the network need not fail.                                      *)
Spec == /\ Init /\ [][Next]_vars
        /\ WF_vars(Thread) /\ WF_vars(DeviceSends) /\ WF_vars(DeviceObeys)

-----------------------------------------------------------------------------
(* Properties. *)

(* Types of the state. *)
TypeOK ==
    /\ pc \in {"top", "dial", "login", "start", "beat", "send", "clear", "poll", "gone"}
    /\ cmd \in 1..Len(Order)
    /\ state \in {0, 1} /\ endFlag \in {0, 1}
    /\ {live, cooling, mutex, sought, paused} \subseteq BOOLEAN
    /\ lastType \in {"none", "wait", "timeout", "connect", "connect_fail", "login", "login_fail",
                     "auth_fail", "video_busy", "start", "start_fail", "running"}
    /\ flag \in [Cmd -> Nat] /\ owed \in [Cmd -> BOOLEAN]
    /\ startTime \in Nat /\ last \in 0..Len(SecondOf) /\ next \in 0..(End + 1)
    /\ wire \in Seq([cmd : Cmd, value : Nat])
    /\ chan \in Seq([frame : 1..End, sought : BOOLEAN])
    /\ asks \in 0..MaxAsk /\ breaks \in 0..MaxBreak

(* A request is never forgotten before it has gone to the device, whenever   *)
(* it is made and whatever fails, and never sent twice: its flag stands      *)
(* exactly while it is owed, but for the moment between send and clear.      *)
RequestKept ==
    \A k \in Cmd : owed[k] <=> flag[k] # 0 /\ ~(pc = "clear" /\ k = Order[cmd])

(* Across any number of broken connections the player gets the recording     *)
(* without a gap: the next frame, one of the last frame's second again, or   *)
(* the first at a position it asked for.                                     *)
Contiguous == [][
    last' # last => \/ last' = last + 1
                    \/ last' < last /\ SecondOf[last'] = SecondOf[last]
                    \/ Head(chan).sought ]_vars

(* Frames come only while the last state reported is that the stream runs    *)
(* (or that it is late), never under one of a connection being made or lost. *)
MediaWhenRunning == [][last' # last => lastType \in {"running", "timeout"}]_vars

(* The end of the recording is final: no new connection, no frame after it.  *)
EndIsFinal == [][endFlag = 1 => ~live' /\ last' = last /\ pc' \in {"top", "gone"}]_vars

(* A playback that is not stopped gets to the end of the recording, also     *)
(* when it is paused and never restarted (a silent device is connected again *)
(* and streams), and one that is stopped before ends.                        *)
PlaybackEnds == <>(endFlag = 1 \/ pc = "gone")
=============================================================================
