------------------------------ MODULE NcHyDev ------------------------------
(***************************************************************************)
(* nc_hy.c: one device of the HuaYi driver. Its login thread               *)
(* (nc_hy_dev_runLogin) logs in, then passes again and again over what the *)
(* application wants (doRts, doPbs, ...) and tells the device; any failure *)
(* makes it log out, which joins the stream threads, and log in anew. The  *)
(* threads of a playback are modelled step by step; those of a live view   *)
(* only by the error they report, since neither of them ever waits.        *)
(*                                                                         *)
(* A playback is named by its number and plays from the second its record  *)
(* starts at, which other records may share. A frame has the number of its *)
(* playback, which only the properties look at, and the second it was      *)
(* taken at, which is all the threads know it by. Key frames and the mark  *)
(* at a record's end are left out. The calls of the application hold       *)
(* nc->mutex, and so does the thread that stops an idle device; module     *)
(* NcHyTable is about those.                                               *)
(***************************************************************************)
EXTENDS Integers, Sequences

CONSTANTS
    Type,       \* stream types of a live view
    LastSecond, \* bound: seconds of the recordings
    RingSize,   \* frames in the playback's ring
    ChanSize,   \* bound: frames in the playback's socket
    CallBound,  \* bound: calls of the application
    BreakBound  \* bound: failures of the network

ASSUME HyDevAssumption ==
    /\ RingSize \in Nat \ {0} /\ ChanSize \in Nat \ {0}
    /\ LastSecond \in Nat /\ CallBound \in Nat /\ BreakBound \in Nat
    /\ "off" \notin Type

VARIABLES
    state,      \* dev->state
    online,     \* dev->online
    pc,         \* where the login thread is
    after,      \* where it goes when a logout is over
    snap,       \* its copies of want in the pass
    want,       \* cur_rts_enable with its type ("off" or the type), the
                \* playback whose cb is set (cur_pbs_enable; 0 if none), the
                \* playback of pbs.ptc_record and its start_time
    act,        \* rts.active with rts.stream_type: a type or "off"
    pbs,        \* pbs.state, pbs.active, dev->pbs_pause, pbs.start_flag
    errorFlag,  \* rts.error_flag or pbs.error_flag
    recv,       \* nc_hy_dev_runRecvPbs: where it is and the frame it holds
    play,       \* nc_hy_dev_runPlayPbs, the same
    ring,       \* pbs.stream
    live,       \* the connection: "none", "ok", "broken", or "refused" when
                \* the device has refused the login and the driver goes on
    chan,       \* frames in the playback's socket
    device,     \* what the device streams: a live view and a playback, and
                \* the second of the playback it has come to
    calls, breaks,  \* calls and failures so far
    past        \* history: has a callback got a frame of another playback, or
                \* from before its record's start (mixed); has a playback begun
                \* over remains of the last (carried), while a pass was starting
                \* another (swapped), or, if not that, with old frames of its
                \* start_time on their way (alike); is the playback marked as
                \* active one no device was asked for (unheard)

login  == <<pc, after, snap>>
stream == <<recv, play, ring>>
net    == <<live, chan, device>>
bound  == <<calls, breaks>>
vars   == <<state, online, login, want, act, pbs, errorFlag, stream, net, bound, past>>

Thread(at, frame) == [at |-> at, frame |-> frame]
NoFrame == [of |-> 0, sec |-> 0]
Idle == Thread("idle", NoFrame)
Gone == Thread("gone", NoFrame)
Silent == [rts |-> "off", pbs |-> 0, sec |-> 0]

Init ==
    /\ state = 1 /\ online = "none" /\ pc = "top" /\ after = "top"
    /\ want = [rts |-> "off", pbs |-> 0, rec |-> 0, start |-> 0] /\ snap = want /\ act = "off"
    /\ pbs = [state |-> FALSE, active |-> FALSE, pause |-> FALSE, start |-> FALSE]
    /\ errorFlag = FALSE /\ recv = Gone /\ play = Gone /\ ring = <<>>
    /\ live = "none" /\ chan = <<>> /\ device = Silent
    /\ calls = 0 /\ breaks = 0
    /\ past = [mixed |-> FALSE, carried |-> FALSE, swapped |-> FALSE,
               alike |-> FALSE, unheard |-> FALSE]

-----------------------------------------------------------------------------
(* The application, and the thread that stops a device nobody uses. *)

Call(w) ==
    /\ state = 1 /\ calls < CallBound
    /\ calls' = calls + 1 /\ want' = w
    /\ UNCHANGED <<state, online, login, act, pbs, errorFlag, stream, net, breaks>>

StartRts(t) == want.rts = "off" /\ Call([want EXCEPT !.rts = t]) /\ UNCHANGED past
StopRts     == want.rts # "off" /\ Call([want EXCEPT !.rts = "off"]) /\ UNCHANGED past
StopPbs     == want.pbs # 0 /\ Call([want EXCEPT !.pbs = 0]) /\ UNCHANGED past

(* A pass has looked at what to play and not yet noted what it did. *)
Starting == pc \in {"pbsStop", "pbsStart", "pbsMark"} /\ snap.pbs # 0

(* A frame of second s is on its way to the test of start_flag. *)
Coming(s) == (recv.at = "look" /\ recv.frame.sec = s) \/ \E i \in 1..Len(chan) : chan[i].sec = s

(* Waits until the last playback is no longer active, gives up otherwise.  *)
StartPbs(s) ==
    /\ want.pbs = 0 /\ ~pbs.active
    /\ Call([want EXCEPT !.pbs = want.rec + 1, !.rec = want.rec + 1, !.start = s])
    /\ past' = [past EXCEPT !.carried = @ \/ play.at = "call", !.swapped = @ \/ Starting,
                            !.alike = @ \/ Coming(s)]

(* nc_hy_dev_stop; the join is the thread reaching "gone". *)
DevStop ==
    /\ state = 1 /\ want.rts = "off" /\ want.pbs = 0
    /\ state' = 0
    /\ UNCHANGED <<online, login, want, act, pbs, errorFlag, stream, net, bound, past>>

-----------------------------------------------------------------------------
(* The network and the device. *)

Break ==
    /\ live = "ok" /\ breaks < BreakBound
    /\ live' = "broken" /\ breaks' = breaks + 1
    /\ UNCHANGED <<state, online, login, want, act, pbs, errorFlag, stream, chan, device, calls, past>>

(* A frame of the second the device is at; the next may be a second later. *)
DeviceSends ==
    /\ live = "ok" /\ device.pbs # 0 /\ ~pbs.pause /\ Len(chan) < ChanSize
    /\ chan' = Append(chan, [of |-> device.pbs, sec |-> device.sec])
    /\ \E s \in device.sec..LastSecond : device' = [device EXCEPT !.sec = s]
    /\ UNCHANGED <<state, online, login, want, act, pbs, errorFlag, stream, live, bound, past>>

(* A message that makes the device d. On a broken connection, or to a      *)
(* device that has refused the login, it may vanish or fail. The socket    *)
(* looks at dev->state and takes nothing more of a device that is stopped. *)
Sends(d, to) ==
    \/ state = 1 /\ live = "ok" /\ device' = d /\ pc' = to
    \/ state = 1 /\ live \in {"broken", "refused"} /\ UNCHANGED device /\ pc' \in {to, "logout"}
    \/ state = 0 /\ UNCHANGED device /\ pc' = "logout"

-----------------------------------------------------------------------------
(* The login thread. *)

Top ==
    /\ pc = "top"
    /\ IF state = 1 THEN pc' = "login" /\ UNCHANGED after ELSE pc' = "logout" /\ after' = "gone"
    /\ UNCHANGED <<state, online, snap, want, act, pbs, errorFlag, stream, net, bound, past>>

(* A refusal with a fail_code other than 0, 1 and 6 leaves ret at 0: the   *)
(* connection stays, with no threads, and online says running.             *)
Login ==
    /\ pc = "login"
    /\ \/ /\ live # "none" /\ pc' = "rts"
          /\ UNCHANGED <<online, pbs, stream, live, breaks>>
       \/ /\ live = "none" /\ state = 1 /\ pc' = "rts"
          /\ live' = "ok" /\ online' = "running"
          /\ pbs' = [pbs EXCEPT !.state = TRUE, !.start = FALSE]
          /\ recv' = Idle /\ play' = Idle /\ ring' = <<>>
          /\ UNCHANGED breaks
       \/ /\ live = "none" /\ state = 1 /\ breaks < BreakBound
          /\ pc' = "rts" /\ live' = "refused" /\ online' = "running" /\ breaks' = breaks + 1
          /\ UNCHANGED <<pbs, stream>>
       \/ /\ live = "none" /\ pc' = "top" /\ online' = "fail"
          /\ IF state = 0 THEN UNCHANGED breaks ELSE breaks < BreakBound /\ breaks' = breaks + 1
          /\ UNCHANGED <<pbs, stream, live>>
    /\ UNCHANGED <<state, after, snap, want, act, errorFlag, chan, device, calls, past>>

(* nc_hy_dev_doRts: the copies, then a message that stops a view whose     *)
(* type changes, then one that sets the rest.                              *)
RtsLook ==
    /\ pc = "rts"
    /\ IF errorFlag THEN pc' = "logout" /\ UNCHANGED snap ELSE pc' = "rtsStop" /\ snap' = want
    /\ UNCHANGED <<state, online, after, want, act, pbs, errorFlag, stream, net, bound, past>>

RtsStop ==
    /\ pc = "rtsStop"
    /\ IF act # "off" /\ snap.rts # "off" /\ act # snap.rts
       THEN act' = "off" /\ Sends([device EXCEPT !.rts = "off"], "rtsStart")
       ELSE pc' = "rtsStart" /\ UNCHANGED <<act, device>>
    /\ UNCHANGED <<state, online, after, snap, want, pbs, errorFlag, stream, live, chan, bound, past>>

RtsStart ==
    /\ pc = "rtsStart"
    /\ act' = snap.rts
    /\ IF act # snap.rts THEN Sends([device EXCEPT !.rts = snap.rts], "pbs")
                         ELSE pc' = "pbs" /\ UNCHANGED device
    /\ UNCHANGED <<state, online, after, snap, want, pbs, errorFlag, stream, live, chan, bound, past>>

(* nc_hy_dev_doPbs: it compares active with the copy of the enable only,   *)
(* and stops before it starts.                                             *)
PbsLook ==
    /\ pc = "pbs"
    /\ IF errorFlag THEN pc' = "logout" /\ UNCHANGED snap
       ELSE /\ snap' = want
            /\ pc' = IF pbs.active = (want.pbs # 0) THEN "pause" ELSE "pbsStop"
    /\ UNCHANGED <<state, online, after, want, act, pbs, errorFlag, stream, net, bound, past>>

PbsStop ==
    /\ pc = "pbsStop"
    /\ Sends([device EXCEPT !.pbs = 0, !.sec = 0], IF snap.pbs = 0 THEN "pbsMark" ELSE "pbsStart")
    /\ UNCHANGED <<state, online, after, snap, want, act, pbs, errorFlag, stream, live, chan, bound, past>>

(* The device begins at the record's start or at a key frame before it. *)
PbsStart ==
    /\ pc = "pbsStart"
    /\ \E s \in 0..snap.start : Sends([device EXCEPT !.pbs = snap.rec, !.sec = s], "pbsMark")
    /\ UNCHANGED <<state, online, after, snap, want, act, pbs, errorFlag, stream, live, chan, bound, past>>

(* What the threads may still have of the playback before. *)
Remains == pbs.start \/ ring # <<>> \/ recv.at = "put" \/ play.at \in {"held", "call"}

PbsMark ==
    /\ pc = "pbsMark" /\ pc' = "pause"
    /\ pbs' = [pbs EXCEPT !.active = snap.pbs # 0]
    /\ past' = [past EXCEPT !.carried = @ \/ (snap.pbs # 0 /\ Remains),
                            !.unheard = snap.pbs # 0 /\ live = "refused"]
    /\ UNCHANGED <<state, online, after, snap, want, act, errorFlag, stream, net, bound>>

(* The device is paused when the ring is full, goes on when it is empty. *)
Pause ==
    /\ pc = "pause"
    /\ IF pbs.active /\ Len(ring) = (IF pbs.pause THEN 0 ELSE RingSize)
       THEN /\ Sends(device, "rest")
            /\ pbs' = [pbs EXCEPT !.pause = IF pc' = "rest" THEN ~@ ELSE @]
       ELSE pc' = "rest" /\ UNCHANGED <<pbs, device>>
    /\ UNCHANGED <<state, online, after, snap, want, act, errorFlag, stream, live, chan, bound, past>>

(* Heartbeat, PTZ, talk, searches, status: each may find the line broken; *)
(* most passes have none of them to send.                                  *)
Rest ==
    /\ pc = "rest"
    /\ Sends(device, "top") \/ (pc' = "top" /\ UNCHANGED device)
    /\ UNCHANGED <<state, online, after, snap, want, act, pbs, errorFlag, stream, live, chan, bound, past>>

(* Faulty: leaves the live view marked as started. *)
LogoutKeepsActive ==
    /\ pc = "logout" /\ pc' = "joinPlay"
    /\ live' = "none" /\ chan' = <<>> /\ device' = Silent
    /\ errorFlag' = FALSE
    /\ pbs' = [pbs EXCEPT !.state = FALSE, !.active = @ /\ ~pbs.state]
    /\ past' = [past EXCEPT !.unheard = @ /\ ~pbs.state]
    /\ UNCHANGED <<state, online, after, snap, want, act, stream, bound>>

(* nc_hy_dev_logout: closes, then joins the player's thread and, after it, *)
(* the receiver's. Without threads the playback stays marked as active.    *)
Logout ==
    /\ pc = "logout" /\ pc' = "joinPlay"
    /\ live' = "none" /\ chan' = <<>> /\ device' = Silent
    /\ act' = "off" /\ errorFlag' = FALSE
    /\ pbs' = [pbs EXCEPT !.state = FALSE, !.active = @ /\ ~pbs.state]
    /\ past' = [past EXCEPT !.unheard = @ /\ ~pbs.state]
    /\ UNCHANGED <<state, online, after, snap, want, stream, bound>>

JoinPlay ==
    /\ pc = "joinPlay" /\ play = Gone /\ pc' = "joinRecv"
    /\ UNCHANGED <<state, online, after, snap, want, act, pbs, errorFlag, stream, net, bound, past>>

JoinRecv ==
    /\ pc = "joinRecv" /\ recv = Gone /\ pc' = after
    /\ online' = IF after = "top" THEN "wait" ELSE online
    /\ ring' = <<>> /\ errorFlag' = FALSE
    /\ pbs' = [pbs EXCEPT !.pause = FALSE]
    /\ UNCHANGED <<state, after, snap, want, act, recv, play, net, bound, past>>

LoginThread ==
    \/ Top \/ Login \/ RtsLook \/ RtsStop \/ RtsStart
    \/ PbsLook \/ PbsStop \/ PbsStart \/ PbsMark \/ Pause \/ Rest
    \/ Logout \/ JoinPlay \/ JoinRecv

-----------------------------------------------------------------------------
(* The stream threads. A live view's receiver polls only while it is active. *)

RtsError ==
    /\ live = "broken" /\ act # "off"
    /\ errorFlag' = TRUE
    /\ UNCHANGED <<state, online, login, want, act, pbs, stream, net, bound, past>>

others == <<state, online, login, want, act, live, device, bound>>

RecvEnd ==
    /\ recv = Idle /\ ~pbs.state
    /\ recv' = Gone
    /\ UNCHANGED <<others, pbs, errorFlag, play, ring, chan, past>>

RecvError ==
    /\ recv = Idle /\ pbs.state /\ live = "broken"
    /\ recv' = Gone /\ errorFlag' = TRUE
    /\ UNCHANGED <<others, pbs, play, ring, chan, past>>

RecvTake ==
    /\ recv = Idle /\ pbs.state /\ chan # <<>>
    /\ recv' = Thread("look", Head(chan)) /\ chan' = Tail(chan)
    /\ UNCHANGED <<others, pbs, errorFlag, play, ring, past>>

(* Faulty: takes every frame of an active playback. *)
RecvLookNoStart ==
    /\ recv.at = "look"
    /\ IF ~pbs.active \/ want.pbs = 0
       THEN pbs' = [pbs EXCEPT !.start = FALSE] /\ recv' = Idle
       ELSE pbs' = [pbs EXCEPT !.start = TRUE] /\ recv' = [recv EXCEPT !.at = "put"]
    /\ UNCHANGED <<others, errorFlag, play, ring, chan, past>>

RecvLook ==
    /\ recv.at = "look"
    /\ IF ~pbs.active \/ want.pbs = 0
       THEN pbs' = [pbs EXCEPT !.start = FALSE] /\ recv' = Idle
       ELSE IF ~pbs.start /\ recv.frame.sec # want.start
       THEN recv' = Idle /\ UNCHANGED pbs
       ELSE pbs' = [pbs EXCEPT !.start = TRUE] /\ recv' = [recv EXCEPT !.at = "put"]
    /\ UNCHANGED <<others, errorFlag, play, ring, chan, past>>

(* Faulty: waits for room whatever becomes of the playback. *)
RecvPutWaits ==
    /\ recv.at = "put" /\ Len(ring) < RingSize
    /\ ring' = Append(ring, recv.frame) /\ recv' = Idle
    /\ UNCHANGED <<others, pbs, errorFlag, play, chan, past>>

(* Faulty: puts the frame in whether there is room or not. *)
RecvPutBlind ==
    /\ recv.at = "put"
    /\ ring' = Append(ring, recv.frame) /\ recv' = Idle
    /\ UNCHANGED <<others, pbs, errorFlag, play, chan, past>>

(* tool_stream3_set_noDrop with cur_pbs_enable for a flag. *)
RecvPut ==
    /\ recv.at = "put"
    /\ Len(ring) < RingSize \/ want.pbs = 0
    /\ ring' = IF Len(ring) < RingSize THEN Append(ring, recv.frame) ELSE ring
    /\ recv' = Idle
    /\ UNCHANGED <<others, pbs, errorFlag, play, chan, past>>

PlayEnd ==
    /\ play = Idle /\ ~pbs.state
    /\ play' = Gone
    /\ UNCHANGED <<others, pbs, errorFlag, recv, ring, chan, past>>

PlayTake ==
    /\ play = Idle /\ pbs.state /\ ring # <<>>
    /\ play' = Thread("held", Head(ring)) /\ ring' = Tail(ring)
    /\ UNCHANGED <<others, pbs, errorFlag, recv, chan, past>>

PlayLook ==
    /\ play.at = "held"
    /\ IF ~pbs.active \/ want.pbs = 0
       THEN play' = Idle /\ ring' = <<>>
       ELSE play' = [play EXCEPT !.at = "call"] /\ UNCHANGED ring
    /\ UNCHANGED <<others, pbs, errorFlag, recv, chan, past>>

(* A frame the callback of the playback that is on should get. *)
Due(frame) == frame.of = want.rec /\ frame.sec >= want.start

PlayCall ==
    /\ play.at = "call"
    /\ play' = Idle
    /\ past' = [past EXCEPT !.mixed = @ \/ (want.pbs # 0 /\ ~Due(play.frame))]
    /\ UNCHANGED <<others, pbs, errorFlag, recv, ring, chan>>

Receiver == RecvEnd \/ RecvError \/ RecvTake \/ RecvLook \/ RecvPut
Player   == PlayEnd \/ PlayTake \/ PlayLook \/ PlayCall

Next ==
    \/ \E t \in Type : StartRts(t)
    \/ \E s \in 0..LastSecond : StartPbs(s)
    \/ StopRts \/ StopPbs \/ DevStop
    \/ Break \/ DeviceSends
    \/ LoginThread \/ RtsError \/ Receiver \/ Player

(* The threads run. A broken line does not swallow messages for ever: the  *)
(* heartbeat waits for its answer. A device that has refused the login may *)
(* go on answering.                                                        *)
Spec ==
    /\ Init /\ [][Next]_vars
    /\ WF_pc(LoginThread) /\ WF_errorFlag(RtsError) /\ WF_recv(Receiver) /\ WF_play(Player)
    /\ SF_pc(live = "broken" /\ Rest /\ pc' = "logout")

-----------------------------------------------------------------------------
(* Types of the state. *)
TypeOK ==
    /\ state \in {0, 1} /\ online \in {"none", "fail", "wait", "running"}
    /\ want \in [rts : Type \cup {"off"}, pbs : 0..CallBound, rec : 0..CallBound,
                 start : 0..LastSecond]
    /\ act \in Type \cup {"off"}
    /\ pbs \in [state : BOOLEAN, active : BOOLEAN, pause : BOOLEAN, start : BOOLEAN]
    /\ recv.at \in {"idle", "look", "put", "gone"} /\ play.at \in {"idle", "held", "call", "gone"}
    /\ Len(ring) <= RingSize /\ Len(chan) <= ChanSize
    /\ live \in {"none", "ok", "broken", "refused"}
    /\ device \in [rts : Type \cup {"off"}, pbs : 0..CallBound, sec : 0..LastSecond]

(* The callback of a playback gets no frame of another one, however late   *)
(* that one's frames come in, and none from before its record's start.     *)
(* What protects it is start_flag alone: old frames pass if the receiver   *)
(* has looked at none since the last playback, if a thread or the ring     *)
(* still holds some, if one on its way is of the very second the receiver  *)
(* waits for, or if the device was started for the other record.           *)
FreshFrames == past.mixed => past.carried \/ past.alike \/ past.swapped

(* The receiver waits for room in a ring nobody empties any more, and the  *)
(* login thread waits for the receiver, until the application stops the    *)
(* playback.                                                               *)
Stuck == pc = "joinRecv" /\ recv.at = "put" /\ want.pbs # 0

(* When calls and failures have ceased the device streams what is wanted,  *)
(* whatever broke in between. It never gets there only if the logout is    *)
(* stuck or the device has refused the login and stays connected; or, for  *)
(* the playback, if one was started in the middle of doPbs' start of       *)
(* another (doPbs compares enable with active, not the records), or while  *)
(* the application leaves on a playback that was marked as active on a     *)
(* refused login, which no logout resets.                                  *)
Settles ==
    /\ <>[](state = 1 => device.rts = want.rts) \/ <>[]Stuck \/ <>[](live = "refused")
    /\ \/ <>[](state = 1 => device.pbs = want.pbs) \/ <>[]Stuck \/ <>[](live = "refused")
       \/ <>(past.swapped) \/ <>[](past.unheard /\ want.pbs # 0)

(* nc_hy_dev_stop, called with nc->mutex held, returns. *)
StopReturns == state = 0 ~> pc = "gone"

(* qh_ptc.h:574 says of PTC_FRAME_STREAM_RUNNING that a stream is being    *)
(* received: a device whose connection is gone does not say so for ever.   *)
RunningReceives ==
    (online = "running" /\ live \in {"none", "broken"}) ~> (online # "running" \/ live = "ok" \/ state = 0)
=============================================================================
