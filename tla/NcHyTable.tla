----------------------------- MODULE NcHyTable -----------------------------
(***************************************************************************)
(* nc_hy.c: the table of devices of the HuaYi driver. A call that starts a *)
(* stream finds the running device with the caller's address or starts a   *)
(* free slot; the driver's own thread (nc_hy_run) stops devices nobody     *)
(* has used for 60 s. Every call and every pass of that thread holds       *)
(* nc->mutex from end to end, the join of a stopped device's login thread  *)
(* included, so each is one step; that the join returns is property        *)
(* StopReturns of NcHyDev.                                                 *)
(*                                                                         *)
(* What a device has open is a set: its live channels, "pbs", "talk" and   *)
(* "alarm" (cur_rts_enable, cur_pbs_enable, cur_talk_enable and            *)
(* cur_alarm_enable). nc_ys.c and nc_xm.c have the same table without the  *)
(* alarm.                                                                  *)
(***************************************************************************)
EXTENDS Integers, FiniteSets

CONSTANTS
    Slots,    \* NC_HY_USER_SIZE
    Info,     \* devices the application knows: address, port, user, password
    Channel,  \* channels of a device
    NoInfo    \* a slot never used, a reply of nothing

ASSUME TableAssumption ==
    /\ Slots \in Nat \ {0} /\ NoInfo \notin Info
    /\ Channel \cap {"pbs", "talk", "alarm"} = {}

Slot == 1..Slots
Kind == Channel \cup {"pbs", "talk", "alarm"}
Stream == Kind \ {"alarm"}

VARIABLES
    up,        \* dev->state of each slot
    info,      \* the address each slot was last started with
    on,        \* what each slot has enabled
    idle,      \* slots not used for 60 s (state_tick)
    sessions,  \* what the application holds: [slot, kind, info] of each handle
    reply      \* what the last call returned: [info, kind, ret]

vars == <<up, info, on, idle, sessions, reply>>

NoReply == [info |-> NoInfo, kind |-> "none", ret |-> "none"]

Init ==
    /\ up = [i \in Slot |-> FALSE]
    /\ info = [i \in Slot |-> NoInfo]
    /\ on = [i \in Slot |-> {}]
    /\ idle = {} /\ sessions = {} /\ reply = NoReply

-----------------------------------------------------------------------------

(* The slot a call works on: the running device with this address, or else *)
(* the first free slot.                                                    *)
Running(x) == {i \in Slot : up[i] /\ info[i] = x}
Free       == {i \in Slot : ~up[i]}
Place(x)   == IF Running(x) # {} THEN Running(x) ELSE Free
First(S)   == {i \in S : \A j \in S : i <= j}

(* Finding or starting the device of x on slot i; a start sets state_tick, *)
(* and a slot that is not up is not in idle.                               *)
Use(i, x) ==
    /\ up' = [up EXCEPT ![i] = TRUE]
    /\ info' = [info EXCEPT ![i] = x]

(* nc_hy_dev_startRts, startPbs, startTalk, startAlarm with the search of  *)
(* the callers. startPbs gives up when the last playback is not yet stopped *)
(* at the device.                                                          *)
Open(x, k) ==
    \E i \in First(Place(x)) :
        /\ Use(i, x)
        /\ \/ /\ k \in on[i]
              /\ reply' = [info |-> x, kind |-> k, ret |-> "repeat"]
              /\ UNCHANGED <<on, idle, sessions>>
           \/ /\ k \notin on[i]
              /\ on' = [on EXCEPT ![i] = @ \cup {k}]
              /\ idle' = idle \ {i}
              /\ sessions' = sessions \cup {[slot |-> i, kind |-> k, info |-> x]}
              /\ reply' = [info |-> x, kind |-> k, ret |-> "handle"]
           \/ /\ k = "pbs"
              /\ reply' = [info |-> x, kind |-> k, ret |-> "timeout"]
              /\ UNCHANGED <<on, idle, sessions>>

Full(x, k) ==
    /\ Place(x) = {}
    /\ reply' = [info |-> x, kind |-> k, ret |-> "full"]
    /\ UNCHANGED <<up, info, on, idle, sessions>>

(* A search, a status call, a time: uses the device, opens nothing. Setting *)
(* the status leaves state_tick alone.                                     *)
Ask(x) ==
    \E i \in First(Place(x)) :
        /\ Use(i, x)
        /\ idle' \in {idle, idle \ {i}}
        /\ reply' = NoReply
        /\ UNCHANGED <<on, sessions>>

(* nc_hy_controlPTZ_v2: only on a running device. *)
Ptz(x) ==
    /\ Running(x) # {}
    /\ idle' = idle \ Running(x)
    /\ reply' = NoReply
    /\ UNCHANGED <<up, info, on, sessions>>

(* nc_hy_stopRts, stopPbs, stopTalk, logout: the application stops each    *)
(* handle once. The handle names slot and kind, nothing else.              *)
Close(s) ==
    /\ s \in sessions
    /\ on' = [on EXCEPT ![s.slot] = @ \ {s.kind}]
    /\ idle' = idle \ {s.slot}
    /\ sessions' = sessions \ {s}
    /\ reply' = NoReply
    /\ UNCHANGED <<up, info>>

Minute(i) ==
    /\ up[i] /\ i \notin idle
    /\ idle' = idle \cup {i}
    /\ reply' = NoReply
    /\ UNCHANGED <<up, info, on, sessions>>

(* Faulty: does not count the talk of a device. *)
ReapTalking ==
    /\ up' = [i \in Slot |-> up[i] /\ ~(i \in idle /\ on[i] \cap (Stream \ {"talk"}) = {})]
    /\ up' # up
    /\ idle' = {i \in idle : up'[i]}
    /\ reply' = NoReply
    /\ UNCHANGED <<info, on, sessions>>

(* A pass of nc_hy_run: it counts channels, playback and talk. *)
Reap ==
    /\ up' = [i \in Slot |-> up[i] /\ ~(i \in idle /\ on[i] \cap Stream = {})]
    /\ up' # up
    /\ idle' = {i \in idle : up'[i]}
    /\ reply' = NoReply
    /\ UNCHANGED <<info, on, sessions>>

Next ==
    \/ \E x \in Info : Ask(x) \/ Ptz(x) \/ \E k \in Kind : Open(x, k) \/ Full(x, k)
    \/ \E s \in sessions : Close(s)
    \/ \E i \in Slot : Minute(i)
    \/ Reap

Spec == Init /\ [][Next]_vars

-----------------------------------------------------------------------------
TypeOK ==
    /\ up \in [Slot -> BOOLEAN]
    /\ info \in [Slot -> Info \cup {NoInfo}]
    /\ on \in [Slot -> SUBSET Kind]
    /\ idle \subseteq Slot
    /\ sessions \subseteq [slot : Slot, kind : Kind, info : Info]
    /\ reply.ret \in {"none", "handle", "repeat", "timeout", "full"}

(* A stream that was started and not stopped is served: its slot runs, for *)
(* the caller's device and no other, with that stream enabled, and nothing *)
(* is enabled that nobody holds. The thread that stops idle devices and    *)
(* the next start of its slot never come between.                          *)
Served ==
    \A i \in Slot :
        LET held == {s \in sessions : s.slot = i /\ s.kind \in Stream} IN
        /\ on[i] \cap Stream = {s.kind : s \in held}
        /\ \A s, t \in held : s.kind = t.kind => s = t
        /\ \A s \in held : up[i] /\ info[i] = s.info

(* nc.h:65 says of NC_ERROR_REPEAT that the channel is being opened again. *)
(* nc_hy_run does not count an alarm and leaves cur_alarm_enable set in a  *)
(* slot it stops: the next device there gets NC_ERROR_REPEAT for its first *)
(* nc_login_v2.                                                            *)
RepeatIsTrue ==
    reply.ret = "repeat" =>
        \E s \in sessions : s.info = reply.info /\ s.kind = reply.kind
=============================================================================
