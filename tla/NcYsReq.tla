------------------------------ MODULE NcYsReq ------------------------------
(***************************************************************************)
(* nc_ys.c: how a call of the application reaches a device of the YuShi    *)
(* driver. A call leaves its request in the device and counts it; the      *)
(* login thread finds the count changed, talks to the device, and either   *)
(* stores an answer for the caller, who waits for it for five seconds      *)
(* (searchRecords, getStatus; searchLogs is the same), or notes that the   *)
(* request is done with (setStatus, syncTime: nobody waits).               *)
(*                                                                         *)
(* Calls hold nc->mutex from beginning to end, so there is one at a time.  *)
(* A request is named by the number of its call, and so is its answer. The *)
(* outputs are set one by one, each by a message of its own.               *)
(*                                                                         *)
(* The module is about one slot of the table. A device without streams is  *)
(* stopped a minute after the last call that sets its tick, which          *)
(* setStatus does not. The next call for a device without a slot starts it *)
(* in a free one; nothing resets the requests of the former device, and    *)
(* one that was not served by then is served by the next.                  *)
(***************************************************************************)
EXTENDS Integers, Sequences

CONSTANTS
    NOut,       \* alarm outputs of a device
    CallBound,  \* bound: calls of the application
    BreakBound  \* bound: failures of the network

ASSUME YsReqAssumption == NOut \in Nat \ {0} /\ CallBound \in Nat /\ BreakBound \in Nat

(* What a pass looks at, in this order. *)
Pass == <<"records", "time", "status", "set">>
Answered == {"records", "status"}
Setting  == {"time", "set"}
Request  == {Pass[i] : i \in 1..Len(Pass)}

VARIABLES
    state,      \* dev->state
    req,        \* per request: cur and last count, and the call whose
                \* request (or answer) the device structure holds
    caller,     \* the call that waits for its answer, with its request
    pos,        \* where the login thread is in its pass, 0 when logged out,
                \* and, once the device is stopped, when it has ended
    copy,       \* the call it serves, and the count it read; 0 if none
    outs,       \* outputs of the set it serves that are done
    device,     \* calls whose time, and per output whose value, it has
    own,        \* history: the last calls that set something in this device
    stray,      \* history: requests it has taken over from a former device
    ret,        \* the last answer: to which call, and the answer it got
    late,       \* history: calls made while a request like theirs was served
    calls, breaks

slot == <<state, device, own, stray>>
vars == <<slot, req, caller, pos, copy, outs, ret, late, calls, breaks>>

Nobody == [kind |-> "none", call |-> 0]
Nothing == [call |-> 0, cur |-> 0]
Unset == [time |-> 0, out |-> [i \in 1..NOut |-> 0]]

Init ==
    /\ state = 1
    /\ req = [k \in Request |-> [cur |-> 0, last |-> 0, call |-> 0]]
    /\ caller = Nobody /\ pos = 0 /\ copy = Nothing /\ outs = 0
    /\ device = Unset /\ own = [k \in Setting |-> 0] /\ stray = {}
    /\ ret = [call |-> 0, got |-> 0] /\ late = {}
    /\ calls = 0 /\ breaks = 0

Serving(k) == pos # 0 /\ Pass[pos] = k /\ copy # Nothing

-----------------------------------------------------------------------------
(* The application. *)

(* A call finds its device in the slot, or starts it there: again, or for  *)
(* the first time.                                                         *)
Known(k) ==
    /\ state = 1 \/ pos = 0
    /\ own' = [m \in Setting |-> IF m = k THEN calls' ELSE own[m]]
    /\ stray' = stray \ {k}
    /\ UNCHANGED device

Another(k) ==
    /\ state = 0 /\ pos = 0
    /\ device' = Unset
    /\ own' = [m \in Setting |-> IF m = k THEN calls' ELSE 0]
    /\ stray' = {m \in Request \ {k} : req[m].last # req[m].cur}

Called(k) ==
    /\ caller = Nobody /\ calls < CallBound
    /\ calls' = calls + 1 /\ state' = 1
    /\ Known(k) \/ Another(k)
    /\ caller' = IF k \in Answered THEN [kind |-> k, call |-> calls'] ELSE Nobody
    /\ late' = IF Serving(k) THEN late \cup {calls'} ELSE late
    /\ UNCHANGED <<pos, copy, outs, ret, breaks>>

(* Faulty: counts a call and leaves no request. *)
AskForgets(k) == Called(k) /\ req' = [req EXCEPT ![k].cur = @ + 1]

Ask(k) == Called(k) /\ req' = [req EXCEPT ![k].cur = @ + 1, ![k].call = calls']

(* tool_thread_timedwaitCond gives up: the request stays. *)
TimeOut ==
    /\ caller # Nobody
    /\ caller' = Nobody
    /\ UNCHANGED <<slot, req, pos, copy, outs, ret, late, calls, breaks>>

(* nc_ys_run stops a device nobody has used for a minute, between calls;   *)
(* the call after that waits until the login thread has ended.             *)
IdleStop ==
    /\ state = 1 /\ caller = Nobody
    /\ state' = 0
    /\ UNCHANGED <<device, own, stray, req, caller, pos, copy, outs, ret, late, calls, breaks>>

-----------------------------------------------------------------------------
(* The login thread. *)

Login ==
    /\ pos = 0 /\ state = 1
    /\ \/ pos' = 1 /\ UNCHANGED breaks
       \/ breaks < BreakBound /\ breaks' = breaks + 1 /\ UNCHANGED pos
    /\ UNCHANGED <<slot, req, caller, copy, outs, ret, late, calls>>

(* Each pass begins with a look at dev->state.                             *)
Further == IF pos < Len(Pass) THEN pos + 1 ELSE IF state = 1 THEN 1 ELSE 0

(* Copies the request under the mutex if its count has changed. *)
Look ==
    /\ pos # 0 /\ copy = Nothing
    /\ LET r == req[Pass[pos]] IN
       IF r.last = r.cur
       THEN pos' = Further /\ UNCHANGED copy
       ELSE copy' = [call |-> r.call, cur |-> r.cur] /\ UNCHANGED pos
    /\ outs' = 0
    /\ UNCHANGED <<slot, req, caller, ret, late, calls, breaks>>

(* The message breaks the connection, and the login thread logs out. Once  *)
(* the device is stopped every message does: the socket looks at state.    *)
Broken ==
    /\ IF state = 0 THEN UNCHANGED breaks ELSE breaks < BreakBound /\ breaks' = breaks + 1
    /\ pos' = 0 /\ copy' = Nothing

(* The rest of the pass: heartbeat, streams, what the device sends. *)
Drop ==
    /\ pos # 0 /\ copy = Nothing /\ Broken
    /\ UNCHANGED <<slot, req, caller, outs, ret, late, calls>>

(* An exchange for a waiting caller, answered by an error if it fails; the *)
(* caller that waits now is woken, whichever call it is.                   *)
Answer(k, got) ==
    /\ req' = [req EXCEPT ![k].last = req[k].cur, ![k].call = got]
    /\ IF caller.kind = k
       THEN caller' = Nobody /\ ret' = [call |-> caller.call, got |-> got]
       ELSE UNCHANGED <<caller, ret>>

Serve ==
    /\ \E k \in Answered : Serving(k) /\ Answer(k, copy.call)
    /\ \/ state = 1 /\ pos' = Further /\ copy' = Nothing /\ UNCHANGED breaks
       \/ Broken
    /\ UNCHANGED <<slot, outs, late, calls>>

(* doSyncTime notes at the end that the count of that moment is served. *)
SyncTime ==
    /\ Serving("time")
    /\ \/ /\ state = 1 /\ device' = [device EXCEPT !.time = copy.call]
          /\ req' = [req EXCEPT !["time"].last = req["time"].cur]
          /\ pos' = Further /\ copy' = Nothing /\ UNCHANGED breaks
       \/ /\ Broken /\ UNCHANGED req
          /\ \E t \in {device.time, copy.call} : device' = [device EXCEPT !.time = t]
    /\ UNCHANGED <<state, own, stray, caller, outs, ret, late, calls>>

SetOutput ==
    /\ Serving("set") /\ outs < NOut
    /\ \/ /\ state = 1 /\ device' = [device EXCEPT !.out[outs + 1] = copy.call]
          /\ outs' = outs + 1 /\ UNCHANGED <<pos, copy, breaks>>
       \/ /\ Broken /\ UNCHANGED outs
          /\ \E o \in {device.out[outs + 1], copy.call} : device' = [device EXCEPT !.out[outs + 1] = o]
    /\ UNCHANGED <<state, own, stray, req, caller, ret, late, calls>>

(* Faulty: notes the count of the moment, as doSyncTime does. *)
SetDoneNow ==
    /\ Serving("set") /\ outs = NOut
    /\ req' = [req EXCEPT !["set"].last = req["set"].cur]
    /\ pos' = Further /\ copy' = Nothing
    /\ UNCHANGED <<slot, caller, outs, ret, late, calls, breaks>>

(* doSetStatus notes the count it copied with the request. *)
SetDone ==
    /\ Serving("set") /\ outs = NOut
    /\ req' = [req EXCEPT !["set"].last = copy.cur]
    /\ pos' = Further /\ copy' = Nothing
    /\ UNCHANGED <<slot, caller, outs, ret, late, calls, breaks>>

LoginThread == Login \/ Look \/ Serve \/ SyncTime \/ SetOutput \/ SetDone

Next ==
    \/ \E k \in Request : Ask(k)
    \/ TimeOut \/ IdleStop \/ Drop
    \/ LoginThread

(* The login thread runs until it finds the device stopped.                *)
Spec == Init /\ [][Next]_vars /\ WF_vars(LoginThread)

-----------------------------------------------------------------------------
Call == 0..CallBound

(* Types of the state. *)
TypeOK ==
    /\ state \in {0, 1}
    /\ req \in [Request -> [cur : Call, last : Call, call : Call]]
    /\ caller \in [kind : Answered, call : Call] \cup {Nobody}
    /\ pos \in 0..Len(Pass) /\ copy \in [call : Call, cur : Call] /\ outs \in 0..NOut
    /\ device \in [time : Call, out : [1..NOut -> Call]]
    /\ own \in [Setting -> Call] /\ stray \subseteq Request
    /\ ret \in [call : Call, got : Call] /\ late \subseteq Call
    /\ calls \in Call /\ breaks \in 0..BreakBound
    /\ \A k \in Request : req[k].cur <= calls

(* The answer a call of searchRecords or getStatus returns is the answer   *)
(* to its own request, not to one of a call that has timed out before it:  *)
(* unless it was made while the login thread was still serving that one,   *)
(* whose answer then wakes it.                                             *)
OwnAnswer == ret.got = ret.call \/ ret.call \in late

(* When the calls have ceased the device in the slot has, on every output, *)
(* what the last setStatus for it asked for, however many came in a row,   *)
(* however often the connection broke, and even over an idle stop; nothing *)
(* if none did. That is so unless it stays stopped, or has taken over a    *)
(* setting the former device was stopped before it got. The same holds for *)
(* the last syncTime, unless it was made during the exchange of the one    *)
(* before and was taken for served.                                        *)
Applied ==
    \/ <>[](state = 0)
    \/ /\ <>[](\A i \in 1..NOut : device.out[i] = own["set"]) \/ <>[]("set" \in stray)
       /\ \/ <>[](device.time = own["time"]) \/ <>[]("time" \in stray)
          \/ <>[](own["time"] \in late)
=============================================================================
