------------------------------ MODULE ToolTpool ------------------------------
(***************************************************************************)
(* tool_tpool.c: a pool of threads that take works from one list.  A step  *)
(* is what a thread does between two points where another thread can       *)
(* interfere: the list and the number of works change under the mutex      *)
(* only, but tpool_stop clears "state" without it, so a worker's two looks *)
(* at "state" are two steps.  active_num is left out: nothing reads it.    *)
(*                                                                         *)
(* Any thread may call tpool_addWork from the start until tpool_stop has   *)
(* joined the workers; one thread, the owner, calls start and stop.        *)
(***************************************************************************)
EXTENDS Naturals, Sequences, FiniteSets, SequencesExt

CONSTANTS
    Thread,     \* the pool's threads (thd_num of them)
    Work,       \* the works the callers submit, each at most once
    WorkSize,   \* work_size
    LifeBound,  \* bound of the model: how often the owner starts the pool
    None        \* no thread, no work

ASSUME TpoolAssumption ==
    /\ IsFiniteSet(Thread) /\ Thread # {}
    /\ WorkSize \in Nat
    /\ LifeBound \in Nat \ {0}
    /\ None \notin Thread /\ None \notin Work

VARIABLES
    state,     \* tpool->state
    owner,     \* the owner: "up", "flagged", "joining", "freeing" or "down"
    mutex,     \* the worker that holds tpool->mutex, or None
    queue,     \* the list at tpool->work_head
    workNum,   \* tpool->work_num
    pc,        \* where each thread of the pool is
    current,   \* the work each thread runs, or None
    accepted,  \* history: the works tpool_addWork returned 0 for
    finished,  \* history: the works whose function returned
    dropped,   \* history: the works tpool_stop freed
    lives      \* number of starts, capped by LifeBound

vars == <<state, owner, mutex, queue, workNum, pc, current, accepted, finished, dropped, lives>>

Location == {"lock", "test", "sleep", "asleep", "check", "run", "gone"}

Init ==
    /\ state = 1
    /\ owner = "up"
    /\ mutex = None
    /\ queue = <<>>
    /\ workNum = 0
    /\ pc = [t \in Thread |-> "lock"]
    /\ current = [t \in Thread |-> None]
    /\ accepted = {}
    /\ finished = {}
    /\ dropped = {}
    /\ lives = 1

-----------------------------------------------------------------------------
(* tpool_run. *)

Go(t, from, to) == pc[t] = from /\ pc' = [pc EXCEPT ![t] = to]

Asleep == {t \in Thread : pc[t] = "asleep"}

(* Taking the mutex, at first or on the way out of tool_thread_waitCond. *)
Lock(t) ==
    /\ Go(t, "lock", "test")
    /\ mutex = None
    /\ mutex' = t
    /\ UNCHANGED <<state, owner, queue, workNum, current, accepted, finished, dropped, lives>>

(* The condition of the inner while. *)
Test(t) ==
    /\ Go(t, "test", IF queue = <<>> /\ state = 1 THEN "sleep" ELSE "check")
    /\ UNCHANGED <<state, owner, mutex, queue, workNum, current, accepted, finished, dropped, lives>>

(* tool_thread_waitCond gives the mutex up and sleeps in one step. *)
Sleep(t) ==
    /\ Go(t, "sleep", "asleep")
    /\ mutex' = None
    /\ UNCHANGED <<state, owner, queue, workNum, current, accepted, finished, dropped, lives>>

(* POSIX allows a condition wait to return unsignalled. *)
WakeSpuriously(t) ==
    /\ Go(t, "asleep", "lock")
    /\ UNCHANGED <<state, owner, mutex, queue, workNum, current, accepted, finished, dropped, lives>>

Leave(t) ==
    /\ Go(t, "check", "gone")
    /\ state = 0
    /\ mutex' = None
    /\ UNCHANGED <<state, owner, queue, workNum, current, accepted, finished, dropped, lives>>

(* Faulty: the head stays on the list while it runs. *)
TakeKeeps(t) ==
    /\ Go(t, "check", "run")
    /\ state = 1
    /\ current' = [current EXCEPT ![t] = Head(queue)]
    /\ workNum' = workNum - 1
    /\ mutex' = None
    /\ UNCHANGED <<state, owner, queue, accepted, finished, dropped, lives>>

Take(t) ==
    /\ Go(t, "check", "run")
    /\ state = 1
    /\ current' = [current EXCEPT ![t] = Head(queue)]
    /\ queue' = Tail(queue)
    /\ workNum' = workNum - 1
    /\ mutex' = None
    /\ UNCHANGED <<state, owner, accepted, finished, dropped, lives>>

(* work->func returns and the work is freed. *)
Finish(t) ==
    /\ Go(t, "run", "lock")
    /\ finished' = finished \cup {current[t]}
    /\ current' = [current EXCEPT ![t] = None]
    /\ UNCHANGED <<state, owner, mutex, queue, workNum, accepted, dropped, lives>>

-----------------------------------------------------------------------------
(* tpool_addWork, called by any thread. *)

(* The signal wakes one of the sleepers. *)
Signal ==
    \/ Asleep = {} /\ UNCHANGED pc
    \/ \E t \in Asleep : pc' = [pc EXCEPT ![t] = "lock"]

(* Faulty: signals only when the list was empty. *)
AddSignalsFirst(w) ==
    /\ owner \in {"up", "flagged", "joining"}
    /\ mutex = None
    /\ w \notin accepted
    /\ workNum < WorkSize
    /\ queue' = Append(queue, w)
    /\ workNum' = workNum + 1
    /\ accepted' = accepted \cup {w}
    /\ IF queue = <<>> THEN Signal ELSE UNCHANGED pc
    /\ UNCHANGED <<state, owner, mutex, current, finished, dropped, lives>>

(* Faulty: signals nobody. *)
AddSilently(w) ==
    /\ owner \in {"up", "flagged", "joining"}
    /\ mutex = None
    /\ w \notin accepted
    /\ workNum < WorkSize
    /\ queue' = Append(queue, w)
    /\ workNum' = workNum + 1
    /\ accepted' = accepted \cup {w}
    /\ UNCHANGED <<state, owner, mutex, pc, current, finished, dropped, lives>>

(* A call that finds work_num at work_size changes nothing and is no step. *)
AddWork(w) ==
    /\ owner \in {"up", "flagged", "joining"}
    /\ mutex = None
    /\ w \notin accepted
    /\ workNum < WorkSize
    /\ queue' = Append(queue, w)
    /\ workNum' = workNum + 1
    /\ accepted' = accepted \cup {w}
    /\ Signal
    /\ UNCHANGED <<state, owner, mutex, current, finished, dropped, lives>>

-----------------------------------------------------------------------------
(* The owner: tpool_stop, tpool_start. *)

StopFlag ==
    /\ owner = "up"
    /\ state = 1
    /\ owner' = "flagged"
    /\ state' = 0
    /\ UNCHANGED <<mutex, queue, workNum, pc, current, accepted, finished, dropped, lives>>

WakeAll == pc' = [t \in Thread |-> IF pc[t] = "asleep" THEN "lock" ELSE pc[t]]

(* Faulty: broadcasts without the mutex. *)
StopBroadcastUnlocked ==
    /\ owner = "flagged"
    /\ owner' = "joining"
    /\ WakeAll
    /\ UNCHANGED <<state, mutex, queue, workNum, current, accepted, finished, dropped, lives>>

StopBroadcast ==
    /\ owner = "flagged"
    /\ mutex = None
    /\ owner' = "joining"
    /\ WakeAll
    /\ UNCHANGED <<state, mutex, queue, workNum, current, accepted, finished, dropped, lives>>

(* Faulty: joins the first thread that ends. *)
StopJoinsOne ==
    /\ owner = "joining"
    /\ \E t \in Thread : pc[t] = "gone"
    /\ owner' = "freeing"
    /\ UNCHANGED <<state, mutex, queue, workNum, pc, current, accepted, finished, dropped, lives>>

StopJoin ==
    /\ owner = "joining"
    /\ \A t \in Thread : pc[t] = "gone"
    /\ owner' = "freeing"
    /\ UNCHANGED <<state, mutex, queue, workNum, pc, current, accepted, finished, dropped, lives>>

(* What is left on the list is freed; work_num keeps its value. *)
StopFree ==
    /\ owner = "freeing"
    /\ owner' = "down"
    /\ dropped' = dropped \cup ToSet(queue)
    /\ queue' = <<>>
    /\ UNCHANGED <<state, mutex, workNum, pc, current, accepted, finished, lives>>

(* Faulty: keeps the counter of the last life. *)
StartKeepsNum ==
    /\ owner = "down"
    /\ lives < LifeBound
    /\ lives' = lives + 1
    /\ state' = 1
    /\ owner' = "up"
    /\ mutex' = None
    /\ queue' = <<>>
    /\ pc' = [t \in Thread |-> "lock"]
    /\ UNCHANGED <<workNum, current, accepted, finished, dropped>>

(* tpool_start clears the whole structure. *)
Start ==
    /\ owner = "down"
    /\ lives < LifeBound
    /\ lives' = lives + 1
    /\ state' = 1
    /\ owner' = "up"
    /\ mutex' = None
    /\ queue' = <<>>
    /\ workNum' = 0
    /\ pc' = [t \in Thread |-> "lock"]
    /\ UNCHANGED <<current, accepted, finished, dropped>>

-----------------------------------------------------------------------------
Run(t) == Lock(t) \/ Test(t) \/ Sleep(t) \/ Leave(t) \/ Take(t) \/ Finish(t)

Stop == StopBroadcast \/ StopJoin \/ StopFree

Next ==
    \/ \E t \in Thread : Run(t) \/ WakeSpuriously(t)
    \/ \E w \in Work : AddWork(w)
    \/ StopFlag \/ Stop \/ Start

(* The threads of the pool run, works return, and a stop once begun goes on; *)
(* nobody has to submit, to stop or to start.                                *)
Spec == /\ Init
        /\ [][Next]_vars
        /\ \A t \in Thread : WF_vars(Run(t))
        /\ WF_vars(Stop)

-----------------------------------------------------------------------------
(* Properties. *)

(* Types of the state. *)
TypeOK ==
    /\ state \in {0, 1}
    /\ owner \in {"up", "flagged", "joining", "freeing", "down"}
    /\ mutex \in Thread \cup {None}
    /\ queue \in Seq(Work)
    /\ workNum \in Nat
    /\ pc \in [Thread -> Location]
    /\ current \in [Thread -> Work \cup {None}]
    /\ accepted \subseteq Work /\ finished \subseteq Work /\ dropped \subseteq Work
    /\ lives \in 0..LifeBound

(* A work tpool_addWork accepted is in exactly one place: on the list, with  *)
(* one thread, returned, or freed by tpool_stop; nothing else is in any. And *)
(* work_num, on which tpool_addWork decides, is the length of the list while *)
(* the pool accepts work, across stops and restarts, and never over the size.*)
Conservation ==
    /\ owner # "down" => workNum = Len(queue) /\ workNum <= WorkSize
    /\ IsInjective(queue)
    /\ \A w \in Work :
        LET places == {x \in {"list", "done", "freed"} \cup Thread :
                        \/ x = "list" /\ w \in ToSet(queue)
                        \/ x = "done" /\ w \in finished
                        \/ x = "freed" /\ w \in dropped
                        \/ x \in Thread /\ current[x] = w}
        IN  Cardinality(places) = IF w \in accepted THEN 1 ELSE 0

OnTheWay == {t \in Thread : pc[t] \in {"lock", "test", "check"}}

(* No wake-up is lost: while threads sleep, as many threads are on their way *)
(* to the list as there are works on it.                                     *)
NoLostWakeup ==
    (state = 1 /\ Asleep # {}) => Len(queue) <= Cardinality(OnTheWay)

(* tpool_stop returns only when no thread of the pool runs and no work is    *)
(* left, so the owner may free what the works use.                           *)
StoppedIsQuiet ==
    owner = "down" => /\ \A t \in Thread : pc[t] = "gone" /\ current[t] = None
                      /\ accepted = finished \cup dropped

(* An accepted work runs to its end unless the owner stops the pool. *)
AcceptedRuns ==
    \A w \in Work : (w \in accepted \ dropped /\ state = 1) ~> (w \in finished \/ state = 0)

(* tpool_stop returns. *)
StopReturns == (owner = "flagged") ~> (owner = "down")
=============================================================================
