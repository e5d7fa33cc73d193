------------------------------ MODULE NcQhUser ------------------------------
(***************************************************************************)
(* nc_qh.c: the life of a user, the slot behind every session of the qh    *)
(* driver (login, live view, playback, talk).  Threads of the application  *)
(* call nc_qh_user_start and, with the id it returned, nc_qh_user_stop;    *)
(* a session has a thread that talks to the device (nc_qh_user_run) and,   *)
(* for live view and playback, one that plays the stream                   *)
(* (nc_qh_user_run2).  nc->mutex guards the search for a free slot alone:  *)
(* everything else in a slot is shared without a lock, and what keeps the  *)
(* threads apart is the order of the steps of start and stop.              *)
(*                                                                         *)
(* A caller stops the session it started, once, from a thread of its own   *)
(* and not from the callback.  What a pass of the device thread does is    *)
(* module NcQhPbs; here it only uses the session's memory and, without a   *)
(* player thread, calls back.                                              *)
(***************************************************************************)
EXTENDS Integers, FiniteSets

CONSTANTS
    Caller,     \* threads of the application
    UserSize,   \* NC_QH_USER_SIZE
    None        \* no caller

User == 1..UserSize

(* PTC_CMD_RTS_BASE and PTC_CMD_PBS_BASE have a stream and a player; the     *)
(* other types call back from the device thread.                             *)
Type == {"stream", "direct"}

ASSUME UserAssumption == UserSize \in Nat \ {0} /\ None \notin Caller

VARIABLES
    mutex,     \* the caller that holds nc->mutex, or None
    isUsed,    \* user->is_used
    state,     \* user->state
    type,      \* user->type
    cb,        \* user->cb and user->param: the caller they belong to, or None
    memory,    \* user->frame, stream3_recv, stream3_frame_data, audio_send: there?
    run,       \* where the device thread of each slot is
    play,      \* where the player thread of each slot is
    at,        \* where each caller is in start or stop
    id,        \* the slot each caller looks at in start, or owns
    wanted,    \* the type each caller asks for
    allUsed    \* history: were all slots used when the caller's search began

slots == <<isUsed, state, type, cb, memory>>
vars == <<mutex, isUsed, state, type, cb, memory, run, play, at, id, wanted, allUsed>>

Place == {"idle", "search", "full", "fill", "spawn", "spawn2", "open",
          "join", "join2", "free", "clear", "release"}

Init ==
    /\ mutex = None
    /\ isUsed = [u \in User |-> 0]
    /\ state = [u \in User |-> 0]
    /\ type = [u \in User |-> "direct"]
    /\ cb = [u \in User |-> None]
    /\ memory = [u \in User |-> FALSE]
    /\ run = [u \in User |-> "gone"]
    /\ play = [u \in User |-> "gone"]
    /\ at = [c \in Caller |-> "idle"]
    /\ id = [c \in Caller |-> 1]
    /\ wanted = [c \in Caller |-> "direct"]
    /\ allUsed = [c \in Caller |-> FALSE]

Step(c, from, to) == at[c] = from /\ at' = [at EXCEPT ![c] = to]

(* The locals of a call end with it. *)
Forget(c) == /\ id' = [id EXCEPT ![c] = 1]
             /\ wanted' = [wanted EXCEPT ![c] = "direct"]
             /\ allUsed' = [allUsed EXCEPT ![c] = FALSE]

-----------------------------------------------------------------------------
(* nc_qh_user_start. *)

(* Faulty: searches without nc->mutex. *)
StartUnlocked(c, t) ==
    /\ Step(c, "idle", "search")
    /\ UNCHANGED mutex
    /\ id' = [id EXCEPT ![c] = 1]
    /\ wanted' = [wanted EXCEPT ![c] = t]
    /\ allUsed' = [allUsed EXCEPT ![c] = \A u \in User : isUsed[u] = 1]
    /\ UNCHANGED <<slots, run, play>>

Start(c, t) ==
    /\ Step(c, "idle", "search")
    /\ mutex = None
    /\ mutex' = c
    /\ id' = [id EXCEPT ![c] = 1]
    /\ wanted' = [wanted EXCEPT ![c] = t]
    /\ allUsed' = [allUsed EXCEPT ![c] = \A u \in User : isUsed[u] = 1]
    /\ UNCHANGED <<slots, run, play>>

(* Faulty: looks past the last slot. *)
SearchEndless(c) ==
    /\ at[c] = "search"
    /\ id[c] > UserSize \/ isUsed[id[c]] = 1
    /\ id' = [id EXCEPT ![c] = @ + 1]
    /\ UNCHANGED <<mutex, slots, run, play, at, wanted, allUsed>>

(* The search reads one slot after the other while stops set is_used to 0. *)
SearchNext(c) ==
    /\ at[c] = "search"
    /\ id[c] <= UserSize
    /\ isUsed[id[c]] = 1
    /\ id' = [id EXCEPT ![c] = @ + 1]
    /\ UNCHANGED <<mutex, slots, run, play, at, wanted, allUsed>>

Claim(c) ==
    /\ Step(c, "search", "fill")
    /\ id[c] <= UserSize
    /\ isUsed[id[c]] = 0
    /\ isUsed' = [isUsed EXCEPT ![id[c]] = 1]
    /\ mutex' = None
    /\ allUsed' = [allUsed EXCEPT ![c] = FALSE]
    /\ UNCHANGED <<state, type, cb, memory, run, play, id, wanted>>

(* NC_ERROR_FULL *)
Full(c) ==
    /\ Step(c, "search", "full")
    /\ id[c] > UserSize
    /\ mutex' = None
    /\ UNCHANGED <<slots, run, play, id, wanted, allUsed>>

ReturnFull(c) ==
    /\ Step(c, "full", "idle")
    /\ Forget(c)
    /\ UNCHANGED <<mutex, slots, run, play>>

Fill(c) ==
    /\ Step(c, "fill", "spawn")
    /\ type' = [type EXCEPT ![id[c]] = wanted[c]]
    /\ cb' = [cb EXCEPT ![id[c]] = c]
    /\ memory' = [memory EXCEPT ![id[c]] = TRUE]
    /\ state' = [state EXCEPT ![id[c]] = 1]
    /\ UNCHANGED <<mutex, isUsed, run, play, id, wanted, allUsed>>

Spawn(c) ==
    /\ Step(c, "spawn", IF type[id[c]] = "stream" THEN "spawn2" ELSE "open")
    /\ run' = [run EXCEPT ![id[c]] = "test"]
    /\ UNCHANGED <<mutex, slots, play, id, wanted, allUsed>>

Spawn2(c) ==
    /\ Step(c, "spawn2", "open")
    /\ play' = [play EXCEPT ![id[c]] = "init"]
    /\ UNCHANGED <<mutex, slots, run, id, wanted, allUsed>>

-----------------------------------------------------------------------------
(* nc_qh_user_stop. *)

(* Faulty: asks the threads to end by the wrong variable. *)
StopUnflagged(c) ==
    /\ Step(c, "open", "join")
    /\ UNCHANGED <<mutex, slots, run, play, id, wanted, allUsed>>

Stop(c) ==
    /\ Step(c, "open", "join")
    /\ state[id[c]] = 1
    /\ state' = [state EXCEPT ![id[c]] = 0]
    /\ UNCHANGED <<mutex, isUsed, type, cb, memory, run, play, id, wanted, allUsed>>

(* Faulty: forgets that the session has a player. *)
JoinRunOnly(c) ==
    /\ Step(c, "join", "free")
    /\ run[id[c]] = "gone"
    /\ UNCHANGED <<mutex, slots, run, play, id, wanted, allUsed>>

Join(c) ==
    /\ Step(c, "join", IF type[id[c]] = "stream" THEN "join2" ELSE "free")
    /\ run[id[c]] = "gone"
    /\ UNCHANGED <<mutex, slots, run, play, id, wanted, allUsed>>

Join2(c) ==
    /\ Step(c, "join2", "free")
    /\ play[id[c]] = "gone"
    /\ UNCHANGED <<mutex, slots, run, play, id, wanted, allUsed>>

Free(c) ==
    /\ Step(c, "free", "clear")
    /\ memory' = [memory EXCEPT ![id[c]] = FALSE]
    /\ UNCHANGED <<mutex, isUsed, state, type, cb, run, play, id, wanted, allUsed>>

(* Faulty: gives the slot away before the last write to it. *)
ClearAfterRelease(c) ==
    /\ Step(c, "clear", "release")
    /\ isUsed' = [isUsed EXCEPT ![id[c]] = 0]
    /\ UNCHANGED <<mutex, state, type, cb, memory, run, play, id, wanted, allUsed>>

Clear(c) ==
    /\ Step(c, "clear", "release")
    /\ cb' = [cb EXCEPT ![id[c]] = None]
    /\ UNCHANGED <<mutex, isUsed, state, type, memory, run, play, id, wanted, allUsed>>

Release(c) ==
    /\ Step(c, "release", "idle")
    /\ isUsed' = [isUsed EXCEPT ![id[c]] = 0]
    /\ Forget(c)
    /\ UNCHANGED <<mutex, state, type, cb, memory, run, play>>

-----------------------------------------------------------------------------
(* nc_qh_user_run: the loop, a pass of it, and the logout at its end. *)

Runs(u, from, to) == /\ run[u] = from
                     /\ run' = [run EXCEPT ![u] = to]
                     /\ UNCHANGED <<mutex, slots, play, at, id, wanted, allUsed>>

RunTest(u) == Runs(u, "test", IF state[u] = 1 THEN "pass" ELSE "logout")

RunPass(u) == Runs(u, "pass", "test")

(* doTalk, doAlarm and doState call back where there is no player. *)
RunCalls(u) == type[u] = "direct" /\ cb[u] # None /\ Runs(u, "pass", "calling")

RunReturns(u) == Runs(u, "calling", "test")

RunLogout(u) == Runs(u, "logout", "gone")

(* nc_qh_user_run2. *)

Plays(u, from, to) == /\ play[u] = from
                      /\ play' = [play EXCEPT ![u] = to]
                      /\ UNCHANGED <<mutex, slots, run, at, id, wanted, allUsed>>

PlayInit(u) == Plays(u, "init", "test")

PlayTest(u) == Plays(u, "test", IF state[u] = 1 THEN "get" ELSE "gone")

PlayIdle(u) == Plays(u, "get", "test")

PlayCalls(u) == cb[u] # None /\ Plays(u, "get", "calling")

PlayReturns(u) == Plays(u, "calling", "test")

-----------------------------------------------------------------------------
Starting(c) ==
    SearchNext(c) \/ Claim(c) \/ Full(c) \/ ReturnFull(c) \/ Fill(c) \/ Spawn(c) \/ Spawn2(c)

Stopping(c) == Join(c) \/ Join2(c) \/ Free(c) \/ Clear(c) \/ Release(c)

RunThread(u) == RunTest(u) \/ RunPass(u) \/ RunCalls(u) \/ RunReturns(u) \/ RunLogout(u)

PlayThread(u) ==
    PlayInit(u) \/ PlayTest(u) \/ PlayIdle(u) \/ PlayCalls(u) \/ PlayReturns(u)

Next ==
    \/ \E c \in Caller, t \in Type : Start(c, t)
    \/ \E c \in Caller : Stop(c) \/ Starting(c) \/ Stopping(c)
    \/ \E u \in User : RunThread(u) \/ PlayThread(u)

(* Calls go on once begun and the threads run: every wait of a pass has a    *)
(* timeout, and callbacks return.  Nobody has to start or to stop.           *)
Spec == /\ Init
        /\ [][Next]_vars
        /\ \A c \in Caller : WF_vars(Starting(c) \/ Stopping(c))
        /\ \A u \in User : WF_vars(RunThread(u)) /\ WF_vars(PlayThread(u))

-----------------------------------------------------------------------------
(* Properties. *)

(* Types of the state. *)
TypeOK ==
    /\ mutex \in Caller \cup {None}
    /\ isUsed \in [User -> {0, 1}]
    /\ state \in [User -> {0, 1}]
    /\ type \in [User -> Type]
    /\ cb \in [User -> Caller \cup {None}]
    /\ memory \in [User -> BOOLEAN]
    /\ run \in [User -> {"test", "pass", "calling", "logout", "gone"}]
    /\ play \in [User -> {"init", "test", "get", "calling", "gone"}]
    /\ at \in [Caller -> Place]
    /\ id \in [Caller -> 1..(UserSize + 1)]
    /\ wanted \in [Caller -> Type]
    /\ allUsed \in [Caller -> BOOLEAN]

(* From the claim to the release the slot is a caller's. *)
Owns(c, u) == id[c] = u /\ at[c] \notin {"idle", "search", "full"}

(* Two calls of nc_qh_user_start never get one slot, and no stop of another  *)
(* session reaches into an open one: its fields are those start gave it.     *)
SessionIntact ==
    /\ \A c, d \in Caller, u \in User : Owns(c, u) /\ Owns(d, u) => c = d
    /\ \A c \in Caller : at[c] = "open" =>
        /\ isUsed[id[c]] = 1
        /\ state[id[c]] = 1
        /\ type[id[c]] = wanted[c]
        /\ cb[id[c]] = c
        /\ memory[id[c]]

Alive(u) == run[u] # "gone" \/ play[u] # "gone"

(* The threads of a session live no longer than the memory they use, which   *)
(* nc_qh_user_stop frees.                                                    *)
NoUseAfterFree == \A u \in User : Alive(u) => memory[u]

(* A callback goes to the caller whose session it is, and never once its     *)
(* stop has returned or while another's session is in the slot.              *)
CallbackInSession ==
    \A u \in User : (run[u] = "calling" \/ play[u] = "calling") =>
        /\ cb[u] # None
        /\ Owns(cb[u], u)
        /\ at[cb[u]] \in {"spawn2", "open", "join", "join2"}

(* NC_ERROR_FULL is never wrong: though stops free slots while start looks   *)
(* at one slot after the other, all were in use at one moment of the call.   *)
FullIsTrue == \A c \in Caller : at[c] = "full" => allUsed[c]

(* What nc.h says of nc_startRts_v2: "0=success, other=error".  The code      *)
(* returns user_id, the index of the slot.                                    *)
StartReturnsZero == \A c \in Caller : at[c] = "open" => id[c] - 1 = 0

(* nc_qh_user_stop returns. *)
StopReturns == \A c \in Caller : (at[c] = "join") ~> (at[c] = "idle")
=============================================================================
