----------------------------- MODULE ToolStream3 ----------------------------
(***************************************************************************)
(* tool_stream3.c: the byte ring between the thread that receives frames   *)
(* from a device and the thread that plays them, as the drivers use it:    *)
(* one writer (live: set_withDrop; playback: set_noDrop; both: the state   *)
(* frames of doState through set_noDrop without a flag) and one reader     *)
(* (initReadPos once, then get_simple in a loop) while the session's       *)
(* "state" flag is up.  Each operation runs under stream->mutex and is one *)
(* action; the wait of set_noDrop releases it and is a state of its own.   *)
(*                                                                         *)
(* A definition whose comment starts with "Faulty:" is no part of the      *)
(* model: it is a slip one could make in the definition after it, kept to  *)
(* show which property notices.                                            *)
(*                                                                         *)
(* The ring is the set of the extents that are intact in it: a write       *)
(* destroys the extents it overlaps.  An extent remembers the lap (ring)   *)
(* in which it was written; the code's bytes do not, so no action reads    *)
(* that field: it only identifies the frame in the properties.             *)
(***************************************************************************)
EXTENDS Integers, Sequences, FiniteSets, FiniteSetsExt, SequencesExt

CONSTANTS
    Size,        \* stream->size, clamped by tool_stream3_init
    DataSize,    \* TOOL_STREAM3_DATA_SIZE
    HeadSize,    \* sizeof(tool_stream3_head_t)
    Word,        \* 2^32: the positions and lengths are unsigned 32-bit
    Frames,      \* the frames a device may send: records [type, len]
    StateFrame,  \* the frame doState writes on a change of session state
    DropCount,   \* 5: backlog below which no video frame is dropped
    BufLimits,   \* the values of floor(2*nc_buffer_usec / frame interval)
    LapBound,    \* bound of the model: no frame is offered after this lap
    None         \* no frame

FrameType == {"I", "P", "A", "state"}
Frame == [type : FrameType, len : 1..DataSize]

ASSUME StreamAssumption ==
    /\ DataSize \in Nat \ {0} /\ HeadSize \in Nat \ {0}
    /\ 2 * HeadSize <= DataSize
    /\ Size \in (4 * DataSize)..(8 * DataSize)
    /\ Word \in Nat /\ Word > 2 * Size
    /\ Frames \subseteq Frame
    /\ StateFrame \in Frame /\ StateFrame.type = "state"
    /\ DropCount \in Nat /\ BufLimits \subseteq Nat
    /\ LapBound \in Nat
    /\ None \notin Frame

VARIABLES
    pool,      \* the intact extents: records [off, ring, type, len]
    wpos,      \* stream->write_pos: [off, ring]
    rpos,      \* user->stream3_read_pos: [off, ring]
    slen,      \* stream->len
    count,     \* stream->count
    dropFlag,  \* stream->drop_flag
    gap,       \* history: a video frame was dropped since the last I admitted
    live,      \* user->state, which set_noDrop polls through flag
    reader,    \* the player thread: "init", "run" or "exit"
    blocked,   \* the frame set_noDrop is retrying, or None
    out        \* the extent of the last frame delivered, or None

ring == <<pool, wpos, slen, count>>
vars == <<pool, wpos, rpos, slen, count, dropFlag, gap, live, reader, blocked, out>>

-----------------------------------------------------------------------------
(* Geometry of the ring. *)

Video(type) == type \in {"I", "P"}

Mark == [type |-> "mark", len |-> 0]

Extent(f, pos) == [off |-> pos.off, ring |-> pos.ring, type |-> f.type, len |-> f.len]

Bytes(e) == HeadSize + e.len

Disjoint(d, e) == d.off + Bytes(d) <= e.off \/ e.off + Bytes(e) <= d.off

(* memcpy into the pool: what it overlaps is intact no more. *)
Paint(p, e) == {d \in p : Disjoint(d, e)} \cup {e}

(* Faulty: turns back only when not even a head fits. *)
WrapsByHead == wpos.off + HeadSize > Size

Wraps == wpos.off + 2 * HeadSize + DataSize > Size

(* Where the next frame starts: after a mark that sends the reader to offset *)
(* 0 when head, frame and next mark might not fit before the end.            *)
Base == IF Wraps THEN [off |-> 0, ring |-> wpos.ring + 1] ELSE wpos

(* Faulty: keeps one frame of reserve instead of two. *)
FullOneFrame == slen > Size - DataSize

Full == slen > Size - 2 * DataSize

(* Faulty: forgets the application's buffer time. *)
CongestedIfFull(lim) == Full /\ count > DropCount

Congested(lim) == (Full \/ count > lim) /\ count > DropCount

(* The reader's overrun test: (write.ring-read.ring)*size + write.off-read.off *)
Distance == ((wpos.ring - rpos.ring) * Size + wpos.off - rpos.off) % Word

(* Faulty: tolerates two laps. *)
OverrunTwoLaps == Distance > 2 * Size

(* Faulty: gives up a frame early. *)
OverrunEarly == Distance > Size - DataSize

Overrun == Distance > Size

(* The common tail of set_noDrop and set_withDrop. *)
Write(f) ==
    /\ pool' = LET marked == IF Wraps THEN Paint(pool, Extent(Mark, wpos)) ELSE pool
               IN  Paint(marked, Extent(f, Base))
    /\ wpos' = [off |-> Base.off + Bytes(f), ring |-> Base.ring]
    /\ count' = IF Video(f.type) THEN count + 1 ELSE count
    /\ slen' = (slen + Bytes(f)) % Word

Init ==
    /\ pool = {}
    /\ wpos = [off |-> 0, ring |-> 0]
    /\ rpos = [off |-> 0, ring |-> 0]
    /\ slen = 0
    /\ count = 0
    /\ dropFlag = FALSE
    /\ gap = FALSE
    /\ live = TRUE
    /\ reader = "init"
    /\ blocked = None
    /\ out = None

-----------------------------------------------------------------------------
(* The writer. *)

(* set_noDrop: a full ring makes it sleep 20 ms and look at the flag. *)
OfferNoDrop(f) ==
    /\ blocked = None
    /\ wpos.ring < LapBound
    /\ \/ /\ Full
          /\ blocked' = f
          /\ UNCHANGED <<ring, dropFlag, gap>>
       \/ /\ ~Full
          /\ Write(f)
          /\ gap' = (gap /\ f.type # "I")
          /\ UNCHANGED <<blocked, dropFlag>>
    /\ UNCHANGED <<rpos, live, reader, out>>

(* It looks at the flag, and only then locks to look for room: what it has *)
(* found may be over, so that a frame can still go in after a stop.        *)
RetryNoDrop ==
    /\ blocked # None
    /\ ~Full
    /\ Write(blocked)
    /\ gap' = (gap /\ blocked.type # "I")
    /\ blocked' = None
    /\ UNCHANGED <<rpos, dropFlag, live, reader, out>>

(* Faulty: looks at the flag only once there is room. *)
AbandonWithRoom ==
    /\ blocked # None
    /\ ~live /\ ~Full
    /\ blocked' = None
    /\ gap' = (gap \/ Video(blocked.type))
    /\ UNCHANGED <<ring, rpos, dropFlag, live, reader, out>>

AbandonNoDrop ==
    /\ blocked # None
    /\ ~live
    /\ blocked' = None
    /\ gap' = (gap \/ Video(blocked.type))
    /\ UNCHANGED <<ring, rpos, dropFlag, live, reader, out>>

(* doState: set_noDrop with no flag gives the state frame up when full. *)
PutState ==
    /\ blocked = None
    /\ wpos.ring < LapBound
    /\ ~Full
    /\ Write(StateFrame)
    /\ UNCHANGED <<rpos, dropFlag, gap, live, reader, blocked, out>>

(* set_withDrop: lim stands for the backlog the application's buffer time  *)
(* allows at the frame's own rate.                                         *)
DropRest(f) ==
    /\ dropFlag /\ f.type = "P"
    /\ gap' = TRUE
    /\ UNCHANGED <<ring, dropFlag>>

StartDrop(f, lim) ==
    /\ ~(dropFlag /\ f.type = "P")
    /\ Video(f.type) /\ Congested(lim)
    /\ dropFlag' = TRUE
    /\ gap' = TRUE
    /\ UNCHANGED ring

(* Faulty: any frame that is admitted ends the dropping. *)
AdmitResets(f, lim) ==
    /\ ~(dropFlag /\ f.type = "P")
    /\ ~(Video(f.type) /\ Congested(lim))
    /\ dropFlag' = FALSE
    /\ gap' = (gap /\ f.type # "I")
    /\ Write(f)

Admit(f, lim) ==
    /\ ~(dropFlag /\ f.type = "P")
    /\ ~(Video(f.type) /\ Congested(lim))
    /\ dropFlag' = (dropFlag /\ f.type # "I")
    /\ gap' = (gap /\ f.type # "I")
    /\ Write(f)

OfferWithDrop(f, lim) ==
    /\ wpos.ring < LapBound
    /\ DropRest(f) \/ StartDrop(f, lim) \/ Admit(f, lim)
    /\ UNCHANGED <<rpos, live, reader, blocked, out>>

-----------------------------------------------------------------------------
(* The reader. *)

(* Faulty: leaves the counters of what was skipped. *)
InitReadPosOnly ==
    /\ reader = "init"
    /\ reader' = "run"
    /\ rpos' = wpos
    /\ UNCHANGED <<pool, wpos, slen, count, dropFlag, gap, live, blocked, out>>

InitReadPos ==
    /\ reader = "init"
    /\ reader' = "run"
    /\ rpos' = wpos
    /\ slen' = 0
    /\ count' = 0
    /\ UNCHANGED <<pool, wpos, dropFlag, gap, live, blocked, out>>

(* Faulty: gives the backlog up but keeps its video frames counted. *)
ResyncKeepsCount ==
    /\ reader = "run"
    /\ rpos # wpos
    /\ Overrun
    /\ rpos' = wpos
    /\ slen' = 0
    /\ UNCHANGED <<pool, wpos, count, dropFlag, gap, live, reader, blocked, out>>

(* get_simple on a reader the writer has lapped: the backlog is given up. *)
Resync ==
    /\ reader = "run"
    /\ rpos # wpos
    /\ Overrun
    /\ rpos' = wpos
    /\ slen' = 0
    /\ count' = 0
    /\ UNCHANGED <<pool, wpos, dropFlag, gap, live, reader, blocked, out>>

(* get_simple that returns a frame.  The bytes at the read offset are the   *)
(* extent that starts there; without one they would be garbage, which       *)
(* ReaderAligned excludes.                                                  *)
Deliver ==
    /\ \E h, e \in pool :
        LET start == IF h.type = "mark" THEN [off |-> 0, ring |-> rpos.ring + 1] ELSE rpos
        IN  /\ h.off = rpos.off
            /\ e.off = start.off
            /\ e.type # "mark"
            /\ out' = e
            /\ rpos' = [off |-> start.off + Bytes(e), ring |-> start.ring]
            /\ count' = IF Video(e.type) THEN count - 1 ELSE count
            /\ slen' = (slen - Bytes(e)) % Word
    /\ UNCHANGED <<pool, wpos, dropFlag, gap, live, reader, blocked>>

(* Faulty: takes a stream without video frames for an empty one. *)
GetByCount ==
    /\ reader = "run"
    /\ count > 0
    /\ ~Overrun
    /\ Deliver

Get ==
    /\ reader = "run"
    /\ rpos # wpos
    /\ ~Overrun
    /\ Deliver

(* The player's loop ends when it finds the session's flag down. *)
ReaderExit ==
    /\ reader = "run"
    /\ ~live
    /\ reader' = "exit"
    /\ UNCHANGED <<ring, rpos, dropFlag, gap, live, blocked, out>>

(* stopRts, stopPbs: the flag goes down. *)
Stop ==
    /\ live
    /\ live' = FALSE
    /\ UNCHANGED <<ring, rpos, dropFlag, gap, reader, blocked, out>>

-----------------------------------------------------------------------------
Reading == InitReadPos \/ Resync \/ Get \/ ReaderExit

LiveNext ==
    \/ \E f \in Frames, lim \in BufLimits : OfferWithDrop(f, lim)
    \/ PutState
    \/ Reading
    \/ Stop

PlaybackNext ==
    \/ \E f \in Frames : OfferNoDrop(f)
    \/ RetryNoDrop
    \/ AbandonNoDrop
    \/ PutState
    \/ Reading
    \/ Stop

LiveSpec == Init /\ [][LiveNext]_vars /\ WF_vars(Reading)

PlaybackSpec ==
    /\ Init
    /\ [][PlaybackNext]_vars
    /\ WF_vars(Reading)
    /\ WF_vars(RetryNoDrop \/ AbandonNoDrop)

-----------------------------------------------------------------------------
(* Properties. *)

(* The frames between the read and the write position, oldest first. *)
Place(e) == e.ring * Size + e.off

Unread == {e \in pool : e.type # "mark" /\ Place(e) >= Place(rpos)}

Backlog ==
    [i \in 1..Cardinality(Unread) |->
        CHOOSE e \in Unread : Cardinality({d \in Unread : Place(d) < Place(e)}) = i - 1]

(* Types.  The offsets stay inside the ring: the log_fatal of set_noDrop and *)
(* set_withDrop for a write position without room for a head is dead code.   *)
TypeOK ==
    /\ pool \subseteq [off : 0..(Size - HeadSize), ring : Nat,
                       type : FrameType \cup {"mark"}, len : 0..DataSize]
    /\ wpos \in [off : 0..(Size - HeadSize), ring : Nat]
    /\ rpos \in [off : 0..(Size - HeadSize), ring : Nat]
    /\ slen \in 0..(Word - 1)
    /\ count \in Int
    /\ dropFlag \in BOOLEAN
    /\ gap \in BOOLEAN
    /\ live \in BOOLEAN
    /\ reader \in {"init", "run", "exit"}
    /\ blocked \in Frames \cup {None}

(* No frame or mark runs over the end of the pool, and no two intact extents *)
(* share a byte: set_noDrop and set_withDrop turn back to offset 0 early     *)
(* enough for the largest frame they accept.                                 *)
InBounds ==
    /\ \A e \in pool : e.off + Bytes(e) <= Size
    /\ \A d, e \in pool : d = e \/ Disjoint(d, e)

(* The overrun test of get_simple is exact: a reader that passes it finds at  *)
(* its offset the head of the very next frame it has not read, or the mark    *)
(* that leads to it, and never bytes of another lap or the inside of a frame. *)
ReaderAligned ==
    (reader = "run" /\ rpos # wpos /\ ~Overrun) =>
        \E h \in pool :
            /\ h.off = rpos.off
            /\ h.ring = rpos.ring
            /\ h.type = "mark" => \E e \in pool : /\ e.off = 0
                                                /\ e.ring = rpos.ring + 1
                                                /\ e.type # "mark"

(* stream->len and stream->count, which decide who waits and what is         *)
(* dropped, are the bytes and the video frames of the backlog as long as the *)
(* reader has not been lapped.                                               *)
Accounting ==
    (reader = "run" /\ ~Overrun) =>
        /\ slen = MapThenSumSet(Bytes, Unread)
        /\ count = Cardinality({e \in Unread : Video(e.type)})

(* Live view: the backlog never holds more video frames than the larger of   *)
(* the buffer time and the fixed 5 allow, plus the one that crosses it.      *)
QueueBound == \E lim \in BufLimits \cup {DropCount} : count <= lim + 1

(* Playback: a frame set_noDrop admitted is never overwritten before it is   *)
(* read; waiting for room two frames early covers the bytes the turn at the  *)
(* end of the pool wastes, for frames that leave room for three heads.       *)
NeverLapped == ~Overrun

(* Live view: after a dropped video frame no P frame, which could not be     *)
(* decoded, is admitted before the next I frame.                             *)
GopIntact ==
    [][\A e \in pool' \ pool : e.type = "P" => ~gap]_vars

FQ == INSTANCE FrameQueue
        WITH queue <- IF reader = "run" /\ ~Overrun THEN Backlog ELSE <<>>

(* The ring implements the frame queue: first in first out, no frame twice,  *)
(* and after admission only the loss of the whole backlog at once.           *)
RefinesFrameQueue == FQ!Spec

(* A backlog is played or given up in the end. *)
BacklogMoves == FQ!Fairness

(* Playback: while the player runs, nothing but Put and Take happens to the  *)
(* backlog, whatever the speeds of the two threads.                          *)
LosslessWhileRunning ==
    [][reader = "run" /\ reader' = "run" => FQ!Put \/ FQ!Take \/ UNCHANGED FQ!qvars]_vars

(* Playback: a receiving thread that waits for room in set_noDrop goes on in *)
(* the end: the player makes room or the session's stop releases it.         *)
WriterReleased == (blocked # None) ~> (blocked = None)
=============================================================================
