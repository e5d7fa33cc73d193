---------------------------- MODULE PtcXmFrames ----------------------------
(***************************************************************************)
(* Reassembly of frames on a live connection of the XiongMai driver        *)
(* (tool_ptc_xm_recvRts, tool_ptc_xm_recvBuf and tool_ptc_xm_checkBuf of   *)
(* tool_ptc.c, called by nc_xm_rts_runRecv).                               *)
(*                                                                         *)
(* The device writes a stream of frames and cuts it into messages where it *)
(* likes. The receiver keeps the bytes of an unfinished frame at the front *)
(* of a buffer, and what followed a finished frame in a "left" region of   *)
(* the same buffer. Lengths are counted in pieces of a frame; a piece is   *)
(* named by its position in the device's stream, so that what is handed on *)
(* can be compared with what was sent. The first piece of a frame is its   *)
(* type word, HeadLen pieces tell its length, and a message is cut between *)
(* pieces, never inside a type word.                                       *)
(***************************************************************************)
EXTENDS Integers, Sequences, FiniteSets, SequencesExt

CONSTANTS
    Frames,     \* what the device sends: a sequence of [type, len] records
    HeadLen,    \* pieces of a frame head
    Size,       \* pieces the receive buffer holds
    MsgMax,     \* bound: pieces of the longest message
    Inflight,   \* bound: messages in the socket at a time
    ConnBound   \* bound: connections

Media == {"VI", "VP", "A"}

ASSUME PtcXmAssumption ==
    /\ HeadLen \in Nat \ {0} /\ Size \in Nat /\ MsgMax \in Nat /\ Inflight \in Nat
    /\ ConnBound \in Nat \ {0}
    /\ Frames \in Seq([type : Media \cup {"PIC", "INFO"}, len : Nat])
    /\ \A f \in 1..Len(Frames) : Frames[f].len >= HeadLen

Frame == 1..Len(Frames)

(* The first piece of every frame, and behind the last of them the piece   *)
(* that would follow.                                                      *)
FirstOf[f \in 1..(Len(Frames) + 1)] ==
    IF f = 1 THEN 1 ELSE FirstOf[f-1] + Frames[f-1].len

LastOf(f) == FirstOf[f] + Frames[f].len - 1
Pieces(f) == [i \in 1..Frames[f].len |-> FirstOf[f] + i - 1]
Total     == FirstOf[Len(Frames) + 1] - 1

(* The frame whose type word is piece p, if p is a type word. *)
Heads    == {FirstOf[f] : f \in Frame}
TypeAt(p) == Frames[CHOOSE f \in Frame : FirstOf[f] = p].type

VARIABLES
    sent,     \* the last piece the device wrote
    inbox,    \* messages in the socket, as [from, n] records
    box,      \* recv_buf, recv_len, left_buf (an offset) and left_len
    key,      \* rts->key_flag
    alive,    \* the receiving thread runs (error_flag = 0)
    conn,     \* the number of the connection
    begin,    \* the first piece of this connection
    ring,     \* history: what this connection put into the ring
    mark,     \* history: where the last message that brought pieces began
    overlaid  \* history: a message was written over bytes still to be parsed

vars == <<sent, inbox, box, key, alive, conn, begin, ring, mark, overlaid>>

Empty == [buf |-> [i \in 1..Size |-> 0], len |-> 0, at |-> 0, left |-> 0]

Init ==
    /\ sent = 0 /\ inbox = <<>> /\ box = Empty
    /\ key = 0 /\ alive = TRUE /\ conn = 1 /\ begin = 1
    /\ ring = <<>> /\ mark = 1 /\ overlaid = FALSE

-----------------------------------------------------------------------------
(* The device writes a message; the connection breaks; the driver logs in  *)
(* again and the device goes on with some later frame.                      *)

Send ==
    /\ alive /\ Len(inbox) < Inflight
    /\ \E n \in 0..MsgMax :
        /\ sent + n <= Total
        /\ inbox' = Append(inbox, [from |-> sent + 1, n |-> n])
        /\ sent' = sent + n
    /\ UNCHANGED <<box, key, alive, conn, begin, ring, mark, overlaid>>

(* The state after an error: the thread clears its lengths and ends. *)
Failed ==
    /\ alive' = FALSE
    /\ key' = 0
    /\ box' = Empty
    /\ UNCHANGED <<sent, inbox, conn, begin, ring, mark, overlaid>>

Break == alive /\ Failed

Reconnect ==
    /\ ~alive /\ conn < ConnBound
    /\ \E f \in Frame :
        /\ FirstOf[f] > sent
        /\ sent' = FirstOf[f] - 1
        /\ begin' = FirstOf[f] /\ mark' = FirstOf[f]
    /\ alive' = TRUE /\ conn' = conn + 1
    /\ inbox' = <<>> /\ ring' = <<>> /\ overlaid' = FALSE
    /\ box' = Empty /\ key' = 0

-----------------------------------------------------------------------------
(* tool_ptc_xm_checkBuf. *)

(* The lengths the head at the front may state: the frame's own, or, when  *)
(* the bytes behind the type word are another's, anything.                 *)
Lengths(b) ==
    LET f == CHOOSE g \in Frame : FirstOf[g] = b.buf[1]
    IN  IF SubSeq(b.buf, 1, HeadLen) = SubSeq(Pieces(f), 1, HeadLen)
        THEN {Frames[f].len}
        ELSE HeadLen..(Size + 1)

Nothing(b) == {[box |-> b, ret |-> 0]}

(* Faulty: the finished frame stays at the front of the buffer. *)
CheckBufKeeps(b) ==
    IF b.len = 0 THEN Nothing(b)
    ELSE IF b.buf[1] \notin Heads THEN Nothing([b EXCEPT !.left = 0, !.len = 0])
    ELSE IF b.len < HeadLen THEN Nothing(b)
    ELSE UNION {IF b.len < n THEN Nothing(b)
                ELSE {[box |-> [b EXCEPT !.at = n, !.left = b.len - n],
                       ret |-> IF TypeAt(b.buf[1]) \in Media THEN 1 ELSE 0]}
                : n \in Lengths(b)}

(* What checkBuf may do with buffer b: the buffer it leaves and its result. *)
CheckBuf(b) ==
    IF b.len = 0 THEN Nothing(b)
    ELSE IF b.buf[1] \notin Heads THEN Nothing([b EXCEPT !.left = 0, !.len = 0])
    ELSE IF b.len < HeadLen THEN Nothing(b)
    ELSE UNION {IF b.len < n THEN Nothing(b)
                ELSE {[box |-> [b EXCEPT !.at = n, !.left = b.len - n, !.len = 0],
                       ret |-> IF TypeAt(b.buf[1]) \in Media THEN 1 ELSE 0]}
                : n \in Lengths(b)}

(* Faulty: a message that does not fit is not refused. *)
NeverTooLong(b, m) == FALSE

(* tool_ptc_xm_recvBuf. *)
TooLong(b, m) == m.n + b.len > Size

RecvBuf(b, m) ==
    LET k == IF m.from \in Heads /\ TypeAt(m.from) \in Media THEN 0 ELSE b.len
    IN  IF m.n = 0 THEN b ELSE
        [b EXCEPT !.buf = [i \in DOMAIN b.buf \cup 1..(k + m.n) |->
                               IF i \in (k+1)..(k + m.n) THEN m.from + i - k - 1 ELSE b.buf[i]],
                  !.len = k + m.n]

(* What tool_ptc_xm_recvRts does first: the bytes behind the last frame go *)
(* to the front.                                                           *)
Restore(b) ==
    IF b.left = 0 THEN b
    ELSE [b EXCEPT !.buf = [i \in DOMAIN b.buf |-> IF i <= b.left THEN b.buf[b.at + i] ELSE b.buf[i]],
                   !.len = b.left, !.left = 0]

(* Bytes that neither length reaches are never read again: forget them. *)
Trim(b) ==
    [b EXCEPT !.at  = IF b.left = 0 THEN 0 ELSE @,
              !.buf = [i \in 1..Size |-> IF i <= b.len \/ (i > b.at /\ i <= b.at + b.left)
                                         THEN b.buf[i] ELSE 0]]

-----------------------------------------------------------------------------
(* nc_xm_rts_runRecv: a pass with pollRead > 0. *)

(* Nothing goes to the ring before the first I frame. *)
Deliver(c) ==
    LET starts == TypeAt(c.box.buf[1]) = "VI"
    IN  /\ box' = Trim(c.box)
        /\ key' = IF key = 1 \/ starts THEN 1 ELSE 0
        /\ ring' = IF key' = 1 THEN Append(ring, SubSeq(c.box.buf, 1, c.box.at)) ELSE ring

(* The second half of recvRts, with what the first checkBuf left. *)
ReadMessage(b) ==
    LET m == Head(inbox) IN
    \/ TooLong(b, m) /\ Failed
    \/ /\ ~TooLong(b, m)
       /\ inbox' = Tail(inbox)
       /\ mark' = IF m.n > 0 THEN m.from ELSE mark
       /\ overlaid' = (overlaid \/ (m.n > 0 /\ b.left > 0))
       /\ \E c \in CheckBuf(RecvBuf(b, m)) :
            IF c.ret = 1 THEN Deliver(c) ELSE box' = Trim(c.box) /\ UNCHANGED <<key, ring>>
       /\ UNCHANGED <<sent, alive, conn, begin>>

(* Faulty: always reads, and looks at the buffer only then. *)
RecvRtsReads == alive /\ inbox # <<>> /\ ReadMessage(Restore(box))

RecvRts ==
    /\ alive /\ inbox # <<>>
    /\ \E c \in CheckBuf(Restore(box)) :
        \/ /\ c.ret = 1
           /\ Deliver(c)
           /\ UNCHANGED <<sent, inbox, alive, conn, begin, mark, overlaid>>
        \/ c.ret = 0 /\ ReadMessage(c.box)

Next == Send \/ Break \/ Reconnect \/ RecvRts

Spec == Init /\ [][Next]_vars

-----------------------------------------------------------------------------
(* The receiver's memory is one buffer of Size pieces: no message and no   *)
(* restored rest ever reaches past its end.                                *)
BufferOK ==
    /\ sent \in 0..Total /\ conn \in 1..ConnBound /\ key \in {0, 1}
    /\ box.len \in 0..Size /\ box.left \in 0..Size
    /\ box.at + box.left <= Size
    /\ \A m \in ToSet(inbox) : m.from + m.n - 1 <= sent

(* The frames of S, one after the other. *)
InOrder(S) ==
    [i \in 1..Cardinality(S) |->
        Pieces(CHOOSE f \in S : Cardinality({g \in S : g <= f}) = i)]

(* What the ring should have got of this connection when every frame that  *)
(* ends before piece p was handed on: the media frames from the first I on. *)
Due(p) ==
    LET got == {f \in Frame : FirstOf[f] >= begin /\ LastOf(f) < p}
        is  == {f \in got : Frames[f].type = "VI"}
        ok  == {f \in got : Frames[f].type \in Media /\ \E i \in is : i <= f}
    IN  InOrder(ok)

(* However the device cuts its stream, and wherever a connection ends, the *)
(* ring gets whole media frames in order with none left out from the first *)
(* I frame on. The one way to lose frames is recvRts meeting a complete     *)
(* picture or info frame with bytes behind it: checkBuf returns 0 for it,   *)
(* and the next message is written over those bytes.                        *)
Reassembled == ~overlaid => IsPrefix(ring, Due(Total + 1))

(* A frame may wait in the buffer for the next message that brings          *)
(* anything, but never longer: what ended before that message began is in   *)
(* the ring by the time the message is read. An empty message may leave a   *)
(* complete frame waiting behind an info frame.                             *)
OnlyLastMessageHeld == ~overlaid => IsPrefix(Due(mark), ring)
=============================================================================
