----------------------------- MODULE FrameQueue -----------------------------
(***************************************************************************)
(* What a frame stream promises to the thread that plays it: the frames    *)
(* the writer admitted come out in the order they went in, one at a time,  *)
(* each at most once; the only loss after admission is the loss of the     *)
(* whole backlog at once.  tool_stream3.c implements it with a byte ring   *)
(* (module ToolStream3).                                                   *)
(***************************************************************************)
EXTENDS Naturals, Sequences

VARIABLES
    queue,   \* admitted frames that were not delivered yet, oldest first
    out      \* the last frame delivered, or a value that is no frame

qvars == <<queue, out>>

Init == queue = <<>>

(* One frame is admitted at the tail. *)
Put == /\ queue' # <<>>
       /\ queue = SubSeq(queue', 1, Len(queue') - 1)
       /\ UNCHANGED out

(* The oldest frame is delivered. *)
Take == /\ queue # <<>>
        /\ out' = Head(queue)
        /\ queue' = Tail(queue)

(* The backlog is given up as a whole. *)
Flush == /\ queue # <<>>
         /\ queue' = <<>>
         /\ UNCHANGED out

Next == Put \/ Take \/ Flush

Spec == Init /\ [][Next]_qvars

(* A backlog does not stay for ever without a delivery or a flush. *)
Fairness == WF_qvars(Take \/ Flush)
=============================================================================
