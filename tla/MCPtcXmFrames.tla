--------------------------- MODULE MCPtcXmFrames ---------------------------
(* Seven frames: one before the first I frame, an info frame between media *)
(* frames, and lengths at which some messages are too long for the buffer. *)
EXTENDS PtcXmFrames

MCFrames == << [type |-> "A",    len |-> 2], [type |-> "VI", len |-> 4],
               [type |-> "INFO", len |-> 2], [type |-> "A",  len |-> 2],
               [type |-> "VP",   len |-> 3], [type |-> "A",  len |-> 2],
               [type |-> "VI",   len |-> 4] >>
=============================================================================
