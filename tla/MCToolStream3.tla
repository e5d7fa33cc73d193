--------------------------- MODULE MCToolStream3 ---------------------------
(***************************************************************************)
(* Small rings for TLC.  One byte of the model stands for a head (16 bytes *)
(* in the code) and four for TOOL_STREAM3_DATA_SIZE (1 MB); the frames are *)
(* shorter than DataSize by more than two heads less one, as 500 KB frames *)
(* are shorter than 1 MB.                                                  *)
(***************************************************************************)
EXTENDS ToolStream3

LiveFrames == {[type |-> "I", len |-> 2], [type |-> "P", len |-> 1], [type |-> "A", len |-> 2]}

PlaybackFrames == {[type |-> "I", len |-> 2], [type |-> "A", len |-> 1]}

MCStateFrame == [type |-> "state", len |-> 1]
=============================================================================
