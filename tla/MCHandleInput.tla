--------------------------- MODULE MCHandleInput ---------------------------
(* An input handle over a source of at most MaxReads chunks, whose client  *)
(* may report backlogs below, at and above the limit.                      *)
EXTENDS HandleInput
=============================================================================
