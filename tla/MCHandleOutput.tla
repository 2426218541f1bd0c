--------------------------- MODULE MCHandleOutput ---------------------------
(* An output handle whose client writes at most MaxBytes bytes, in calls   *)
(* of any size, with an EOF and a free at any time.                        *)
EXTENDS HandleOutput
=============================================================================
