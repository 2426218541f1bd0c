--------------------------- MODULE MCSsh2Channel ---------------------------
(* A channel with a window of a few bytes each way.                        *)
EXTENDS Ssh2Channel
=============================================================================
