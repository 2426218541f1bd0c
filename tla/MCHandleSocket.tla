--------------------------- MODULE MCHandleSocket ---------------------------
(* A handle socket over a source of MaxReads chunks.  Backlogs are those   *)
(* the socket itself reports: none, or INT_MAX.                            *)
EXTENDS HandleSocket
=============================================================================
