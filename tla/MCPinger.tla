------------------------------ MODULE MCPinger ------------------------------
(* Two pingers on a tick count that wraps at TickRange.                    *)
EXTENDS Pinger
=============================================================================
