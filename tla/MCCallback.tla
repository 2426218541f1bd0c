----------------------------- MODULE MCCallback -----------------------------
(* Two contexts; one of them owns two idempotent callbacks, as an SSH      *)
(* packet protocol layer does, the other one.                              *)
EXTENDS Callback

CONSTANTS c1, c2, ic1, ic2, ic3

MCICtx == [ic \in {ic1, ic2, ic3} |-> IF ic = ic3 THEN c2 ELSE c1]
=============================================================================
