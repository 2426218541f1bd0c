--------------------------- MODULE HandleInputSpec ---------------------------
(***************************************************************************)
(* What an input handle of windows/handle-io.c promises its client, with   *)
(* neither thread nor event in sight: chunks of the data source, in order, *)
(* while the client's backlog is small and until the end or handle_free.   *)
(***************************************************************************)
EXTENDS Integers, Sequences

CONSTANTS MAX_BACKLOG, Backlogs, MaxReads

VARIABLES
    st,     \* "reading", "stopped", "ended" or "freed"
    got     \* the chunks delivered; the n-th chunk of the source is n

InVars == <<st, got>>

InInit == st = "reading" /\ got = << >>

(* gotdata is given the next chunk and returns the backlog b, or frees the *)
(* handle.                                                                 *)
InData(b, frees) ==
    /\ st = "reading"
    /\ Len(got) < MaxReads
    /\ got' = Append(got, Len(got) + 1)
    /\ st' = IF frees THEN "freed"
             ELSE IF b < MAX_BACKLOG THEN "reading"
             ELSE "stopped"

(* gotdata is told of the end of the data or of an error.                  *)
InEnd(frees) ==
    /\ st = "reading"
    /\ st' = IF frees THEN "freed" ELSE "ended"
    /\ UNCHANGED got

InFree ==
    /\ st # "freed"
    /\ st' = "freed"
    /\ UNCHANGED got

InUnthrottle(b) ==
    /\ st # "freed"
    /\ st' = IF st = "stopped" /\ b < MAX_BACKLOG THEN "reading" ELSE st
    /\ UNCHANGED got

InNext ==
    \/ \E b \in Backlogs, f \in BOOLEAN : InData(b, f)
    \/ \E f \in BOOLEAN : InEnd(f)
    \/ InFree
    \/ \E b \in Backlogs : InUnthrottle(b)

Spec == InInit /\ [][InNext]_InVars
=============================================================================
