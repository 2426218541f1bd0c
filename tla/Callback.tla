------------------------------ MODULE Callback ------------------------------
(***************************************************************************)
(* callback.c: the queue of top-level callbacks that the main loops        *)
(* (windows/window.c, windows/cliloop.c) drain one at a time, with the     *)
(* idempotent callbacks on which the SSH packet protocol layers run.       *)
(*                                                                         *)
(* The program is single-threaded, but a callback may queue others, queue  *)
(* itself again, and delete the callbacks of contexts it is about to free, *)
(* its own among them; so a running callback is a state (cbcurr) in which  *)
(* every other operation may happen.                                       *)
(***************************************************************************)
EXTENDS Integers, Sequences

CONSTANTS
    Ctx,            \* contexts: objects that own callbacks
    Ic,             \* struct IdempotentCallback instances
    ICtx,           \* ICtx[ic] is ic->ctx
    MaxQueued       \* bound: callbacks ever queued

ASSUME IcAssumption == ICtx \in [Ic -> Ctx] /\ Ic \cap Ctx = {}
ASSUME MaxQueuedAssumption == MaxQueued \in Nat

VARIABLES
    cbq,        \* the list from cbhead to cbtail
    cbcurr,     \* <<cb>> while the callback cb runs, else << >>
    queued,     \* queued[ic] is ic->queued
    live,       \* the contexts that have not been freed
    nqueued,    \* callbacks queued so far: names the next one
    request,    \* request[ic]: ic was queued since it last started to run
    ran         \* the callbacks run so far, in order

vars == <<cbq, cbcurr, queued, live, nqueued, request, ran>>

(* A callback is numbered in the order of queueing; its cb->ctx is a       *)
(* context, or an ic when its cb->fn is run_idempotent_callback.           *)
Callbacks == [id : 1..MaxQueued, ctx : Ctx \cup Ic]

CtxOf(cb) == IF cb.ctx \in Ic THEN ICtx[cb.ctx] ELSE cb.ctx

Init ==
    /\ cbq = << >>
    /\ cbcurr = << >>
    /\ queued = [ic \in Ic |-> FALSE]
    /\ live = Ctx
    /\ nqueued = 0
    /\ request = [ic \in Ic |-> FALSE]
    /\ ran = << >>
-----------------------------------------------------------------------------
queue_toplevel_callback(c) ==
    /\ nqueued < MaxQueued
    /\ nqueued' = nqueued + 1
    /\ cbq' = Append(cbq, [id |-> nqueued + 1, ctx |-> c])

QueueCallback(c) ==
    /\ c \in live
    /\ queue_toplevel_callback(c)
    /\ UNCHANGED <<cbcurr, queued, live, request, ran>>

queue_idempotent_callback(ic) ==
    /\ ICtx[ic] \in live
    /\ request' = [request EXCEPT ![ic] = TRUE]
    /\ IF queued[ic]
       THEN UNCHANGED <<cbq, queued, nqueued>>
       ELSE /\ queued' = [queued EXCEPT ![ic] = TRUE]
            /\ queue_toplevel_callback(ic)
    /\ UNCHANGED <<cbcurr, live, ran>>

(* The list q without the elements outside the places in K: the places     *)
(* left, f, are those of K in their order.  There is one such list.        *)
Unlink(q, K) ==
    {[j \in DOMAIN f |-> q[f[j]]] :
        f \in {g \in UNION {[1..n -> K] : n \in 0..Len(q)} :
                 /\ \A i, j \in DOMAIN g : i < j => g[i] < g[j]
                 /\ \A k \in K : \E i \in DOMAIN g : g[i] = k}}

(* delete_callbacks_for_context that compares cb->ctx only, and so misses  *)
(* the idempotent callbacks of the context.                                *)
delete_callbacks_plain_only(c) ==
    /\ c \in live
    /\ cbq' \in Unlink(cbq, {i \in 1..Len(cbq) : cbq[i].ctx # c})
    /\ live' = live \ {c}
    /\ UNCHANGED <<cbcurr, queued, nqueued, request, ran>>

(* Contexts delete their callbacks just before they are freed.  The list   *)
(* is all that changes: ic->queued keeps its value.                        *)
delete_callbacks_for_context(c) ==
    /\ c \in live
    /\ cbq' \in Unlink(cbq, {i \in 1..Len(cbq) : CtxOf(cbq[i]) # c})
    /\ live' = live \ {c}
    /\ UNCHANGED <<cbcurr, queued, nqueued, request, ran>>

(* run_toplevel_callbacks that stops when it comes to the tail.            *)
RunBegin_leaves_tail ==
    /\ cbcurr = << >>
    /\ Len(cbq) > 1
    /\ cbcurr' = <<Head(cbq)>>
    /\ cbq' = Tail(cbq)
    /\ ran' = Append(ran, Head(cbq).id)
    /\ LET ic == Head(cbq).ctx
       IN  IF ic \in Ic
           THEN /\ queued' = [queued EXCEPT ![ic] = FALSE]
                /\ request' = [request EXCEPT ![ic] = FALSE]
           ELSE UNCHANGED <<queued, request>>
    /\ UNCHANGED <<live, nqueued>>

(* run_idempotent_callback that clears `queued' only when fn returns.      *)
RunBegin_queued_stays ==
    /\ cbcurr = << >>
    /\ cbq # << >>
    /\ cbcurr' = <<Head(cbq)>>
    /\ cbq' = Tail(cbq)
    /\ ran' = Append(ran, Head(cbq).id)
    /\ LET ic == Head(cbq).ctx
       IN  IF ic \in Ic
           THEN request' = [request EXCEPT ![ic] = FALSE]
           ELSE UNCHANGED request
    /\ UNCHANGED <<queued, live, nqueued>>

(* run_toplevel_callbacks up to the call of fn, and run_idempotent_        *)
(* callback up to the call of its own.                                     *)
RunBegin ==
    /\ cbcurr = << >>
    /\ cbq # << >>
    /\ cbcurr' = <<Head(cbq)>>
    /\ cbq' = Tail(cbq)
    /\ ran' = Append(ran, Head(cbq).id)
    /\ LET ic == Head(cbq).ctx
       IN  IF ic \in Ic
           THEN /\ queued' = [queued EXCEPT ![ic] = FALSE]
                /\ request' = [request EXCEPT ![ic] = FALSE]
           ELSE UNCHANGED <<queued, request>>
    /\ UNCHANGED <<live, nqueued>>

(* fn has returned.                                                        *)
RunEnd ==
    /\ cbcurr # << >>
    /\ cbcurr' = << >>
    /\ UNCHANGED <<cbq, queued, live, nqueued, request, ran>>

Next ==
    \/ \E c \in Ctx : QueueCallback(c) \/ delete_callbacks_for_context(c)
    \/ \E ic \in Ic : queue_idempotent_callback(ic)
    \/ RunBegin \/ RunEnd

(* Both main loops poll instead of waiting while toplevel_callback_pending *)
(* and run a callback in every iteration; callbacks return.                *)
Spec == Init /\ [][Next]_vars /\ WF_vars(RunBegin) /\ WF_vars(RunEnd)
-----------------------------------------------------------------------------
TypeOK ==
    /\ cbq \in Seq(Callbacks)
    /\ cbcurr \in Seq(Callbacks) /\ Len(cbcurr) <= 1
    /\ queued \in [Ic -> BOOLEAN]
    /\ live \subseteq Ctx
    /\ nqueued \in 0..MaxQueued
    /\ request \in [Ic -> BOOLEAN]
    /\ ran \in Seq(1..MaxQueued)

InQueue(ic) == \E i \in 1..Len(cbq) : cbq[i].ctx = ic

(* After delete_callbacks_for_context, called from wherever, nothing in    *)
(* the queue leads to the freed context, directly or through an ic.        *)
NoDeadContext == \A i \in 1..Len(cbq) : CtxOf(cbq[i]) \in live

(* ic->queued tells the truth for as long as it matters, so an idempotent  *)
(* callback is never in the queue twice.                                   *)
IdempotentOnce ==
    \A ic \in Ic :
        /\ ICtx[ic] \in live => (queued[ic] <=> InQueue(ic))
        /\ \A i, j \in 1..Len(cbq) :
               cbq[i].ctx = ic /\ cbq[j].ctx = ic => i = j

(* A request made while the callback runs is not swallowed: whoever queues *)
(* an idempotent callback gets a run that starts later.                    *)
NoLostRequest ==
    \A ic \in Ic : request[ic] /\ ICtx[ic] \in live => InQueue(ic)

(* Callbacks run in the order of queueing, each at most once, and the one  *)
(* that is running is out of reach of delete_callbacks_for_context, which  *)
(* would free it under run_toplevel_callbacks.                             *)
FifoOnce ==
    LET all == ran \o [i \in 1..Len(cbq) |-> cbq[i].id]
    IN  \A i, j \in 1..Len(all) : i < j => all[i] < all[j]

(* The queue as its clients count on it: in order, nothing twice, nothing  *)
(* swallowed, however callbacks queue and delete callbacks.                *)
QueueKept == FifoOnce /\ IdempotentOnce /\ NoLostRequest

(* Every callback is run, or deleted because its context goes.             *)
EventuallyRun ==
    \A n \in 1..MaxQueued :
        (nqueued >= n) ~> (\A i \in 1..Len(cbq) : cbq[i].id # n)
=============================================================================
