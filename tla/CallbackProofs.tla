--------------------------- MODULE CallbackProofs ---------------------------
(***************************************************************************)
(* The callback queue for any contexts, any idempotent callbacks and any   *)
(* number of callbacks queued.                                             *)
(***************************************************************************)
EXTENDS Callback, SequenceTheorems, TLAPS

(* The queue and what has been run, in the order of queueing: FifoOnce     *)
(* without the concatenation.                                              *)
Ordered ==
    /\ \A i, j \in 1..Len(cbq) : i < j => cbq[i].id < cbq[j].id
    /\ \A i, j \in 1..Len(ran) : i < j => ran[i] < ran[j]
    /\ \A i \in 1..Len(ran), j \in 1..Len(cbq) : ran[i] < cbq[j].id
    /\ \A i \in 1..Len(ran) : ran[i] <= nqueued
    /\ \A j \in 1..Len(cbq) : cbq[j].id <= nqueued

(* The flags of an idempotent callback whose context is alive: a request   *)
(* that waits is in the queue, once.                                       *)
Once ==
    /\ \A ic \in Ic : ICtx[ic] \in live => (queued[ic] <=> InQueue(ic))
    /\ \A i, j \in 1..Len(cbq) :
           cbq[i].ctx \in Ic /\ cbq[i].ctx = cbq[j].ctx => i = j
    /\ \A ic \in Ic : request[ic] /\ ICtx[ic] \in live => queued[ic]

Inv == TypeOK /\ NoDeadContext /\ Ordered /\ Once
-----------------------------------------------------------------------------
(* What delete_callbacks_for_context leaves of a list: places in K only,   *)
(* all of them, in their order.                                            *)
LEMMA Unlinked ==
    ASSUME NEW S, NEW q \in Seq(S), NEW K \in SUBSET (1..Len(q)),
           NEW r \in Unlink(q, K)
    PROVE  /\ r \in Seq(S)
           /\ \E f \in [1..Len(r) -> K] :
                 /\ \A i \in 1..Len(r) : r[i] = q[f[i]]
                 /\ \A i, j \in 1..Len(r) : i < j => f[i] < f[j]
                 /\ \A k \in K : \E i \in 1..Len(r) : f[i] = k
  <1>1. PICK f \in UNION {[1..n -> K] : n \in 0..Len(q)} :
           /\ r = [j \in DOMAIN f |-> q[f[j]]]
           /\ \A i, j \in DOMAIN f : i < j => f[i] < f[j]
           /\ \A k \in K : \E i \in DOMAIN f : f[i] = k
    BY Zenon DEF Unlink
  <1>2. PICK n \in 0..Len(q) : f \in [1..n -> K]
    BY <1>1, Zenon
  <1>3. n \in Nat /\ DOMAIN f = 1..n /\ \A j \in 1..n : f[j] \in 1..Len(q)
    <2>1. Len(q) \in Nat
      OBVIOUS
    <2>2. DOMAIN f = 1..n /\ \A j \in 1..n : f[j] \in K
      BY <1>2
    <2>3. n \in Nat
      BY <2>1
    <2> QED
      BY <2>2, <2>3, Zenon
  <1>4. r = [j \in 1..n |-> q[f[j]]] /\ \A j \in 1..n : q[f[j]] \in S
    BY <1>1, <1>3, ElementOfSeq
  <1>5. r \in Seq(S) /\ Len(r) = n
    BY <1>3, <1>4
  <1> QED
    BY <1>1, <1>2, <1>3, <1>4, <1>5

(* The queue begins empty.                                                 *)
LEMMA InitInv == Init => Inv
  BY MaxQueuedAssumption
     DEF Init, Inv, TypeOK, NoDeadContext, Ordered, Once, InQueue

(* queue_toplevel_callback, for a plain callback or an idempotent one that *)
(* is not in the queue.                                                    *)
LEMMA QueueInv ==
    ASSUME Inv, NEW c \in Ctx \cup Ic, queue_toplevel_callback(c),
           UNCHANGED <<cbcurr, live, ran>>, queued' \in [Ic -> BOOLEAN],
           request' \in [Ic -> BOOLEAN],
           (IF c \in Ic THEN ICtx[c] ELSE c) \in live,
           c \in Ic => ~queued[c] /\ queued'[c],
           \A ic \in Ic : ic # c => queued'[ic] = queued[ic]
                                    /\ request'[ic] = request[ic]
    PROVE  Inv'
  <1>0. /\ TypeOK /\ NoDeadContext /\ Ordered /\ Once
        /\ cbq \in Seq(Callbacks) /\ nqueued \in Nat /\ Len(cbq) \in Nat
    BY MaxQueuedAssumption DEF Inv, TypeOK
  <1>1. PICK cb : cb = [id |-> nqueued + 1, ctx |-> c]
    OBVIOUS
  <1>2. /\ cb \in Callbacks /\ cb.id = nqueued + 1 /\ cb.ctx = c
        /\ nqueued' = nqueued + 1 /\ nqueued' \in 0..MaxQueued
        /\ cbq' = Append(cbq, cb)
    BY <1>0, <1>1, MaxQueuedAssumption DEF queue_toplevel_callback, Callbacks
  <1>3. /\ cbq' \in Seq(Callbacks) /\ Len(cbq') = Len(cbq) + 1
        /\ cbq'[Len(cbq) + 1] = cb
        /\ \A i \in 1..Len(cbq) : cbq'[i] = cbq[i]
    BY <1>0, <1>2, AppendProperties
  <1>4. \A i \in 1..Len(cbq') : \/ i \in 1..Len(cbq) /\ cbq'[i] = cbq[i]
                                \/ i = Len(cbq) + 1 /\ cbq'[i] = cb
    BY <1>0, <1>3
  <1>5. TypeOK'
    BY <1>0, <1>2, <1>3 DEF TypeOK
  <1>6. NoDeadContext'
    BY <1>0, <1>2, <1>4 DEF NoDeadContext, CtxOf
  <1>7. Ordered'
    <2>1. /\ \A i \in 1..Len(cbq) : cbq[i].id \in Nat /\ cbq[i].id <= nqueued
          /\ \A i \in 1..Len(ran) : ran[i] \in Nat /\ ran[i] <= nqueued
      <3>1. \A i \in 1..Len(cbq) : cbq[i] \in Callbacks
        BY <1>0, ElementOfSeq
      <3>2. ran \in Seq(1..MaxQueued)
        BY <1>0 DEF TypeOK
      <3>3. \A i \in 1..Len(ran) : ran[i] \in 1..MaxQueued
        BY <3>2, ElementOfSeq
      <3>4. \A i \in 1..Len(cbq) : cbq[i].id \in Nat
        BY <3>1 DEF Callbacks
      <3>5. \A i \in 1..Len(cbq) : cbq[i].id <= nqueued
        BY <1>0 DEF Ordered
      <3>6. \A i \in 1..Len(ran) : ran[i] <= nqueued
        BY <1>0 DEF Ordered
      <3>7. \A i \in 1..Len(ran) : ran[i] \in Nat
        BY <3>3
      <3> QED
        BY <3>4, <3>5, <3>6, <3>7
    <2> QED
      BY <1>0, <1>2, <1>4, <2>1 DEF Ordered
  <1>8. Once'
    <2>1. \A ic \in Ic : InQueue(ic)' <=> InQueue(ic) \/ ic = c
      BY <1>0, <1>2, <1>3, <1>4 DEF InQueue
    <2>2. c \in Ic => \A i \in 1..Len(cbq) : cbq[i].ctx # c
      BY <1>0 DEF Once, InQueue
    <2>3. \A i, j \in 1..Len(cbq') :
             cbq'[i].ctx \in Ic /\ cbq'[i].ctx = cbq'[j].ctx => i = j
      BY <1>0, <1>2, <1>4, <2>2 DEF Once
    <2> QED
      BY <1>0, <2>1, <2>3 DEF Once
  <1> QED
    BY <1>5, <1>6, <1>7, <1>8 DEF Inv

(* Deleting the callbacks of a context that goes.                          *)
LEMMA DeleteInv ==
    ASSUME Inv, NEW c \in Ctx, delete_callbacks_for_context(c)
    PROVE  Inv'
  <1>0. /\ TypeOK /\ NoDeadContext /\ Ordered /\ Once
        /\ cbq \in Seq(Callbacks) /\ Len(cbq) \in Nat
    BY DEF Inv, TypeOK
  <1>1. PICK K \in SUBSET (1..Len(cbq)) :
           /\ \A i \in 1..Len(cbq) : i \in K <=> CtxOf(cbq[i]) # c
           /\ cbq' \in Unlink(cbq, K)
    BY DEF delete_callbacks_for_context
  <1>2. /\ cbq' \in Seq(Callbacks) /\ Len(cbq') \in Nat
        /\ \E f \in [1..Len(cbq') -> K] :
              /\ \A i \in 1..Len(cbq') : cbq'[i] = cbq[f[i]]
              /\ \A i, j \in 1..Len(cbq') : i < j => f[i] < f[j]
              /\ \A k \in K : \E i \in 1..Len(cbq') : f[i] = k
    BY <1>0, <1>1, Unlinked, SMTT(30)
  <1>3. PICK f \in [1..Len(cbq') -> K] :
              /\ \A i \in 1..Len(cbq') : cbq'[i] = cbq[f[i]]
              /\ \A i, j \in 1..Len(cbq') : i < j => f[i] < f[j]
              /\ \A k \in K : \E i \in 1..Len(cbq') : f[i] = k
    BY <1>2
  <1>4. /\ live' = live \ {c} /\ cbcurr' = cbcurr /\ queued' = queued
        /\ nqueued' = nqueued /\ request' = request /\ ran' = ran
    BY DEF delete_callbacks_for_context
  <1>5. \A i \in 1..Len(cbq') :
            f[i] \in K /\ f[i] \in 1..Len(cbq) /\ CtxOf(cbq[f[i]]) # c
    BY <1>1, <1>3
  <1>6. TypeOK'
    BY <1>0, <1>2, <1>4 DEF TypeOK
  <1>7. NoDeadContext'
    BY <1>0, <1>3, <1>4, <1>5 DEF NoDeadContext, CtxOf
  <1>8. Ordered'
    <2>1. ASSUME NEW i \in 1..Len(cbq'), NEW j \in 1..Len(cbq'), i < j
          PROVE  cbq'[i].id < cbq'[j].id
      <3>1. f[i] < f[j] /\ f[i] \in 1..Len(cbq) /\ f[j] \in 1..Len(cbq)
        BY <1>3, <1>5, <2>1
      <3>2. cbq[f[i]].id < cbq[f[j]].id
        BY <1>0, <3>1 DEF Ordered
      <3> QED
        BY <1>3, <3>2
    <2>2. ASSUME NEW i \in 1..Len(ran), NEW j \in 1..Len(cbq')
          PROVE  ran[i] < cbq'[j].id
      BY <1>0, <1>3, <1>5 DEF Ordered
    <2>3. ASSUME NEW j \in 1..Len(cbq') PROVE cbq'[j].id <= nqueued
      BY <1>0, <1>3, <1>5 DEF Ordered
    <2>4. /\ \A i, j \in 1..Len(ran) : i < j => ran[i] < ran[j]
          /\ \A i \in 1..Len(ran) : ran[i] <= nqueued
      BY <1>0 DEF Ordered
    <2> QED
      BY <1>4, <2>1, <2>2, <2>3, <2>4 DEF Ordered
  <1>9. Once'
    <2>1. \A ic \in Ic : ICtx[ic] # c => (InQueue(ic)' <=> InQueue(ic))
      <3> SUFFICES ASSUME NEW ic \in Ic, ICtx[ic] # c
                   PROVE  InQueue(ic)' <=> InQueue(ic)
        OBVIOUS
      <3>1. InQueue(ic)' => InQueue(ic)
        BY <1>3, <1>5 DEF InQueue
      <3>2. ASSUME NEW k \in 1..Len(cbq), cbq[k].ctx = ic
            PROVE  \E i \in 1..Len(cbq') : cbq'[i].ctx = ic
        <4>1. k \in K
          BY <1>1, <3>2 DEF CtxOf
        <4> QED
          BY <1>3, <3>2, <4>1
      <3> QED
        BY <3>1, <3>2 DEF InQueue
    <2>2. ASSUME NEW i \in 1..Len(cbq'), NEW j \in 1..Len(cbq'),
                 cbq'[i].ctx \in Ic, cbq'[i].ctx = cbq'[j].ctx
          PROVE  i = j
      <3>1. f[i] = f[j]
        BY <1>0, <1>3, <1>5, <2>2 DEF Once
      <3>2. f[i] \in Nat /\ f[j] \in Nat /\ ~(f[i] < f[j]) /\ ~(f[j] < f[i])
        BY <1>0, <1>5, <3>1
      <3>3. ~(i < j) /\ ~(j < i)
        BY <1>3, <3>2
      <3> QED
        BY <1>2, <3>3
    <2> QED
      BY <1>0, <1>4, <2>1, <2>2 DEF Once
  <1> QED
    BY <1>6, <1>7, <1>8, <1>9 DEF Inv

(* run_toplevel_callbacks takes the head of the queue.                     *)
LEMMA RunBeginInv ==
    ASSUME Inv, RunBegin
    PROVE  Inv'
  <1>0. /\ TypeOK /\ NoDeadContext /\ Ordered /\ Once
        /\ cbq \in Seq(Callbacks) /\ Len(cbq) \in Nat
        /\ ran \in Seq(1..MaxQueued) /\ Len(ran) \in Nat
    BY DEF Inv, TypeOK
  <1>1. PICK hd, tl : hd = Head(cbq) /\ tl = Tail(cbq)
    OBVIOUS
  <1>2. /\ cbq # << >> /\ cbcurr' = <<hd>> /\ cbq' = tl
        /\ ran' = Append(ran, hd.id) /\ live' = live /\ nqueued' = nqueued
        /\ hd.ctx \in Ic => /\ queued' = [queued EXCEPT ![hd.ctx] = FALSE]
                            /\ request' = [request EXCEPT ![hd.ctx] = FALSE]
        /\ hd.ctx \notin Ic => queued' = queued /\ request' = request
    BY <1>1 DEF RunBegin
  <1>3. /\ hd \in Callbacks /\ hd = cbq[1] /\ 1 \in 1..Len(cbq)
        /\ tl \in Seq(Callbacks) /\ Len(tl) \in Nat
        /\ \A i \in 1..Len(tl) : i + 1 \in 1..Len(cbq) /\ tl[i] = cbq[i + 1]
        /\ \A i \in 1..Len(cbq) : i = 1 \/ i - 1 \in 1..Len(tl)
    BY <1>0, <1>1, <1>2, HeadTailProperties, EmptySeq
  <1>4. /\ ran' \in Seq(1..MaxQueued) /\ Len(ran') = Len(ran) + 1
        /\ ran'[Len(ran) + 1] = hd.id
        /\ \A i \in 1..Len(ran) : ran'[i] = ran[i]
    <2>1. hd.id \in 1..MaxQueued
      BY <1>3 DEF Callbacks
    <2> QED
      BY <1>0, <1>2, <2>1, AppendProperties
  <1>5. TypeOK'
    <2>1. cbcurr' \in Seq(Callbacks) /\ Len(cbcurr') <= 1
      BY <1>2, <1>3
    <2>2. queued' \in [Ic -> BOOLEAN] /\ request' \in [Ic -> BOOLEAN]
      BY <1>0, <1>2 DEF TypeOK
    <2> QED
      BY <1>0, <1>2, <1>3, <1>4, <2>1, <2>2 DEF TypeOK
  <1>6. NoDeadContext'
    BY <1>0, <1>2, <1>3 DEF NoDeadContext, CtxOf
  <1>7. Ordered'
    <2>1. \A i \in 1..Len(ran') : \/ i \in 1..Len(ran) /\ ran'[i] = ran[i]
                                  \/ i = Len(ran) + 1 /\ ran'[i] = hd.id
      BY <1>0, <1>4
    <2>2. \A j \in 1..Len(tl) : hd.id < tl[j].id
      BY <1>0, <1>3 DEF Ordered
    <2>3. \A i, j \in 1..Len(tl) : i < j => tl[i].id < tl[j].id
      <3> TAKE i, j \in 1..Len(tl)
      <3>1. i < j => i + 1 < j + 1
        BY <1>3
      <3> QED
        BY <1>0, <1>3, <3>1 DEF Ordered
    <2>4. \A i \in 1..Len(ran), j \in 1..Len(tl) : ran[i] < tl[j].id
      BY <1>0, <1>3 DEF Ordered
    <2>5. \A j \in 1..Len(tl) : tl[j].id <= nqueued
      BY <1>0, <1>3 DEF Ordered
    <2>6. \A i \in 1..Len(ran) : ran[i] < hd.id
      BY <1>0, <1>3 DEF Ordered
    <2>7. \A i, j \in 1..Len(ran') : i < j => ran'[i] < ran'[j]
      BY <1>0, <2>1, <2>6 DEF Ordered
    <2> QED
      BY <1>0, <1>2, <1>3, <2>1, <2>2, <2>3, <2>4, <2>5, <2>7 DEF Ordered
  <1>8. Once'
    <2>1. \A i, j \in 1..Len(tl) :
             tl[i].ctx \in Ic /\ tl[i].ctx = tl[j].ctx => i = j
      <3> TAKE i, j \in 1..Len(tl)
      <3>1. i + 1 = j + 1 => i = j
        BY <1>3
      <3> QED
        BY <1>0, <1>3, <3>1, SMTT(30) DEF Once
    <2>2. \A ic \in Ic : InQueue(ic)' <=> InQueue(ic) /\ ic # hd.ctx
      <3> SUFFICES ASSUME NEW ic \in Ic
                   PROVE  InQueue(ic)' <=> InQueue(ic) /\ ic # hd.ctx
        OBVIOUS
      <3>1. ASSUME NEW j \in 1..Len(tl), tl[j].ctx = ic
            PROVE  InQueue(ic) /\ ic # hd.ctx
        <4>1. j + 1 # 1
          BY <1>3
        <4> QED
          BY <1>0, <1>3, <3>1, <4>1 DEF Once, InQueue
      <3>2. ASSUME NEW i \in 1..Len(cbq), cbq[i].ctx = ic, ic # hd.ctx
            PROVE  \E j \in 1..Len(tl) : tl[j].ctx = ic
        <4>1. i - 1 \in 1..Len(tl) /\ (i - 1) + 1 = i
          BY <1>3, <3>2
        <4> QED
          BY <1>3, <3>2, <4>1
      <3> QED
        BY <1>2, <3>1, <3>2 DEF InQueue
    <2>3. \A ic \in Ic : /\ queued'[ic] <=> queued[ic] /\ ic # hd.ctx
                         /\ request'[ic] <=> request[ic] /\ ic # hd.ctx
      BY <1>0, <1>2 DEF TypeOK
    <2> QED
      BY <1>0, <1>2, <2>1, <2>2, <2>3 DEF Once
  <1> QED
    BY <1>5, <1>6, <1>7, <1>8 DEF Inv

(* Every step preserves the invariant.                                     *)
LEMMA NextInv == Inv /\ [Next]_vars => Inv'
  <1> SUFFICES ASSUME Inv, [Next]_vars PROVE Inv'
    OBVIOUS
  <1>0. TypeOK /\ Once /\ live \in SUBSET Ctx
    BY DEF Inv, TypeOK
  <1>1. ASSUME NEW c \in Ctx, QueueCallback(c) PROVE Inv'
    <2>1. c \notin Ic /\ c \in Ctx \cup Ic
      BY IcAssumption
    <2>2. /\ c \in live /\ queue_toplevel_callback(c) /\ queued' = queued
          /\ request' = request /\ UNCHANGED <<cbcurr, live, ran>>
      BY <1>1 DEF QueueCallback
    <2>3. queued' \in [Ic -> BOOLEAN] /\ request' \in [Ic -> BOOLEAN]
      BY <1>0, <2>2 DEF TypeOK
    <2> QED
      BY <2>1, <2>2, <2>3, QueueInv
  <1>2. ASSUME NEW ic \in Ic, queue_idempotent_callback(ic) PROVE Inv'
    <2>1. CASE queued[ic]
      <3>1. /\ ICtx[ic] \in live /\ request' = [request EXCEPT ![ic] = TRUE]
            /\ UNCHANGED <<cbq, queued, nqueued, cbcurr, live, ran>>
        BY <1>2, <2>1 DEF queue_idempotent_callback
      <3>2. TypeOK' /\ NoDeadContext' /\ Ordered'
        BY <3>1 DEF Inv, TypeOK, NoDeadContext, Ordered
      <3>3. \A jc \in Ic : InQueue(jc)' <=> InQueue(jc)
        BY <3>1 DEF InQueue
      <3>4. Once'
        BY <1>0, <2>1, <3>1, <3>3 DEF Once, TypeOK
      <3> QED
        BY <3>2, <3>4 DEF Inv
    <2>2. CASE ~queued[ic]
      <3>1. /\ ICtx[ic] \in live /\ request' = [request EXCEPT ![ic] = TRUE]
            /\ queued' = [queued EXCEPT ![ic] = TRUE]
            /\ queue_toplevel_callback(ic) /\ UNCHANGED <<cbcurr, live, ran>>
        BY <1>2, <2>2 DEF queue_idempotent_callback
      <3>2. /\ queued' \in [Ic -> BOOLEAN] /\ request' \in [Ic -> BOOLEAN]
            /\ queued'[ic]
            /\ \A jc \in Ic : jc # ic => queued'[jc] = queued[jc]
                                         /\ request'[jc] = request[jc]
        BY <1>0, <3>1 DEF TypeOK
      <3> QED
        BY <2>2, <3>1, <3>2, QueueInv
    <2> QED
      BY <2>1, <2>2
  <1>3. CASE RunEnd
    <2>1. /\ cbcurr' = << >>
          /\ UNCHANGED <<cbq, queued, live, nqueued, request, ran>>
      BY <1>3 DEF RunEnd
    <2>2. << >> \in Seq(Callbacks) /\ Len(<< >>) <= 1
      OBVIOUS
    <2> QED
      BY <2>1, <2>2 DEF Inv, TypeOK, NoDeadContext, Ordered, Once, InQueue
  <1>4. CASE UNCHANGED vars
    BY <1>4 DEF vars, Inv, TypeOK, NoDeadContext, Ordered, Once, InQueue
  <1> QED
    BY <1>1, <1>2, <1>3, <1>4, DeleteInv, RunBeginInv DEF Next

LEMMA Invariance == Spec => []Inv
  BY InitInv, NextInv, PTL DEF Spec
-----------------------------------------------------------------------------
(* Type correctness of the queue and of the idempotent callbacks.          *)
THEOREM TypeCorrect == Spec => []TypeOK
  <1>1. Inv => TypeOK
    BY DEF Inv
  <1> QED
    BY <1>1, Invariance, PTL

(* A context that has called delete_callbacks_for_context is in the queue  *)
(* no more, neither as cb->ctx nor behind an idempotent callback.          *)
THEOREM NoCallbackOfTheDead == Spec => []NoDeadContext
  <1>1. Inv => NoDeadContext
    BY DEF Inv
  <1> QED
    BY <1>1, Invariance, PTL

(* Callbacks run in order and once, an idempotent callback is queued at    *)
(* most once, and no request for one is swallowed.                         *)
THEOREM QueueIsKept == Spec => []QueueKept
  <1>1. Inv => QueueKept
    <2> SUFFICES ASSUME Inv PROVE QueueKept
      OBVIOUS
    <2>1. /\ Ordered /\ Once /\ cbq \in Seq(Callbacks) /\ Len(cbq) \in Nat
          /\ ran \in Seq(1..MaxQueued) /\ Len(ran) \in Nat
      BY DEF Inv, TypeOK
    <2>2. IdempotentOnce /\ NoLostRequest
      BY <2>1 DEF IdempotentOnce, NoLostRequest, Once
    <2>3. FifoOnce
      <3>1. PICK ids : ids = [i \in 1..Len(cbq) |-> cbq[i].id]
        OBVIOUS
      <3>2. \A i \in 1..Len(cbq) : cbq[i].id \in 1..MaxQueued
        <4>1. \A i \in 1..Len(cbq) : cbq[i] \in Callbacks
          BY <2>1, ElementOfSeq
        <4> QED
          BY <4>1 DEF Callbacks
      <3>3. /\ ids \in Seq(1..MaxQueued) /\ Len(ids) = Len(cbq)
            /\ \A i \in 1..Len(cbq) : ids[i] = cbq[i].id
        <4>1. PICK n \in Nat : n = Len(cbq)
          BY <2>1
        <4>2. PICK g : g = [i \in 1..n |-> cbq[i].id]
          OBVIOUS
        <4>3. \A i \in 1..n : g[i] = cbq[i].id /\ g[i] \in 1..MaxQueued
          BY <3>2, <4>1, <4>2
        <4>4. g \in Seq(1..MaxQueued) /\ Len(g) = n
          BY <3>2, <4>1, <4>2
        <4> QED
          BY <3>1, <4>1, <4>2, <4>3, <4>4
      <3>4. PICK all : all = ran \o ids
        OBVIOUS
      <3>5. /\ Len(all) = Len(ran) + Len(cbq)
            /\ \A i \in 1..Len(all) :
                   all[i] = IF i <= Len(ran) THEN ran[i] ELSE ids[i - Len(ran)]
        <4>1. /\ Len(ran \o ids) = Len(ran) + Len(ids)
              /\ \A i \in 1..(Len(ran) + Len(ids)) :
                     (ran \o ids)[i] = IF i <= Len(ran) THEN ran[i]
                                       ELSE ids[i - Len(ran)]
          BY <2>1, <3>3, ConcatProperties, Zenon
        <4> QED
          BY <3>3, <3>4, <4>1, Zenon
      <3>6. \A i \in 1..Len(all) :
               \/ i \in 1..Len(ran) /\ all[i] = ran[i]
               \/ /\ i > Len(ran) /\ i - Len(ran) \in 1..Len(cbq)
                  /\ all[i] = cbq[i - Len(ran)].id
        <4>1. PICK m \in Nat : m = Len(ran)
          BY <2>1
        <4>2. PICK n \in Nat : n = Len(cbq)
          BY <2>1
        <4>3. SUFFICES ASSUME NEW i \in 1..(m + n)
              PROVE  \/ i \in 1..m /\ all[i] = ran[i]
                     \/ i > m /\ i - m \in 1..n /\ all[i] = cbq[i - m].id
          BY <3>5, <4>1, <4>2
        <4>4. all[i] = IF i <= m THEN ran[i] ELSE ids[i - m]
          BY <3>5, <4>1, <4>2
        <4>5. CASE i <= m
          BY <4>4, <4>5
        <4>6. CASE i > m
          <5>1. i - m \in 1..n
            BY <4>6
          <5>2. ids[i - m] = cbq[i - m].id
            BY <3>3, <4>2, <5>1
          <5> QED
            BY <4>4, <4>6, <5>1, <5>2
        <4> QED
          BY <4>5, <4>6
      <3>7. ASSUME NEW i \in 1..Len(all), NEW j \in 1..Len(all), i < j
            PROVE  all[i] < all[j]
        <4>1. CASE i \in 1..Len(ran)
          BY <2>1, <3>6, <3>7, <4>1 DEF Ordered
        <4>2. CASE i > Len(ran)
          <5>1. /\ i - Len(ran) \in 1..Len(cbq) /\ j - Len(ran) \in 1..Len(cbq)
                /\ i - Len(ran) < j - Len(ran)
                /\ all[i] = cbq[i - Len(ran)].id /\ all[j] = cbq[j - Len(ran)].id
            BY <2>1, <3>5, <3>6, <3>7, <4>2
          <5> QED
            BY <2>1, <5>1 DEF Ordered
        <4> QED
          BY <2>1, <3>6, <4>1, <4>2
      <3> QED
        BY <3>1, <3>4, <3>7 DEF FifoOnce
    <2> QED
      BY <2>2, <2>3 DEF QueueKept
  <1> QED
    BY <1>1, Invariance, PTL
=============================================================================
