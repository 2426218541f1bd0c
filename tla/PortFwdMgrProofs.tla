-------------------------- MODULE PortFwdMgrProofs --------------------------
(***************************************************************************)
(* Port forwarding for any configurations, any number of messages under    *)
(* way and any server of the model, in every order of events: where the    *)
(* code goes wrong the model stops, and the invariant says of each fault   *)
(* what led to it.                                                         *)
(***************************************************************************)
EXTENDS PortFwdMgr, SequenceTheorems, FiniteSetTheorems, WellFoundedInduction, TLAPS

(* s lists the ports of the messages of q whose types are in T, in order:  *)
(* f gives their places.                                                   *)
Lists(q, T, s) ==
    \E f \in [1..Len(s) -> 1..Len(q)] :
        /\ \A i, j \in 1..Len(s) : i < j => f[i] < f[j]
        /\ \A i \in 1..Len(s) : q[f[i]].type \in T /\ q[f[i]].port = s[i]
        /\ \A k \in 1..Len(q) : q[k].type \in T => \E i \in 1..Len(s) : f[i] = k

Answers == {"success", "failure"}
Requests == {"tcpip-forward"}

PortsOf(g) == [i \in 1..Len(g) |-> Port(g[i])]

(* a and b are the ports of the answers and of the requests under way.     *)
Pending(a, b) ==
    /\ Lists(toClient, Answers, a)
    /\ Lists(toServer, Requests, b)
    /\ a \o b = PortsOf(globreq)

(* RequestsMatchReplies, without counting.                                 *)
Matched == \E a, b \in Seq(Ports) : Pending(a, b)

(* m is in q; the members of q differ; in q, x comes before y.             *)
In(q, m) == \E i \in 1..Len(q) : q[i] = m
Distinct(q) == \A i, j \in 1..Len(q) : q[i] = q[j] => i = j
Before(q, x, y) == \A i, j \in 1..Len(q) : q[i] = x /\ q[j] = y => i < j

(* Requests and records are those of the configurations so far.            *)
Numbered ==
    /\ Distinct(globreq)
    /\ \A i \in 1..Len(globreq) : globreq[i][2] <= nconfig
    /\ \A r \in rpfs : r[2] <= nconfig

(* Every request that waits for its answer still has its record.  Once one *)
(* has lost it, its answer is the last that is looked at.                  *)
Recorded == \A i \in 1..Len(globreq) : globreq[i] \in rpfs

Forward(p) == [type |-> "tcpip-forward", port |-> p]
Cancel(p) == [type |-> "cancel-tcpip-forward", port |-> p]
Failure(p) == [type |-> "failure", port |-> p]
Forwarded(p) == [type |-> "forwarded-tcpip", port |-> p]

Wanted(p) == \E r \in rpfs : Port(r) = p

(* The server's ports.  One that is open is wanted, and will stay open, or *)
(* will be closed by a message under way; one that is wanted is open, or   *)
(* is being asked for, or has just been refused.                           *)
ServerPort(p) ==
    /\ p \in srv => \/ In(toServer, Cancel(p))
                   \/ (Wanted(p) /\ ~In(toServer, Forward(p)) /\ ~In(toClient, Failure(p)))
    /\ p \notin srv /\ Wanted(p) => In(toServer, Forward(p)) \/ In(toClient, Failure(p))
    /\ In(toServer, Cancel(p)) /\ Wanted(p) => In(toServer, Forward(p))

Settled == \A p \in Ports : ServerPort(p) /\ Before(toServer, Cancel(p), Forward(p))

(* A request has lost its record only when a later configuration took it.  *)
TakenLater == \A i \in 1..Len(globreq) : globreq[i] \notin rpfs => globreq[i][2] < nconfig

(* The tail is that of a request that was freed only when none is left.    *)
TailFreed == tail = "stale" => globreq = << >>

(* Once anything has been asked for, the tree of forwardings is there.     *)
TreeThere ==
    \/ tree
    \/ /\ rpfs = {} /\ globreq = << >> /\ srv = {}
       /\ \A p \in Ports : ~In(toServer, Forward(p))

(* What the causes of the faults are told from.                            *)
Caused == TakenLater /\ TailFreed /\ TreeThere

Inv ==
    /\ TypeOK /\ ForwardedAsConfigured
    /\ Numbered /\ Matched
    /\ Recorded => Settled
    /\ Caused /\ FaultHasCause
-----------------------------------------------------------------------------
(* Lists of ports, as messages are added to a queue and taken from it.     *)

LEMMA ListsConcat ==
    ASSUME NEW M, NEW P, NEW T, NEW q \in Seq(M), NEW r \in Seq(M),
           NEW s \in Seq(P), NEW t \in Seq(P), Lists(q, T, s), Lists(r, T, t)
    PROVE  Lists(q \o r, T, s \o t)
  <1>1. PICK f \in [1..Len(s) -> 1..Len(q)] :
          /\ \A i, j \in 1..Len(s) : i < j => f[i] < f[j]
          /\ \A i \in 1..Len(s) : q[f[i]].type \in T /\ q[f[i]].port = s[i]
          /\ \A k \in 1..Len(q) : q[k].type \in T => \E i \in 1..Len(s) : f[i] = k
    BY DEF Lists
  <1>2. PICK h \in [1..Len(t) -> 1..Len(r)] :
          /\ \A i, j \in 1..Len(t) : i < j => h[i] < h[j]
          /\ \A i \in 1..Len(t) : r[h[i]].type \in T /\ r[h[i]].port = t[i]
          /\ \A k \in 1..Len(r) : r[k].type \in T => \E i \in 1..Len(t) : h[i] = k
    BY DEF Lists
  <1>3. PICK lq \in Nat, lr \in Nat, ls \in Nat, lt \in Nat :
          lq = Len(q) /\ lr = Len(r) /\ ls = Len(s) /\ lt = Len(t)
    OBVIOUS
  <1>4. PICK u, v : u = q \o r /\ v = s \o t
    OBVIOUS
  <1>5. /\ Len(u) = lq + lr /\ Len(v) = ls + lt
        /\ \A k \in 1..lq : u[k] = q[k]
        /\ \A k \in 1..lr : u[k + lq] = r[k]
        /\ \A i \in 1..ls : v[i] = s[i]
        /\ \A i \in 1..lt : v[i + ls] = t[i]
    <2>1. /\ Len(q \o r) = Len(q) + Len(r)
          /\ \A i \in 1..(Len(q) + Len(r)) :
                (q \o r)[i] = IF i <= Len(q) THEN q[i] ELSE r[i - Len(q)]
      BY ConcatProperties, Zenon
    <2>2. /\ Len(s \o t) = Len(s) + Len(t)
          /\ \A i \in 1..(Len(s) + Len(t)) :
                (s \o t)[i] = IF i <= Len(s) THEN s[i] ELSE t[i - Len(s)]
      BY ConcatProperties, Zenon
    <2>3. /\ Len(u) = lq + lr
          /\ \A i \in 1..(lq + lr) : u[i] = IF i <= lq THEN q[i] ELSE r[i - lq]
      BY <1>3, <1>4, <2>1
    <2>4. /\ Len(v) = ls + lt
          /\ \A i \in 1..(ls + lt) : v[i] = IF i <= ls THEN s[i] ELSE t[i - ls]
      BY <1>3, <1>4, <2>2
    <2>5. /\ \A k \in 1..lr : /\ k + lq \in 1..(lq + lr) /\ ~(k + lq <= lq)
                              /\ (k + lq) - lq = k
          /\ \A k \in 1..lt : /\ k + ls \in 1..(ls + lt) /\ ~(k + ls <= ls)
                              /\ (k + ls) - ls = k
          /\ \A k \in 1..lq : k \in 1..(lq + lr) /\ k <= lq
          /\ \A k \in 1..ls : k \in 1..(ls + lt) /\ k <= ls
      OBVIOUS
    <2>6. /\ \A k \in 1..lq : u[k] = q[k]
          /\ \A k \in 1..ls : v[k] = s[k]
      BY <2>3, <2>4, <2>5
    <2>7. \A k \in 1..lr : u[k + lq] = r[k]
      <3> TAKE k \in 1..lr
      <3>1. u[k + lq] = r[(k + lq) - lq]
        BY <2>3, <2>5
      <3> QED
        BY <2>5, <3>1
    <2>8. \A k \in 1..lt : v[k + ls] = t[k]
      <3> TAKE k \in 1..lt
      <3>1. v[k + ls] = t[(k + ls) - ls]
        BY <2>4, <2>5
      <3> QED
        BY <2>5, <3>1
    <2> QED
      BY <2>3, <2>4, <2>6, <2>7, <2>8
  <1>6. /\ \A i \in 1..ls : f[i] \in 1..lq
        /\ \A i \in 1..lt : h[i] \in 1..lr
    BY <1>3
  <1> DEFINE g == [i \in 1..(ls + lt) |-> IF i <= ls THEN f[i] ELSE h[i - ls] + lq]
  <1>7. /\ \A i \in 1..ls : g[i] = f[i]
        /\ \A i \in 1..lt : i + ls \in 1..(ls + lt) /\ g[i + ls] = h[i] + lq
        /\ \A i \in 1..(ls + lt) : \/ i \in 1..ls
                                   \/ i - ls \in 1..lt /\ i = (i - ls) + ls
    OBVIOUS
  <1>8. g \in [1..(ls + lt) -> 1..(lq + lr)]
    <2> SUFFICES ASSUME NEW i \in 1..(ls + lt) PROVE g[i] \in 1..(lq + lr)
      OBVIOUS
    <2>1. CASE i \in 1..ls
      BY <1>6, <1>7, <2>1
    <2>2. CASE i - ls \in 1..lt /\ i = (i - ls) + ls
      <3>1. h[i - ls] \in 1..lr /\ g[i] = h[i - ls] + lq
        BY <1>6, <1>7, <2>2
      <3> QED
        BY <3>1
    <2> QED
      BY <1>7, <2>1, <2>2
  <1> HIDE DEF g
  <1>9. ASSUME NEW i \in 1..(ls + lt), NEW j \in 1..(ls + lt), i < j
        PROVE  g[i] < g[j]
    <2>1. CASE j \in 1..ls
      <3>1. i \in 1..ls
        BY <1>9, <2>1
      <3>2. f[i] < f[j]
        BY <1>1, <1>3, <1>9, <2>1, <3>1, Zenon
      <3> QED
        BY <1>7, <2>1, <3>1, <3>2
    <2>2. CASE i \in 1..ls /\ j - ls \in 1..lt
      <3>1. g[j] = h[j - ls] + lq /\ h[j - ls] \in 1..lr /\ g[i] \in 1..lq
        BY <1>6, <1>7, <2>2
      <3> QED
        BY <3>1
    <2>3. CASE i - ls \in 1..lt
      <3>1. j - ls \in 1..lt /\ i - ls < j - ls
        BY <1>9, <2>3
      <3>2. g[j] = h[j - ls] + lq /\ g[i] = h[i - ls] + lq
        BY <1>7, <2>3, <3>1
      <3>3. h[i - ls] < h[j - ls] /\ h[i - ls] \in Nat /\ h[j - ls] \in Nat
        BY <1>2, <1>3, <1>6, <2>3, <3>1
      <3> QED
        BY <3>2, <3>3, SMTT(30)
    <2> QED
      BY <1>7, <1>9, <2>1, <2>2, <2>3
  <1>10. ASSUME NEW i \in 1..(ls + lt)
         PROVE  u[g[i]].type \in T /\ u[g[i]].port = v[i]
    <2>1. CASE i \in 1..ls
      <3>1. g[i] \in 1..lq /\ g[i] = f[i]
        BY <1>6, <1>7, <2>1
      <3> QED
        BY <1>1, <1>3, <1>5, <2>1, <3>1
    <2>2. CASE i - ls \in 1..lt /\ i = (i - ls) + ls
      <3>1. PICK j \in 1..lt : j = i - ls /\ i = j + ls
        BY <2>2
      <3>2. g[i] = h[j] + lq /\ h[j] \in 1..lr /\ v[i] = t[j]
        BY <1>5, <1>6, <1>7, <3>1
      <3>3. u[g[i]] = r[h[j]]
        BY <1>5, <3>2
      <3> QED
        BY <1>2, <1>3, <3>1, <3>2, <3>3
    <2> QED
      BY <1>7, <2>1, <2>2
  <1>11. ASSUME NEW k \in 1..(lq + lr), u[k].type \in T
         PROVE  \E i \in 1..(ls + lt) : g[i] = k
    <2>1. CASE k \in 1..lq
      <3>1. PICK i \in 1..ls : f[i] = k
        BY <1>1, <1>3, <1>5, <1>11, <2>1
      <3>2. i \in 1..(ls + lt) /\ g[i] = k
        BY <1>7, <3>1
      <3> QED
        BY <3>2
    <2>2. CASE k > lq
      <3>1. PICK m \in 1..lr : k = m + lq
        <4>1. k - lq \in 1..lr /\ k = (k - lq) + lq
          BY <2>2
        <4> QED
          BY <4>1
      <3>2. r[m].type \in T
        BY <1>5, <1>11, <3>1
      <3>3. PICK i \in 1..lt : h[i] = m
        BY <1>2, <1>3, <3>2
      <3>4. i + ls \in 1..(ls + lt) /\ g[i + ls] = k
        BY <1>7, <3>1, <3>3
      <3> QED
        BY <3>4
    <2> QED
      BY <2>1, <2>2
  <1>12. /\ g \in [1..Len(v) -> 1..Len(u)]
         /\ \A i, j \in 1..Len(v) : i < j => g[i] < g[j]
         /\ \A i \in 1..Len(v) : u[g[i]].type \in T /\ u[g[i]].port = v[i]
         /\ \A k \in 1..Len(u) : u[k].type \in T => \E i \in 1..Len(v) : g[i] = k
    BY <1>5, <1>8, <1>9, <1>10, <1>11, Zenon
  <1> QED
    BY <1>4, <1>12, ZenonT(30) DEF Lists

(* A queue of which every message counts, and one of which none does.      *)
LEMMA ListsAll ==
    ASSUME NEW M, NEW T, NEW q \in Seq(M), NEW s, NEW n \in Nat, n = Len(q), n = Len(s),
           \A k \in 1..n : q[k].type \in T /\ q[k].port = s[k]
    PROVE  Lists(q, T, s)
  <1> DEFINE f == [i \in 1..n |-> i]
  <1>1. f \in [1..n -> 1..n] /\ \A i \in 1..n : f[i] = i
    OBVIOUS
  <1> HIDE DEF f
  <1>2. /\ f \in [1..Len(s) -> 1..Len(q)]
        /\ \A i, j \in 1..Len(s) : i < j => f[i] < f[j]
        /\ \A i \in 1..Len(s) : q[f[i]].type \in T /\ q[f[i]].port = s[i]
        /\ \A k \in 1..Len(q) : q[k].type \in T => \E i \in 1..Len(s) : f[i] = k
    <2>1. \A i, j \in 1..n : i < j => f[i] < f[j]
      BY <1>1
    <2>2. \A i \in 1..n : q[f[i]].type \in T /\ q[f[i]].port = s[i]
      BY <1>1
    <2>3. \A k \in 1..n : q[k].type \in T => \E i \in 1..n : f[i] = k
      BY <1>1
    <2> QED
      BY <1>1, <2>1, <2>2, <2>3, Zenon
  <1> QED
    BY <1>2, Zenon DEF Lists

LEMMA ListsNone ==
    ASSUME NEW M, NEW T, NEW q \in Seq(M),
           \A k \in 1..Len(q) : q[k].type \notin T
    PROVE  Lists(q, T, << >>)
  <1> DEFINE f == [i \in 1..0 |-> 1]
  <1>1. Len(<< >>) = 0 /\ 1..0 = {} /\ f \in [1..0 -> 1..Len(q)]
    OBVIOUS
  <1> HIDE DEF f
  <1>2. /\ f \in [1..Len(<< >>) -> 1..Len(q)]
        /\ \A i, j \in 1..Len(<< >>) : i < j => f[i] < f[j]
        /\ \A i \in 1..Len(<< >>) : q[f[i]].type \in T /\ q[f[i]].port = << >>[i]
        /\ \A k \in 1..Len(q) : q[k].type \in T => \E i \in 1..Len(<< >>) : f[i] = k
    BY <1>1
  <1> QED
    BY <1>2, Zenon DEF Lists

(* The message at the head of the queue counts, or does not.               *)
LEMMA ListsTail ==
    ASSUME NEW M, NEW P, NEW T, NEW q \in Seq(M), NEW s \in Seq(P),
           q # << >>, Lists(q, T, s)
    PROVE  /\ Head(q).type \in T =>
                 s # << >> /\ Head(s) = Head(q).port /\ Lists(Tail(q), T, Tail(s))
           /\ Head(q).type \notin T => Lists(Tail(q), T, s)
  <1>1. PICK f \in [1..Len(s) -> 1..Len(q)] :
          /\ \A i, j \in 1..Len(s) : i < j => f[i] < f[j]
          /\ \A i \in 1..Len(s) : q[f[i]].type \in T /\ q[f[i]].port = s[i]
          /\ \A k \in 1..Len(q) : q[k].type \in T => \E i \in 1..Len(s) : f[i] = k
    BY DEF Lists
  <1>2. PICK lq \in Nat, ls \in Nat : lq = Len(q) /\ ls = Len(s)
    OBVIOUS
  <1>3. PICK tl : tl = Tail(q)
    OBVIOUS
  <1>4. /\ lq > 0 /\ Head(q) = q[1] /\ Len(tl) = lq - 1
        /\ \A k \in 1..(lq - 1) : tl[k] = q[k + 1]
    BY <1>2, <1>3, HeadTailProperties, EmptySeq
  <1>5. CASE q[1].type \in T
    <2>1. PICK j \in 1..ls : f[j] = 1
      BY <1>1, <1>2, <1>4, <1>5
    <2>2. f[1] = 1 /\ ls > 0
      <3>1. 1 \in 1..ls /\ f[1] \in 1..lq
        BY <1>2, <2>1
      <3>2. ~(1 < j)
        BY <1>1, <1>2, <1>4, <2>1, <3>1
      <3> QED
        BY <2>1, <3>1, <3>2
    <2>3. s # << >>
      BY <1>2, <2>2, EmptySeq
    <2>4. PICK ts : ts = Tail(s)
      OBVIOUS
    <2>5. /\ Len(ts) = ls - 1 /\ Head(s) = s[1]
          /\ \A i \in 1..(ls - 1) : ts[i] = s[i + 1]
      BY <1>2, <2>3, <2>4, HeadTailProperties
    <2>6. Head(s) = Head(q).port
      <3>1. 1 \in 1..ls
        BY <2>2
      <3>2. q[f[1]].port = s[1]
        BY <1>1, <1>2, <3>1, Zenon
      <3> QED
        BY <1>4, <2>2, <2>5, <3>2, Zenon
    <2> DEFINE g == [i \in 1..(ls - 1) |-> f[i + 1] - 1]
    <2>7. ASSUME NEW i \in 1..(ls - 1)
          PROVE  /\ i + 1 \in 1..ls /\ f[i + 1] \in 2..lq
                 /\ g[i] = f[i + 1] - 1 /\ g[i] \in 1..(lq - 1) /\ g[i] + 1 = f[i + 1]
      <3>1. i + 1 \in 1..ls /\ 1 \in 1..ls /\ 1 < i + 1
        OBVIOUS
      <3>2. f[i + 1] \in 1..lq /\ f[1] < f[i + 1]
        BY <1>1, <1>2, <3>1
      <3> QED
        BY <2>2, <3>1, <3>2
    <2>8. g \in [1..(ls - 1) -> 1..(lq - 1)]
      BY <2>7
    <2> HIDE DEF g
    <2>9. \A i, j2 \in 1..(ls - 1) : i < j2 => g[i] < g[j2]
      <3> TAKE i, j2 \in 1..(ls - 1)
      <3>1. i < j2 => i + 1 < j2 + 1
        OBVIOUS
      <3>2. i < j2 => f[i + 1] < f[j2 + 1]
        BY <1>1, <1>2, <2>7, <3>1
      <3> QED
        BY <2>7, <3>2
    <2>10. ASSUME NEW i \in 1..(ls - 1)
           PROVE  tl[g[i]].type \in T /\ tl[g[i]].port = ts[i]
      <3>1. tl[g[i]] = q[f[i + 1]] /\ ts[i] = s[i + 1] /\ i + 1 \in 1..ls
        BY <1>4, <2>5, <2>7
      <3> QED
        BY <1>1, <1>2, <3>1
    <2>11. ASSUME NEW k \in 1..(lq - 1), tl[k].type \in T
           PROVE  \E i \in 1..(ls - 1) : g[i] = k
      <3>1. k + 1 \in 1..lq /\ q[k + 1].type \in T
        BY <1>4, <2>11
      <3>2. PICK i \in 1..ls : f[i] = k + 1
        BY <1>1, <1>2, <3>1
      <3>3. i # 1
        BY <2>2, <3>2
      <3>4. i - 1 \in 1..(ls - 1) /\ (i - 1) + 1 = i
        BY <3>3
      <3>5. g[i - 1] = k
        BY <2>7, <3>2, <3>4
      <3> QED
        BY <3>4, <3>5
    <2>12. /\ g \in [1..Len(ts) -> 1..Len(tl)]
           /\ \A i, j2 \in 1..Len(ts) : i < j2 => g[i] < g[j2]
           /\ \A i \in 1..Len(ts) : tl[g[i]].type \in T /\ tl[g[i]].port = ts[i]
           /\ \A k \in 1..Len(tl) : tl[k].type \in T => \E i \in 1..Len(ts) : g[i] = k
      BY <1>4, <2>5, <2>8, <2>9, <2>10, <2>11, Zenon
    <2>13. Lists(tl, T, ts)
      BY <2>12, Zenon DEF Lists
    <2> QED
      BY <1>3, <1>4, <1>5, <2>3, <2>4, <2>6, <2>13
  <1>6. CASE q[1].type \notin T
    <2> DEFINE g == [i \in 1..ls |-> f[i] - 1]
    <2>1. ASSUME NEW i \in 1..ls
          PROVE  f[i] \in 2..lq /\ g[i] = f[i] - 1 /\ g[i] \in 1..(lq - 1) /\ g[i] + 1 = f[i]
      <3>1. f[i] \in 1..lq /\ q[f[i]].type \in T
        BY <1>1, <1>2
      <3>2. f[i] # 1
        BY <1>6, <3>1
      <3> QED
        BY <3>1, <3>2
    <2>2. g \in [1..ls -> 1..(lq - 1)]
      BY <2>1
    <2> HIDE DEF g
    <2>3. \A i, j \in 1..ls : i < j => g[i] < g[j]
      <3> TAKE i, j \in 1..ls
      <3>1. i < j => f[i] < f[j]
        BY <1>1, <1>2
      <3> QED
        BY <2>1, <3>1
    <2>4. \A i \in 1..ls : tl[g[i]].type \in T /\ tl[g[i]].port = s[i]
      <3> TAKE i \in 1..ls
      <3>1. tl[g[i]] = q[f[i]]
        BY <1>4, <2>1
      <3> QED
        BY <1>1, <1>2, <3>1
    <2>5. ASSUME NEW k \in 1..(lq - 1), tl[k].type \in T
          PROVE  \E i \in 1..ls : g[i] = k
      <3>1. k + 1 \in 1..lq /\ q[k + 1].type \in T
        BY <1>4, <2>5
      <3>2. PICK i \in 1..ls : f[i] = k + 1
        BY <1>1, <1>2, <3>1
      <3>3. g[i] = k
        BY <2>1, <3>2
      <3> QED
        BY <3>3
    <2>6. /\ g \in [1..Len(s) -> 1..Len(tl)]
          /\ \A i, j \in 1..Len(s) : i < j => g[i] < g[j]
          /\ \A i \in 1..Len(s) : tl[g[i]].type \in T /\ tl[g[i]].port = s[i]
          /\ \A k \in 1..Len(tl) : tl[k].type \in T => \E i \in 1..Len(s) : g[i] = k
      BY <1>2, <1>4, <2>2, <2>3, <2>4, <2>5, Zenon
    <2>7. Lists(tl, T, s)
      BY <2>6, Zenon DEF Lists
    <2> QED
      BY <1>3, <1>4, <1>6, <2>7
  <1> QED
    BY <1>5, <1>6
-----------------------------------------------------------------------------
(* The order in which a set of entries is walked.                          *)

(* A set of numbers that has a member has a least one.                     *)
LEMMA LeastMember ==
    ASSUME NEW T, T \subseteq Nat, T # {}
    PROVE  \E x \in T : \A y \in T : x <= y
  <1> DEFINE R == OpToRel(<, Nat)
  <1>1. IsWellFoundedOn(R, Nat)
    BY NatLessThanWellFounded
  <1>2. PICK x \in T : \A y \in T : ~(<<y, x>> \in R)
    <2> HIDE DEF R
    <2> QED
      BY <1>1, WFMin
  <1>3. \A y \in T : ~(y < x)
    BY <1>2 DEF OpToRel
  <1> HIDE DEF R
  <1> QED
    BY <1>2, <1>3

(* q lists the n members of S in order.                                    *)
Ordered(S, n, q) ==
    /\ \A i, j \in 1..n : i < j => q[i] < q[j]
    /\ \A e \in S : \E i \in 1..n : q[i] = e

(* A list of all but the least member gives one of all.                    *)
LEMMA OrderedStep ==
    ASSUME NEW S, S \subseteq Nat, NEW m \in S, \A y \in S : m <= y,
           NEW n \in Nat, NEW q \in [1..n -> S \ {m}], Ordered(S \ {m}, n, q)
    PROVE  \E u \in [1..(n + 1) -> S] : Ordered(S, n + 1, u)
  <1> DEFINE u == [i \in 1..(n + 1) |-> IF i = 1 THEN m ELSE q[i - 1]]
  <1>1. /\ u[1] = m
        /\ \A i \in 1..n : i + 1 \in 1..(n + 1) /\ u[i + 1] = q[i]
    OBVIOUS
  <1>2. \A i \in 1..(n + 1) : i = 1 \/ \E j \in 1..n : i = j + 1
    <2> TAKE i \in 1..(n + 1)
    <2>1. i # 1 => i - 1 \in 1..n /\ i = (i - 1) + 1
      OBVIOUS
    <2> QED
      BY <2>1
  <1>3. u \in [1..(n + 1) -> S]
    <2> SUFFICES ASSUME NEW i \in 1..(n + 1) PROVE u[i] \in S
      OBVIOUS
    <2> HIDE DEF u
    <2> QED
      BY <1>1, <1>2
  <1> HIDE DEF u
  <1>4. ASSUME NEW i \in 1..(n + 1), NEW j \in 1..(n + 1), i < j
        PROVE  u[i] < u[j]
    <2>1. PICK b \in 1..n : j = b + 1
      BY <1>2, <1>4
    <2>2. u[j] = q[b] /\ q[b] \in S \ {m} /\ q[b] \in Nat /\ m \in Nat
      BY <1>1, <2>1
    <2>3. CASE i = 1
      BY <1>1, <2>2, <2>3
    <2>4. CASE i # 1
      <3>1. PICK a \in 1..n : i = a + 1
        BY <1>2, <2>4
      <3>2. a < b
        BY <1>4, <2>1, <3>1
      <3>3. q[a] < q[b] /\ u[i] = q[a]
        BY <1>1, <3>1, <3>2 DEF Ordered
      <3> QED
        BY <2>2, <3>3
    <2> QED
      BY <2>3, <2>4
  <1>5. ASSUME NEW e \in S PROVE \E i \in 1..(n + 1) : u[i] = e
    <2>1. CASE e = m
      BY <1>1, <2>1
    <2>2. CASE e # m
      <3>1. PICK i \in 1..n : q[i] = e
        BY <2>2 DEF Ordered
      <3> QED
        BY <1>1, <3>1
    <2> QED
      BY <2>1, <2>2
  <1>6. Ordered(S, n + 1, u)
    BY <1>4, <1>5 DEF Ordered
  <1> QED
    BY <1>3, <1>6

(* Every finite set can be listed in order, and Sorted does.               *)
LEMMA SortedProps ==
    ASSUME NEW S, S \subseteq Nat, IsFiniteSet(S)
    PROVE  /\ Cardinality(S) \in Nat
           /\ Sorted(S) \in [1..Cardinality(S) -> S]
           /\ Ordered(S, Cardinality(S), Sorted(S))
  <1> DEFINE Listed(U) == \E q \in [1..Cardinality(U) -> U] : Ordered(U, Cardinality(U), q)
             B == {n \in Nat : \E U \in SUBSET Nat :
                                  IsFiniteSet(U) /\ Cardinality(U) = n /\ ~Listed(U)}
  <1>1. ASSUME NEW n \in B, \A k \in B : n <= k PROVE FALSE
    <2>1. PICK U \in SUBSET Nat : IsFiniteSet(U) /\ Cardinality(U) = n /\ ~Listed(U)
      OBVIOUS
    <2>2. CASE U = {}
      <3>1. Cardinality(U) = 0
        BY <2>2, FS_EmptySet
      <3> DEFINE q == [i \in 1..0 |-> i]
      <3>2. q \in [1..0 -> U] /\ Ordered(U, 0, q)
        BY <2>2 DEF Ordered
      <3> HIDE DEF q
      <3> QED
        BY <2>1, <3>1, <3>2, Zenon
    <2>3. CASE U # {}
      <3>1. PICK m \in U : \A y \in U : m <= y
        BY <2>3, LeastMember
      <3>2. IsFiniteSet(U \ {m}) /\ Cardinality(U \ {m}) = Cardinality(U) - 1
        BY <2>1, <3>1, FS_RemoveElement
      <3>3. Cardinality(U \ {m}) \in Nat
        BY <3>2, FS_CardinalityType
      <3>4. PICK k \in Nat : k = Cardinality(U \ {m}) /\ n = k + 1
        BY <2>1, <3>2, <3>3
      <3>5. k \notin B
        <4> HIDE DEF B
        <4> QED
          BY <1>1, <3>4
      <3>6. Listed(U \ {m})
        <4>1. U \ {m} \in SUBSET Nat
          OBVIOUS
        <4> HIDE DEF Listed
        <4> QED
          BY <3>2, <3>4, <3>5, <4>1
      <3>7. PICK q \in [1..k -> U \ {m}] : Ordered(U \ {m}, k, q)
        BY <3>4, <3>6
      <3>8. U \subseteq Nat
        BY <2>1
      <3>9. \E u \in [1..(k + 1) -> U] : Ordered(U, k + 1, u)
        BY <3>1, <3>7, <3>8, OrderedStep
      <3> QED
        BY <2>1, <3>4, <3>9
    <2> QED
      BY <2>2, <2>3
  <1>2. B = {}
    <2>1. B \subseteq Nat
      OBVIOUS
    <2> HIDE DEF B
    <2> QED
      BY <1>1, <2>1, LeastMember
  <1>3. Cardinality(S) \in Nat
    BY FS_CardinalityType
  <1>4. Listed(S)
    <2>1. S \in SUBSET Nat
      OBVIOUS
    <2> HIDE DEF Listed
    <2> QED
      BY <1>2, <1>3, <2>1
  <1>5. PICK q \in [1..Cardinality(S) -> S] : Ordered(S, Cardinality(S), q)
    BY <1>4
  <1>6. /\ \A i, j \in 1..Cardinality(S) : i < j => q[i] < q[j]
        /\ \A e \in S : \E i \in 1..Cardinality(S) : q[i] = e
    BY <1>5, Zenon DEF Ordered
  <1>7. /\ Sorted(S) \in [1..Cardinality(S) -> S]
        /\ \A i, j \in 1..Cardinality(S) : i < j => Sorted(S)[i] < Sorted(S)[j]
        /\ \A e \in S : \E i \in 1..Cardinality(S) : Sorted(S)[i] = e
    BY <1>6, Zenon DEF Sorted
  <1> QED
    BY <1>3, <1>7, Zenon DEF Ordered
-----------------------------------------------------------------------------
(* Members of a sequence, and their order, as it grows and shrinks.        *)

LEMMA TailAt ==
    ASSUME NEW M, NEW q \in Seq(M), q # << >>
    PROVE  \E n \in Nat :
              /\ Len(q) = n + 1 /\ Len(Tail(q)) = n /\ Head(q) = q[1]
              /\ \A i \in 1..n : Tail(q)[i] = q[i + 1]
  <1>1. PICK n \in Nat : Len(q) = n + 1
    <2>1. Len(q) \in Nat /\ Len(q) # 0
      BY EmptySeq
    <2>2. Len(q) - 1 \in Nat /\ Len(q) = (Len(q) - 1) + 1
      BY <2>1
    <2> QED
      BY <2>2
  <1>2. Len(Tail(q)) = n /\ Head(q) = q[1] /\ \A i \in 1..n : Tail(q)[i] = q[i + 1]
    BY <1>1, HeadTailProperties
  <1> QED
    BY <1>1, <1>2

(* u is q, of length m, and then r, of length n.                           *)
JoinedAt(q, r, u, m, n) ==
    /\ u = q \o r
    /\ Len(q) = m /\ Len(r) = n /\ Len(u) = m + n
    /\ \A i \in 1..m : u[i] = q[i]
    /\ \A i \in 1..n : u[i + m] = r[i]

LEMMA ConcatAt ==
    ASSUME NEW M, NEW q \in Seq(M), NEW r \in Seq(M)
    PROVE  \E m \in Nat, n \in Nat, u \in Seq(M) : JoinedAt(q, r, u, m, n)
  <1>1. PICK m \in Nat, n \in Nat : Len(q) = m /\ Len(r) = n
    OBVIOUS
  <1>2. /\ Len(q \o r) = m + n
        /\ \A i \in 1..(m + n) : (q \o r)[i] = IF i <= m THEN q[i] ELSE r[i - m]
    <2>1. /\ Len(q \o r) = Len(q) + Len(r)
          /\ \A i \in 1..(Len(q) + Len(r)) :
                (q \o r)[i] = IF i <= Len(q) THEN q[i] ELSE r[i - Len(q)]
      BY ConcatProperties, Zenon
    <2> QED
      BY <1>1, <2>1, Zenon
  <1>3. PICK u : u = q \o r
    OBVIOUS
  <1>4. \A i \in 1..m : u[i] = q[i]
    BY <1>2, <1>3
  <1>5. \A i \in 1..n : u[i + m] = r[i]
    <2> TAKE i \in 1..n
    <2>1. i + m \in 1..(m + n) /\ ~(i + m <= m) /\ (i + m) - m = i
      OBVIOUS
    <2>2. u[i + m] = r[(i + m) - m]
      BY <1>2, <1>3, <2>1
    <2> QED
      BY <2>1, <2>2
  <1>6. Len(u) = m + n /\ u \in Seq(M)
    BY <1>2, <1>3, ConcatProperties
  <1> QED
    BY <1>1, <1>3, <1>4, <1>5, <1>6, Zenon DEF JoinedAt

(* An index of a concatenation is one of its parts.                        *)
LEMMA SplitIndex ==
    ASSUME NEW m \in Nat, NEW n \in Nat, NEW k \in 1..(m + n)
    PROVE  k \in 1..m \/ \E i \in 1..n : k = i + m
  <1>1. k \in 1..m \/ (k - m \in 1..n /\ k = (k - m) + m)
    OBVIOUS
  <1> QED
    BY <1>1

LEMMA InTail ==
    ASSUME NEW M, NEW q \in Seq(M), q # << >>, NEW x
    PROVE  In(q, x) <=> x = Head(q) \/ In(Tail(q), x)
  <1>1. PICK n \in Nat :
          /\ Len(q) = n + 1 /\ Len(Tail(q)) = n /\ Head(q) = q[1]
          /\ \A i \in 1..n : Tail(q)[i] = q[i + 1]
    BY TailAt
  <1>2. \A i \in 1..n : i + 1 \in 1..(n + 1)
    OBVIOUS
  <1>3. ASSUME NEW k \in 1..(n + 1) PROVE k = 1 \/ \E i \in 1..n : k = i + 1
    <2>1. k = 1 \/ (k - 1 \in 1..n /\ k = (k - 1) + 1)
      OBVIOUS
    <2> QED
      BY <2>1
  <1>4. ASSUME In(q, x) PROVE x = Head(q) \/ In(Tail(q), x)
    <2>1. PICK k \in 1..(n + 1) : q[k] = x
      BY <1>1, <1>4 DEF In
    <2>2. CASE k = 1
      BY <1>1, <2>1, <2>2
    <2>3. ASSUME NEW i \in 1..n, k = i + 1 PROVE In(Tail(q), x)
      <3>1. Tail(q)[i] = x
        BY <1>1, <2>1, <2>3
      <3> QED
        BY <1>1, <3>1 DEF In
    <2> QED
      BY <1>3, <2>2, <2>3
  <1>5. ASSUME x = Head(q) PROVE In(q, x)
    <2>1. 1 \in 1..(n + 1)
      OBVIOUS
    <2> QED
      BY <1>1, <1>5, <2>1 DEF In
  <1>6. ASSUME In(Tail(q), x) PROVE In(q, x)
    <2>1. PICK i \in 1..n : Tail(q)[i] = x
      BY <1>1, <1>6 DEF In
    <2>2. q[i + 1] = x /\ i + 1 \in 1..(n + 1)
      BY <1>1, <1>2, <2>1
    <2> QED
      BY <1>1, <2>2 DEF In
  <1> QED
    BY <1>4, <1>5, <1>6

LEMMA InConcat ==
    ASSUME NEW M, NEW q \in Seq(M), NEW r \in Seq(M), NEW x
    PROVE  In(q \o r, x) <=> In(q, x) \/ In(r, x)
  <1>1. PICK m \in Nat, n \in Nat, u \in Seq(M) : JoinedAt(q, r, u, m, n)
    BY ConcatAt
  <1>2. /\ u = q \o r
        /\ Len(q) = m /\ Len(r) = n /\ Len(u) = m + n
        /\ \A i \in 1..m : u[i] = q[i]
        /\ \A i \in 1..n : u[i + m] = r[i]
    BY <1>1, Zenon DEF JoinedAt
  <1>3. /\ \A i \in 1..m : i \in 1..(m + n)
        /\ \A i \in 1..n : i + m \in 1..(m + n)
    OBVIOUS
  <1>4. ASSUME NEW k \in 1..(m + n), u[k] = x PROVE In(q, x) \/ In(r, x)
    <2>1. CASE k \in 1..m
      BY <1>2, <1>4, <2>1 DEF In
    <2>2. ASSUME NEW i \in 1..n, k = i + m PROVE In(r, x)
      BY <1>2, <1>4, <2>2 DEF In
    <2> QED
      BY <2>1, <2>2, SplitIndex
  <1>5. In(u, x) => In(q, x) \/ In(r, x)
    <2> SUFFICES ASSUME In(u, x) PROVE In(q, x) \/ In(r, x)
      OBVIOUS
    <2>1. PICK k \in 1..(m + n) : u[k] = x
      BY <1>2 DEF In
    <2> QED
      BY <1>4, <2>1
  <1>6. In(q, x) => In(u, x)
    <2> SUFFICES ASSUME In(q, x) PROVE In(u, x)
      OBVIOUS
    <2>1. PICK k \in 1..m : q[k] = x
      BY <1>2 DEF In
    <2>2. k \in 1..(m + n) /\ u[k] = x
      BY <1>2, <1>3, <2>1
    <2> QED
      BY <1>2, <2>2, Zenon DEF In
  <1>7. In(r, x) => In(u, x)
    <2> SUFFICES ASSUME In(r, x) PROVE In(u, x)
      OBVIOUS
    <2>1. PICK k \in 1..n : r[k] = x
      BY <1>2 DEF In
    <2>2. k + m \in 1..(m + n) /\ u[k + m] = x
      BY <1>2, <1>3, <2>1
    <2> QED
      BY <1>2, <2>2, Zenon DEF In
  <1> QED
    BY <1>2, <1>5, <1>6, <1>7

LEMMA InAppend ==
    ASSUME NEW M, NEW q \in Seq(M), NEW y \in M, NEW x
    PROVE  In(Append(q, y), x) <=> In(q, x) \/ x = y
  <1>1. <<y>> \in Seq(M) /\ Append(q, y) = q \o <<y>>
    BY AppendIsConcat
  <1>2. In(<<y>>, x) <=> x = y
    BY DEF In
  <1>3. PICK r : r = <<y>>
    OBVIOUS
  <1>4. In(q \o r, x) <=> In(q, x) \/ In(r, x)
    BY <1>1, <1>3, InConcat
  <1> QED
    BY <1>1, <1>2, <1>3, <1>4

LEMMA DistinctTail ==
    ASSUME NEW M, NEW q \in Seq(M), q # << >>, Distinct(q)
    PROVE  Distinct(Tail(q)) /\ ~In(Tail(q), Head(q))
  <1>1. PICK n \in Nat :
          /\ Len(q) = n + 1 /\ Len(Tail(q)) = n /\ Head(q) = q[1]
          /\ \A i \in 1..n : Tail(q)[i] = q[i + 1]
    BY TailAt
  <1>2. \A i \in 1..n : i + 1 \in 1..(n + 1) /\ i + 1 # 1
    OBVIOUS
  <1>3. 1 \in 1..(n + 1)
    OBVIOUS
  <1>4. ASSUME NEW i \in 1..n, NEW j \in 1..n, Tail(q)[i] = Tail(q)[j] PROVE i = j
    <2>1. q[i + 1] = q[j + 1]
      BY <1>1, <1>4
    <2>2. i + 1 = j + 1
      BY <1>1, <1>2, <2>1, Zenon DEF Distinct
    <2> QED
      BY <2>2
  <1>5. ASSUME NEW i \in 1..n, Tail(q)[i] = Head(q) PROVE FALSE
    <2>1. q[i + 1] = q[1]
      BY <1>1, <1>5
    <2> QED
      BY <1>1, <1>2, <1>3, <2>1, Zenon DEF Distinct
  <1> QED
    BY <1>1, <1>4, <1>5, Zenon DEF Distinct, In

LEMMA DistinctConcat ==
    ASSUME NEW M, NEW q \in Seq(M), NEW r \in Seq(M)
    PROVE  Distinct(q \o r) <=>
              /\ Distinct(q) /\ Distinct(r)
              /\ \A x : ~(In(q, x) /\ In(r, x))
  <1>1. PICK m \in Nat, n \in Nat, u \in Seq(M) : JoinedAt(q, r, u, m, n)
    BY ConcatAt
  <1>2. /\ u = q \o r
        /\ Len(q) = m /\ Len(r) = n /\ Len(u) = m + n
        /\ \A i \in 1..m : u[i] = q[i]
        /\ \A i \in 1..n : u[i + m] = r[i]
    BY <1>1, Zenon DEF JoinedAt
  <1>3. /\ \A i \in 1..m : i \in 1..(m + n)
        /\ \A i \in 1..n : i + m \in 1..(m + n) /\ i + m \notin 1..m
        /\ \A i, j \in 1..n : i + m = j + m => i = j
    OBVIOUS
  <1>4. ASSUME Distinct(u)
        PROVE  Distinct(q) /\ Distinct(r) /\ \A x : ~(In(q, x) /\ In(r, x))
    <2>1. \A i, j \in 1..(m + n) : u[i] = u[j] => i = j
      BY <1>2, <1>4, SMTT(30) DEF Distinct
    <2>2. Distinct(q)
      BY <1>2, <1>3, <2>1 DEF Distinct
    <2>3. Distinct(r)
      <3>1. ASSUME NEW i \in 1..n, NEW j \in 1..n, r[i] = r[j] PROVE i = j
        <4>1. u[i + m] = u[j + m] /\ i + m \in 1..(m + n) /\ j + m \in 1..(m + n)
          BY <1>2, <1>3, <3>1
        <4>2. i + m = j + m
          BY <2>1, <4>1, Zenon
        <4> QED
          BY <1>3, <4>2
      <3> QED
        BY <1>2, <3>1, Zenon DEF Distinct
    <2>4. ASSUME NEW x, In(q, x), In(r, x) PROVE FALSE
      <3>1. PICK i \in 1..m : q[i] = x
        BY <1>2, <2>4 DEF In
      <3>2. PICK j \in 1..n : r[j] = x
        BY <1>2, <2>4 DEF In
      <3>3. u[i] = u[j + m] /\ i \in 1..(m + n) /\ j + m \in 1..(m + n)
        BY <1>2, <1>3, <3>1, <3>2
      <3>4. i = j + m
        BY <2>1, <3>3, Zenon
      <3> QED
        BY <1>3, <3>4
    <2> QED
      BY <2>2, <2>3, <2>4
  <1>5. ASSUME Distinct(q), Distinct(r), \A x : ~(In(q, x) /\ In(r, x))
        PROVE  Distinct(u)
    <2>1. ASSUME NEW i \in 1..m, NEW j \in 1..n, q[i] = r[j] PROVE FALSE
      <3>1. In(q, q[i]) /\ In(r, q[i])
        BY <1>2, <2>1, Zenon DEF In
      <3> QED
        BY <1>5, <3>1
    <2>2. /\ \A i, j \in 1..m : q[i] = q[j] => i = j
          /\ \A i, j \in 1..n : r[i] = r[j] => i = j
      BY <1>2, <1>5, Zenon DEF Distinct
    <2>3. ASSUME NEW i \in 1..(m + n), NEW j \in 1..(m + n), u[i] = u[j] PROVE i = j
      <3>1. (i \in 1..m \/ \E k \in 1..n : i = k + m) /\ (j \in 1..m \/ \E k \in 1..n : j = k + m)
        BY SplitIndex
      <3>2. CASE i \in 1..m /\ j \in 1..m
        BY <1>2, <2>2, <2>3, <3>2
      <3>3. ASSUME i \in 1..m, NEW k \in 1..n, j = k + m PROVE FALSE
        BY <1>2, <2>1, <2>3, <3>3
      <3>4. ASSUME j \in 1..m, NEW k \in 1..n, i = k + m PROVE FALSE
        BY <1>2, <2>1, <2>3, <3>4
      <3>5. ASSUME NEW k \in 1..n, i = k + m, NEW l \in 1..n, j = l + m PROVE i = j
        <4>1. r[k] = r[l]
          BY <1>2, <2>3, <3>5
        <4> QED
          BY <2>2, <3>5, <4>1
      <3> QED
        BY <3>1, <3>2, <3>3, <3>4, <3>5
    <2> QED
      BY <1>2, <2>3, Zenon DEF Distinct
  <1> QED
    BY <1>2, <1>4, <1>5

LEMMA BeforeTail ==
    ASSUME NEW M, NEW q \in Seq(M), q # << >>, NEW x, NEW y, Before(q, x, y)
    PROVE  Before(Tail(q), x, y) /\ (Head(q) = y => ~In(q, x))
  <1>1. PICK n \in Nat :
          /\ Len(q) = n + 1 /\ Len(Tail(q)) = n /\ Head(q) = q[1]
          /\ \A i \in 1..n : Tail(q)[i] = q[i + 1]
    BY TailAt
  <1>2. \A i \in 1..n : i + 1 \in 1..(n + 1)
    OBVIOUS
  <1>3. \A i, j \in 1..(n + 1) : q[i] = x /\ q[j] = y => i < j
    BY <1>1, Zenon DEF Before
  <1>4. ASSUME NEW i \in 1..n, NEW j \in 1..n, Tail(q)[i] = x, Tail(q)[j] = y
        PROVE  i < j
    <2>1. i + 1 < j + 1
      BY <1>1, <1>2, <1>3, <1>4
    <2> QED
      BY <2>1
  <1>5. ASSUME Head(q) = y, NEW i \in 1..(n + 1), q[i] = x PROVE FALSE
    <2>1. 1 \in 1..(n + 1) /\ q[1] = y
      BY <1>1, <1>5
    <2>2. i < 1
      BY <1>3, <1>5, <2>1, Zenon
    <2> QED
      BY <2>2
  <1> QED
    BY <1>1, <1>4, <1>5, Zenon DEF Before, In

LEMMA BeforeConcat ==
    ASSUME NEW M, NEW q \in Seq(M), NEW r \in Seq(M), NEW x, NEW y,
           Before(q, x, y), Before(r, x, y), ~(In(q, y) /\ In(r, x))
    PROVE  Before(q \o r, x, y)
  <1>1. PICK m \in Nat, n \in Nat, u \in Seq(M) : JoinedAt(q, r, u, m, n)
    BY ConcatAt
  <1>2. /\ u = q \o r
        /\ Len(q) = m /\ Len(r) = n /\ Len(u) = m + n
        /\ \A i \in 1..m : u[i] = q[i]
        /\ \A i \in 1..n : u[i + m] = r[i]
    BY <1>1, Zenon DEF JoinedAt
  <1>3. /\ \A i, j \in 1..m : q[i] = x /\ q[j] = y => i < j
        /\ \A i, j \in 1..n : r[i] = x /\ r[j] = y => i < j
        /\ \A i \in 1..m, j \in 1..n : ~(q[i] = y /\ r[j] = x)
    BY <1>2, Zenon DEF Before, In
  <1>4. ASSUME NEW i \in 1..(m + n), NEW j \in 1..(m + n), u[i] = x, u[j] = y
        PROVE  i < j
    <2>1. /\ i \in 1..m \/ \E k \in 1..n : i = k + m
          /\ j \in 1..m \/ \E k \in 1..n : j = k + m
      BY SplitIndex
    <2>2. CASE i \in 1..m /\ j \in 1..m
      BY <1>2, <1>3, <1>4, <2>2
    <2>3. ASSUME i \in 1..m, NEW k \in 1..n, j = k + m PROVE i < j
      BY <2>3
    <2>4. ASSUME j \in 1..m, NEW k \in 1..n, i = k + m PROVE FALSE
      BY <1>2, <1>3, <1>4, <2>4
    <2>5. ASSUME NEW k \in 1..n, i = k + m, NEW l \in 1..n, j = l + m PROVE i < j
      <3>1. r[k] = x /\ r[l] = y
        BY <1>2, <1>4, <2>5
      <3>2. k < l
        BY <1>3, <3>1
      <3> QED
        BY <2>5, <3>2
    <2> QED
      BY <2>1, <2>2, <2>3, <2>4, <2>5
  <1> QED
    BY <1>2, <1>4, Zenon DEF Before

(* The port of a message that counts is listed.                            *)
LEMMA InLists ==
    ASSUME NEW q, NEW T, NEW s, Lists(q, T, s), NEW x, In(q, x), x.type \in T
    PROVE  In(s, x.port)
  BY DEF Lists, In

(* The ports of requests.                                                  *)
LEMMA PortsOfAt ==
    ASSUME NEW g \in Seq(Rpf)
    PROVE  /\ PortsOf(g) \in Seq(Ports) /\ Len(PortsOf(g)) = Len(g)
           /\ \A i \in 1..Len(g) : PortsOf(g)[i] = Port(g[i])
  <1>1. \A i \in 1..Len(g) : g[i] \in Rpf
    OBVIOUS
  <1>2. \A r \in Rpf : Port(r) \in Ports
    BY DEF Rpf, Port, Ports
  <1> DEFINE s == [i \in 1..Len(g) |-> Port(g[i])]
  <1>3. s \in Seq(Ports) /\ Len(s) = Len(g) /\ \A i \in 1..Len(g) : s[i] = Port(g[i])
    BY <1>1, <1>2
  <1> QED
    BY <1>3 DEF PortsOf

LEMMA PortsOfEqual ==
    ASSUME NEW g \in Seq(Rpf), NEW s \in Seq(Ports), Len(s) = Len(g),
           \A i \in 1..Len(g) : s[i] = Port(g[i])
    PROVE  s = PortsOf(g)
  <1>1. PICK t \in Seq(Ports) : t = PortsOf(g)
    BY PortsOfAt
  <1>2. Len(t) = Len(g) /\ \A i \in 1..Len(g) : t[i] = Port(g[i])
    BY <1>1, PortsOfAt
  <1>3. Len(t) = Len(s) /\ \A i \in 1..Len(t) : t[i] = s[i]
    BY <1>2
  <1>4. t = s
    BY <1>3, SeqEqual
  <1> QED
    BY <1>1, <1>4

LEMMA PortsOfTail ==
    ASSUME NEW g \in Seq(Rpf), g # << >>
    PROVE  /\ PortsOf(g) # << >> /\ Head(PortsOf(g)) = Port(Head(g))
           /\ Tail(PortsOf(g)) = PortsOf(Tail(g))
  <1>1. PICK n \in Nat :
          /\ Len(g) = n + 1 /\ Len(Tail(g)) = n /\ Head(g) = g[1]
          /\ \A i \in 1..n : Tail(g)[i] = g[i + 1]
    BY TailAt
  <1>2. PICK s \in Seq(Ports) : s = PortsOf(g)
    BY PortsOfAt
  <1>3. Len(s) = n + 1 /\ \A i \in 1..(n + 1) : s[i] = Port(g[i])
    BY <1>1, <1>2, PortsOfAt
  <1>4. s # << >>
    BY <1>3, EmptySeq
  <1>5. PICK t, h : t = Tail(s) /\ h = Tail(g)
    OBVIOUS
  <1>6. /\ t \in Seq(Ports) /\ Len(t) = n /\ Head(s) = s[1]
        /\ \A i \in 1..n : t[i] = s[i + 1]
    BY <1>3, <1>4, <1>5, HeadTailProperties
  <1>7. h \in Seq(Rpf) /\ Len(h) = n /\ \A i \in 1..n : h[i] = g[i + 1]
    BY <1>1, <1>5, HeadTailProperties
  <1>8. \A i \in 1..n : t[i] = Port(h[i])
    BY <1>3, <1>6, <1>7
  <1>9. t = PortsOf(h)
    BY <1>6, <1>7, <1>8, PortsOfEqual
  <1>10. Head(s) = Port(Head(g))
    BY <1>1, <1>3, <1>6
  <1> QED
    BY <1>2, <1>4, <1>5, <1>9, <1>10

LEMMA PortsOfConcat ==
    ASSUME NEW g \in Seq(Rpf), NEW h \in Seq(Rpf)
    PROVE  PortsOf(g) \o PortsOf(h) = PortsOf(g \o h)
  <1>1. PICK m \in Nat, n \in Nat, u \in Seq(Rpf) : JoinedAt(g, h, u, m, n)
    BY ConcatAt
  <1>2. /\ u = g \o h
        /\ Len(g) = m /\ Len(h) = n /\ Len(u) = m + n
        /\ \A i \in 1..m : u[i] = g[i]
        /\ \A i \in 1..n : u[i + m] = h[i]
    BY <1>1, Zenon DEF JoinedAt
  <1>3. PICK s \in Seq(Ports), t \in Seq(Ports) : s = PortsOf(g) /\ t = PortsOf(h)
    BY PortsOfAt
  <1>4. /\ Len(s) = m /\ \A i \in 1..m : s[i] = Port(g[i])
        /\ Len(t) = n /\ \A i \in 1..n : t[i] = Port(h[i])
    BY <1>2, <1>3, PortsOfAt
  <1>5. PICK m2 \in Nat, n2 \in Nat, v \in Seq(Ports) : JoinedAt(s, t, v, m2, n2)
    BY ConcatAt
  <1>6. /\ v = s \o t /\ m2 = m /\ n2 = n
        /\ Len(v) = m + n
        /\ \A i \in 1..m : v[i] = s[i]
        /\ \A i \in 1..n : v[i + m] = t[i]
    BY <1>4, <1>5, Zenon DEF JoinedAt
  <1>7. ASSUME NEW i \in 1..(m + n) PROVE v[i] = Port(u[i])
    <2>1. CASE i \in 1..m
      BY <1>2, <1>4, <1>6, <2>1
    <2>2. ASSUME NEW k \in 1..n, i = k + m PROVE v[i] = Port(u[i])
      BY <1>2, <1>4, <1>6, <2>2
    <2> QED
      BY <2>1, <2>2, SplitIndex
  <1>8. v = PortsOf(u)
    BY <1>2, <1>6, <1>7, PortsOfEqual
  <1> QED
    BY <1>2, <1>3, <1>6, <1>8

(* When records differ in their ports, different requests have different   *)
(* ports.                                                                  *)
LEMMA PortsOfDistinct ==
    ASSUME NEW g \in Seq(Rpf), Distinct(g), NEW R, \A i \in 1..Len(g) : g[i] \in R,
           \A q, r \in R : Port(q) = Port(r) => q = r
    PROVE  /\ Distinct(PortsOf(g))
           /\ \A p : In(PortsOf(g), p) => \E i \in 1..Len(g) : Port(g[i]) = p
  <1>1. PICK s : s = PortsOf(g)
    OBVIOUS
  <1>2. Len(s) = Len(g) /\ \A i \in 1..Len(g) : s[i] = Port(g[i])
    BY <1>1, PortsOfAt
  <1>3. ASSUME NEW i \in 1..Len(g), NEW j \in 1..Len(g), s[i] = s[j] PROVE i = j
    <2>1. g[i] = g[j]
      BY <1>2, <1>3
    <2> QED
      BY <2>1, Zenon DEF Distinct
  <1> QED
    BY <1>1, <1>2, <1>3, Zenon DEF Distinct, In
-----------------------------------------------------------------------------
(* What portfwdmgr_config sends and queues for a set of remote entries.    *)
Announces(q, t, S) ==
    /\ q \in Seq([type : {t}, port : Ports])
    /\ \A x : In(q, x) <=> \E e \in S : x = [type |-> t, port |-> Src[e]]

LEMMA MessagesAre ==
    ASSUME NEW S, S \subseteq Remote, NEW t
    PROVE  Announces(Messages(t, S), t, S)
  <1>1. S \subseteq Nat /\ IsFiniteSet(S)
    <2>1. S \in SUBSET Entry
      BY DEF Remote
    <2> QED
      BY <2>1, EntryAssumption, FS_Subset
  <1>n. PICK n \in Nat : n = Cardinality(S)
    BY <1>1, SortedProps
  <1>q. PICK q \in [1..n -> S] : q = Sorted(S) /\ Ordered(S, n, q)
    BY <1>1, <1>n, SortedProps
  <1>2. n = Cardinality(S) /\ q = Sorted(S) /\ Ordered(S, n, q)
    BY <1>n, <1>q
  <1> DEFINE m == [i \in 1..n |-> [type |-> t, port |-> Src[q[i]]]]
  <1>3. \A i \in 1..n : q[i] \in S /\ Src[q[i]] \in Ports
    BY DEF Ports
  <1>4. /\ m \in Seq([type : {t}, port : Ports]) /\ Len(m) = n
        /\ \A i \in 1..n : m[i] = [type |-> t, port |-> Src[q[i]]]
    BY <1>3
  <1>5. Messages(t, S) = m
    BY <1>2 DEF Messages
  <1> HIDE DEF m
  <1>6. \A e \in S : \E i \in 1..n : q[i] = e
    BY <1>2, Zenon DEF Ordered
  <1>7. \A x : In(m, x) <=> \E e \in S : x = [type |-> t, port |-> Src[e]]
    BY <1>3, <1>4, <1>6 DEF In
  <1> QED
    BY <1>4, <1>5, <1>7, Zenon DEF Announces

(* The contexts queued with the requests.                                  *)
Contexts(S, k) == [i \in 1..Cardinality(S) |-> <<Sorted(S)[i], k>>]

LEMMA ContextsAre ==
    ASSUME NEW S, S \subseteq Remote, NEW k \in 1..MaxConfig, NEW T, NEW t \in T
    PROVE  /\ Contexts(S, k) \in Seq(Rpf)
           /\ Distinct(Contexts(S, k))
           /\ \A i \in 1..Len(Contexts(S, k)) : \E e \in S : Contexts(S, k)[i] = <<e, k>>
           /\ Lists(Messages(t, S), T, PortsOf(Contexts(S, k)))
           /\ Contexts(S, k) = << >> <=> S = {}
  <1>1. S \subseteq Nat /\ IsFiniteSet(S)
    <2>1. S \in SUBSET Entry
      BY DEF Remote
    <2> QED
      BY <2>1, EntryAssumption, FS_Subset
  <1>n. PICK n \in Nat : n = Cardinality(S)
    BY <1>1, SortedProps
  <1>q. PICK q \in [1..n -> S] : q = Sorted(S) /\ Ordered(S, n, q)
    BY <1>1, <1>n, SortedProps
  <1>2. n = Cardinality(S) /\ q = Sorted(S) /\ Ordered(S, n, q)
    BY <1>n, <1>q
  <1> DEFINE c == [i \in 1..n |-> <<q[i], k>>]
  <1>3. \A i \in 1..n : q[i] \in S /\ q[i] \in Remote /\ q[i] \in Nat
    BY <1>1
  <1>4. /\ c \in Seq(Rpf) /\ Len(c) = n
        /\ \A i \in 1..n : c[i] = <<q[i], k>>
    BY <1>3 DEF Rpf
  <1>5. Contexts(S, k) = c
    BY <1>2 DEF Contexts
  <1> HIDE DEF c
  <1>6. \A i, j \in 1..n : i < j => q[i] < q[j]
    BY <1>2, Zenon DEF Ordered
  <1>7. ASSUME NEW i \in 1..n, NEW j \in 1..n, c[i] = c[j] PROVE i = j
    <2>1. q[i] = q[j]
      BY <1>4, <1>7
    <2>2. ~(i < j) /\ ~(j < i)
      BY <1>3, <1>6, <2>1
    <2> QED
      BY <2>2
  <1>8. Distinct(c)
    BY <1>4, <1>7, Zenon DEF Distinct
  <1>9. \A i \in 1..Len(c) : \E e \in S : c[i] = <<e, k>>
    BY <1>3, <1>4
  <1>10. Lists(Messages(t, S), T, PortsOf(c))
    <2> DEFINE m == [i \in 1..n |-> [type |-> t, port |-> Src[q[i]]]]
    <2>1. Messages(t, S) = m
      BY <1>2 DEF Messages
    <2>2. /\ m \in Seq([type : {t}, port : {Src[q[i]] : i \in 1..n}]) /\ Len(m) = n
          /\ \A i \in 1..n : m[i].type = t /\ m[i].port = Src[q[i]]
      OBVIOUS
    <2> HIDE DEF m
    <2>3. PICK s \in Seq(Ports) : s = PortsOf(c)
      BY <1>4, PortsOfAt
    <2>4. Len(s) = n /\ \A i \in 1..n : s[i] = Src[q[i]]
      BY <1>4, <2>3, PortsOfAt DEF Port
    <2>5. Lists(m, T, s)
      <3>1. \A i \in 1..n : m[i].type \in T /\ m[i].port = s[i]
        BY <2>2, <2>4
      <3>2. n = Len(m) /\ n = Len(s)
        BY <2>2, <2>4
      <3>3. PICK M : m \in Seq(M)
        BY <2>2
      <3> QED
        BY <3>1, <3>2, <3>3, ListsAll, Zenon
    <2> QED
      BY <2>1, <2>3, <2>5
  <1>11. c = << >> <=> S = {}
    <2>1. S = {} <=> n = 0
      BY <1>1, <1>2, FS_EmptySet
    <2> QED
      BY <1>4, <2>1, EmptySeq
  <1> QED
    BY <1>5, <1>8, <1>9, <1>10, <1>11, <1>4
-----------------------------------------------------------------------------
(* The steps.                                                              *)

LEMMA ListsAppend ==
    ASSUME NEW M, NEW P, NEW T, NEW q \in Seq(M), NEW s \in Seq(P), NEW x \in M,
           x.port \in P, Lists(q, T, s)
    PROVE  /\ x.type \in T => Lists(Append(q, x), T, Append(s, x.port))
           /\ x.type \notin T => Lists(Append(q, x), T, s)
  <1>a. <<x>> \in Seq(M) /\ << >> \in Seq(P)
    BY EmptySeq
  <1>b. <<x.port>> \in Seq(P)
    OBVIOUS
  <1>1. PICK r \in Seq(M), t \in Seq(P), e \in Seq(P) : r = <<x>> /\ t = <<x.port>> /\ e = << >>
    BY <1>a, <1>b, Zenon
  <1>2. Append(q, x) = q \o r /\ Append(s, x.port) = s \o t /\ s \o e = s
    BY <1>1, AppendIsConcat, ConcatEmptySeq
  <1>3. Len(r) = 1 /\ Len(t) = 1 /\ r[1] = x /\ t[1] = x.port
    BY <1>1
  <1>4. CASE x.type \in T
    <2>1. \A k \in 1..1 : r[k].type \in T /\ r[k].port = t[k]
      BY <1>3, <1>4
    <2>2. Lists(r, T, t)
      BY <1>3, <2>1, ListsAll
    <2>3. Lists(q \o r, T, s \o t)
      BY <2>2, ListsConcat
    <2> QED
      BY <1>2, <1>4, <2>3
  <1>5. CASE x.type \notin T
    <2>1. \A k \in 1..Len(r) : r[k].type \notin T
      BY <1>3, <1>5
    <2>2. Lists(r, T, e)
      BY <1>1, <2>1, ListsNone
    <2>3. Lists(q \o r, T, s \o e)
      BY <2>2, ListsConcat
    <2> QED
      BY <1>2, <1>5, <2>3
  <1> QED
    BY <1>4, <1>5

(* The head of one list becomes the last of the other.                     *)
LEMMA MoveHead ==
    ASSUME NEW S, NEW r \in Seq(S), NEW q \in Seq(S), q # << >>
    PROVE  /\ Append(r, Head(q)) \in Seq(S) /\ Tail(q) \in Seq(S) /\ Head(q) \in S
           /\ Append(r, Head(q)) \o Tail(q) = r \o q
  <1>1. PICK hd \in S, tl \in Seq(S) : hd = Head(q) /\ tl = Tail(q)
    BY HeadTailProperties
  <1>a. <<hd>> \in Seq(S)
    OBVIOUS
  <1>2. PICK e \in Seq(S) : e = <<hd>>
    BY <1>a, Zenon
  <1>3. q = e \o tl
    <2>1. PICK u \in Seq(S) : u = e \o tl
      BY ConcatProperties
    <2>2. PICK n \in Nat :
            /\ Len(q) = n + 1 /\ Len(tl) = n /\ hd = q[1]
            /\ \A i \in 1..n : tl[i] = q[i + 1]
      BY <1>1, TailAt
    <2>3. Len(e) = 1 /\ e[1] = hd
      BY <1>2
    <2>4. PICK m \in Nat, k \in Nat, v \in Seq(S) : JoinedAt(e, tl, v, m, k)
      BY ConcatAt
    <2>5. /\ v = u /\ m = 1 /\ k = n /\ Len(u) = 1 + n
          /\ \A i \in 1..1 : u[i] = e[i]
          /\ \A i \in 1..n : u[i + 1] = tl[i]
      BY <2>1, <2>2, <2>3, <2>4 DEF JoinedAt
    <2>6. ASSUME NEW i \in 1..(n + 1) PROVE u[i] = q[i]
      <3>1. i \in 1..1 \/ \E l \in 1..n : i = l + 1
        <4>1. i = 1 \/ (i - 1 \in 1..n /\ i = (i - 1) + 1)
          OBVIOUS
        <4> QED
          BY <4>1
      <3>2. CASE i \in 1..1
        BY <2>2, <2>3, <2>5, <3>2
      <3>3. ASSUME NEW l \in 1..n, i = l + 1 PROVE u[i] = q[i]
        BY <2>2, <2>5, <3>3
      <3> QED
        BY <3>1, <3>2, <3>3
    <2>7. Len(u) = Len(q) /\ \A i \in 1..Len(u) : u[i] = q[i]
      BY <2>2, <2>5, <2>6
    <2> QED
      BY <2>1, <2>7, SeqEqual
  <1>4. Append(r, hd) \in Seq(S) /\ Append(r, hd) = r \o e
    BY <1>2, AppendProperties, AppendIsConcat
  <1>5. (r \o e) \o tl = r \o (e \o tl)
    BY ConcatAssociative, SMTT(30)
  <1> QED
    BY <1>1, <1>3, <1>4, <1>5

(* The messages differ.                                                    *)
LEMMA Kinds ==
    /\ \A p, q : /\ Forward(p) # Cancel(q) /\ Failure(p) # Forwarded(q)
                 /\ Forward(p) = Forward(q) => p = q
                 /\ Cancel(p) = Cancel(q) => p = q
                 /\ Failure(p) = Failure(q) => p = q
                 /\ Forwarded(p) = Forwarded(q) => p = q
    /\ \A p : /\ Forward(p).type \in Requests /\ Forward(p).port = p
              /\ Cancel(p).type \notin Requests /\ Cancel(p).port = p
              /\ Failure(p).type \in Answers /\ Failure(p).port = p
              /\ Forwarded(p).type \notin Answers /\ Forwarded(p).port = p
    /\ \A m \in ToServer : m = Forward(m.port) \/ m = Cancel(m.port)
    /\ \A m \in ToServer : /\ m.port \in Ports
                           /\ m = Forward(m.port) <=> m.type = "tcpip-forward"
                           /\ m = Cancel(m.port) <=> m.type = "cancel-tcpip-forward"
    /\ \A m \in ToClient : /\ m.port \in Ports
                           /\ m = Failure(m.port) <=> m.type = "failure"
                           /\ m = Forwarded(m.port) <=> m.type = "forwarded-tcpip"
                           /\ m.type \in Answers <=> m.type # "forwarded-tcpip"
  BY DEF Forward, Cancel, Failure, Forwarded, Requests, Answers, ToServer, ToClient

(* The ports under way differ, and each is that of a record.               *)
LEMMA PortsUnderWay ==
    ASSUME Inv, Recorded, NEW a \in Seq(Ports), NEW b \in Seq(Ports), Pending(a, b)
    PROVE  /\ Distinct(a) /\ Distinct(b) /\ \A x : ~(In(a, x) /\ In(b, x))
           /\ \A x : In(a, x) \/ In(b, x) =>
                  \E i \in 1..Len(globreq) : Port(globreq[i]) = x /\ globreq[i] \in rpfs
  <1>2. a \o b = PortsOf(globreq) /\ globreq \in Seq(Rpf)
    BY DEF Pending, Inv, TypeOK
  <1>3. /\ Distinct(globreq) /\ \A i \in 1..Len(globreq) : globreq[i] \in rpfs
        /\ \A q, r \in rpfs : Port(q) = Port(r) => q = r
    BY DEF Inv, Numbered, Recorded, ForwardedAsConfigured
  <1>4. /\ Distinct(PortsOf(globreq))
        /\ \A p : In(PortsOf(globreq), p) => \E i \in 1..Len(globreq) : Port(globreq[i]) = p
    BY <1>2, <1>3, PortsOfDistinct
  <1>5. Distinct(a) /\ Distinct(b) /\ \A x : ~(In(a, x) /\ In(b, x))
    BY <1>2, <1>4, DistinctConcat, ZenonT(30)
  <1>6. \A x : In(a, x) \/ In(b, x) => In(PortsOf(globreq), x)
    <2>1. \A x : In(a \o b, x) <=> In(a, x) \/ In(b, x)
      BY InConcat
    <2> QED
      BY <1>2, <2>1
  <1> QED
    BY <1>3, <1>4, <1>5, <1>6

(* A fault leaves the rest as it was.                                      *)
LEMMA FaultyInv ==
    ASSUME Inv, NEW f, Faulty(f), FaultHasCause' PROVE Inv'
  BY DEF Inv, Faulty, TypeOK, ForwardedAsConfigured, Numbered, Recorded, Matched, Pending,
         Settled, ServerPort, Wanted, Caused, TakenLater, TailFreed, TreeThere

LEMMA InitInv == Init => Inv
  <1> SUFFICES ASSUME Init PROVE Inv
    OBVIOUS
  <1> USE DEF Init
  <1>1. << >> \in Seq(Rpf) /\ << >> \in Seq(Ports) /\ << >> \in Seq(ToServer) /\ << >> \in Seq(ToClient)
    BY EmptySeq
  <1>2. TypeOK
    <2>1. globreq \in Seq(Rpf) /\ toServer \in Seq(ToServer) /\ toClient \in Seq(ToClient)
      BY <1>1, Zenon
    <2>2. nconfig \in 0..MaxConfig
      BY EntryAssumption
    <2>3. tail \in {"null", "last", "stale"} /\ tree \in BOOLEAN
      OBVIOUS
    <2> QED
      BY <2>1, <2>2, <2>3 DEF TypeOK
  <1>3. Numbered /\ Recorded /\ ForwardedAsConfigured
    BY DEF Numbered, Recorded, Distinct, ForwardedAsConfigured
  <1>4. Matched
    <2>1. Lists(toClient, Answers, << >>) /\ Lists(toServer, Requests, << >>)
      <3>1. /\ \A k \in 1..Len(toClient) : toClient[k].type \notin Answers
            /\ \A k \in 1..Len(toServer) : toServer[k].type \notin Requests
        OBVIOUS
      <3>2. toClient \in Seq(ToClient) /\ toServer \in Seq(ToServer)
        BY <1>1, Zenon
      <3> QED
        BY <3>1, <3>2, ListsNone, Zenon
    <2>2. << >> \o << >> = << >>
      BY <1>1, ConcatEmptySeq
    <2>3. PortsOf(globreq) = << >>
      <3>1. PICK s \in Seq(Ports) : s = << >>
        BY <1>1
      <3>2. Len(s) = Len(globreq) /\ \A i \in 1..Len(globreq) : s[i] = Port(globreq[i])
        BY <3>1
      <3> QED
        BY <1>1, <3>1, <3>2, PortsOfEqual
    <2> QED
      BY <1>1, <2>1, <2>2, <2>3 DEF Matched, Pending
  <1>5. Settled
    BY DEF Settled, ServerPort, Before, In, Wanted
  <1>6. Caused
    BY DEF Caused, TakenLater, TailFreed, TreeThere, In
  <1>7. FaultHasCause
    BY DEF FaultHasCause, NoFault
  <1> QED
    BY <1>2, <1>3, <1>4, <1>5, <1>6, <1>7 DEF Inv

LEMMA ServerForwardInv ==
    ASSUME Inv, ServerForward PROVE Inv'
  <1>1. /\ toServer \in Seq(ToServer) /\ toClient \in Seq(ToClient) /\ srv \subseteq Ports
        /\ toServer # << >> /\ toServer' = Tail(toServer)
    BY DEF Inv, TypeOK, ServerForward
  <1>2. Head(toServer) \in ToServer /\ Tail(toServer) \in Seq(ToServer)
    BY <1>1, HeadTailProperties
  <1>3. PICK p \in Ports : Head(toServer) = Forward(p) /\ p = Head(toServer).port
    BY <1>2, Kinds DEF ServerForward
  <1>4. PICK a \in Seq(Ports), b \in Seq(Ports) : Pending(a, b)
    BY DEF Inv, Matched
  <1>5. /\ b # << >> /\ Head(b) = p
        /\ Lists(Tail(toServer), Requests, Tail(b))
    <2>1. Lists(toServer, Requests, b)
      BY <1>4, Zenon DEF Pending
    <2>2. Head(toServer).type \in Requests /\ Head(toServer).port = p
      BY <1>3, Kinds, Zenon
    <2>3. /\ Head(toServer).type \in Requests =>
               b # << >> /\ Head(b) = Head(toServer).port
               /\ Lists(Tail(toServer), Requests, Tail(b))
          /\ toServer # << >>
      BY <1>1, <2>1, ListsTail, Zenon
    <2> QED
      BY <2>2, <2>3
  <1>6. PICK m \in ToClient :
          /\ m.type \in Answers /\ m.port = p
          /\ toClient' = Append(toClient, m)
          /\ \/ m = Failure(p) /\ srv' = srv
             \/ m.type = "success" /\ p \notin srv /\ srv' = srv \cup {p}
    <2>1. [type |-> "success", port |-> p] \in ToClient /\ Failure(p) \in ToClient
      BY DEF ToClient, Failure
    <2> QED
      BY <1>3, <2>1, Zenon DEF ServerForward, Failure, Answers
  <1>7. Lists(Append(toClient, m), Answers, Append(a, p))
    <2>1. Lists(toClient, Answers, a)
      BY <1>4 DEF Pending
    <2> QED
      BY <1>1, <1>6, <2>1, ListsAppend
  <1>8. /\ Append(a, p) \in Seq(Ports) /\ Tail(b) \in Seq(Ports)
        /\ Append(a, p) \o Tail(b) = a \o b
    BY <1>5, MoveHead
  <1>9. Matched'
    BY <1>1, <1>4, <1>5, <1>6, <1>7, <1>8 DEF Matched, Pending, ServerForward
  <1>10. TypeOK'
    <2>1. Append(toClient, m) \in Seq(ToClient)
      BY <1>1, <1>6, AppendProperties
    <2>2. srv' \subseteq Ports
      BY <1>1, <1>6
    <2> QED
      BY <1>1, <1>2, <1>6, <2>1, <2>2 DEF Inv, TypeOK, ServerForward
  <1>11. /\ (ForwardedAsConfigured /\ Numbered /\ FaultHasCause)'
         /\ Recorded' <=> Recorded
    BY DEF Inv, ServerForward, ForwardedAsConfigured, Numbered, Recorded, FaultHasCause, NoFault
  <1>12. \A x : In(toServer, x) <=> x = Forward(p) \/ In(toServer', x)
    BY <1>1, <1>3, InTail
  <1>13. \A x : In(toClient', x) <=> In(toClient, x) \/ x = m
    BY <1>1, <1>6, InAppend
  <1>14. /\ \A q : Forward(q) = Forward(p) => q = p
         /\ \A q : Failure(q) = m => q = p
         /\ \A q : Cancel(q) # Forward(p) /\ Forwarded(q) # m
         /\ m.type = "success" => m # Failure(p)
    BY <1>6, Kinds DEF Failure
  <1>15. ASSUME Recorded PROVE Settled'
    <2>0. /\ Distinct(a) /\ Distinct(b) /\ \A x : ~(In(a, x) /\ In(b, x))
          /\ \A x : In(a, x) \/ In(b, x) =>
                 \E i \in 1..Len(globreq) : Port(globreq[i]) = x /\ globreq[i] \in rpfs
      BY <1>4, <1>15, PortsUnderWay
    <2>1. ~In(toServer', Forward(p))
      <3>1. ~In(Tail(b), p)
        BY <1>5, <2>0, DistinctTail
      <3> QED
        BY <1>1, <1>5, <3>1, InLists, Kinds
    <2>2. Wanted(p) /\ ~In(toClient, Failure(p))
      <3>1. In(b, p)
        BY <1>5, InTail
      <3>2. ~In(a, p) /\ Wanted(p)
        BY <2>0, <3>1 DEF Wanted
      <3> QED
        <4>1. Lists(toClient, Answers, a) /\ Failure(p).type \in Answers /\ Failure(p).port = p
          BY <1>4, Kinds DEF Pending
        <4>2. In(toClient, Failure(p)) => In(a, Failure(p).port)
          BY <4>1, InLists
        <4> QED
          BY <3>2, <4>1, <4>2
    <2>3. \A q \in Ports : Before(toServer, Cancel(q), Forward(q)) /\ ServerPort(q)
      BY <1>15 DEF Inv, Settled
    <2>4. ~In(toServer, Cancel(p)) /\ \A q \in Ports : Before(toServer', Cancel(q), Forward(q))
      BY <1>1, <1>3, <2>3, BeforeTail
    <2>5. \A q : Wanted(q)' <=> Wanted(q)
      BY DEF Wanted, ServerForward
    <2>6. ASSUME NEW q \in Ports PROVE ServerPort(q)'
      <3>1. CASE q # p
        BY <1>6, <1>12, <1>13, <1>14, <2>3, <2>5, <3>1 DEF ServerPort
      <3>2. CASE q = p
        BY <1>6, <1>12, <1>13, <1>14, <2>1, <2>2, <2>3, <2>4, <2>5, <3>2 DEF ServerPort
      <3> QED
        BY <3>1, <3>2
    <2> QED
      BY <2>4, <2>6 DEF Settled
  <1>16. Caused'
    <2>1. tree
      BY <1>3, <1>12 DEF Inv, Caused, TreeThere
    <2> QED
      BY <2>1 DEF Inv, Caused, TakenLater, TailFreed, TreeThere, ServerForward
  <1> QED
    BY <1>9, <1>10, <1>11, <1>15, <1>16 DEF Inv

LEMMA ServerCancelInv ==
    ASSUME Inv, ServerCancel PROVE Inv'
  <1>1. /\ toServer \in Seq(ToServer) /\ srv \subseteq Ports
        /\ toServer # << >> /\ toServer' = Tail(toServer)
    BY DEF Inv, TypeOK, ServerCancel
  <1>2. Head(toServer) \in ToServer /\ Tail(toServer) \in Seq(ToServer)
    BY <1>1, HeadTailProperties
  <1>3. PICK p \in Ports : Head(toServer) = Cancel(p) /\ p = Head(toServer).port
    BY <1>2, Kinds DEF ServerCancel
  <1>4. PICK a \in Seq(Ports), b \in Seq(Ports) : Pending(a, b)
    BY DEF Inv, Matched
  <1>5. Lists(Tail(toServer), Requests, b)
    BY <1>1, <1>3, <1>4, ListsTail, Kinds DEF Pending
  <1>6. Matched'
    BY <1>1, <1>4, <1>5 DEF Matched, Pending, ServerCancel
  <1>7. TypeOK'
    <2>1. srv' \subseteq Ports
      BY <1>1 DEF ServerCancel
    <2> QED
      BY <1>1, <1>2, <2>1 DEF Inv, TypeOK, ServerCancel
  <1>8. /\ (ForwardedAsConfigured /\ Numbered /\ FaultHasCause)'
        /\ Recorded' <=> Recorded
    BY DEF Inv, ServerCancel, ForwardedAsConfigured, Numbered, Recorded, FaultHasCause, NoFault
  <1>9. \A x : In(toServer, x) <=> x = Cancel(p) \/ In(toServer', x)
    BY <1>1, <1>3, InTail
  <1>10. \A q : (Cancel(q) = Cancel(p) => q = p) /\ Forward(q) # Cancel(p)
    BY Kinds
  <1>11. srv' = srv \ {p} /\ toClient' = toClient
    BY <1>3 DEF ServerCancel
  <1>12. ASSUME Recorded PROVE Settled'
    <2>1. \A q \in Ports : Before(toServer, Cancel(q), Forward(q)) /\ ServerPort(q)
      BY <1>12 DEF Inv, Settled
    <2>2. \A q \in Ports : Before(toServer', Cancel(q), Forward(q))
      BY <1>1, <2>1, BeforeTail
    <2>3. \A q : Wanted(q)' <=> Wanted(q)
      BY DEF Wanted, ServerCancel
    <2>4. \A q \in Ports : ServerPort(q)'
      BY <1>9, <1>10, <1>11, <2>1, <2>3 DEF ServerPort
    <2> QED
      BY <2>2, <2>4 DEF Settled
  <1>13. Caused'
    BY <1>9, <1>11 DEF Inv, Caused, TakenLater, TailFreed, TreeThere, ServerCancel
  <1> QED
    BY <1>6, <1>7, <1>8, <1>12, <1>13 DEF Inv

LEMMA ServerConnectInv ==
    ASSUME Inv, ServerConnect PROVE Inv'
  <1>1. toClient \in Seq(ToClient) /\ srv \subseteq Ports
    BY DEF Inv, TypeOK
  <1>2. PICK p \in Ports : toClient' = Append(toClient, Forwarded(p))
    BY <1>1 DEF ServerConnect, Forwarded
  <1>3. Forwarded(p) \in ToClient
    BY DEF Forwarded, ToClient
  <1>4. PICK a \in Seq(Ports), b \in Seq(Ports) : Pending(a, b)
    BY DEF Inv, Matched
  <1>5. Lists(Append(toClient, Forwarded(p)), Answers, a)
    BY <1>1, <1>3, <1>4, ListsAppend, Kinds DEF Pending
  <1>6. Matched'
    BY <1>2, <1>4, <1>5 DEF Matched, Pending, ServerConnect
  <1>7. TypeOK'
    <2>1. Append(toClient, Forwarded(p)) \in Seq(ToClient)
      BY <1>1, <1>3, AppendProperties
    <2> QED
      BY <1>2, <2>1 DEF Inv, TypeOK, ServerConnect
  <1>8. /\ (ForwardedAsConfigured /\ Numbered /\ FaultHasCause)'
        /\ Recorded' <=> Recorded
    BY DEF Inv, ServerConnect, ForwardedAsConfigured, Numbered, Recorded, FaultHasCause, NoFault
  <1>9. \A x : In(toClient', x) <=> In(toClient, x) \/ x = Forwarded(p)
    BY <1>1, <1>2, <1>3, InAppend
  <1>10. \A q : Failure(q) # Forwarded(p)
    BY Kinds
  <1>11. ASSUME Recorded PROVE Settled'
    <2>1. Settled
      BY <1>11 DEF Inv
    <2> QED
      BY <1>9, <1>10, <2>1 DEF Settled, ServerPort, Wanted, ServerConnect
  <1>12. Caused'
    BY DEF Inv, Caused, TakenLater, TailFreed, TreeThere, ServerConnect
  <1> QED
    BY <1>6, <1>7, <1>8, <1>11, <1>12 DEF Inv

LEMMA ForwardedOpenInv ==
    ASSUME Inv, ForwardedOpen PROVE Inv'
  <1>1. toClient \in Seq(ToClient) /\ toClient # << >>
    BY DEF Inv, TypeOK, ForwardedOpen
  <1>2. Head(toClient) \in ToClient /\ Tail(toClient) \in Seq(ToClient)
    BY <1>1, HeadTailProperties
  <1>3. PICK p \in Ports : Head(toClient) = Forwarded(p)
    BY <1>2, Kinds DEF ForwardedOpen
  <1>4. \A x : In(toClient, x) <=> x = Forwarded(p) \/ In(Tail(toClient), x)
    BY <1>1, <1>3, InTail
  <1>5. CASE ~tree
    <2>1. Faulty("no tree of forwardings")
      BY <1>5 DEF ForwardedOpen
    <2>2. rpfs = {} /\ globreq = << >> /\ srv = {}
      BY <1>5 DEF Inv, Caused, TreeThere
    <2>3. FaultHasCause'
      BY <2>1, <2>2 DEF Faulty, FaultHasCause
    <2> QED
      BY <2>1, <2>3, FaultyInv
  <1>6. CASE tree
    <2>1. /\ toClient' = Tail(toClient)
          /\ UNCHANGED <<conf, fwd, dangling, local, rpfs, tree, globreq, tail, nconfig, toServer, srv, fault>>
      BY <1>6 DEF ForwardedOpen
    <2>2. PICK a \in Seq(Ports), b \in Seq(Ports) : Pending(a, b)
      BY DEF Inv, Matched
    <2>3. Lists(Tail(toClient), Answers, a)
      BY <1>1, <1>3, <2>2, ListsTail, Kinds DEF Pending
    <2>4. Matched'
      BY <2>1, <2>2, <2>3 DEF Matched, Pending
    <2>5. TypeOK'
      BY <1>2, <2>1 DEF Inv, TypeOK
    <2>6. /\ (ForwardedAsConfigured /\ Numbered /\ FaultHasCause)'
          /\ Recorded' <=> Recorded
      BY <2>1 DEF Inv, ForwardedOpen, ForwardedAsConfigured, Numbered, Recorded, FaultHasCause, NoFault
    <2>7. \A q : Failure(q) # Forwarded(p)
      BY Kinds
    <2>8. ASSUME Recorded PROVE Settled'
      <3>1. Settled
        BY <2>8 DEF Inv
      <3> QED
        BY <1>4, <2>1, <2>7, <3>1 DEF Settled, ServerPort, Wanted
    <2>9. Caused'
      BY <2>1 DEF Inv, Caused, TakenLater, TailFreed, TreeThere
    <2> QED
      BY <2>4, <2>5, <2>6, <2>8, <2>9 DEF Inv
  <1> QED
    BY <1>5, <1>6

LEMMA GlobalReplyInv ==
    ASSUME Inv, GlobalReply PROVE Inv'
  <1>1. /\ toClient \in Seq(ToClient) /\ toClient # << >> /\ globreq \in Seq(Rpf)
        /\ rpfs \subseteq Rpf /\ fwd \subseteq Entry
    BY DEF Inv, TypeOK, GlobalReply
  <1>2. Head(toClient) \in ToClient /\ Tail(toClient) \in Seq(ToClient)
    BY <1>1, HeadTailProperties
  <1>3. PICK m \in ToClient : m = Head(toClient) /\ m.type \in Answers
    BY <1>2, Kinds DEF GlobalReply
  <1>4. PICK a \in Seq(Ports), b \in Seq(Ports) : Pending(a, b)
    BY DEF Inv, Matched
  <1>5. a # << >> /\ Head(a) = m.port /\ Lists(Tail(toClient), Answers, Tail(a))
    BY <1>1, <1>3, <1>4, ListsTail DEF Pending
  <1>6. a \o b # << >> /\ Head(a \o b) = Head(a) /\ Tail(a \o b) = Tail(a) \o b
    BY <1>5, ConcatSimplifications, ConcatEmptySeq
  <1>7. globreq # << >>
    <2>1. Len(PortsOf(globreq)) = Len(globreq)
      BY <1>1, PortsOfAt
    <2> QED
      BY <1>1, <1>4, <1>6, <2>1, EmptySeq, PortsOfAt DEF Pending
  <1>8. PICK h \in Rpf : h = Head(globreq) /\ Tail(globreq) \in Seq(Rpf) /\ In(globreq, h)
    BY <1>1, <1>7, HeadTailProperties, InTail
  <1>9. CASE h \notin rpfs
    <2>1. Faulty("forwarding used after free")
      BY <1>7, <1>8, <1>9 DEF GlobalReply
    <2>2. Head(globreq)[2] < nconfig
      BY <1>8, <1>9 DEF Inv, Caused, TakenLater, In
    <2>3. FaultHasCause'
      BY <2>1, <2>2 DEF Faulty, FaultHasCause
    <2> QED
      BY <2>1, <2>3, FaultyInv
  <1>10. CASE h \in rpfs
    <2>1. Port(h) = m.port /\ Tail(a) \o b = PortsOf(Tail(globreq))
      BY <1>1, <1>4, <1>5, <1>6, <1>7, <1>8, PortsOfTail DEF Pending
    <2>2. /\ globreq' = Tail(globreq) /\ toClient' = Tail(toClient)
           /\ tail' \in {"stale", tail} /\ (Len(globreq) # 1 => tail' = tail)
           /\ UNCHANGED <<conf, tree, nconfig, toServer, srv, fault, local, dangling>>
           /\ \/ m.type = "success" /\ rpfs' = rpfs /\ fwd' = fwd
              \/ m.type = "failure" /\ rpfs' = rpfs \ {h} /\ fwd' = fwd \ {h[1]}
      BY <1>3, <1>7, <1>8, <1>10 DEF GlobalReply, rportfwd_globreq_response, Answers
    <2>3. Matched'
      <3>1. Tail(a) \in Seq(Ports)
        BY <1>5, HeadTailProperties
      <3> QED
        BY <1>4, <1>5, <2>1, <2>2, <3>1 DEF Matched, Pending
    <2>4. /\ \A q, r \in rpfs : Port(q) = Port(r) => q = r
          /\ {r[1] : r \in rpfs} = (fwd \ dangling) \cap Remote
          /\ \A e \in dangling : \E f \in (conf \ {e}) \cap Remote : Src[f] = Src[e]
          /\ fwd \subseteq conf
      BY DEF Inv, ForwardedAsConfigured
    <2>5. TypeOK' /\ ForwardedAsConfigured'
      <3>1. h[1] \in fwd \ dangling
        BY <1>10, <2>4
      <3>2. TypeOK'
        <4>1. tail' \in {"null", "last", "stale"}
          BY <2>2 DEF Inv, TypeOK
        <4> QED
          BY <1>2, <1>8, <2>2, <3>1, <4>1 DEF Inv, TypeOK
      <3>3. \A r \in rpfs : r[1] = h[1] => r = h
        BY <1>10, <2>4 DEF Port
      <3>4. {r[1] : r \in rpfs \ {h}} = ((fwd \ {h[1]}) \ dangling) \cap Remote
        BY <1>10, <2>4, <3>3
      <3>5. {r[1] : r \in rpfs'} = (fwd' \ dangling') \cap Remote
        BY <2>2, <2>4, <3>4
      <3>6. \A q, r \in rpfs' : Port(q) = Port(r) => q = r
        BY <2>2, <2>4
      <3>7. fwd' \subseteq conf'
        BY <2>2, <2>4
      <3>8. \A e \in dangling' : \E f \in (conf' \ {e}) \cap Remote : Src[f] = Src[e]
        BY <2>2, <2>4
      <3> QED
        BY <3>2, <3>5, <3>6, <3>7, <3>8 DEF ForwardedAsConfigured
    <2>6. Numbered' /\ (Recorded' <=> Recorded) /\ FaultHasCause'
      <3>1. Distinct(globreq) /\ \A i \in 1..Len(globreq) : globreq[i][2] <= nconfig
        BY DEF Inv, Numbered
      <3>2. Distinct(Tail(globreq)) /\ ~In(Tail(globreq), h)
        BY <1>1, <1>7, <1>8, <3>1, DistinctTail
      <3>3. \A x : In(globreq, x) <=> x = h \/ In(globreq', x)
        BY <1>1, <1>7, <1>8, <2>2, InTail
      <3>4. \A i \in 1..Len(globreq') : globreq'[i][2] <= nconfig'
        <4>1. \A x : In(globreq, x) => x[2] <= nconfig
          BY <3>1 DEF In
        <4>2. \A i \in 1..Len(globreq') : In(globreq', globreq'[i])
          BY Zenon DEF In
        <4> QED
          BY <2>2, <3>3, <4>1, <4>2
      <3>5. \A r \in rpfs' : r[2] <= nconfig'
        BY <2>2 DEF Inv, Numbered
      <3>6. /\ Recorded <=> \A x : In(globreq, x) => x \in rpfs
            /\ Recorded' <=> \A x : In(globreq', x) => x \in rpfs'
        BY DEF Recorded, In
      <3>7. Recorded' <=> Recorded
        <4>1. \A x : In(globreq', x) => x # h
          BY <2>2, <3>2
        <4>2. \A x : x # h => (x \in rpfs' <=> x \in rpfs)
          BY <2>2
        <4> QED
          BY <1>10, <3>3, <3>6, <4>1, <4>2
      <3>8. FaultHasCause'
        BY <2>2 DEF GlobalReply, FaultHasCause, NoFault
      <3> QED
        BY <2>2, <3>2, <3>4, <3>5, <3>7, <3>8 DEF Numbered
    <2>7. \A x : In(toClient, x) <=> x = m \/ In(toClient', x)
      BY <1>1, <1>3, <2>2, InTail
    <2>8. ASSUME Recorded PROVE Settled'
      <3>1. \A q \in Ports : Before(toServer, Cancel(q), Forward(q)) /\ ServerPort(q)
        BY <2>8 DEF Inv, Settled
      <3>2. \A q \in Ports : Before(toServer', Cancel(q), Forward(q))
        BY <2>2, <3>1
      <3>3. CASE m.type = "success"
        <4>1. rpfs' = rpfs
          BY <2>2, <3>3
        <4>2. \A q : Failure(q) # m
          BY <3>3 DEF Failure
        <4>3. \A q \in Ports : ServerPort(q)'
          BY <2>2, <2>7, <3>1, <4>1, <4>2 DEF ServerPort, Wanted
        <4> QED
          BY <3>2, <4>3 DEF Settled
      <3>4. CASE m.type = "failure"
        <4>1. rpfs' = rpfs \ {h} /\ m = Failure(Port(h)) /\ Port(h) \in Ports
          BY <2>1, <2>2, <3>4, Kinds
        <4>2. \A q : Failure(q) = m => q = Port(h)
          BY <4>1, Kinds
        <4>3. \A r \in rpfs : Port(r) = Port(h) => r = h
          BY <1>10, <2>4
        <4>4. /\ ~Wanted(Port(h))' /\ Wanted(Port(h))
              /\ \A q : q # Port(h) => (Wanted(q)' <=> Wanted(q))
          BY <1>10, <4>1, <4>3 DEF Wanted
        <4>5. In(toClient, Failure(Port(h)))
          BY <2>7, <4>1
        <4>6. ASSUME NEW q \in Ports PROVE ServerPort(q)'
          <5>1. CASE q # Port(h)
            BY <2>2, <2>7, <3>1, <4>2, <4>4, <5>1 DEF ServerPort
          <5>2. CASE q = Port(h)
            BY <2>2, <2>7, <3>1, <4>4, <4>5, <5>2 DEF ServerPort
          <5> QED
            BY <5>1, <5>2
        <4> QED
          BY <3>2, <4>6 DEF Settled
      <3> QED
        BY <2>2, <3>3, <3>4
    <2>9. Caused'
      <3>1. TakenLater'
        <4>1. \A x : In(globreq, x) => x \in rpfs \/ x[2] < nconfig
          BY DEF Inv, Caused, TakenLater, In
        <4>2. \A x : In(globreq', x) => In(globreq, x) /\ x # h
          <5>1. Distinct(globreq)
            BY DEF Inv, Numbered
          <5>2. ~In(Tail(globreq), h) /\ \A x : In(globreq, x) <=> x = h \/ In(Tail(globreq), x)
            BY <1>1, <1>7, <1>8, <5>1, DistinctTail, InTail
          <5> QED
            BY <2>2, <5>2
        <4>3. \A x : In(globreq', x) => x \in rpfs' \/ x[2] < nconfig'
          BY <2>2, <4>1, <4>2
        <4>4. \A i \in 1..Len(globreq') : In(globreq', globreq'[i])
          BY Zenon DEF In
        <4> QED
          BY <4>3, <4>4 DEF TakenLater
      <3>2. TailFreed'
        <4>1. tail # "stale"
          BY <1>7 DEF Inv, Caused, TailFreed
        <4>2. Len(globreq) = 1 => Tail(globreq) = << >>
          <5>1. Len(Tail(globreq)) = Len(globreq) - 1 /\ Tail(globreq) \in Seq(Rpf)
            BY <1>1, <1>7, HeadTailProperties
          <5>2. Len(globreq) = 1 /\ Len(Tail(globreq)) = Len(globreq) - 1 => Len(Tail(globreq)) = 0
            OBVIOUS
          <5>3. \A q \in Seq(Rpf) : Len(q) = 0 => q = << >>
            BY EmptySeq
          <5> QED
            BY <5>1, <5>2, <5>3, Zenon
        <4> QED
          BY <2>2, <4>1, <4>2 DEF TailFreed
      <3>3. tree /\ tree' = tree
        BY <1>7, <2>2 DEF Inv, Caused, TreeThere
      <3> QED
        BY <3>1, <3>2, <3>3 DEF Caused, TreeThere
    <2> QED
      BY <2>3, <2>5, <2>6, <2>8, <2>9 DEF Inv
  <1> QED
    BY <1>9, <1>10

(* A configuration c that is applied, asked being the new remote entries   *)
(* that get a record.                                                      *)
Applied(c, fails, asked) ==
    LET gone == {r \in rpfs : r[1] \in fwd \ c}
    IN  /\ nconfig + 1 \in 1..MaxConfig
        /\ dangling = {}
        /\ asked \subseteq (c \ fwd) \cap Remote
        /\ \A e, f \in asked : Src[e] = Src[f] => e = f
        /\ \A e \in asked, r \in rpfs \ gone : Src[e] # Port(r)
        /\ \A e \in ((c \ fwd) \cap Remote) \ asked :
               \E f \in (c \ {e}) \cap Remote : Src[f] = Src[e]
        /\ conf' = c /\ fwd' = c /\ dangling' = ((c \ fwd) \cap Remote) \ asked
        /\ local' = (local \ (fwd \ c)) \cup ((c \ fwd) \ (Remote \cup fails))
        /\ rpfs' = (rpfs \ gone) \cup {<<e, nconfig + 1>> : e \in asked}
        /\ tree' = (tree \/ (c \ fwd) \cap Remote # {})
        /\ toServer' = (toServer \o Messages("cancel-tcpip-forward", {r[1] : r \in gone}))
                                 \o Messages("tcpip-forward", asked)
        /\ globreq' = globreq \o Contexts(asked, nconfig + 1)
        /\ tail' \in {tail, "last"} /\ (tail' = "stale" => asked = {})
        /\ nconfig' = nconfig + 1
        /\ fault = "none"
        /\ UNCHANGED <<toClient, srv, fault>>

(* It is applied, or there is a fault that has its cause.                  *)
LEMMA ReconfigStep ==
    ASSUME Inv, Reconfig
    PROVE  \/ \E f : Faulty(f) /\ FaultHasCause'
           \/ \E c \in SUBSET Entry, fails, asked \in SUBSET Entry : Applied(c, fails, asked)
  <1>1. PICK c \in SUBSET Entry, fails \in SUBSET Entry :
          fault = "none" /\ nconfig < MaxConfig /\ portfwdmgr_config(c, fails)
    <2>1. PICK c \in SUBSET Entry : \E fails \in SUBSET ((c \ fwd) \ Remote) :
            fault = "none" /\ nconfig < MaxConfig /\ portfwdmgr_config(c, fails)
      BY DEF Reconfig
    <2>2. SUBSET ((c \ fwd) \ Remote) \subseteq SUBSET Entry
      OBVIOUS
    <2> QED
      BY <2>1, <2>2
  <1> DEFINE N == (c \ fwd) \cap Remote
             gone == {r \in rpfs : r[1] \in fwd \ c}
             kept == {r[1] : r \in rpfs \ gone}
             asked == {e \in N : \A f \in kept \cup {g \in N : g < e} : Src[f] # Src[e]}
  <1>2. /\ {r[1] : r \in rpfs} = (fwd \ dangling) \cap Remote
        /\ nconfig \in 0..MaxConfig
    BY DEF Inv, ForwardedAsConfigured, TypeOK
  <1>3. nconfig + 1 \in 1..MaxConfig
    BY <1>1, <1>2, EntryAssumption
  <1>5. kept \subseteq c \cap Remote /\ kept \subseteq fwd
    BY <1>2
  <1>6. \A e \in N : \A f \in kept \cup {g \in N : g < e} : f \in c \cap Remote /\ f # e
    <2> SUFFICES ASSUME NEW e \in N, NEW f \in kept \cup {g \in N : g < e}
                 PROVE  f \in c \cap Remote /\ f # e
      OBVIOUS
    <2>1. CASE f \in kept
      BY <1>5, <2>1
    <2>2. CASE f \in N /\ f < e
      <3>1. e \in Nat /\ f \in Nat
        BY <2>2, EntryAssumption
      <3> QED
        BY <2>2, <3>1
    <2> QED
      BY <2>1, <2>2
  <1>8. \A e, f \in asked : Src[e] = Src[f] => e = f
    <2> SUFFICES ASSUME NEW e \in asked, NEW f \in asked, Src[e] = Src[f] PROVE e = f
      OBVIOUS
    <2>1. e \in Nat /\ f \in Nat
      BY EntryAssumption
    <2>2. ~(e < f) /\ ~(f < e)
      OBVIOUS
    <2> QED
      BY <2>1, <2>2
  <1>9. \A e \in asked, r \in rpfs \ gone : Src[e] # Port(r)
    BY DEF Port
  <1>10. \A e \in N \ asked : \E f \in (c \ {e}) \cap Remote : Src[f] = Src[e]
    BY <1>6
  <1>11. asked = {e \in (c \ fwd) \cap Remote :
                    \A f \in kept \cup {g \in (c \ fwd) \cap Remote : g < e} : Src[f] # Src[e]}
    OBVIOUS
  <1>12. asked \subseteq N
    OBVIOUS
  <1> HIDE DEF asked
  <1>13. CASE ConfigFault(c, asked) # "none"
    <2>1. Faulty(ConfigFault(c, asked))
      BY <1>1, <1>11, <1>13, Zenon DEF portfwdmgr_config
    <2>2. \/ ConfigFault(c, asked) = "record used after free" /\ dangling # {}
          \/ ConfigFault(c, asked) = "globreq_tail used after free" /\ asked # {} /\ tail = "stale"
      BY <1>13 DEF ConfigFault
    <2>3. fault' = ConfigFault(c, asked)
      BY <2>1 DEF Faulty
    <2>4. dangling # {} => \E e, f \in conf' \cap Remote : e # f /\ Src[e] = Src[f]
      <3> SUFFICES ASSUME dangling # {}
                   PROVE  \E e, f \in conf' \cap Remote : e # f /\ Src[e] = Src[f]
        OBVIOUS
      <3>1. PICK e \in dangling : TRUE
        OBVIOUS
      <3>2. PICK f \in (conf \ {e}) \cap Remote : Src[f] = Src[e]
        BY DEF Inv, ForwardedAsConfigured
      <3>3. e \in conf
        BY DEF Inv, ForwardedAsConfigured, TypeOK
      <3>4. e \in Remote
        BY DEF Inv, TypeOK
      <3>5. conf' = conf
        BY <2>1 DEF Faulty
      <3> QED
        BY <3>2, <3>3, <3>4, <3>5
    <2>5. tail = "stale" => globreq' = << >>
      BY <2>1 DEF Inv, Caused, TailFreed, Faulty
    <2>6. FaultHasCause'
      BY <2>2, <2>3, <2>4, <2>5 DEF FaultHasCause
    <2> QED
      BY <2>1, <2>6
  <1>14. CASE ConfigFault(c, asked) = "none"
    <2>1. /\ conf' = c /\ fwd' = c /\ dangling' = N \ asked
          /\ local' = (local \ (fwd \ c)) \cup ((c \ fwd) \ (Remote \cup fails))
          /\ rpfs' = (rpfs \ gone) \cup {<<e, nconfig + 1>> : e \in asked}
          /\ tree' = (tree \/ N # {})
          /\ toServer' = (toServer \o ssh2_rportfwd_remove(gone)) \o Messages("tcpip-forward", asked)
          /\ queue_global_request_handler([i \in 1..Cardinality(asked) |-> <<Sorted(asked)[i], nconfig + 1>>])
          /\ nconfig' = nconfig + 1
          /\ UNCHANGED <<toClient, srv, fault>>
      BY <1>1, <1>11, <1>14, Zenon DEF portfwdmgr_config
    <2>2. dangling = {} /\ (asked = {} \/ tail # "stale")
      BY <1>14 DEF ConfigFault
    <2>3. /\ globreq' = globreq \o Contexts(asked, nconfig + 1)
          /\ tail' \in {tail, "last"} /\ (tail' = "stale" => asked = {})
      <3>1. queue_global_request_handler(Contexts(asked, nconfig + 1))
        BY <2>1 DEF Contexts
      <3> QED
        BY <2>2, <3>1 DEF queue_global_request_handler
    <2>4. toServer' = (toServer \o Messages("cancel-tcpip-forward", {r[1] : r \in gone}))
                                \o Messages("tcpip-forward", asked)
      BY <2>1 DEF ssh2_rportfwd_remove
    <2>5. Applied(c, fails, asked)
      BY <1>1, <1>3, <1>8, <1>9, <1>10, <1>12, <2>1, <2>2, <2>3, <2>4 DEF Applied
    <2> QED
      BY <1>12, <2>5
  <1> QED
    BY <1>13, <1>14

LEMMA ConcatAssoc ==
    ASSUME NEW S, NEW a \in Seq(S), NEW b \in Seq(S), NEW c \in Seq(S)
    PROVE  a \o (b \o c) = (a \o b) \o c
  BY ConcatAssociative, SMTT(30)

LEMMA AppliedInv ==
    ASSUME Inv, NEW c \in SUBSET Entry, NEW fails \in SUBSET Entry, NEW N \in SUBSET Entry,
           Applied(c, fails, N)
    PROVE  Inv'
  <1>2. PICK gone, k, cs, fs, ctx :
          /\ gone = {r \in rpfs : r[1] \in fwd \ c}
          /\ k = nconfig + 1
          /\ cs = Messages("cancel-tcpip-forward", {r[1] : r \in gone})
          /\ fs = Messages("tcpip-forward", N)
          /\ ctx = Contexts(N, k)
    OBVIOUS
  <1>3. /\ k \in 1..MaxConfig
        /\ dangling = {}
        /\ N \subseteq (c \ fwd) \cap Remote
        /\ \A e, f \in N : Src[e] = Src[f] => e = f
        /\ \A e \in N, r \in rpfs \ gone : Src[e] # Port(r)
        /\ \A e \in ((c \ fwd) \cap Remote) \ N :
               \E f \in (c \ {e}) \cap Remote : Src[f] = Src[e]
        /\ conf' = c /\ fwd' = c /\ dangling' = ((c \ fwd) \cap Remote) \ N
        /\ local' = (local \ (fwd \ c)) \cup ((c \ fwd) \ (Remote \cup fails))
        /\ rpfs' = (rpfs \ gone) \cup {<<e, k>> : e \in N}
        /\ tree' = (tree \/ (c \ fwd) \cap Remote # {})
        /\ toServer' = (toServer \o cs) \o fs
        /\ globreq' = globreq \o ctx
        /\ tail' \in {tail, "last"} /\ (tail' = "stale" => N = {})
        /\ nconfig' = k
        /\ fault = "none"
        /\ UNCHANGED <<toClient, srv, fault>>
    <2>1. /\ toServer' = (toServer \o cs) \o fs
          /\ globreq' = globreq \o ctx
      BY <1>2, Zenon DEF Applied
    <2>2. /\ k \in 1..MaxConfig
          /\ dangling = {}
          /\ N \subseteq (c \ fwd) \cap Remote
          /\ \A e, f \in N : Src[e] = Src[f] => e = f
          /\ \A e \in N, r \in rpfs \ gone : Src[e] # Port(r)
          /\ \A e \in ((c \ fwd) \cap Remote) \ N :
                 \E f \in (c \ {e}) \cap Remote : Src[f] = Src[e]
      BY <1>2 DEF Applied
    <2>3. /\ conf' = c /\ fwd' = c /\ dangling' = ((c \ fwd) \cap Remote) \ N
          /\ local' = (local \ (fwd \ c)) \cup ((c \ fwd) \ (Remote \cup fails))
          /\ tree' = (tree \/ (c \ fwd) \cap Remote # {})
          /\ tail' \in {tail, "last"} /\ (tail' = "stale" => N = {})
          /\ UNCHANGED <<toClient, srv, fault>>
      BY Zenon DEF Applied
    <2>4. rpfs' = (rpfs \ gone) \cup {<<e, k>> : e \in N} /\ nconfig' = k /\ fault = "none"
      BY <1>2 DEF Applied
    <2> QED
      BY <2>1, <2>2, <2>3, <2>4, Zenon
  <1>4. /\ TypeOK /\ rpfs \subseteq Rpf /\ globreq \in Seq(Rpf)
        /\ toServer \in Seq(ToServer) /\ toClient \in Seq(ToClient)
        /\ nconfig \in Nat /\ k \in Nat /\ nconfig < k
    BY <1>2, <1>3 DEF Inv, TypeOK
  <1>5. /\ \A q, r \in rpfs : Port(q) = Port(r) => q = r
        /\ {r[1] : r \in rpfs} = fwd \cap Remote
    BY <1>3 DEF Inv, ForwardedAsConfigured
  <1>6. /\ Distinct(globreq)
        /\ \A i \in 1..Len(globreq) : globreq[i][2] <= nconfig
        /\ \A r \in rpfs : r[2] <= nconfig
    BY DEF Inv, Numbered
  <1>7. N \subseteq Remote /\ {r[1] : r \in gone} \subseteq Remote
    BY <1>2, <1>3, <1>5
  <1>8. /\ cs \in Seq(ToServer) /\ fs \in Seq(ToServer)
        /\ \A x : In(cs, x) <=> \E r \in gone : x = Cancel(Port(r))
        /\ \A x : In(fs, x) <=> \E e \in N : x = Forward(Src[e])
    <2>1. /\ cs \in Seq([type : {"cancel-tcpip-forward"}, port : Ports])
          /\ \A x : In(cs, x) <=> \E e \in {r[1] : r \in gone} :
                                     x = [type |-> "cancel-tcpip-forward", port |-> Src[e]]
      <3>1. Announces(Messages("cancel-tcpip-forward", {r[1] : r \in gone}),
                      "cancel-tcpip-forward", {r[1] : r \in gone})
        BY <1>7, MessagesAre
      <3> QED
        BY <1>2, <3>1, Zenon DEF Announces
    <2>2. /\ fs \in Seq([type : {"tcpip-forward"}, port : Ports])
          /\ \A x : In(fs, x) <=> \E e \in N : x = [type |-> "tcpip-forward", port |-> Src[e]]
      <3>1. Announces(Messages("tcpip-forward", N), "tcpip-forward", N)
        BY <1>7, MessagesAre
      <3> QED
        BY <1>2, <3>1, Zenon DEF Announces
    <2>3. /\ [type : {"cancel-tcpip-forward"}, port : Ports] \subseteq ToServer
          /\ [type : {"tcpip-forward"}, port : Ports] \subseteq ToServer
      BY DEF ToServer
    <2>4. cs \in Seq(ToServer) /\ fs \in Seq(ToServer)
      BY <2>1, <2>2, <2>3, SeqMonotonic
    <2>5. \A x : In(cs, x) <=> \E r \in gone : x = Cancel(Port(r))
      BY <2>1 DEF Cancel, Port
    <2>6. \A x : In(fs, x) <=> \E e \in N : x = Forward(Src[e])
      BY <2>2 DEF Forward
    <2> QED
      BY <2>4, <2>5, <2>6
  <1>9. /\ ctx \in Seq(Rpf) /\ Distinct(ctx)
        /\ \A i \in 1..Len(ctx) : \E e \in N : ctx[i] = <<e, k>>
        /\ Lists(fs, Requests, PortsOf(ctx))
    <2>1. "tcpip-forward" \in Requests
      BY DEF Requests
    <2> QED
      <3>1. PICK t \in Requests : t = "tcpip-forward"
        BY <2>1
      <3>2. /\ Contexts(N, k) \in Seq(Rpf) /\ Distinct(Contexts(N, k))
            /\ \A i \in 1..Len(Contexts(N, k)) : \E e \in N : Contexts(N, k)[i] = <<e, k>>
            /\ Lists(Messages(t, N), Requests, PortsOf(Contexts(N, k)))
        BY <1>3, <1>7, ContextsAre
      <3> QED
        BY <1>2, <3>1, <3>2, Zenon
  <1>10. PICK ts : ts = toServer \o cs /\ ts \in Seq(ToServer)
    BY <1>4, <1>8, ConcatProperties
  <1>11. /\ \A x : In(ts, x) <=> In(toServer, x) \/ In(cs, x)
         /\ toServer' = ts \o fs /\ ts \o fs \in Seq(ToServer)
         /\ \A x : In(toServer', x) <=> In(ts, x) \/ In(fs, x)
    <2>1. \A x : In(ts, x) <=> In(toServer, x) \/ In(cs, x)
      BY <1>4, <1>8, <1>10, InConcat
    <2>2. \A x : In(ts \o fs, x) <=> In(ts, x) \/ In(fs, x)
      BY <1>8, <1>10, InConcat, ZenonT(30)
    <2>3. ts \o fs \in Seq(ToServer)
      BY <1>8, <1>10, ConcatProperties
    <2> QED
      BY <1>3, <1>10, <2>1, <2>2, <2>3
  <1>12. TypeOK'
    <2>1. globreq' \in Seq(Rpf)
      BY <1>3, <1>4, <1>9, ConcatProperties
    <2>2. rpfs' \subseteq Rpf
      BY <1>3, <1>4, <1>7 DEF Rpf
    <2>3. local' \subseteq Entry \ Remote
      BY <1>3, <1>4 DEF TypeOK
    <2>4. tree' \in BOOLEAN /\ tail' \in {"null", "last", "stale"} /\ nconfig' \in 0..MaxConfig
      <3>1. tail' \in {"null", "last", "stale"} /\ nconfig' \in 0..MaxConfig
        BY <1>3, <1>4 DEF TypeOK
      <3>2. (tree \/ (c \ fwd) \cap Remote # {}) \in BOOLEAN
        BY <1>4 DEF TypeOK
      <3> QED
        BY <1>3, <3>1, <3>2
    <2>5. dangling' \subseteq fwd' \cap Remote
      BY <1>3
    <2> QED
      BY <1>3, <1>4, <1>11, <2>1, <2>2, <2>3, <2>4, <2>5 DEF TypeOK, Inv
  <1>13. \A r \in rpfs \ gone : r[1] \in c \cap fwd \cap Remote
    BY <1>2, <1>5
  <1>14. \A q, r \in rpfs' : Port(q) = Port(r) => q = r
    <2>1. ASSUME NEW q \in rpfs', NEW r \in rpfs', Port(q) = Port(r) PROVE q = r
      <3>1. \A e : Port(<<e, k>>) = Src[e]
        BY DEF Port
      <3>2. CASE q \in rpfs \ gone /\ r \in rpfs \ gone
        BY <1>5, <2>1, <3>2
      <3>3. CASE q \in {<<e, k>> : e \in N} /\ r \in {<<e, k>> : e \in N}
        <4>1. PICK e \in N, f \in N : q = <<e, k>> /\ r = <<f, k>>
          BY <3>3
        <4>2. Src[e] = Src[f]
          BY <2>1, <3>1, <4>1
        <4> QED
          BY <1>3, <4>1, <4>2
      <3>4. CASE q \in rpfs \ gone /\ r \in {<<e, k>> : e \in N}
        <4>1. PICK e \in N : r = <<e, k>>
          BY <3>4
        <4>2. Src[e] # Port(q)
          BY <1>3, <3>4
        <4> QED
          BY <2>1, <3>1, <4>1, <4>2
      <3>5. CASE q \in {<<e, k>> : e \in N} /\ r \in rpfs \ gone
        <4>1. PICK e \in N : q = <<e, k>>
          BY <3>5
        <4>2. Src[e] # Port(r)
          BY <1>3, <3>5
        <4> QED
          BY <2>1, <3>1, <4>1, <4>2
      <3> QED
        BY <1>3, <3>2, <3>3, <3>4, <3>5
    <2> QED
      BY <2>1
  <1>15. ForwardedAsConfigured'
    <2>1. ASSUME NEW e \in (c \ dangling') \cap Remote PROVE \E r \in rpfs' : r[1] = e
      <3>1. CASE e \in fwd
        <4>1. PICK r \in rpfs : r[1] = e
          BY <1>5, <3>1
        <4>2. r \in rpfs'
          BY <1>2, <1>3, <4>1
        <4> QED
          BY <4>1, <4>2
      <3>2. CASE e \notin fwd
        <4>1. e \in N
          BY <1>3, <3>2
        <4>2. <<e, k>> \in rpfs' /\ <<e, k>>[1] = e
          BY <1>3, <4>1
        <4> QED
          BY <4>2
      <3> QED
        BY <3>1, <3>2
    <2>2. ASSUME NEW r \in rpfs' PROVE r[1] \in (c \ dangling') \cap Remote
      <3>1. CASE r \in rpfs \ gone
        BY <1>3, <1>13, <3>1
      <3>2. CASE r \in {<<e, k>> : e \in N}
        BY <1>3, <3>2
      <3> QED
        BY <1>3, <3>1, <3>2
    <2>3. {r[1] : r \in rpfs'} = (fwd' \ dangling') \cap Remote
      <3>1. {r[1] : r \in rpfs'} = (c \ dangling') \cap Remote
        BY <2>1, <2>2, Zenon
      <3> QED
        BY <1>3, <3>1
    <2>4. \A e \in dangling' : \E f \in (conf' \ {e}) \cap Remote : Src[f] = Src[e]
      BY <1>3
    <2> QED
      BY <1>3, <1>14, <2>3, <2>4 DEF ForwardedAsConfigured
  <1>16. \A x : In(globreq, x) => x[2] <= nconfig /\ x \in Rpf
    BY <1>4, <1>6, ElementOfSeq DEF In
  <1>17. \A x : In(ctx, x) => x \in {<<e, k>> : e \in N} /\ x[2] = k
    <2> SUFFICES ASSUME NEW x, In(ctx, x) PROVE x \in {<<e, k>> : e \in N} /\ x[2] = k
      OBVIOUS
    <2>1. PICK i \in 1..Len(ctx) : ctx[i] = x
      BY DEF In
    <2>2. PICK e \in N : x = <<e, k>>
      BY <1>9, <2>1
    <2> QED
      BY <2>2
  <1>18. \A x : In(globreq', x) <=> In(globreq, x) \/ In(ctx, x)
    BY <1>3, <1>4, <1>9, InConcat
  <1>19. Numbered'
    <2>1. \A x : ~(In(globreq, x) /\ In(ctx, x))
      <3> SUFFICES ASSUME NEW x, In(globreq, x), In(ctx, x) PROVE FALSE
        OBVIOUS
      <3>1. x[2] <= nconfig /\ x[2] = k
        BY <1>16, <1>17
      <3> QED
        BY <1>4, <3>1
    <2>2. Distinct(globreq \o ctx)
      BY <1>4, <1>6, <1>9, <2>1, DistinctConcat
    <2>3. ASSUME NEW i \in 1..Len(globreq') PROVE globreq'[i][2] <= nconfig'
      <3>1. In(globreq', globreq'[i])
        BY Zenon DEF In
      <3>2. CASE In(globreq, globreq'[i])
        <4>1. globreq'[i][2] <= nconfig /\ globreq'[i][2] \in Int
          BY <1>16, <3>2 DEF Rpf
        <4> QED
          BY <1>3, <1>4, <4>1
      <3>3. CASE In(ctx, globreq'[i])
        BY <1>3, <1>4, <1>17, <3>3
      <3> QED
        BY <1>18, <3>1, <3>2, <3>3
    <2>4. ASSUME NEW r \in rpfs' PROVE r[2] <= nconfig'
      <3>1. CASE r \in rpfs
        <4>1. r[2] <= nconfig /\ r[2] \in Int
          BY <1>4, <1>6, <3>1 DEF Rpf
        <4> QED
          BY <1>3, <1>4, <4>1
      <3>2. CASE r \in {<<e, k>> : e \in N}
        BY <1>3, <1>4, <3>2
      <3> QED
        BY <1>3, <3>1, <3>2
    <2> QED
      BY <1>3, <2>2, <2>3, <2>4 DEF Numbered
  <1>20. PICK a \in Seq(Ports), b \in Seq(Ports) : Pending(a, b)
    BY DEF Inv, Matched
  <1>21. Matched'
    <2>1. PICK e \in Seq(Ports), s \in Seq(Ports) : e = << >> /\ s = PortsOf(ctx)
      <3>1. << >> \in Seq(Ports)
        BY EmptySeq
      <3> QED
        BY <1>9, <3>1, PortsOfAt
    <2>2. Lists(cs, Requests, e)
      <3>1. ASSUME NEW i \in 1..Len(cs) PROVE cs[i].type \notin Requests
        <4>1. In(cs, cs[i])
          BY Zenon DEF In
        <4> QED
          BY <1>8, <4>1, Kinds
      <3> QED
        BY <1>8, <2>1, <3>1, ListsNone
    <2>3. Lists(toServer, Requests, b)
      BY <1>20 DEF Pending
    <2>4. Lists(ts, Requests, b \o e) /\ b \o e = b
      BY <1>4, <1>8, <1>10, <2>1, <2>2, <2>3, ListsConcat, ConcatEmptySeq
    <2>5. Lists(fs, Requests, s)
      BY <1>9, <2>1
    <2>6. Lists(ts \o fs, Requests, b \o s)
      BY <1>8, <1>10, <2>4, <2>5, ListsConcat
    <2>7. b \o s \in Seq(Ports)
      BY ConcatProperties
    <2>8. a \o (b \o s) = (a \o b) \o s
      BY ConcatAssoc, SMTT(30)
    <2>9. (a \o b) \o s = PortsOf(globreq \o ctx)
      BY <1>4, <1>9, <1>20, <2>1, PortsOfConcat DEF Pending
    <2>10. Pending(a, b \o s)'
      BY <1>3, <1>11, <1>20, <2>6, <2>8, <2>9 DEF Pending
    <2> QED
      BY <2>7, <2>10 DEF Matched
  <1>22. /\ Recorded <=> \A x : In(globreq, x) => x \in rpfs
         /\ Recorded' <=> \A x : In(globreq', x) => x \in rpfs'
    BY DEF Recorded, In
  <1>23. ASSUME Recorded' PROVE Recorded /\ \A x : In(globreq, x) => x \in rpfs \ gone
    <2> SUFFICES ASSUME NEW x, In(globreq, x) PROVE x \in rpfs \ gone
      BY <1>22
    <2>1. x \in rpfs' /\ x[2] <= nconfig
      BY <1>16, <1>18, <1>22, <1>23
    <2>2. x \notin {<<e, k>> : e \in N}
      BY <1>4, <2>1
    <2> QED
      BY <1>3, <2>1, <2>2
  <1>24. ASSUME Recorded' PROVE Settled'
    <2>1. Recorded /\ \A x : In(globreq, x) => x \in rpfs \ gone
      BY <1>23, <1>24
    <2>2. \A x : In(a, x) \/ In(b, x) =>
              \E i \in 1..Len(globreq) : Port(globreq[i]) = x /\ globreq[i] \in rpfs
      BY <1>20, <2>1, PortsUnderWay
    <2>3. ASSUME NEW r \in gone PROVE ~In(toServer, Forward(Port(r)))
      <3>1. SUFFICES ASSUME In(toServer, Forward(Port(r))) PROVE FALSE
        OBVIOUS
      <3>2. Lists(toServer, Requests, b) /\ Forward(Port(r)).type \in Requests
            /\ Forward(Port(r)).port = Port(r)
        BY <1>20, Kinds DEF Pending
      <3>3. In(b, Forward(Port(r)).port)
        BY <3>1, <3>2, InLists
      <3>4. In(b, Port(r))
        BY <3>2, <3>3
      <3>5. PICK i \in 1..Len(globreq) : Port(globreq[i]) = Port(r) /\ globreq[i] \in rpfs
        BY <2>2, <3>4
      <3>6. globreq[i] = r
        BY <1>2, <1>5, <3>5
      <3>7. In(globreq, r)
        BY <3>6 DEF In
      <3> QED
        BY <2>1, <3>7
    <2>4. ASSUME NEW p \in Ports PROVE Before(toServer', Cancel(p), Forward(p))
      <3>1. Before(toServer, Cancel(p), Forward(p))
        BY <2>1 DEF Inv, Settled
      <3>2. ~In(cs, Forward(p)) /\ ~In(fs, Cancel(p))
        BY <1>8, Kinds
      <3>3. Before(cs, Cancel(p), Forward(p)) /\ Before(fs, Cancel(p), Forward(p))
        BY <3>2 DEF Before, In
      <3>4. ~(In(toServer, Forward(p)) /\ In(cs, Cancel(p)))
        BY <1>8, <2>3, Kinds
      <3>5. Before(ts, Cancel(p), Forward(p))
        BY <1>4, <1>8, <1>10, <3>1, <3>3, <3>4, BeforeConcat
      <3>6. Before(ts \o fs, Cancel(p), Forward(p))
        BY <1>8, <1>10, <3>2, <3>3, <3>5, BeforeConcat
      <3> QED
        BY <1>11, <3>6
    <2>5. ASSUME NEW p \in Ports PROVE ServerPort(p)'
      <3>1. ServerPort(p)
        BY <2>1 DEF Inv, Settled
      <3>2. In(toServer', Cancel(p)) <=> In(toServer, Cancel(p)) \/ \E r \in gone : Port(r) = p
        BY <1>8, <1>11, Kinds
      <3>3. In(toServer', Forward(p)) <=> In(toServer, Forward(p)) \/ \E e \in N : Src[e] = p
        BY <1>8, <1>11, Kinds, SMTT(30)
      <3>4. Wanted(p)' <=> (\E r \in rpfs \ gone : Port(r) = p) \/ \E e \in N : Src[e] = p
        <4>1. \A e : Port(<<e, k>>) = Src[e]
          BY DEF Port
        <4>2. Wanted(p)' <=> \E r \in rpfs' : Port(r) = p
          BY DEF Wanted
        <4>3. rpfs' = (rpfs \ gone) \cup {<<e, k>> : e \in N}
          BY <1>3
        <4> QED
          BY <4>1, <4>2, <4>3
      <3>5. Wanted(p) <=> (\E r \in rpfs \ gone : Port(r) = p) \/ \E r \in gone : Port(r) = p
        BY <1>2 DEF Wanted
      <3>6. ~((\E r \in rpfs \ gone : Port(r) = p) /\ \E r \in gone : Port(r) = p)
        BY <1>2, <1>5
      <3>7. ~((\E r \in rpfs \ gone : Port(r) = p) /\ \E e \in N : Src[e] = p)
        BY <1>3
      <3> QED
        BY <1>3, <3>1, <3>2, <3>3, <3>4, <3>5, <3>6, <3>7 DEF ServerPort
    <2> QED
      BY <2>4, <2>5 DEF Settled
  <1>25. TakenLater'
    <2>1. ASSUME NEW x, In(globreq', x), x \notin rpfs' PROVE x[2] < nconfig'
      <3>1. CASE In(globreq, x)
        <4>1. x[2] <= nconfig /\ x[2] \in Int
          BY <1>16, <3>1 DEF Rpf
        <4> QED
          BY <1>3, <1>4, <4>1
      <3>2. CASE In(ctx, x)
        BY <1>3, <1>17, <2>1, <3>2
      <3> QED
        BY <1>18, <2>1, <3>1, <3>2
    <2>2. \A i \in 1..Len(globreq') : In(globreq', globreq'[i])
      BY Zenon DEF In
    <2> QED
      BY <2>1, <2>2 DEF TakenLater
  <1>26. ASSUME N = {} PROVE globreq' = globreq
    <2>1. Len(ctx) = 0
      BY <1>9, <1>26
    <2> QED
      BY <1>3, <1>4, <1>9, <2>1, EmptySeq, ConcatEmptySeq
  <1>27. Caused'
    <2>1. TailFreed'
      BY <1>3, <1>26 DEF Inv, Caused, TailFreed
    <2>2. TreeThere'
      <3>1. CASE tree \/ N # {}
        BY <1>3, <3>1 DEF TreeThere
      <3>2. CASE ~(tree \/ N # {})
        <4>1. /\ rpfs = {} /\ globreq = << >> /\ srv = {}
              /\ \A p \in Ports : ~In(toServer, Forward(p))
          BY <3>2 DEF Inv, Caused, TreeThere
        <4>2. rpfs' = {} /\ globreq' = << >> /\ srv' = {}
          BY <1>3, <1>26, <3>2, <4>1
        <4>3. \A p \in Ports : ~In(toServer', Forward(p))
          <5> TAKE p \in Ports
          <5>1. ~In(cs, Forward(p)) /\ ~In(fs, Forward(p))
            BY <1>8, <3>2, Kinds
          <5> QED
            BY <1>11, <4>1, <5>1
        <4> QED
          BY <4>2, <4>3 DEF TreeThere
      <3> QED
        BY <3>1, <3>2
    <2> QED
      BY <1>25, <2>1, <2>2 DEF Caused
  <1>28. FaultHasCause'
    BY <1>3 DEF FaultHasCause, NoFault
  <1> QED
    BY <1>12, <1>15, <1>19, <1>21, <1>24, <1>27, <1>28 DEF Inv

LEMMA ReconfigInv ==
    ASSUME Inv, Reconfig PROVE Inv'
  <1>1. CASE \E f : Faulty(f) /\ FaultHasCause'
    BY <1>1, FaultyInv
  <1>2. CASE \E c \in SUBSET Entry, fails, asked \in SUBSET Entry : Applied(c, fails, asked)
    BY <1>2, AppliedInv
  <1> QED
    BY <1>1, <1>2, ReconfigStep
-----------------------------------------------------------------------------
(* Counting: the rank of a message that counts is its place in the list.   *)

LEMMA CountTo ==
    ASSUME NEW K, NEW n \in Nat, NEW f \in [1..n -> K],
           \A i, j \in 1..n : i < j => f[i] < f[j], K \subseteq Nat,
           \A k \in K : \E i \in 1..n : f[i] = k
    PROVE  Cardinality(K) = n
  <1>1. \A i, j \in 1..n : f[i] = f[j] => i = j
    <2> TAKE i, j \in 1..n
    <2>1. f[i] \in Nat /\ f[j] \in Nat
      OBVIOUS
    <2>2. i < j => f[i] # f[j]
      BY <2>1
    <2>3. j < i => f[i] # f[j]
      BY <2>1
    <2> QED
      BY <2>2, <2>3
  <1>2. f \in Bijection(1..n, K)
    BY <1>1 DEF Bijection, Injection, Surjection, IsInjective
  <1>3. IsFiniteSet(1..n) /\ Cardinality(1..n) = n
    BY FS_Interval
  <1> QED
    BY <1>2, <1>3, FS_Bijection DEF ExistsBijection

Counted(q, T) == {k \in 1..Len(q) : q[k].type \in T}

Ranked(q, s, K) ==
    /\ Cardinality(K) = Len(s)
    /\ \A k \in K : Rank(K, k) \in 1..Len(s) /\ q[k].port = s[Rank(K, k)]

LEMMA RankIs ==
    ASSUME NEW M, NEW P, NEW T, NEW q \in Seq(M), NEW s \in Seq(P), Lists(q, T, s)
    PROVE  Ranked(q, s, Counted(q, T))
  <1> DEFINE K == {k \in 1..Len(q) : q[k].type \in T}
  <1>1. PICK f \in [1..Len(s) -> 1..Len(q)] :
          /\ \A i, j \in 1..Len(s) : i < j => f[i] < f[j]
          /\ \A i \in 1..Len(s) : q[f[i]].type \in T /\ q[f[i]].port = s[i]
          /\ \A k \in 1..Len(q) : q[k].type \in T => \E i \in 1..Len(s) : f[i] = k
    BY DEF Lists
  <1>2. PICK n \in Nat : n = Len(s)
    OBVIOUS
  <1>3. K \subseteq Nat
    OBVIOUS
  <1>4. /\ f \in [1..n -> K] /\ \A i, j \in 1..n : i < j => f[i] < f[j]
        /\ \A k \in K : \E i \in 1..n : f[i] = k
    <2>1. \A i \in 1..n : f[i] \in K
      BY <1>1, <1>2
    <2>2. f \in [1..n -> K]
      BY <1>2, <2>1
    <2> QED
      BY <1>1, <1>2, <2>2
  <1>5. Cardinality(K) = n
    BY <1>3, <1>4, CountTo
  <1>6. ASSUME NEW k \in K PROVE Rank(K, k) \in 1..n /\ q[k].port = s[Rank(K, k)]
    <2>1. PICK i \in 1..n : f[i] = k
      BY <1>4
    <2> DEFINE L == {j \in K : j <= k}
               g == [l \in 1..i |-> f[l]]
    <2>2. \A l \in 1..i : l \in 1..n /\ f[l] \in K /\ f[l] <= k
      <3> TAKE l \in 1..i
      <3>1. l \in 1..n /\ (l = i \/ l < i)
        OBVIOUS
      <3>2. f[l] \in K /\ f[l] \in Nat /\ k \in Nat
        BY <1>3, <1>4, <3>1
      <3> QED
        BY <1>4, <2>1, <3>1, <3>2
    <2>3. g \in [1..i -> L] /\ \A l \in 1..i : g[l] = f[l]
      BY <2>2
    <2>4. \A j \in L : \E l \in 1..i : g[l] = j
      <3> TAKE j \in L
      <3>1. PICK l \in 1..n : f[l] = j
        BY <1>4
      <3>2. ~(i < l)
        <4>1. f[l] \in Nat /\ k \in Nat /\ f[l] <= k
          BY <1>3, <3>1
        <4> QED
          BY <1>4, <2>1, <4>1
      <3>3. l \in 1..i
        BY <3>2
      <3> QED
        BY <2>3, <3>1, <3>3
    <2>5. \A l, m \in 1..i : l < m => g[l] < g[m]
      BY <1>4, <2>2, <2>3
    <2>6. L \subseteq Nat /\ i \in Nat
      BY <1>3
    <2>7. Rank(K, k) = Cardinality(L)
      BY DEF Rank
    <2> HIDE DEF L, g
    <2>8. Cardinality(L) = i
      BY <2>3, <2>4, <2>5, <2>6, CountTo
    <2> QED
      BY <1>1, <1>2, <2>1, <2>7, <2>8
  <1>7. K = Counted(q, T)
    BY DEF Counted
  <1> HIDE DEF K
  <1>8. Ranked(q, s, K)
    BY <1>2, <1>5, <1>6, Zenon DEF Ranked
  <1> QED
    BY <1>7, <1>8
-----------------------------------------------------------------------------
LEMMA Invariance == Safe => []Inv
  <1>1. Init => Inv
    BY InitInv
  <1>2. Inv /\ [Next]_vars => Inv'
    <2> SUFFICES ASSUME Inv, [Next]_vars PROVE Inv'
      OBVIOUS
    <2>1. CASE Reconfig
      BY <2>1, ReconfigInv
    <2>2. CASE GlobalReply
      BY <2>2, GlobalReplyInv
    <2>3. CASE ForwardedOpen
      BY <2>3, ForwardedOpenInv
    <2>4. CASE ServerForward
      BY <2>4, ServerForwardInv
    <2>5. CASE ServerCancel
      BY <2>5, ServerCancelInv
    <2>6. CASE ServerConnect
      BY <2>6, ServerConnectInv
    <2>7. CASE UNCHANGED vars
      BY <2>7 DEF vars, Inv, TypeOK, ForwardedAsConfigured, Numbered, Recorded, Matched, Pending,
                  Settled, ServerPort, Wanted, Caused, TakenLater, TailFreed, TreeThere, FaultHasCause,
                  NoFault
    <2> QED
      BY <2>1, <2>2, <2>3, <2>4, <2>5, <2>6, <2>7 DEF Next
  <1> QED
    BY <1>1, <1>2, PTL DEF Safe

(* Every state of the manager, of the connection and of the network is one *)
(* of the declared ones.                                                   *)
THEOREM TypeCorrect == Safe => []TypeOK
  <1>1. Inv => TypeOK
    BY DEF Inv
  <1> QED
    BY <1>1, Invariance, PTL

(* In every order of configurations, answers and connections: a reply      *)
(* never finds the list of global requests empty, and each use of freed    *)
(* memory has the one cause FaultHasCause gives for it, whatever else has  *)
(* happened before.                                                        *)
THEOREM OneCauseForEachFault == Safe => []FaultHasCause
  <1>1. Inv => FaultHasCause
    BY DEF Inv
  <1> QED
    BY <1>1, Invariance, PTL

(* Whatever the order, ssh2_rportfwd_globreq_response is called with the   *)
(* context of the very request that the server answers, for any number of  *)
(* requests and answers under way.                                         *)
THEOREM AnswersMeetTheirRequests == Safe => []RequestsMatchReplies
  <1>1. ASSUME Inv PROVE RequestsMatchReplies
    <2>1. PICK a \in Seq(Ports), b \in Seq(Ports) : Pending(a, b)
      BY <1>1 DEF Inv, Matched
    <2>2. /\ toServer \in Seq(ToServer) /\ toClient \in Seq(ToClient) /\ globreq \in Seq(Rpf)
          /\ Lists(toClient, Answers, a) /\ Lists(toServer, Requests, b)
          /\ a \o b = PortsOf(globreq)
      BY <1>1, <2>1 DEF Inv, TypeOK, Pending
    <2>3. PICK A, B : A = Counted(toClient, Answers) /\ B = Counted(toServer, Requests)
      OBVIOUS
    <2>4. /\ A = {k \in 1..Len(toClient) : toClient[k].type # "forwarded-tcpip"}
          /\ B = {k \in 1..Len(toServer) : toServer[k].type = "tcpip-forward"}
      <3>1. \A k \in 1..Len(toClient) : toClient[k] \in ToClient
        BY <2>2
      <3>2. \A k \in 1..Len(toClient) :
               toClient[k].type \in Answers <=> toClient[k].type # "forwarded-tcpip"
        BY <3>1, Kinds
      <3> QED
        BY <2>3, <3>2 DEF Requests, Counted
    <2>5. PICK m \in Nat, n \in Nat, u \in Seq(Ports) : JoinedAt(a, b, u, m, n)
      BY ConcatAt
    <2>6. /\ u = PortsOf(globreq) /\ Len(a) = m /\ Len(b) = n /\ Len(u) = m + n
          /\ \A i \in 1..m : u[i] = a[i]
          /\ \A i \in 1..n : u[i + m] = b[i]
      BY <2>2, <2>5, Zenon DEF JoinedAt
    <2>7. Len(globreq) = m + n /\ \A i \in 1..(m + n) : u[i] = Port(globreq[i])
      <3>1. /\ Len(u) = Len(globreq)
            /\ \A i \in 1..Len(globreq) : u[i] = Port(globreq[i])
        BY <2>2, <2>6, PortsOfAt, Zenon
      <3> QED
        BY <2>6, <3>1
    <2>8. /\ Cardinality(A) = m
          /\ \A k \in A : Rank(A, k) \in 1..m /\ toClient[k].port = a[Rank(A, k)]
      <3>1. Ranked(toClient, a, A)
        BY <2>2, <2>3, RankIs
      <3>2. /\ Cardinality(A) = Len(a)
            /\ \A k \in A : Rank(A, k) \in 1..Len(a) /\ toClient[k].port = a[Rank(A, k)]
        BY <3>1, Zenon DEF Ranked
      <3> QED
        BY <2>6, <3>2
    <2>9. /\ Cardinality(B) = n
          /\ \A k \in B : Rank(B, k) \in 1..n /\ toServer[k].port = b[Rank(B, k)]
      <3>1. Ranked(toServer, b, B)
        BY <2>2, <2>3, RankIs
      <3>2. /\ Cardinality(B) = Len(b)
            /\ \A k \in B : Rank(B, k) \in 1..Len(b) /\ toServer[k].port = b[Rank(B, k)]
        BY <3>1, Zenon DEF Ranked
      <3> QED
        BY <2>6, <3>2
    <2>10. ASSUME NEW k \in A PROVE toClient[k].port = Port(globreq[Rank(A, k)])
      <3>1. PICK i \in 1..m : i = Rank(A, k) /\ toClient[k].port = a[i]
        BY <2>8
      <3>2. i \in 1..(m + n) /\ u[i] = a[i]
        BY <2>6, <3>1
      <3> QED
        BY <2>7, <3>1, <3>2
    <2>11. ASSUME NEW k \in B PROVE toServer[k].port = Port(globreq[m + Rank(B, k)])
      <3>1. PICK i \in 1..n : i = Rank(B, k) /\ toServer[k].port = b[i]
        BY <2>9
      <3>2. i + m \in 1..(m + n) /\ u[i + m] = b[i] /\ i + m = m + i
        BY <2>6, <3>1
      <3> QED
        BY <2>7, <3>1, <3>2
    <2> QED
      BY <2>4, <2>7, <2>8, <2>9, <2>10, <2>11 DEF RequestsMatchReplies
  <1> QED
    BY <1>1, Invariance, PTL

(* Whatever the order, the client and the server agree on the open ports   *)
(* whenever nothing is under way between them: no cancelled forwarding     *)
(* stays open and no refused one is believed to be open.                   *)
THEOREM ServerAgreesWhenQuiet == Safe => []ServerAgrees
  <1>1. ASSUME Inv PROVE ServerAgrees
    <2>1. SUFFICES ASSUME toServer = << >>, toClient = << >>
                   PROVE  srv = {Port(r) : r \in rpfs}
      BY DEF ServerAgrees
    <2>2. srv \subseteq Ports /\ rpfs \subseteq Rpf /\ globreq \in Seq(Rpf)
      BY <1>1 DEF Inv, TypeOK
    <2>3. \A r \in rpfs : Port(r) \in Ports
      BY <2>2 DEF Rpf, Port, Ports
    <2>4. \A x : ~In(toServer, x) /\ ~In(toClient, x)
      BY <2>1 DEF In
    <2>5. Recorded
      <3>1. PICK a \in Seq(Ports), b \in Seq(Ports) : Pending(a, b)
        BY <1>1 DEF Inv, Matched
      <3>2. Len(a) = 0 /\ Len(b) = 0
        BY <2>1, <3>1 DEF Pending, Lists
      <3>3. a \o b = << >>
        BY <3>2, EmptySeq, ConcatEmptySeq
      <3>4. PortsOf(globreq) = << >> /\ Len(PortsOf(globreq)) = Len(globreq)
        BY <2>2, <3>1, <3>3, PortsOfAt DEF Pending
      <3>5. Len(globreq) = 0
        BY <3>4
      <3> QED
        BY <3>5 DEF Recorded
    <2>6. \A p \in Ports : p \in srv <=> Wanted(p)
      BY <1>1, <2>4, <2>5 DEF Inv, Settled, ServerPort
    <2> QED
      BY <2>2, <2>3, <2>6 DEF Wanted
  <1> QED
    BY <1>1, Invariance, PTL

(* Whatever the order, a port has one record, that of the entry configured *)
(* for it now, and an entry goes without only if another has its port.     *)
THEOREM AlwaysForwardedAsConfigured == Safe => []ForwardedAsConfigured
  <1>1. Inv => ForwardedAsConfigured
    BY DEF Inv
  <1> QED
    BY <1>1, Invariance, PTL
=============================================================================
