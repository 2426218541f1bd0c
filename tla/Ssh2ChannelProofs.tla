------------------------- MODULE Ssh2ChannelProofs -------------------------
(***************************************************************************)
(* Proofs about a channel of the SSH-2 connection layer.  The handlers of  *)
(* Ssh2Channel take a channel and return it, and so does the argument: an  *)
(* invariant of a channel x, the packets r from the peer and the peer p,   *)
(* and for every handler a lemma that says that the invariant is kept and  *)
(* what the handler leaves alone.                                          *)
(***************************************************************************)
EXTENDS Ssh2Channel, SequenceTheorems, NaturalsInduction, WellFoundedInduction, TLAPS

(* The front end, the peer and the X client avoid the orders of events     *)
(* that Unguarded is about, but for an end that fails while it throttles   *)
(* the connection and one that is unthrottled before its channel is open.  *)
Avoided == {"early input", "late input", "late special", "late reset",
            "hasty client", "late reply"}
Orderly == Unguarded \cap Avoided = {}
-----------------------------------------------------------------------------
(* The inductive invariant.                                                *)

Fields == {"life", "closes", "pending_eof", "throttling_conn",
           "throttled_by_backlog", "outbuffer", "remwindow", "locwindow",
           "locmaxwin", "remlocwin", "chanreqs", "throttle_state", "chan",
           "fixed", "x11", "bugs", "simple", "all_throttled",
           "throttle_count", "user_input", "tx", "config", "has_fallback",
           "seat_eof", "req", "got_pty", "ready", "reading", "eof_sent",
           "eof_pending", "backlog", "eofs", "written", "lost", "got",
           "specials", "fault"}
PeerFields == {"state", "sendwin", "recvwin", "sent", "got", "room",
               "grants", "eof", "close", "gotEof", "gotClose", "asks"}

Names == DOMAIN Rank \cup {"none", "winadj", "asked"}
Replies == {"SUCCESS", "FAILURE"}
Body == {"DATA", "ADJUST", "REQUEST", "EOF", "CLOSE"} \cup Replies
Packets == [t : Body \cup {"OPEN", "CONFIRMATION", "REFUSAL"}, n : Nat, r : Names]
Requests == [h : {"ssh2_channel_response", "ssh2_handle_winadj_response"},
             r : Names, n : Nat]

Typed(x) ==
    /\ DOMAIN x = Fields
    /\ x.life \in {"none", "half", "open", "freed"}
    /\ x.closes \subseteq Closes
    /\ x.outbuffer \in Nat /\ x.remwindow \in Nat /\ x.written \in Nat
    /\ x.locwindow \in Nat /\ x.locmaxwin \in Nat \ {0} /\ x.remlocwin \in Int
    /\ x.backlog \in Nat /\ x.got \in Nat /\ x.eofs \in Nat
    /\ x.chan \in Kinds \cup {"zombie"}
    /\ x.x11 \in Outcomes
    /\ x.throttle_state \in {"THROTTLED", "UNTHROTTLING", "UNTHROTTLED"}
    /\ x.throttling_conn \in BOOLEAN /\ x.fixed \in BOOLEAN
    /\ x.throttle_count = IF x.throttling_conn THEN 1 ELSE 0
    /\ x.user_input = 0
    /\ x.tx \in Seq(Packets) /\ x.chanreqs \in Seq(Requests)
    /\ x.req \subseteq DOMAIN Rank
    /\ x.fault \in {"none", "freed under handler"}

PeerTyped(p) ==
    /\ DOMAIN p = PeerFields
    /\ p.state \in {"opening", "open", "closed"}
    /\ p.sendwin \in Nat /\ p.recvwin \in Nat /\ p.sent \in Nat
    /\ p.got \in Nat /\ p.room \in Nat /\ p.grants \in Nat
    /\ p.eof \in BOOLEAN /\ p.close \in BOOLEAN
    /\ p.gotEof \in BOOLEAN /\ p.gotClose \in BOOLEAN

Has(q, T) == \E i \in 1..Len(q) : q[i].t \in T
Only(q, T) == \A i \in 1..Len(q) : q[i].t \in T

(* How the two ends come to have the channel open.                         *)
Untouched(x) ==
    /\ x.closes = {} /\ x.chanreqs = << >> /\ x.req = {}
    /\ x.outbuffer = 0 /\ x.written = 0 /\ x.remwindow = 0
    /\ x.got = 0 /\ x.backlog = 0 /\ x.eofs = 0 /\ ~x.ready
    /\ x.locwindow = x.locmaxwin

Opening(x, r) ==
    \/ x.life = "none" /\ x.tx = << >> /\ r = <<Packet("OPEN")>>
    \/ x.life = "half" /\ x.tx = <<Packet("OPEN")>> /\ r = << >>
    \/ /\ x.life = "open" /\ r = << >>
       /\ x.tx # << >> /\ x.tx[1].t = "CONFIRMATION"
       /\ \A i \in 1..Len(x.tx) : i = 1 \/ x.tx[i].t \in Body
    \/ x.life = "freed" /\ x.tx = <<Packet("REFUSAL")>> /\ r = << >>

Opened(x, r) ==
    \/ /\ x.life = "half" /\ x.tx = << >>
       /\ r # << >> /\ r[1] = Bytes("CONFIRMATION", RemWin)
       /\ \A i \in 1..Len(r) : i = 1 \/ r[i].t \in Body \ Replies
    \/ x.life \in {"open", "freed"} /\ Only(x.tx, Body) /\ Only(r, Body)

Refused(x, r) ==
    /\ x.tx = << >>
    /\ \/ x.life = "half" /\ r = <<Packet("REFUSAL")>>
       \/ x.life = "freed" /\ r = << >>

Phase(x, r, p) ==
    /\ x.life \in {"none", "half"} => Untouched(x) /\ ~x.fixed
    /\ x.life = "half" => x.x11 = "connected" /\ x.chan # "x11"
    /\ x.life = "none" => x.x11 = "greeting" /\ ~x.simple
    /\ p.state # "open" => /\ ~p.eof /\ ~p.close /\ ~p.gotEof /\ ~p.gotClose
                           /\ p.sent = 0 /\ p.got = 0 /\ p.recvwin = RemWin
    /\ p.state = "opening" => Opening(x, r)
    /\ p.state = "open" => Opened(x, r)
    /\ p.state = "closed" => Refused(x, r)

(* What the peer sends comes to an end with EOF and CLOSE.                 *)
Incoming(x, r, p) ==
    /\ \A i, j \in 1..Len(r) :
          i < j => /\ r[i].t = "EOF" => r[j].t \notin {"DATA", "EOF"}
                   /\ r[i].t = "CLOSE" => r[j].t \in Replies /\ "late" \in x.bugs
    /\ RCVD_EOF \in x.closes => ~Has(r, {"DATA", "EOF"}) /\ (p.eof \/ p.close)
    /\ RCVD_CLOSE \in x.closes =>
          /\ RCVD_EOF \in x.closes /\ SENT_EOF \in x.closes /\ p.close
          /\ Only(r, Replies)
          /\ "late" \notin x.bugs => r = << >>
    /\ Has(r, {"EOF"}) => p.eof
    /\ Has(r, {"CLOSE"}) => p.close
    /\ x.eofs = 0 \/ (x.eofs = 1 /\ RCVD_EOF \in x.closes)
    /\ x.got + Sizes(r, "DATA") <= p.sent
    /\ x.chan # "zombie" => x.got + Sizes(r, "DATA") = p.sent
    /\ x.backlog <= x.got
    /\ p.sent + p.room <= MaxIn

(* What we send comes to an end with EOF and CLOSE.                        *)
Outgoing(x, p) ==
    /\ \A i, j \in 1..Len(x.tx) :
          i < j => x.tx[i].t # "CLOSE" /\ (x.tx[i].t = "EOF" => x.tx[j].t # "DATA")
    /\ p.gotClose => x.tx = << >> /\ p.close
    /\ p.gotEof => ~Has(x.tx, {"DATA"})
    /\ Has(x.tx, {"CLOSE"}) \/ p.gotClose => SENT_CLOSE \in x.closes
    /\ Has(x.tx, {"EOF"}) \/ p.gotEof => SENT_EOF \in x.closes /\ x.outbuffer = 0
    /\ SENT_CLOSE \in x.closes => SENT_EOF \in x.closes /\ x.chanreqs = << >>
    /\ x.pending_eof => SENT_EOF \notin x.closes /\ x.chan # "zombie"
    /\ ~p.close => p.got + Sizes(x.tx, "DATA") + x.outbuffer = x.written

(* The windows.                                                            *)
Windows(x, r, p) ==
    /\ Sizes(x.tx, "DATA") <= p.recvwin
    /\ x.life = "half" => RemWin + Sizes(r, "ADJUST") = p.recvwin
    /\ x.life = "open" /\ SENT_EOF \notin x.closes =>
          x.remwindow + Sizes(x.tx, "DATA") + Sizes(r, "ADJUST") = p.recvwin
    /\ p.state = "opening" /\ x.life = "open" =>
          x.locwindow = x.tx[1].n + Sizes(x.tx, "ADJUST")
    /\ p.state = "open" /\ x.life \in {"half", "open"} =>
          x.locwindow = p.sendwin + Sizes(r, "DATA") + Sizes(x.tx, "ADJUST")

(* The requests mainchan waits for are on the channel's list; w is the     *)
(* number of requests at its head, none or one, that are being answered.   *)
Asked(q, w) == {i \in 1..Len(q) : i > w /\ q[i].h = "ssh2_channel_response"}

Listed(x, w) ==
    /\ w \in 0..1 /\ w <= Len(x.chanreqs)
    /\ x.req = {x.chanreqs[i].r : i \in Asked(x.chanreqs, w)}
    /\ \A i, j \in Asked(x.chanreqs, w) :
          i < j => Rank[x.chanreqs[i].r] < Rank[x.chanreqs[j].r]
    /\ "fallback" \in x.req => x.req = {"fallback"}
    /\ x.req # {} => x.chan = "main"
    /\ x.life = "freed" => x.chanreqs = << >>

(* While replies may come, every one of them answers a request of the list. *)
Wanted(q) == Total([i \in 1..Len(q) |-> IF q[i].t = "REQUEST" /\ q[i].r # "none" THEN 1 ELSE 0])
Answers(q) == Total([i \in 1..Len(q) |-> IF q[i].t \in Replies THEN 1 ELSE 0])

Awaited(x, r, p, w) ==
    ~p.close \/ Has(r, {"CLOSE"}) \/ "late" \in x.bugs
    => Answers(r) + Wanted(x.tx) + w <= Len(x.chanreqs)

Forgotten(x, r, p) ==
    x.life = "freed" /\ p.state = "open" =>
        p.close /\ r = << >> /\ {SENT_CLOSE, RCVD_CLOSE} \subseteq x.closes

(* The local end knows when it has to stop, or (e) is about to be told.    *)
Knows(x, r, e) ==
    /\ x.chan \in {"main", "fwd"} => x.x11 = "connected"
    /\ x.chan = "main" => "late" \notin x.bugs
    /\ x.fixed => x.x11 \in {"greeting", "refused"}
    /\ ~e /\ x.chan # "zombie" /\ x.x11 = "connected" =>
          /\ SENT_EOF \in x.closes /\ x.reading => x.eof_sent
          /\ x.pending_eof => x.eof_sent
    /\ ~e /\ x.chan = "main" /\ SENT_EOF \in x.closes /\ ~x.eof_sent =>
          RCVD_CLOSE \in x.closes
    /\ ~e /\ x.chan # "zombie" /\ x.x11 = "greeting" =>
          (SENT_EOF \in x.closes \/ x.pending_eof => RCVD_EOF \in x.closes)
    /\ x.x11 \in {"refused", "unreachable"} => ~Has(r, {"DATA"})

(* All of this holds in the midst of a handler.                            *)
Good(x, r, p, w, e) ==
    /\ Typed(x) /\ PeerTyped(p) /\ r \in Seq(Packets)
    /\ Phase(x, r, p) /\ Incoming(x, r, p) /\ Outgoing(x, p)
    /\ Windows(x, r, p) /\ Listed(x, w) /\ Awaited(x, r, p, w)
    /\ Forgotten(x, r, p) /\ Knows(x, r, e)

(* The rest holds between handlers.  No data waits while the peer's window *)
(* is open.                                                                *)
Sent(x) == x.remwindow = 0 \/ x.outbuffer = 0

(* The window opens again when the local end has taken what it got, if a   *)
(* simple channel, whose window is not opened on that occasion, never has  *)
(* as much to take as the window is wide.                                  *)
Roomy == MaxIn < OUR_V2_BIGWIN

Reopened(x) ==
    /\ x.simple => x.locmaxwin >= OUR_V2_BIGWIN
    /\ /\ x.life = "open" /\ ~x.fixed
       /\ {RCVD_EOF, SENT_CLOSE} \cap x.closes = {}
       => x.locwindow > 0 \/ x.backlog >= x.locmaxwin

(* The peer's CLOSE is on its way or has come.                             *)
Closing(x, r, p) == p.close => Has(r, {"CLOSE"}) \/ RCVD_CLOSE \in x.closes

Between(x, r, p) ==
    /\ Good(x, r, p, 0, FALSE)
    /\ Sent(x) /\ Closing(x, r, p)
    /\ Roomy => Reopened(x)

Inv == Between(c, rx, peer)
-----------------------------------------------------------------------------
(* Totals.                                                                 *)

(* A set of numbers that has a member has a least one.                     *)
LEMMA LeastMember ==
    ASSUME NEW T, T \subseteq Nat, T # {}
    PROVE  \E x \in T : \A y \in T : x <= y
  <1> DEFINE R == OpToRel(<, Nat)
  <1>1. IsWellFoundedOn(R, Nat)
    BY NatLessThanWellFounded
  <1>2. PICK x \in T : \A y \in T : ~(<<y, x>> \in R)
    <2> HIDE DEF R
    <2> QED
      BY <1>1, WFMin
  <1>3. \A y \in T : ~(y < x)
    BY <1>2 DEF OpToRel
  <1> HIDE DEF R
  <1> QED
    BY <1>2, <1>3

(* s lists the sums of the first i members of w, for i up to n.            *)
Sums(s, w, n) == s = [i \in 0..n |-> IF i = 0 THEN 0 ELSE s[i - 1] + w[i]]

(* v goes on as w does, up to n, and as w does from its second member on.  *)
Begins(v, w, n) == \A i \in 1..n : v[i] = w[i]
Follows(v, w, n) == \A i \in 1..n : v[i] = w[i + 1]
Numbers(w, n) == \A i \in 1..n : w[i] \in Nat

(* There are such sums, however long w is.                                 *)
LEMMA SumsExist ==
    ASSUME NEW w, NEW n \in Nat
    PROVE  \E s : Sums(s, w, n)
  <1> DEFINE Bad == {m \in Nat : ~\E s : Sums(s, w, m)}
  <1>1. SUFFICES ASSUME Bad # {} PROVE FALSE
    OBVIOUS
  <1>2. PICK m \in Bad : \A k \in Bad : m <= k
    BY <1>1, LeastMember
  <1>3. CASE m = 0
    <2> DEFINE z == [i \in 0..0 |-> 0]
    <2>1. Sums(z, w, 0)
      BY DEF Sums
    <2> QED
      BY <1>2, <1>3, <2>1
  <1>4. CASE m # 0
    <2>1. m - 1 \in Nat /\ m - 1 \notin Bad
      BY <1>2, <1>4
    <2>2. PICK s : Sums(s, w, m - 1)
      BY <2>1
    <2> DEFINE u == [i \in 0..m |-> IF i = m THEN s[m - 1] + w[m] ELSE s[i]]
    <2>3. /\ \A i \in 0..(m - 1) : s[i] = IF i = 0 THEN 0 ELSE s[i - 1] + w[i]
          /\ \A i \in 0..(m - 1) : u[i] = s[i]
          /\ u[m] = s[m - 1] + w[m]
      BY <1>2, <1>4, <2>1, <2>2, SMT DEF Sums
    <2>4. DOMAIN u = 0..m
      OBVIOUS
    <2>5. u = [i \in 0..m |-> u[i]]
      OBVIOUS
    <2> HIDE DEF u
    <2>6. \A i \in 0..m : u[i] = IF i = 0 THEN 0 ELSE u[i - 1] + w[i]
      BY <1>2, <1>4, <2>1, <2>3
    <2>7. Sums(u, w, m)
      BY <2>5, <2>6 DEF Sums
    <2> QED
      BY <1>2, <2>7
  <1> QED
    BY <1>3, <1>4

(* What the sums are, member by member.                                    *)
LEMMA SumsAre ==
    ASSUME NEW w, NEW n \in Nat, NEW s, Sums(s, w, n)
    PROVE  s[0] = 0 /\ \A i \in 1..n : s[i] = s[i - 1] + w[i]
  BY DEF Sums

(* They are numbers, if the members of w are.                              *)
LEMMA SumsNat ==
    ASSUME NEW w, NEW n \in Nat, NEW s, Sums(s, w, n), Numbers(w, n)
    PROVE  \A i \in 0..n : s[i] \in Nat
  <1> DEFINE Bad == {i \in 0..n : s[i] \notin Nat}
  <1>0. Bad \subseteq Nat
    OBVIOUS
  <1>1. SUFFICES ASSUME Bad # {} PROVE FALSE
    OBVIOUS
  <1>2. PICK m \in Bad : \A k \in Bad : m <= k
    BY <1>0, <1>1, LeastMember, Zenon
  <1>3. m # 0
    <2>1. s[0] = 0
      BY SumsAre
    <2> QED
      BY <1>2, <2>1
  <1>4. m - 1 \in 0..n /\ s[m - 1] \in Nat /\ m \in 1..n
    BY <1>2, <1>3
  <1>5. s[m] = s[m - 1] + w[m] /\ w[m] \in Nat
    BY <1>4, SumsAre DEF Numbers
  <1> QED
    BY <1>2, <1>4, <1>5

(* They depend on the members alone; a list that goes on with the members  *)
(* of another has its sums.                                                *)
LEMMA SumsSame ==
    ASSUME NEW v, NEW w, NEW n \in Nat, NEW m \in Nat, n <= m, NEW s, NEW t,
           Sums(s, v, n), Sums(t, w, m), Begins(v, w, n)
    PROVE  s[n] = t[n]
  <1> DEFINE Bad == {i \in 0..n : s[i] # t[i]}
  <1>0. Bad \subseteq Nat
    OBVIOUS
  <1>1. SUFFICES ASSUME Bad # {} PROVE FALSE
    <2> n \in 0..n
      OBVIOUS
    <2> QED
      OBVIOUS
  <1>2. PICK k \in Bad : \A j \in Bad : k <= j
    BY <1>0, <1>1, LeastMember, Zenon
  <1>3. k # 0
    BY <1>2, SumsAre
  <1>4. k - 1 \in 0..n /\ s[k - 1] = t[k - 1] /\ k \in 1..n /\ k \in 1..m
    BY <1>2, <1>3
  <1>5. s[k] = s[k - 1] + v[k] /\ t[k] = t[k - 1] + w[k]
    BY <1>4, SumsAre
  <1>6. v[k] = w[k]
    BY <1>4 DEF Begins
  <1> QED
    BY <1>2, <1>4, <1>5, <1>6

(* A list that starts with another member has sums that are that much more. *)
LEMMA SumsShift ==
    ASSUME NEW v, NEW w, NEW n \in Nat, NEW s, NEW t,
           Sums(s, v, n), Sums(t, w, n + 1),
           Follows(v, w, n), Numbers(w, n + 1)
    PROVE  t[n + 1] = w[1] + s[n]
  <1>1. Numbers(v, n)
    BY DEF Numbers, Follows
  <1>2. \A i \in 0..n : s[i] \in Nat
    BY <1>1, SumsNat
  <1> DEFINE Bad == {i \in 0..n : t[i + 1] # w[1] + s[i]}
  <1> Bad \subseteq Nat
    OBVIOUS
  <1>3. SUFFICES ASSUME Bad # {} PROVE FALSE
    <2> n \in 0..n
      OBVIOUS
    <2> QED
      OBVIOUS
  <1>4. PICK k \in Bad : \A j \in Bad : k <= j
    BY <1>3, LeastMember, Zenon
  <1>5. t[1] = t[0] + w[1] /\ t[0] = 0 /\ s[0] = 0 /\ w[1] \in Nat
    <2>1. 1 \in 1..(n + 1) /\ n + 1 \in Nat /\ 1 - 1 = 0
      OBVIOUS
    <2> QED
      BY <2>1, SumsAre DEF Numbers
  <1>6. k # 0
    BY <1>4, <1>5
  <1>7. k - 1 \in 0..n /\ k - 1 \notin Bad /\ k \in 1..n /\ k + 1 \in 1..(n + 1)
    BY <1>4, <1>6
  <1>8. s[k] = s[k - 1] + v[k] /\ t[k + 1] = t[(k + 1) - 1] + w[k + 1]
    <2>1. n + 1 \in Nat
      OBVIOUS
    <2> QED
      BY <1>7, <2>1, SumsAre
  <1>9. t[(k - 1) + 1] = w[1] + s[k - 1] /\ (k - 1) + 1 = k /\ (k + 1) - 1 = k
    BY <1>7
  <1>10. s[k - 1] \in Nat /\ s[k] \in Nat /\ w[k + 1] \in Nat /\ v[k] = w[k + 1]
    BY <1>2, <1>7 DEF Numbers, Follows
  <1> QED
    BY <1>4, <1>5, <1>7, <1>8, <1>9, <1>10

(* The total of a list is the last of its sums.                            *)
LEMMA TotalIs ==
    ASSUME NEW w \in Seq(Nat)
    PROVE  \E s : Sums(s, w, Len(w)) /\ Total(w) = s[Len(w)]
  <1> DEFINE sum == CHOOSE s : Sums(s, w, Len(w))
  <1>1. Sums(sum, w, Len(w))
    BY SumsExist, LenProperties
  <1>2. Total(w) = sum[Len(w)]
    BY DEF Total, Sums
  <1> QED
    BY <1>1, <1>2

LEMMA TotalNat ==
    ASSUME NEW w \in Seq(Nat)
    PROVE  Total(w) \in Nat /\ (Len(w) = 0 => Total(w) = 0)
  <1>1. PICK s : Sums(s, w, Len(w)) /\ Total(w) = s[Len(w)]
    BY TotalIs
  <1>2. Len(w) \in Nat /\ Numbers(w, Len(w))
    BY DEF Numbers
  <1>3. \A i \in 0..Len(w) : s[i] \in Nat
    BY <1>1, <1>2, SumsNat
  <1>4. s[0] = 0
    BY <1>1, <1>2, SumsAre
  <1> QED
    BY <1>1, <1>2, <1>3, <1>4

(* The total of a list that goes on with one more member.                  *)
LEMMA TotalMore ==
    ASSUME NEW w \in Seq(Nat), NEW v \in Seq(Nat), Len(v) = Len(w) + 1,
           \A i \in 1..Len(w) : v[i] = w[i]
    PROVE  Total(v) = Total(w) + v[Len(v)]
  <1>1. PICK s : Sums(s, w, Len(w)) /\ Total(w) = s[Len(w)]
    BY TotalIs
  <1>2. PICK t : Sums(t, v, Len(v)) /\ Total(v) = t[Len(v)]
    BY TotalIs
  <1>3. /\ Len(w) \in Nat /\ Len(v) \in Nat /\ Len(w) <= Len(v)
        /\ Len(v) \in 1..Len(v) /\ Len(v) - 1 = Len(w) /\ Len(w) \in 0..Len(w)
    OBVIOUS
  <1>4. s[Len(w)] = t[Len(w)]
    <2>1. Begins(w, v, Len(w))
      BY DEF Begins
    <2> QED
      BY <1>1, <1>2, <1>3, <2>1, SumsSame
  <1>5. t[Len(v)] = t[Len(v) - 1] + v[Len(v)]
    BY <1>2, <1>3, SumsAre
  <1> QED
    BY <1>1, <1>2, <1>3, <1>4, <1>5

(* The total of a list without its first member.                           *)
LEMMA TotalLess ==
    ASSUME NEW w \in Seq(Nat), NEW v \in Seq(Nat), Len(w) = Len(v) + 1,
           \A i \in 1..Len(v) : v[i] = w[i + 1]
    PROVE  Total(w) = w[1] + Total(v)
  <1>1. PICK s : Sums(s, v, Len(v)) /\ Total(v) = s[Len(v)]
    BY TotalIs
  <1>2. PICK t : Sums(t, w, Len(w)) /\ Total(w) = t[Len(w)]
    BY TotalIs
  <1>3. Len(v) \in Nat /\ Numbers(w, Len(v) + 1) /\ Follows(v, w, Len(v))
    BY DEF Numbers, Follows
  <1>4. Sums(s, v, Len(v)) /\ Sums(t, w, Len(v) + 1)
    BY <1>1, <1>2, Zenon
  <1> DEFINE n == Len(v)
  <1>5. n \in Nat /\ Sums(s, v, n) /\ Sums(t, w, n + 1) /\ Follows(v, w, n) /\ Numbers(w, n + 1)
    BY <1>3, <1>4
  <1> HIDE DEF n
  <1>6. t[n + 1] = w[1] + s[n]
    BY <1>5, SumsShift
  <1> QED
    BY <1>1, <1>2, <1>6 DEF n
(* A list of zeroes has the total zero.                                    *)
LEMMA TotalZero ==
    ASSUME NEW w \in Seq(Nat), \A i \in 1..Len(w) : w[i] = 0
    PROVE  Total(w) = 0
  <1>1. PICK s : Sums(s, w, Len(w)) /\ Total(w) = s[Len(w)]
    BY TotalIs
  <1> DEFINE Bad == {i \in 0..Len(w) : s[i] # 0}
  <1>2. Len(w) \in Nat /\ Bad \subseteq Nat
    OBVIOUS
  <1>3. CASE Bad = {}
    <2>1. Len(w) \in 0..Len(w)
      BY <1>2
    <2> QED
      BY <1>1, <1>3, <2>1
  <1>4. CASE Bad # {}
    <2>1. PICK k \in Bad : \A j \in Bad : k <= j
      BY <1>2, <1>4, LeastMember, Zenon
    <2>2. k # 0
      BY <1>1, <1>2, <2>1, SumsAre
    <2>3. k - 1 \in 0..Len(w) /\ k - 1 \notin Bad /\ k \in 1..Len(w)
      BY <1>2, <2>1, <2>2
    <2>4. s[k] = s[k - 1] + w[k] /\ w[k] = 0
      BY <1>1, <1>2, <2>3, SumsAre
    <2> QED
      BY <2>1, <2>3, <2>4
  <1> QED
    BY <1>3, <1>4
-----------------------------------------------------------------------------
(* Queues of packets.                                                      *)

(* What a packet counts for in Sizes, Wanted and Answers.                  *)
Size(a, t) == IF a.t = t THEN a.n ELSE 0
Want(a) == IF a.t = "REQUEST" /\ a.r # "none" THEN 1 ELSE 0
Answer(a) == IF a.t \in Replies THEN 1 ELSE 0

(* s is the queue q with a at its end, or q without a at its head.         *)
Pushed(q, s, a) ==
    /\ q \in Seq(Packets) /\ s \in Seq(Packets) /\ a \in Packets
    /\ Len(s) = Len(q) + 1 /\ s # << >>
    /\ \A i \in 1..Len(q) : s[i] = q[i]
    /\ s[Len(q) + 1] = a

Took(q, s, a) ==
    /\ q \in Seq(Packets) /\ s \in Seq(Packets) /\ a \in Packets
    /\ Len(q) = Len(s) + 1 /\ q # << >>
    /\ \A i \in 1..Len(s) : s[i] = q[i + 1]
    /\ q[1] = a

LEMMA PushPushed ==
    ASSUME NEW q \in Seq(Packets), NEW a \in Packets
    PROVE  Pushed(q, Append(q, a), a)
  BY DEF Pushed

LEMMA TailTook ==
    ASSUME NEW q \in Seq(Packets), q # << >>
    PROVE  Took(q, Tail(q), Head(q))
  <1>1. Tail(q) \in Seq(Packets) /\ Head(q) \in Packets
    BY HeadTailProperties
  <1>2. Len(q) = Len(Tail(q)) + 1 /\ q[1] = Head(q)
    BY HeadTailProperties
  <1>3. \A i \in 1..Len(Tail(q)) : Tail(q)[i] = q[i + 1]
    BY HeadTailProperties
  <1> QED
    BY <1>1, <1>2, <1>3 DEF Took

LEMMA PacketSize ==
    ASSUME NEW q \in Seq(Packets)
    PROVE  \A i \in 1..Len(q) : q[i].n \in Nat
  <1>1. \A a \in Packets : a.n \in Nat
    BY DEF Packets
  <1> QED
    BY <1>1

(* The counts are numbers, and none for no packets of the kind.            *)
LEMMA CountsNat ==
    ASSUME NEW q \in Seq(Packets)
    PROVE  /\ \A t : Sizes(q, t) \in Nat
           /\ Wanted(q) \in Nat /\ Answers(q) \in Nat
           /\ q = << >> => /\ \A t : Sizes(q, t) = 0
                           /\ Wanted(q) = 0 /\ Answers(q) = 0
  <1>0. Len(q) \in Nat /\ \A i \in 1..Len(q) : q[i].n \in Nat
    BY PacketSize
  <1>1. ASSUME NEW t
        PROVE Sizes(q, t) \in Nat /\ (q = << >> => Sizes(q, t) = 0)
    <2> DEFINE f == [i \in 1..Len(q) |-> IF q[i].t = t THEN q[i].n ELSE 0]
    <2>1. f \in Seq(Nat) /\ Len(f) = Len(q)
      BY <1>0
    <2>2. Sizes(q, t) = Total(f)
      BY DEF Sizes
    <2> HIDE DEF f
    <2>3. q = << >> => Len(f) = 0
      BY <2>1
    <2> QED
      BY <2>1, <2>2, <2>3, TotalNat
  <1>2. Wanted(q) \in Nat /\ (q = << >> => Wanted(q) = 0)
    <2> DEFINE f == [i \in 1..Len(q) |-> IF q[i].t = "REQUEST" /\ q[i].r # "none" THEN 1 ELSE 0]
    <2>1. f \in Seq(Nat) /\ Len(f) = Len(q)
      BY <1>0
    <2>2. Wanted(q) = Total(f)
      BY DEF Wanted
    <2> HIDE DEF f
    <2>3. q = << >> => Len(f) = 0
      BY <2>1
    <2> QED
      BY <2>1, <2>2, <2>3, TotalNat
  <1>3. Answers(q) \in Nat /\ (q = << >> => Answers(q) = 0)
    <2> DEFINE f == [i \in 1..Len(q) |-> IF q[i].t \in Replies THEN 1 ELSE 0]
    <2>1. f \in Seq(Nat) /\ Len(f) = Len(q)
      BY <1>0
    <2>2. Answers(q) = Total(f)
      BY DEF Answers
    <2> HIDE DEF f
    <2>3. q = << >> => Len(f) = 0
      BY <2>1
    <2> QED
      BY <2>1, <2>2, <2>3, TotalNat
  <1> QED
    BY <1>1, <1>2, <1>3

LEMMA SizesNone ==
    ASSUME NEW q \in Seq(Packets), NEW t, ~Has(q, {t})
    PROVE  Sizes(q, t) = 0
  <1> DEFINE f == [i \in 1..Len(q) |-> IF q[i].t = t THEN q[i].n ELSE 0]
  <1>1. f \in Seq(Nat) /\ Len(f) = Len(q) /\ \A i \in 1..Len(q) : f[i] = 0
    BY DEF Has
  <1>2. Sizes(q, t) = Total(f)
    BY DEF Sizes
  <1> HIDE DEF f
  <1>3. \A i \in 1..Len(f) : f[i] = 0
    BY <1>1
  <1> QED
    BY <1>1, <1>2, <1>3, TotalZero

LEMMA PushCounts ==
    ASSUME NEW q, NEW s, NEW a, Pushed(q, s, a)
    PROVE  /\ \A t : Sizes(s, t) = Sizes(q, t) + Size(a, t)
           /\ Wanted(s) = Wanted(q) + Want(a)
           /\ Answers(s) = Answers(q) + Answer(a)
  <1>0. /\ Len(q) \in Nat /\ Len(s) = Len(q) + 1 /\ Len(s) \in 1..Len(s)
        /\ \A i \in 1..Len(q) : q[i].n \in Nat /\ s[i] = q[i] /\ i \in 1..Len(s)
        /\ \A i \in 1..Len(s) : s[i].n \in Nat
        /\ s[Len(s)] = a
    BY PacketSize DEF Pushed
  <1>1. ASSUME NEW t
        PROVE Sizes(s, t) = Sizes(q, t) + Size(a, t)
    <2> DEFINE f == [i \in 1..Len(q) |-> IF q[i].t = t THEN q[i].n ELSE 0]
               g == [i \in 1..Len(s) |-> IF s[i].t = t THEN s[i].n ELSE 0]
    <2>1. /\ f \in Seq(Nat) /\ Len(f) = Len(q) /\ g \in Seq(Nat) /\ Len(g) = Len(s)
          /\ \A i \in 1..Len(q) : g[i] = f[i]
          /\ g[Len(s)] = Size(a, t)
      BY <1>0 DEF Size
    <2>2. Sizes(q, t) = Total(f) /\ Sizes(s, t) = Total(g)
      BY DEF Sizes
    <2> HIDE DEF f, g
    <2>3. Total(g) = Total(f) + g[Len(g)]
      BY <1>0, <2>1, TotalMore
    <2> QED
      BY <2>1, <2>2, <2>3
  <1>2. Wanted(s) = Wanted(q) + Want(a)
    <2> DEFINE f == [i \in 1..Len(q) |-> IF q[i].t = "REQUEST" /\ q[i].r # "none" THEN 1 ELSE 0]
               g == [i \in 1..Len(s) |-> IF s[i].t = "REQUEST" /\ s[i].r # "none" THEN 1 ELSE 0]
    <2>1. /\ f \in Seq(Nat) /\ Len(f) = Len(q) /\ g \in Seq(Nat) /\ Len(g) = Len(s)
          /\ \A i \in 1..Len(q) : g[i] = f[i]
          /\ g[Len(s)] = Want(a)
      BY <1>0 DEF Want
    <2>2. Wanted(q) = Total(f) /\ Wanted(s) = Total(g)
      BY DEF Wanted
    <2> HIDE DEF f, g
    <2>3. Total(g) = Total(f) + g[Len(g)]
      BY <1>0, <2>1, TotalMore
    <2> QED
      BY <2>1, <2>2, <2>3
  <1>3. Answers(s) = Answers(q) + Answer(a)
    <2> DEFINE f == [i \in 1..Len(q) |-> IF q[i].t \in Replies THEN 1 ELSE 0]
               g == [i \in 1..Len(s) |-> IF s[i].t \in Replies THEN 1 ELSE 0]
    <2>1. /\ f \in Seq(Nat) /\ Len(f) = Len(q) /\ g \in Seq(Nat) /\ Len(g) = Len(s)
          /\ \A i \in 1..Len(q) : g[i] = f[i]
          /\ g[Len(s)] = Answer(a)
      BY <1>0 DEF Answer
    <2>2. Answers(q) = Total(f) /\ Answers(s) = Total(g)
      BY DEF Answers
    <2> HIDE DEF f, g
    <2>3. Total(g) = Total(f) + g[Len(g)]
      BY <1>0, <2>1, TotalMore
    <2> QED
      BY <2>1, <2>2, <2>3
  <1> QED
    BY <1>1, <1>2, <1>3

LEMMA TakeCounts ==
    ASSUME NEW q, NEW s, NEW a, Took(q, s, a)
    PROVE  /\ \A t : Sizes(q, t) = Size(a, t) + Sizes(s, t)
           /\ Wanted(q) = Want(a) + Wanted(s)
           /\ Answers(q) = Answer(a) + Answers(s)
  <1>0. /\ Len(s) \in Nat /\ Len(q) = Len(s) + 1 /\ 1 \in 1..Len(q)
        /\ \A i \in 1..Len(s) : s[i].n \in Nat /\ s[i] = q[i + 1] /\ i + 1 \in 1..Len(q)
        /\ \A i \in 1..Len(q) : q[i].n \in Nat
        /\ q[1] = a
    BY PacketSize DEF Took
  <1>1. ASSUME NEW t
        PROVE Sizes(q, t) = Size(a, t) + Sizes(s, t)
    <2> DEFINE f == [i \in 1..Len(q) |-> IF q[i].t = t THEN q[i].n ELSE 0]
               g == [i \in 1..Len(s) |-> IF s[i].t = t THEN s[i].n ELSE 0]
    <2>1. /\ f \in Seq(Nat) /\ Len(f) = Len(q) /\ g \in Seq(Nat) /\ Len(g) = Len(s)
          /\ \A i \in 1..Len(s) : g[i] = f[i + 1]
          /\ f[1] = Size(a, t)
      BY <1>0 DEF Size
    <2>2. Sizes(q, t) = Total(f) /\ Sizes(s, t) = Total(g)
      BY DEF Sizes
    <2> HIDE DEF f, g
    <2>3. Total(f) = f[1] + Total(g)
      BY <1>0, <2>1, TotalLess
    <2> QED
      BY <2>1, <2>2, <2>3
  <1>2. Wanted(q) = Want(a) + Wanted(s)
    <2> DEFINE f == [i \in 1..Len(q) |-> IF q[i].t = "REQUEST" /\ q[i].r # "none" THEN 1 ELSE 0]
               g == [i \in 1..Len(s) |-> IF s[i].t = "REQUEST" /\ s[i].r # "none" THEN 1 ELSE 0]
    <2>1. /\ f \in Seq(Nat) /\ Len(f) = Len(q) /\ g \in Seq(Nat) /\ Len(g) = Len(s)
          /\ \A i \in 1..Len(s) : g[i] = f[i + 1]
          /\ f[1] = Want(a)
      BY <1>0 DEF Want
    <2>2. Wanted(q) = Total(f) /\ Wanted(s) = Total(g)
      BY DEF Wanted
    <2> HIDE DEF f, g
    <2>3. Total(f) = f[1] + Total(g)
      BY <1>0, <2>1, TotalLess
    <2> QED
      BY <2>1, <2>2, <2>3
  <1>3. Answers(q) = Answer(a) + Answers(s)
    <2> DEFINE f == [i \in 1..Len(q) |-> IF q[i].t \in Replies THEN 1 ELSE 0]
               g == [i \in 1..Len(s) |-> IF s[i].t \in Replies THEN 1 ELSE 0]
    <2>1. /\ f \in Seq(Nat) /\ Len(f) = Len(q) /\ g \in Seq(Nat) /\ Len(g) = Len(s)
          /\ \A i \in 1..Len(s) : g[i] = f[i + 1]
          /\ f[1] = Answer(a)
      BY <1>0 DEF Answer
    <2>2. Answers(q) = Total(f) /\ Answers(s) = Total(g)
      BY DEF Answers
    <2> HIDE DEF f, g
    <2>3. Total(f) = f[1] + Total(g)
      BY <1>0, <2>1, TotalLess
    <2> QED
      BY <2>1, <2>2, <2>3
  <1> QED
    BY <1>1, <1>2, <1>3

(* A queue of replies that answer nothing is empty.                        *)
LEMMA NoAnswers ==
    ASSUME NEW q \in Seq(Packets), Only(q, Replies), Answers(q) = 0
    PROVE  q = << >>
  <1>1. SUFFICES ASSUME q # << >> PROVE FALSE
    OBVIOUS
  <1>2. Took(q, Tail(q), Head(q))
    BY <1>1, TailTook
  <1>3. Answers(q) = Answer(Head(q)) + Answers(Tail(q))
    BY <1>2, TakeCounts, Zenon
  <1>4. Answer(Head(q)) = 1
    BY <1>2 DEF Took, Only, Answer
  <1>5. Answers(Tail(q)) \in Nat
    BY <1>2, CountsNat DEF Took
  <1> QED
    BY <1>3, <1>4, <1>5
-----------------------------------------------------------------------------
(* Steps of a handler, one by one.                                         *)

(* y is x but for the fields S.                                            *)
Keeps(x, y, S) ==
    /\ DOMAIN x = Fields /\ DOMAIN y = Fields
    /\ "life" \in S \/ y.life = x.life
    /\ "closes" \in S \/ y.closes = x.closes
    /\ "pending_eof" \in S \/ y.pending_eof = x.pending_eof
    /\ "throttling_conn" \in S \/ y.throttling_conn = x.throttling_conn
    /\ "throttled_by_backlog" \in S \/ y.throttled_by_backlog = x.throttled_by_backlog
    /\ "outbuffer" \in S \/ y.outbuffer = x.outbuffer
    /\ "remwindow" \in S \/ y.remwindow = x.remwindow
    /\ "locwindow" \in S \/ y.locwindow = x.locwindow
    /\ "locmaxwin" \in S \/ y.locmaxwin = x.locmaxwin
    /\ "remlocwin" \in S \/ y.remlocwin = x.remlocwin
    /\ "chanreqs" \in S \/ y.chanreqs = x.chanreqs
    /\ "throttle_state" \in S \/ y.throttle_state = x.throttle_state
    /\ "chan" \in S \/ y.chan = x.chan
    /\ "fixed" \in S \/ y.fixed = x.fixed
    /\ "x11" \in S \/ y.x11 = x.x11
    /\ "bugs" \in S \/ y.bugs = x.bugs
    /\ "simple" \in S \/ y.simple = x.simple
    /\ "all_throttled" \in S \/ y.all_throttled = x.all_throttled
    /\ "throttle_count" \in S \/ y.throttle_count = x.throttle_count
    /\ "user_input" \in S \/ y.user_input = x.user_input
    /\ "tx" \in S \/ y.tx = x.tx
    /\ "config" \in S \/ y.config = x.config
    /\ "has_fallback" \in S \/ y.has_fallback = x.has_fallback
    /\ "seat_eof" \in S \/ y.seat_eof = x.seat_eof
    /\ "req" \in S \/ y.req = x.req
    /\ "got_pty" \in S \/ y.got_pty = x.got_pty
    /\ "ready" \in S \/ y.ready = x.ready
    /\ "reading" \in S \/ y.reading = x.reading
    /\ "eof_sent" \in S \/ y.eof_sent = x.eof_sent
    /\ "eof_pending" \in S \/ y.eof_pending = x.eof_pending
    /\ "backlog" \in S \/ y.backlog = x.backlog
    /\ "eofs" \in S \/ y.eofs = x.eofs
    /\ "written" \in S \/ y.written = x.written
    /\ "lost" \in S \/ y.lost = x.lost
    /\ "got" \in S \/ y.got = x.got
    /\ "specials" \in S \/ y.specials = x.specials
    /\ "fault" \in S \/ y.fault = x.fault

LEMMA PushPhase ==
    ASSUME NEW x, NEW y, NEW r, NEW p, NEW a,
           Phase(x, r, p), x.life = "open", y.life = "open",
           Pushed(x.tx, y.tx, a), a.t \in Body
    PROVE  Phase(y, r, p) /\ (p.state = "opening" => y.tx[1] = x.tx[1])
  <1>1. /\ Len(x.tx) \in Nat /\ Len(y.tx) = Len(x.tx) + 1 /\ y.tx # << >>
        /\ \A i \in 1..Len(y.tx) : i = Len(x.tx) + 1 \/ i \in 1..Len(x.tx)
        /\ \A i \in 1..Len(x.tx) : y.tx[i] = x.tx[i]
        /\ y.tx[Len(x.tx) + 1] = a
        /\ x.tx # << >> => 1 \in 1..Len(x.tx)
        /\ x.tx = << >> => Len(x.tx) = 0
    BY DEF Pushed
  <1>2. y.tx[1] = IF x.tx = << >> THEN a ELSE x.tx[1]
    BY <1>1
  <1>3. p.state # "closed"
    BY DEF Phase, Refused
  <1>4. Opening(x, r) => x.tx # << >> /\ Opening(y, r)
    <2> HAVE Opening(x, r)
    <2>1. /\ r = << >> /\ x.tx # << >> /\ x.tx[1].t = "CONFIRMATION"
          /\ \A i \in 1..Len(x.tx) : i = 1 \/ x.tx[i].t \in Body
      BY DEF Opening
    <2>2. \A i \in 1..Len(y.tx) : i = 1 \/ y.tx[i].t \in Body
      BY <1>1, <2>1
    <2> QED
      BY <1>1, <1>2, <2>1, <2>2 DEF Opening
  <1>5. Opened(x, r) => Opened(y, r)
    <2> HAVE Opened(x, r)
    <2>1. Only(x.tx, Body) /\ Only(r, Body)
      BY DEF Opened
    <2>2. Only(y.tx, Body)
      BY <1>1, <2>1 DEF Only
    <2> QED
      BY <2>1, <2>2 DEF Opened
  <1> QED
    BY <1>2, <1>3, <1>4, <1>5 DEF Phase

LEMMA PushOutgoing ==
    ASSUME NEW x, NEW y, NEW p, NEW a,
           Outgoing(x, p), SENT_CLOSE \notin x.closes, Pushed(x.tx, y.tx, a),
           a.t = "DATA" => SENT_EOF \notin x.closes
    PROVE  /\ \A i, j \in 1..Len(y.tx) :
                i < j => y.tx[i].t # "CLOSE" /\ (y.tx[i].t = "EOF" => y.tx[j].t # "DATA")
           /\ ~p.gotClose /\ ~Has(x.tx, {"CLOSE"})
           /\ p.gotEof => ~Has(y.tx, {"DATA"})
           /\ \A t : Has(y.tx, {t}) <=> Has(x.tx, {t}) \/ a.t = t
  <1>1. /\ Len(x.tx) \in Nat /\ Len(y.tx) = Len(x.tx) + 1
        /\ \A i \in 1..Len(y.tx) : i = Len(x.tx) + 1 \/ i \in 1..Len(x.tx)
        /\ \A i \in 1..Len(x.tx) : y.tx[i] = x.tx[i] /\ i \in 1..Len(y.tx)
        /\ y.tx[Len(x.tx) + 1] = a /\ Len(x.tx) + 1 \in 1..Len(y.tx)
        /\ Len(x.tx) + 1 \notin 1..Len(x.tx)
    BY DEF Pushed
  <1>2. ~p.gotClose /\ ~Has(x.tx, {"CLOSE"}) /\ (a.t = "DATA" => ~Has(x.tx, {"EOF"}))
    BY DEF Outgoing
  <1>3. \A i \in 1..Len(x.tx) : x.tx[i].t # "CLOSE" /\ (a.t = "DATA" => x.tx[i].t # "EOF")
    BY <1>2 DEF Has
  <1>4. ASSUME NEW i \in 1..Len(y.tx), NEW j \in 1..Len(y.tx), i < j
        PROVE  y.tx[i].t # "CLOSE" /\ (y.tx[i].t = "EOF" => y.tx[j].t # "DATA")
    <2>1. i \in 1..Len(x.tx)
      BY <1>1, <1>4
    <2>2. CASE j = Len(x.tx) + 1
      BY <1>1, <1>3, <2>1, <2>2
    <2>3. CASE j \in 1..Len(x.tx)
      <3>1. x.tx[i].t # "CLOSE" /\ (x.tx[i].t = "EOF" => x.tx[j].t # "DATA")
        BY <1>4, <2>1, <2>3 DEF Outgoing
      <3> QED
        BY <1>1, <2>1, <2>3, <3>1
    <2> QED
      BY <1>1, <2>2, <2>3
  <1>5. ASSUME NEW t PROVE Has(y.tx, {t}) <=> Has(x.tx, {t}) \/ a.t = t
    <2>1. Has(y.tx, {t}) => Has(x.tx, {t}) \/ a.t = t
      BY <1>1 DEF Has
    <2>2. Has(x.tx, {t}) => Has(y.tx, {t})
      BY <1>1 DEF Has
    <2>3. a.t = t => Has(y.tx, {t})
      BY <1>1 DEF Has
    <2> QED
      BY <2>1, <2>2, <2>3
  <1>6. p.gotEof => ~Has(x.tx, {"DATA"}) /\ a.t # "DATA"
    BY DEF Outgoing
  <1> QED
    BY <1>2, <1>4, <1>5, <1>6

(* What a packet changes, on its way to the peer.                          *)
PushedOn(x, y, r, p, a) ==
    /\ y.tx \in Seq(Packets) /\ Phase(y, r, p)
    /\ p.state = "opening" => y.tx[1] = x.tx[1]
    /\ Sizes(x.tx, "DATA") \in Nat /\ Sizes(y.tx, "DATA") = Sizes(x.tx, "DATA") + Size(a, "DATA")
    /\ Sizes(x.tx, "ADJUST") \in Nat /\ Sizes(y.tx, "ADJUST") = Sizes(x.tx, "ADJUST") + Size(a, "ADJUST")
    /\ Wanted(x.tx) \in Nat /\ Wanted(y.tx) = Wanted(x.tx) + Want(a)
    /\ \A i, j \in 1..Len(y.tx) :
          i < j => y.tx[i].t # "CLOSE" /\ (y.tx[i].t = "EOF" => y.tx[j].t # "DATA")
    /\ ~p.gotClose /\ ~Has(x.tx, {"CLOSE"})
    /\ p.gotEof => ~Has(y.tx, {"DATA"})
    /\ \A t : Has(y.tx, {t}) <=> Has(x.tx, {t}) \/ a.t = t

LEMMA PushGood ==
    ASSUME NEW x, NEW y, NEW r, NEW p, NEW w, NEW e, NEW a \in Packets,
           Good(x, r, p, w, e), x.life = "open", y.life = "open",
           SENT_CLOSE \notin x.closes, a.t \in Body,
           a.t = "DATA" => SENT_EOF \notin x.closes,
           y.tx = Append(x.tx, a)
    PROVE  PushedOn(x, y, r, p, a)
  <1>1. x.tx \in Seq(Packets) /\ Phase(x, r, p) /\ Outgoing(x, p)
    BY DEF Good, Typed
  <1>2. Pushed(x.tx, y.tx, a) /\ y.tx \in Seq(Packets)
    BY <1>1, PushPushed DEF Pushed
  <1>3. /\ \A t : Sizes(y.tx, t) = Sizes(x.tx, t) + Size(a, t)
        /\ Wanted(y.tx) = Wanted(x.tx) + Want(a)
    BY <1>2, PushCounts
  <1>4. /\ \A t : Sizes(x.tx, t) \in Nat
        /\ Wanted(x.tx) \in Nat
    BY <1>1, CountsNat
  <1>5. Phase(y, r, p) /\ (p.state = "opening" => y.tx[1] = x.tx[1])
    BY <1>1, <1>2, PushPhase
  <1>6. /\ \A i, j \in 1..Len(y.tx) :
             i < j => y.tx[i].t # "CLOSE" /\ (y.tx[i].t = "EOF" => y.tx[j].t # "DATA")
        /\ ~p.gotClose /\ ~Has(x.tx, {"CLOSE"})
        /\ p.gotEof => ~Has(y.tx, {"DATA"})
        /\ \A t : Has(y.tx, {t}) <=> Has(x.tx, {t}) \/ a.t = t
    BY <1>1, <1>2, PushOutgoing
  <1> QED
    BY <1>2, <1>3, <1>4, <1>5, <1>6 DEF PushedOn

LEMMA GoodNumbers ==
    ASSUME NEW x, NEW r, NEW p, NEW w, NEW e, Good(x, r, p, w, e)
    PROVE  /\ x.outbuffer \in Nat /\ x.remwindow \in Nat /\ x.locwindow \in Nat
           /\ x.written \in Nat /\ x.got \in Nat /\ x.backlog \in Nat
           /\ p.got \in Nat /\ p.recvwin \in Nat /\ p.sendwin \in Nat
           /\ p.sent \in Nat /\ p.room \in Nat /\ p.grants \in Nat
           /\ Sizes(r, "DATA") \in Nat /\ Sizes(r, "ADJUST") \in Nat
           /\ Sizes(x.tx, "DATA") \in Nat /\ Sizes(x.tx, "ADJUST") \in Nat
           /\ Wanted(x.tx) \in Nat /\ Answers(r) \in Nat /\ w \in 0..1
  <1>1. r \in Seq(Packets) /\ x.tx \in Seq(Packets) /\ x.chanreqs \in Seq(Requests)
    BY DEF Good, Typed
  <1>2. /\ Sizes(r, "DATA") \in Nat /\ Sizes(r, "ADJUST") \in Nat
        /\ Sizes(x.tx, "DATA") \in Nat /\ Sizes(x.tx, "ADJUST") \in Nat
        /\ Wanted(x.tx) \in Nat /\ Answers(r) \in Nat
    BY <1>1, CountsNat
  <1> QED
    BY <1>2 DEF Good, Typed, PeerTyped, Listed

(* y is x after the packet a was pushed, with all that goes with it.       *)
Sends(x, y, a, e) ==
    /\ a \in Packets /\ a.t \in Body
    /\ x.life = "open" /\ SENT_CLOSE \notin x.closes
    /\ Keeps(x, y, {"tx", "closes", "pending_eof", "outbuffer", "remwindow",
                    "locwindow", "chanreqs", "req"})
    /\ y.tx = Append(x.tx, a)
    /\ y.closes \subseteq Closes /\ x.closes \subseteq y.closes
    /\ RCVD_EOF \in y.closes => RCVD_EOF \in x.closes
    /\ RCVD_CLOSE \in y.closes => RCVD_CLOSE \in x.closes
    /\ a.t = "DATA" => SENT_EOF \notin x.closes
    /\ a.t = "EOF" => SENT_EOF \in y.closes /\ x.outbuffer = 0
    /\ a.t = "CLOSE" => SENT_CLOSE \in y.closes
    /\ SENT_CLOSE \in y.closes => SENT_EOF \in y.closes /\ y.chanreqs = << >>
    /\ SENT_EOF \in y.closes \ x.closes => e \/ x.pending_eof \/ x.chan = "zombie"
    /\ y.pending_eof => x.pending_eof /\ SENT_EOF \notin y.closes
    /\ Size(a, "DATA") <= x.outbuffer /\ Size(a, "DATA") <= x.remwindow
    /\ y.outbuffer = x.outbuffer - Size(a, "DATA")
    /\ y.remwindow = x.remwindow - Size(a, "DATA")
    /\ y.locwindow = x.locwindow + Size(a, "ADJUST")

(* A request that wants a reply is on the list.                            *)
Lists(x, y, a, w) ==
    /\ y.chanreqs \in Seq(Requests) /\ y.req \subseteq DOMAIN Rank
    /\ Listed(y, w) /\ Len(x.chanreqs) + Want(a) <= Len(y.chanreqs)

LEMMA SendGood ==
    ASSUME NEW x, NEW y, NEW r, NEW p, NEW w, NEW e, NEW a,
           Good(x, r, p, w, e), Sends(x, y, a, e), Lists(x, y, a, w)
    PROVE  Good(y, r, p, w, e)
  <1>0. /\ Typed(x) /\ PeerTyped(p) /\ r \in Seq(Packets)
        /\ Phase(x, r, p) /\ Incoming(x, r, p) /\ Outgoing(x, p)
        /\ Windows(x, r, p) /\ Listed(x, w) /\ Awaited(x, r, p, w)
        /\ Forgotten(x, r, p) /\ Knows(x, r, e)
    BY DEF Good
  <1>1. /\ DOMAIN y = Fields /\ y.life = x.life
        /\ y.throttling_conn = x.throttling_conn /\ y.throttle_count = x.throttle_count
        /\ y.locmaxwin = x.locmaxwin /\ y.remlocwin = x.remlocwin
        /\ y.throttle_state = x.throttle_state /\ y.chan = x.chan
        /\ y.fixed = x.fixed /\ y.x11 = x.x11 /\ y.bugs = x.bugs
        /\ y.user_input = x.user_input /\ y.reading = x.reading
        /\ y.eof_sent = x.eof_sent /\ y.backlog = x.backlog /\ y.eofs = x.eofs
        /\ y.written = x.written /\ y.got = x.got /\ y.fault = x.fault
    BY DEF Sends, Keeps
  <1>2. /\ x.life = "open" /\ y.life = "open" /\ SENT_CLOSE \notin x.closes
        /\ y.closes \subseteq Closes /\ x.closes \subseteq y.closes
        /\ RCVD_EOF \in y.closes => RCVD_EOF \in x.closes
        /\ RCVD_CLOSE \in y.closes => RCVD_CLOSE \in x.closes
        /\ SENT_CLOSE \in y.closes => SENT_EOF \in y.closes /\ y.chanreqs = << >>
        /\ SENT_EOF \in y.closes \ x.closes => e \/ x.pending_eof \/ x.chan = "zombie"
        /\ y.pending_eof => x.pending_eof /\ SENT_EOF \notin y.closes
    BY <1>1 DEF Sends
  <1>3. /\ a \in Packets /\ a.t \in Body
        /\ a.t = "DATA" => SENT_EOF \notin x.closes
        /\ a.t = "EOF" => SENT_EOF \in y.closes /\ x.outbuffer = 0
        /\ a.t = "CLOSE" => SENT_CLOSE \in y.closes
    BY DEF Sends
  <1>4. /\ Size(a, "DATA") \in Nat /\ Size(a, "ADJUST") \in Nat /\ Want(a) \in Nat
    BY <1>3 DEF Size, Want, Packets
  <1>5. PushedOn(x, y, r, p, a)
    <2>1. y.tx = Append(x.tx, a)
      BY DEF Sends
    <2> QED
      BY <1>2, <1>3, <2>1, PushGood
  <1>6. /\ Sizes(y.tx, "DATA") = Sizes(x.tx, "DATA") + Size(a, "DATA")
        /\ Sizes(y.tx, "ADJUST") = Sizes(x.tx, "ADJUST") + Size(a, "ADJUST")
        /\ Wanted(y.tx) = Wanted(x.tx) + Want(a)
    BY <1>5 DEF PushedOn
  <1>7. /\ Size(a, "DATA") <= x.outbuffer /\ Size(a, "DATA") <= x.remwindow
        /\ y.outbuffer = x.outbuffer - Size(a, "DATA")
        /\ y.remwindow = x.remwindow - Size(a, "DATA")
        /\ y.locwindow = x.locwindow + Size(a, "ADJUST")
    BY DEF Sends
  <1>8. /\ x.outbuffer \in Nat /\ x.remwindow \in Nat /\ x.locwindow \in Nat
        /\ x.written \in Nat /\ p.got \in Nat /\ p.recvwin \in Nat /\ p.sendwin \in Nat
        /\ Sizes(r, "DATA") \in Nat /\ Sizes(r, "ADJUST") \in Nat
        /\ Sizes(x.tx, "DATA") \in Nat /\ Sizes(x.tx, "ADJUST") \in Nat
        /\ Wanted(x.tx) \in Nat /\ Answers(r) \in Nat /\ w \in 0..1
    BY GoodNumbers, Zenon
  <1>9. Typed(y)
    <2>1. y.outbuffer \in Nat /\ y.remwindow \in Nat /\ y.locwindow \in Nat
      BY <1>4, <1>7, <1>8
    <2>2. y.tx \in Seq(Packets) /\ y.chanreqs \in Seq(Requests) /\ y.req \subseteq DOMAIN Rank
      BY <1>5 DEF PushedOn, Lists
    <2> QED
      BY <1>0, <1>1, <1>2, <2>1, <2>2 DEF Typed
  <1>10. Incoming(y, r, p)
    BY <1>0, <1>1, <1>2 DEF Incoming
  <1>11. Outgoing(y, p)
    <2>1. Has(y.tx, {"CLOSE"}) \/ p.gotClose => SENT_CLOSE \in y.closes
      BY <1>3, <1>5 DEF PushedOn
    <2>2. Has(y.tx, {"EOF"}) \/ p.gotEof => SENT_EOF \in y.closes /\ y.outbuffer = 0
      <3>1. Has(x.tx, {"EOF"}) \/ p.gotEof => SENT_EOF \in x.closes /\ x.outbuffer = 0
        BY <1>0 DEF Outgoing
      <3>2. Has(y.tx, {"EOF"}) => Has(x.tx, {"EOF"}) \/ a.t = "EOF"
        BY <1>5 DEF PushedOn
      <3>3. x.outbuffer = 0 => y.outbuffer = 0
        BY <1>4, <1>7
      <3> QED
        BY <1>2, <1>3, <3>1, <3>2, <3>3
    <2>3. y.pending_eof => SENT_EOF \notin y.closes /\ y.chan # "zombie"
      BY <1>0, <1>1, <1>2 DEF Outgoing
    <2>4. ~p.close => p.got + Sizes(y.tx, "DATA") + y.outbuffer = y.written
      <3>1. ~p.close => p.got + Sizes(x.tx, "DATA") + x.outbuffer = x.written
        BY <1>0 DEF Outgoing
      <3> QED
        BY <1>1, <1>4, <1>6, <1>7, <1>8, <3>1
    <2> QED
      BY <1>2, <1>5, <2>1, <2>2, <2>3, <2>4 DEF Outgoing, PushedOn
  <1>12. Windows(y, r, p)
    <2>1. /\ Sizes(x.tx, "DATA") <= p.recvwin
          /\ SENT_EOF \notin x.closes =>
                x.remwindow + Sizes(x.tx, "DATA") + Sizes(r, "ADJUST") = p.recvwin
          /\ p.state = "opening" => x.locwindow = x.tx[1].n + Sizes(x.tx, "ADJUST")
          /\ p.state = "open" => x.locwindow = p.sendwin + Sizes(r, "DATA") + Sizes(x.tx, "ADJUST")
      BY <1>0, <1>2 DEF Windows
    <2>2. Sizes(y.tx, "DATA") <= p.recvwin
      <3>1. SENT_EOF \in x.closes => Size(a, "DATA") = 0
        BY <1>3 DEF Size
      <3> QED
        BY <1>4, <1>6, <1>7, <1>8, <2>1, <3>1
    <2>3. SENT_EOF \notin y.closes =>
             y.remwindow + Sizes(y.tx, "DATA") + Sizes(r, "ADJUST") = p.recvwin
      <3>1. SENT_EOF \notin y.closes => SENT_EOF \notin x.closes
        BY <1>2
      <3> QED
        BY <1>4, <1>6, <1>7, <1>8, <2>1, <3>1
    <2>4. p.state = "opening" => y.tx[1].n \in Nat /\ y.tx[1] = x.tx[1]
      <3>1. p.state = "opening" => y.tx[1] = x.tx[1] /\ y.tx # << >>
        BY <1>2, <1>5 DEF PushedOn, Phase, Opening
      <3>2. y.tx \in Seq(Packets)
        BY <1>5 DEF PushedOn
      <3>3. y.tx # << >> => 1 \in 1..Len(y.tx)
        BY <3>2
      <3> QED
        BY <3>1, <3>2, <3>3, PacketSize
    <2>5. p.state = "opening" => y.locwindow = y.tx[1].n + Sizes(y.tx, "ADJUST")
      BY <1>4, <1>6, <1>7, <1>8, <2>1, <2>4
    <2>6. p.state = "open" => y.locwindow = p.sendwin + Sizes(r, "DATA") + Sizes(y.tx, "ADJUST")
      BY <1>4, <1>6, <1>7, <1>8, <2>1
    <2> QED
      BY <1>2, <2>2, <2>3, <2>5, <2>6 DEF Windows
  <1>13. Listed(y, w) /\ Len(x.chanreqs) + Want(a) <= Len(y.chanreqs) /\ Len(y.chanreqs) \in Nat
    BY DEF Lists
  <1>14. Awaited(y, r, p, w)
    <2>1. ~p.close \/ Has(r, {"CLOSE"}) \/ "late" \in x.bugs
          => Answers(r) + Wanted(x.tx) + w <= Len(x.chanreqs)
      BY <1>0 DEF Awaited
    <2>2. Answers(r) + Wanted(x.tx) + w <= Len(x.chanreqs)
          => Answers(r) + Wanted(y.tx) + w <= Len(y.chanreqs)
      <3>1. PICK l \in Nat : l = Len(x.chanreqs)
        <4>1. x.chanreqs \in Seq(Requests)
          BY <1>0 DEF Typed
        <4> QED
          BY <4>1
      <3>2. PICK m \in Nat : m = Len(y.chanreqs)
        BY <1>13
      <3>3. l + Want(a) <= m
        BY <1>13, <3>1, <3>2, Zenon
      <3>4. Answers(r) + Wanted(x.tx) + w <= l => Answers(r) + Wanted(y.tx) + w <= m
        BY <1>4, <1>6, <1>8, <3>3
      <3> QED
        BY <3>1, <3>2, <3>4, Zenon
    <2> QED
      BY <1>1, <2>1, <2>2 DEF Awaited
  <1>15. Forgotten(y, r, p)
    BY <1>2 DEF Forgotten
  <1>16. Knows(y, r, e)
    BY <1>0, <1>1, <1>2 DEF Knows
  <1> QED
    BY <1>0, <1>5, <1>9, <1>10, <1>11, <1>12, <1>13, <1>14, <1>15, <1>16 DEF Good, PushedOn

(* The list of requests as it is.                                          *)
LEMMA ListedSame ==
    ASSUME NEW x, NEW y, NEW w, Listed(x, w), y.chanreqs = x.chanreqs, y.req = x.req,
           y.chan = x.chan, y.life = x.life
    PROVE  Listed(y, w)
  BY DEF Listed

LEMMA SendPlain ==
    ASSUME NEW x, NEW y, NEW r, NEW p, NEW w, NEW e, NEW a,
           Good(x, r, p, w, e), Sends(x, y, a, e), Want(a) = 0,
           y.chanreqs = x.chanreqs, y.req = x.req
    PROVE  Good(y, r, p, w, e)
  <1>1. y.chan = x.chan /\ y.life = x.life
    BY DEF Sends, Keeps
  <1>2. x.chanreqs \in Seq(Requests) /\ x.req \subseteq DOMAIN Rank /\ Listed(x, w)
    BY DEF Good, Typed
  <1>3. Listed(y, w)
    BY <1>1, <1>2, ListedSame
  <1>4. Len(x.chanreqs) + Want(a) <= Len(y.chanreqs)
    BY <1>2
  <1>5. Lists(x, y, a, w)
    BY <1>2, <1>3, <1>4 DEF Lists
  <1> QED
    BY <1>5, SendGood

(* Fields of the local end, of the connection and of the window's story,   *)
(* which the rest of the invariant hardly speaks of.                       *)
Sets(x, y) ==
    /\ Keeps(x, y, {"throttled_by_backlog", "all_throttled", "eof_pending", "got_pty",
                    "lost", "specials", "remlocwin", "locmaxwin", "throttle_state",
                    "throttling_conn", "throttle_count", "reading", "ready", "eof_sent",
                    "x11", "fixed", "fault", "backlog"})
    /\ y.remlocwin \in Int /\ y.locmaxwin \in Nat \ {0}
    /\ y.throttle_state \in {"THROTTLED", "UNTHROTTLING", "UNTHROTTLED"}
    /\ y.throttling_conn \in BOOLEAN /\ y.fixed \in BOOLEAN
    /\ y.throttle_count = IF y.throttling_conn THEN 1 ELSE 0
    /\ y.x11 \in Outcomes
    /\ y.fault \in {"none", "freed under handler"}
    /\ y.backlog \in Nat /\ y.backlog <= x.backlog
    /\ x.life # "open" => /\ y.ready = x.ready /\ y.locmaxwin = x.locmaxwin
                          /\ y.fixed = x.fixed /\ y.x11 = x.x11

LEMMA SetGood ==
    ASSUME NEW x, NEW y, NEW r, NEW p, NEW w, NEW e, NEW f,
           Good(x, r, p, w, e), Sets(x, y), Knows(y, r, f)
    PROVE  Good(y, r, p, w, f)
  <1>0. /\ Typed(x) /\ PeerTyped(p) /\ r \in Seq(Packets)
        /\ Phase(x, r, p) /\ Incoming(x, r, p) /\ Outgoing(x, p)
        /\ Windows(x, r, p) /\ Listed(x, w) /\ Awaited(x, r, p, w)
        /\ Forgotten(x, r, p)
    BY DEF Good
  <1>1. /\ DOMAIN y = Fields /\ y.life = x.life /\ y.closes = x.closes
        /\ y.pending_eof = x.pending_eof /\ y.outbuffer = x.outbuffer
        /\ y.remwindow = x.remwindow /\ y.locwindow = x.locwindow
        /\ y.chanreqs = x.chanreqs /\ y.chan = x.chan /\ y.bugs = x.bugs
        /\ y.user_input = x.user_input /\ y.tx = x.tx /\ y.req = x.req
        /\ y.eofs = x.eofs /\ y.written = x.written /\ y.got = x.got
        /\ y.simple = x.simple
    BY DEF Sets, Keeps
  <1>2. /\ y.remlocwin \in Int /\ y.locmaxwin \in Nat \ {0}
        /\ y.throttle_state \in {"THROTTLED", "UNTHROTTLING", "UNTHROTTLED"}
        /\ y.throttling_conn \in BOOLEAN /\ y.fixed \in BOOLEAN
        /\ y.throttle_count = IF y.throttling_conn THEN 1 ELSE 0
        /\ y.x11 \in Outcomes
        /\ y.fault \in {"none", "freed under handler"}
        /\ y.backlog \in Nat
    BY DEF Sets
  <1>3. y.backlog <= x.backlog
    BY DEF Sets
  <1>10. /\ x.life # "open" => /\ y.ready = x.ready /\ y.locmaxwin = x.locmaxwin
                              /\ y.fixed = x.fixed /\ y.x11 = x.x11
    BY DEF Sets
  <1>4. Typed(y)
    BY <1>0, <1>1, <1>2 DEF Typed
  <1>11. y.backlog \in Nat
    BY <1>2
  <1>5. x.backlog = 0 => y.backlog = 0
    BY <1>3, <1>11
  <1>6. Phase(y, r, p)
    <2>1. y.life \in {"none", "half"} => Untouched(y) /\ ~y.fixed
      BY <1>0, <1>1, <1>10, <1>5 DEF Phase, Untouched
    <2>2. Opening(x, r) => Opening(y, r)
      BY <1>1 DEF Opening
    <2>3. Opened(x, r) => Opened(y, r)
      BY <1>1 DEF Opened
    <2>4. Refused(x, r) => Refused(y, r)
      BY <1>1 DEF Refused
    <2> QED
      BY <1>0, <1>1, <1>10, <2>1, <2>2, <2>3, <2>4 DEF Phase
  <1>7. Incoming(y, r, p)
    <2>1. y.backlog <= y.got
      <3>1. x.backlog <= x.got /\ x.got \in Nat /\ x.backlog \in Nat
        BY <1>0 DEF Incoming, Typed
      <3>2. y.got = x.got
        BY <1>1
      <3> QED
        BY <1>3, <1>11, <3>1, <3>2
    <2> QED
      BY <1>0, <1>1, <2>1 DEF Incoming
  <1>8. Outgoing(y, p) /\ Windows(y, r, p) /\ Awaited(y, r, p, w) /\ Forgotten(y, r, p)
    BY <1>0, <1>1 DEF Outgoing, Windows, Awaited, Forgotten
  <1>9. Listed(y, w)
    BY <1>0, <1>1, ListedSame
  <1> QED
    BY <1>0, <1>4, <1>6, <1>7, <1>8, <1>9 DEF Good

(* Knows, if what it speaks of is as it was.                               *)
LEMMA KnowsSame ==
    ASSUME NEW x, NEW y, NEW r, NEW e, Knows(x, r, e), y.chan = x.chan, y.x11 = x.x11,
           y.bugs = x.bugs, y.fixed = x.fixed, y.closes = x.closes,
           y.reading = x.reading, y.eof_sent = x.eof_sent,
           y.pending_eof = x.pending_eof
    PROVE  Knows(y, r, e)
  BY DEF Knows

(* What is about to be done may be left undone in the invariant.           *)
LEMMA KnowsLess ==
    ASSUME NEW x, NEW r, NEW e, Knows(x, r, e)
    PROVE  Knows(x, r, TRUE)
  BY DEF Knows

LEMMA GoodLess ==
    ASSUME NEW x, NEW r, NEW p, NEW w, NEW e, Good(x, r, p, w, e)
    PROVE  Good(x, r, p, w, TRUE)
  BY KnowsLess DEF Good
-----------------------------------------------------------------------------
(* Closing.                                                                *)

(* The end of what we send does not touch the end of what we receive.      *)
Later(x, y) ==
    /\ x.closes \subseteq y.closes
    /\ RCVD_EOF \in y.closes => RCVD_EOF \in x.closes
    /\ RCVD_CLOSE \in y.closes => RCVD_CLOSE \in x.closes

LEMMA SendCloseGood ==
    ASSUME NEW x, NEW y, NEW r, NEW p, NEW w, NEW e,
           Good(x, r, p, w, e), x.life = "open", y = SendClose(x)
    PROVE  /\ Good(y, r, p, w, e) /\ Keeps(x, y, {"tx", "closes"}) /\ Later(x, y)
           /\ x.chanreqs # << >> => y = x
           /\ SENT_CLOSE \in y.closes => SENT_CLOSE \in x.closes \/ x.chanreqs = << >>
           /\ chan_want_close(x) /\ x.chanreqs = << >> => SENT_CLOSE \in y.closes
  <1>0. DOMAIN x = Fields
    BY DEF Good, Typed
  <1>1. CASE ~(chan_want_close(x) /\ x.chanreqs = << >> /\ SENT_CLOSE \notin x.closes)
    <2>1. y = x
      BY <1>1 DEF SendClose
    <2>2. Keeps(x, y, {"tx", "closes"}) /\ Later(x, y)
      BY <1>0, <2>1 DEF Keeps, Later
    <2> QED
      BY <1>1, <2>1, <2>2
  <1>2. CASE chan_want_close(x) /\ x.chanreqs = << >> /\ SENT_CLOSE \notin x.closes
    <2> DEFINE a == Packet("CLOSE")
    <2>1. y = [Push(x, a) EXCEPT !.closes = @ \cup {SENT_EOF, SENT_CLOSE}]
      BY <1>2 DEF SendClose
    <2>2. /\ Keeps(x, y, {"tx", "closes"}) /\ y.tx = Append(x.tx, a)
          /\ y.closes = x.closes \cup {SENT_EOF, SENT_CLOSE}
      BY <1>0, <2>1 DEF Keeps, Push, Fields
    <2>3. /\ y.outbuffer = x.outbuffer /\ y.remwindow = x.remwindow
          /\ y.locwindow = x.locwindow /\ y.pending_eof = x.pending_eof
      BY <2>2 DEF Keeps
    <2>4. a \in Packets /\ a.t \in Body /\ a.t = "CLOSE"
      BY DEF Packet, Packets, Body, Names
    <2> HIDE DEF a
    <2>5. Size(a, "DATA") = 0 /\ Size(a, "ADJUST") = 0 /\ Want(a) = 0
      BY <2>4 DEF Size, Want
    <2>6. Later(x, y) /\ x.closes \subseteq Closes /\ y.closes \subseteq Closes
      BY <2>2 DEF Later, Good, Typed, Closes, SENT_EOF, SENT_CLOSE, RCVD_EOF, RCVD_CLOSE
    <2>7. Keeps(x, y, {"tx", "closes", "pending_eof", "outbuffer", "remwindow",
                       "locwindow", "chanreqs", "req"})
      BY <2>2 DEF Keeps
    <2>8. y.chanreqs = x.chanreqs /\ y.req = x.req
      BY <2>2 DEF Keeps
    <2>9. y.pending_eof => x.pending_eof /\ SENT_EOF \notin y.closes
      BY <1>2, <2>3 DEF Good, Outgoing, chan_want_close
    <2>10. SENT_EOF \in y.closes \ x.closes => x.chan = "zombie"
      BY <1>2 DEF chan_want_close
    <2>11. x.outbuffer \in Nat /\ x.remwindow \in Nat /\ x.locwindow \in Nat
      BY GoodNumbers, Zenon
    <2>12. /\ Size(a, "DATA") <= x.outbuffer /\ Size(a, "DATA") <= x.remwindow
           /\ y.outbuffer = x.outbuffer - Size(a, "DATA")
           /\ y.remwindow = x.remwindow - Size(a, "DATA")
           /\ y.locwindow = x.locwindow + Size(a, "ADJUST")
      BY <2>3, <2>5, <2>11
    <2>13. SENT_EOF \in y.closes /\ SENT_CLOSE \in y.closes
      BY <2>2
    <2>14. Sends(x, y, a, e)
      BY <1>2, <2>2, <2>4, <2>6, <2>7, <2>8, <2>9, <2>10, <2>12, <2>13 DEF Sends, Later
    <2>15. Good(y, r, p, w, e)
      BY <2>5, <2>8, <2>14, SendPlain
    <2> QED
      BY <1>2, <2>2, <2>6, <2>13, <2>15, Zenon
  <1> QED
    BY <1>1, <1>2

(* Two cases of it: input wanted or not, and what matters to nobody here.  *)
LEMMA ReadingSets ==
    ASSUME NEW x, NEW y, NEW r, NEW p, NEW w, NEW e, Good(x, r, p, w, e),
           Keeps(x, y, {"throttled_by_backlog", "all_throttled", "eof_pending", "got_pty",
                        "lost", "specials", "reading", "eof_sent"})
    PROVE  Sets(x, y)
  <1>1. Keeps(x, y, {"throttled_by_backlog", "all_throttled", "eof_pending", "got_pty",
                     "lost", "specials", "remlocwin", "locmaxwin", "throttle_state",
                     "throttling_conn", "throttle_count", "reading", "ready", "eof_sent",
                     "x11", "fixed", "fault", "backlog"})
    BY DEF Keeps
  <1>2. /\ y.remlocwin = x.remlocwin /\ y.locmaxwin = x.locmaxwin
        /\ y.throttle_state = x.throttle_state
        /\ y.throttling_conn = x.throttling_conn /\ y.throttle_count = x.throttle_count
        /\ y.x11 = x.x11 /\ y.fixed = x.fixed /\ y.fault = x.fault
        /\ y.backlog = x.backlog /\ y.ready = x.ready
    BY DEF Keeps
  <1>3. x.backlog \in Nat
    BY GoodNumbers, Zenon
  <1>4. y.backlog \in Nat /\ y.backlog <= x.backlog
    BY <1>2, <1>3
  <1>5. Typed(x)
    BY DEF Good
  <1> QED
    BY <1>1, <1>2, <1>4, <1>5 DEF Sets, Typed

LEMMA AsideGood ==
    ASSUME NEW x, NEW y, NEW r, NEW p, NEW w, NEW e, Good(x, r, p, w, e),
           Keeps(x, y, {"throttled_by_backlog", "all_throttled", "eof_pending", "got_pty",
                        "lost", "specials"})
    PROVE  Good(y, r, p, w, e)
  <1>1. Keeps(x, y, {"throttled_by_backlog", "all_throttled", "eof_pending", "got_pty",
                     "lost", "specials", "reading", "eof_sent"})
    BY DEF Keeps
  <1>2. Sets(x, y)
    BY <1>1, ReadingSets
  <1>3. /\ y.chan = x.chan /\ y.x11 = x.x11 /\ y.bugs = x.bugs /\ y.fixed = x.fixed
        /\ y.closes = x.closes /\ y.reading = x.reading /\ y.eof_sent = x.eof_sent
        /\ y.pending_eof = x.pending_eof
    BY DEF Keeps
  <1>4. Knows(y, r, e)
    BY <1>3, KnowsSame DEF Good
  <1> QED
    BY <1>2, <1>4, SetGood

LEMMA DestroyGood ==
    ASSUME NEW x, NEW y, NEW r, NEW p, NEW w, NEW e,
           Good(x, r, p, w, e), x.life = "open",
           {SENT_CLOSE, RCVD_CLOSE} \subseteq x.closes,
           y = ssh2_channel_destroy(x)
    PROVE  Good(y, r, p, w, e) /\ Keeps(x, y, {"life", "chan", "fixed"})
           /\ y.life = "freed"
  <1>0. /\ Typed(x) /\ PeerTyped(p) /\ r \in Seq(Packets)
        /\ Phase(x, r, p) /\ Incoming(x, r, p) /\ Outgoing(x, p)
        /\ Windows(x, r, p) /\ Listed(x, w) /\ Awaited(x, r, p, w)
        /\ Knows(x, r, e)
    BY DEF Good
  <1>1. x.chanreqs = << >> /\ ~x.pending_eof
    BY <1>0 DEF Outgoing
  <1>2. y = [close_local(x) EXCEPT !.life = "freed"]
    BY <1>1 DEF ssh2_channel_destroy
  <1>3. /\ Keeps(x, y, {"life", "chan", "fixed"})
        /\ y.life = "freed" /\ y.chan = "zombie" /\ y.fixed = FALSE
    <2>1. DOMAIN x = Fields
      BY <1>0 DEF Typed
    <2>2. y = [x EXCEPT !.chan = "zombie", !.fixed = FALSE, !.life = "freed"]
      BY <1>2 DEF close_local
    <2> QED
      BY <2>1, <2>2 DEF Keeps, Fields
  <1>4. /\ DOMAIN y = Fields /\ y.closes = x.closes
        /\ y.pending_eof = x.pending_eof /\ y.throttling_conn = x.throttling_conn
        /\ y.outbuffer = x.outbuffer /\ y.remwindow = x.remwindow
        /\ y.locwindow = x.locwindow /\ y.locmaxwin = x.locmaxwin
        /\ y.remlocwin = x.remlocwin /\ y.chanreqs = x.chanreqs
        /\ y.throttle_state = x.throttle_state /\ y.x11 = x.x11
        /\ y.bugs = x.bugs /\ y.throttle_count = x.throttle_count
        /\ y.user_input = x.user_input /\ y.tx = x.tx /\ y.req = x.req
        /\ y.reading = x.reading /\ y.eof_sent = x.eof_sent
        /\ y.backlog = x.backlog /\ y.eofs = x.eofs /\ y.written = x.written
        /\ y.got = x.got /\ y.fault = x.fault
    BY <1>3 DEF Keeps
  <1>5. Typed(y)
    BY <1>0, <1>3, <1>4 DEF Typed
  <1>6. p.close /\ Only(r, Replies) /\ ("late" \notin x.bugs => r = << >>)
    BY <1>0 DEF Incoming
  <1>7. p.state = "open"
    BY <1>0, <1>6 DEF Phase
  <1>8. Phase(y, r, p)
    <2>1. Only(x.tx, Body) /\ Only(r, Body)
      BY <1>0, <1>7 DEF Phase, Opened
    <2> QED
      BY <1>3, <1>4, <1>7, <2>1 DEF Phase, Opened
  <1>9. Incoming(y, r, p)
    BY <1>0, <1>3, <1>4 DEF Incoming
  <1>10. Outgoing(y, p)
    BY <1>0, <1>1, <1>4 DEF Outgoing
  <1>11. Windows(y, r, p)
    BY <1>0, <1>3, <1>4, <1>7 DEF Windows
  <1>12. w = 0 /\ x.req = {}
    <2>1. Asked(x.chanreqs, w) = {}
      BY <1>1 DEF Asked
    <2>2. x.req = {}
      BY <1>0, <2>1 DEF Listed
    <2>3. w = 0
      BY <1>0, <1>1 DEF Listed
    <2> QED
      BY <2>2, <2>3
  <1>13. Listed(y, w)
    <2>1. y.chanreqs = << >> /\ y.req = {} /\ w = 0
      BY <1>1, <1>4, <1>12
    <2>2. Asked(y.chanreqs, w) = {} /\ w <= Len(y.chanreqs) /\ w \in 0..1
      BY <2>1 DEF Asked
    <2> QED
      BY <2>1, <2>2, Zenon DEF Listed
  <1>14. Awaited(y, r, p, w)
    BY <1>0, <1>4 DEF Awaited
  <1>15. r = << >>
    <2>1. CASE "late" \in x.bugs
      <3>1. Answers(r) + Wanted(x.tx) + w <= 0
        BY <1>0, <1>1, <2>1 DEF Awaited
      <3>2. Answers(r) \in Nat /\ Wanted(x.tx) \in Nat /\ w \in 0..1
        BY GoodNumbers, Zenon
      <3>3. Answers(r) = 0
        BY <3>1, <3>2
      <3> QED
        BY <1>0, <1>6, <3>3, NoAnswers
    <2>2. CASE "late" \notin x.bugs
      BY <1>6, <2>2
    <2> QED
      BY <2>1, <2>2
  <1>16. Forgotten(y, r, p)
    BY <1>4, <1>6, <1>15 DEF Forgotten
  <1>17. Knows(y, r, e)
    BY <1>0, <1>3, <1>4 DEF Knows
  <1> QED
    BY <1>0, <1>3, <1>5, <1>8, <1>9, <1>10, <1>11, <1>13, <1>14, <1>16, <1>17 DEF Good

LEMMA CheckCloseGood ==
    ASSUME NEW x, NEW y, NEW r, NEW p, NEW w, NEW e,
           Good(x, r, p, w, e), x.life \in {"half", "open"},
           y = ssh2_channel_check_close(x)
    PROVE  /\ Good(y, r, p, w, e) /\ Later(x, y)
           /\ Keeps(x, y, {"tx", "closes", "life", "chan", "fixed"})
           /\ RCVD_CLOSE \notin x.closes => Keeps(x, y, {"tx", "closes"})
           /\ x.life = "half" \/ x.chanreqs # << >> => y = x
           /\ /\ chan_want_close(x) /\ x.chanreqs = << >> /\ x.life = "open"
              => SENT_CLOSE \in y.closes
  <1>0. DOMAIN x = Fields
    BY DEF Good, Typed
  <1>1. CASE x.life = "half"
    <2>1. y = x
      BY <1>1 DEF ssh2_channel_check_close
    <2>2. /\ Keeps(x, y, {"tx", "closes"}) /\ Later(x, y)
          /\ Keeps(x, y, {"tx", "closes", "life", "chan", "fixed"})
      BY <1>0, <2>1 DEF Keeps, Later
    <2> QED
      BY <1>1, <2>1, <2>2
  <1>2. CASE x.life = "open"
    <2>0. PICK z : z = SendClose(x)
      OBVIOUS
    <2>1. /\ Good(z, r, p, w, e) /\ Keeps(x, z, {"tx", "closes"}) /\ Later(x, z)
          /\ x.chanreqs # << >> => z = x
          /\ chan_want_close(x) /\ x.chanreqs = << >> => SENT_CLOSE \in z.closes
      BY <1>2, <2>0, SendCloseGood
    <2>2. y = IF {SENT_CLOSE, RCVD_CLOSE} \subseteq z.closes THEN ssh2_channel_destroy(z) ELSE z
      BY <1>2, <2>0 DEF ssh2_channel_check_close
    <2>3. z.life = "open"
      BY <1>2, <2>1 DEF Keeps
    <2>4. SENT_CLOSE \in x.closes => x.chanreqs = << >>
      BY DEF Good, Outgoing
    <2>5. CASE {SENT_CLOSE, RCVD_CLOSE} \subseteq z.closes
      <3>1. Good(y, r, p, w, e) /\ Keeps(z, y, {"life", "chan", "fixed"})
        BY <2>1, <2>2, <2>3, <2>5, DestroyGood
      <3>2. Keeps(x, y, {"tx", "closes", "life", "chan", "fixed"}) /\ y.closes = z.closes
        BY <2>1, <3>1 DEF Keeps
      <3>3. Later(x, y) /\ RCVD_CLOSE \in x.closes
        BY <2>1, <2>5, <3>2 DEF Later
      <3>4. x.chanreqs = << >>
        BY <2>1, <2>4, <2>5
      <3> QED
        BY <1>2, <2>5, <3>1, <3>2, <3>3, <3>4
    <2>6. CASE ~({SENT_CLOSE, RCVD_CLOSE} \subseteq z.closes)
      <3>1. y = z
        BY <2>2, <2>6
      <3>2. Keeps(x, y, {"tx", "closes", "life", "chan", "fixed"})
        BY <2>1, <3>1 DEF Keeps
      <3> QED
        BY <1>2, <2>1, <3>1, <3>2
    <2> QED
      BY <2>5, <2>6
  <1> QED
    BY <1>1, <1>2

LEMMA EofGood ==
    ASSUME NEW x, NEW y, NEW r, NEW p, NEW w, NEW e,
           Good(x, r, p, w, e), x.life = "open", x.outbuffer = 0,
           SENT_EOF \notin x.closes, e \/ x.pending_eof,
           Keeps(x, y, {"tx", "closes", "pending_eof"}), ~y.pending_eof,
           y.tx = Append(x.tx, Packet("EOF")), y.closes = x.closes \cup {SENT_EOF}
    PROVE  Good(y, r, p, w, e) /\ Later(x, y)
  <1> DEFINE a == Packet("EOF")
  <1>1. y.tx = Append(x.tx, a)
    OBVIOUS
  <1>2. /\ y.outbuffer = x.outbuffer /\ y.remwindow = x.remwindow
        /\ y.locwindow = x.locwindow
        /\ y.chanreqs = x.chanreqs /\ y.req = x.req
    BY DEF Keeps
  <1>3. Keeps(x, y, {"tx", "closes", "pending_eof", "outbuffer", "remwindow",
                     "locwindow", "chanreqs", "req"})
    BY DEF Keeps
  <1>4. a \in Packets /\ a.t \in Body /\ a.t = "EOF"
    BY DEF Packet, Packets, Body, Names
  <1> HIDE DEF a
  <1>5. Size(a, "DATA") = 0 /\ Size(a, "ADJUST") = 0 /\ Want(a) = 0
    BY <1>4 DEF Size, Want
  <1>6. Later(x, y) /\ x.closes \subseteq Closes /\ y.closes \subseteq Closes
    BY DEF Later, Good, Typed, Closes, SENT_EOF, SENT_CLOSE, RCVD_EOF, RCVD_CLOSE
  <1>7. SENT_CLOSE \notin x.closes
    BY DEF Good, Outgoing
  <1>8. SENT_CLOSE \notin y.closes
    BY <1>7 DEF SENT_EOF, SENT_CLOSE
  <1>9. x.outbuffer \in Nat /\ x.remwindow \in Nat /\ x.locwindow \in Nat
    BY GoodNumbers, Zenon
  <1>10. /\ Size(a, "DATA") <= x.outbuffer /\ Size(a, "DATA") <= x.remwindow
         /\ y.outbuffer = x.outbuffer - Size(a, "DATA")
         /\ y.remwindow = x.remwindow - Size(a, "DATA")
         /\ y.locwindow = x.locwindow + Size(a, "ADJUST")
    BY <1>2, <1>5, <1>9
  <1>11. Sends(x, y, a, e)
    BY <1>1, <1>3, <1>4, <1>6, <1>7, <1>8, <1>10 DEF Sends, Later
  <1> QED
    BY <1>2, <1>5, <1>6, <1>11, SendPlain

(* ssh2_channel_try_eof, once nothing holds it up.                         *)
LEMMA TryEofGood ==
    ASSUME NEW x, NEW y, NEW r, NEW p, NEW w, NEW e,
           Good(x, r, p, w, e), x.life \in {"half", "open"},
           SENT_EOF \notin x.closes, x.pending_eof,
           y = ssh2_channel_try_eof(x)
    PROVE  /\ Good(y, r, p, w, e) /\ Later(x, y)
           /\ Keeps(x, y, {"tx", "closes", "pending_eof"})
           /\ x.chanreqs # << >> => SENT_CLOSE \notin y.closes
  <1>0. DOMAIN x = Fields
    BY DEF Good, Typed
  <1>1. SENT_CLOSE \notin x.closes /\ RCVD_CLOSE \notin x.closes
    BY DEF Good, Outgoing, Incoming
  <1>2. CASE x.life = "half" \/ x.outbuffer > 0
    <2>1. y = x
      BY <1>2 DEF ssh2_channel_try_eof
    <2> QED
      BY <1>0, <1>1, <2>1 DEF Keeps, Later
  <1>3. CASE ~(x.life = "half" \/ x.outbuffer > 0)
    <2> DEFINE z == [Push(x, Packet("EOF")) EXCEPT !.pending_eof = FALSE,
                                                   !.closes = @ \cup {SENT_EOF}]
    <2>1. /\ Keeps(x, z, {"tx", "closes", "pending_eof"}) /\ ~z.pending_eof
          /\ z.tx = Append(x.tx, Packet("EOF")) /\ z.closes = x.closes \cup {SENT_EOF}
      BY <1>0 DEF Keeps, Push, Fields
    <2>2. y = ssh2_channel_check_close(z)
      BY <1>3 DEF ssh2_channel_try_eof
    <2> HIDE DEF z
    <2>3. x.outbuffer = 0 /\ x.life = "open"
      <3>1. x.outbuffer \in Nat
        BY GoodNumbers, Zenon
      <3> QED
        BY <1>3, <3>1
    <2>4. Good(z, r, p, w, e) /\ Later(x, z)
      BY <2>1, <2>3, EofGood
    <2>5. z.life = "open" /\ z.chanreqs = x.chanreqs
      BY <2>1, <2>3 DEF Keeps
    <2>6. RCVD_CLOSE \notin z.closes /\ SENT_CLOSE \notin z.closes
      BY <1>1, <2>1 DEF SENT_EOF, SENT_CLOSE, RCVD_CLOSE
    <2>7. /\ Good(y, r, p, w, e) /\ Later(z, y) /\ Keeps(z, y, {"tx", "closes"})
          /\ z.chanreqs # << >> => y = z
      BY <2>2, <2>4, <2>5, <2>6, CheckCloseGood
    <2>8. Keeps(x, y, {"tx", "closes", "pending_eof"})
      BY <2>1, <2>7 DEF Keeps
    <2>9. Later(x, y)
      BY <2>4, <2>7 DEF Later
    <2> QED
      BY <2>5, <2>6, <2>7, <2>8, <2>9
  <1> QED
    BY <1>2, <1>3

LEMMA PendingGood ==
    ASSUME NEW x, NEW y, NEW r, NEW p, NEW w,
           Good(x, r, p, w, TRUE), SENT_EOF \notin x.closes, x.chan # "zombie",
           Keeps(x, y, {"pending_eof"})
    PROVE  Good(y, r, p, w, TRUE)
  <1>0. /\ Typed(x) /\ PeerTyped(p) /\ r \in Seq(Packets)
        /\ Phase(x, r, p) /\ Incoming(x, r, p) /\ Outgoing(x, p)
        /\ Windows(x, r, p) /\ Listed(x, w) /\ Awaited(x, r, p, w)
        /\ Forgotten(x, r, p) /\ Knows(x, r, TRUE)
    BY DEF Good
  <1>1. /\ DOMAIN y = Fields /\ y.life = x.life /\ y.closes = x.closes
        /\ y.throttling_conn = x.throttling_conn /\ y.throttle_count = x.throttle_count
        /\ y.outbuffer = x.outbuffer /\ y.remwindow = x.remwindow
        /\ y.locwindow = x.locwindow /\ y.locmaxwin = x.locmaxwin
        /\ y.remlocwin = x.remlocwin /\ y.throttle_state = x.throttle_state
        /\ y.chanreqs = x.chanreqs /\ y.chan = x.chan /\ y.bugs = x.bugs
        /\ y.user_input = x.user_input /\ y.tx = x.tx /\ y.req = x.req
        /\ y.eofs = x.eofs /\ y.written = x.written /\ y.got = x.got
        /\ y.x11 = x.x11 /\ y.fixed = x.fixed /\ y.ready = x.ready
        /\ y.backlog = x.backlog /\ y.fault = x.fault /\ y.simple = x.simple
        /\ y.reading = x.reading /\ y.eof_sent = x.eof_sent
    BY DEF Keeps
  <1>2. Typed(y)
    BY <1>0, <1>1 DEF Typed
  <1>3. Phase(y, r, p)
    <2>1. Untouched(x) => Untouched(y)
      BY <1>1 DEF Untouched
    <2>2. /\ Opening(x, r) => Opening(y, r)
          /\ Opened(x, r) => Opened(y, r)
          /\ Refused(x, r) => Refused(y, r)
      BY <1>1 DEF Opening, Opened, Refused
    <2> QED
      BY <1>0, <1>1, <2>1, <2>2 DEF Phase
  <1>4. Incoming(y, r, p)
    BY <1>0, <1>1 DEF Incoming
  <1>5. Outgoing(y, p)
    BY <1>0, <1>1 DEF Outgoing
  <1>6. Windows(y, r, p) /\ Awaited(y, r, p, w) /\ Forgotten(y, r, p)
    BY <1>0, <1>1 DEF Windows, Awaited, Forgotten
  <1>7. Listed(y, w)
    BY <1>0, <1>1, ListedSame
  <1>8. Knows(y, r, TRUE)
    BY <1>0, <1>1 DEF Knows
  <1> QED
    BY <1>0, <1>2, <1>3, <1>4, <1>5, <1>6, <1>7, <1>8 DEF Good

(* x with its end told of the EOF to come.                                 *)
LEMMA WriteEofGood ==
    ASSUME NEW x, NEW y, NEW r, NEW p, NEW w, NEW e,
           Good(x, r, p, w, e), x.life \in {"half", "open"},
           x.chan # "zombie" \/ (x.life = "open" /\ x.outbuffer = 0),
           y = ssh2channel_write_eof(x)
    PROVE  /\ Good(y, r, p, w, TRUE) /\ Later(x, y)
           /\ Keeps(x, y, {"tx", "closes", "pending_eof"})
           /\ x.life = "open" /\ x.outbuffer = 0 => SENT_EOF \in y.closes
  <1>0. DOMAIN x = Fields
    BY DEF Good, Typed
  <1>1. Good(x, r, p, w, TRUE)
    BY GoodLess
  <1>2. CASE SENT_EOF \in x.closes
    <2>1. y = x
      BY <1>2 DEF ssh2channel_write_eof
    <2>2. Keeps(x, y, {"tx", "closes", "pending_eof"}) /\ Later(x, y)
      BY <1>0, <2>1 DEF Keeps, Later
    <2> QED
      BY <1>1, <1>2, <2>1, <2>2
  <1>3. CASE SENT_EOF \notin x.closes /\ ~(x.life = "open" /\ x.outbuffer = 0)
    <2>0. PICK z : z = [x EXCEPT !.pending_eof = TRUE]
      OBVIOUS
    <2>1. Keeps(x, z, {"pending_eof"}) /\ z.pending_eof = TRUE
      BY <1>0, <2>0 DEF Keeps, Fields
    <2>2. x.outbuffer \in Nat
      BY GoodNumbers, Zenon
    <2>3. x.life = "half" \/ x.outbuffer > 0
      BY <1>3, <2>2
    <2>4. z.life = x.life /\ z.outbuffer = x.outbuffer
      BY <2>1 DEF Keeps
    <2>5. y = z
      BY <1>3, <2>0, <2>3, <2>4 DEF ssh2channel_write_eof, ssh2_channel_try_eof
    <2>6. Good(z, r, p, w, TRUE)
      BY <1>1, <1>3, <2>1, PendingGood
    <2>7. Keeps(x, y, {"tx", "closes", "pending_eof"}) /\ Later(x, y)
      BY <1>0, <2>1, <2>5 DEF Keeps, Later
    <2> QED
      BY <1>3, <2>5, <2>6, <2>7
  <1>4. CASE SENT_EOF \notin x.closes /\ x.life = "open" /\ x.outbuffer = 0
    <2>0. PICK z : z = [Push(x, Packet("EOF")) EXCEPT !.pending_eof = FALSE,
                                                     !.closes = @ \cup {SENT_EOF}]
      OBVIOUS
    <2>1. /\ Keeps(x, z, {"tx", "closes", "pending_eof"}) /\ ~z.pending_eof
          /\ z.tx = Append(x.tx, Packet("EOF")) /\ z.closes = x.closes \cup {SENT_EOF}
      BY <1>0, <2>0 DEF Keeps, Push, Fields
    <2>2. y = ssh2_channel_check_close(z)
      <3>1. PICK z1 : z1 = [x EXCEPT !.pending_eof = TRUE]
        OBVIOUS
      <3>2. z1.life = "open" /\ z1.outbuffer = 0
        BY <1>0, <1>4, <3>1 DEF Fields
      <3>3. y = ssh2_channel_try_eof(z1)
        BY <1>4, <3>1 DEF ssh2channel_write_eof
      <3>4. z = [Push(z1, Packet("EOF")) EXCEPT !.pending_eof = FALSE,
                                               !.closes = @ \cup {SENT_EOF}]
        BY <1>0, <2>0, <3>1 DEF Push, Fields
      <3> QED
        BY <3>2, <3>3, <3>4 DEF ssh2_channel_try_eof
    <2>3. SENT_EOF \in z.closes /\ z.life = "open"
      BY <1>4, <2>1 DEF Keeps
    <2>4. Good(z, r, p, w, TRUE) /\ Later(x, z)
      BY <1>1, <1>4, <2>1, EofGood
    <2>5. RCVD_CLOSE \notin z.closes
      BY <1>4, <2>4 DEF Later, Good, Incoming
    <2>6. Good(y, r, p, w, TRUE) /\ Later(z, y) /\ Keeps(z, y, {"tx", "closes"})
      BY <2>2, <2>3, <2>4, <2>5, CheckCloseGood
    <2>7. Keeps(x, y, {"tx", "closes", "pending_eof"})
      BY <2>1, <2>6 DEF Keeps
    <2>8. Later(x, y) /\ SENT_EOF \in y.closes
      BY <2>3, <2>4, <2>6 DEF Later
    <2> QED
      BY <2>6, <2>7, <2>8
  <1> QED
    BY <1>2, <1>3, <1>4

(* x with its local end gone.                                              *)
LEMMA InitiateCloseGood ==
    ASSUME NEW x, NEW y, NEW r, NEW p, NEW w, NEW e,
           Good(x, r, p, w, e), x.life \in {"half", "open"},
           x.chan \in {"fwd", "x11"}, x.x11 = "connected",
           y = ssh2channel_initiate_close(x)
    PROVE  /\ Good(y, r, p, w, FALSE) /\ Later(x, y)
           /\ Keeps(x, y, {"tx", "closes", "pending_eof", "life", "chan", "fixed"})
           /\ RCVD_CLOSE \notin x.closes
              => Keeps(x, y, {"tx", "closes", "pending_eof", "chan"})
  <1>0. /\ Typed(x) /\ PeerTyped(p) /\ r \in Seq(Packets)
        /\ Phase(x, r, p) /\ Incoming(x, r, p) /\ Outgoing(x, p)
        /\ Windows(x, r, p) /\ Listed(x, w) /\ Awaited(x, r, p, w)
        /\ Forgotten(x, r, p) /\ Knows(x, r, e)
    BY DEF Good
  <1>1. PICK z : z = [close_local(x) EXCEPT !.pending_eof = FALSE]
    OBVIOUS
  <1>2. x.fixed = FALSE
    <2>1. ~x.fixed
      BY <1>0 DEF Knows
    <2>2. x.fixed \in BOOLEAN
      BY <1>0 DEF Typed
    <2> QED
      BY <2>1, <2>2
  <1>3. Keeps(x, z, {"pending_eof", "chan"}) /\ z.chan = "zombie" /\ ~z.pending_eof
    <2>1. DOMAIN x = Fields
      BY <1>0 DEF Typed
    <2>2. z = [x EXCEPT !.chan = "zombie", !.fixed = FALSE, !.pending_eof = FALSE]
      BY <1>1 DEF close_local
    <2>3. z.fixed = x.fixed /\ z.chan = "zombie" /\ z.pending_eof = FALSE
      BY <1>2, <2>1, <2>2 DEF Fields
    <2>4. Keeps(x, z, {"pending_eof", "chan", "fixed"})
      BY <2>1, <2>2 DEF Keeps, Fields
    <2>5. Keeps(x, z, {"pending_eof", "chan"})
      BY <2>3, <2>4 DEF Keeps
    <2> QED
      BY <2>3, <2>5
  <1>4. /\ DOMAIN z = Fields /\ z.life = x.life /\ z.closes = x.closes
        /\ z.throttling_conn = x.throttling_conn /\ z.throttle_count = x.throttle_count
        /\ z.outbuffer = x.outbuffer /\ z.remwindow = x.remwindow
        /\ z.locwindow = x.locwindow /\ z.locmaxwin = x.locmaxwin
        /\ z.remlocwin = x.remlocwin /\ z.throttle_state = x.throttle_state
        /\ z.chanreqs = x.chanreqs /\ z.bugs = x.bugs
        /\ z.user_input = x.user_input /\ z.tx = x.tx /\ z.req = x.req
        /\ z.eofs = x.eofs /\ z.written = x.written /\ z.got = x.got
        /\ z.x11 = x.x11 /\ z.fixed = x.fixed /\ z.ready = x.ready
        /\ z.backlog = x.backlog /\ z.fault = x.fault /\ z.simple = x.simple
        /\ z.reading = x.reading /\ z.eof_sent = x.eof_sent
    BY <1>3 DEF Keeps
  <1>5. Typed(z)
    BY <1>0, <1>3, <1>4 DEF Typed
  <1>6. Phase(z, r, p)
    <2>1. Untouched(x) => Untouched(z)
      BY <1>4 DEF Untouched
    <2>2. /\ Opening(x, r) => Opening(z, r)
          /\ Opened(x, r) => Opened(z, r)
          /\ Refused(x, r) => Refused(z, r)
      BY <1>4 DEF Opening, Opened, Refused
    <2>3. z.chan # "x11"
      BY <1>3
    <2> QED
      BY <1>0, <1>4, <2>1, <2>2, <2>3 DEF Phase
  <1>7. Incoming(z, r, p) /\ Outgoing(z, p)
    BY <1>0, <1>3, <1>4 DEF Incoming, Outgoing
  <1>8. Windows(z, r, p) /\ Awaited(z, r, p, w) /\ Forgotten(z, r, p)
    BY <1>0, <1>4 DEF Windows, Awaited, Forgotten
  <1>9. Listed(z, w)
    <2>1. x.req = {}
      BY <1>0 DEF Listed
    <2> QED
      BY <1>0, <1>4, <2>1 DEF Listed
  <1>10. Knows(z, r, FALSE)
    BY <1>0, <1>2, <1>3, <1>4 DEF Knows
  <1>11. Good(z, r, p, w, FALSE)
    BY <1>0, <1>5, <1>6, <1>7, <1>8, <1>9, <1>10 DEF Good
  <1>12. /\ Good(y, r, p, w, FALSE) /\ Later(z, y)
         /\ Keeps(z, y, {"tx", "closes", "life", "chan", "fixed"})
         /\ RCVD_CLOSE \notin x.closes => Keeps(z, y, {"tx", "closes"})
    <2>1. y = ssh2_channel_check_close(z)
      BY <1>1 DEF ssh2channel_initiate_close
    <2>2. PICK f : f = FALSE
      OBVIOUS
    <2>3. Good(z, r, p, w, f) /\ z.life \in {"half", "open"}
      BY <1>4, <1>11, <2>2
    <2>4. /\ Good(y, r, p, w, f) /\ Later(z, y)
          /\ Keeps(z, y, {"tx", "closes", "life", "chan", "fixed"})
          /\ RCVD_CLOSE \notin z.closes => Keeps(z, y, {"tx", "closes"})
      BY <2>1, <2>3, CheckCloseGood
    <2> QED
      BY <1>4, <2>2, <2>4
  <1>13. /\ Keeps(x, y, {"tx", "closes", "pending_eof", "life", "chan", "fixed"})
         /\ RCVD_CLOSE \notin x.closes => Keeps(x, y, {"tx", "closes", "pending_eof", "chan"})
    <2>1. Keeps(x, y, {"tx", "closes", "pending_eof", "life", "chan", "fixed"})
      BY <1>3, <1>12 DEF Keeps
    <2>2. ASSUME RCVD_CLOSE \notin x.closes
          PROVE  Keeps(x, y, {"tx", "closes", "pending_eof", "chan"})
      BY <1>3, <1>12, <2>2 DEF Keeps
    <2> QED
      BY <2>1, <2>2
  <1>14. Later(x, y)
    BY <1>4, <1>12 DEF Later
  <1> QED
    BY <1>12, <1>13, <1>14
-----------------------------------------------------------------------------
(* Sending data.                                                           *)

LEMMA SendDataGood ==
    ASSUME NEW x, NEW y, NEW r, NEW p, NEW w, NEW e, NEW n,
           Good(x, r, p, w, e), x.life = "open", SENT_EOF \notin x.closes,
           n = Least(x.outbuffer, x.remwindow),
           Keeps(x, y, {"tx", "outbuffer", "remwindow"}),
           y.tx = Append(x.tx, Bytes("DATA", n)),
           y.outbuffer = x.outbuffer - n, y.remwindow = x.remwindow - n
    PROVE  Good(y, r, p, w, e) /\ Sent(y)
  <1>1. PICK a : a = Bytes("DATA", n)
    OBVIOUS
  <1>2. x.outbuffer \in Nat /\ x.remwindow \in Nat /\ x.locwindow \in Nat
    BY GoodNumbers, Zenon
  <1>3. n \in Nat /\ n <= x.outbuffer /\ n <= x.remwindow
    BY <1>2 DEF Least
  <1>4. a \in Packets /\ a.t \in Body /\ a.t = "DATA" /\ a.n = n
    BY <1>1, <1>3 DEF Bytes, Packets, Body, Names
  <1>5. Size(a, "DATA") = n /\ Size(a, "ADJUST") = 0 /\ Want(a) = 0
    BY <1>4 DEF Size, Want
  <1>6. y.chanreqs = x.chanreqs /\ y.req = x.req /\ y.locwindow = x.locwindow
        /\ y.closes = x.closes /\ y.pending_eof = x.pending_eof
    BY DEF Keeps
  <1>7. Keeps(x, y, {"tx", "closes", "pending_eof", "outbuffer", "remwindow",
                     "locwindow", "chanreqs", "req"})
    BY DEF Keeps
  <1>8. /\ Size(a, "DATA") <= x.outbuffer /\ Size(a, "DATA") <= x.remwindow
        /\ y.outbuffer = x.outbuffer - Size(a, "DATA")
        /\ y.remwindow = x.remwindow - Size(a, "DATA")
        /\ y.locwindow = x.locwindow + Size(a, "ADJUST")
    BY <1>2, <1>3, <1>5, <1>6
  <1>9. SENT_CLOSE \notin x.closes /\ x.closes \subseteq Closes
    BY DEF Good, Typed, Outgoing
  <1>10. y.tx = Append(x.tx, a)
    BY <1>1
  <1>11. Sends(x, y, a, e)
    BY <1>4, <1>6, <1>7, <1>8, <1>9, <1>10 DEF Sends
  <1>12. Good(y, r, p, w, e)
    BY <1>5, <1>6, <1>11, SendPlain
  <1>13. Sent(y)
    BY <1>2 DEF Sent, Least
  <1> QED
    BY <1>12, <1>13

LEMMA TrySendGood ==
    ASSUME NEW x, NEW y, NEW r, NEW p, NEW w, NEW e,
           Good(x, r, p, w, e), x.life \in {"half", "open"},
           SENT_EOF \notin x.closes, y = ssh2_try_send(x)
    PROVE  /\ Good(y, r, p, w, e) /\ Later(x, y) /\ Sent(y)
           /\ Keeps(x, y, {"tx", "outbuffer", "remwindow", "closes", "pending_eof"})
  <1>0. DOMAIN x = Fields
    BY DEF Good, Typed
  <1>1. PICK n : n = Least(x.outbuffer, x.remwindow)
    OBVIOUS
  <1>2. PICK z : z = IF x.life = "half" \/ n = 0 THEN x
                     ELSE [Push(x, Bytes("DATA", n)) EXCEPT !.outbuffer = @ - n,
                                                            !.remwindow = @ - n]
    OBVIOUS
  <1>3. y = IF z.outbuffer = 0 /\ z.pending_eof THEN ssh2_channel_try_eof(z) ELSE z
    BY <1>1, <1>2 DEF ssh2_try_send
  <1>4. Good(z, r, p, w, e) /\ Sent(z) /\ Keeps(x, z, {"tx", "outbuffer", "remwindow"})
    <2>1. CASE x.life = "half" \/ n = 0
      <3>1. z = x
        BY <1>2, <2>1
      <3>2. x.outbuffer \in Nat /\ x.remwindow \in Nat
        BY GoodNumbers, Zenon
      <3>3. x.life = "half" => x.remwindow = 0
        BY DEF Good, Phase, Untouched
      <3>4. Sent(x)
        BY <1>1, <2>1, <3>2, <3>3 DEF Sent, Least
      <3> QED
        BY <1>0, <3>1, <3>4 DEF Keeps
    <2>2. CASE ~(x.life = "half" \/ n = 0)
      <3>1. z = [Push(x, Bytes("DATA", n)) EXCEPT !.outbuffer = @ - n,
                                                  !.remwindow = @ - n]
        BY <1>2, <2>2
      <3>2. /\ Keeps(x, z, {"tx", "outbuffer", "remwindow"})
            /\ z.tx = Append(x.tx, Bytes("DATA", n))
            /\ z.outbuffer = x.outbuffer - n /\ z.remwindow = x.remwindow - n
        BY <1>0, <3>1 DEF Keeps, Push, Fields
      <3>3. Good(z, r, p, w, e) /\ Sent(z)
        BY <1>1, <2>2, <3>2, SendDataGood
      <3> QED
        BY <3>2, <3>3
    <2> QED
      BY <2>1, <2>2
  <1>5. z.life = x.life /\ z.closes = x.closes
    BY <1>4 DEF Keeps
  <1>6. CASE z.outbuffer = 0 /\ z.pending_eof
    <2>1. y = ssh2_channel_try_eof(z)
      BY <1>3, <1>6
    <2>2. Good(y, r, p, w, e) /\ Later(z, y) /\ Keeps(z, y, {"tx", "closes", "pending_eof"})
      BY <1>4, <1>5, <1>6, <2>1, TryEofGood
    <2>3. Keeps(x, y, {"tx", "outbuffer", "remwindow", "closes", "pending_eof"})
      BY <1>4, <2>2 DEF Keeps
    <2>4. Later(x, y)
      BY <1>5, <2>2 DEF Later
    <2>5. Sent(y)
      BY <1>6, <2>2 DEF Sent, Keeps
    <2> QED
      BY <2>2, <2>3, <2>4, <2>5
  <1>7. CASE ~(z.outbuffer = 0 /\ z.pending_eof)
    <2>1. y = z
      BY <1>3, <1>7
    <2>2. Keeps(x, y, {"tx", "outbuffer", "remwindow", "closes", "pending_eof"})
      BY <1>4, <2>1 DEF Keeps
    <2>3. Later(x, y)
      BY <1>5, <2>1 DEF Later
    <2> QED
      BY <1>4, <2>1, <2>2, <2>3
  <1> QED
    BY <1>6, <1>7

LEMMA CheckThrottleGood ==
    ASSUME NEW x, NEW y, NEW r, NEW p, NEW w, NEW e,
           Good(x, r, p, w, e), x.life \in {"half", "open"},
           y = ssh2_channel_check_throttle(x)
    PROVE  /\ Good(y, r, p, w, e) /\ Keeps(x, y, {"reading"})
           /\ SENT_EOF \in x.closes /\ x.chan # "zombie" => y.reading = FALSE
  <1>0. DOMAIN x = Fields
    BY DEF Good, Typed
  <1>1. CASE x.chan = "zombie"
    <2>1. y = x
      BY <1>1 DEF ssh2_channel_check_throttle, chan_set_input_wanted
    <2> QED
      BY <1>0, <1>1, <2>1 DEF Keeps
  <1>2. CASE x.chan # "zombie"
    <2>1. y = [x EXCEPT !.reading = /\ ~x.throttled_by_backlog
                                    /\ ~x.all_throttled
                                    /\ ~x.pending_eof
                                    /\ SENT_EOF \notin x.closes]
      BY <1>2 DEF ssh2_channel_check_throttle, chan_set_input_wanted
    <2>2. Keeps(x, y, {"reading"})
      BY <1>0, <2>1 DEF Keeps, Fields
    <2>3. y.reading = (/\ ~x.throttled_by_backlog
                       /\ ~x.all_throttled
                       /\ ~x.pending_eof
                       /\ SENT_EOF \notin x.closes)
      BY <1>0, <2>1 DEF Fields
    <2>4. SENT_EOF \in x.closes => y.reading = FALSE
      BY <2>3
    <2>5. Knows(y, r, e)
      <3>1. /\ y.chan = x.chan /\ y.x11 = x.x11 /\ y.bugs = x.bugs /\ y.fixed = x.fixed
            /\ y.closes = x.closes /\ y.eof_sent = x.eof_sent
            /\ y.pending_eof = x.pending_eof
        BY <2>2 DEF Keeps
      <3>2. Knows(x, r, e)
        BY DEF Good
      <3> QED
        BY <2>4, <3>1, <3>2 DEF Knows
    <2>6. Sets(x, y)
      <3>1. Keeps(x, y, {"throttled_by_backlog", "all_throttled", "eof_pending", "got_pty",
                         "lost", "specials", "reading", "eof_sent"})
        BY <2>2 DEF Keeps
      <3> QED
        BY <3>1, ReadingSets
    <2>7. Good(y, r, p, w, e)
      BY <2>5, <2>6, SetGood
    <2> QED
      BY <2>2, <2>4, <2>7
  <1> QED
    BY <1>1, <1>2

LEMMA TrySendAndUnthrottleGood ==
    ASSUME NEW x, NEW y, NEW r, NEW p, NEW w, NEW e,
           Good(x, r, p, w, e), x.life \in {"half", "open"},
           SENT_EOF \notin x.closes, y = ssh2_try_send_and_unthrottle(x)
    PROVE  /\ Good(y, r, p, w, e) /\ Later(x, y) /\ Sent(y)
           /\ Keeps(x, y, {"tx", "outbuffer", "remwindow", "closes", "pending_eof",
                           "throttled_by_backlog", "reading"})
  <1>1. PICK z : z = ssh2_try_send(x)
    OBVIOUS
  <1>2. /\ Good(z, r, p, w, e) /\ Later(x, z) /\ Sent(z)
        /\ Keeps(x, z, {"tx", "outbuffer", "remwindow", "closes", "pending_eof"})
    BY <1>1, TrySendGood
  <1>3. z.life = x.life
    BY <1>2 DEF Keeps
  <1>4. CASE z.outbuffer > 0
    <2>1. y = z
      BY <1>1, <1>4 DEF ssh2_try_send_and_unthrottle
    <2>2. Keeps(x, y, {"tx", "outbuffer", "remwindow", "closes", "pending_eof",
                       "throttled_by_backlog", "reading"})
      BY <1>2, <2>1 DEF Keeps
    <2> QED
      BY <1>2, <2>1, <2>2
  <1>5. CASE ~(z.outbuffer > 0)
    <2>1. PICK v : v = [z EXCEPT !.throttled_by_backlog = FALSE]
      OBVIOUS
    <2>2. y = ssh2_channel_check_throttle(v)
      BY <1>1, <1>5, <2>1 DEF ssh2_try_send_and_unthrottle
    <2>3. DOMAIN z = Fields
      BY <1>2 DEF Keeps
    <2>4. Keeps(z, v, {"throttled_by_backlog"})
      BY <2>1, <2>3 DEF Keeps, Fields
    <2>5. Good(v, r, p, w, e)
      <3>1. Keeps(z, v, {"throttled_by_backlog", "all_throttled", "eof_pending", "got_pty",
                         "lost", "specials"})
        BY <2>4 DEF Keeps
      <3> QED
        BY <1>2, <3>1, AsideGood
    <2>6. v.life = x.life /\ v.closes = z.closes /\ v.remwindow = z.remwindow
          /\ v.outbuffer = z.outbuffer
      BY <1>3, <2>4 DEF Keeps
    <2>7. Good(y, r, p, w, e) /\ Keeps(v, y, {"reading"})
      BY <2>2, <2>5, <2>6, CheckThrottleGood
    <2>8. Keeps(x, y, {"tx", "outbuffer", "remwindow", "closes", "pending_eof",
                       "throttled_by_backlog", "reading"})
      BY <1>2, <2>4, <2>7 DEF Keeps
    <2>9. y.closes = z.closes /\ y.remwindow = z.remwindow /\ y.outbuffer = z.outbuffer
      BY <2>6, <2>7 DEF Keeps
    <2>10. Later(x, y) /\ Sent(y)
      BY <1>2, <2>9 DEF Later, Sent
    <2> QED
      BY <2>7, <2>8, <2>10
  <1> QED
    BY <1>4, <1>5

LEMMA WriteGood ==
    ASSUME NEW x, NEW y, NEW r, NEW p, NEW w, NEW e, NEW n \in Nat,
           Good(x, r, p, w, e), x.life = "open",
           SENT_EOF \notin x.closes, y = ssh2channel_write(x, n)
    PROVE  /\ Good(y, r, p, w, e) /\ Later(x, y) /\ Sent(y)
           /\ Keeps(x, y, {"tx", "outbuffer", "remwindow", "closes", "pending_eof", "written"})
  <1>0. /\ Typed(x) /\ PeerTyped(p) /\ r \in Seq(Packets)
        /\ Phase(x, r, p) /\ Incoming(x, r, p) /\ Outgoing(x, p)
        /\ Windows(x, r, p) /\ Listed(x, w) /\ Awaited(x, r, p, w)
        /\ Forgotten(x, r, p) /\ Knows(x, r, e)
    BY DEF Good
  <1>1. PICK z : z = [x EXCEPT !.outbuffer = @ + n, !.written = @ + n]
    OBVIOUS
  <1>2. /\ Keeps(x, z, {"outbuffer", "written"})
        /\ z.outbuffer = x.outbuffer + n /\ z.written = x.written + n
    <2>1. DOMAIN x = Fields
      BY <1>0 DEF Typed
    <2> QED
      BY <1>1, <2>1 DEF Keeps, Fields
  <1>3. /\ DOMAIN z = Fields /\ z.life = x.life /\ z.closes = x.closes
        /\ z.throttling_conn = x.throttling_conn /\ z.throttle_count = x.throttle_count
        /\ z.pending_eof = x.pending_eof /\ z.remwindow = x.remwindow
        /\ z.locwindow = x.locwindow /\ z.locmaxwin = x.locmaxwin
        /\ z.remlocwin = x.remlocwin /\ z.throttle_state = x.throttle_state
        /\ z.chanreqs = x.chanreqs /\ z.bugs = x.bugs /\ z.chan = x.chan
        /\ z.user_input = x.user_input /\ z.tx = x.tx /\ z.req = x.req
        /\ z.eofs = x.eofs /\ z.got = x.got
        /\ z.x11 = x.x11 /\ z.fixed = x.fixed /\ z.ready = x.ready
        /\ z.backlog = x.backlog /\ z.fault = x.fault /\ z.simple = x.simple
        /\ z.reading = x.reading /\ z.eof_sent = x.eof_sent
    BY <1>2 DEF Keeps
  <1>4. /\ x.outbuffer \in Nat /\ x.written \in Nat /\ p.got \in Nat
        /\ Sizes(x.tx, "DATA") \in Nat
    BY GoodNumbers, Zenon
  <1>5. Typed(z)
    <2>1. z.outbuffer \in Nat /\ z.written \in Nat
      BY <1>2, <1>4
    <2> QED
      BY <1>0, <1>3, <2>1 DEF Typed
  <1>6. Phase(z, r, p)
    <2>1. /\ Opening(x, r) => Opening(z, r)
          /\ Opened(x, r) => Opened(z, r)
          /\ Refused(x, r) => Refused(z, r)
      BY <1>3 DEF Opening, Opened, Refused
    <2> QED
      BY <1>0, <1>3, <2>1 DEF Phase
  <1>7. Incoming(z, r, p)
    BY <1>0, <1>3 DEF Incoming
  <1>8. Outgoing(z, p)
    <2>1. ~p.close => p.got + Sizes(z.tx, "DATA") + z.outbuffer = z.written
      <3>1. ~p.close => p.got + Sizes(x.tx, "DATA") + x.outbuffer = x.written
        BY <1>0 DEF Outgoing
      <3>2. Sizes(z.tx, "DATA") = Sizes(x.tx, "DATA")
        BY <1>3
      <3> QED
        BY <1>2, <1>4, <3>1, <3>2
    <2> QED
      BY <1>0, <1>3, <2>1 DEF Outgoing
  <1>9. Windows(z, r, p) /\ Awaited(z, r, p, w) /\ Forgotten(z, r, p)
    BY <1>0, <1>3 DEF Windows, Awaited, Forgotten
  <1>10. Listed(z, w)
    BY <1>0, <1>3, ListedSame
  <1>11. Knows(z, r, e)
    BY <1>0, <1>3, KnowsSame
  <1>12. Good(z, r, p, w, e)
    BY <1>0, <1>5, <1>6, <1>7, <1>8, <1>9, <1>10, <1>11 DEF Good
  <1>13. /\ Good(y, r, p, w, e) /\ Later(z, y) /\ Sent(y)
         /\ Keeps(z, y, {"tx", "outbuffer", "remwindow", "closes", "pending_eof"})
    <2>1. y = ssh2_try_send(z)
      BY <1>1 DEF ssh2channel_write
    <2> QED
      BY <1>3, <1>12, <2>1, TrySendGood
  <1>14. Keeps(x, y, {"tx", "outbuffer", "remwindow", "closes", "pending_eof", "written"})
    BY <1>2, <1>13 DEF Keeps
  <1>15. Later(x, y)
    BY <1>3, <1>13 DEF Later
  <1> QED
    BY <1>13, <1>14, <1>15
-----------------------------------------------------------------------------
(* Channel requests and the window.                                        *)

(* q comes after the requests S.                                           *)
Comes(q, S) ==
    /\ q \in DOMAIN Rank /\ \A s \in S : Rank[s] < Rank[q]
    /\ "fallback" \in S \cup {q} => S = {}

(* b is put at the end of the list, and is one of mainchan's or is not.    *)
LEMMA AppendListed ==
    ASSUME NEW x, NEW y, NEW w, NEW b \in Requests, Listed(x, w),
           x.chanreqs \in Seq(Requests), y.chanreqs = Append(x.chanreqs, b),
           y.chan = x.chan, x.life = "open", y.life = "open",
           \/ b.h # "ssh2_channel_response" /\ y.req = x.req
           \/ /\ b.h = "ssh2_channel_response" /\ y.req = x.req \cup {b.r}
              /\ x.req \subseteq DOMAIN Rank /\ Comes(b.r, x.req)
              /\ x.chan = "main"
    PROVE  /\ Listed(y, w) /\ y.chanreqs \in Seq(Requests)
           /\ Len(y.chanreqs) = Len(x.chanreqs) + 1
  <1>1. PICK l \in Nat : l = Len(x.chanreqs)
    OBVIOUS
  <1>2. /\ y.chanreqs \in Seq(Requests) /\ Len(y.chanreqs) = l + 1
        /\ \A i \in 1..l : y.chanreqs[i] = x.chanreqs[i]
        /\ y.chanreqs[l + 1] = b
    BY <1>1
  <1>3. /\ w \in 0..1 /\ w <= l
        /\ x.req = {x.chanreqs[i].r : i \in Asked(x.chanreqs, w)}
        /\ \A i, j \in Asked(x.chanreqs, w) :
              i < j => Rank[x.chanreqs[i].r] < Rank[x.chanreqs[j].r]
        /\ "fallback" \in x.req => x.req = {"fallback"}
        /\ x.req # {} => x.chan = "main"
    BY <1>1 DEF Listed
  <1>4. w <= Len(y.chanreqs)
    BY <1>1, <1>2, <1>3
  <1>5. /\ Asked(x.chanreqs, w) \subseteq 1..l
        /\ l + 1 \notin 1..l
        /\ \A i \in 1..l : ~(l + 1 < i)
        /\ \A i \in Asked(x.chanreqs, w) : y.chanreqs[i] = x.chanreqs[i]
    BY <1>1, <1>2 DEF Asked
  <1>6. CASE b.h # "ssh2_channel_response" /\ y.req = x.req
    <2>1. Asked(y.chanreqs, w) = Asked(x.chanreqs, w)
      BY <1>1, <1>2, <1>6 DEF Asked
    <2>2. {y.chanreqs[i].r : i \in Asked(y.chanreqs, w)} = x.req
      <3>1. {y.chanreqs[i].r : i \in Asked(x.chanreqs, w)}
            = {x.chanreqs[i].r : i \in Asked(x.chanreqs, w)}
        BY ONLY <1>5
      <3> QED
        BY <1>3, <2>1, <3>1, Zenon
    <2>3. \A i, j \in Asked(y.chanreqs, w) :
             i < j => Rank[y.chanreqs[i].r] < Rank[y.chanreqs[j].r]
      BY <1>3, <1>5, <2>1
    <2> QED
      BY <1>1, <1>2, <1>3, <1>4, <1>6, <2>2, <2>3 DEF Listed
  <1>7. CASE /\ b.h = "ssh2_channel_response" /\ y.req = x.req \cup {b.r}
             /\ x.req \subseteq DOMAIN Rank /\ Comes(b.r, x.req)
             /\ x.chan = "main"
    <2>1. Asked(y.chanreqs, w) = Asked(x.chanreqs, w) \cup {l + 1}
      BY <1>1, <1>2, <1>3, <1>7 DEF Asked
    <2>2. {y.chanreqs[i].r : i \in Asked(y.chanreqs, w)} = y.req
      <3>1. \A i \in Asked(y.chanreqs, w) : y.chanreqs[i].r \in y.req
        BY <1>2, <1>3, <1>5, <1>7, <2>1
      <3>2. ASSUME NEW q \in y.req
            PROVE  \E i \in Asked(y.chanreqs, w) : y.chanreqs[i].r = q
        <4>1. CASE q = b.r
          BY <1>2, <2>1, <4>1
        <4>2. CASE q \in x.req
          <5>1. PICK i \in Asked(x.chanreqs, w) : x.chanreqs[i].r = q
            BY <1>3, <4>2
          <5> QED
            BY <1>5, <2>1, <5>1
        <4> QED
          BY <1>7, <4>1, <4>2
      <3> QED
        BY ONLY <3>1, <3>2
    <2>3. ASSUME NEW i \in Asked(y.chanreqs, w), NEW j \in Asked(y.chanreqs, w), i < j
          PROVE  Rank[y.chanreqs[i].r] < Rank[y.chanreqs[j].r]
      <3>1. i \in Asked(x.chanreqs, w)
        BY <1>5, <2>1, <2>3
      <3>2. x.chanreqs[i].r \in x.req /\ y.chanreqs[i] = x.chanreqs[i]
        BY <1>3, <1>5, <3>1
      <3>3. CASE j = l + 1
        BY <1>2, <1>7, <3>2, <3>3 DEF Comes
      <3>4. CASE j \in Asked(x.chanreqs, w)
        BY <1>3, <1>5, <2>3, <3>1, <3>2, <3>4
      <3> QED
        BY <2>1, <3>3, <3>4
    <2>4. "fallback" \in y.req => y.req = {"fallback"}
      BY <1>3, <1>7 DEF Comes
    <2> QED
      BY <1>1, <1>2, <1>3, <1>4, <1>7, <2>2, <2>3, <2>4 DEF Listed
  <1> QED
    BY <1>2, <1>1, <1>6, <1>7

(* A packet is pushed, and a request is put on the list.                   *)
LEMMA PushKeeps ==
    ASSUME NEW x, NEW y, NEW a, DOMAIN x = Fields, y = Push(x, a)
    PROVE  Keeps(x, y, {"tx"}) /\ y.tx = Append(x.tx, a)
  BY DEF Keeps, Push, Fields

LEMMA AppendKeeps ==
    ASSUME NEW x, NEW y, NEW b, DOMAIN x = Fields,
           y = [x EXCEPT !.chanreqs = Append(@, b)]
    PROVE  Keeps(x, y, {"chanreqs"}) /\ y.chanreqs = Append(x.chanreqs, b)
  BY DEF Keeps, Fields

(* A request, wanted an answer to or not.                                  *)
Asks(x, y, r, h, n) ==
    /\ Keeps(x, y, {"tx", "chanreqs", "req"})
    /\ y.tx = Append(x.tx, Request(r))
    /\ y.chanreqs = IF h = "none" THEN x.chanreqs
                    ELSE Append(x.chanreqs, [h |-> h, r |-> r, n |-> n])

LEMMA AsksSends ==
    ASSUME NEW x, NEW y, NEW r, NEW p, NEW w, NEW e, NEW q \in Names, NEW h, NEW n \in Nat,
           Good(x, r, p, w, e), x.life = "open",
           SENT_CLOSE \notin x.closes, Asks(x, y, q, h, n)
    PROVE  /\ Sends(x, y, Request(q), e) /\ Want(Request(q)) = IF q = "none" THEN 0 ELSE 1
           /\ Typed(x) /\ Listed(x, w)
           /\ y.chan = x.chan /\ y.life = "open"
  <1>1. PICK a : a = Request(q)
    OBVIOUS
  <1>2. a \in Packets /\ a.t = "REQUEST" /\ a.t \in Body /\ a.r = q
    BY <1>1 DEF Request, Packets, Body
  <1>3. Size(a, "DATA") = 0 /\ Size(a, "ADJUST") = 0 /\ Want(a) = IF q = "none" THEN 0 ELSE 1
    BY <1>2 DEF Size, Want
  <1>4. x.outbuffer \in Nat /\ x.remwindow \in Nat /\ x.locwindow \in Nat
    BY GoodNumbers, Zenon
  <1>5. Keeps(x, y, {"tx", "chanreqs", "req"}) /\ y.tx = Append(x.tx, a)
    BY <1>1 DEF Asks
  <1>6. /\ y.outbuffer = x.outbuffer /\ y.remwindow = x.remwindow
        /\ y.locwindow = x.locwindow /\ y.closes = x.closes
        /\ y.pending_eof = x.pending_eof /\ y.chan = x.chan /\ y.life = "open"
    BY <1>5 DEF Keeps
  <1>7. Keeps(x, y, {"tx", "closes", "pending_eof", "outbuffer", "remwindow",
                     "locwindow", "chanreqs", "req"})
    BY <1>5 DEF Keeps
  <1>8. /\ Size(a, "DATA") <= x.outbuffer /\ Size(a, "DATA") <= x.remwindow
        /\ y.outbuffer = x.outbuffer - Size(a, "DATA")
        /\ y.remwindow = x.remwindow - Size(a, "DATA")
        /\ y.locwindow = x.locwindow + Size(a, "ADJUST")
    BY <1>3, <1>4, <1>6
  <1>9. x.closes \subseteq Closes /\ (x.pending_eof => SENT_EOF \notin x.closes)
    BY DEF Good, Typed, Outgoing
  <1>10. Sends(x, y, a, e)
    BY <1>2, <1>5, <1>6, <1>7, <1>8, <1>9 DEF Sends
  <1> QED
    BY <1>1, <1>3, <1>6, <1>10 DEF Good

LEMMA HintGood ==
    ASSUME NEW x, NEW y, NEW r, NEW p, NEW w, NEW e,
           Good(x, r, p, w, e), x.life = "open",
           {SENT_CLOSE, RCVD_CLOSE} \cap x.closes = {},
           y = ssh2_chanreq_init(x, "none", "none", 0)
    PROVE  Good(y, r, p, w, e) /\ Keeps(x, y, {"tx"})
  <1>1. PICK z : z = Push(x, Request("none"))
    OBVIOUS
  <1>2. Keeps(x, y, {"tx"}) /\ y.tx = Append(x.tx, Request("none"))
    <2>1. DOMAIN x = Fields
      BY DEF Good, Typed
    <2>2. Keeps(x, z, {"tx"}) /\ z.tx = Append(x.tx, Request("none"))
      BY <1>1, <2>1, PushKeeps
    <2>3. y = [z EXCEPT !.chanreqs = @]
      BY <1>1 DEF ssh2_chanreq_init
    <2>4. Keeps(z, y, {}) /\ y.tx = z.tx
      BY <2>2, <2>3 DEF Keeps, Fields
    <2>5. Keeps(x, y, {"tx"})
      BY <2>2, <2>4 DEF Keeps
    <2> QED
      BY <2>2, <2>4, <2>5
  <1>3. y.chanreqs = x.chanreqs /\ y.req = x.req
    BY <1>2 DEF Keeps
  <1>4. Asks(x, y, "none", "none", 0)
    BY <1>2, <1>3 DEF Asks, Keeps
  <1>5. "none" \in Names
    BY DEF Names
  <1>6. Sends(x, y, Request("none"), e) /\ Want(Request("none")) = 0
    BY <1>4, <1>5, AsksSends
  <1> QED
    BY <1>2, <1>3, <1>6, SendPlain

LEMMA WinadjGood ==
    ASSUME NEW x, NEW y, NEW r, NEW p, NEW w, NEW e, NEW n \in Nat,
           Good(x, r, p, w, e), x.life = "open",
           {SENT_CLOSE, RCVD_CLOSE} \cap x.closes = {},
           y = ssh2_chanreq_init(x, "winadj", "ssh2_handle_winadj_response", n)
    PROVE  Good(y, r, p, w, e) /\ Keeps(x, y, {"tx", "chanreqs"})
  <1>1. PICK b : b = [h |-> "ssh2_handle_winadj_response", r |-> "winadj", n |-> n]
    OBVIOUS
  <1>2. b \in Requests /\ b.h # "ssh2_channel_response" /\ "winadj" \in Names
    BY <1>1 DEF Requests, Names
  <1>3. y = [Push(x, Request("winadj")) EXCEPT !.chanreqs = Append(@, b)]
    BY <1>1 DEF ssh2_chanreq_init
  <1>4. /\ Keeps(x, y, {"tx", "chanreqs"}) /\ y.tx = Append(x.tx, Request("winadj"))
        /\ y.chanreqs = Append(x.chanreqs, b)
    <2>1. DOMAIN x = Fields
      BY DEF Good, Typed
    <2>2. PICK z : z = Push(x, Request("winadj"))
      OBVIOUS
    <2>3. Keeps(x, z, {"tx"}) /\ z.tx = Append(x.tx, Request("winadj"))
      BY <2>1, <2>2, PushKeeps
    <2>4. DOMAIN z = Fields /\ y = [z EXCEPT !.chanreqs = Append(@, b)]
      BY <1>3, <2>2, <2>3 DEF Keeps
    <2>5. Keeps(z, y, {"chanreqs"}) /\ y.chanreqs = Append(z.chanreqs, b)
      BY <2>4, AppendKeeps
    <2>6. Keeps(x, y, {"tx", "chanreqs"}) /\ y.tx = z.tx /\ z.chanreqs = x.chanreqs
      BY <2>3, <2>5 DEF Keeps
    <2> QED
      BY <2>3, <2>5, <2>6, Zenon
  <1>5. y.req = x.req
    BY <1>4 DEF Keeps
  <1>6. Asks(x, y, "winadj", "ssh2_handle_winadj_response", n)
    BY <1>1, <1>4, <1>5 DEF Asks, Keeps
  <1>7. /\ Sends(x, y, Request("winadj"), e) /\ Want(Request("winadj")) = 1
        /\ Typed(x) /\ Listed(x, w) /\ y.chan = x.chan /\ y.life = "open"
    BY <1>2, <1>6, AsksSends
  <1>8. x.chanreqs \in Seq(Requests) /\ x.req \subseteq DOMAIN Rank
    BY <1>7 DEF Typed
  <1>9. /\ Listed(y, w) /\ y.chanreqs \in Seq(Requests)
        /\ Len(y.chanreqs) = Len(x.chanreqs) + 1
    BY <1>2, <1>4, <1>5, <1>7, <1>8, AppendListed
  <1>10. Len(x.chanreqs) + Want(Request("winadj")) <= Len(y.chanreqs)
    <2>1. Len(x.chanreqs) \in Nat
      BY <1>8
    <2> QED
      BY <1>7, <1>9, <2>1
  <1>11. Lists(x, y, Request("winadj"), w)
    BY <1>5, <1>8, <1>9, <1>10 DEF Lists
  <1> QED
    BY <1>4, <1>7, <1>11, SendGood

LEMMA AskMainGood ==
    ASSUME NEW x, NEW y, NEW r, NEW p, NEW w, NEW e, NEW q,
           Good(x, r, p, w, e), x.life = "open", x.chan = "main",
           {SENT_CLOSE, RCVD_CLOSE} \cap x.closes = {},
           Comes(q, x.req), y = AskMain(x, q)
    PROVE  /\ Good(y, r, p, w, e) /\ Keeps(x, y, {"tx", "chanreqs", "req"})
           /\ y.req = x.req \cup {q}
  <1>1. PICK b : b = [h |-> "ssh2_channel_response", r |-> q, n |-> 0]
    OBVIOUS
  <1>2. /\ b \in Requests /\ b.h = "ssh2_channel_response" /\ b.r = q
        /\ q \in Names /\ q # "none"
    BY <1>1 DEF Requests, Names, Rank, Comes
  <1>3. y = [Push([x EXCEPT !.req = @ \cup {q}], Request(q)) EXCEPT
                !.chanreqs = Append(@, b)]
    <2>1. PICK z : z = [x EXCEPT !.req = @ \cup {q}]
      OBVIOUS
    <2>2. z.closes = x.closes
      <3>1. DOMAIN x = Fields
        BY DEF Good, Typed
      <3> QED
        BY <2>1, <3>1 DEF Fields
    <2>3. y = ssh2_chanreq_init(z, q, "ssh2_channel_response", 0)
      BY <2>1 DEF AskMain
    <2>4. y = [Push(z, Request(q)) EXCEPT !.chanreqs = Append(@, b)]
      BY <1>1, <2>2, <2>3 DEF ssh2_chanreq_init
    <2> QED
      BY <2>1, <2>4
  <1>4. /\ Keeps(x, y, {"tx", "chanreqs", "req"}) /\ y.tx = Append(x.tx, Request(q))
        /\ y.chanreqs = Append(x.chanreqs, b) /\ y.req = x.req \cup {q}
    <2>1. DOMAIN x = Fields
      BY DEF Good, Typed
    <2>2. PICK v : v = [x EXCEPT !.req = @ \cup {q}]
      OBVIOUS
    <2>3. PICK z : z = Push(v, Request(q))
      OBVIOUS
    <2>4. Keeps(x, v, {"req"}) /\ v.req = x.req \cup {q}
      BY <2>1, <2>2 DEF Keeps, Fields
    <2>5. Keeps(v, z, {"tx"}) /\ z.tx = Append(v.tx, Request(q))
      BY <2>3, <2>4, PushKeeps DEF Keeps
    <2>6. DOMAIN z = Fields /\ y = [z EXCEPT !.chanreqs = Append(@, b)]
      BY <1>3, <2>2, <2>3, <2>5 DEF Keeps
    <2>7. Keeps(z, y, {"chanreqs"}) /\ y.chanreqs = Append(z.chanreqs, b)
      BY <2>6, AppendKeeps
    <2>8. /\ Keeps(x, y, {"tx", "chanreqs", "req"})
          /\ y.tx = z.tx /\ v.tx = x.tx /\ z.chanreqs = x.chanreqs /\ y.req = v.req
      BY <2>4, <2>5, <2>7 DEF Keeps
    <2> QED
      BY <2>4, <2>5, <2>7, <2>8, Zenon
  <1>6. Asks(x, y, q, "ssh2_channel_response", 0)
    BY <1>1, <1>4 DEF Asks
  <1>7. /\ Sends(x, y, Request(q), e) /\ Want(Request(q)) = 1
        /\ Typed(x) /\ Listed(x, w) /\ y.chan = x.chan /\ y.life = "open"
    BY <1>2, <1>6, AsksSends
  <1>8. x.chanreqs \in Seq(Requests) /\ x.req \subseteq DOMAIN Rank
    BY <1>7 DEF Typed
  <1>9. /\ Listed(y, w) /\ y.chanreqs \in Seq(Requests)
        /\ Len(y.chanreqs) = Len(x.chanreqs) + 1
    BY <1>2, <1>4, <1>7, <1>8, AppendListed
  <1>10. Len(x.chanreqs) + Want(Request(q)) <= Len(y.chanreqs)
    <2>1. PICK l \in Nat : l = Len(x.chanreqs)
      BY <1>8
    <2>2. l + 1 <= l + 1
      BY <2>1
    <2> QED
      BY <1>7, <1>9, <2>1, <2>2, Zenon
  <1>11. Lists(x, y, Request(q), w)
    BY <1>4, <1>8, <1>9, <1>10 DEF Lists, Comes
  <1> QED
    BY <1>4, <1>7, <1>11, SendGood

(* A change of the window's story.                                         *)
Story == {"remlocwin", "locmaxwin", "throttle_state", "throttling_conn",
          "throttle_count", "fixed", "fault"}

Told(x) ==
    /\ x.remlocwin \in Int /\ x.locmaxwin \in Nat \ {0}
    /\ x.throttle_state \in {"THROTTLED", "UNTHROTTLING", "UNTHROTTLED"}
    /\ x.throttling_conn \in BOOLEAN
    /\ x.throttle_count = IF x.throttling_conn THEN 1 ELSE 0
    /\ x.fault \in {"none", "freed under handler"}

LEMMA GoodTold ==
    ASSUME NEW x, NEW r, NEW p, NEW w, NEW e, Good(x, r, p, w, e)
    PROVE  Told(x) /\ DOMAIN x = Fields
  <1>1. Typed(x)
    BY DEF Good
  <1> QED
    BY <1>1 DEF Typed, Told

LEMMA StoryGood ==
    ASSUME NEW x, NEW y, NEW r, NEW p, NEW w, NEW e,
           Good(x, r, p, w, e), x.life = "open", Keeps(x, y, Story),
           Told(y), y.fixed = x.fixed \/ y.fixed = FALSE
    PROVE  Good(y, r, p, w, e)
  <1>1. Keeps(x, y, {"throttled_by_backlog", "all_throttled", "eof_pending", "got_pty",
                     "lost", "specials", "remlocwin", "locmaxwin", "throttle_state",
                     "throttling_conn", "throttle_count", "reading", "ready", "eof_sent",
                     "x11", "fixed", "fault", "backlog"})
    BY DEF Keeps, Story
  <1>2. /\ y.chan = x.chan /\ y.x11 = x.x11 /\ y.bugs = x.bugs
        /\ y.closes = x.closes /\ y.reading = x.reading /\ y.eof_sent = x.eof_sent
        /\ y.pending_eof = x.pending_eof /\ y.backlog = x.backlog
    BY DEF Keeps, Story
  <1>3. x.x11 \in Outcomes /\ x.fixed \in BOOLEAN /\ Knows(x, r, e)
    BY DEF Good, Typed
  <1>4. y.backlog \in Nat /\ y.backlog <= x.backlog
    <2>1. x.backlog \in Nat
      BY GoodNumbers, Zenon
    <2> QED
      BY <1>2, <2>1
  <1>5. Sets(x, y)
    BY <1>1, <1>2, <1>3, <1>4 DEF Sets, Told
  <1>6. Knows(y, r, e)
    BY <1>2, <1>3 DEF Knows
  <1> QED
    BY <1>5, <1>6, SetGood

LEMMA AdjustGood ==
    ASSUME NEW x, NEW y, NEW r, NEW p, NEW w, NEW e, NEW n \in Nat,
           Good(x, r, p, w, e), x.life = "open", SENT_CLOSE \notin x.closes,
           Keeps(x, y, {"tx", "locwindow"}), y.tx = Append(x.tx, Bytes("ADJUST", n)),
           y.locwindow = x.locwindow + n
    PROVE  Good(y, r, p, w, e)
  <1>1. PICK a : a = Bytes("ADJUST", n)
    OBVIOUS
  <1>2. x.outbuffer \in Nat /\ x.remwindow \in Nat
    BY GoodNumbers, Zenon
  <1>3. a \in Packets /\ a.t \in Body /\ a.t = "ADJUST" /\ a.n = n
    BY <1>1 DEF Bytes, Packets, Body, Names
  <1>4. Size(a, "DATA") = 0 /\ Size(a, "ADJUST") = n /\ Want(a) = 0
    BY <1>3 DEF Size, Want
  <1>5. /\ y.chanreqs = x.chanreqs /\ y.req = x.req /\ y.closes = x.closes
        /\ y.pending_eof = x.pending_eof /\ y.outbuffer = x.outbuffer
        /\ y.remwindow = x.remwindow
    BY DEF Keeps
  <1>6. Keeps(x, y, {"tx", "closes", "pending_eof", "outbuffer", "remwindow",
                     "locwindow", "chanreqs", "req"})
    BY DEF Keeps
  <1>7. /\ Size(a, "DATA") <= x.outbuffer /\ Size(a, "DATA") <= x.remwindow
        /\ y.outbuffer = x.outbuffer - Size(a, "DATA")
        /\ y.remwindow = x.remwindow - Size(a, "DATA")
        /\ y.locwindow = x.locwindow + Size(a, "ADJUST")
    BY <1>2, <1>4, <1>5
  <1>8. x.closes \subseteq Closes /\ (x.pending_eof => SENT_EOF \notin x.closes)
    BY DEF Good, Typed, Outgoing
  <1>9. y.tx = Append(x.tx, a)
    BY <1>1
  <1>10. Sends(x, y, a, e)
    BY <1>3, <1>5, <1>6, <1>7, <1>8, <1>9 DEF Sends
  <1> QED
    BY <1>4, <1>5, <1>10, SendPlain

Window == {"tx", "chanreqs", "locwindow", "remlocwin", "throttle_state"}

LEMMA OpenWindowGood ==
    ASSUME NEW x, NEW y, NEW r, NEW p, NEW w, NEW e, NEW newwin \in Nat,
           Good(x, r, p, w, e), x.life = "open",
           {SENT_CLOSE, RCVD_CLOSE} \cap x.closes = {},
           x.locwindow <= newwin, y = OpenWindow(x, newwin)
    PROVE  Good(y, r, p, w, e) /\ Keeps(x, y, Window) /\ y.locwindow = newwin
  <1>0. DOMAIN x = Fields /\ Told(x)
    BY GoodTold
  <1>1. x.locwindow \in Nat
    BY GoodNumbers, Zenon
  <1>2. PICK n \in Nat : n = newwin - x.locwindow
    BY <1>1
  <1>3. PICK z : z = IF newwin = x.locmaxwin /\ "chokes" \notin x.bugs
             THEN [ssh2_chanreq_init(x, "winadj", "ssh2_handle_winadj_response", n)
                     EXCEPT !.throttle_state =
                              IF @ = "UNTHROTTLED" THEN @ ELSE "UNTHROTTLING"]
             ELSE [x EXCEPT !.remlocwin = newwin, !.throttle_state = "THROTTLED"]
    OBVIOUS
  <1>4. y = [Push(z, Bytes("ADJUST", n)) EXCEPT !.locwindow = newwin]
    BY <1>2, <1>3 DEF OpenWindow
  <1>5. Good(z, r, p, w, e) /\ Keeps(x, z, {"tx", "chanreqs", "remlocwin", "throttle_state"})
    <2>1. CASE newwin = x.locmaxwin /\ "chokes" \notin x.bugs
      <3>1. PICK v : v = ssh2_chanreq_init(x, "winadj", "ssh2_handle_winadj_response", n)
        OBVIOUS
      <3>2. z = [v EXCEPT !.throttle_state =
                            IF @ = "UNTHROTTLED" THEN @ ELSE "UNTHROTTLING"]
        BY <1>3, <2>1, <3>1
      <3>3. Good(v, r, p, w, e) /\ Keeps(x, v, {"tx", "chanreqs"})
        BY <3>1, WinadjGood
      <3>4. DOMAIN v = Fields /\ v.life = "open" /\ Told(v)
        BY <3>3, GoodTold DEF Keeps
      <3>5. /\ Keeps(v, z, {"throttle_state"})
            /\ z.throttle_state = IF v.throttle_state = "UNTHROTTLED"
                                  THEN v.throttle_state ELSE "UNTHROTTLING"
        BY <3>2, <3>4 DEF Keeps, Fields
      <3>6. /\ z.fixed = v.fixed
            /\ z.remlocwin = v.remlocwin /\ z.locmaxwin = v.locmaxwin
            /\ z.throttling_conn = v.throttling_conn
            /\ z.throttle_count = v.throttle_count /\ z.fault = v.fault
        BY <3>5 DEF Keeps
      <3>9. Keeps(v, z, Story)
        BY <3>5 DEF Keeps, Story
      <3>10. Told(z)
        BY <3>4, <3>5, <3>6 DEF Told
      <3>7. Good(z, r, p, w, e)
        BY <3>3, <3>4, <3>6, <3>9, <3>10, StoryGood
      <3>8. Keeps(x, z, {"tx", "chanreqs", "remlocwin", "throttle_state"})
        BY <3>3, <3>5 DEF Keeps
      <3> QED
        BY <3>7, <3>8
    <2>2. CASE ~(newwin = x.locmaxwin /\ "chokes" \notin x.bugs)
      <3>1. z = [x EXCEPT !.remlocwin = newwin, !.throttle_state = "THROTTLED"]
        BY <1>3, <2>2
      <3>2. /\ Keeps(x, z, {"remlocwin", "throttle_state"})
            /\ z.remlocwin = newwin /\ z.throttle_state = "THROTTLED"
        BY <1>0, <3>1 DEF Keeps, Fields
      <3>3. /\ z.fixed = x.fixed /\ z.locmaxwin = x.locmaxwin
            /\ z.throttling_conn = x.throttling_conn
            /\ z.throttle_count = x.throttle_count /\ z.fault = x.fault
        BY <3>2 DEF Keeps
      <3>6. Keeps(x, z, Story)
        BY <3>2 DEF Keeps, Story
      <3>8. newwin \in Int
        OBVIOUS
      <3>9. z.remlocwin \in Int
        BY <3>2, <3>8, Zenon
      <3>7. Told(z)
        BY <1>0, <3>2, <3>3, <3>9 DEF Told
      <3>4. Good(z, r, p, w, e)
        BY <3>3, <3>6, <3>7, StoryGood
      <3>5. Keeps(x, z, {"tx", "chanreqs", "remlocwin", "throttle_state"})
        BY <3>2 DEF Keeps
      <3> QED
        BY <3>4, <3>5
    <2> QED
      BY <2>1, <2>2
  <1>6. /\ DOMAIN z = Fields /\ z.life = "open" /\ z.closes = x.closes
        /\ z.locwindow = x.locwindow
    BY <1>5 DEF Keeps
  <1>7. /\ Keeps(z, y, {"tx", "locwindow"}) /\ y.tx = Append(z.tx, Bytes("ADJUST", n))
        /\ y.locwindow = newwin
    <2>1. PICK v : v = Push(z, Bytes("ADJUST", n))
      OBVIOUS
    <2>2. Keeps(z, v, {"tx"}) /\ v.tx = Append(z.tx, Bytes("ADJUST", n))
      BY <1>6, <2>1, PushKeeps
    <2>3. DOMAIN v = Fields /\ y = [v EXCEPT !.locwindow = newwin]
      BY <1>4, <2>1, <2>2 DEF Keeps
    <2>4. Keeps(v, y, {"locwindow"}) /\ y.locwindow = newwin
      BY <2>3 DEF Keeps, Fields
    <2>5. Keeps(z, y, {"tx", "locwindow"}) /\ y.tx = v.tx
      BY <2>2, <2>4 DEF Keeps
    <2> QED
      BY <2>2, <2>4, <2>5, Zenon
  <1>8. y.locwindow = z.locwindow + n
    BY <1>1, <1>2, <1>6, <1>7
  <1>9. SENT_CLOSE \notin z.closes
    BY <1>6
  <1>10. Good(y, r, p, w, e)
    BY <1>5, <1>6, <1>7, <1>8, <1>9, AdjustGood
  <1>11. Keeps(x, y, Window)
    BY <1>5, <1>7 DEF Keeps, Window
  <1> QED
    BY <1>7, <1>10, <1>11

LEMMA SetWindowGood ==
    ASSUME NEW x, NEW y, NEW r, NEW p, NEW w, NEW e, NEW win \in Nat,
           Good(x, r, p, w, e), x.life = "open", y = ssh2_set_window(x, win)
    PROVE  /\ Good(y, r, p, w, e) /\ Keeps(x, y, Window)
           /\ win > 0 /\ ~x.fixed /\ {RCVD_EOF, SENT_CLOSE} \cap x.closes = {}
              => y.locwindow > 0
  <1>1. PICK newwin : newwin = IF "maxpkt" \in x.bugs THEN Least(win, OUR_V2_WINSIZE) ELSE win
    OBVIOUS
  <1>2. newwin \in Nat /\ (win > 0 => newwin > 0)
    <2>1. OUR_V2_WINSIZE \in Nat \ {0}
      BY BoundsAssumption
    <2>2. CASE "maxpkt" \in x.bugs
      BY ONLY <1>1, <2>1, <2>2, win \in Nat DEF Least
    <2>3. CASE "maxpkt" \notin x.bugs
      BY <1>1, <2>3
    <2> QED
      BY <2>2, <2>3
  <1>3. x.locwindow \in Nat
    BY GoodNumbers, Zenon
  <1>4. PICK h \in Nat : h = newwin \div 2 /\ h <= newwin
    BY <1>2
  <1>5. CASE {RCVD_EOF, SENT_CLOSE} \cap x.closes # {} \/ x.fixed \/ h < x.locwindow
    <2>1. y = x
      BY <1>1, <1>4, <1>5 DEF ssh2_set_window
    <2>2. Keeps(x, y, Window)
      BY <2>1 DEF Keeps, Good, Typed
    <2>3. h < x.locwindow => x.locwindow > 0
      BY <1>3
    <2> QED
      BY <1>5, <2>1, <2>2, <2>3
  <1>6. CASE ~({RCVD_EOF, SENT_CLOSE} \cap x.closes # {} \/ x.fixed \/ h < x.locwindow)
    <2>1. y = OpenWindow(x, newwin)
      BY <1>1, <1>4, <1>6 DEF ssh2_set_window
    <2>2. x.locwindow <= newwin
      BY <1>2, <1>3, <1>4, <1>6
    <2>3. RCVD_CLOSE \in x.closes => RCVD_EOF \in x.closes
      BY DEF Good, Incoming
    <2>4. {SENT_CLOSE, RCVD_CLOSE} \cap x.closes = {}
      BY <1>6, <2>3
    <2>5. Good(y, r, p, w, e) /\ Keeps(x, y, Window) /\ y.locwindow = newwin
      BY <1>2, <2>1, <2>2, <2>4, OpenWindowGood
    <2> QED
      BY <1>2, <2>5
  <1> QED
    BY <1>5, <1>6

LEMMA ThrottleGood ==
    ASSUME NEW x, NEW y, NEW r, NEW p, NEW w, NEW e,
           Good(x, r, p, w, e), x.life = "open",
           \/ ~x.throttling_conn /\ y = ssh_throttle_conn(x, 1)
           \/ x.throttling_conn /\ y = ssh_throttle_conn(x, -1)
    PROVE  Good(y, r, p, w, e) /\ Keeps(x, y, {"throttling_conn", "throttle_count"})
  <1>0. Typed(x)
    BY DEF Good
  <1>1. /\ Keeps(x, y, {"throttling_conn", "throttle_count"})
        /\ y.throttling_conn \in BOOLEAN
        /\ y.throttle_count = IF y.throttling_conn THEN 1 ELSE 0
    <2>0. DOMAIN x = Fields /\ x.throttle_count = IF x.throttling_conn THEN 1 ELSE 0
      BY <1>0 DEF Typed
    <2>1. CASE ~x.throttling_conn /\ y = ssh_throttle_conn(x, 1)
      <3>1. x.throttle_count + 1 = 1 /\ (1 > 0) = TRUE
        BY <2>0, <2>1
      <3>2. y = [x EXCEPT !.throttling_conn = (1 > 0), !.throttle_count = @ + 1]
        BY <2>1 DEF ssh_throttle_conn
      <3>3. y = [x EXCEPT !.throttling_conn = TRUE, !.throttle_count = 1]
        BY <2>0, <3>1, <3>2 DEF Fields
      <3> QED
        BY <2>0, <3>3 DEF Keeps, Fields
    <2>2. CASE x.throttling_conn /\ y = ssh_throttle_conn(x, -1)
      <3>1. x.throttle_count + (-1) = 0 /\ (-1 > 0) = FALSE
        BY <2>0, <2>2
      <3>2. y = [x EXCEPT !.throttling_conn = (-1 > 0), !.throttle_count = @ + (-1)]
        BY <2>2 DEF ssh_throttle_conn
      <3>3. y = [x EXCEPT !.throttling_conn = FALSE, !.throttle_count = 0]
        BY <2>0, <3>1, <3>2 DEF Fields
      <3> QED
        BY <2>0, <3>3 DEF Keeps, Fields
    <2> QED
      BY <2>1, <2>2
  <1>2. /\ Keeps(x, y, Story) /\ y.remlocwin = x.remlocwin /\ y.locmaxwin = x.locmaxwin
        /\ y.throttle_state = x.throttle_state /\ y.fixed = x.fixed /\ y.fault = x.fault
    BY <1>1 DEF Keeps, Story
  <1>3. Told(y)
    BY <1>0, <1>1, <1>2 DEF Typed, Told
  <1>4. Good(y, r, p, w, e)
    BY <1>2, <1>3, StoryGood
  <1> QED
    BY <1>1, <1>4

Unthrottled == Window \cup {"throttling_conn", "throttle_count"}

LEMMA UnthrottleGood ==
    ASSUME NEW x, NEW y, NEW r, NEW p, NEW w, NEW e, NEW bufsize \in Nat,
           Good(x, r, p, w, e), x.life = "open", y = ssh2channel_unthrottle(x, bufsize)
    PROVE  /\ Good(y, r, p, w, e) /\ Keeps(x, y, Unthrottled)
           /\ x.simple => y.locwindow = x.locwindow
           /\ /\ ~x.simple /\ bufsize < x.locmaxwin /\ ~x.fixed
              /\ {RCVD_EOF, SENT_CLOSE} \cap x.closes = {}
              => y.locwindow > 0
  <1>0. x.locmaxwin \in Nat
    BY GoodTold DEF Told
  <1>1. PICK buflimit \in Nat : buflimit = IF x.simple THEN 0 ELSE x.locmaxwin
    BY <1>0
  <1>2. PICK z : z = IF bufsize < buflimit THEN ssh2_set_window(x, buflimit - bufsize) ELSE x
    OBVIOUS
  <1>3. y = IF z.throttling_conn /\ bufsize <= buflimit THEN ssh_throttle_conn(z, -1) ELSE z
    BY <1>1, <1>2 DEF ssh2channel_unthrottle
  <1>4. /\ Good(z, r, p, w, e) /\ Keeps(x, z, Window)
        /\ x.simple => z = x
        /\ /\ ~x.simple /\ bufsize < x.locmaxwin /\ ~x.fixed
           /\ {RCVD_EOF, SENT_CLOSE} \cap x.closes = {}
           => z.locwindow > 0
    <2>1. CASE bufsize < buflimit
      <3>1. PICK win \in Nat : win = buflimit - bufsize /\ win > 0
        BY <2>1
      <3>2. z = ssh2_set_window(x, win)
        BY <1>2, <2>1, <3>1
      <3>3. /\ Good(z, r, p, w, e) /\ Keeps(x, z, Window)
            /\ ~x.fixed /\ {RCVD_EOF, SENT_CLOSE} \cap x.closes = {} => z.locwindow > 0
        BY <3>1, <3>2, SetWindowGood
      <3>4. ~x.simple
        BY <1>1, <2>1
      <3> QED
        BY <3>3, <3>4
    <2>2. CASE ~(bufsize < buflimit)
      <3>1. z = x
        BY <1>2, <2>2
      <3>2. DOMAIN x = Fields
        BY GoodTold
      <3>3. Keeps(x, z, Window)
        BY <3>1, <3>2 DEF Keeps
      <3>4. x.simple \/ ~(bufsize < x.locmaxwin)
        BY <1>1, <2>2
      <3> QED
        BY <3>1, <3>3, <3>4
    <2> QED
      BY <2>1, <2>2
  <1>5. z.life = "open"
    BY <1>4 DEF Keeps, Window
  <1>6. Good(y, r, p, w, e) /\ Keeps(z, y, {"throttling_conn", "throttle_count"})
    <2>1. CASE z.throttling_conn /\ bufsize <= buflimit
      BY <1>3, <1>4, <1>5, <2>1, ThrottleGood
    <2>2. CASE ~(z.throttling_conn /\ bufsize <= buflimit)
      <3>1. y = z
        BY <1>3, <2>2
      <3>2. DOMAIN z = Fields
        BY <1>4 DEF Keeps
      <3> QED
        BY <1>4, <3>1, <3>2 DEF Keeps
    <2> QED
      BY <2>1, <2>2
  <1>7. Keeps(x, y, Unthrottled) /\ y.locwindow = z.locwindow
    BY <1>4, <1>6 DEF Keeps, Unthrottled, Window
  <1> QED
    BY <1>4, <1>6, <1>7
-----------------------------------------------------------------------------
(* The main session and the other local ends.                              *)

LEMMA LocalGood ==
    ASSUME NEW x, NEW y, NEW r, NEW p, NEW w, NEW e, NEW f, Good(x, r, p, w, e),
           Keeps(x, y, {"throttled_by_backlog", "all_throttled", "eof_pending", "got_pty",
                        "lost", "specials", "reading", "eof_sent"}),
           Knows(y, r, f)
    PROVE  Good(y, r, p, w, f)
  BY ReadingSets, SetGood

LEMMA ReadyGood ==
    ASSUME NEW x, NEW y, NEW r, NEW p, NEW w, NEW e, Good(x, r, p, w, e),
           x.life = "open",
           Keeps(x, y, {"ready", "reading"}), Knows(y, r, e)
    PROVE  Good(y, r, p, w, e)
  <1>1. Keeps(x, y, {"throttled_by_backlog", "all_throttled", "eof_pending", "got_pty",
                     "lost", "specials", "remlocwin", "locmaxwin", "throttle_state",
                     "throttling_conn", "throttle_count", "reading", "ready", "eof_sent",
                     "x11", "fixed", "fault", "backlog"})
    BY DEF Keeps
  <1>2. /\ y.remlocwin = x.remlocwin /\ y.locmaxwin = x.locmaxwin
        /\ y.throttle_state = x.throttle_state
        /\ y.throttling_conn = x.throttling_conn /\ y.throttle_count = x.throttle_count
        /\ y.x11 = x.x11 /\ y.fixed = x.fixed /\ y.fault = x.fault
        /\ y.backlog = x.backlog
    BY DEF Keeps
  <1>3. x.backlog \in Nat
    BY GoodNumbers, Zenon
  <1>4. y.backlog \in Nat /\ y.backlog <= x.backlog
    BY <1>2, <1>3
  <1>5. Typed(x)
    BY DEF Good
  <1>6. Sets(x, y)
    BY <1>1, <1>2, <1>4, <1>5 DEF Sets, Typed
  <1> QED
    BY <1>6, SetGood

(* The EOF has been sent, or will be.                                      *)
LEMMA KnowsToldOff ==
    ASSUME NEW x, NEW y, NEW r, NEW e, NEW f, Knows(x, r, e), x.chan = "main",
           y.chan = x.chan, y.x11 = x.x11, y.bugs = x.bugs, y.fixed = x.fixed,
           y.eof_sent = TRUE
    PROVE  Knows(y, r, f)
  BY DEF Knows

LEMMA SpecialEofGood ==
    ASSUME NEW x, NEW y, NEW r, NEW p, NEW w,
           Good(x, r, p, w, FALSE), x.chan = "main", x.life \in {"half", "open"},
           y = mainchan_special_eof(x)
    PROVE  /\ Good(y, r, p, w, FALSE) /\ Later(x, y)
           /\ Keeps(x, y, {"tx", "closes", "pending_eof", "eof_pending", "eof_sent"})
  <1>0. DOMAIN x = Fields
    BY GoodTold
  <1>1. CASE ~x.ready
    <2>1. y = [x EXCEPT !.eof_pending = TRUE]
      BY <1>1 DEF mainchan_special_eof
    <2>2. Keeps(x, y, {"eof_pending"})
      BY <1>0, <2>1 DEF Keeps, Fields
    <2>3. Keeps(x, y, {"throttled_by_backlog", "all_throttled", "eof_pending", "got_pty",
                       "lost", "specials"})
      BY <2>2 DEF Keeps
    <2>4. Good(y, r, p, w, FALSE)
      BY <2>3, AsideGood
    <2> QED
      BY <2>2, <2>4 DEF Keeps, Later
  <1>2. CASE x.ready /\ x.eof_sent
    <2>1. y = x
      BY <1>2 DEF mainchan_special_eof
    <2> QED
      BY <1>0, <2>1 DEF Keeps, Later
  <1>3. CASE x.ready /\ ~x.eof_sent
    <2>1. PICK z : z = ssh2channel_write_eof(x)
      OBVIOUS
    <2>2. y = [z EXCEPT !.eof_sent = TRUE]
      BY <1>3, <2>1 DEF mainchan_special_eof
    <2>3. /\ Good(z, r, p, w, TRUE) /\ Later(x, z)
          /\ Keeps(x, z, {"tx", "closes", "pending_eof"})
      BY <2>1, WriteEofGood
    <2>4. DOMAIN z = Fields /\ z.chan = "main"
      BY <2>3 DEF Keeps
    <2>5. Keeps(z, y, {"eof_sent"}) /\ y.eof_sent = TRUE
      BY <2>2, <2>4 DEF Keeps, Fields
    <2>6. Knows(y, r, FALSE)
      <3>1. Knows(z, r, TRUE)
        BY <2>3 DEF Good
      <3>2. y.chan = z.chan /\ y.x11 = z.x11 /\ y.bugs = z.bugs /\ y.fixed = z.fixed
        BY <2>5 DEF Keeps
      <3> QED
        BY <2>4, <2>5, <3>1, <3>2, KnowsToldOff
    <2>7. Keeps(z, y, {"throttled_by_backlog", "all_throttled", "eof_pending", "got_pty",
                       "lost", "specials", "reading", "eof_sent"})
      BY <2>5 DEF Keeps
    <2>8. Good(y, r, p, w, FALSE)
      BY <2>3, <2>6, <2>7, LocalGood
    <2>9. /\ Keeps(x, y, {"tx", "closes", "pending_eof", "eof_pending", "eof_sent"})
          /\ y.closes = z.closes
      BY <2>3, <2>5 DEF Keeps
    <2> QED
      BY <2>3, <2>8, <2>9 DEF Later
  <1> QED
    BY <1>1, <1>2, <1>3

Readied == {"tx", "closes", "pending_eof", "eof_pending", "eof_sent", "ready", "reading"}

LEMMA MainReadyGood ==
    ASSUME NEW x, NEW y, NEW r, NEW p, NEW w,
           Good(x, r, p, w, FALSE), x.chan = "main", x.life = "open",
           RCVD_CLOSE \notin x.closes, y = mainchan_ready(x)
    PROVE  Good(y, r, p, w, FALSE) /\ Later(x, y) /\ Keeps(x, y, Readied)
  <1>0. DOMAIN x = Fields /\ x.user_input = 0
    BY DEF Good, Typed
  <1>1. PICK z : z = [x EXCEPT !.ready = TRUE, !.reading = TRUE]
    OBVIOUS
  <1>2. Keeps(x, z, {"ready", "reading"})
    BY <1>0, <1>1 DEF Keeps, Fields
  <1>3. /\ z.user_input = 0 /\ z.life = "open" /\ z.chan = "main" /\ DOMAIN z = Fields
        /\ z.closes = x.closes
    BY <1>0, <1>2 DEF Keeps
  <1>4. y = IF z.eof_pending THEN mainchan_special_eof([z EXCEPT !.eof_pending = FALSE]) ELSE z
    BY <1>1, <1>3 DEF mainchan_ready, ssh2_connection_got_user_input
  <1>5. Knows(z, r, FALSE)
    <2>1. /\ z.x11 = x.x11 /\ z.bugs = x.bugs /\ z.fixed = x.fixed
          /\ z.eof_sent = x.eof_sent /\ z.pending_eof = x.pending_eof
      BY <1>2 DEF Keeps
    <2>2. Knows(x, r, FALSE)
      BY DEF Good
    <2>3. SENT_EOF \in x.closes => x.eof_sent
      BY <2>2 DEF Knows
    <2> QED
      BY <1>3, <2>1, <2>2, <2>3 DEF Knows
  <1>6. Good(z, r, p, w, FALSE)
    BY <1>2, <1>5, ReadyGood
  <1>7. CASE z.eof_pending
    <2>1. PICK v : v = [z EXCEPT !.eof_pending = FALSE]
      OBVIOUS
    <2>2. Keeps(z, v, {"eof_pending"})
      BY <1>3, <2>1 DEF Keeps, Fields
    <2>3. Keeps(z, v, {"throttled_by_backlog", "all_throttled", "eof_pending", "got_pty",
                       "lost", "specials"})
      BY <2>2 DEF Keeps
    <2>4. Good(v, r, p, w, FALSE)
      BY <1>6, <2>3, AsideGood
    <2>5. v.chan = "main" /\ v.life = "open" /\ v.closes = x.closes
      BY <1>3, <2>2 DEF Keeps
    <2>6. /\ Good(y, r, p, w, FALSE) /\ Later(v, y)
          /\ Keeps(v, y, {"tx", "closes", "pending_eof", "eof_pending", "eof_sent"})
      BY <1>4, <1>7, <2>1, <2>4, <2>5, SpecialEofGood
    <2>7. Keeps(x, y, Readied)
      BY <1>2, <2>2, <2>6 DEF Keeps, Readied
    <2>8. Later(x, y)
      BY <2>5, <2>6 DEF Later
    <2> QED
      BY <2>6, <2>7, <2>8
  <1>8. CASE ~z.eof_pending
    <2>1. y = z
      BY <1>4, <1>8
    <2>2. Keeps(x, y, Readied)
      BY <1>2, <2>1 DEF Keeps, Readied
    <2>3. Later(x, y)
      BY <1>3, <2>1 DEF Later
    <2> QED
      BY <1>6, <2>1, <2>2, <2>3
  <1> QED
    BY <1>7, <1>8

(* Requests are asked for in the order of their ranks, up to n.            *)
Asking(x, y, r, p, w, e, n) ==
    /\ Good(y, r, p, w, e) /\ Keeps(x, y, {"tx", "chanreqs", "req"})
    /\ \A q \in y.req : Rank[q] <= n
    /\ y.req \subseteq DOMAIN Rank
    /\ "fallback" \notin y.req

(* q, of rank m, is next.                                                  *)
Turn(n, q, m) ==
    n \in Nat /\ q \in DOMAIN Rank \ {"fallback"} /\ m = Rank[q] /\ n < m

LEMMA AskIfGood ==
    ASSUME NEW v, NEW x, NEW y, NEW r, NEW p, NEW w, NEW e, NEW q, NEW n, NEW m,
           Asking(v, x, r, p, w, e, n), Turn(n, q, m),
           x.life = "open", x.chan = "main",
           {SENT_CLOSE, RCVD_CLOSE} \cap x.closes = {},
           y = AskMain(x, q) \/ y = x
    PROVE  /\ Asking(v, y, r, p, w, e, m)
           /\ y.life = x.life /\ y.chan = x.chan /\ y.closes = x.closes
           /\ y.config = x.config /\ y.simple = x.simple
  <1>1. \A s \in DOMAIN Rank : Rank[s] \in Nat
    BY DEF Rank
  <1>2. /\ Good(x, r, p, w, e) /\ Keeps(v, x, {"tx", "chanreqs", "req"})
        /\ \A s \in x.req : Rank[s] <= n
        /\ x.req \subseteq DOMAIN Rank
        /\ "fallback" \notin x.req
    BY DEF Asking
  <1>3. \A s \in x.req : Rank[s] < Rank[q] /\ Rank[s] <= Rank[q]
    BY <1>1, <1>2 DEF Turn
  <1>6. m = Rank[q] /\ q \in DOMAIN Rank /\ q # "fallback"
    BY DEF Turn
  <1>4. CASE y = AskMain(x, q)
    <2>1. "fallback" \notin x.req \cup {q}
      BY <1>2, <1>6
    <2>7. Comes(q, x.req)
      BY <1>3, <1>6, <2>1 DEF Comes
    <2>2. /\ Good(y, r, p, w, e) /\ Keeps(x, y, {"tx", "chanreqs", "req"})
          /\ y.req = x.req \cup {q}
      BY <1>2, <1>4, <2>7, AskMainGood
    <2>3. Rank[q] <= Rank[q]
      BY <1>1, <1>6
    <2>4. Keeps(v, y, {"tx", "chanreqs", "req"})
      BY <1>2, <2>2 DEF Keeps
    <2>5. /\ y.life = x.life /\ y.chan = x.chan /\ y.closes = x.closes
          /\ y.config = x.config /\ y.simple = x.simple
      BY <2>2 DEF Keeps
    <2>6. /\ \A s \in y.req : Rank[s] <= Rank[q]
          /\ y.req \subseteq DOMAIN Rank
          /\ "fallback" \notin y.req
      BY <1>2, <1>3, <1>6, <2>1, <2>2, <2>3
    <2> QED
      BY <1>6, <2>2, <2>4, <2>5, <2>6 DEF Asking
  <1>5. CASE y = x
    BY <1>2, <1>3, <1>5, <1>6 DEF Asking
  <1> QED
    BY <1>4, <1>5

LEMMA AskOptionalGood ==
    ASSUME NEW x, NEW y, NEW r, NEW p, NEW w, NEW e,
           Good(x, r, p, w, e), x.life = "open", x.chan = "main", x.req = {},
           {SENT_CLOSE, RCVD_CLOSE} \cap x.closes = {}, y = AskOptional(x)
    PROVE  /\ Asking(x, y, r, p, w, e, 4)
           /\ y.life = x.life /\ y.chan = x.chan /\ y.closes = x.closes
  <1>1. PICK x1 : x1 = AskIf(x, "x11")
    OBVIOUS
  <1>2. PICK x2 : x2 = AskIf(x1, "agent")
    OBVIOUS
  <1>3. PICK x3 : x3 = AskIf(x2, "pty")
    OBVIOUS
  <1>4. y = AskIf(x3, "env")
    BY <1>1, <1>2, <1>3 DEF AskOptional
  <1>5. /\ Turn(0, "x11", 1) /\ Turn(1, "agent", 2) /\ Turn(2, "pty", 3)
        /\ Turn(3, "env", 4)
    BY DEF Turn, Rank
  <1>6. DOMAIN x = Fields
    BY GoodTold
  <1>7. Asking(x, x, r, p, w, e, 0)
    BY <1>6 DEF Asking, Keeps
  <1>8. /\ Asking(x, x1, r, p, w, e, 1)
        /\ x1.life = x.life /\ x1.chan = x.chan /\ x1.closes = x.closes
    <2>1. x1 = AskMain(x, "x11") \/ x1 = x
      BY <1>1 DEF AskIf
    <2> QED
      BY <1>5, <1>7, <2>1, AskIfGood
  <1>9. /\ Asking(x, x2, r, p, w, e, 2)
        /\ x2.life = x.life /\ x2.chan = x.chan /\ x2.closes = x.closes
    <2>1. x2 = AskMain(x1, "agent") \/ x2 = x1
      BY <1>2 DEF AskIf
    <2> QED
      BY <1>5, <1>8, <2>1, AskIfGood
  <1>10. /\ Asking(x, x3, r, p, w, e, 3)
         /\ x3.life = x.life /\ x3.chan = x.chan /\ x3.closes = x.closes
    <2>1. x3 = AskMain(x2, "pty") \/ x3 = x2
      BY <1>3 DEF AskIf
    <2> QED
      BY <1>5, <1>9, <2>1, AskIfGood
  <1>11. y = AskMain(x3, "env") \/ y = x3
    BY <1>4 DEF AskIf
  <1> QED
    BY <1>5, <1>10, <1>11, AskIfGood

Confirmed == Readied \cup {"chanreqs", "req"}

LEMMA OpenConfirmationGood ==
    ASSUME NEW x, NEW y, NEW r, NEW p, NEW w,
           Good(x, r, p, w, FALSE), x.life = "open", x.chan # "x11",
           x.closes = {}, x.req = {}, y = chan_open_confirmation(x)
    PROVE  Good(y, r, p, w, FALSE) /\ Later(x, y) /\ Keeps(x, y, Confirmed)
  <1>0. DOMAIN x = Fields
    BY GoodTold
  <1>1. CASE x.chan = "main"
    <2>1. PICK z : z = IF x.simple THEN ssh2_chanreq_init(x, "none", "none", 0) ELSE x
      OBVIOUS
    <2>2. y = IF "direct-tcpip" \in x.config THEN mainchan_ready(z)
              ELSE AskMain(AskOptional(z), "primary")
      BY <1>1, <2>1 DEF chan_open_confirmation, mainchan_open_confirmation
    <2>3. Good(z, r, p, w, FALSE) /\ Keeps(x, z, {"tx"})
      <3>1. CASE x.simple
        BY <2>1, <3>1, HintGood
      <3>2. CASE ~x.simple
        <4>1. z = x
          BY <2>1, <3>2
        <4> QED
          BY <1>0, <4>1 DEF Keeps
      <3> QED
        BY <3>1, <3>2
    <2>4. z.life = "open" /\ z.chan = "main" /\ z.closes = {} /\ z.req = {}
      BY <1>1, <2>3 DEF Keeps
    <2>5. CASE "direct-tcpip" \in x.config
      <3>1. y = mainchan_ready(z) /\ RCVD_CLOSE \notin z.closes
        BY <2>2, <2>4, <2>5
      <3>2. Good(y, r, p, w, FALSE) /\ Later(z, y) /\ Keeps(z, y, Readied)
        BY <2>3, <2>4, <3>1, MainReadyGood
      <3>3. Keeps(x, y, Confirmed)
        BY <2>3, <3>2 DEF Keeps, Readied, Confirmed
      <3>4. Later(x, y)
        BY <2>4, <3>2 DEF Later
      <3> QED
        BY <3>2, <3>3, <3>4
    <2>6. CASE "direct-tcpip" \notin x.config
      <3>1. PICK v : v = AskOptional(z)
        OBVIOUS
      <3>2. y = AskMain(v, "primary")
        BY <2>2, <2>6, <3>1
      <3>10. PICK f : f = FALSE
        OBVIOUS
      <3>11. {SENT_CLOSE, RCVD_CLOSE} \cap z.closes = {} /\ Good(z, r, p, w, f)
        BY <2>3, <2>4, <3>10
      <3>3. /\ Asking(z, v, r, p, w, f, 4)
            /\ v.life = "open" /\ v.chan = "main" /\ v.closes = {}
        BY <2>4, <3>1, <3>11, AskOptionalGood
      <3>4. Turn(4, "primary", 5)
        BY DEF Turn, Rank
      <3>8. {SENT_CLOSE, RCVD_CLOSE} \cap v.closes = {}
        BY <3>3
      <3>9. y = AskMain(v, "primary") \/ y = v
        BY <3>2
      <3>5. Asking(z, y, r, p, w, f, 5)
        BY <3>3, <3>4, <3>8, <3>9, AskIfGood
      <3>6. Good(y, r, p, w, FALSE) /\ Keeps(z, y, {"tx", "chanreqs", "req"})
        BY <3>5, <3>10 DEF Asking
      <3>7. Keeps(x, y, Confirmed) /\ y.closes = x.closes
        BY <2>3, <3>6 DEF Keeps, Readied, Confirmed
      <3> QED
        BY <3>6, <3>7 DEF Later
    <2> QED
      BY <2>5, <2>6
  <1>2. CASE x.chan = "fwd"
    <2>1. y = [x EXCEPT !.ready = TRUE, !.reading = TRUE]
      BY <1>2 DEF chan_open_confirmation
    <2>2. Keeps(x, y, {"ready", "reading"})
      BY <1>0, <2>1 DEF Keeps, Fields
    <2>3. /\ y.chan = x.chan /\ y.x11 = x.x11 /\ y.bugs = x.bugs /\ y.fixed = x.fixed
          /\ y.eof_sent = x.eof_sent /\ y.pending_eof = x.pending_eof
          /\ y.closes = x.closes
      BY <2>2 DEF Keeps
    <2>4. Knows(x, r, FALSE)
      BY DEF Good
    <2>5. Knows(y, r, FALSE)
      BY <2>3, <2>4 DEF Knows
    <2>6. Good(y, r, p, w, FALSE)
      BY <2>2, <2>5, ReadyGood
    <2>7. Keeps(x, y, Confirmed)
      BY <2>2 DEF Keeps, Readied, Confirmed
    <2> QED
      BY <2>3, <2>6, <2>7 DEF Later
  <1>3. CASE x.chan \notin {"main", "fwd"}
    <2>1. y = x
      BY <1>3 DEF chan_open_confirmation
    <2> QED
      BY <1>0, <2>1 DEF Keeps, Later
  <1> QED
    BY <1>1, <1>2, <1>3
-----------------------------------------------------------------------------
(* Replies.                                                                *)

(* h heads the list of x, and mainchan does not wait for it any more in y. *)
Replied(x, y, h) ==
    /\ Keeps(x, y, {"req"})
    /\ x.chanreqs # << >> /\ h = Head(x.chanreqs)
    /\ y.req = IF h.h = "ssh2_channel_response" THEN x.req \ {h.r} ELSE x.req

LEMMA RepliedListed ==
    ASSUME NEW x, NEW y, NEW h, Replied(x, y, h), Listed(x, 0),
           x.chanreqs \in Seq(Requests), x.req \subseteq DOMAIN Rank
    PROVE  /\ Listed(y, 1) /\ h \in Requests
           /\ h.h = "ssh2_channel_response" =>
                 First(x.req) = h.r /\ h.r \in x.req /\ x.chan = "main"
  <1>1. PICK l \in Nat : l = Len(x.chanreqs)
    OBVIOUS
  <1>2. /\ l >= 1 /\ 1 \in 1..l /\ h = x.chanreqs[1] /\ h \in Requests
        /\ y.chanreqs = x.chanreqs /\ y.chan = x.chan /\ y.life = x.life
    BY <1>1 DEF Replied, Keeps
  <1>3. /\ x.req = {x.chanreqs[i].r : i \in Asked(x.chanreqs, 0)}
        /\ \A i, j \in Asked(x.chanreqs, 0) :
              i < j => Rank[x.chanreqs[i].r] < Rank[x.chanreqs[j].r]
        /\ "fallback" \in x.req => x.req = {"fallback"}
        /\ x.req # {} => x.chan = "main"
        /\ x.life = "freed" => x.chanreqs = << >>
    BY DEF Listed
  <1>4. 1 \in 0..1 /\ 1 <= Len(y.chanreqs)
    BY <1>1, <1>2
  <1>5. \A s \in DOMAIN Rank : Rank[s] \in Nat
    BY DEF Rank
  <1>6. \A s, t \in DOMAIN Rank : Rank[s] = Rank[t] => s = t
    BY DEF Rank
  <1>7. CASE h.h # "ssh2_channel_response"
    <2>1. Asked(x.chanreqs, 1) = Asked(x.chanreqs, 0) /\ y.req = x.req
      BY <1>1, <1>2, <1>7 DEF Asked, Replied
    <2>2. {y.chanreqs[i].r : i \in Asked(y.chanreqs, 1)} = y.req
      BY <1>2, <1>3, <2>1, Zenon
    <2>3. Asked(y.chanreqs, 1) = Asked(x.chanreqs, 0)
      BY <1>2, <2>1
    <2> QED
      BY <1>2, <1>3, <1>4, <1>7, <2>1, <2>2, <2>3 DEF Listed
  <1>8. CASE h.h = "ssh2_channel_response"
    <2>1. /\ 1 \in Asked(x.chanreqs, 0)
          /\ Asked(x.chanreqs, 1) = Asked(x.chanreqs, 0) \ {1}
          /\ \A i \in Asked(x.chanreqs, 1) : 1 < i
      BY <1>1, <1>2, <1>8 DEF Asked
    <2>2. h.r \in x.req /\ h.r \in DOMAIN Rank
      BY <1>2, <1>3, <2>1
    <2>3. \A i \in Asked(x.chanreqs, 1) :
             /\ Rank[h.r] < Rank[x.chanreqs[i].r]
             /\ x.chanreqs[i].r \in x.req /\ x.chanreqs[i].r # h.r
      <3>1. SUFFICES ASSUME NEW i \in Asked(x.chanreqs, 1)
                     PROVE  /\ Rank[h.r] < Rank[x.chanreqs[i].r]
                            /\ x.chanreqs[i].r \in x.req /\ x.chanreqs[i].r # h.r
        OBVIOUS
      <3>2. i \in Asked(x.chanreqs, 0) /\ 1 < i
        BY <2>1
      <3>3. Rank[h.r] < Rank[x.chanreqs[i].r] /\ x.chanreqs[i].r \in x.req
        BY <1>2, <1>3, <2>1, <3>2
      <3> QED
        BY <1>5, <2>2, <3>3
    <2>4. \A q \in x.req : q = h.r \/ Rank[h.r] < Rank[q]
      <3>1. SUFFICES ASSUME NEW q \in x.req PROVE q = h.r \/ Rank[h.r] < Rank[q]
        OBVIOUS
      <3>2. PICK i \in Asked(x.chanreqs, 0) : x.chanreqs[i].r = q
        BY <1>3
      <3> QED
        BY <1>2, <2>1, <2>3, <3>2
    <2>5. First(x.req) = h.r
      <3>1. \A q \in x.req : Rank[h.r] <= Rank[q]
        BY <1>5, <2>2, <2>4
      <3>2. ASSUME NEW s \in x.req, \A q \in x.req : Rank[s] <= Rank[q]
            PROVE  s = h.r
        BY <1>5, <2>2, <2>4, <3>2
      <3> QED
        BY <2>2, <3>1, <3>2 DEF First
    <2>6. y.req = x.req \ {h.r} /\ x.chan = "main"
      BY <1>3, <1>8, <2>2 DEF Replied
    <2>7. {y.chanreqs[i].r : i \in Asked(y.chanreqs, 1)} = y.req
      <3>1. \A i \in Asked(x.chanreqs, 1) : x.chanreqs[i].r \in y.req
        BY <2>3, <2>6
      <3>2. ASSUME NEW q \in y.req
            PROVE  \E i \in Asked(x.chanreqs, 1) : x.chanreqs[i].r = q
        <4>1. PICK i \in Asked(x.chanreqs, 0) : x.chanreqs[i].r = q
          BY <1>3, <2>6
        <4>2. i # 1
          BY <1>2, <2>6, <4>1
        <4> QED
          BY <2>1, <4>1, <4>2
      <3>3. {x.chanreqs[i].r : i \in Asked(x.chanreqs, 1)} = y.req
        BY ONLY <3>1, <3>2
      <3> QED
        BY <1>2, <3>3, Zenon
    <2>8. \A i, j \in Asked(y.chanreqs, 1) :
             i < j => Rank[y.chanreqs[i].r] < Rank[y.chanreqs[j].r]
      BY <1>2, <1>3, <2>1
    <2>9. /\ "fallback" \in y.req => y.req = {"fallback"}
          /\ y.req # {} => y.chan = "main"
      BY <1>2, <1>3, <2>2, <2>6
    <2> QED
      BY <1>2, <1>3, <1>4, <2>2, <2>5, <2>6, <2>7, <2>8, <2>9 DEF Listed
  <1> QED
    BY <1>7, <1>8

LEMMA TailGood ==
    ASSUME NEW x, NEW y, NEW r, NEW p, NEW e, Good(x, r, p, 1, e),
           y = [x EXCEPT !.chanreqs = Tail(@)]
    PROVE  Good(y, r, p, 0, e) /\ Keeps(x, y, {"chanreqs"})
  <1>0. /\ Typed(x) /\ PeerTyped(p) /\ r \in Seq(Packets)
        /\ Phase(x, r, p) /\ Incoming(x, r, p) /\ Outgoing(x, p)
        /\ Windows(x, r, p) /\ Listed(x, 1) /\ Awaited(x, r, p, 1)
        /\ Forgotten(x, r, p) /\ Knows(x, r, e)
    BY DEF Good
  <1>1. DOMAIN x = Fields /\ x.chanreqs \in Seq(Requests)
    BY <1>0 DEF Typed
  <1>2. Keeps(x, y, {"chanreqs"}) /\ y.chanreqs = Tail(x.chanreqs)
    BY <1>1 DEF Keeps, Fields
  <1>3. x.chanreqs # << >> /\ 1 <= Len(x.chanreqs)
    BY <1>0, <1>1 DEF Listed
  <1>4. PICK l \in Nat : l = Len(x.chanreqs) - 1 /\ Len(x.chanreqs) = l + 1
    BY <1>1, <1>3
  <1>5. /\ y.chanreqs \in Seq(Requests) /\ Len(y.chanreqs) = l
        /\ \A i \in 1..l : y.chanreqs[i] = x.chanreqs[i + 1]
    BY <1>1, <1>2, <1>3, <1>4
  <1>6. x.life = "open" /\ SENT_CLOSE \notin x.closes
    BY <1>0, <1>3 DEF Phase, Untouched, Listed, Outgoing, Typed
  <1>7. /\ y.life = x.life /\ y.closes = x.closes /\ y.pending_eof = x.pending_eof
        /\ y.outbuffer = x.outbuffer /\ y.remwindow = x.remwindow
        /\ y.locwindow = x.locwindow /\ y.locmaxwin = x.locmaxwin
        /\ y.remlocwin = x.remlocwin /\ y.throttle_state = x.throttle_state
        /\ y.throttling_conn = x.throttling_conn /\ y.throttle_count = x.throttle_count
        /\ y.chan = x.chan /\ y.fixed = x.fixed /\ y.x11 = x.x11 /\ y.bugs = x.bugs
        /\ y.simple = x.simple /\ y.user_input = x.user_input /\ y.tx = x.tx
        /\ y.req = x.req /\ y.reading = x.reading /\ y.eof_sent = x.eof_sent
        /\ y.ready = x.ready
        /\ y.backlog = x.backlog /\ y.eofs = x.eofs /\ y.written = x.written
        /\ y.got = x.got /\ y.fault = x.fault /\ DOMAIN y = Fields
    BY <1>2 DEF Keeps
  <1>8. Typed(y)
    BY <1>0, <1>5, <1>7 DEF Typed
  <1>9. Phase(y, r, p)
    <2>1. Opening(x, r) => Opening(y, r)
      BY <1>7 DEF Opening
    <2>2. Opened(x, r) => Opened(y, r)
      BY <1>7 DEF Opened
    <2>3. Refused(x, r) => Refused(y, r)
      BY <1>7 DEF Refused
    <2> QED
      BY <1>0, <1>6, <1>7, <2>1, <2>2, <2>3 DEF Phase
  <1>10. Incoming(y, r, p) /\ Windows(y, r, p) /\ Forgotten(y, r, p) /\ Knows(y, r, e)
    BY <1>0, <1>7 DEF Incoming, Windows, Forgotten, Knows
  <1>11. Outgoing(y, p)
    BY <1>0, <1>6, <1>7 DEF Outgoing
  <1>12. Listed(y, 0)
    <2>1. 0 \in 0..1 /\ 0 <= Len(y.chanreqs)
      BY <1>5
    <2>2. \A i : i \in Asked(y.chanreqs, 0) <=> i \in 1..l /\ i + 1 \in Asked(x.chanreqs, 1)
      BY <1>4, <1>5 DEF Asked
    <2>3. \A j \in Asked(x.chanreqs, 1) : j - 1 \in Asked(y.chanreqs, 0) /\ j = (j - 1) + 1
      BY <1>4, <1>5 DEF Asked
    <2>4. {y.chanreqs[i].r : i \in Asked(y.chanreqs, 0)} = y.req
      <3>1. x.req = {x.chanreqs[i].r : i \in Asked(x.chanreqs, 1)}
        BY <1>0 DEF Listed
      <3>2. \A i \in Asked(y.chanreqs, 0) : y.chanreqs[i].r \in y.req
        BY <1>5, <1>7, <2>2, <3>1
      <3>3. ASSUME NEW q \in y.req
            PROVE  \E i \in Asked(y.chanreqs, 0) : y.chanreqs[i].r = q
        <4>1. PICK j \in Asked(x.chanreqs, 1) : x.chanreqs[j].r = q
          BY <1>7, <3>1
        <4>2. PICK i : i = j - 1
          OBVIOUS
        <4>3. i \in Asked(y.chanreqs, 0) /\ j = i + 1 /\ i \in 1..l
          BY <2>2, <2>3, <4>2
        <4> QED
          BY <1>5, <4>1, <4>3
      <3> QED
        BY ONLY <3>2, <3>3
    <2>5. ASSUME NEW i \in Asked(y.chanreqs, 0), NEW j \in Asked(y.chanreqs, 0), i < j
          PROVE  Rank[y.chanreqs[i].r] < Rank[y.chanreqs[j].r]
      <3>1. /\ i \in 1..l /\ j \in 1..l
            /\ i + 1 \in Asked(x.chanreqs, 1) /\ j + 1 \in Asked(x.chanreqs, 1)
            /\ i + 1 < j + 1
        BY <2>2, <2>5
      <3>2. Rank[x.chanreqs[i + 1].r] < Rank[x.chanreqs[j + 1].r]
        BY <1>0, <3>1 DEF Listed
      <3> QED
        BY <1>5, <3>1, <3>2
    <2> QED
      BY <1>0, <1>6, <1>7, <2>1, <2>4, <2>5 DEF Listed
  <1>13. Awaited(y, r, p, 0)
    <2>1. Answers(r) \in Nat /\ Wanted(x.tx) \in Nat
      BY GoodNumbers, Zenon
    <2>2. CASE ~(~p.close \/ Has(r, {"CLOSE"}) \/ "late" \in x.bugs)
      BY <1>7, <2>2 DEF Awaited
    <2>3. CASE ~p.close \/ Has(r, {"CLOSE"}) \/ "late" \in x.bugs
      <3>1. Answers(r) + Wanted(x.tx) + 1 <= l + 1
        BY <1>0, <1>4, <2>3 DEF Awaited
      <3>2. Answers(r) + Wanted(x.tx) + 0 <= l
        BY <2>1, <3>1
      <3>3. Answers(r) + Wanted(y.tx) + 0 <= Len(y.chanreqs)
        BY <1>5, <1>7, <3>2, Zenon
      <3> QED
        BY <3>3 DEF Awaited
    <2> QED
      BY <2>2, <2>3
  <1> QED
    BY <1>0, <1>2, <1>8, <1>9, <1>10, <1>11, <1>12, <1>13 DEF Good

(* What the handler of a reply may do.                                     *)
Answered == Confirmed \cup {"got_pty", "remlocwin", "throttle_state", "fault"}

(* The reply to a winadj tells how far the window is open at the peer's.   *)
LEMMA WinadjResponseGood ==
    ASSUME NEW x, NEW y, NEW r, NEW p, NEW w, NEW e, NEW n \in Nat,
           Good(x, r, p, w, e), x.life = "open",
           y = ssh2_handle_winadj_response(x, n)
    PROVE  Good(y, r, p, w, e) /\ Keeps(x, y, {"remlocwin", "throttle_state"})
  <1>0. DOMAIN x = Fields /\ Told(x)
    BY GoodTold
  <1>8. x.remlocwin \in Int
    BY <1>0 DEF Told
  <1>1. PICK m \in Int : m = x.remlocwin + n
    BY <1>8
  <1>2. y = [x EXCEPT !.remlocwin = m,
                      !.throttle_state = IF @ = "UNTHROTTLING" THEN "UNTHROTTLED" ELSE @]
    BY <1>0, <1>1 DEF ssh2_handle_winadj_response, Fields
  <1>3. /\ Keeps(x, y, {"remlocwin", "throttle_state"}) /\ y.remlocwin = m
        /\ y.throttle_state = IF x.throttle_state = "UNTHROTTLING" THEN "UNTHROTTLED"
                              ELSE x.throttle_state
    BY <1>0, <1>2 DEF Keeps, Fields
  <1>4. /\ y.fixed = x.fixed /\ y.locmaxwin = x.locmaxwin
        /\ y.throttling_conn = x.throttling_conn
        /\ y.throttle_count = x.throttle_count /\ y.fault = x.fault
    BY <1>3 DEF Keeps
  <1>5. Keeps(x, y, Story)
    BY <1>3 DEF Keeps, Story
  <1>6. Told(y)
    BY <1>0, <1>3, <1>4 DEF Told
  <1>7. Good(y, r, p, w, e)
    BY <1>4, <1>5, <1>6, StoryGood
  <1> QED
    BY <1>3, <1>7

LEMMA FailGood ==
    ASSUME NEW x, NEW y, NEW r, NEW p, NEW w, NEW e,
           Good(x, r, p, w, e), x.life = "open",
           y = Fail(x, "freed under handler")
    PROVE  Good(y, r, p, w, e) /\ Keeps(x, y, {"fault"})
  <1>0. DOMAIN x = Fields /\ Told(x)
    BY GoodTold
  <1>1. /\ Keeps(x, y, {"fault"})
        /\ y.fault = IF x.fault = "none" THEN "freed under handler" ELSE x.fault
    <2>1. CASE x.fault = "none"
      <3>4. PICK z : z = [x EXCEPT !.fault = "freed under handler"]
        OBVIOUS
      <3>1. y = z
        BY <1>0, <2>1, <3>4 DEF Fail, Fields
      <3>2. Keeps(x, z, {"fault"})
        BY <1>0, <3>4 DEF Keeps, Fields
      <3>3. z.fault = "freed under handler"
        BY <1>0, <3>4 DEF Fields
      <3> QED
        BY <2>1, <3>1, <3>2, <3>3
    <2>2. CASE x.fault # "none"
      <3>4. PICK z : z = [x EXCEPT !.fault = @]
        OBVIOUS
      <3>1. y = z
        BY <2>2, <3>4 DEF Fail
      <3>2. Keeps(x, z, {"fault"})
        BY <1>0, <3>4 DEF Keeps, Fields
      <3>3. z.fault = x.fault
        BY <1>0, <3>4 DEF Fields
      <3> QED
        BY <2>2, <3>1, <3>2, <3>3
    <2> QED
      BY <2>1, <2>2
  <1>2. /\ y.fixed = x.fixed /\ y.locmaxwin = x.locmaxwin /\ y.remlocwin = x.remlocwin
        /\ y.throttling_conn = x.throttling_conn /\ y.throttle_state = x.throttle_state
        /\ y.throttle_count = x.throttle_count
    BY <1>1 DEF Keeps
  <1>3. Keeps(x, y, Story)
    BY <1>1 DEF Keeps, Story
  <1>4. Told(y)
    BY <1>0, <1>1, <1>2 DEF Told
  <1>5. Good(y, r, p, w, e)
    BY <1>2, <1>3, <1>4, StoryGood
  <1> QED
    BY <1>1, <1>5

LEMMA RankFirst ==
    ASSUME NEW S, S \subseteq DOMAIN Rank, S # {}
    PROVE  First(S) \in S /\ \A q \in S : Rank[First(S)] <= Rank[q]
  <1>1. \E t \in S : \A q \in S : Rank[t] <= Rank[q]
    BY DEF Rank
  <1> QED
    BY <1>1 DEF First

LEMMA RunHandlerGood ==
    ASSUME NEW x, NEW y, NEW z, NEW r, NEW p, NEW h, NEW success \in BOOLEAN,
           Typed(x), Listed(x, 0), Replied(x, y, h), Good(y, r, p, 1, FALSE),
           x.life = "open", SENT_CLOSE \notin x.closes,
           RCVD_CLOSE \notin x.closes \/ "late" \in x.bugs,
           z = RunHandler(x, h, success)
    PROVE  Good(z, r, p, 1, FALSE) /\ Later(x, z) /\ Keeps(x, z, Answered)
  <1>0. DOMAIN x = Fields /\ x.chanreqs \in Seq(Requests) /\ x.req \subseteq DOMAIN Rank
    BY DEF Typed
  <1>1. /\ Listed(y, 1) /\ h \in Requests
        /\ h.h = "ssh2_channel_response" =>
              First(x.req) = h.r /\ h.r \in x.req /\ x.chan = "main"
    BY <1>0, RepliedListed
  <1>2. /\ Keeps(x, y, {"req"})
        /\ y.req = IF h.h = "ssh2_channel_response" THEN x.req \ {h.r} ELSE x.req
    BY DEF Replied
  <1>3. /\ DOMAIN y = Fields /\ y.life = "open" /\ y.closes = x.closes
        /\ y.chan = x.chan /\ y.bugs = x.bugs /\ y.has_fallback = x.has_fallback
    BY <1>2 DEF Keeps
  <1>4. CASE h.h = "ssh2_handle_winadj_response"
    <2>1. Keeps(y, x, {"throttled_by_backlog", "all_throttled", "eof_pending", "got_pty",
                       "lost", "specials"})
      BY <1>2, <1>4 DEF Keeps
    <2>2. z = ssh2_handle_winadj_response(x, h.n)
      BY <1>4 DEF RunHandler
    <2>3. h.n \in Nat
      BY <1>1 DEF Requests
    <2>4. PICK f : f = FALSE
      OBVIOUS
    <2>5. Good(x, r, p, 1, f)
      BY <2>1, <2>4, AsideGood
    <2>6. Good(z, r, p, 1, f) /\ Keeps(x, z, {"remlocwin", "throttle_state"})
      BY <2>2, <2>3, <2>5, WinadjResponseGood
    <2>7. Keeps(x, z, Answered) /\ z.closes = x.closes
      BY <2>6 DEF Keeps, Answered, Confirmed, Readied
    <2> QED
      BY <2>4, <2>6, <2>7 DEF Later
  <1>5. CASE h.h # "ssh2_handle_winadj_response"
    <2>1. /\ h.h = "ssh2_channel_response" /\ h.r \in x.req /\ x.req # {}
          /\ First(x.req) = h.r /\ x.chan = "main" /\ y.req = x.req \ {h.r}
      BY <1>1, <1>2, <1>5 DEF Requests
    <2>2. PICK v : v = [x EXCEPT !.req = @ \ {h.r},
                                 !.got_pty = @ \/ (h.r = "pty" /\ success)]
      OBVIOUS
    <2>3. Keeps(x, v, {"req", "got_pty"}) /\ v.req = x.req \ {h.r}
      BY <1>0, <2>2 DEF Keeps, Fields
    <2>4. Keeps(y, v, {"got_pty"})
      BY <1>2, <2>1, <2>3 DEF Keeps
    <2>5. Good(v, r, p, 1, FALSE)
      <3>1. Keeps(y, v, {"throttled_by_backlog", "all_throttled", "eof_pending", "got_pty",
                         "lost", "specials"})
        BY <2>4 DEF Keeps
      <3> QED
        BY <3>1, AsideGood
    <2>6. /\ v.life = "open" /\ v.closes = x.closes /\ v.chan = "main"
          /\ v.req = x.req \ {h.r} /\ v.has_fallback = y.has_fallback
      BY <1>3, <2>1, <2>4 DEF Keeps
    <2>7. RCVD_CLOSE \notin v.closes /\ SENT_CLOSE \notin v.closes
      <3>1. "late" \notin x.bugs
        BY <1>3, <2>1 DEF Good, Knows
      <3> QED
        BY <2>6, <3>1
    <2>8. z = IF h.r \notin {"primary", "fallback"} THEN v
              ELSE IF success THEN mainchan_ready(v)
              ELSE IF h.r = "primary" /\ v.has_fallback THEN AskMain(v, "fallback")
              ELSE Fail(v, "freed under handler")
      BY <1>5, <2>1, <2>2 DEF RunHandler, mainchan_request_response
    <2>10. CASE h.r \notin {"primary", "fallback"}
      <3>1. z = v
        BY <2>8, <2>10
      <3>2. Keeps(x, z, Answered)
        BY <2>3, <3>1 DEF Keeps, Answered, Confirmed
      <3> QED
        BY <2>5, <2>6, <3>1, <3>2 DEF Later
    <2>11. CASE h.r \in {"primary", "fallback"} /\ success
      <3>1. z = mainchan_ready(v)
        BY <2>8, <2>11
      <3>2. Good(z, r, p, 1, FALSE) /\ Later(v, z) /\ Keeps(v, z, Readied)
        BY <2>5, <2>6, <2>7, <3>1, MainReadyGood
      <3>3. Keeps(x, z, Answered)
        BY <2>3, <3>2 DEF Keeps, Answered, Confirmed, Readied
      <3>4. Later(x, z)
        BY <2>6, <3>2 DEF Later
      <3> QED
        BY <3>2, <3>3, <3>4
    <2>12. CASE h.r = "primary" /\ ~success /\ v.has_fallback
      <3>1. z = AskMain(v, "fallback")
        BY <2>8, <2>12
      <3>2. v.req = {}
        <4>1. SUFFICES ASSUME NEW s \in v.req PROVE FALSE
          OBVIOUS
        <4>2. s \in x.req /\ s # h.r /\ x.req \subseteq DOMAIN Rank
          BY <1>0, <2>6
        <4>3. \A t \in DOMAIN Rank : t = "primary" \/ t = "fallback" \/ ~(5 <= Rank[t])
          BY DEF Rank
        <4>4. "fallback" \in x.req => x.req = {"fallback"}
          BY DEF Listed
        <4>5. s \notin {"primary", "fallback"}
          BY <2>1, <2>12, <4>2, <4>4
        <4>6. First(x.req) = "primary" /\ Rank["primary"] = 5
          BY <2>1, <2>12 DEF Rank
        <4>7. \A q \in x.req : Rank[First(x.req)] <= Rank[q]
          BY RankFirst, <1>0, <2>1
        <4> QED
          BY <4>2, <4>3, <4>5, <4>6, <4>7
      <3>3. Comes("fallback", v.req)
        BY <3>2 DEF Comes, Rank
      <3>4. {SENT_CLOSE, RCVD_CLOSE} \cap v.closes = {}
        BY <2>7
      <3>5. PICK f : f = FALSE
        OBVIOUS
      <3>6. Good(v, r, p, 1, f) /\ v.life = "open" /\ v.chan = "main"
        BY <2>5, <2>6, <3>5
      <3>7. Good(z, r, p, 1, f) /\ Keeps(v, z, {"tx", "chanreqs", "req"})
        BY <3>1, <3>3, <3>4, <3>6, AskMainGood
      <3>8. Keeps(x, z, Answered) /\ z.closes = x.closes
        BY <2>6, <2>3, <3>7 DEF Keeps, Answered, Confirmed, Readied
      <3> QED
        BY <3>5, <3>7, <3>8 DEF Later
    <2>13. CASE h.r \in {"primary", "fallback"} /\ ~success
                /\ ~(h.r = "primary" /\ v.has_fallback)
      <3>1. z = Fail(v, "freed under handler")
        BY <2>8, <2>13
      <3>2. Good(z, r, p, 1, FALSE) /\ Keeps(v, z, {"fault"})
        BY <2>5, <2>6, <3>1, FailGood
      <3>3. Keeps(x, z, Answered) /\ z.closes = x.closes
        BY <2>6, <2>3, <3>2 DEF Keeps, Answered, Confirmed
      <3> QED
        BY <3>2, <3>3 DEF Later
    <2> QED
      BY <2>10, <2>11, <2>12, <2>13
  <1> QED
    BY <1>4, <1>5
-----------------------------------------------------------------------------
(* CHANNEL_EOF and CHANNEL_CLOSE.                                          *)

(* Nobody answers the requests of a list any more.                         *)
Forsaken(x, r, p) == p.close /\ ~Has(r, {"CLOSE"}) /\ "late" \notin x.bugs

LEMMA ReqGood ==
    ASSUME NEW x, NEW y, NEW r, NEW p, NEW w, NEW v, NEW e,
           Good(x, r, p, w, e), x.life = "open", Keeps(x, y, {"req"}),
           y.req \subseteq DOMAIN Rank, Listed(y, v), Forsaken(x, r, p)
    PROVE  Good(y, r, p, v, e)
  <1>0. /\ Typed(x) /\ PeerTyped(p) /\ r \in Seq(Packets)
        /\ Phase(x, r, p) /\ Incoming(x, r, p) /\ Outgoing(x, p)
        /\ Windows(x, r, p) /\ Forgotten(x, r, p) /\ Knows(x, r, e)
    BY DEF Good
  <1>1. /\ y.life = x.life /\ y.closes = x.closes /\ y.pending_eof = x.pending_eof
        /\ y.outbuffer = x.outbuffer /\ y.remwindow = x.remwindow
        /\ y.locwindow = x.locwindow /\ y.locmaxwin = x.locmaxwin
        /\ y.remlocwin = x.remlocwin /\ y.throttle_state = x.throttle_state
        /\ y.throttling_conn = x.throttling_conn /\ y.throttle_count = x.throttle_count
        /\ y.chan = x.chan /\ y.fixed = x.fixed /\ y.x11 = x.x11 /\ y.bugs = x.bugs
        /\ y.simple = x.simple /\ y.user_input = x.user_input /\ y.tx = x.tx
        /\ y.chanreqs = x.chanreqs /\ y.reading = x.reading /\ y.eof_sent = x.eof_sent
        /\ y.ready = x.ready
        /\ y.backlog = x.backlog /\ y.eofs = x.eofs /\ y.written = x.written
        /\ y.got = x.got /\ y.fault = x.fault /\ DOMAIN y = Fields
    BY DEF Keeps
  <1>2. Typed(y)
    BY <1>0, <1>1 DEF Typed
  <1>3. Phase(y, r, p)
    <2>1. /\ Opening(x, r) => Opening(y, r)
          /\ Opened(x, r) => Opened(y, r)
          /\ Refused(x, r) => Refused(y, r)
      BY <1>1 DEF Opening, Opened, Refused
    <2> QED
      BY <1>0, <1>1, <2>1 DEF Phase
  <1>4. /\ Incoming(y, r, p) /\ Outgoing(y, p) /\ Windows(y, r, p)
        /\ Forgotten(y, r, p) /\ Knows(y, r, e)
    BY <1>0, <1>1 DEF Incoming, Outgoing, Windows, Forgotten, Knows
  <1>5. Awaited(y, r, p, v)
    BY <1>1 DEF Awaited, Forsaken
  <1> QED
    BY <1>0, <1>2, <1>3, <1>4, <1>5 DEF Good

LEMMA AnswerFirstGood ==
    ASSUME NEW x, NEW y, NEW r, NEW p,
           Good(x, r, p, 0, FALSE), x.life = "open", RCVD_CLOSE \notin x.closes,
           Forsaken(x, r, p), y = AnswerFirst(x)
    PROVE  Good(y, r, p, 0, FALSE) /\ Later(x, y) /\ Keeps(x, y, Answered)
  <1>0. /\ DOMAIN x = Fields /\ Typed(x) /\ Listed(x, 0)
        /\ x.chanreqs \in Seq(Requests) /\ x.req \subseteq DOMAIN Rank
    BY DEF Good, Typed
  <1>1. CASE x.chanreqs = << >>
    <2>1. y = x
      BY <1>1 DEF AnswerFirst
    <2> QED
      BY <1>0, <2>1 DEF Keeps, Later
  <1>2. CASE x.chanreqs # << >>
    <2>1. PICK h : h = Head(x.chanreqs)
      OBVIOUS
    <2>2. PICK z : z = [x EXCEPT !.req = IF h.h = "ssh2_channel_response"
                                         THEN x.req \ {h.r} ELSE x.req]
      OBVIOUS
    <2>3. Keeps(x, z, {"req"}) /\ z.req = IF h.h = "ssh2_channel_response"
                                          THEN x.req \ {h.r} ELSE x.req
      BY <1>0, <2>2 DEF Keeps, Fields
    <2>4. Replied(x, z, h)
      BY <1>2, <2>1, <2>3 DEF Replied
    <2>5. Listed(z, 1)
      BY <1>0, <2>4, RepliedListed
    <2>6. z.req \subseteq DOMAIN Rank
      BY <1>0, <2>3
    <2>7. PICK f : f = FALSE
      OBVIOUS
    <2>8. Good(x, r, p, 0, f)
      BY <2>7
    <2>9. Good(z, r, p, 1, f)
      BY <2>3, <2>5, <2>6, <2>8, ReqGood
    <2>10. SENT_CLOSE \notin x.closes
      BY <1>2 DEF Good, Outgoing
    <2>11. PICK s : s = FALSE
      OBVIOUS
    <2>12. PICK v : v = RunHandler(x, h, s)
      OBVIOUS
    <2>13. Good(z, r, p, 1, FALSE) /\ s \in BOOLEAN
      BY <2>7, <2>9, <2>11
    <2>14. Good(v, r, p, 1, FALSE) /\ Later(x, v) /\ Keeps(x, v, Answered)
      BY <1>0, <2>4, <2>10, <2>12, <2>13, RunHandlerGood
    <2>15. y = [v EXCEPT !.chanreqs = Tail(@)]
      BY <1>2, <2>1, <2>11, <2>12 DEF AnswerFirst
    <2>16. Good(v, r, p, 1, f)
      BY <2>7, <2>14
    <2>17. Good(y, r, p, 0, f) /\ Keeps(v, y, {"chanreqs"})
      BY <2>15, <2>16, TailGood
    <2>18. Keeps(x, y, Answered) /\ y.closes = v.closes
      BY <2>14, <2>17 DEF Keeps, Answered, Confirmed, Readied
    <2> QED
      BY <2>7, <2>14, <2>17, <2>18 DEF Later
  <1> QED
    BY <1>1, <1>2

(* s[k] is the channel after k answers.                                    *)
Answering(s, x, n) == s = [k \in 0..n |-> IF k = 0 THEN x ELSE AnswerFirst(s[k - 1])]

LEMMA AnsweringExists ==
    ASSUME NEW x, NEW n \in Nat
    PROVE  \E s : Answering(s, x, n)
  <1> DEFINE Bad == {m \in Nat : ~\E s : Answering(s, x, m)}
  <1>1. SUFFICES ASSUME Bad # {} PROVE FALSE
    OBVIOUS
  <1>2. PICK m \in Bad : \A k \in Bad : m <= k
    BY <1>1, LeastMember
  <1>3. CASE m = 0
    <2> DEFINE z == [i \in 0..0 |-> x]
    <2>1. Answering(z, x, 0)
      BY DEF Answering
    <2> QED
      BY <1>2, <1>3, <2>1
  <1>4. CASE m # 0
    <2>1. m - 1 \in Nat /\ m - 1 \notin Bad
      BY <1>2, <1>4
    <2>2. PICK s : Answering(s, x, m - 1)
      BY <2>1
    <2> DEFINE u == [i \in 0..m |-> IF i = m THEN AnswerFirst(s[m - 1]) ELSE s[i]]
    <2>3. /\ \A i \in 0..(m - 1) : s[i] = IF i = 0 THEN x ELSE AnswerFirst(s[i - 1])
          /\ \A i \in 0..(m - 1) : u[i] = s[i]
          /\ u[m] = AnswerFirst(s[m - 1])
      BY <1>2, <1>4, <2>1, <2>2, SMT DEF Answering
    <2>5. u = [i \in 0..m |-> u[i]]
      OBVIOUS
    <2> HIDE DEF u
    <2>6. \A i \in 0..m : u[i] = IF i = 0 THEN x ELSE AnswerFirst(u[i - 1])
      BY <1>2, <1>4, <2>1, <2>3
    <2>7. Answering(u, x, m)
      BY <2>5, <2>6 DEF Answering
    <2> QED
      BY <1>2, <2>7
  <1> QED
    BY <1>3, <1>4

(* How the channel is while answers are made up.                           *)
Midway(x, y, r, p) == Good(y, r, p, 0, FALSE) /\ Later(x, y) /\ Keeps(x, y, Answered)

LEMMA AnswerNextGood ==
    ASSUME NEW x, NEW y, NEW z, NEW r, NEW p,
           x.life = "open", RCVD_CLOSE \notin x.closes,
           Forsaken(x, r, p), Midway(x, y, r, p), z = AnswerFirst(y)
    PROVE  Midway(x, z, r, p)
  <1>1. Good(y, r, p, 0, FALSE) /\ Later(x, y) /\ Keeps(x, y, Answered)
    BY DEF Midway
  <1>2. y.life = "open" /\ RCVD_CLOSE \notin y.closes /\ y.bugs = x.bugs
    BY <1>1 DEF Keeps, Answered, Confirmed, Readied, Later
  <1>3. Forsaken(y, r, p)
    BY <1>2 DEF Forsaken
  <1>4. Good(z, r, p, 0, FALSE) /\ Later(y, z) /\ Keeps(y, z, Answered)
    BY <1>1, <1>2, <1>3, AnswerFirstGood
  <1>5. Keeps(x, z, Answered)
    BY <1>1, <1>4 DEF Keeps
  <1>6. Later(x, z)
    BY <1>1, <1>4 DEF Later
  <1> QED
    BY <1>4, <1>5, <1>6 DEF Midway

LEMMA AnswerAllGood ==
    ASSUME NEW x, NEW y, NEW r, NEW p,
           Good(x, r, p, 0, FALSE), x.life = "open", RCVD_CLOSE \notin x.closes,
           Forsaken(x, r, p), y = AnswerAll(x)
    PROVE  Midway(x, y, r, p)
  <1>0. DOMAIN x = Fields /\ x.chanreqs \in Seq(Requests)
    BY DEF Good, Typed
  <1>1. PICK n \in Nat : n = Len(x.chanreqs) + 1
    BY <1>0
  <1>2. PICK s : s = CHOOSE t : Answering(t, x, n)
    OBVIOUS
  <1>3. Answering(s, x, n)
    BY <1>2, AnsweringExists
  <1>4. y = s[n]
    BY <1>1, <1>2 DEF AnswerAll, Answering
  <1>5. /\ s[0] = x
        /\ \A k \in 0..n : k # 0 => s[k] = AnswerFirst(s[k - 1])
    BY <1>3 DEF Answering
  <1>6. Midway(x, x, r, p)
    BY <1>0 DEF Midway, Later, Keeps
  <1> DEFINE Bad == {k \in 0..n : ~Midway(x, s[k], r, p)}
  <1>7. Bad \subseteq Nat
    OBVIOUS
  <1>8. SUFFICES ASSUME Bad # {} PROVE FALSE
    <2>1. n \in 0..n
      OBVIOUS
    <2> QED
      BY <1>4, <2>1
  <1>9. PICK m \in Bad : \A k \in Bad : m <= k
    BY <1>7, <1>8, LeastMember, Zenon
  <1>10. m # 0
    BY <1>5, <1>6, <1>9
  <1>11. PICK k \in 0..n : k = m - 1 /\ k \notin Bad
    <2>1. m - 1 \in 0..n /\ ~(m <= m - 1)
      BY <1>9, <1>10
    <2> QED
      BY <1>9, <2>1
  <1>12. Midway(x, s[k], r, p) /\ s[m] = AnswerFirst(s[k])
    BY <1>5, <1>9, <1>10, <1>11
  <1>13. Midway(x, s[m], r, p)
    BY <1>12, AnswerNextGood
  <1> QED
    BY <1>9, <1>13

(* RCVD_EOF is set, and the local end counts its end of input.             *)
LEMMA EofSetGood ==
    ASSUME NEW x, NEW y, NEW r, NEW p, NEW w, NEW e,
           Good(x, r, p, w, e), x.life = "open", RCVD_EOF \notin x.closes,
           ~Has(r, {"DATA", "EOF"}), p.eof \/ p.close,
           Keeps(x, y, {"closes", "eofs"}), y.closes = x.closes \cup {RCVD_EOF},
           y.eofs = x.eofs \/ y.eofs = x.eofs + 1
    PROVE  Good(y, r, p, w, e)
  <1>0. /\ Typed(x) /\ PeerTyped(p) /\ r \in Seq(Packets)
        /\ Phase(x, r, p) /\ Incoming(x, r, p) /\ Outgoing(x, p)
        /\ Windows(x, r, p) /\ Listed(x, w) /\ Awaited(x, r, p, w)
        /\ Forgotten(x, r, p) /\ Knows(x, r, e)
    BY DEF Good
  <1>1. /\ DOMAIN y = Fields /\ y.life = x.life /\ y.pending_eof = x.pending_eof
        /\ y.throttling_conn = x.throttling_conn /\ y.throttle_count = x.throttle_count
        /\ y.outbuffer = x.outbuffer /\ y.remwindow = x.remwindow
        /\ y.locwindow = x.locwindow /\ y.locmaxwin = x.locmaxwin
        /\ y.remlocwin = x.remlocwin /\ y.throttle_state = x.throttle_state
        /\ y.chanreqs = x.chanreqs /\ y.chan = x.chan /\ y.bugs = x.bugs
        /\ y.user_input = x.user_input /\ y.tx = x.tx /\ y.req = x.req
        /\ y.written = x.written /\ y.got = x.got
        /\ y.x11 = x.x11 /\ y.fixed = x.fixed /\ y.ready = x.ready
        /\ y.backlog = x.backlog /\ y.fault = x.fault /\ y.simple = x.simple
        /\ y.reading = x.reading /\ y.eof_sent = x.eof_sent
    BY DEF Keeps
  <1>2. /\ RCVD_EOF \in y.closes /\ x.closes \subseteq y.closes
        /\ \A t : t # RCVD_EOF => (t \in y.closes <=> t \in x.closes)
        /\ y.closes \subseteq Closes
        /\ RCVD_EOF # SENT_EOF /\ RCVD_EOF # SENT_CLOSE /\ RCVD_EOF # RCVD_CLOSE
    BY <1>0 DEF Typed, Closes, RCVD_EOF, SENT_EOF, SENT_CLOSE, RCVD_CLOSE
  <1>3. x.eofs = 0 /\ RCVD_CLOSE \notin x.closes
    BY <1>0 DEF Incoming
  <1>4. y.eofs = 0 \/ y.eofs = 1
    BY <1>3
  <1>12. y.eofs \in Nat
    BY <1>4
  <1>5. Typed(y)
    BY <1>0, <1>1, <1>2, <1>12 DEF Typed
  <1>6. Phase(y, r, p)
    <2>1. /\ Opening(x, r) => Opening(y, r)
          /\ Opened(x, r) => Opened(y, r)
          /\ Refused(x, r) => Refused(y, r)
      BY <1>1 DEF Opening, Opened, Refused
    <2> QED
      BY <1>0, <1>1, <2>1 DEF Phase
  <1>7. Incoming(y, r, p)
    <2>1. RCVD_CLOSE \notin y.closes
      BY <1>2, <1>3
    <2> QED
      BY <1>0, <1>1, <1>2, <1>4, <2>1 DEF Incoming
  <1>8. Outgoing(y, p)
    BY <1>0, <1>1, <1>2 DEF Outgoing
  <1>9. Windows(y, r, p) /\ Awaited(y, r, p, w) /\ Forgotten(y, r, p)
    BY <1>0, <1>1, <1>2 DEF Windows, Awaited, Forgotten
  <1>10. Listed(y, w)
    BY <1>0, <1>1, ListedSame
  <1>11. Knows(y, r, e)
    BY <1>0, <1>1, <1>2 DEF Knows
  <1> QED
    BY <1>0, <1>5, <1>6, <1>7, <1>8, <1>9, <1>10, <1>11 DEF Good

(* The local end is told.                                                  *)
Ended == {"closes", "eofs", "tx", "pending_eof", "eof_sent", "reading"}

LEMMA TellEofGood ==
    ASSUME NEW x, NEW y, NEW r, NEW p, NEW w,
           Good(x, r, p, w, FALSE), x.life = "open", RCVD_EOF \notin x.closes,
           ~Has(r, {"DATA", "EOF"}), p.eof \/ p.close,
           y = chan_send_eof([x EXCEPT !.closes = @ \cup {RCVD_EOF}])
    PROVE  /\ Good(y, r, p, w, FALSE) /\ Keeps(x, y, Ended)
           /\ RCVD_EOF \in y.closes /\ RCVD_CLOSE \notin y.closes
  <1>0. /\ DOMAIN x = Fields /\ x.eofs \in Nat /\ x.chan \in Kinds \cup {"zombie"}
        /\ Knows(x, r, FALSE) /\ RCVD_CLOSE \notin x.closes
    BY DEF Good, Typed, Incoming
  <1>1. PICK v : v = [x EXCEPT !.closes = @ \cup {RCVD_EOF}]
    OBVIOUS
  <1>2. Keeps(x, v, {"closes"}) /\ v.closes = x.closes \cup {RCVD_EOF}
    BY <1>0, <1>1 DEF Keeps, Fields
  <1>3. PICK z : z = [v EXCEPT !.eofs = @ + 1]
    OBVIOUS
  <1>4. DOMAIN v = Fields /\ v.eofs = x.eofs /\ v.chan = x.chan /\ v.x11 = x.x11
    BY <1>2 DEF Keeps
  <1>5. Keeps(v, z, {"eofs"}) /\ z.eofs = v.eofs + 1
    BY <1>3, <1>4 DEF Keeps, Fields
  <1>6. Keeps(x, v, {"closes", "eofs"}) /\ Keeps(x, z, {"closes", "eofs"})
    BY <1>2, <1>5 DEF Keeps
  <1>7. z.closes = x.closes \cup {RCVD_EOF} /\ z.eofs = x.eofs + 1
    BY <1>2, <1>4, <1>5 DEF Keeps
  <1>8. Good(v, r, p, w, FALSE)
    BY <1>2, <1>4, <1>6, EofSetGood
  <1>9. Good(z, r, p, w, FALSE)
    BY <1>6, <1>7, EofSetGood
  <1>10. /\ z.life = "open" /\ z.chan = x.chan /\ z.x11 = x.x11
         /\ RCVD_EOF \in z.closes /\ RCVD_CLOSE \notin z.closes
         /\ RCVD_EOF \in v.closes /\ RCVD_CLOSE \notin v.closes
    <2>1. z.life = "open" /\ z.chan = x.chan /\ z.x11 = x.x11
      BY <1>6 DEF Keeps
    <2>2. RCVD_EOF # RCVD_CLOSE
      BY DEF RCVD_EOF, RCVD_CLOSE
    <2> QED
      BY <1>0, <1>2, <1>7, <2>1, <2>2
  <1>11. y = CASE v.chan = "main"   -> mainchan_send_eof(z)
               [] v.chan = "zombie" -> v
               [] OTHER             -> IF v.x11 \in {"greeting", "refused"}
                                       THEN ssh2channel_write_eof(z) ELSE z
    BY <1>1, <1>3 DEF chan_send_eof
  <1>12. CASE y = v \/ y = z
    <2>1. Keeps(x, y, Ended)
      BY <1>6, <1>12 DEF Keeps, Ended
    <2> QED
      BY <1>8, <1>9, <1>10, <1>12, <2>1
  <1>13. PICK u : u = ssh2channel_write_eof(z)
    OBVIOUS
  <1>14. CASE x.chan = "main" /\ y # z
    <2>10. PICK t : t = [u EXCEPT !.eof_sent = TRUE, !.reading = FALSE]
      OBVIOUS
    <2>1. y = t
      BY <1>4, <1>11, <1>13, <1>14, <2>10 DEF mainchan_send_eof
    <2>2. z.chan # "zombie"
      BY <1>10, <1>14
    <2>3. /\ Good(u, r, p, w, TRUE) /\ Later(z, u)
          /\ Keeps(z, u, {"tx", "closes", "pending_eof"})
      BY <1>9, <1>10, <1>13, <2>2, WriteEofGood
    <2>4. DOMAIN u = Fields /\ u.chan = "main"
      BY <1>10, <1>14, <2>3 DEF Keeps
    <2>11. Keeps(u, t, {"eof_sent", "reading"}) /\ t.eof_sent = TRUE
      BY <2>4, <2>10 DEF Keeps, Fields
    <2>5. Keeps(u, y, {"eof_sent", "reading"}) /\ y.eof_sent = TRUE
      BY <2>1, <2>11
    <2>6. Knows(y, r, FALSE)
      <3>1. Knows(u, r, TRUE)
        BY <2>3 DEF Good
      <3>2. y.chan = u.chan /\ y.x11 = u.x11 /\ y.bugs = u.bugs /\ y.fixed = u.fixed
        BY <2>5 DEF Keeps
      <3> QED
        BY <2>4, <2>5, <3>1, <3>2, KnowsToldOff
    <2>7. Keeps(u, y, {"throttled_by_backlog", "all_throttled", "eof_pending", "got_pty",
                       "lost", "specials", "reading", "eof_sent"})
      BY <2>5 DEF Keeps
    <2>8. Good(y, r, p, w, FALSE)
      BY <2>3, <2>6, <2>7, LocalGood
    <2>9. Keeps(x, y, Ended) /\ y.closes = u.closes
      BY <1>6, <2>3, <2>5 DEF Keeps, Ended
    <2> QED
      BY <1>10, <2>3, <2>8, <2>9 DEF Later
  <1>15. CASE x.chan \notin {"main", "zombie"} /\ x.x11 \in {"greeting", "refused"}
    <2>1. y = u
      BY <1>4, <1>11, <1>13, <1>15
    <2>2. z.chan # "zombie"
      BY <1>10, <1>15
    <2>3. /\ Good(u, r, p, w, TRUE) /\ Later(z, u)
          /\ Keeps(z, u, {"tx", "closes", "pending_eof"})
      BY <1>9, <1>10, <1>13, <2>2, WriteEofGood
    <2>4. u.chan = x.chan /\ u.x11 = x.x11
      BY <1>10, <2>3 DEF Keeps
    <2>5. RCVD_EOF \in u.closes /\ RCVD_CLOSE \notin u.closes
      BY <1>10, <2>3 DEF Later
    <2>6. Knows(u, r, FALSE)
      <3>1. Knows(u, r, TRUE)
        BY <2>3 DEF Good
      <3> QED
        BY <1>15, <2>4, <2>5, <3>1 DEF Knows
    <2>7. Good(u, r, p, w, FALSE)
      BY <2>3, <2>6 DEF Good
    <2>8. Keeps(x, u, Ended)
      BY <1>6, <2>3 DEF Keeps, Ended
    <2> QED
      BY <2>1, <2>5, <2>7, <2>8
  <1>16. y = v \/ y = z \/ (x.chan = "main" /\ y # z)
         \/ (x.chan \notin {"main", "zombie"} /\ x.x11 \in {"greeting", "refused"})
    <2>1. CASE x.chan = "main"
      BY <2>1
    <2>2. CASE x.chan = "zombie"
      BY <1>4, <1>11, <2>2
    <2>3. CASE x.chan \notin {"main", "zombie"}
      BY <1>4, <1>11, <2>3
    <2> QED
      BY <2>1, <2>2, <2>3
  <1> QED
    BY <1>12, <1>14, <1>15, <1>16

(* The peer's CLOSE ends what we send, too.                                *)
LEMMA BufferGood ==
    ASSUME NEW x, NEW y, NEW r, NEW p, NEW w, NEW e,
           Good(x, r, p, w, e), x.life = "open", p.close,
           Keeps(x, y, {"outbuffer"}), y.outbuffer = 0
    PROVE  Good(y, r, p, w, e)
  <1>0. /\ Typed(x) /\ PeerTyped(p) /\ r \in Seq(Packets)
        /\ Phase(x, r, p) /\ Incoming(x, r, p) /\ Outgoing(x, p)
        /\ Windows(x, r, p) /\ Listed(x, w) /\ Awaited(x, r, p, w)
        /\ Forgotten(x, r, p) /\ Knows(x, r, e)
    BY DEF Good
  <1>1. /\ DOMAIN y = Fields /\ y.life = x.life /\ y.pending_eof = x.pending_eof
        /\ y.throttling_conn = x.throttling_conn /\ y.throttle_count = x.throttle_count
        /\ y.closes = x.closes /\ y.remwindow = x.remwindow /\ y.eofs = x.eofs
        /\ y.locwindow = x.locwindow /\ y.locmaxwin = x.locmaxwin
        /\ y.remlocwin = x.remlocwin /\ y.throttle_state = x.throttle_state
        /\ y.chanreqs = x.chanreqs /\ y.chan = x.chan /\ y.bugs = x.bugs
        /\ y.user_input = x.user_input /\ y.tx = x.tx /\ y.req = x.req
        /\ y.written = x.written /\ y.got = x.got
        /\ y.x11 = x.x11 /\ y.fixed = x.fixed /\ y.ready = x.ready
        /\ y.backlog = x.backlog /\ y.fault = x.fault /\ y.simple = x.simple
        /\ y.reading = x.reading /\ y.eof_sent = x.eof_sent
    BY DEF Keeps
  <1>7. y.outbuffer \in Nat
    OBVIOUS
  <1>2. Typed(y)
    BY <1>0, <1>1, <1>7 DEF Typed
  <1>3. Phase(y, r, p)
    <2>1. /\ Opening(x, r) => Opening(y, r)
          /\ Opened(x, r) => Opened(y, r)
          /\ Refused(x, r) => Refused(y, r)
      BY <1>1 DEF Opening, Opened, Refused
    <2> QED
      BY <1>0, <1>1, <2>1 DEF Phase
  <1>4. Incoming(y, r, p) /\ Outgoing(y, p)
    BY <1>0, <1>1 DEF Incoming, Outgoing
  <1>5. Windows(y, r, p) /\ Awaited(y, r, p, w) /\ Forgotten(y, r, p) /\ Knows(y, r, e)
    BY <1>0, <1>1 DEF Windows, Awaited, Forgotten, Knows
  <1>6. Listed(y, w)
    BY <1>0, <1>1, ListedSame
  <1> QED
    BY <1>0, <1>2, <1>3, <1>4, <1>5, <1>6 DEF Good

LEMMA OutgoingEofGood ==
    ASSUME NEW x, NEW y, NEW r, NEW p, NEW w,
           Good(x, r, p, w, FALSE), x.life = "open", p.close, y = OutgoingEof(x)
    PROVE  /\ Good(y, r, p, w, TRUE) /\ Later(x, y) /\ SENT_EOF \in y.closes
           /\ Keeps(x, y, {"tx", "closes", "pending_eof", "outbuffer", "reading"})
           /\ y.outbuffer = x.outbuffer \/ y.outbuffer = 0
           /\ y.chan # "zombie" /\ y.x11 = "connected" /\ y.reading => y.eof_sent
  <1>0. DOMAIN x = Fields /\ Knows(x, r, FALSE)
    BY DEF Good, Typed
  <1>1. CASE SENT_EOF \in x.closes
    <2>1. y = x
      BY <1>1 DEF OutgoingEof
    <2>2. Good(x, r, p, w, TRUE)
      BY GoodLess
    <2>3. x.chan # "zombie" /\ x.x11 = "connected" /\ x.reading => x.eof_sent
      BY <1>0, <1>1 DEF Knows
    <2> QED
      BY <1>0, <1>1, <2>1, <2>2, <2>3 DEF Keeps, Later
  <1>2. CASE SENT_EOF \notin x.closes
    <2>1. PICK z : z = [x EXCEPT !.outbuffer = 0]
      OBVIOUS
    <2>2. Keeps(x, z, {"outbuffer"}) /\ z.outbuffer = 0
      BY <1>0, <2>1 DEF Keeps, Fields
    <2>3. Good(z, r, p, w, FALSE)
      BY <2>2, BufferGood
    <2>4. z.life = "open" /\ z.closes = x.closes
      BY <2>2 DEF Keeps
    <2>5. PICK v : v = ssh2channel_write_eof(z)
      OBVIOUS
    <2>6. z.chan # "zombie" \/ (z.life = "open" /\ z.outbuffer = 0)
      BY <2>2, <2>4
    <2>7. /\ Good(v, r, p, w, TRUE) /\ Later(z, v)
          /\ Keeps(z, v, {"tx", "closes", "pending_eof"})
          /\ SENT_EOF \in v.closes
      BY <2>2, <2>3, <2>4, <2>5, <2>6, WriteEofGood
    <2>8. v.life = "open" /\ v.outbuffer = 0
      BY <2>2, <2>4, <2>7 DEF Keeps
    <2>9. y = ssh2_channel_check_throttle(v)
      BY <1>2, <2>1, <2>5 DEF OutgoingEof
    <2>10. PICK f : f = TRUE
      OBVIOUS
    <2>11. Good(v, r, p, w, f)
      BY <2>7, <2>10
    <2>12. /\ Good(y, r, p, w, f) /\ Keeps(v, y, {"reading"})
           /\ SENT_EOF \in v.closes /\ v.chan # "zombie" => y.reading = FALSE
      BY <2>8, <2>9, <2>11, CheckThrottleGood
    <2>13. /\ Keeps(x, y, {"tx", "closes", "pending_eof", "outbuffer", "reading"})
           /\ y.closes = v.closes /\ y.outbuffer = v.outbuffer /\ y.chan = v.chan
      BY <2>2, <2>7, <2>12 DEF Keeps
    <2>14. Later(x, y)
      BY <2>4, <2>7, <2>13 DEF Later
    <2> QED
      BY <2>7, <2>8, <2>10, <2>12, <2>13, <2>14
  <1> QED
    BY <1>1, <1>2
-----------------------------------------------------------------------------
(* Packets from the peer.                                                  *)

(* A packet for an open channel finds it open.                             *)
LEMMA HeadOpen ==
    ASSUME NEW x, NEW r, NEW p, NEW w, NEW e, NEW s, NEW a,
           Good(x, r, p, w, e), Took(r, s, a), a.t \in Body
    PROVE  /\ x.life = "open" /\ p.state = "open" /\ Only(r, Body)
           /\ RCVD_CLOSE \in x.closes => a.t \in Replies /\ "late" \in x.bugs
           /\ RCVD_EOF \in x.closes => a.t \notin {"DATA", "EOF"}
           /\ r # << >>
  <1>0. /\ Phase(x, r, p) /\ Forgotten(x, r, p) /\ PeerTyped(p) /\ Incoming(x, r, p)
        /\ r \in Seq(Packets)
    BY DEF Good
  <1>1. r # << >> /\ r[1] = a /\ 1 \in 1..Len(r)
    BY <1>0 DEF Took
  <1>2. a.t \notin {"OPEN", "CONFIRMATION", "REFUSAL"}
    BY DEF Body, Replies
  <1>3. ~Opening(x, r)
    BY <1>1, <1>2 DEF Opening, Packet
  <1>4. ~Refused(x, r)
    BY <1>1, <1>2 DEF Refused, Packet
  <1>5. p.state = "open"
    BY <1>0, <1>3, <1>4 DEF Phase, PeerTyped
  <1>6. Opened(x, r) /\ x.life # "freed"
    BY <1>0, <1>1, <1>5 DEF Phase, Forgotten
  <1>7. x.life = "open" /\ Only(r, Body)
    BY <1>1, <1>2, <1>6 DEF Opened, Bytes
  <1>8. RCVD_CLOSE \in x.closes => a.t \in Replies /\ "late" \in x.bugs
    BY <1>0, <1>1 DEF Incoming, Only
  <1>9. RCVD_EOF \in x.closes => a.t \notin {"DATA", "EOF"}
    BY <1>0, <1>1 DEF Incoming, Has
  <1> QED
    BY <1>1, <1>5, <1>7, <1>8, <1>9

(* What taking a packet means for the channel, before the local end gets   *)
(* to see it.                                                              *)
Takes(x, y, a) ==
    /\ Keeps(x, y, {"locwindow", "remlocwin", "got", "backlog", "remwindow", "req"})
    /\ y.locwindow = x.locwindow - Size(a, "DATA")
    /\ y.remwindow \in Nat
    /\ SENT_EOF \notin x.closes => y.remwindow = x.remwindow + Size(a, "ADJUST")
    /\ y.got = x.got + Size(a, "DATA") \/ (x.chan = "zombie" /\ y.got = x.got)
    /\ y.got \in Nat
    /\ y.backlog \in Nat /\ y.backlog <= y.got
    /\ y.remlocwin \in Int
    /\ y.req \subseteq DOMAIN Rank
    /\ Listed(y, Answer(a))

LEMMA TakeGood ==
    ASSUME NEW x, NEW y, NEW r, NEW p, NEW e, NEW s, NEW a,
           Good(x, r, p, 0, e), Took(r, s, a), s \in Seq(Packets), a.t \in Body,
           Takes(x, y, a)
    PROVE  Good(y, s, p, Answer(a), e)
  <1>0. /\ Typed(x) /\ PeerTyped(p) /\ r \in Seq(Packets)
        /\ Phase(x, r, p) /\ Incoming(x, r, p) /\ Outgoing(x, p)
        /\ Windows(x, r, p) /\ Awaited(x, r, p, 0)
        /\ Forgotten(x, r, p) /\ Knows(x, r, e)
    BY DEF Good
  <1>1. /\ DOMAIN y = Fields /\ y.life = x.life /\ y.pending_eof = x.pending_eof
        /\ y.throttling_conn = x.throttling_conn /\ y.throttle_count = x.throttle_count
        /\ y.closes = x.closes /\ y.eofs = x.eofs /\ y.outbuffer = x.outbuffer
        /\ y.locmaxwin = x.locmaxwin /\ y.throttle_state = x.throttle_state
        /\ y.chanreqs = x.chanreqs /\ y.chan = x.chan /\ y.bugs = x.bugs
        /\ y.user_input = x.user_input /\ y.tx = x.tx
        /\ y.written = x.written /\ y.ready = x.ready
        /\ y.x11 = x.x11 /\ y.fixed = x.fixed
        /\ y.fault = x.fault /\ y.simple = x.simple
        /\ y.reading = x.reading /\ y.eof_sent = x.eof_sent
    BY DEF Takes, Keeps
  <1>2. /\ y.locwindow = x.locwindow - Size(a, "DATA")
        /\ y.remwindow \in Nat
        /\ SENT_EOF \notin x.closes => y.remwindow = x.remwindow + Size(a, "ADJUST")
        /\ y.got = x.got + Size(a, "DATA") \/ (x.chan = "zombie" /\ y.got = x.got)
        /\ y.got \in Nat
    BY DEF Takes
  <1>19. /\ y.backlog \in Nat /\ y.backlog <= y.got
         /\ y.remlocwin \in Int
         /\ y.req \subseteq DOMAIN Rank
         /\ Listed(y, Answer(a))
    BY DEF Takes
  <1>3. /\ x.life = "open" /\ p.state = "open" /\ Only(r, Body)
        /\ RCVD_CLOSE \in x.closes => a.t \in Replies /\ "late" \in x.bugs
    BY HeadOpen
  <1>4. /\ Sizes(r, "DATA") = Size(a, "DATA") + Sizes(s, "DATA")
        /\ Sizes(r, "ADJUST") = Size(a, "ADJUST") + Sizes(s, "ADJUST")
        /\ Answers(r) = Answer(a) + Answers(s)
    BY TakeCounts
  <1>5. /\ Sizes(s, "DATA") \in Nat /\ Sizes(s, "ADJUST") \in Nat /\ Answers(s) \in Nat
    BY CountsNat
  <1>6. /\ x.remwindow \in Nat /\ x.locwindow \in Nat /\ x.got \in Nat
        /\ p.recvwin \in Nat /\ p.sendwin \in Nat /\ p.sent \in Nat
        /\ Sizes(x.tx, "DATA") \in Nat /\ Sizes(x.tx, "ADJUST") \in Nat
        /\ Wanted(x.tx) \in Nat
    BY GoodNumbers, Zenon
  <1>7. /\ Size(a, "DATA") \in Nat /\ Size(a, "ADJUST") \in Nat /\ Answer(a) \in Nat
    <2>1. a \in Packets
      BY <1>0 DEF Took
    <2> QED
      BY <2>1 DEF Size, Answer, Packets
  <1>8. /\ \A i \in 1..Len(s) : s[i] = r[i + 1] /\ i + 1 \in 1..Len(r)
        /\ \A i, j \in 1..Len(s) : i < j => i + 1 < j + 1
    BY <1>0 DEF Took
  <1>9. \A t : Has(s, t) => Has(r, t)
    BY <1>8 DEF Has
  <1>10. \A t : Only(r, t) => Only(s, t)
    BY <1>8 DEF Only
  <1>20. PICK d \in Nat, g \in Nat, n \in Nat, m \in Nat, k \in Nat, l \in Nat :
            /\ d = Size(a, "DATA") /\ g = Size(a, "ADJUST")
            /\ n = Sizes(s, "DATA") /\ m = Sizes(s, "ADJUST")
            /\ k = Sizes(x.tx, "DATA") /\ l = Sizes(x.tx, "ADJUST")
    BY <1>5, <1>6, <1>7
  <1>21. Sizes(r, "DATA") = d + n /\ Sizes(r, "ADJUST") = g + m
    BY <1>4, <1>20
  <1>11. Windows(y, s, p) /\ y.locwindow \in Nat
    <2>1. x.locwindow = p.sendwin + (d + n) + l
      BY <1>0, <1>3, <1>20, <1>21 DEF Windows
    <2>6. y.locwindow = x.locwindow - d
      BY <1>2, <1>20
    <2>7. y.locwindow = p.sendwin + n + l
      BY <1>6, <2>1, <2>6
    <2>2. y.locwindow = p.sendwin + Sizes(s, "DATA") + Sizes(x.tx, "ADJUST")
      BY <1>20, <2>7
    <2>3. SENT_EOF \notin x.closes =>
             y.remwindow + Sizes(x.tx, "DATA") + Sizes(s, "ADJUST") = p.recvwin
      <3>1. SUFFICES ASSUME SENT_EOF \notin x.closes
                     PROVE  y.remwindow + Sizes(x.tx, "DATA") + Sizes(s, "ADJUST") = p.recvwin
        OBVIOUS
      <3>2. x.remwindow + k + (g + m) = p.recvwin
        BY <1>0, <1>3, <1>20, <1>21, <3>1 DEF Windows
      <3>3. y.remwindow = x.remwindow + g
        BY <1>2, <1>20, <3>1
      <3>4. y.remwindow + k + m = p.recvwin
        BY <1>6, <3>2, <3>3
      <3> QED
        BY <1>20, <3>4
    <2>4. y.locwindow \in Nat
      <3>1. PICK h \in Nat : h = p.sendwin + n + l
        BY <1>6
      <3> QED
        BY <2>7, <3>1, Zenon
    <2>5. Sizes(x.tx, "DATA") <= p.recvwin
      BY <1>0 DEF Windows
    <2> QED
      BY <1>1, <1>3, <2>2, <2>3, <2>4, <2>5 DEF Windows
  <1>12. Typed(y)
    BY <1>0, <1>1, <1>2, <1>11, <1>19 DEF Typed
  <1>13. Phase(y, s, p)
    <2>1. Opened(y, s)
      BY <1>0, <1>1, <1>3, <1>10 DEF Phase, Opened
    <2> QED
      BY <1>1, <1>3, <2>1 DEF Phase
  <1>14. Incoming(y, s, p)
    <2>1. ASSUME NEW i \in 1..Len(s), NEW j \in 1..Len(s), i < j
          PROVE  /\ s[i].t = "EOF" => s[j].t \notin {"DATA", "EOF"}
                 /\ s[i].t = "CLOSE" => s[j].t \in Replies /\ "late" \in y.bugs
      <3>1. PICK u \in 1..Len(r), v \in 1..Len(r) : u < v /\ s[i] = r[u] /\ s[j] = r[v]
        BY <1>8, <2>1
      <3> QED
        BY <1>0, <1>1, <3>1 DEF Incoming
    <2>2. /\ y.got + Sizes(s, "DATA") <= p.sent
          /\ y.chan # "zombie" => y.got + Sizes(s, "DATA") = p.sent
      <3>1. /\ x.got + (d + n) <= p.sent
            /\ x.chan # "zombie" => x.got + (d + n) = p.sent
        BY <1>0, <1>21 DEF Incoming
      <3>2. y.got = x.got + d \/ (x.chan = "zombie" /\ y.got = x.got)
        BY <1>2, <1>20
      <3>3. y.got + n <= p.sent /\ (x.chan # "zombie" => y.got + n = p.sent)
        <4>1. CASE y.got = x.got + d
          BY <1>6, <3>1, <4>1
        <4>2. CASE x.chan = "zombie" /\ y.got = x.got
          BY <1>6, <3>1, <4>2
        <4> QED
          BY <3>2, <4>1, <4>2
      <3> QED
        BY <1>1, <1>20, <3>3
    <2>3. /\ RCVD_EOF \in y.closes => ~Has(s, {"DATA", "EOF"}) /\ (p.eof \/ p.close)
          /\ RCVD_CLOSE \in y.closes =>
                /\ RCVD_EOF \in y.closes /\ SENT_EOF \in y.closes /\ p.close
                /\ Only(s, Replies)
                /\ "late" \notin y.bugs => s = << >>
      BY <1>0, <1>1, <1>3, <1>9, <1>10 DEF Incoming
    <2>4. /\ Has(s, {"EOF"}) => p.eof
          /\ Has(s, {"CLOSE"}) => p.close
          /\ y.eofs = 0 \/ (y.eofs = 1 /\ RCVD_EOF \in y.closes)
          /\ p.sent + p.room <= MaxIn
      BY <1>0, <1>1, <1>9 DEF Incoming
    <2> QED
      BY <1>19, <2>1, <2>2, <2>3, <2>4 DEF Incoming
  <1>15. Outgoing(y, p)
    BY <1>0, <1>1 DEF Outgoing
  <1>16. Awaited(y, s, p, Answer(a))
    <2>1. SUFFICES ASSUME ~p.close \/ Has(s, {"CLOSE"}) \/ "late" \in y.bugs
                   PROVE  Answers(s) + Wanted(y.tx) + Answer(a) <= Len(y.chanreqs)
      BY DEF Awaited
    <2>6. ~p.close \/ Has(r, {"CLOSE"}) \/ "late" \in x.bugs
      BY <1>1, <1>9, <2>1
    <2>2. Answers(r) + Wanted(x.tx) + 0 <= Len(x.chanreqs)
      BY <1>0, <2>6 DEF Awaited
    <2>7. x.chanreqs \in Seq(Requests)
      BY <1>0 DEF Typed
    <2>3. PICK q \in Nat : q = Len(x.chanreqs)
      BY <2>7
    <2>4. Answers(r) + Wanted(x.tx) + 0 <= q
      BY <2>2, <2>3, Zenon
    <2>5. Answers(s) + Wanted(x.tx) + Answer(a) <= q
      BY <1>4, <1>5, <1>6, <1>7, <2>4
    <2> QED
      BY <1>1, <2>3, <2>5, Zenon
  <1>17. Forgotten(y, s, p)
    BY <1>1, <1>3 DEF Forgotten
  <1>18. Knows(y, s, e)
    BY <1>0, <1>1, <1>9 DEF Knows
  <1> QED
    BY <1>0, <1>19, <1>11, <1>12, <1>13, <1>14, <1>15, <1>16, <1>17, <1>18 DEF Good

LEMMA TookHas ==
    ASSUME NEW r, NEW s, NEW a, Took(r, s, a)
    PROVE  \A t : Has(r, {t}) <=> a.t = t \/ Has(s, {t})
  <1>1. /\ Len(s) \in Nat /\ Len(r) = Len(s) + 1
        /\ \A i \in 1..Len(s) : s[i] = r[i + 1] /\ i + 1 \in 1..Len(r)
        /\ \A i \in 1..Len(r) : i = 1 \/ i - 1 \in 1..Len(s)
        /\ 1 \in 1..Len(r) /\ r[1] = a
    BY DEF Took
  <1>2. SUFFICES ASSUME NEW t PROVE Has(r, {t}) <=> a.t = t \/ Has(s, {t})
    OBVIOUS
  <1>3. a.t = t => Has(r, {t})
    BY <1>1 DEF Has
  <1>4. Has(s, {t}) => Has(r, {t})
    BY <1>1 DEF Has
  <1>5. ASSUME Has(r, {t}), a.t # t PROVE Has(s, {t})
    <2>1. PICK i \in 1..Len(r) : r[i].t = t
      BY <1>5 DEF Has
    <2>2. i # 1
      BY <1>1, <1>5, <2>1
    <2>3. PICK j \in 1..Len(s) : i = j + 1
      BY <1>1, <2>2
    <2>4. s[j].t = t
      BY <1>1, <2>1, <2>3
    <2> QED
      BY <2>4 DEF Has
  <1> QED
    BY <1>3, <1>4, <1>5

(* Nothing but a packet less.                                              *)
LEMMA TakeSame ==
    ASSUME NEW x, NEW r, NEW p, NEW e, NEW s, NEW a,
           Good(x, r, p, 0, e), Took(r, s, a), s \in Seq(Packets),
           \/ a.t \in {"EOF", "CLOSE", "REQUEST"}
           \/ a.t = "ADJUST" /\ SENT_EOF \in x.closes
    PROVE  Good(x, s, p, 0, e)
  <1>1. a.t \in Body /\ Size(a, "DATA") = 0 /\ Answer(a) = 0
    BY DEF Body, Replies, Size, Answer
  <1>2. SENT_EOF \notin x.closes => Size(a, "ADJUST") = 0
    BY DEF Size
  <1>3. Typed(x) /\ Incoming(x, r, p) /\ Listed(x, 0)
    BY DEF Good
  <1>4. x.locwindow = x.locwindow - 0 /\ x.got = x.got + 0 /\ x.remwindow = x.remwindow + 0
    <2>1. x.locwindow \in Nat /\ x.got \in Nat /\ x.remwindow \in Nat
      BY GoodNumbers, Zenon
    <2> QED
      BY <2>1
  <1>5. Keeps(x, x, {"locwindow", "remlocwin", "got", "backlog", "remwindow", "req"})
    BY <1>3 DEF Keeps, Typed
  <1>6. Takes(x, x, a)
    BY <1>1, <1>2, <1>3, <1>4, <1>5 DEF Takes, Typed, Incoming
  <1>7. Good(x, s, p, Answer(a), e)
    BY <1>1, <1>6, TakeGood
  <1> QED
    BY <1>1, <1>7

LEMMA CloseSetGood ==
    ASSUME NEW x, NEW y, NEW r, NEW p, NEW w,
           Good(x, r, p, w, TRUE), x.life = "open", p.close,
           RCVD_EOF \in x.closes, SENT_EOF \in x.closes,
           Only(r, Replies), "late" \notin x.bugs => r = << >>,
           x.chan # "zombie" /\ x.x11 = "connected" /\ x.reading => x.eof_sent,
           Keeps(x, y, {"closes"}), y.closes = x.closes \cup {RCVD_CLOSE}
    PROVE  Good(y, r, p, w, FALSE)
  <1>0. /\ Typed(x) /\ PeerTyped(p) /\ r \in Seq(Packets)
        /\ Phase(x, r, p) /\ Incoming(x, r, p) /\ Outgoing(x, p)
        /\ Windows(x, r, p) /\ Listed(x, w) /\ Awaited(x, r, p, w)
        /\ Forgotten(x, r, p) /\ Knows(x, r, TRUE)
    BY DEF Good
  <1>1. /\ DOMAIN y = Fields /\ y.life = x.life /\ y.pending_eof = x.pending_eof
        /\ y.throttling_conn = x.throttling_conn /\ y.throttle_count = x.throttle_count
        /\ y.outbuffer = x.outbuffer /\ y.remwindow = x.remwindow /\ y.eofs = x.eofs
        /\ y.locwindow = x.locwindow /\ y.locmaxwin = x.locmaxwin
        /\ y.remlocwin = x.remlocwin /\ y.throttle_state = x.throttle_state
        /\ y.chanreqs = x.chanreqs /\ y.chan = x.chan /\ y.bugs = x.bugs
        /\ y.user_input = x.user_input /\ y.tx = x.tx /\ y.req = x.req
        /\ y.written = x.written /\ y.got = x.got
        /\ y.x11 = x.x11 /\ y.fixed = x.fixed /\ y.ready = x.ready
        /\ y.backlog = x.backlog /\ y.fault = x.fault /\ y.simple = x.simple
        /\ y.reading = x.reading /\ y.eof_sent = x.eof_sent
    BY DEF Keeps
  <1>2. /\ RCVD_CLOSE \in y.closes /\ x.closes \subseteq y.closes
        /\ \A t : t # RCVD_CLOSE => (t \in y.closes <=> t \in x.closes)
        /\ y.closes \subseteq Closes
        /\ RCVD_CLOSE # SENT_EOF /\ RCVD_CLOSE # SENT_CLOSE /\ RCVD_CLOSE # RCVD_EOF
    BY <1>0 DEF Typed, Closes, RCVD_EOF, SENT_EOF, SENT_CLOSE, RCVD_CLOSE
  <1>3. Typed(y)
    BY <1>0, <1>1, <1>2 DEF Typed
  <1>4. Phase(y, r, p)
    <2>1. /\ Opening(x, r) => Opening(y, r)
          /\ Opened(x, r) => Opened(y, r)
          /\ Refused(x, r) => Refused(y, r)
      BY <1>1 DEF Opening, Opened, Refused
    <2> QED
      BY <1>0, <1>1, <2>1 DEF Phase
  <1>5. Incoming(y, r, p)
    BY <1>0, <1>1, <1>2 DEF Incoming
  <1>6. Outgoing(y, p)
    BY <1>0, <1>1, <1>2 DEF Outgoing
  <1>7. Windows(y, r, p) /\ Awaited(y, r, p, w) /\ Forgotten(y, r, p)
    BY <1>0, <1>1, <1>2 DEF Windows, Awaited, Forgotten
  <1>8. Listed(y, w)
    BY <1>0, <1>1, ListedSame
  <1>9. Knows(y, r, FALSE)
    <2>1. ~x.pending_eof
      BY <1>0 DEF Outgoing
    <2> QED
      BY <1>0, <1>1, <1>2, <2>1 DEF Knows
  <1> QED
    BY <1>0, <1>3, <1>4, <1>5, <1>6, <1>7, <1>8, <1>9 DEF Good

(* CHANNEL_CLOSE.                                                          *)
LEMMA CloseGood ==
    ASSUME NEW x, NEW x1, NEW x2, NEW x3, NEW y, NEW r, NEW p, NEW s, NEW a,
           Between(x, r, p), Took(r, s, a), s \in Seq(Packets), a.t = "CLOSE",
           x1 = ImpliedEof(x),
           x2 = IF "late" \in x1.bugs THEN x1 ELSE AnswerAll(x1),
           x3 = OutgoingEof(x2),
           y = IF RCVD_CLOSE \in x3.closes THEN x3
               ELSE ssh2_channel_check_close([x3 EXCEPT !.closes = @ \cup {RCVD_CLOSE}])
    PROVE  Between(y, s, p)
  <1>0. Good(x, r, p, 0, FALSE) /\ Sent(x) /\ (Roomy => Reopened(x))
    BY DEF Between
  <1>1. x.life = "open" /\ RCVD_CLOSE \notin x.closes /\ DOMAIN x = Fields
    <2>1. a.t \in Body /\ a.t \notin Replies
      BY DEF Body, Replies
    <2> QED
      BY <1>0, <2>1, HeadOpen, GoodTold
  <1>2. p.close
    <2>1. Has(r, {"CLOSE"})
      BY TookHas
    <2> QED
      BY <1>0, <2>1 DEF Good, Incoming
  <1>3. \A i \in 1..Len(s) : s[i].t \in Replies /\ "late" \in x.bugs
    <2>1. SUFFICES ASSUME NEW i \in 1..Len(s)
                   PROVE  s[i].t \in Replies /\ "late" \in x.bugs
      OBVIOUS
    <2>2. /\ 1 \in 1..Len(r) /\ r[1].t = "CLOSE" /\ i + 1 \in 1..Len(r) /\ 1 < i + 1
          /\ s[i] = r[i + 1]
      BY DEF Took
    <2>3. Incoming(x, r, p)
      BY <1>0 DEF Good
    <2> QED
      BY <2>2, <2>3 DEF Incoming
  <1>4. /\ Only(s, Replies) /\ ~Has(s, {"DATA", "EOF"}) /\ ~Has(s, {"CLOSE"})
        /\ "late" \notin x.bugs => s = << >>
    <2>1. Only(s, Replies)
      BY <1>3 DEF Only
    <2>2. ~Has(s, {"DATA", "EOF"}) /\ ~Has(s, {"CLOSE"})
      BY <1>3 DEF Has, Replies
    <2>3. ASSUME "late" \notin x.bugs PROVE s = << >>
      BY <1>3, <2>3
    <2> QED
      BY <2>1, <2>2, <2>3
  <1>5. Good(x, s, p, 0, FALSE)
    BY <1>0, TakeSame
  <1>6. /\ Good(x1, s, p, 0, FALSE) /\ Keeps(x, x1, Ended)
        /\ RCVD_EOF \in x1.closes /\ RCVD_CLOSE \notin x1.closes
    <2>1. CASE RCVD_EOF \in x.closes
      <3>1. x1 = x
        BY <2>1 DEF ImpliedEof
      <3> QED
        BY <1>1, <1>5, <2>1, <3>1 DEF Keeps
    <2>2. CASE RCVD_EOF \notin x.closes
      <3>1. x1 = chan_send_eof([x EXCEPT !.closes = @ \cup {RCVD_EOF}])
        BY <2>2 DEF ImpliedEof
      <3> QED
        BY <1>1, <1>2, <1>4, <1>5, <2>2, <3>1, TellEofGood
    <2> QED
      BY <2>1, <2>2
  <1>7. x1.life = "open" /\ x1.bugs = x.bugs /\ DOMAIN x1 = Fields
    BY <1>1, <1>6 DEF Keeps, Ended
  <1>8. Good(x2, s, p, 0, FALSE) /\ Later(x1, x2) /\ Keeps(x1, x2, Answered)
    <2>1. CASE "late" \in x1.bugs
      BY <1>6, <1>7, <2>1 DEF Later, Keeps
    <2>2. CASE "late" \notin x1.bugs
      <3>1. Forsaken(x1, s, p)
        BY <1>2, <1>4, <2>2 DEF Forsaken
      <3>2. x2 = AnswerAll(x1)
        BY <2>2
      <3> QED
        BY <1>6, <1>7, <3>1, <3>2, AnswerAllGood DEF Midway
    <2> QED
      BY <2>1, <2>2
  <1>9. x2.life = "open"
    BY <1>7, <1>8 DEF Keeps, Answered, Confirmed, Readied
  <1>10. /\ Good(x3, s, p, 0, TRUE) /\ Later(x2, x3) /\ SENT_EOF \in x3.closes
         /\ Keeps(x2, x3, {"tx", "closes", "pending_eof", "outbuffer", "reading"})
         /\ x3.outbuffer = x2.outbuffer \/ x3.outbuffer = 0
         /\ x3.chan # "zombie" /\ x3.x11 = "connected" /\ x3.reading => x3.eof_sent
    BY <1>2, <1>8, <1>9, OutgoingEofGood
  <1>11. RCVD_EOF \in x3.closes /\ RCVD_CLOSE \notin x3.closes
    BY <1>6, <1>8, <1>10 DEF Later
  <1>12. PICK z : z = [x3 EXCEPT !.closes = @ \cup {RCVD_CLOSE}]
    OBVIOUS
  <1>13. x3.life = "open" /\ x3.bugs = x.bugs /\ DOMAIN x3 = Fields
    BY <1>7, <1>8, <1>9, <1>10 DEF Keeps, Answered, Confirmed, Readied
  <1>14. Keeps(x3, z, {"closes"}) /\ z.closes = x3.closes \cup {RCVD_CLOSE}
    BY <1>12, <1>13 DEF Keeps, Fields
  <1>15. Good(z, s, p, 0, FALSE)
    <2>1. "late" \notin x3.bugs => s = << >>
      BY <1>4, <1>13
    <2> QED
      BY <1>2, <1>4, <1>10, <1>11, <1>13, <1>14, <2>1, CloseSetGood
  <1>16. z.life = "open" /\ RCVD_EOF \in z.closes /\ RCVD_CLOSE \in z.closes
    BY <1>11, <1>13, <1>14 DEF Keeps
  <1>17. y = ssh2_channel_check_close(z)
    BY <1>11, <1>12
  <1>18. /\ Good(y, s, p, 0, FALSE) /\ Later(z, y)
         /\ Keeps(z, y, {"tx", "closes", "life", "chan", "fixed"})
    <2>1. PICK f : f = FALSE
      OBVIOUS
    <2>2. Good(z, s, p, 0, f) /\ z.life \in {"half", "open"}
      BY <1>15, <1>16, <2>1
    <2>3. /\ Good(y, s, p, 0, f) /\ Later(z, y)
          /\ Keeps(z, y, {"tx", "closes", "life", "chan", "fixed"})
      BY <1>17, <2>2, CheckCloseGood
    <2> QED
      BY <2>1, <2>3
  <1>19. RCVD_EOF \in y.closes /\ RCVD_CLOSE \in y.closes
    BY <1>16, <1>18 DEF Later
  <1>23. /\ x1.remwindow = x.remwindow /\ x1.outbuffer = x.outbuffer
         /\ x1.simple = x.simple /\ x1.locmaxwin = x.locmaxwin
    BY <1>6 DEF Keeps, Ended
  <1>24. /\ x2.remwindow = x1.remwindow /\ x2.outbuffer = x1.outbuffer
         /\ x2.simple = x1.simple /\ x2.locmaxwin = x1.locmaxwin
    BY <1>8 DEF Keeps, Answered, Confirmed, Readied
  <1>25. /\ x3.remwindow = x2.remwindow
         /\ x3.simple = x2.simple /\ x3.locmaxwin = x2.locmaxwin
    BY <1>10 DEF Keeps
  <1>26. /\ y.remwindow = x3.remwindow /\ y.outbuffer = x3.outbuffer
         /\ y.simple = x3.simple /\ y.locmaxwin = x3.locmaxwin
    <2>1. /\ z.remwindow = x3.remwindow /\ z.outbuffer = x3.outbuffer
          /\ z.simple = x3.simple /\ z.locmaxwin = x3.locmaxwin
      BY <1>14 DEF Keeps
    <2>2. /\ y.remwindow = z.remwindow /\ y.outbuffer = z.outbuffer
          /\ y.simple = z.simple /\ y.locmaxwin = z.locmaxwin
      BY <1>18 DEF Keeps
    <2> QED
      BY <2>1, <2>2
  <1>20. Sent(y)
    <2>1. /\ y.remwindow = x.remwindow /\ x2.outbuffer = x.outbuffer
          /\ y.outbuffer = x3.outbuffer
      BY <1>23, <1>24, <1>25, <1>26
    <2> QED
      BY <1>0, <1>10, <2>1 DEF Sent
  <1>21. Closing(y, s, p)
    BY <1>19 DEF Closing
  <1>22. Roomy => Reopened(y)
    <2>1. y.simple = x.simple /\ y.locmaxwin = x.locmaxwin
      BY <1>23, <1>24, <1>25, <1>26
    <2> QED
      BY <1>0, <1>19, <2>1 DEF Reopened
  <1> QED
    BY <1>18, <1>20, <1>21, <1>22 DEF Between

(* What a handler does that leaves the local window alone.                 *)
Quiet(x, y) ==
    /\ y.simple = x.simple /\ y.locmaxwin = x.locmaxwin
    /\ y.locwindow = x.locwindow /\ y.backlog = x.backlog
    /\ x.closes \subseteq y.closes
    /\ y.life = "open" /\ RCVD_EOF \notin y.closes => x.life = "open" /\ y.fixed = x.fixed

LEMMA BetweenTook ==
    ASSUME NEW x, NEW y, NEW r, NEW p, NEW s, NEW a,
           Between(x, r, p), Took(r, s, a), a.t # "CLOSE",
           Good(y, s, p, 0, FALSE), Sent(y), Quiet(x, y)
    PROVE  Between(y, s, p)
  <1>1. Closing(y, s, p)
    <2>1. Has(r, {"CLOSE"}) => Has(s, {"CLOSE"})
      BY TookHas
    <2> QED
      BY <2>1 DEF Between, Closing, Quiet
  <1>2. Roomy => Reopened(y)
    BY DEF Between, Reopened, Quiet
  <1> QED
    BY <1>1, <1>2 DEF Between

LEMMA BetweenLocal ==
    ASSUME NEW x, NEW y, NEW r, NEW p, Between(x, r, p),
           Good(y, r, p, 0, FALSE), Sent(y), Quiet(x, y)
    PROVE  Between(y, r, p)
  <1>1. Closing(y, r, p)
    BY DEF Between, Closing, Quiet
  <1>2. Roomy => Reopened(y)
    BY DEF Between, Reopened, Quiet
  <1> QED
    BY <1>1, <1>2 DEF Between

(* CHANNEL_EOF.                                                            *)
LEMMA GetEofGood ==
    ASSUME NEW x, NEW y, NEW r, NEW p, NEW s, NEW a,
           Between(x, r, p), Took(r, s, a), s \in Seq(Packets), a.t = "EOF",
           y = IF RCVD_EOF \in x.closes THEN x
               ELSE ssh2_channel_check_close(
                      chan_send_eof([x EXCEPT !.closes = @ \cup {RCVD_EOF}]))
    PROVE  Between(y, s, p)
  <1>0. Good(x, r, p, 0, FALSE) /\ Sent(x) /\ Incoming(x, r, p)
    BY DEF Between, Good
  <1>1. x.life = "open" /\ RCVD_EOF \notin x.closes
    <2>1. a.t \in Body
      BY DEF Body
    <2> QED
      BY <1>0, <2>1, HeadOpen
  <1>2. p.eof
    BY <1>0, TookHas DEF Incoming
  <1>3. ~Has(s, {"DATA", "EOF"})
    <2>1. ASSUME NEW i \in 1..Len(s) PROVE s[i].t \notin {"DATA", "EOF"}
      <3>1. /\ 1 \in 1..Len(r) /\ r[1].t = "EOF" /\ i + 1 \in 1..Len(r) /\ 1 < i + 1
            /\ s[i] = r[i + 1]
        BY DEF Took
      <3> QED
        BY <1>0, <3>1 DEF Incoming
    <2> QED
      BY <2>1 DEF Has
  <1>4. Good(x, s, p, 0, FALSE)
    BY <1>0, TakeSame
  <1>5. PICK z : z = chan_send_eof([x EXCEPT !.closes = @ \cup {RCVD_EOF}])
    OBVIOUS
  <1>6. /\ Good(z, s, p, 0, FALSE) /\ Keeps(x, z, Ended)
        /\ RCVD_EOF \in z.closes /\ RCVD_CLOSE \notin z.closes
    BY <1>1, <1>2, <1>3, <1>4, <1>5, TellEofGood
  <1>7. z.life = "open"
    BY <1>1, <1>6 DEF Keeps, Ended
  <1>8. y = ssh2_channel_check_close(z)
    BY <1>1, <1>5
  <1>9. Good(y, s, p, 0, FALSE) /\ Later(z, y) /\ Keeps(z, y, {"tx", "closes"})
    <2>1. PICK f : f = FALSE
      OBVIOUS
    <2>2. Good(z, s, p, 0, f) /\ z.life \in {"half", "open"}
      BY <1>6, <1>7, <2>1
    <2>3. /\ Good(y, s, p, 0, f) /\ Later(z, y)
          /\ RCVD_CLOSE \notin z.closes => Keeps(z, y, {"tx", "closes"})
      BY <1>8, <2>2, CheckCloseGood
    <2> QED
      BY <1>6, <2>1, <2>3
  <1>10. /\ z.remwindow = x.remwindow /\ z.outbuffer = x.outbuffer
         /\ z.simple = x.simple /\ z.locmaxwin = x.locmaxwin
         /\ z.locwindow = x.locwindow /\ z.backlog = x.backlog
    BY <1>6 DEF Keeps, Ended
  <1>11. /\ y.remwindow = z.remwindow /\ y.outbuffer = z.outbuffer
         /\ y.simple = z.simple /\ y.locmaxwin = z.locmaxwin
         /\ y.locwindow = z.locwindow /\ y.backlog = z.backlog
    BY <1>9 DEF Keeps
  <1>12. RCVD_EOF \in y.closes
    BY <1>6, <1>9 DEF Later
  <1>13. Sent(y)
    BY <1>0, <1>10, <1>11 DEF Sent
  <1>14. Closing(y, s, p)
    <2>1. Has(r, {"CLOSE"}) => Has(s, {"CLOSE"})
      BY TookHas
    <2>2. RCVD_CLOSE \notin x.closes
      BY <1>0, <1>1 DEF Incoming
    <2> QED
      BY <2>1, <2>2 DEF Between, Closing
  <1>15. Roomy => Reopened(y)
    BY <1>10, <1>11, <1>12 DEF Between, Reopened
  <1> QED
    BY <1>9, <1>13, <1>14, <1>15 DEF Between

(* CHANNEL_WINDOW_ADJUST.                                                  *)
LEMMA GetAdjustGood ==
    ASSUME NEW x, NEW y, NEW r, NEW p, NEW s, NEW a,
           Between(x, r, p), Took(r, s, a), s \in Seq(Packets), a.t = "ADJUST",
           y = IF SENT_EOF \in x.closes THEN x
               ELSE ssh2_try_send_and_unthrottle([x EXCEPT !.remwindow = @ + a.n])
    PROVE  Between(y, s, p)
  <1>0. Good(x, r, p, 0, FALSE) /\ Sent(x) /\ DOMAIN x = Fields
    BY GoodTold DEF Between
  <1>1. CASE SENT_EOF \in x.closes
    <2>1. y = x
      BY <1>1
    <2>2. Good(y, s, p, 0, FALSE)
      BY <1>0, <1>1, <2>1, TakeSame
    <2> QED
      BY <1>0, <2>1, <2>2, BetweenTook DEF Quiet
  <1>2. CASE SENT_EOF \notin x.closes
    <2>1. a.t \in Body /\ Answer(a) = 0 /\ Size(a, "DATA") = 0 /\ Size(a, "ADJUST") = a.n
      BY DEF Body, Replies, Answer, Size
    <2>2. x.life = "open"
      BY <1>0, <2>1, HeadOpen
    <2>3. x.remwindow \in Nat /\ a.n \in Nat /\ x.locwindow \in Nat /\ x.got \in Nat
      BY <1>0, GoodNumbers DEF Took, Packets
    <2>4. PICK n \in Nat : n = x.remwindow + a.n
      BY <2>3
    <2>5. PICK z : z = [x EXCEPT !.remwindow = n]
      OBVIOUS
    <2>6. Keeps(x, z, {"remwindow"}) /\ z.remwindow = n
      BY <1>0, <2>5 DEF Keeps, Fields
    <2>7. /\ Keeps(x, z, {"locwindow", "remlocwin", "got", "backlog", "remwindow", "req"})
          /\ z.locwindow = x.locwindow /\ z.got = x.got /\ z.backlog = x.backlog
          /\ z.remlocwin = x.remlocwin /\ z.req = x.req /\ z.chan = x.chan
          /\ z.chanreqs = x.chanreqs /\ z.life = x.life
      BY <2>6 DEF Keeps
    <2>8. z.locwindow = x.locwindow - 0 /\ z.got = x.got + 0
      BY <2>3, <2>7
    <2>9. /\ z.got \in Nat /\ z.backlog \in Nat /\ z.backlog <= z.got
          /\ z.remlocwin \in Int /\ z.req \subseteq DOMAIN Rank
      BY <1>0, <2>7 DEF Good, Typed, Incoming
    <2>10. Listed(z, 0)
      BY <1>0, <2>7, ListedSame DEF Good
    <2>11. Takes(x, z, a)
      BY <2>1, <2>4, <2>6, <2>7, <2>8, <2>9, <2>10 DEF Takes
    <2>12. PICK f : f = FALSE
      OBVIOUS
    <2>13. Good(x, r, p, 0, f)
      BY <1>0, <2>12
    <2>14. Good(z, s, p, Answer(a), f)
      BY <2>1, <2>11, <2>13, TakeGood
    <2>15. Good(z, s, p, 0, f) /\ z.life \in {"half", "open"} /\ SENT_EOF \notin z.closes
      BY <1>2, <2>1, <2>2, <2>6, <2>14 DEF Keeps
    <2>16. y = ssh2_try_send_and_unthrottle(z)
      BY <1>2, <2>4, <2>5
    <2>17. /\ Good(y, s, p, 0, f) /\ Later(z, y) /\ Sent(y)
           /\ Keeps(z, y, {"tx", "outbuffer", "remwindow", "closes", "pending_eof",
                           "throttled_by_backlog", "reading"})
      BY <2>15, <2>16, TrySendAndUnthrottleGood
    <2>18. Quiet(x, y)
      <3>1. /\ z.simple = x.simple /\ z.locmaxwin = x.locmaxwin
            /\ z.locwindow = x.locwindow /\ z.backlog = x.backlog
            /\ z.closes = x.closes /\ z.life = x.life /\ z.fixed = x.fixed
        BY <2>6 DEF Keeps
      <3>2. /\ y.simple = z.simple /\ y.locmaxwin = z.locmaxwin
            /\ y.locwindow = z.locwindow /\ y.backlog = z.backlog
            /\ y.life = z.life /\ y.fixed = z.fixed
        BY <2>17 DEF Keeps
      <3> QED
        BY <2>17, <3>1, <3>2 DEF Quiet, Later
    <2> QED
      BY <2>12, <2>17, <2>18, BetweenTook
  <1> QED
    BY <1>1, <1>2

(* CHANNEL_REQUEST: the answer.                                            *)
LEMMA GetRequestGood ==
    ASSUME NEW x, NEW y, NEW r, NEW p, NEW s, NEW a, NEW t,
           Between(x, r, p), Took(r, s, a), s \in Seq(Packets), a.t = "REQUEST",
           t \in Replies, y = IF SENT_CLOSE \in x.closes THEN x ELSE Push(x, Packet(t))
    PROVE  Between(y, s, p)
  <1>0. Good(x, r, p, 0, FALSE) /\ Sent(x) /\ DOMAIN x = Fields
    BY GoodTold DEF Between
  <1>1. Good(x, s, p, 0, FALSE)
    BY <1>0, TakeSame
  <1>2. CASE SENT_CLOSE \in x.closes
    <2>1. y = x
      BY <1>2
    <2> QED
      BY <1>0, <1>1, <2>1, BetweenTook DEF Quiet
  <1>3. CASE SENT_CLOSE \notin x.closes
    <2>1. PICK b : b = Packet(t)
      OBVIOUS
    <2>2. b \in Packets /\ b.t = t /\ b.t \in Body
      BY <2>1 DEF Packet, Packets, Body, Names
    <2>3. Size(b, "DATA") = 0 /\ Size(b, "ADJUST") = 0 /\ Want(b) = 0
      BY <2>2 DEF Size, Want, Replies
    <2>4. y = Push(x, b)
      BY <1>3, <2>1
    <2>5. Keeps(x, y, {"tx"}) /\ y.tx = Append(x.tx, b)
      BY <1>0, <2>4, PushKeeps
    <2>6. /\ y.outbuffer = x.outbuffer /\ y.remwindow = x.remwindow
          /\ y.locwindow = x.locwindow /\ y.closes = x.closes
          /\ y.pending_eof = x.pending_eof /\ y.chanreqs = x.chanreqs /\ y.req = x.req
          /\ y.simple = x.simple /\ y.locmaxwin = x.locmaxwin
          /\ y.backlog = x.backlog /\ y.life = x.life /\ y.fixed = x.fixed
      BY <2>5 DEF Keeps
    <2>7. Keeps(x, y, {"tx", "closes", "pending_eof", "outbuffer", "remwindow",
                       "locwindow", "chanreqs", "req"})
      BY <2>5 DEF Keeps
    <2>8. x.outbuffer \in Nat /\ x.remwindow \in Nat /\ x.locwindow \in Nat
      BY <1>0, GoodNumbers, Zenon
    <2>9. /\ Size(b, "DATA") <= x.outbuffer /\ Size(b, "DATA") <= x.remwindow
          /\ y.outbuffer = x.outbuffer - Size(b, "DATA")
          /\ y.remwindow = x.remwindow - Size(b, "DATA")
          /\ y.locwindow = x.locwindow + Size(b, "ADJUST")
      BY <2>3, <2>6, <2>8
    <2>10. /\ x.closes \subseteq Closes /\ (x.pending_eof => SENT_EOF \notin x.closes)
      BY <1>0 DEF Good, Typed, Outgoing
    <2>11. x.life = "open"
      <3>1. a.t \in Body
        BY DEF Body
      <3> QED
        BY <1>0, <3>1, HeadOpen
    <2>12. b.t # "DATA" /\ b.t # "EOF" /\ b.t # "CLOSE"
      BY <2>2 DEF Replies
    <2>13. PICK f : f = FALSE
      OBVIOUS
    <2>14. Sends(x, y, b, f)
      BY <1>3, <2>2, <2>5, <2>6, <2>7, <2>9, <2>10, <2>11, <2>12 DEF Sends
    <2>15. Good(y, s, p, 0, f)
      <3>1. Good(x, s, p, 0, f)
        BY <1>1, <2>13
      <3> QED
        BY <2>3, <2>6, <2>14, <3>1, SendPlain
    <2>16. Sent(y) /\ Quiet(x, y)
      BY <1>0, <2>6 DEF Sent, Quiet
    <2> QED
      BY <2>13, <2>15, <2>16, BetweenTook
  <1> QED
    BY <1>2, <1>3

(* CHANNEL_SUCCESS and CHANNEL_FAILURE.                                    *)
LEMMA ReplyExpected ==
    ASSUME NEW x, NEW r, NEW p, NEW s, NEW a,
           Between(x, r, p), Took(r, s, a), a.t \in Replies
    PROVE  /\ x.chanreqs # << >> /\ x.life = "open" /\ SENT_CLOSE \notin x.closes
           /\ RCVD_CLOSE \notin x.closes \/ "late" \in x.bugs
  <1>0. Good(x, r, p, 0, FALSE) /\ Closing(x, r, p)
    BY DEF Between
  <1>1. /\ x.life = "open"
        /\ RCVD_CLOSE \in x.closes => "late" \in x.bugs
    <2>1. a.t \in Body
      BY DEF Body
    <2> QED
      BY <1>0, <2>1, HeadOpen
  <1>2. ~p.close \/ Has(r, {"CLOSE"}) \/ "late" \in x.bugs
    BY <1>0, <1>1 DEF Closing
  <1>3. x.chanreqs \in Seq(Requests) /\ s \in Seq(Packets)
    BY <1>0 DEF Good, Typed, Took
  <1>4. Answers(r) = 1 + Answers(s) /\ Answers(s) \in Nat /\ Wanted(x.tx) \in Nat
    <2>1. Answer(a) = 1
      BY DEF Answer
    <2>2. Answers(r) = Answer(a) + Answers(s)
      BY TakeCounts
    <2>3. Answers(s) \in Nat
      BY <1>3, CountsNat
    <2>4. Wanted(x.tx) \in Nat
      BY <1>0, GoodNumbers, Zenon
    <2> QED
      BY <2>1, <2>2, <2>3, <2>4
  <1>5. PICK l \in Nat : l = Len(x.chanreqs)
    BY <1>3
  <1>6. Answers(r) + Wanted(x.tx) + 0 <= l
    <2>1. Answers(r) + Wanted(x.tx) + 0 <= Len(x.chanreqs)
      BY <1>0, <1>2 DEF Good, Awaited
    <2> QED
      BY <1>5, <2>1, Zenon
  <1>7. l # 0
    BY <1>4, <1>6
  <1>8. x.chanreqs # << >>
    BY <1>3, <1>5, <1>7
  <1>9. SENT_CLOSE \notin x.closes
    BY <1>0, <1>8 DEF Good, Outgoing
  <1> QED
    BY <1>1, <1>8, <1>9

LEMMA GetReplyGood ==
    ASSUME NEW x, NEW y, NEW r, NEW p, NEW s, NEW a, NEW success \in BOOLEAN, NEW v,
           Between(x, r, p), Took(r, s, a), s \in Seq(Packets), a.t \in Replies,
           v = RunHandler(x, Head(x.chanreqs), success),
           y = ssh2_channel_check_close([v EXCEPT !.chanreqs = Tail(@)])
    PROVE  Between(y, s, p)
  <1>0. /\ Good(x, r, p, 0, FALSE) /\ Sent(x) /\ DOMAIN x = Fields /\ Typed(x)
        /\ Listed(x, 0) /\ x.chanreqs \in Seq(Requests) /\ x.req \subseteq DOMAIN Rank
    BY DEF Between, Good, Typed
  <1>1. /\ x.chanreqs # << >> /\ x.life = "open" /\ SENT_CLOSE \notin x.closes
        /\ RCVD_CLOSE \notin x.closes \/ "late" \in x.bugs
    BY ReplyExpected
  <1>2. PICK h : h = Head(x.chanreqs)
    OBVIOUS
  <1>3. PICK z : z = [x EXCEPT !.req = IF h.h = "ssh2_channel_response"
                                       THEN x.req \ {h.r} ELSE x.req]
    OBVIOUS
  <1>4. Keeps(x, z, {"req"}) /\ z.req = IF h.h = "ssh2_channel_response"
                                        THEN x.req \ {h.r} ELSE x.req
    BY <1>0, <1>3 DEF Keeps, Fields
  <1>5. Replied(x, z, h)
    BY <1>1, <1>2, <1>4 DEF Replied
  <1>6. Listed(z, 1) /\ z.req \subseteq DOMAIN Rank
    <2>1. Listed(z, 1)
      BY <1>0, <1>5, RepliedListed
    <2> QED
      BY <1>0, <1>4, <2>1
  <1>7. /\ a.t \in Body /\ Answer(a) = 1 /\ Size(a, "DATA") = 0 /\ Size(a, "ADJUST") = 0
    BY DEF Body, Replies, Answer, Size
  <1>8. /\ z.locwindow = x.locwindow /\ z.got = x.got /\ z.backlog = x.backlog
        /\ z.remlocwin = x.remlocwin /\ z.chan = x.chan /\ z.remwindow = x.remwindow
    BY <1>4 DEF Keeps
  <1>9. z.locwindow = x.locwindow - 0 /\ z.got = x.got + 0 /\ z.remwindow = x.remwindow + 0
    <2>1. x.locwindow \in Nat /\ x.got \in Nat /\ x.remwindow \in Nat
      BY <1>0, GoodNumbers, Zenon
    <2> QED
      BY <1>8, <2>1
  <1>10. /\ z.got \in Nat /\ z.backlog \in Nat /\ z.backlog <= z.got
         /\ z.remlocwin \in Int /\ z.remwindow \in Nat
    BY <1>0, <1>8 DEF Good, Typed, Incoming
  <1>11. Keeps(x, z, {"locwindow", "remlocwin", "got", "backlog", "remwindow", "req"})
    BY <1>4 DEF Keeps
  <1>12. Takes(x, z, a)
    BY <1>6, <1>7, <1>9, <1>10, <1>11 DEF Takes
  <1>13. Good(z, s, p, 1, FALSE)
    <2>1. Good(z, s, p, Answer(a), FALSE)
      BY <1>0, <1>7, <1>12, TakeGood
    <2> QED
      BY <1>7, <2>1
  <1>14. Good(v, s, p, 1, FALSE) /\ Later(x, v) /\ Keeps(x, v, Answered)
    <2>1. v = RunHandler(x, h, success)
      BY <1>2
    <2> QED
      BY <1>0, <1>1, <1>5, <1>13, <2>1, RunHandlerGood
  <1>15. PICK u : u = [v EXCEPT !.chanreqs = Tail(@)]
    OBVIOUS
  <1>16. PICK f : f = FALSE
    OBVIOUS
  <1>17. Good(u, s, p, 0, f) /\ Keeps(v, u, {"chanreqs"})
    <2>1. Good(v, s, p, 1, f)
      BY <1>14, <1>16
    <2> QED
      BY <1>15, <2>1, TailGood
  <1>18. /\ v.life = x.life /\ v.remwindow = x.remwindow /\ v.outbuffer = x.outbuffer
         /\ v.simple = x.simple /\ v.locmaxwin = x.locmaxwin
         /\ v.locwindow = x.locwindow /\ v.backlog = x.backlog /\ v.fixed = x.fixed
    BY <1>14 DEF Keeps, Answered, Confirmed, Readied
  <1>19. /\ u.life = v.life /\ u.remwindow = v.remwindow /\ u.outbuffer = v.outbuffer
         /\ u.simple = v.simple /\ u.locmaxwin = v.locmaxwin /\ u.closes = v.closes
         /\ u.locwindow = v.locwindow /\ u.backlog = v.backlog /\ u.fixed = v.fixed
    BY <1>17 DEF Keeps
  <1>20. y = ssh2_channel_check_close(u) /\ u.life \in {"half", "open"}
    BY <1>1, <1>15, <1>18, <1>19
  <1>21. /\ Good(y, s, p, 0, f) /\ Later(u, y)
         /\ Keeps(u, y, {"tx", "closes", "life", "chan", "fixed"})
         /\ RCVD_CLOSE \notin u.closes => Keeps(u, y, {"tx", "closes"})
    BY <1>17, <1>20, CheckCloseGood
  <1>22. /\ y.remwindow = u.remwindow /\ y.outbuffer = u.outbuffer
         /\ y.simple = u.simple /\ y.locmaxwin = u.locmaxwin
         /\ y.locwindow = u.locwindow /\ y.backlog = u.backlog
    BY <1>21 DEF Keeps
  <1>23. RCVD_CLOSE \notin u.closes => y.fixed = u.fixed
    BY <1>21 DEF Keeps
  <1>24. RCVD_CLOSE \in u.closes => RCVD_EOF \in y.closes
    BY <1>17, <1>21 DEF Good, Incoming, Later
  <1>25. Sent(y)
    BY <1>0, <1>18, <1>19, <1>22 DEF Sent
  <1>26. Quiet(x, y)
    BY <1>1, <1>14, <1>18, <1>19, <1>21, <1>22, <1>23, <1>24 DEF Quiet, Later
  <1>27. a.t # "CLOSE"
    BY DEF Replies
  <1> QED
    BY <1>16, <1>21, <1>25, <1>26, <1>27, BetweenTook

(* The X client is told that there is no connection for it.                *)
Refusal == {"tx", "outbuffer", "remwindow", "closes", "pending_eof", "written"}

LEMMA InitErrorGood ==
    ASSUME NEW x, NEW y, NEW r, NEW p, NEW w, NEW e,
           Good(x, r, p, w, e), x.life = "open", x.chan # "zombie",
           SENT_EOF \notin x.closes, y = x11_send_init_error(x)
    PROVE  Good(y, r, p, w, TRUE) /\ Later(x, y) /\ Sent(y) /\ Keeps(x, y, Refusal)
  <1>1. PICK n \in Nat : n = 1
    OBVIOUS
  <1>2. PICK z : z = ssh2channel_write(x, n)
    OBVIOUS
  <1>3. /\ Good(z, r, p, w, e) /\ Later(x, z) /\ Sent(z)
        /\ Keeps(x, z, Refusal)
    BY <1>2, WriteGood DEF Refusal
  <1>4. z.life = "open" /\ z.chan # "zombie"
    BY <1>3 DEF Keeps, Refusal
  <1>5. y = ssh2channel_write_eof(z)
    BY <1>1, <1>2 DEF x11_send_init_error
  <1>6. /\ Good(y, r, p, w, TRUE) /\ Later(z, y)
        /\ Keeps(z, y, {"tx", "closes", "pending_eof"})
    BY <1>3, <1>4, <1>5, WriteEofGood
  <1>7. Keeps(x, y, Refusal)
    BY <1>3, <1>6 DEF Keeps, Refusal
  <1>8. Sent(y)
    BY <1>3, <1>6 DEF Sent, Keeps
  <1>9. Later(x, y)
    BY <1>3, <1>6 DEF Later
  <1> QED
    BY <1>6, <1>7, <1>8, <1>9

(* The window is no longer fixed.                                          *)
LEMMA OverrideGood ==
    ASSUME NEW x, NEW y, NEW r, NEW p, NEW w, NEW e,
           Good(x, r, p, w, e), x.life = "open",
           y = ssh2channel_window_override_removed(x)
    PROVE  /\ Good(y, r, p, w, e) /\ Keeps(x, y, Window \cup {"fixed"})
           /\ y.fixed = FALSE
  <1>1. Told(x) /\ DOMAIN x = Fields
    BY GoodTold
  <1>2. PICK z : z = [x EXCEPT !.fixed = FALSE]
    OBVIOUS
  <1>3. Keeps(x, z, {"fixed"}) /\ z.fixed = FALSE
    BY <1>1, <1>2 DEF Keeps, Fields
  <1>4. Keeps(x, z, Story)
    BY <1>3 DEF Keeps, Story
  <1>5. Told(z)
    BY <1>1, <1>3 DEF Told, Keeps
  <1>6. Good(z, r, p, w, e) /\ z.life = "open"
    BY <1>3, <1>4, <1>5, StoryGood DEF Keeps
  <1>7. y = ssh2_set_window(z, OUR_V2_WINSIZE) /\ OUR_V2_WINSIZE \in Nat
    BY <1>2, BoundsAssumption DEF ssh2channel_window_override_removed
  <1>8. Good(y, r, p, w, e) /\ Keeps(z, y, Window)
    BY <1>6, <1>7, SetWindowGood
  <1> QED
    BY <1>3, <1>8 DEF Keeps, Window

(* What the X connection makes of the greeting, whole or not, that came.   *)
Greeted == Window \cup Refusal \cup {"fixed", "x11", "reading"}

LEMMA X11SetGood ==
    ASSUME NEW x, NEW y, NEW r, NEW p, NEW w, NEW e, NEW o,
           Good(x, r, p, w, e), x.life = "open", x.chan = "x11",
           Keeps(x, y, {"x11", "reading"}), y.x11 = o,
           \/ o = "refused" /\ ~Has(r, {"DATA"})
           \/ o = "unreachable" /\ ~Has(r, {"DATA"}) /\ ~x.fixed
           \/ o = "connected" /\ ~x.fixed /\ SENT_EOF \notin x.closes /\ ~x.pending_eof
    PROVE  Good(y, r, p, w, FALSE)
  <1>0. Typed(x) /\ Incoming(x, r, p) /\ Knows(x, r, e)
    BY DEF Good
  <1>1. Keeps(x, y, {"throttled_by_backlog", "all_throttled", "eof_pending", "got_pty",
                     "lost", "specials", "remlocwin", "locmaxwin", "throttle_state",
                     "throttling_conn", "throttle_count", "reading", "ready", "eof_sent",
                     "x11", "fixed", "fault", "backlog"})
    BY DEF Keeps
  <1>2. /\ y.remlocwin = x.remlocwin /\ y.locmaxwin = x.locmaxwin
        /\ y.throttle_state = x.throttle_state
        /\ y.throttling_conn = x.throttling_conn /\ y.throttle_count = x.throttle_count
        /\ y.fixed = x.fixed /\ y.fault = x.fault
        /\ y.backlog = x.backlog /\ y.ready = x.ready
        /\ y.chan = x.chan /\ y.bugs = x.bugs /\ y.closes = x.closes
        /\ y.pending_eof = x.pending_eof
    BY DEF Keeps
  <1>3. x.backlog <= x.backlog
    <2>1. x.backlog \in Nat
      BY <1>0 DEF Typed
    <2> QED
      BY <2>1
  <1>4. Sets(x, y)
    BY <1>0, <1>1, <1>2, <1>3 DEF Sets, Typed, Outcomes
  <1>5. Knows(y, r, FALSE)
    BY <1>0, <1>2 DEF Knows
  <1>6. PICK f : f = FALSE
    OBVIOUS
  <1>7. Good(y, r, p, w, f)
    BY <1>4, <1>5, <1>6, SetGood
  <1> QED
    BY <1>6, <1>7

LEMMA X11SendGood ==
    ASSUME NEW x, NEW y, NEW r, NEW p, NEW w, NEW outcome \in Outcomes,
           Good(x, r, p, w, FALSE), Sent(x), x.life = "open", x.chan = "x11",
           x.x11 = "greeting", SENT_EOF \notin x.closes, ~x.pending_eof,
           outcome \in {"refused", "unreachable"} => ~Has(r, {"DATA"}),
           y = x11_send(x, outcome)
    PROVE  Good(y, r, p, w, FALSE) /\ Sent(y) /\ Later(x, y) /\ Keeps(x, y, Greeted)
  <1>0. DOMAIN x = Fields
    BY GoodTold
  <1>1. PICK v : v = ssh2channel_window_override_removed(x)
    OBVIOUS
  <1>2. PICK f : f = FALSE
    OBVIOUS
  <1>3. Good(x, r, p, w, f)
    BY <1>2
  <1>4. /\ Good(v, r, p, w, f) /\ Keeps(x, v, Window \cup {"fixed"})
        /\ v.fixed = FALSE
    BY <1>1, <1>3, OverrideGood
  <1>5. /\ v.life = "open" /\ v.chan = "x11" /\ v.closes = x.closes
        /\ v.pending_eof = x.pending_eof /\ DOMAIN v = Fields
        /\ v.remwindow = x.remwindow /\ v.outbuffer = x.outbuffer
    BY <1>4 DEF Keeps, Window
  <1>6. CASE outcome = "greeting"
    <2>1. y = x
      BY <1>6 DEF x11_send
    <2> QED
      BY <1>0, <2>1 DEF Keeps, Later
  <1>7. ASSUME NEW u, NEW z, Good(u, r, p, w, f), u.life = "open", u.chan = "x11",
               u.closes = x.closes, ~u.pending_eof, Keeps(x, u, Window \cup {"fixed"}),
               z = x11_send_init_error(u), y = [z EXCEPT !.x11 = outcome],
               outcome = "refused" \/ (outcome = "unreachable" /\ ~u.fixed)
        PROVE  Good(y, r, p, w, FALSE) /\ Sent(y) /\ Later(x, y) /\ Keeps(x, y, Greeted)
    <2>1. Good(z, r, p, w, TRUE) /\ Later(u, z) /\ Sent(z) /\ Keeps(u, z, Refusal)
      BY <1>7, InitErrorGood
    <2>2. /\ z.life = "open" /\ z.chan = "x11" /\ z.fixed = u.fixed
          /\ DOMAIN z = Fields
      BY <1>7, <2>1 DEF Keeps, Refusal
    <2>3. Keeps(z, y, {"x11"}) /\ y.x11 = outcome
      BY <1>7, <2>2 DEF Keeps, Fields
    <2>4. Keeps(z, y, {"x11", "reading"})
      BY <2>3 DEF Keeps
    <2>5. Good(y, r, p, w, FALSE)
      BY <1>7, <2>1, <2>2, <2>3, <2>4, X11SetGood
    <2>6. Sent(y) /\ Later(x, y)
      <3>1. y.remwindow = z.remwindow /\ y.outbuffer = z.outbuffer /\ y.closes = z.closes
        BY <2>3 DEF Keeps
      <3> QED
        BY <1>7, <2>1, <3>1 DEF Sent, Later
    <2>7. Keeps(x, y, Greeted)
      <3>1. Keeps(x, u, Greeted)
        BY <1>7 DEF Keeps, Window, Refusal, Greeted
      <3>2. Keeps(u, z, Greeted)
        BY <2>1 DEF Keeps, Window, Refusal, Greeted
      <3>3. Keeps(z, y, Greeted)
        BY <2>3 DEF Keeps, Window, Refusal, Greeted
      <3> QED
        BY <3>1, <3>2, <3>3 DEF Keeps
    <2> QED
      BY <2>5, <2>6, <2>7
  <1>8. CASE outcome = "refused"
    <2>1. y = [x11_send_init_error(x) EXCEPT !.x11 = outcome]
      BY <1>8 DEF x11_send
    <2>2. Keeps(x, x, Window \cup {"fixed"})
      BY <1>0 DEF Keeps
    <2> QED
      BY <1>3, <1>7, <1>8, <2>1, <2>2
  <1>9. CASE outcome = "unreachable"
    <2>1. y = [x11_send_init_error(v) EXCEPT !.x11 = outcome]
      BY <1>1, <1>9 DEF x11_send
    <2> QED
      BY <1>4, <1>5, <1>7, <1>9, <2>1
  <1>10. CASE outcome = "connected"
    <2>1. y = [v EXCEPT !.x11 = outcome, !.reading = TRUE]
      BY <1>1, <1>10 DEF x11_send
    <2>2. Keeps(v, y, {"x11", "reading"}) /\ y.x11 = outcome
      BY <1>5, <2>1 DEF Keeps, Fields
    <2>3. Good(y, r, p, w, FALSE)
      BY <1>4, <1>5, <1>10, <2>2, X11SetGood
    <2>4. /\ y.remwindow = x.remwindow /\ y.outbuffer = x.outbuffer
          /\ y.closes = x.closes
      BY <1>5, <2>2 DEF Keeps
    <2>5. Keeps(x, y, Greeted)
      BY <1>4, <2>2 DEF Keeps, Window, Refusal, Greeted
    <2> QED
      BY <2>3, <2>4, <2>5 DEF Sent, Later
  <1> QED
    BY <1>6, <1>8, <1>9, <1>10 DEF Outcomes

(* The local end takes data.                                               *)
Receives(x, y, n, bufsize) ==
    \/ /\ x.chan = "zombie"
       /\ y = [x EXCEPT !.locwindow = @ - n, !.remlocwin = @ - n]
    \/ /\ x.chan # "zombie"
       /\ y = [x EXCEPT !.locwindow = @ - n, !.remlocwin = @ - n,
                        !.got = @ + n, !.backlog = bufsize]

LEMMA TakeDataGood ==
    ASSUME NEW x, NEW y, NEW r, NEW p, NEW s, NEW a, NEW n \in Nat, NEW bufsize \in Nat,
           Good(x, r, p, 0, FALSE), Took(r, s, a), s \in Seq(Packets),
           a.t = "DATA", n = a.n, bufsize <= x.backlog + n,
           Receives(x, y, n, bufsize)
    PROVE  /\ Good(y, s, p, 0, FALSE)
           /\ Keeps(x, y, {"locwindow", "remlocwin", "got", "backlog"})
           /\ y.backlog = IF x.chan = "zombie" THEN x.backlog ELSE bufsize
  <1>0. DOMAIN x = Fields /\ Typed(x) /\ Incoming(x, r, p) /\ Listed(x, 0)
    BY DEF Good, Typed
  <1>1. a.t \in Body /\ Answer(a) = 0 /\ Size(a, "DATA") = n /\ Size(a, "ADJUST") = 0
    BY DEF Body, Replies, Answer, Size
  <1>2. /\ Keeps(x, y, {"locwindow", "remlocwin", "got", "backlog"})
        /\ y.locwindow = x.locwindow - n /\ y.remlocwin = x.remlocwin - n
        /\ \/ x.chan = "zombie" /\ y.got = x.got /\ y.backlog = x.backlog
           \/ x.chan # "zombie" /\ y.got = x.got + n /\ y.backlog = bufsize
    <2>1. CASE x.chan = "zombie"
      <3>1. y = [x EXCEPT !.locwindow = @ - n, !.remlocwin = @ - n]
        BY <2>1 DEF Receives
      <3> QED
        BY <1>0, <2>1, <3>1 DEF Keeps, Fields
    <2>2. CASE x.chan # "zombie"
      <3>1. y = [x EXCEPT !.locwindow = @ - n, !.remlocwin = @ - n,
                          !.got = @ + n, !.backlog = bufsize]
        BY <2>2 DEF Receives
      <3> QED
        BY <1>0, <2>2, <3>1 DEF Keeps, Fields
    <2> QED
      BY <2>1, <2>2
  <1>3. Keeps(x, y, {"locwindow", "remlocwin", "got", "backlog", "remwindow", "req"})
    BY <1>2 DEF Keeps
  <1>4. /\ y.remwindow = x.remwindow /\ y.chan = x.chan /\ y.req = x.req
        /\ y.chanreqs = x.chanreqs /\ y.life = x.life
    BY <1>2 DEF Keeps
  <1>5. /\ x.remwindow \in Nat /\ x.got \in Nat /\ x.backlog \in Nat
        /\ x.remlocwin \in Int /\ x.backlog <= x.got /\ x.req \subseteq DOMAIN Rank
    BY <1>0 DEF Typed, Incoming
  <1>6. /\ y.got \in Nat /\ y.backlog \in Nat /\ y.backlog <= y.got
        /\ y.remlocwin \in Int
    <2>1. y.remlocwin \in Int
      BY <1>2, <1>5
    <2>2. CASE y.got = x.got /\ y.backlog = x.backlog
      BY <1>5, <2>1, <2>2
    <2>3. CASE y.got = x.got + n /\ y.backlog = bufsize
      <3>1. PICK g \in Nat, b \in Nat : g = x.got /\ b = x.backlog
        BY <1>5
      <3>2. b <= g /\ bufsize <= b + n
        BY <1>5, <3>1
      <3>3. g + n \in Nat /\ bufsize <= g + n
        BY <3>2
      <3> QED
        BY <2>1, <2>3, <3>1, <3>3
    <2> QED
      BY <1>2, <2>2, <2>3
  <1>7. y.remwindow \in Nat /\ y.remwindow = x.remwindow + 0
    BY <1>4, <1>5
  <1>8. Listed(y, 0)
    BY <1>0, <1>4, ListedSame
  <1>9. Takes(x, y, a)
    BY <1>1, <1>2, <1>3, <1>4, <1>5, <1>6, <1>7, <1>8 DEF Takes
  <1>10. PICK f : f = FALSE
    OBVIOUS
  <1>11. Good(x, r, p, 0, f)
    BY <1>10
  <1>12. Good(y, s, p, Answer(a), f)
    BY <1>1, <1>9, <1>11, TakeGood
  <1> QED
    BY <1>1, <1>2, <1>10, <1>12

(* What has been buffered counts for the window and the throttling.        *)
LEMMA GrowGood ==
    ASSUME NEW x, NEW y, NEW r, NEW p, NEW w, NEW e,
           Good(x, r, p, w, e), x.life = "open",
           y = [x EXCEPT !.locmaxwin = @ + OUR_V2_WINSIZE] \/ y = x
    PROVE  /\ Good(y, r, p, w, e) /\ Keeps(x, y, {"locmaxwin"})
           /\ y.locmaxwin \in Nat /\ y.locmaxwin >= x.locmaxwin
  <1>1. Told(x) /\ DOMAIN x = Fields
    BY GoodTold
  <1>2. Keeps(x, y, {"locmaxwin"}) /\ (y.locmaxwin = x.locmaxwin + OUR_V2_WINSIZE \/ y.locmaxwin = x.locmaxwin)
    <2>1. CASE y = x
      BY <1>1, <2>1 DEF Keeps
    <2>2. CASE y = [x EXCEPT !.locmaxwin = @ + OUR_V2_WINSIZE]
      BY <1>1, <2>2 DEF Keeps, Fields
    <2> QED
      BY <2>1, <2>2
  <1>3. x.locmaxwin \in Nat \ {0} /\ OUR_V2_WINSIZE \in Nat
    BY <1>1, BoundsAssumption DEF Told
  <1>4. y.locmaxwin \in Nat \ {0} /\ y.locmaxwin >= x.locmaxwin
    BY <1>2, <1>3
  <1>5. Keeps(x, y, Story)
    BY <1>2 DEF Keeps, Story
  <1>6. Told(y) /\ y.fixed = x.fixed
    BY <1>1, <1>2, <1>4 DEF Told, Keeps
  <1> QED
    BY <1>2, <1>4, <1>5, <1>6, StoryGood

Buffered(x, x2, x3, y, bufsize) ==
    /\ x2 = [x EXCEPT !.locmaxwin = @ + OUR_V2_WINSIZE] \/ x2 = x
    /\ x3 = IF bufsize < x2.locmaxwin
            THEN ssh2_set_window(x2, x2.locmaxwin - bufsize) ELSE x2
    /\ y = IF /\ bufsize > x3.locmaxwin \/ (x3.simple /\ bufsize > 0)
              /\ ~x3.throttling_conn
           THEN ssh_throttle_conn(x3, 1)
           ELSE x3

LEMMA BufferedGood ==
    ASSUME NEW x, NEW x2, NEW x3, NEW y, NEW r, NEW p, NEW w, NEW e, NEW bufsize \in Nat,
           Good(x, r, p, w, e), x.life = "open", Buffered(x, x2, x3, y, bufsize)
    PROVE  /\ Good(y, r, p, w, e)
           /\ Keeps(x, y, Unthrottled \cup {"locmaxwin"})
           /\ y.locmaxwin >= x.locmaxwin
           /\ ~x.fixed /\ {RCVD_EOF, SENT_CLOSE} \cap x.closes = {}
              => y.locwindow > 0 \/ bufsize >= y.locmaxwin
  <1>0. /\ x2 = [x EXCEPT !.locmaxwin = @ + OUR_V2_WINSIZE] \/ x2 = x
        /\ x3 = IF bufsize < x2.locmaxwin
                THEN ssh2_set_window(x2, x2.locmaxwin - bufsize) ELSE x2
        /\ (y = ssh_throttle_conn(x3, 1) /\ ~x3.throttling_conn) \/ y = x3
    BY DEF Buffered
  <1>1. /\ Good(x2, r, p, w, e) /\ Keeps(x, x2, {"locmaxwin"})
        /\ x2.locmaxwin \in Nat /\ x2.locmaxwin >= x.locmaxwin
    BY <1>0, GrowGood
  <1>2. /\ x2.life = "open" /\ x2.fixed = x.fixed /\ x2.closes = x.closes
        /\ DOMAIN x2 = Fields
    BY <1>1 DEF Keeps
  <1>3. /\ Good(x3, r, p, w, e) /\ Keeps(x2, x3, Window)
        /\ ~x.fixed /\ {RCVD_EOF, SENT_CLOSE} \cap x.closes = {}
           => x3.locwindow > 0 \/ bufsize >= x2.locmaxwin
    <2>1. CASE bufsize < x2.locmaxwin
      <3>1. PICK n \in Nat : n = x2.locmaxwin - bufsize /\ n > 0
        BY <1>1, <2>1
      <3>2. x3 = ssh2_set_window(x2, n)
        BY <1>0, <2>1, <3>1
      <3> QED
        BY <1>1, <1>2, <3>1, <3>2, SetWindowGood
    <2>2. CASE ~(bufsize < x2.locmaxwin)
      <3>1. x3 = x2 /\ bufsize >= x2.locmaxwin
        BY <1>0, <1>1, <2>2
      <3> QED
        BY <1>1, <1>2, <3>1 DEF Keeps
    <2> QED
      BY <2>1, <2>2
  <1>4. /\ x3.life = "open" /\ x3.locmaxwin = x2.locmaxwin /\ DOMAIN x3 = Fields
    BY <1>2, <1>3 DEF Keeps, Window
  <1>5. Good(y, r, p, w, e) /\ Keeps(x3, y, {"throttling_conn", "throttle_count"})
    <2>1. CASE y = ssh_throttle_conn(x3, 1) /\ ~x3.throttling_conn
      BY <1>3, <1>4, <2>1, ThrottleGood
    <2>2. CASE y = x3
      BY <1>3, <1>4, <2>2 DEF Keeps
    <2> QED
      BY <1>0, <2>1, <2>2
  <1>6. y.locmaxwin = x2.locmaxwin /\ y.locwindow = x3.locwindow
    BY <1>4, <1>5 DEF Keeps
  <1>7. Keeps(x, y, Unthrottled \cup {"locmaxwin"})
    <2>1. Keeps(x, x2, Unthrottled \cup {"locmaxwin"})
      BY <1>1 DEF Keeps
    <2>2. Keeps(x2, x3, Unthrottled \cup {"locmaxwin"})
      BY <1>3 DEF Keeps, Window, Unthrottled
    <2>3. Keeps(x3, y, Unthrottled \cup {"locmaxwin"})
      BY <1>5 DEF Keeps, Window, Unthrottled
    <2> QED
      BY <2>1, <2>2, <2>3 DEF Keeps
  <1> QED
    BY <1>1, <1>3, <1>5, <1>6, <1>7

(* What the local end may do with n bytes, and what then is left of them.  *)
Handed(x, x1, s, n, bufsize, outcome) ==
    /\ IF x.chan = "zombie" \/ outcome # "connected" THEN bufsize = 0
       ELSE IF x.backlog > 0 THEN bufsize = x.backlog + n
       ELSE bufsize <= n
    /\ x.x11 = "connected" => outcome = "connected"
    /\ outcome \in {"refused", "unreachable"} => ~Has(s, {"DATA"})
    /\ x1 = chan_send([x EXCEPT !.locwindow = @ - n, !.remlocwin = @ - n],
                      n, bufsize, outcome)

(* CHANNEL_DATA.                                                           *)
LEMMA GetDataGood ==
    ASSUME NEW x, NEW x1, NEW x2, NEW x3, NEW y, NEW r, NEW p, NEW s, NEW a,
           NEW n \in Nat, NEW bufsize \in Nat, NEW outcome \in Outcomes,
           Between(x, r, p), Took(r, s, a), s \in Seq(Packets), a.t = "DATA", n = a.n,
           Handed(x, x1, s, n, bufsize, outcome), Buffered(x1, x2, x3, y, bufsize)
    PROVE  Between(y, s, p)
  <1>0. /\ Good(x, r, p, 0, FALSE) /\ Sent(x) /\ Closing(x, r, p) /\ DOMAIN x = Fields
        /\ Typed(x) /\ Knows(x, r, FALSE)
    BY GoodTold DEF Between, Good
  <1>1. x.life = "open" /\ RCVD_EOF \notin x.closes /\ Has(r, {"DATA"})
    <2>1. a.t \in Body
      BY DEF Body
    <2>2. Has(r, {"DATA"})
      BY TookHas
    <2> QED
      BY <1>0, <2>1, <2>2, HeadOpen
  <1>2. bufsize <= x.backlog + n
    <2>1. x.backlog \in Nat
      BY <1>0 DEF Typed
    <2> QED
      BY <2>1 DEF Handed
  <1>3. PICK v : v = [x EXCEPT !.locwindow = @ - n, !.remlocwin = @ - n]
    OBVIOUS
  <1>4. x1 = chan_send(v, n, bufsize, outcome)
    BY <1>3 DEF Handed
  <1>5. v.chan = x.chan /\ v.x11 = x.x11
    BY <1>0, <1>3 DEF Fields
  <1>6. PICK t : t = IF x.chan = "zombie" THEN v
                     ELSE [v EXCEPT !.got = @ + n, !.backlog = bufsize]
    OBVIOUS
  <1>7. /\ Good(t, s, p, 0, FALSE)
        /\ Keeps(x, t, {"locwindow", "remlocwin", "got", "backlog"})
        /\ t.backlog = IF x.chan = "zombie" THEN x.backlog ELSE bufsize
    <2>1. Receives(x, t, n, bufsize)
      <3>1. CASE x.chan = "zombie"
        BY <1>3, <1>6, <3>1 DEF Receives
      <3>2. CASE x.chan # "zombie"
        <4>1. t = [v EXCEPT !.got = @ + n, !.backlog = bufsize]
          BY <1>6, <3>2
        <4> QED
          BY <1>0, <1>3, <3>2, <4>1 DEF Fields, Receives
      <3> QED
        BY <3>1, <3>2
    <2> QED
      BY <1>0, <1>2, <2>1, TakeDataGood
  <1>8. /\ t.life = "open" /\ t.chan = x.chan /\ t.x11 = x.x11 /\ t.closes = x.closes
        /\ t.pending_eof = x.pending_eof /\ t.remwindow = x.remwindow
        /\ t.outbuffer = x.outbuffer /\ t.fixed = x.fixed /\ t.simple = x.simple
        /\ t.locmaxwin = x.locmaxwin /\ DOMAIN t = Fields
    BY <1>1, <1>7 DEF Keeps
  <1>9. Sent(t)
    BY <1>0, <1>8 DEF Sent
  <1>10. /\ Good(x1, s, p, 0, FALSE) /\ Sent(x1) /\ Later(t, x1) /\ Keeps(t, x1, Greeted)
         /\ x.chan # "zombie" \/ x1 = t
    <2>1. CASE x.chan = "zombie" \/ x.x11 = "connected"
      <3>1. x1 = t
        BY <1>4, <1>5, <1>6, <2>1 DEF chan_send
      <3> QED
        BY <1>7, <1>8, <1>9, <3>1 DEF Keeps, Later
    <2>2. CASE x.chan # "zombie" /\ x.x11 # "connected"
      <3>1. x1 = x11_send(t, outcome)
        BY <1>4, <1>5, <1>6, <2>2 DEF chan_send
      <3>2. x.chan = "x11" /\ x.x11 = "greeting"
        <4>1. x.chan \in {"main", "fwd", "x11", "zombie"} /\ x.x11 \in Outcomes
          BY <1>0, BoundsAssumption DEF Typed
        <4> QED
          BY <1>0, <1>1, <2>2, <4>1 DEF Knows, Outcomes
      <3>3. SENT_EOF \notin x.closes /\ ~x.pending_eof
        BY <1>0, <1>1, <3>2 DEF Knows
      <3> QED
        BY <1>7, <1>8, <1>9, <2>2, <3>1, <3>2, <3>3, X11SendGood DEF Handed
    <2> QED
      BY <2>1, <2>2
  <1>11. /\ x1.life = "open" /\ x1.simple = x.simple /\ x1.locmaxwin = x.locmaxwin
         /\ x1.backlog = t.backlog
    BY <1>8, <1>10 DEF Keeps, Greeted, Window, Refusal
  <1>13. PICK f : f = FALSE
    OBVIOUS
  <1>14. Good(x1, s, p, 0, f)
    BY <1>10, <1>13
  <1>15. /\ Good(y, s, p, 0, f)
         /\ Keeps(x1, y, Unthrottled \cup {"locmaxwin"})
         /\ y.locmaxwin >= x1.locmaxwin
         /\ ~x1.fixed /\ {RCVD_EOF, SENT_CLOSE} \cap x1.closes = {}
            => y.locwindow > 0 \/ bufsize >= y.locmaxwin
    BY <1>11, <1>14, BufferedGood
  <1>16. /\ y.remwindow = x1.remwindow /\ y.outbuffer = x1.outbuffer
         /\ y.closes = x1.closes /\ y.simple = x1.simple /\ y.backlog = x1.backlog
         /\ y.fixed = x1.fixed /\ y.life = x1.life
    BY <1>15 DEF Keeps, Unthrottled, Window
  <1>17. Sent(y)
    BY <1>10, <1>16 DEF Sent
  <1>18. Closing(y, s, p)
    <2>1. Has(r, {"CLOSE"}) => Has(s, {"CLOSE"})
      BY TookHas
    <2>2. RCVD_CLOSE \notin x.closes
      BY <1>0, <1>1 DEF Good, Incoming
    <2> QED
      BY <1>0, <2>1, <2>2 DEF Closing
  <1>19. Roomy => Reopened(y)
    <2>1. SUFFICES ASSUME Roomy PROVE Reopened(y)
      OBVIOUS
    <2>2. PICK m \in Nat, k \in Nat, b \in Nat, g \in Nat, h \in Nat :
             /\ m = y.locmaxwin /\ k = x.locmaxwin /\ b = OUR_V2_BIGWIN
             /\ g = y.backlog /\ h = y.locwindow
      <3>1. y.locmaxwin \in Nat /\ y.backlog \in Nat /\ y.locwindow \in Nat
        BY <1>15 DEF Good, Typed
      <3>2. x.locmaxwin \in Nat /\ OUR_V2_BIGWIN \in Nat
        BY <1>0, BoundsAssumption DEF Typed
      <3> QED
        BY <3>1, <3>2
    <2>3. y.simple => y.locmaxwin >= OUR_V2_BIGWIN
      <3>1. x.simple => k >= b
        BY <2>1, <2>2 DEF Between, Reopened
      <3>2. y.simple = x.simple /\ m >= k
        BY <1>11, <1>15, <1>16, <2>2
      <3>3. y.simple => m >= b
        BY <3>1, <3>2
      <3> QED
        BY <2>2, <3>3
    <2>4. ASSUME ~y.fixed, {RCVD_EOF, SENT_CLOSE} \cap y.closes = {}
          PROVE  y.locwindow > 0 \/ y.backlog >= y.locmaxwin
      <3>1. ~x1.fixed /\ {RCVD_EOF, SENT_CLOSE} \cap x1.closes = {}
        BY <1>16, <2>4
      <3>2. y.locwindow > 0 \/ bufsize >= y.locmaxwin
        BY <1>15, <3>1
      <3>3. y.backlog = bufsize \/ (x.chan = "zombie" /\ bufsize = 0)
        <4>1. x.chan = "zombie" => bufsize = 0
          BY DEF Handed
        <4> QED
          BY <1>7, <1>11, <1>16, <4>1
      <3>4. m # 0
        BY <1>15, <2>2 DEF Good, Typed
      <3>5. h > 0 \/ bufsize >= m
        BY <2>2, <3>2
      <3>6. g = bufsize \/ bufsize = 0
        BY <2>2, <3>3
      <3>7. h > 0 \/ g >= m
        BY <3>4, <3>5, <3>6
      <3> QED
        BY <2>2, <3>7
    <2> QED
      BY <2>3, <2>4 DEF Reopened
  <1> QED
    BY <1>13, <1>15, <1>17, <1>18, <1>19 DEF Between
-----------------------------------------------------------------------------
(* The opening of the channel.                                             *)

LEMMA HeadOpening ==
    ASSUME NEW x, NEW r, NEW p, NEW w, NEW e, NEW s, NEW a,
           Good(x, r, p, w, e), Took(r, s, a),
           a.t \in {"OPEN", "CONFIRMATION", "REFUSAL"}
    PROVE  /\ x.tx = << >> /\ Untouched(x) /\ ~x.fixed
           /\ a.t = "OPEN" => x.life = "none" /\ p.state = "opening"
           /\ a.t = "CONFIRMATION" => x.life = "half" /\ p.state = "open"
           /\ a.t = "REFUSAL" => x.life = "half" /\ p.state = "closed"
           /\ a.t # "CONFIRMATION" => s = << >>
           /\ a.t = "CONFIRMATION" => a.n = RemWin /\ Only(s, Body)
  <1>0. /\ Phase(x, r, p) /\ PeerTyped(p)
        /\ r # << >> /\ r[1] = a /\ Len(r) = Len(s) + 1 /\ s \in Seq(Packets)
        /\ r \in Seq(Packets) /\ 1 \in 1..Len(r)
    BY DEF Good, Took
  <1>1. a.t \notin Body
    BY DEF Body, Replies
  <1>2. CASE p.state = "opening"
    <2>1. x.life = "none" /\ x.tx = << >> /\ r = <<Packet("OPEN")>>
      BY <1>0, <1>2 DEF Phase, Opening
    <2>2. Len(r) = 1 /\ a.t = "OPEN"
      BY <1>0, <2>1 DEF Packet
    <2>3. s = << >>
      BY <1>0, <2>2
    <2> QED
      BY <1>0, <1>2, <2>1, <2>2, <2>3 DEF Phase
  <1>3. CASE p.state = "open"
    <2>1. ~Only(r, Body)
      BY <1>0, <1>1 DEF Only
    <2>2. /\ x.life = "half" /\ x.tx = << >>
          /\ r[1] = Bytes("CONFIRMATION", RemWin)
          /\ \A i \in 1..Len(r) : i = 1 \/ r[i].t \in Body \ Replies
      BY <1>0, <1>3, <2>1 DEF Phase, Opened
    <2>3. a.t = "CONFIRMATION" /\ a.n = RemWin
      BY <1>0, <2>2 DEF Bytes
    <2>4. Only(s, Body)
      <3>1. SUFFICES ASSUME NEW i \in 1..Len(s) PROVE s[i].t \in Body
        BY DEF Only
      <3>2. i + 1 \in 1..Len(r) /\ i + 1 # 1 /\ s[i] = r[i + 1]
        BY <1>0 DEF Took
      <3> QED
        BY <2>2, <3>2
    <2> QED
      BY <1>0, <1>3, <2>2, <2>3, <2>4 DEF Phase
  <1>4. CASE p.state = "closed"
    <2>1. x.tx = << >> /\ x.life = "half" /\ r = <<Packet("REFUSAL")>>
      BY <1>0, <1>4 DEF Phase, Refused
    <2>2. Len(r) = 1 /\ a.t = "REFUSAL"
      BY <1>0, <2>1 DEF Packet
    <2>3. s = << >>
      BY <1>0, <2>2
    <2> QED
      BY <1>0, <1>4, <2>1, <2>2, <2>3 DEF Phase
  <1> QED
    BY <1>0, <1>2, <1>3, <1>4 DEF PeerTyped

(* What an untouched channel that has no packets is good for.              *)
LEMMA EmptyCounts ==
    /\ \A t : Sizes(<< >>, t) = 0
    /\ Wanted(<< >>) = 0 /\ Answers(<< >>) = 0
    /\ \A T : ~Has(<< >>, T) /\ Only(<< >>, T)
    /\ << >> \in Seq(Packets)
  <1>1. << >> \in Seq(Packets) /\ Len(<< >>) = 0
    OBVIOUS
  <1>2. PICK q \in Seq(Packets) : q = << >>
    BY <1>1
  <1>3. /\ \A t : Sizes(q, t) = 0
        /\ Wanted(q) = 0 /\ Answers(q) = 0
    BY <1>2, CountsNat
  <1> QED
    BY <1>1, <1>2, <1>3 DEF Has, Only

(* b is our answer to CHANNEL_OPEN.                                        *)
Welcomes(x, y, b) ==
    /\ b \in Packets
    /\ b.t = "CONFIRMATION" \/ b = Packet("REFUSAL")
    /\ Keeps(x, y, {"tx", "life", "fixed", "remwindow", "reading", "locwindow",
                    "locmaxwin", "remlocwin"})
    /\ y.tx = Append(x.tx, b)
    /\ y.fixed \in BOOLEAN /\ y.locwindow \in Nat /\ y.locmaxwin \in Nat \ {0}
    /\ y.remlocwin \in Int /\ y.remwindow \in Nat
    /\ y.life = IF b.t = "CONFIRMATION" THEN "open" ELSE "freed"
    /\ b.t = "CONFIRMATION" => /\ y.remwindow = RemWin /\ y.locwindow = b.n
                               /\ y.locwindow > 0

LEMMA WelcomeGood ==
    ASSUME NEW x, NEW y, NEW r, NEW p, NEW e, NEW s, NEW a, NEW b,
           Good(x, r, p, 0, e), Took(r, s, a), a.t = "OPEN", Welcomes(x, y, b)
    PROVE  Good(y, s, p, 0, e)
  <1>0. /\ Typed(x) /\ PeerTyped(p)
        /\ Phase(x, r, p) /\ Incoming(x, r, p) /\ Outgoing(x, p)
        /\ Listed(x, 0) /\ Knows(x, r, e)
    BY DEF Good
  <1>1. /\ x.tx = << >> /\ Untouched(x) /\ ~x.fixed /\ x.life = "none"
        /\ p.state = "opening" /\ s = << >>
    BY HeadOpening
  <1>2. /\ DOMAIN y = Fields /\ y.closes = x.closes /\ y.pending_eof = x.pending_eof
        /\ y.throttling_conn = x.throttling_conn /\ y.throttle_count = x.throttle_count
        /\ y.outbuffer = x.outbuffer /\ y.eofs = x.eofs
        /\ y.throttle_state = x.throttle_state /\ y.chanreqs = x.chanreqs
        /\ y.chan = x.chan /\ y.bugs = x.bugs /\ y.user_input = x.user_input
        /\ y.req = x.req /\ y.written = x.written /\ y.got = x.got
        /\ y.x11 = x.x11 /\ y.ready = x.ready /\ y.backlog = x.backlog
        /\ y.fault = x.fault /\ y.simple = x.simple /\ y.eof_sent = x.eof_sent
    BY DEF Welcomes, Keeps
  <1>3. /\ b \in Packets /\ b.t \in {"CONFIRMATION", "REFUSAL"}
        /\ b.t = "CONFIRMATION" \/ b = Packet("REFUSAL")
        /\ y.tx = Append(x.tx, b)
        /\ y.fixed \in BOOLEAN /\ y.locwindow \in Nat /\ y.locmaxwin \in Nat \ {0}
        /\ y.remlocwin \in Int /\ y.remwindow \in Nat
        /\ y.life = IF b.t = "CONFIRMATION" THEN "open" ELSE "freed"
        /\ b.t = "CONFIRMATION" => y.remwindow = RemWin /\ y.locwindow = b.n
    <2>1. b.t = "CONFIRMATION" \/ (b = Packet("REFUSAL") /\ b.t = "REFUSAL")
      BY DEF Welcomes, Packet
    <2>2. /\ b \in Packets /\ y.tx = Append(x.tx, b)
          /\ y.fixed \in BOOLEAN /\ y.locwindow \in Nat /\ y.locmaxwin \in Nat \ {0}
          /\ y.remlocwin \in Int /\ y.remwindow \in Nat
          /\ y.life = IF b.t = "CONFIRMATION" THEN "open" ELSE "freed"
          /\ b.t = "CONFIRMATION" => y.remwindow = RemWin /\ y.locwindow = b.n
      BY DEF Welcomes
    <2>3. b.t \in {"CONFIRMATION", "REFUSAL"} /\ (b.t = "CONFIRMATION" \/ b = Packet("REFUSAL"))
      BY <2>1
    <2> QED
      BY <2>2, <2>3, Zenon
  <1>4. /\ y.tx \in Seq(Packets) /\ y.tx # << >> /\ y.tx[1] = b /\ y.tx = <<b>>
        /\ \A i \in 1..Len(y.tx) : i = 1 /\ y.tx[i] = b
    BY <1>1, <1>3
  <1>5. (\A t : Sizes(y.tx, t) = Size(b, t)) /\ Wanted(y.tx) = Want(b)
    <2>1. Pushed(x.tx, y.tx, b) /\ x.tx = << >> /\ x.tx \in Seq(Packets)
      BY <1>0, <1>1, <1>3, PushPushed DEF Typed
    <2>2. (\A t : Sizes(y.tx, t) = Sizes(x.tx, t) + Size(b, t)) /\ Wanted(y.tx) = Wanted(x.tx) + Want(b)
      BY <2>1, PushCounts
    <2>3. (\A t : Sizes(x.tx, t) = 0) /\ Wanted(x.tx) = 0
      BY <2>1, CountsNat
    <2>4. (\A t : Size(b, t) \in Nat) /\ Want(b) \in Nat
      BY <1>3 DEF Size, Want, Packets
    <2> QED
      BY <2>2, <2>3, <2>4
  <1>6. Size(b, "DATA") = 0 /\ Size(b, "ADJUST") = 0 /\ Want(b) = 0
    BY <1>3 DEF Size, Want
  <1>7. Sizes(y.tx, "DATA") = 0 /\ Sizes(y.tx, "ADJUST") = 0 /\ Wanted(y.tx) = 0
    BY <1>5, <1>6
  <1>8. /\ \A t : Sizes(s, t) = 0
        /\ Answers(s) = 0
        /\ (\A T : ~Has(s, T) /\ Only(s, T)) /\ Len(s) = 0
        /\ s \in Seq(Packets)
    BY <1>1, EmptyCounts
  <1>9. Typed(y)
    <2>1. y.tx \in Seq(Packets) /\ y.life \in {"none", "half", "open", "freed"}
      BY <1>3, <1>4
    <2>2. /\ y.fixed \in BOOLEAN /\ y.locwindow \in Nat /\ y.locmaxwin \in Nat \ {0}
          /\ y.remlocwin \in Int /\ y.remwindow \in Nat
      BY <1>3
    <2> QED
      BY <1>0, <1>2, <2>1, <2>2 DEF Typed
  <1>10. Phase(y, s, p)
    <2>1. Opening(y, s)
      <3>1. CASE b.t = "CONFIRMATION"
        BY <1>1, <1>3, <1>4, <3>1 DEF Opening
      <3>2. CASE b = Packet("REFUSAL")
        BY <1>1, <1>3, <1>4, <3>2 DEF Opening, Packet
      <3> QED
        BY <1>3, <3>1, <3>2
    <2> QED
      BY <1>0, <1>1, <1>3, <2>1 DEF Phase
  <1>11. Incoming(y, s, p)
    <2>1. p.sent = 0 /\ x.got = 0 /\ x.closes = {} /\ x.backlog = 0 /\ x.eofs = 0
      BY <1>0, <1>1 DEF Untouched, Phase
    <2>2. y.got + Sizes(s, "DATA") = p.sent /\ y.backlog <= y.got
      BY <1>2, <1>8, <2>1
    <2>3. p.sent + p.room <= MaxIn
      BY <1>0 DEF Incoming
    <2>4. /\ RCVD_EOF \notin y.closes /\ RCVD_CLOSE \notin y.closes
          /\ y.eofs = 0
      BY <1>2, <2>1
    <2>5. y.got + Sizes(s, "DATA") <= p.sent
      BY <2>1, <2>2
    <2> QED
      BY <1>8, <2>2, <2>3, <2>4, <2>5 DEF Incoming
  <1>12. Outgoing(y, p)
    <2>1. /\ ~p.gotClose /\ ~p.gotEof /\ p.got = 0 /\ x.closes = {}
          /\ x.outbuffer = 0 /\ x.written = 0
      BY <1>0, <1>1 DEF Untouched, Phase
    <2>2. p.got + Sizes(y.tx, "DATA") + y.outbuffer = y.written
      BY <1>2, <1>7, <2>1
    <2>3. ~Has(y.tx, {"CLOSE"}) /\ ~Has(y.tx, {"EOF"})
      BY <1>3, <1>4 DEF Has
    <2>4. \A i, j \in 1..Len(y.tx) : ~(i < j)
      BY <1>4
    <2>5. SENT_CLOSE \notin y.closes /\ SENT_EOF \notin y.closes
      BY <1>2, <2>1
    <2>6. y.pending_eof => y.chan # "zombie"
      BY <1>0, <1>2 DEF Outgoing
    <2> QED
      BY <2>1, <2>2, <2>3, <2>4, <2>5, <2>6 DEF Outgoing
  <1>13. Windows(y, s, p)
    <2>1. p.recvwin = RemWin /\ RemWin \in Nat
      BY <1>0, <1>1, BoundsAssumption DEF Phase
    <2>2. Sizes(y.tx, "DATA") <= p.recvwin
      BY <1>7, <2>1
    <2>3. ASSUME y.life = "open"
          PROVE  /\ y.remwindow + Sizes(y.tx, "DATA") + Sizes(s, "ADJUST") = p.recvwin
                 /\ y.locwindow = y.tx[1].n + Sizes(y.tx, "ADJUST")
      <3>1. b.t = "CONFIRMATION" /\ y.tx[1].n = y.locwindow /\ y.remwindow = RemWin
        BY <1>3, <1>4, <2>3
      <3>2. RemWin + 0 + 0 = RemWin /\ y.locwindow = y.locwindow + 0
        BY <1>3, <2>1
      <3> QED
        BY <1>7, <1>8, <2>1, <3>1, <3>2
    <2>4. y.life # "half"
      BY <1>3
    <2> QED
      BY <1>1, <2>2, <2>3, <2>4 DEF Windows
  <1>14. Listed(y, 0)
    BY <1>0, <1>1, <1>2 DEF Listed, Untouched
  <1>15. Awaited(y, s, p, 0)
    BY <1>1, <1>2, <1>7, <1>8 DEF Awaited, Untouched
  <1>16. Forgotten(y, s, p)
    BY <1>1 DEF Forgotten
  <1>17. Knows(y, s, e)
    <2>1. x.x11 = "greeting"
      BY <1>0, <1>1 DEF Phase
    <2> QED
      BY <1>0, <1>2, <1>8, <2>1 DEF Knows
  <1> QED
    BY <1>0, <1>8, <1>9, <1>10, <1>11, <1>12, <1>13, <1>14, <1>15, <1>16, <1>17 DEF Good

LEMMA OpeningReopened ==
    ASSUME NEW x, NEW y, NEW r, NEW p, NEW s, NEW a,
           Between(x, r, p), Took(r, s, a),
           a.t \in {"OPEN", "CONFIRMATION", "REFUSAL"},
           Good(y, s, p, 0, FALSE), y.outbuffer = 0, y.simple = x.simple,
           y.locmaxwin = x.locmaxwin \/ ~x.simple,
           y.life = "open" => y.locwindow > 0
    PROVE  Between(y, s, p)
  <1>1. Sent(y)
    BY DEF Sent
  <1>2. Closing(y, s, p)
    <2>1. Has(r, {"CLOSE"}) => Has(s, {"CLOSE"})
      BY TookHas
    <2>2. x.closes = {}
      BY HeadOpening DEF Between, Untouched
    <2> QED
      BY <2>1, <2>2 DEF Between, Closing
  <1>3. Roomy => Reopened(y)
    BY DEF Between, Reopened
  <1> QED
    BY <1>1, <1>2, <1>3 DEF Between

(* CHANNEL_OPEN.                                                           *)
Accepts(x, y, sharing, win) ==
    /\ win = IF sharing THEN FixedWin ELSE x.locwindow
    /\ y = [Push(x, Bytes("CONFIRMATION", win)) EXCEPT
              !.life = "open", !.fixed = sharing, !.remwindow = RemWin, !.reading = TRUE,
              !.locwindow = win, !.locmaxwin = win, !.remlocwin = win]

LEMMA GetOpenGood ==
    ASSUME NEW x, NEW y, NEW r, NEW p, NEW s, NEW a, NEW sharing \in BOOLEAN, NEW win,
           Between(x, r, p), Took(r, s, a), a.t = "OPEN", Accepts(x, y, sharing, win)
    PROVE  Between(y, s, p)
  <1>0. Good(x, r, p, 0, FALSE) /\ DOMAIN x = Fields /\ Typed(x) /\ Phase(x, r, p)
    BY GoodTold DEF Between, Good
  <1>1. Untouched(x) /\ x.life = "none"
    <2>1. PICK f : f = FALSE
      OBVIOUS
    <2>2. Good(x, r, p, 0, f) /\ a.t \in {"OPEN", "CONFIRMATION", "REFUSAL"}
      BY <1>0, <2>1
    <2> QED
      BY <2>2, HeadOpening
  <1>2. win \in Nat /\ win > 0
    <2>1. FixedWin \in Nat \ {0} /\ x.locwindow \in Nat \ {0}
      BY <1>0, <1>1, BoundsAssumption DEF Untouched, Typed
    <2> QED
      BY <2>1 DEF Accepts
  <1>3. PICK b : b = Bytes("CONFIRMATION", win)
    OBVIOUS
  <1>4. b \in Packets /\ b.t = "CONFIRMATION" /\ b.n = win
    BY <1>2, <1>3 DEF Bytes, Packets, Names
  <1>5. /\ Keeps(x, y, {"tx", "life", "fixed", "remwindow", "reading", "locwindow",
                        "locmaxwin", "remlocwin"})
        /\ y.tx = Append(x.tx, b) /\ y.life = "open" /\ y.fixed = sharing
        /\ y.remwindow = RemWin /\ y.locwindow = win /\ y.locmaxwin = win
        /\ y.remlocwin = win
    <2>1. y = [Push(x, b) EXCEPT
                 !.life = "open", !.fixed = sharing, !.remwindow = RemWin, !.reading = TRUE,
                 !.locwindow = win, !.locmaxwin = win, !.remlocwin = win]
      BY <1>3 DEF Accepts
    <2>2. PICK z : z = Push(x, b)
      OBVIOUS
    <2>3. Keeps(x, z, {"tx"}) /\ z.tx = Append(x.tx, b) /\ DOMAIN z = Fields
      BY <1>0, <2>2, PushKeeps DEF Keeps
    <2>4. /\ Keeps(z, y, {"life", "fixed", "remwindow", "reading", "locwindow",
                          "locmaxwin", "remlocwin"})
          /\ y.tx = z.tx /\ y.life = "open" /\ y.fixed = sharing
          /\ y.remwindow = RemWin /\ y.locwindow = win /\ y.locmaxwin = win
          /\ y.remlocwin = win
      BY <2>1, <2>2, <2>3 DEF Keeps, Fields
    <2>5. Keeps(x, y, {"tx", "life", "fixed", "remwindow", "reading", "locwindow",
                       "locmaxwin", "remlocwin"})
      BY <2>3, <2>4 DEF Keeps
    <2>6. y.tx = Append(x.tx, b)
      BY <2>3, <2>4, Zenon
    <2>7. y.life = "open" /\ y.fixed = sharing
      BY <2>4
    <2>8. /\ y.remwindow = RemWin /\ y.locwindow = win /\ y.locmaxwin = win
          /\ y.remlocwin = win
      BY <2>4
    <2> QED
      BY <2>5, <2>6, <2>7, <2>8, Zenon
  <1>6. RemWin \in Nat /\ win \in Nat \ {0} /\ win \in Int
    <2>1. RemWin \in Nat
      BY BoundsAssumption
    <2> QED
      BY <1>2, <2>1
  <1>7. Welcomes(x, y, b)
    BY <1>2, <1>4, <1>5, <1>6 DEF Welcomes
  <1>8. PICK f : f = FALSE
    OBVIOUS
  <1>9. Good(y, s, p, 0, f)
    BY <1>0, <1>7, <1>8, WelcomeGood
  <1>10. y.outbuffer = 0 /\ y.simple = x.simple
    BY <1>1, <1>5 DEF Keeps, Untouched
  <1>11. ~x.simple /\ y.locwindow > 0
    BY <1>0, <1>1, <1>2, <1>5 DEF Phase
  <1>12. Good(y, s, p, 0, FALSE) /\ a.t \in {"OPEN", "CONFIRMATION", "REFUSAL"}
    BY <1>8, <1>9
  <1> QED
    BY <1>10, <1>11, <1>12, OpeningReopened

LEMMA GetUnwantedOpenGood ==
    ASSUME NEW x, NEW y, NEW r, NEW p, NEW s, NEW a,
           Between(x, r, p), Took(r, s, a), a.t = "OPEN",
           y = [Push(x, Packet("REFUSAL")) EXCEPT !.life = "freed"]
    PROVE  Between(y, s, p)
  <1>0. Good(x, r, p, 0, FALSE) /\ DOMAIN x = Fields /\ Typed(x) /\ Phase(x, r, p)
    BY GoodTold DEF Between, Good
  <1>1. Untouched(x) /\ x.life = "none"
    <2>1. PICK f : f = FALSE
      OBVIOUS
    <2>2. Good(x, r, p, 0, f) /\ a.t \in {"OPEN", "CONFIRMATION", "REFUSAL"}
      BY <1>0, <2>1
    <2> QED
      BY <2>2, HeadOpening
  <1>3. PICK b : b = Packet("REFUSAL")
    OBVIOUS
  <1>4. b \in Packets /\ b.t = "REFUSAL"
    BY <1>3 DEF Packet, Packets, Names
  <1>5. /\ Keeps(x, y, {"tx", "life"})
        /\ y.tx = Append(x.tx, b) /\ y.life = "freed"
    BY <1>0, <1>3 DEF Keeps, Fields, Push
  <1>6. /\ Keeps(x, y, {"tx", "life", "fixed", "remwindow", "reading", "locwindow",
                        "locmaxwin", "remlocwin"})
        /\ y.fixed = x.fixed /\ y.locwindow = x.locwindow /\ y.locmaxwin = x.locmaxwin
        /\ y.remlocwin = x.remlocwin /\ y.remwindow = x.remwindow
    BY <1>5 DEF Keeps
  <1>7. Welcomes(x, y, b)
    BY <1>0, <1>3, <1>4, <1>5, <1>6 DEF Welcomes, Typed
  <1>8. PICK f : f = FALSE
    OBVIOUS
  <1>9. Good(y, s, p, 0, f)
    BY <1>0, <1>7, <1>8, WelcomeGood
  <1>10. y.outbuffer = 0 /\ y.simple = x.simple
    BY <1>1, <1>5 DEF Keeps, Untouched
  <1>11. Good(y, s, p, 0, FALSE) /\ a.t \in {"OPEN", "CONFIRMATION", "REFUSAL"}
    BY <1>8, <1>9
  <1>12. y.life # "open" /\ y.locmaxwin = x.locmaxwin
    BY <1>5, <1>6
  <1> QED
    BY <1>10, <1>11, <1>12, OpeningReopened

(* CHANNEL_OPEN_CONFIRMATION: the channel is open, and then the local end  *)
(* is told.                                                                *)
LEMMA ConfirmGood ==
    ASSUME NEW x, NEW y, NEW r, NEW p, NEW e, NEW s, NEW a,
           Good(x, r, p, 0, e), Took(r, s, a), s \in Seq(Packets), a.t = "CONFIRMATION",
           Keeps(x, y, {"life", "remwindow"}), y.life = "open", y.remwindow = a.n
    PROVE  Good(y, s, p, 0, e)
  <1>0. /\ Typed(x) /\ PeerTyped(p) /\ r \in Seq(Packets)
        /\ Phase(x, r, p) /\ Incoming(x, r, p) /\ Outgoing(x, p)
        /\ Windows(x, r, p) /\ Listed(x, 0) /\ Awaited(x, r, p, 0)
        /\ Knows(x, r, e)
    BY DEF Good
  <1>1. /\ x.tx = << >> /\ Untouched(x) /\ x.life = "half" /\ p.state = "open"
        /\ a.n = RemWin /\ Only(s, Body)
    <2>1. a.t \in {"OPEN", "CONFIRMATION", "REFUSAL"}
      OBVIOUS
    <2> QED
      BY <2>1, HeadOpening
  <1>2. /\ DOMAIN y = Fields /\ y.closes = x.closes /\ y.pending_eof = x.pending_eof
        /\ y.throttling_conn = x.throttling_conn /\ y.throttle_count = x.throttle_count
        /\ y.outbuffer = x.outbuffer /\ y.eofs = x.eofs /\ y.tx = x.tx
        /\ y.locwindow = x.locwindow /\ y.locmaxwin = x.locmaxwin
        /\ y.remlocwin = x.remlocwin /\ y.fixed = x.fixed /\ y.reading = x.reading
        /\ y.throttle_state = x.throttle_state /\ y.chanreqs = x.chanreqs
        /\ y.chan = x.chan /\ y.bugs = x.bugs /\ y.user_input = x.user_input
        /\ y.req = x.req /\ y.written = x.written /\ y.got = x.got
        /\ y.x11 = x.x11 /\ y.ready = x.ready /\ y.backlog = x.backlog
        /\ y.fault = x.fault /\ y.simple = x.simple /\ y.eof_sent = x.eof_sent
    BY DEF Keeps
  <1>3. /\ Sizes(r, "DATA") = Sizes(s, "DATA") /\ Sizes(r, "ADJUST") = Sizes(s, "ADJUST")
        /\ Answers(r) = Answers(s)
    <2>1. /\ Sizes(r, "DATA") = Size(a, "DATA") + Sizes(s, "DATA")
          /\ Sizes(r, "ADJUST") = Size(a, "ADJUST") + Sizes(s, "ADJUST")
          /\ Answers(r) = Answer(a) + Answers(s)
      BY TakeCounts
    <2>2. Size(a, "DATA") = 0 /\ Size(a, "ADJUST") = 0 /\ Answer(a) = 0
      BY DEF Size, Answer, Replies
    <2>3. Sizes(s, "DATA") \in Nat /\ Sizes(s, "ADJUST") \in Nat /\ Answers(s) \in Nat
      BY CountsNat
    <2> QED
      BY <2>1, <2>2, <2>3
  <1>4. /\ \A i \in 1..Len(s) : s[i] = r[i + 1] /\ i + 1 \in 1..Len(r)
        /\ \A i, j \in 1..Len(s) : i < j => i + 1 < j + 1
    BY <1>0 DEF Took
  <1>5. \A t : Has(s, t) => Has(r, t)
    BY <1>4 DEF Has
  <1>6. RemWin \in Nat
    BY BoundsAssumption
  <1>7. Typed(y)
    BY <1>0, <1>1, <1>2, <1>6 DEF Typed
  <1>8. Phase(y, s, p)
    <2>1. Only(y.tx, Body)
      BY <1>1, <1>2 DEF Only
    <2> QED
      BY <1>0, <1>1, <1>2, <2>1 DEF Phase, Opened
  <1>9. Incoming(y, s, p)
    <2>1. ASSUME NEW i \in 1..Len(s), NEW j \in 1..Len(s), i < j
          PROVE  /\ s[i].t = "EOF" => s[j].t \notin {"DATA", "EOF"}
                 /\ s[i].t = "CLOSE" => s[j].t \in Replies /\ "late" \in y.bugs
      <3>1. PICK u \in 1..Len(r), v \in 1..Len(r) : u < v /\ s[i] = r[u] /\ s[j] = r[v]
        BY <1>4, <2>1
      <3> QED
        BY <1>0, <1>2, <3>1 DEF Incoming
    <2>2. RCVD_EOF \notin y.closes /\ RCVD_CLOSE \notin y.closes
      BY <1>1, <1>2 DEF Untouched
    <2>3. /\ Has(s, {"EOF"}) => p.eof
          /\ Has(s, {"CLOSE"}) => p.close
          /\ y.eofs = 0
          /\ p.sent + p.room <= MaxIn
          /\ y.backlog <= y.got
      BY <1>0, <1>1, <1>2, <1>5 DEF Incoming, Untouched
    <2>4. /\ y.got + Sizes(s, "DATA") <= p.sent
          /\ y.chan # "zombie" => y.got + Sizes(s, "DATA") = p.sent
      BY <1>0, <1>2, <1>3 DEF Incoming
    <2> QED
      BY <2>1, <2>2, <2>3, <2>4 DEF Incoming
  <1>10. Outgoing(y, p)
    BY <1>0, <1>2 DEF Outgoing
  <1>11. Windows(y, s, p)
    <2>1. /\ Sizes(y.tx, "DATA") <= p.recvwin
          /\ RemWin + Sizes(s, "ADJUST") = p.recvwin
          /\ y.locwindow = p.sendwin + Sizes(s, "DATA") + Sizes(y.tx, "ADJUST")
      BY <1>0, <1>1, <1>2, <1>3 DEF Windows
    <2>2. Sizes(y.tx, "DATA") = 0
      BY <1>1, <1>2, EmptyCounts
    <2>3. y.remwindow + Sizes(y.tx, "DATA") + Sizes(s, "ADJUST") = p.recvwin
      <3>1. RemWin + 0 = RemWin
        BY <1>6
      <3> QED
        BY <1>1, <2>1, <2>2, <3>1
    <2>4. y.life # "half" /\ p.state # "opening"
      BY <1>1
    <2> QED
      BY <2>1, <2>3, <2>4, Zenon DEF Windows
  <1>12. Listed(y, 0)
    <2>1. /\ y.chanreqs = x.chanreqs /\ y.req = x.req /\ y.chan = x.chan
          /\ x.chanreqs = << >>
      BY <1>1, <1>2 DEF Untouched
    <2> QED
      BY <1>0, <2>1 DEF Listed
  <1>13. Awaited(y, s, p, 0)
    BY <1>0, <1>2, <1>3, <1>5 DEF Awaited
  <1>14. Forgotten(y, s, p)
    BY DEF Forgotten
  <1>15. Knows(y, s, e)
    BY <1>0, <1>2, <1>5 DEF Knows
  <1> QED
    BY <1>0, <1>7, <1>8, <1>9, <1>10, <1>11, <1>12, <1>13, <1>14, <1>15 DEF Good

Confirms(x, z, a) == z = [x EXCEPT !.life = "open", !.remwindow = a.n]
EofDue(u, y) == y = IF u.pending_eof THEN ssh2_channel_try_eof(u) ELSE u

LEMMA GetConfirmationGood ==
    ASSUME NEW x, NEW z, NEW v, NEW u, NEW y, NEW r, NEW p, NEW s, NEW a,
           Between(x, r, p), Took(r, s, a), s \in Seq(Packets), a.t = "CONFIRMATION",
           Confirms(x, z, a), v = chan_open_confirmation(z),
           u = ssh2_channel_check_close(v), EofDue(u, y)
    PROVE  Between(y, s, p)
  <1>1. PICK f : f = FALSE
    OBVIOUS
  <1>2. Good(x, r, p, 0, f) /\ DOMAIN x = Fields /\ Phase(x, r, p)
    BY <1>1, GoodTold DEF Between, Good
  <1>3. /\ Untouched(x) /\ x.life = "half" /\ x.chan # "x11"
    <2>1. a.t \in {"OPEN", "CONFIRMATION", "REFUSAL"}
      OBVIOUS
    <2>2. Untouched(x) /\ x.life = "half"
      BY <1>2, <2>1, HeadOpening
    <2> QED
      BY <1>2, <2>2 DEF Phase
  <1>4. /\ Keeps(x, z, {"life", "remwindow"}) /\ z.life = "open" /\ z.remwindow = a.n
    BY <1>2 DEF Keeps, Fields, Confirms
  <1>5. Good(z, s, p, 0, f)
    BY <1>2, <1>4, ConfirmGood
  <1>6. z.closes = {} /\ z.req = {} /\ z.chan # "x11"
    BY <1>3, <1>4 DEF Keeps, Untouched
  <1>7. Good(v, s, p, 0, FALSE) /\ Later(z, v) /\ Keeps(z, v, Confirmed)
    BY <1>1, <1>4, <1>5, <1>6, OpenConfirmationGood
  <1>8. v.life = "open" /\ RCVD_CLOSE \notin v.closes /\ Good(v, s, p, 0, f)
    BY <1>1, <1>4, <1>6, <1>7 DEF Keeps, Later, Confirmed, Readied
  <1>9. /\ Good(u, s, p, 0, f) /\ Later(v, u)
        /\ Keeps(v, u, {"tx", "closes"})
    BY <1>8, CheckCloseGood
  <1>10. u.life = "open" /\ DOMAIN u = Fields
    BY <1>8, <1>9 DEF Keeps
  <1>11. Good(y, s, p, 0, f) /\ Keeps(u, y, {"tx", "closes", "pending_eof"})
    <2>1. CASE u.pending_eof
      <3>1. SENT_EOF \notin u.closes
        BY <1>9, <2>1 DEF Good, Outgoing
      <3>2. y = ssh2_channel_try_eof(u)
        BY <2>1 DEF EofDue
      <3> QED
        BY <1>9, <1>10, <2>1, <3>1, <3>2, TryEofGood
    <2>2. CASE ~u.pending_eof
      BY <1>9, <1>10, <2>2 DEF Keeps, EofDue
    <2> QED
      BY <2>1, <2>2
  <1>12. /\ y.outbuffer = x.outbuffer /\ y.locwindow = x.locwindow
         /\ y.locmaxwin = x.locmaxwin /\ y.simple = x.simple
    <2>1. /\ z.outbuffer = x.outbuffer /\ z.locwindow = x.locwindow
          /\ z.locmaxwin = x.locmaxwin /\ z.simple = x.simple
      BY <1>4 DEF Keeps
    <2>2. /\ v.outbuffer = z.outbuffer /\ v.locwindow = z.locwindow
          /\ v.locmaxwin = z.locmaxwin /\ v.simple = z.simple
      BY <1>7 DEF Keeps, Confirmed, Readied
    <2>3. /\ u.outbuffer = v.outbuffer /\ u.locwindow = v.locwindow
          /\ u.locmaxwin = v.locmaxwin /\ u.simple = v.simple
      BY <1>9 DEF Keeps
    <2>4. /\ y.outbuffer = u.outbuffer /\ y.locwindow = u.locwindow
          /\ y.locmaxwin = u.locmaxwin /\ y.simple = u.simple
      BY <1>11 DEF Keeps
    <2> QED
      BY <2>1, <2>2, <2>3, <2>4
  <1>13. y.outbuffer = 0 /\ y.locwindow > 0
    <2>1. x.locwindow \in Nat \ {0} /\ x.outbuffer = 0
      BY <1>2, <1>3 DEF Untouched, Good, Typed
    <2>2. x.locwindow > 0
      BY <2>1
    <2> QED
      BY <1>12, <2>1, <2>2
  <1>14. Good(y, s, p, 0, FALSE) /\ a.t \in {"OPEN", "CONFIRMATION", "REFUSAL"}
    BY <1>1, <1>11
  <1> QED
    BY <1>12, <1>13, <1>14, OpeningReopened

(* CHANNEL_OPEN_FAILURE.                                                   *)
LEMMA GetRefusalGood ==
    ASSUME NEW x, NEW y, NEW r, NEW p, NEW s, NEW a,
           Between(x, r, p), Took(r, s, a), a.t = "REFUSAL",
           y = [x EXCEPT !.life = "freed"]
    PROVE  Between(y, s, p)
  <1>0. /\ Typed(x) /\ PeerTyped(p) /\ DOMAIN x = Fields
        /\ Phase(x, r, p) /\ Incoming(x, r, p) /\ Outgoing(x, p)
        /\ Listed(x, 0) /\ Knows(x, r, FALSE)
    BY DEF Between, Good, Typed
  <1>1. /\ x.tx = << >> /\ Untouched(x) /\ ~x.fixed /\ x.life = "half"
        /\ p.state = "closed" /\ s = << >>
    <2>1. PICK f : f = FALSE
      OBVIOUS
    <2>2. a.t \in {"OPEN", "CONFIRMATION", "REFUSAL"} /\ Good(x, r, p, 0, f)
      BY <2>1 DEF Between
    <2> QED
      BY <2>2, HeadOpening
  <1>2. Keeps(x, y, {"life"}) /\ y.life = "freed"
    BY <1>0 DEF Keeps, Fields
  <1>3. /\ DOMAIN y = Fields /\ y.closes = x.closes /\ y.pending_eof = x.pending_eof
        /\ y.throttling_conn = x.throttling_conn /\ y.throttle_count = x.throttle_count
        /\ y.outbuffer = x.outbuffer /\ y.eofs = x.eofs /\ y.tx = x.tx
        /\ y.remwindow = x.remwindow
        /\ y.locwindow = x.locwindow /\ y.locmaxwin = x.locmaxwin
        /\ y.remlocwin = x.remlocwin /\ y.fixed = x.fixed /\ y.reading = x.reading
        /\ y.throttle_state = x.throttle_state /\ y.chanreqs = x.chanreqs
        /\ y.chan = x.chan /\ y.bugs = x.bugs /\ y.user_input = x.user_input
        /\ y.req = x.req /\ y.written = x.written /\ y.got = x.got
        /\ y.x11 = x.x11 /\ y.ready = x.ready /\ y.backlog = x.backlog
        /\ y.fault = x.fault /\ y.simple = x.simple /\ y.eof_sent = x.eof_sent
    BY <1>2 DEF Keeps
  <1>4. /\ \A t : Sizes(s, t) = 0 /\ Sizes(y.tx, t) = 0
        /\ Answers(s) = 0 /\ Wanted(y.tx) = 0
        /\ (\A T : ~Has(s, T) /\ Only(s, T)) /\ Len(s) = 0
        /\ s \in Seq(Packets)
    BY <1>1, <1>3, EmptyCounts
  <1>5. Typed(y)
    BY <1>0, <1>2, <1>3 DEF Typed
  <1>6. Phase(y, s, p)
    BY <1>0, <1>1, <1>2, <1>3 DEF Phase, Refused
  <1>7. Incoming(y, s, p)
    <2>1. p.sent = 0 /\ x.got = 0 /\ x.closes = {} /\ x.backlog = 0 /\ x.eofs = 0
      BY <1>0, <1>1 DEF Untouched, Phase
    <2>2. y.got + Sizes(s, "DATA") = p.sent /\ y.backlog <= y.got
      BY <1>3, <1>4, <2>1
    <2>3. p.sent + p.room <= MaxIn
      BY <1>0 DEF Incoming
    <2>4. /\ RCVD_EOF \notin y.closes /\ RCVD_CLOSE \notin y.closes
          /\ y.eofs = 0
      BY <1>3, <2>1
    <2>5. y.got + Sizes(s, "DATA") <= p.sent
      BY <2>1, <2>2
    <2> QED
      BY <1>4, <2>2, <2>3, <2>4, <2>5 DEF Incoming
  <1>8. Outgoing(y, p)
    BY <1>0, <1>3 DEF Outgoing
  <1>9. Windows(y, s, p)
    <2>1. Sizes(y.tx, "DATA") <= p.recvwin
      BY <1>0, <1>4 DEF PeerTyped
    <2> QED
      BY <1>2, <2>1 DEF Windows
  <1>10. Listed(y, 0)
    BY <1>0, <1>1, <1>3 DEF Listed, Untouched
  <1>11. Awaited(y, s, p, 0)
    BY <1>1, <1>3, <1>4 DEF Awaited, Untouched
  <1>12. Forgotten(y, s, p)
    BY <1>1 DEF Forgotten
  <1>13. Knows(y, s, FALSE)
    BY <1>0, <1>3, <1>4 DEF Knows
  <1>14. Good(y, s, p, 0, FALSE) /\ a.t \in {"OPEN", "CONFIRMATION", "REFUSAL"}
    BY <1>0, <1>4, <1>5, <1>6, <1>7, <1>8, <1>9, <1>10, <1>11, <1>12, <1>13 DEF Good
  <1>15. y.outbuffer = 0
    BY <1>1, <1>3 DEF Untouched
  <1> QED
    BY <1>2, <1>3, <1>14, <1>15, OpeningReopened
-----------------------------------------------------------------------------
(* What the local end does of its own accord.                              *)

(* The main channel has input for the peer.                                *)
Typing(x) == x.ready /\ x.reading /\ ~x.eof_sent

LEMMA UserInputGood ==
    ASSUME NEW x, NEW y, NEW r, NEW p, NEW n \in Nat, NEW z,
           Between(x, r, p), x.chan = "main", x.life \in {"half", "open"}, n # 0,
           Typing(x), z = [x EXCEPT !.user_input = n],
           y = ssh2_connection_got_user_input(z)
    PROVE  Between(y, r, p)
  <1>1. PICK f : f = FALSE
    OBVIOUS
  <1>2. /\ Good(x, r, p, 0, f) /\ DOMAIN x = Fields /\ x.user_input = 0
        /\ Phase(x, r, p) /\ Knows(x, r, FALSE)
    BY <1>1, GoodTold DEF Between, Good, Typed
  <1>3. x.life = "open"
    BY <1>2 DEF Phase, Untouched, Typing
  <1>4. SENT_EOF \notin x.closes
    BY <1>2 DEF Knows, Typing
  <1>6. PICK u : u = [z EXCEPT !.user_input = 0]
    OBVIOUS
  <1>7. DOMAIN z = Fields /\ z.user_input = n
    BY <1>2 DEF Fields
  <1>8. y = ssh2channel_write(u, n)
    BY <1>6, <1>7 DEF ssh2_connection_got_user_input
  <1>9. Keeps(x, u, {"user_input"}) /\ u.user_input = 0
    <2>1. Keeps(x, z, {"user_input"})
      BY <1>2 DEF Keeps, Fields
    <2>2. Keeps(z, u, {"user_input"}) /\ u.user_input = 0
      BY <1>6, <1>7 DEF Keeps, Fields
    <2> QED
      BY <2>1, <2>2 DEF Keeps
  <1>10. Keeps(x, u, {"throttled_by_backlog", "all_throttled", "eof_pending", "got_pty",
                      "lost", "specials"})
    BY <1>2, <1>9 DEF Keeps
  <1>11. Good(u, r, p, 0, f) /\ u.life = "open" /\ SENT_EOF \notin u.closes
    BY <1>2, <1>3, <1>4, <1>9, <1>10, AsideGood DEF Keeps
  <1>12. /\ Good(y, r, p, 0, f) /\ Later(u, y) /\ Sent(y)
         /\ Keeps(u, y, {"tx", "outbuffer", "remwindow", "closes", "pending_eof", "written"})
    BY <1>8, <1>11, WriteGood
  <1>13. Quiet(x, y)
    <2>1. /\ u.simple = x.simple /\ u.locmaxwin = x.locmaxwin
          /\ u.locwindow = x.locwindow /\ u.backlog = x.backlog
          /\ u.closes = x.closes /\ u.life = x.life /\ u.fixed = x.fixed
      BY <1>9 DEF Keeps
    <2>2. /\ y.simple = u.simple /\ y.locmaxwin = u.locmaxwin
          /\ y.locwindow = u.locwindow /\ y.backlog = u.backlog
          /\ y.life = u.life /\ y.fixed = u.fixed
      BY <1>12 DEF Keeps
    <2> QED
      BY <1>12, <2>1, <2>2 DEF Quiet, Later
  <1> QED
    BY <1>1, <1>12, <1>13, BetweenLocal

(* The user has come to the end of the input.                              *)
LEMMA UserEofGood ==
    ASSUME NEW x, NEW y, NEW r, NEW p,
           Between(x, r, p), x.chan = "main", x.life \in {"half", "open"},
           y = mainchan_special_eof(x)
    PROVE  Between(y, r, p)
  <1>1. Good(x, r, p, 0, FALSE) /\ Sent(x)
    BY DEF Between
  <1>2. /\ Good(y, r, p, 0, FALSE) /\ Later(x, y)
        /\ Keeps(x, y, {"tx", "closes", "pending_eof", "eof_pending", "eof_sent"})
    BY <1>1, SpecialEofGood
  <1>3. /\ y.simple = x.simple /\ y.locmaxwin = x.locmaxwin
        /\ y.locwindow = x.locwindow /\ y.backlog = x.backlog
        /\ y.life = x.life /\ y.fixed = x.fixed
        /\ y.remwindow = x.remwindow /\ y.outbuffer = x.outbuffer
    BY <1>2 DEF Keeps
  <1> QED
    BY <1>1, <1>2, <1>3, BetweenLocal DEF Quiet, Later, Sent

(* A resize, a break or a signal.                                          *)
LEMMA SpecialGood ==
    ASSUME NEW x, NEW y, NEW r, NEW p, NEW n,
           Between(x, r, p), x.life = "open",
           {SENT_CLOSE, RCVD_CLOSE} \cap x.closes = {},
           y = ssh2_chanreq_init([x EXCEPT !.specials = n], "none", "none", 0)
    PROVE  Between(y, r, p)
  <1>1. PICK f : f = FALSE
    OBVIOUS
  <1>2. Good(x, r, p, 0, f) /\ DOMAIN x = Fields /\ Sent(x)
    BY <1>1, GoodTold DEF Between
  <1>3. PICK z : z = [x EXCEPT !.specials = n]
    OBVIOUS
  <1>4. Keeps(x, z, {"specials"})
    BY <1>2, <1>3 DEF Keeps, Fields
  <1>5. Keeps(x, z, {"throttled_by_backlog", "all_throttled", "eof_pending", "got_pty",
                     "lost", "specials"})
    BY <1>4 DEF Keeps
  <1>6. Good(z, r, p, 0, f)
    BY <1>2, <1>5, AsideGood
  <1>7. z.life = "open" /\ {SENT_CLOSE, RCVD_CLOSE} \cap z.closes = {}
    BY <1>4 DEF Keeps
  <1>8. Good(y, r, p, 0, f) /\ Keeps(z, y, {"tx"})
    <2>1. y = ssh2_chanreq_init(z, "none", "none", 0)
      BY <1>3
    <2> QED
      BY <1>6, <1>7, <2>1, HintGood
  <1>9. /\ y.simple = x.simple /\ y.locmaxwin = x.locmaxwin
        /\ y.locwindow = x.locwindow /\ y.backlog = x.backlog
        /\ y.life = x.life /\ y.fixed = x.fixed /\ y.closes = x.closes
        /\ y.remwindow = x.remwindow /\ y.outbuffer = x.outbuffer
    <2>1. /\ z.simple = x.simple /\ z.locmaxwin = x.locmaxwin
          /\ z.locwindow = x.locwindow /\ z.backlog = x.backlog
          /\ z.life = x.life /\ z.fixed = x.fixed /\ z.closes = x.closes
          /\ z.remwindow = x.remwindow /\ z.outbuffer = x.outbuffer
      BY <1>4 DEF Keeps
    <2> QED
      BY <1>8, <2>1 DEF Keeps
  <1> QED
    BY <1>1, <1>2, <1>8, <1>9, BetweenLocal DEF Quiet, Sent

(* The local socket has data.                                              *)
Receiving(x) == x.reading /\ x.x11 = "connected" /\ ~x.eof_sent
Frozen(x) == x.chan = "fwd" /\ ~x.ready

LEMMA SocketDataGood ==
    ASSUME NEW x, NEW y, NEW r, NEW p, NEW n \in Nat, NEW m,
           Between(x, r, p), x.chan \in {"fwd", "x11"}, x.life \in {"half", "open"},
           Receiving(x),
           y = IF Frozen(x) THEN [x EXCEPT !.lost = m]
               ELSE ssh2channel_write(x, n)
    PROVE  Between(y, r, p)
  <1>1. PICK f : f = FALSE
    OBVIOUS
  <1>2. /\ Good(x, r, p, 0, f) /\ DOMAIN x = Fields /\ Sent(x)
        /\ Phase(x, r, p) /\ Knows(x, r, FALSE)
    BY <1>1, GoodTold DEF Between, Good
  <1>3. CASE Frozen(x)
    <2>1. Keeps(x, y, {"lost"})
      <3>1. y = [x EXCEPT !.lost = m]
        BY <1>3
      <3> QED
        BY <1>2, <3>1 DEF Keeps, Fields
    <2>2. Keeps(x, y, {"throttled_by_backlog", "all_throttled", "eof_pending", "got_pty",
                       "lost", "specials"})
      BY <2>1 DEF Keeps
    <2>3. Good(y, r, p, 0, f)
      BY <1>2, <2>2, AsideGood
    <2>4. /\ y.simple = x.simple /\ y.locmaxwin = x.locmaxwin
          /\ y.locwindow = x.locwindow /\ y.backlog = x.backlog
          /\ y.life = x.life /\ y.fixed = x.fixed /\ y.closes = x.closes
          /\ y.remwindow = x.remwindow /\ y.outbuffer = x.outbuffer
      BY <2>1 DEF Keeps
    <2> QED
      BY <1>1, <1>2, <2>3, <2>4, BetweenLocal DEF Quiet, Sent
  <1>4. CASE ~Frozen(x)
    <2>1. x.life = "open"
      BY <1>2, <1>4 DEF Phase, Untouched, Frozen
    <2>2. SENT_EOF \notin x.closes
      BY <1>2 DEF Knows, Receiving
    <2>3. y = ssh2channel_write(x, n)
      BY <1>4
    <2>4. /\ Good(y, r, p, 0, f) /\ Later(x, y) /\ Sent(y)
          /\ Keeps(x, y, {"tx", "outbuffer", "remwindow", "closes", "pending_eof", "written"})
      BY <1>2, <2>1, <2>2, <2>3, WriteGood
    <2>5. /\ y.simple = x.simple /\ y.locmaxwin = x.locmaxwin
          /\ y.locwindow = x.locwindow /\ y.backlog = x.backlog
          /\ y.life = x.life /\ y.fixed = x.fixed
      BY <2>4 DEF Keeps
    <2> QED
      BY <1>1, <2>4, <2>5, BetweenLocal DEF Quiet, Later
  <1> QED
    BY <1>3, <1>4

(* What was about to be done is done.                                      *)
LEMMA GoodDone ==
    ASSUME NEW x, NEW r, NEW p, NEW w, NEW e, Good(x, r, p, w, e), Knows(x, r, FALSE)
    PROVE  Good(x, r, p, w, FALSE)
  BY DEF Good

(* The local socket has come to its end.                                   *)
LEMMA SocketEofGood ==
    ASSUME NEW x, NEW y, NEW r, NEW p,
           Between(x, r, p), x.chan \in {"fwd", "x11"}, x.life \in {"half", "open"},
           x.x11 = "connected",
           y = ssh2channel_write_eof([x EXCEPT !.eof_sent = TRUE])
    PROVE  Between(y, r, p)
  <1>1. PICK f : f = FALSE
    OBVIOUS
  <1>2. /\ Good(x, r, p, 0, f) /\ DOMAIN x = Fields /\ Sent(x) /\ Knows(x, r, f)
    BY <1>1, GoodTold DEF Between, Good
  <1>3. PICK z : z = [x EXCEPT !.eof_sent = TRUE]
    OBVIOUS
  <1>4. Keeps(x, z, {"eof_sent"}) /\ z.eof_sent = TRUE
    BY <1>2, <1>3 DEF Keeps, Fields
  <1>5. /\ z.chan = x.chan /\ z.x11 = x.x11 /\ z.bugs = x.bugs /\ z.fixed = x.fixed
        /\ z.closes = x.closes /\ z.reading = x.reading /\ z.pending_eof = x.pending_eof
        /\ z.life = x.life
    BY <1>4 DEF Keeps
  <1>6. Knows(z, r, f)
    BY <1>2, <1>4, <1>5 DEF Knows
  <1>7. Keeps(x, z, {"throttled_by_backlog", "all_throttled", "eof_pending", "got_pty",
                     "lost", "specials", "reading", "eof_sent"})
    BY <1>4 DEF Keeps
  <1>8. Good(z, r, p, 0, f)
    BY <1>2, <1>6, <1>7, LocalGood
  <1>9. /\ Good(y, r, p, 0, TRUE) /\ Later(z, y)
        /\ Keeps(z, y, {"tx", "closes", "pending_eof"})
    <2>1. y = ssh2channel_write_eof(z)
      BY <1>3
    <2>2. z.chan # "zombie" /\ z.life \in {"half", "open"}
      BY <1>5
    <2> QED
      BY <1>8, <2>1, <2>2, WriteEofGood
  <1>10. Good(y, r, p, 0, FALSE)
    <2>1. /\ y.chan = x.chan /\ y.x11 = "connected" /\ y.bugs = x.bugs /\ y.fixed = x.fixed
          /\ y.eof_sent = TRUE
      BY <1>4, <1>5, <1>9 DEF Keeps
    <2>2. Knows(y, r, FALSE)
      BY <1>2, <2>1 DEF Knows
    <2> QED
      BY <1>9, <2>2, GoodDone
  <1>11. /\ y.simple = x.simple /\ y.locmaxwin = x.locmaxwin
         /\ y.locwindow = x.locwindow /\ y.backlog = x.backlog
         /\ y.life = x.life /\ y.fixed = x.fixed
         /\ y.remwindow = x.remwindow /\ y.outbuffer = x.outbuffer
    <2>1. /\ z.simple = x.simple /\ z.locmaxwin = x.locmaxwin
          /\ z.locwindow = x.locwindow /\ z.backlog = x.backlog
          /\ z.life = x.life /\ z.fixed = x.fixed
          /\ z.remwindow = x.remwindow /\ z.outbuffer = x.outbuffer
      BY <1>4 DEF Keeps
    <2> QED
      BY <1>9, <2>1 DEF Keeps
  <1> QED
    BY <1>2, <1>5, <1>9, <1>10, <1>11, BetweenLocal DEF Quiet, Sent, Later

(* The local socket has failed.                                            *)
LEMMA SocketErrorGood ==
    ASSUME NEW x, NEW z, NEW y, NEW r, NEW p, NEW silent,
           Between(x, r, p), x.chan \in {"fwd", "x11"}, x.life \in {"half", "open"},
           x.x11 = "connected", x.fault = "none",
           silent = (x.chan = "x11" /\ x.written = 0),
           silent => SENT_EOF \notin x.closes,
           z = IF silent THEN x11_send_init_error(x) ELSE x,
           y = IF z.fault = "none" THEN ssh2channel_initiate_close(z) ELSE z
    PROVE  Between(y, r, p)
  <1>1. PICK f : f = FALSE
    OBVIOUS
  <1>2. /\ Good(x, r, p, 0, f) /\ DOMAIN x = Fields /\ Sent(x) /\ Phase(x, r, p)
    BY <1>1, GoodTold DEF Between, Good
  <1>3. PICK g : Good(z, r, p, 0, g) /\ Later(x, z) /\ Sent(z) /\ Keeps(x, z, Refusal)
    <2>1. CASE silent
      <3>1. x.life = "open" /\ x.chan # "zombie" /\ SENT_EOF \notin x.closes
        BY <1>2, <2>1 DEF Phase
      <3>2. z = x11_send_init_error(x)
        BY <2>1
      <3>3. Good(z, r, p, 0, TRUE) /\ Later(x, z) /\ Sent(z) /\ Keeps(x, z, Refusal)
        BY <1>2, <3>1, <3>2, InitErrorGood
      <3> QED
        BY <3>3
    <2>2. CASE ~silent
      <3>1. z = x
        BY <2>2
      <3> QED
        BY <1>2, <3>1 DEF Later, Keeps
    <2> QED
      BY <2>1, <2>2
  <1>4. /\ z.life = x.life /\ z.chan = x.chan /\ z.x11 = x.x11 /\ z.fault = x.fault
        /\ z.simple = x.simple /\ z.locmaxwin = x.locmaxwin
        /\ z.locwindow = x.locwindow /\ z.backlog = x.backlog /\ z.fixed = x.fixed
    BY <1>3 DEF Keeps, Refusal
  <1>5. y = ssh2channel_initiate_close(z)
    BY <1>4
  <1>6. /\ Good(y, r, p, 0, FALSE) /\ Later(z, y)
        /\ Keeps(z, y, {"tx", "closes", "pending_eof", "life", "chan", "fixed"})
        /\ RCVD_CLOSE \notin z.closes => Keeps(z, y, {"tx", "closes", "pending_eof", "chan"})
    BY <1>3, <1>4, <1>5, InitiateCloseGood
  <1>7. Sent(y)
    <2>1. y.remwindow = z.remwindow /\ y.outbuffer = z.outbuffer
      BY <1>6 DEF Keeps
    <2> QED
      BY <1>3, <2>1 DEF Sent
  <1>8. Quiet(x, y)
    <2>1. /\ y.simple = x.simple /\ y.locmaxwin = x.locmaxwin
          /\ y.locwindow = x.locwindow /\ y.backlog = x.backlog
      BY <1>4, <1>6 DEF Keeps
    <2>2. x.closes \subseteq y.closes
      BY <1>3, <1>6 DEF Later
    <2>3. RCVD_EOF \notin y.closes => RCVD_CLOSE \notin z.closes
      BY <1>3, <1>6 DEF Good, Incoming, Later
    <2>4. RCVD_EOF \notin y.closes => y.life = x.life /\ y.fixed = x.fixed
      BY <1>4, <1>6, <2>3 DEF Keeps
    <2> QED
      BY <2>1, <2>2, <2>4 DEF Quiet
  <1> QED
    BY <1>6, <1>7, <1>8, BetweenLocal

(* The local end works off its backlog.                                    *)
LEMMA ConsumeGood ==
    ASSUME NEW x, NEW y, NEW r, NEW p, NEW bufsize \in Nat,
           Between(x, r, p), x.life \in {"half", "open"}, bufsize < x.backlog,
           y = ssh2channel_unthrottle([x EXCEPT !.backlog = bufsize], bufsize)
    PROVE  Between(y, r, p)
  <1>1. PICK f : f = FALSE
    OBVIOUS
  <1>2. /\ Good(x, r, p, 0, f) /\ DOMAIN x = Fields /\ Sent(x) /\ Typed(x)
        /\ Phase(x, r, p) /\ Knows(x, r, f) /\ Incoming(x, r, p)
    BY <1>1, GoodTold DEF Between, Good
  <1>3. x.life = "open"
    <2>1. x.backlog \in Nat
      BY <1>2 DEF Typed
    <2>2. x.backlog # 0
      BY <2>1
    <2> QED
      BY <1>2, <2>2 DEF Phase, Untouched
  <1>4. PICK z : z = [x EXCEPT !.backlog = bufsize]
    OBVIOUS
  <1>5. Keeps(x, z, {"backlog"}) /\ z.backlog = bufsize
    BY <1>2, <1>4 DEF Keeps, Fields
  <1>6. /\ z.simple = x.simple /\ z.locmaxwin = x.locmaxwin
        /\ z.locwindow = x.locwindow /\ z.closes = x.closes
        /\ z.life = "open" /\ z.fixed = x.fixed
        /\ z.remwindow = x.remwindow /\ z.outbuffer = x.outbuffer
    BY <1>3, <1>5 DEF Keeps
  <1>7. Good(z, r, p, 0, f)
    <2>1. /\ z.remlocwin = x.remlocwin /\ z.throttle_state = x.throttle_state
          /\ z.throttling_conn = x.throttling_conn /\ z.throttle_count = x.throttle_count
          /\ z.x11 = x.x11 /\ z.fault = x.fault /\ z.chan = x.chan /\ z.bugs = x.bugs
          /\ z.reading = x.reading /\ z.eof_sent = x.eof_sent
          /\ z.pending_eof = x.pending_eof
      BY <1>5 DEF Keeps
    <2>2. z.backlog \in Nat /\ z.backlog <= x.backlog
      <3>1. x.backlog \in Nat
        BY <1>2 DEF Typed
      <3> QED
        BY <1>5, <3>1
    <2>3. Keeps(x, z, {"throttled_by_backlog", "all_throttled", "eof_pending", "got_pty",
                       "lost", "specials", "remlocwin", "locmaxwin", "throttle_state",
                       "throttling_conn", "throttle_count", "reading", "ready", "eof_sent",
                       "x11", "fixed", "fault", "backlog"})
      BY <1>5 DEF Keeps
    <2>4. Sets(x, z)
      BY <1>2, <1>3, <1>6, <2>1, <2>2, <2>3 DEF Sets, Typed
    <2>5. Knows(z, r, f)
      BY <1>2, <1>6, <2>1, KnowsSame
    <2> QED
      BY <1>2, <2>4, <2>5, SetGood
  <1>8. /\ Good(y, r, p, 0, f) /\ Keeps(z, y, Unthrottled)
        /\ z.simple => y.locwindow = z.locwindow
        /\ /\ ~z.simple /\ bufsize < z.locmaxwin /\ ~z.fixed
           /\ {RCVD_EOF, SENT_CLOSE} \cap z.closes = {}
           => y.locwindow > 0
    <2>1. y = ssh2channel_unthrottle(z, bufsize)
      BY <1>4
    <2> QED
      BY <1>6, <1>7, <2>1, UnthrottleGood
  <1>9. /\ y.simple = x.simple /\ y.locmaxwin = x.locmaxwin
        /\ y.backlog = bufsize /\ y.closes = x.closes
        /\ y.life = "open" /\ y.fixed = x.fixed
        /\ y.remwindow = x.remwindow /\ y.outbuffer = x.outbuffer
    BY <1>5, <1>6, <1>8 DEF Keeps, Unthrottled, Window
  <1>10. Sent(y) /\ Closing(y, r, p)
    BY <1>2, <1>9 DEF Sent, Between, Closing
  <1>11. Roomy => Reopened(y)
    <2>1. SUFFICES ASSUME Roomy PROVE Reopened(y)
      OBVIOUS
    <2>2. Reopened(x)
      BY <2>1 DEF Between
    <2>3. ASSUME ~y.fixed, {RCVD_EOF, SENT_CLOSE} \cap y.closes = {}
          PROVE  y.locwindow > 0 \/ y.backlog >= y.locmaxwin
      <3>1. CASE x.simple
        <4>1. y.locwindow = x.locwindow
          BY <1>6, <1>8, <3>1
        <4>2. x.locwindow > 0 \/ x.backlog >= x.locmaxwin
          BY <1>3, <1>9, <2>2, <2>3 DEF Reopened
        <4>3. PICK k \in Nat, b \in Nat, l \in Nat, m \in Nat :
                 /\ k = x.locmaxwin /\ b = OUR_V2_BIGWIN
                 /\ l = x.backlog /\ m = MaxIn
          BY <1>2, BoundsAssumption DEF Typed
        <4>4. k >= b
          BY <2>2, <3>1, <4>3 DEF Reopened
        <4>5. m < b
          BY <2>1, <4>3 DEF Roomy
        <4>6. l <= m
          <5>1. x.got \in Nat /\ p.sent \in Nat /\ p.room \in Nat /\ Sizes(r, "DATA") \in Nat
            BY <1>2, GoodNumbers
          <5>2. l <= x.got /\ x.got + Sizes(r, "DATA") <= p.sent /\ p.sent + p.room <= m
            BY <1>2, <4>3 DEF Incoming
          <5> QED
            BY <5>1, <5>2
        <4>7. ~(l >= k)
          BY <4>4, <4>5, <4>6
        <4> QED
          BY <4>1, <4>2, <4>3, <4>7
      <3>2. CASE ~x.simple
        <4>1. bufsize < x.locmaxwin \/ bufsize >= x.locmaxwin
          <5>1. x.locmaxwin \in Nat
            BY <1>2 DEF Typed
          <5> QED
            BY <5>1
        <4>2. bufsize < x.locmaxwin => y.locwindow > 0
          BY <1>6, <1>8, <1>9, <2>3, <3>2
        <4> QED
          BY <1>9, <4>1, <4>2
      <3> QED
        BY <3>1, <3>2
    <2> QED
      BY <1>9, <2>2, <2>3 DEF Reopened
  <1> QED
    BY <1>1, <1>8, <1>10, <1>11 DEF Between

(* The SSH connection backs up, or is free again.                          *)
LEMMA ThrottleAllGood ==
    ASSUME NEW x, NEW y, NEW r, NEW p, NEW throttled,
           Between(x, r, p), x.life \in {"half", "open"},
           y = ssh2_channel_check_throttle([x EXCEPT !.all_throttled = throttled])
    PROVE  Between(y, r, p)
  <1>1. PICK f : f = FALSE
    OBVIOUS
  <1>2. Good(x, r, p, 0, f) /\ DOMAIN x = Fields /\ Sent(x)
    BY <1>1, GoodTold DEF Between
  <1>3. PICK z : z = [x EXCEPT !.all_throttled = throttled]
    OBVIOUS
  <1>4. Keeps(x, z, {"all_throttled"})
    BY <1>2, <1>3 DEF Keeps, Fields
  <1>5. Keeps(x, z, {"throttled_by_backlog", "all_throttled", "eof_pending", "got_pty",
                     "lost", "specials"})
    BY <1>4 DEF Keeps
  <1>6. Good(z, r, p, 0, f) /\ z.life \in {"half", "open"}
    BY <1>2, <1>4, <1>5, AsideGood DEF Keeps
  <1>7. Good(y, r, p, 0, f) /\ Keeps(z, y, {"reading"})
    <2>1. y = ssh2_channel_check_throttle(z)
      BY <1>3
    <2> QED
      BY <1>6, <2>1, CheckThrottleGood
  <1>8. /\ y.simple = x.simple /\ y.locmaxwin = x.locmaxwin
        /\ y.locwindow = x.locwindow /\ y.backlog = x.backlog
        /\ y.life = x.life /\ y.fixed = x.fixed /\ y.closes = x.closes
        /\ y.remwindow = x.remwindow /\ y.outbuffer = x.outbuffer
    <2>1. /\ z.simple = x.simple /\ z.locmaxwin = x.locmaxwin
          /\ z.locwindow = x.locwindow /\ z.backlog = x.backlog
          /\ z.life = x.life /\ z.fixed = x.fixed /\ z.closes = x.closes
          /\ z.remwindow = x.remwindow /\ z.outbuffer = x.outbuffer
      BY <1>4 DEF Keeps
    <2> QED
      BY <1>7, <2>1 DEF Keeps
  <1> QED
    BY <1>1, <1>2, <1>7, <1>8, BetweenLocal DEF Quiet, Sent
-----------------------------------------------------------------------------
(* The peer takes a packet.                                                *)

LEMMA TxOpen ==
    ASSUME NEW x, NEW r, NEW p, NEW w, NEW e, NEW q, NEW a,
           Good(x, r, p, w, e), Took(x.tx, q, a), a.t \in Body
    PROVE  /\ p.state = "open" /\ Opened(x, r) /\ x.life \in {"open", "freed"}
           /\ Only(x.tx, Body) /\ Only(r, Body)
           /\ ~p.gotClose
  <1>0. Phase(x, r, p) /\ PeerTyped(p) /\ Outgoing(x, p)
    BY DEF Good
  <1>1. /\ x.tx # << >> /\ x.tx[1] = a /\ 1 \in 1..Len(x.tx)
        /\ a.t \notin {"OPEN", "CONFIRMATION", "REFUSAL"}
    BY DEF Took, Body, Replies
  <1>2. ~Opening(x, r) /\ ~Refused(x, r)
    BY <1>1 DEF Opening, Refused, Packet
  <1>3. p.state = "open" /\ Opened(x, r)
    BY <1>0, <1>2 DEF Phase, PeerTyped
  <1> QED
    BY <1>0, <1>1, <1>3 DEF Opened, Outgoing

(* What the peer knows when it has the packet.                             *)
Gets(p, q, a) ==
    /\ DOMAIN q = PeerFields /\ q.state = p.state /\ q.sent = p.sent /\ q.room = p.room
    /\ q.grants = p.grants /\ q.eof = p.eof /\ q.close = p.close /\ q.gotClose = p.gotClose
    /\ q.got = p.got + Size(a, "DATA") /\ q.recvwin = p.recvwin - Size(a, "DATA")
    /\ q.sendwin = p.sendwin + Size(a, "ADJUST")
    /\ q.gotEof \in BOOLEAN /\ (q.gotEof => p.gotEof \/ a.t = "EOF")

LEMMA PeerTakeGood ==
    ASSUME NEW x, NEW y, NEW r, NEW p, NEW q, NEW e, NEW a,
           Good(x, r, p, 0, e), Took(x.tx, y.tx, a), a.t \in Body,
           Keeps(x, y, {"tx"}), Gets(p, q, a)
    PROVE  Good(y, r, q, 0, e) /\ Awaited(y, r, q, Want(a))
  <1>0. /\ Typed(x) /\ PeerTyped(p) /\ r \in Seq(Packets)
        /\ Phase(x, r, p) /\ Incoming(x, r, p) /\ Outgoing(x, p)
        /\ Windows(x, r, p) /\ Listed(x, 0) /\ Awaited(x, r, p, 0)
        /\ Forgotten(x, r, p) /\ Knows(x, r, e)
    BY DEF Good
  <1>1. /\ DOMAIN y = Fields /\ y.life = x.life /\ y.pending_eof = x.pending_eof
        /\ y.throttling_conn = x.throttling_conn /\ y.throttle_count = x.throttle_count
        /\ y.closes = x.closes /\ y.eofs = x.eofs /\ y.outbuffer = x.outbuffer
        /\ y.remwindow = x.remwindow /\ y.locwindow = x.locwindow
        /\ y.remlocwin = x.remlocwin /\ y.backlog = x.backlog /\ y.req = x.req
        /\ y.got = x.got
        /\ y.locmaxwin = x.locmaxwin /\ y.throttle_state = x.throttle_state
        /\ y.chanreqs = x.chanreqs /\ y.chan = x.chan /\ y.bugs = x.bugs
        /\ y.user_input = x.user_input
        /\ y.written = x.written /\ y.ready = x.ready
        /\ y.x11 = x.x11 /\ y.fixed = x.fixed
        /\ y.fault = x.fault /\ y.simple = x.simple
        /\ y.reading = x.reading /\ y.eof_sent = x.eof_sent
    BY DEF Keeps
  <1>2. /\ DOMAIN q = PeerFields /\ q.state = p.state /\ q.sent = p.sent /\ q.room = p.room
        /\ q.grants = p.grants /\ q.eof = p.eof /\ q.close = p.close
        /\ q.gotClose = p.gotClose
    BY DEF Gets
  <1>3. /\ q.got = p.got + Size(a, "DATA") /\ q.recvwin = p.recvwin - Size(a, "DATA")
        /\ q.sendwin = p.sendwin + Size(a, "ADJUST")
    BY DEF Gets
  <1>4. q.gotEof \in BOOLEAN /\ (q.gotEof => p.gotEof \/ a.t = "EOF")
    BY DEF Gets
  <1>5. /\ p.state = "open" /\ Opened(x, r) /\ x.life \in {"open", "freed"}
        /\ Only(x.tx, Body) /\ Only(r, Body) /\ ~p.gotClose
    BY TxOpen
  <1>6. /\ Sizes(x.tx, "DATA") = Size(a, "DATA") + Sizes(y.tx, "DATA")
        /\ Sizes(x.tx, "ADJUST") = Size(a, "ADJUST") + Sizes(y.tx, "ADJUST")
        /\ Wanted(x.tx) = Want(a) + Wanted(y.tx)
    BY TakeCounts
  <1>7. y.tx \in Seq(Packets) /\ a \in Packets
    BY DEF Took
  <1>8. /\ Sizes(y.tx, "DATA") \in Nat /\ Sizes(y.tx, "ADJUST") \in Nat
        /\ Wanted(y.tx) \in Nat
    BY <1>7, CountsNat
  <1>9. /\ Size(a, "DATA") \in Nat /\ Size(a, "ADJUST") \in Nat /\ Want(a) \in Nat
    BY <1>7 DEF Size, Want, Packets
  <1>10. PICK d \in Nat, g \in Nat, k \in Nat, l \in Nat :
            /\ d = Size(a, "DATA") /\ g = Size(a, "ADJUST")
            /\ k = Sizes(y.tx, "DATA") /\ l = Sizes(y.tx, "ADJUST")
    BY <1>8, <1>9
  <1>11. Sizes(x.tx, "DATA") = d + k /\ Sizes(x.tx, "ADJUST") = g + l
    BY <1>6, <1>10
  <1>12. /\ x.remwindow \in Nat /\ x.locwindow \in Nat /\ x.written \in Nat
         /\ x.outbuffer \in Nat /\ p.got \in Nat
         /\ p.recvwin \in Nat /\ p.sendwin \in Nat
         /\ Sizes(r, "DATA") \in Nat /\ Sizes(r, "ADJUST") \in Nat /\ Answers(r) \in Nat
    BY GoodNumbers, Zenon
  <1>13. /\ \A i \in 1..Len(y.tx) : y.tx[i] = x.tx[i + 1] /\ i + 1 \in 1..Len(x.tx)
         /\ \A i, j \in 1..Len(y.tx) : i < j => i + 1 < j + 1
         /\ \A j \in 1..Len(y.tx) : 1 < j + 1
         /\ 1 \in 1..Len(x.tx) /\ x.tx[1] = a
    BY DEF Took
  <1>14. \A t : Has(y.tx, t) => Has(x.tx, t)
    BY <1>13 DEF Has
  <1>15. q.got \in Nat /\ q.recvwin \in Nat /\ q.sendwin \in Nat /\ k <= q.recvwin
    <2>1. d + k <= p.recvwin
      BY <1>0, <1>11 DEF Windows
    <2>2. q.got = p.got + d /\ q.recvwin = p.recvwin - d /\ q.sendwin = p.sendwin + g
      BY <1>3, <1>10
    <2> QED
      BY <1>12, <2>1, <2>2
  <1>16. Typed(y)
    BY <1>0, <1>1, <1>7 DEF Typed
  <1>17. PeerTyped(q)
    BY <1>0, <1>2, <1>4, <1>15 DEF PeerTyped
  <1>18. Phase(y, r, q)
    <2>1. Only(y.tx, Body)
      BY <1>5, <1>13 DEF Only
    <2>2. Opened(y, r)
      BY <1>1, <1>5, <2>1 DEF Opened
    <2> QED
      BY <1>1, <1>2, <1>5, <2>2 DEF Phase
  <1>19. Incoming(y, r, q)
    BY <1>0, <1>1, <1>2 DEF Incoming
  <1>20. Outgoing(y, q)
    <2>1. ASSUME NEW i \in 1..Len(y.tx), NEW j \in 1..Len(y.tx), i < j
          PROVE  y.tx[i].t # "CLOSE" /\ (y.tx[i].t = "EOF" => y.tx[j].t # "DATA")
      <3>1. PICK u \in 1..Len(x.tx), v \in 1..Len(x.tx) : u < v /\ y.tx[i] = x.tx[u] /\ y.tx[j] = x.tx[v]
        BY <1>13, <2>1
      <3> QED
        BY <1>0, <3>1 DEF Outgoing
    <2>2. ASSUME q.gotEof PROVE ~Has(y.tx, {"DATA"})
      <3>1. CASE p.gotEof
        BY <1>0, <1>14, <3>1 DEF Outgoing
      <3>2. CASE a.t = "EOF"
        <4>1. ASSUME NEW j \in 1..Len(y.tx) PROVE y.tx[j].t # "DATA"
          <5>1. PICK u \in 1..Len(x.tx), v \in 1..Len(x.tx) :
                   u < v /\ x.tx[u].t = "EOF" /\ y.tx[j] = x.tx[v]
            BY <1>13, <3>2, <4>1
          <5> QED
            BY <1>0, <5>1 DEF Outgoing
        <4> QED
          BY <4>1 DEF Has
      <3> QED
        BY <1>4, <2>2, <3>1, <3>2
    <2>3. Has(y.tx, {"CLOSE"}) \/ q.gotClose => SENT_CLOSE \in y.closes
      BY <1>0, <1>1, <1>2, <1>14 DEF Outgoing
    <2>4. Has(y.tx, {"EOF"}) \/ q.gotEof => SENT_EOF \in y.closes /\ y.outbuffer = 0
      <3>1. a.t = "EOF" => Has(x.tx, {"EOF"})
        BY <1>13 DEF Has
      <3> QED
        BY <1>0, <1>1, <1>4, <1>14, <3>1 DEF Outgoing
    <2>5. /\ SENT_CLOSE \in y.closes => SENT_EOF \in y.closes /\ y.chanreqs = << >>
          /\ y.pending_eof => SENT_EOF \notin y.closes /\ y.chan # "zombie"
      BY <1>0, <1>1 DEF Outgoing
    <2>6. ASSUME ~q.close PROVE q.got + Sizes(y.tx, "DATA") + y.outbuffer = y.written
      <3>1. p.got + (d + k) + x.outbuffer = x.written
        BY <1>0, <1>2, <1>11, <2>6 DEF Outgoing
      <3>2. q.got = p.got + d
        BY <1>3, <1>10
      <3>3. q.got + k + x.outbuffer = x.written
        BY <1>12, <3>1, <3>2
      <3> QED
        BY <1>1, <1>10, <3>3
    <2> QED
      BY <1>2, <1>5, <2>1, <2>2, <2>3, <2>4, <2>5, <2>6 DEF Outgoing
  <1>21. Windows(y, r, q)
    <2>1. Sizes(y.tx, "DATA") <= q.recvwin
      BY <1>10, <1>15
    <2>2. ASSUME y.life = "open", SENT_EOF \notin y.closes
          PROVE  y.remwindow + Sizes(y.tx, "DATA") + Sizes(r, "ADJUST") = q.recvwin
      <3>1. x.remwindow + (d + k) + Sizes(r, "ADJUST") = p.recvwin
        BY <1>0, <1>1, <1>11, <2>2 DEF Windows
      <3>2. q.recvwin = p.recvwin - d
        BY <1>3, <1>10
      <3>3. x.remwindow + k + Sizes(r, "ADJUST") = q.recvwin
        BY <1>12, <3>1, <3>2
      <3> QED
        BY <1>1, <1>10, <3>3
    <2>3. ASSUME y.life = "open"
          PROVE  y.locwindow = q.sendwin + Sizes(r, "DATA") + Sizes(y.tx, "ADJUST")
      <3>1. x.locwindow = p.sendwin + Sizes(r, "DATA") + (g + l)
        BY <1>0, <1>1, <1>5, <1>11, <2>3 DEF Windows
      <3>2. q.sendwin = p.sendwin + g
        BY <1>3, <1>10
      <3>3. x.locwindow = q.sendwin + Sizes(r, "DATA") + l
        BY <1>12, <3>1, <3>2
      <3> QED
        BY <1>1, <1>10, <3>3
    <2>4. y.life \in {"open", "freed"} /\ q.state = "open"
      BY <1>1, <1>2, <1>5
    <2> QED
      BY <2>1, <2>2, <2>3, <2>4 DEF Windows
  <1>22. Listed(y, 0)
    BY <1>0, <1>1, ListedSame
  <1>23. Awaited(y, r, q, Want(a)) /\ Awaited(y, r, q, 0)
    <2>1. SUFFICES ASSUME ~q.close \/ Has(r, {"CLOSE"}) \/ "late" \in y.bugs
                   PROVE  /\ Answers(r) + Wanted(y.tx) + Want(a) <= Len(y.chanreqs)
                          /\ Answers(r) + Wanted(y.tx) + 0 <= Len(y.chanreqs)
      BY DEF Awaited
    <2>2. Answers(r) + Wanted(x.tx) + 0 <= Len(x.chanreqs)
      BY <1>0, <1>1, <1>2, <2>1 DEF Awaited
    <2>3. x.chanreqs \in Seq(Requests)
      BY <1>0 DEF Typed
    <2>4. PICK n \in Nat : n = Len(x.chanreqs)
      BY <2>3
    <2>5. Answers(r) + Wanted(x.tx) + 0 <= n
      BY <2>2, <2>4, Zenon
    <2>6. /\ Answers(r) + Wanted(y.tx) + Want(a) <= n
          /\ Answers(r) + Wanted(y.tx) + 0 <= n
      BY <1>6, <1>8, <1>9, <1>12, <2>5
    <2> QED
      BY <1>1, <2>4, <2>6, Zenon
  <1>24. Forgotten(y, r, q)
    BY <1>0, <1>1, <1>2 DEF Forgotten
  <1>25. Knows(y, r, e)
    BY <1>0, <1>1, KnowsSame
  <1> QED
    BY <1>0, <1>16, <1>17, <1>18, <1>19, <1>20, <1>21, <1>22, <1>23, <1>24, <1>25 DEF Good
(* The peer sends a packet for the open channel.                           *)
SendsBack(x, r, p, q, b) ==
    /\ b \in Packets /\ b.t \in Body
    /\ DOMAIN q = PeerFields /\ q.state = p.state
    /\ q.got = p.got /\ q.gotEof = p.gotEof /\ q.gotClose = p.gotClose
    /\ q.sent = p.sent + Size(b, "DATA") /\ q.room = p.room - Size(b, "DATA")
    /\ q.sendwin = p.sendwin - Size(b, "DATA")
    /\ q.recvwin = p.recvwin + Size(b, "ADJUST")
    /\ q.room \in Nat /\ q.sendwin \in Nat /\ q.grants \in Nat
    /\ q.eof \in BOOLEAN /\ q.close \in BOOLEAN
    /\ p.eof \/ b.t = "EOF" => q.eof
    /\ p.close \/ b.t = "CLOSE" => q.close
    /\ q.close => p.close \/ b.t = "CLOSE"
    /\ b.t \in {"DATA", "EOF"} => ~p.eof
    /\ b.t \notin Replies => ~p.close
    /\ b.t \in Replies => /\ x.life = "open" /\ Awaited(x, r, p, 1)
                          /\ ~p.close \/ "late" \in x.bugs
    /\ b.t = "DATA" => x.x11 \notin {"refused", "unreachable"}

LEMMA PeerSendGood ==
    ASSUME NEW x, NEW r, NEW s, NEW p, NEW q, NEW e, NEW b,
           Good(x, r, p, 0, e), Pushed(r, s, b), p.state = "open",
           x.life \in {"half", "open"}, SendsBack(x, r, p, q, b)
    PROVE  Good(x, s, q, 0, e)
  <1>0. /\ Typed(x) /\ PeerTyped(p) /\ r \in Seq(Packets)
        /\ Phase(x, r, p) /\ Incoming(x, r, p) /\ Outgoing(x, p)
        /\ Windows(x, r, p) /\ Listed(x, 0) /\ Awaited(x, r, p, 0)
        /\ Forgotten(x, r, p) /\ Knows(x, r, e)
    BY DEF Good
  <1>1. /\ b.t \in Body /\ b \in Packets
        /\ DOMAIN q = PeerFields /\ q.state = "open"
        /\ q.got = p.got /\ q.gotEof = p.gotEof /\ q.gotClose = p.gotClose
        /\ q.room \in Nat /\ q.sendwin \in Nat /\ q.grants \in Nat
        /\ q.eof \in BOOLEAN /\ q.close \in BOOLEAN
    BY DEF SendsBack
  <1>2. /\ q.sent = p.sent + Size(b, "DATA") /\ q.room = p.room - Size(b, "DATA")
        /\ q.sendwin = p.sendwin - Size(b, "DATA")
        /\ q.recvwin = p.recvwin + Size(b, "ADJUST")
    BY DEF SendsBack
  <1>3. /\ p.eof \/ b.t = "EOF" => q.eof
        /\ p.close \/ b.t = "CLOSE" => q.close
        /\ q.close => p.close \/ b.t = "CLOSE"
        /\ b.t \in {"DATA", "EOF"} => ~p.eof
        /\ b.t \notin Replies => ~p.close
    BY DEF SendsBack
  <1>4. /\ b.t \in Replies => /\ x.life = "open" /\ Awaited(x, r, p, 1)
                              /\ ~p.close \/ "late" \in x.bugs
        /\ b.t = "DATA" => x.x11 \notin {"refused", "unreachable"}
    BY DEF SendsBack
  <1>5. /\ s \in Seq(Packets) /\ Len(r) \in Nat /\ Len(s) = Len(r) + 1
        /\ \A i \in 1..Len(s) : i \in 1..Len(r) \/ i = Len(r) + 1
        /\ \A i \in 1..Len(r) : s[i] = r[i]
        /\ s[Len(r) + 1] = b /\ s # << >>
    BY DEF Pushed
  <1>6. \A T : Has(s, T) => Has(r, T) \/ b.t \in T
    BY <1>5 DEF Has
  <1>7. \A T : Only(r, T) /\ b.t \in T => Only(s, T)
    BY <1>5 DEF Only
  <1>8. /\ Sizes(s, "DATA") = Sizes(r, "DATA") + Size(b, "DATA")
        /\ Sizes(s, "ADJUST") = Sizes(r, "ADJUST") + Size(b, "ADJUST")
        /\ Answers(s) = Answers(r) + Answer(b)
    BY PushCounts
  <1>9. /\ x.remwindow \in Nat /\ x.locwindow \in Nat /\ x.got \in Nat
        /\ p.recvwin \in Nat /\ p.sendwin \in Nat /\ p.sent \in Nat /\ p.room \in Nat
        /\ Sizes(r, "DATA") \in Nat /\ Sizes(r, "ADJUST") \in Nat
        /\ Sizes(x.tx, "DATA") \in Nat /\ Sizes(x.tx, "ADJUST") \in Nat
        /\ Wanted(x.tx) \in Nat /\ Answers(r) \in Nat
    BY GoodNumbers, Zenon
  <1>10. Size(b, "DATA") \in Nat /\ Size(b, "ADJUST") \in Nat
    BY <1>1 DEF Size, Packets
  <1>11. PICK d \in Nat, g \in Nat, m \in Nat, n \in Nat, k \in Nat, l \in Nat :
            /\ d = Size(b, "DATA") /\ g = Size(b, "ADJUST")
            /\ m = Sizes(r, "DATA") /\ n = Sizes(r, "ADJUST")
            /\ k = Sizes(x.tx, "DATA") /\ l = Sizes(x.tx, "ADJUST")
    BY <1>9, <1>10
  <1>12. Sizes(s, "DATA") = m + d /\ Sizes(s, "ADJUST") = n + g
    BY <1>8, <1>11
  <1>13. /\ q.sent = p.sent + d /\ q.room = p.room - d
         /\ q.sendwin = p.sendwin - d /\ q.recvwin = p.recvwin + g
    BY <1>2, <1>11
  <1>14. PeerTyped(q)
    <2>1. q.sent \in Nat /\ q.recvwin \in Nat
      BY <1>9, <1>11, <1>13
    <2> QED
      BY <1>0, <1>1, <2>1 DEF PeerTyped
  <1>15. Phase(x, s, q)
    <2>1. Opened(x, r)
      BY <1>0 DEF Phase
    <2>2. Opened(x, s)
      <3>1. CASE x.life = "half"
        <4>1. r # << >> /\ r[1] = Bytes("CONFIRMATION", RemWin) /\ x.tx = << >>
              /\ \A i \in 1..Len(r) : i = 1 \/ r[i].t \in Body \ Replies
          BY <2>1, <3>1 DEF Opened
        <4>2. b.t \in Body \ Replies
          BY <1>1, <1>4, <3>1
        <4>3. s[1] = r[1]
          BY <1>0, <1>5, <4>1
        <4>4. \A i \in 1..Len(s) : i = 1 \/ s[i].t \in Body \ Replies
          BY <1>5, <4>1, <4>2
        <4> QED
          BY <1>5, <3>1, <4>1, <4>3, <4>4 DEF Opened
      <3>2. CASE x.life = "open"
        BY <1>1, <1>7, <2>1, <3>2 DEF Opened
      <3> QED
        BY <3>1, <3>2
    <2> QED
      BY <1>0, <1>1, <2>2 DEF Phase
  <1>16. Incoming(x, s, q)
    <2>1. ASSUME NEW i \in 1..Len(s), NEW j \in 1..Len(s), i < j
          PROVE  /\ s[i].t = "EOF" => s[j].t \notin {"DATA", "EOF"}
                 /\ s[i].t = "CLOSE" => s[j].t \in Replies /\ "late" \in x.bugs
      <3>1. CASE j \in 1..Len(r)
        <4>1. i \in 1..Len(r) /\ s[i] = r[i] /\ s[j] = r[j]
          BY <1>5, <2>1, <3>1
        <4> QED
          BY <1>0, <2>1, <3>1, <4>1 DEF Incoming
      <3>2. CASE j = Len(r) + 1
        <4>1. i \in 1..Len(r) /\ s[i] = r[i] /\ s[j] = b
          BY <1>5, <2>1, <3>2
        <4>2. ASSUME s[i].t = "EOF" PROVE b.t \notin {"DATA", "EOF"}
          <5>1. Has(r, {"EOF"})
            BY <4>1, <4>2 DEF Has
          <5> QED
            BY <1>0, <1>3, <5>1 DEF Incoming
        <4>3. ASSUME s[i].t = "CLOSE" PROVE b.t \in Replies /\ "late" \in x.bugs
          <5>1. Has(r, {"CLOSE"})
            BY <4>1, <4>3 DEF Has
          <5>2. p.close
            BY <1>0, <5>1 DEF Incoming
          <5> QED
            BY <1>3, <1>4, <5>2
        <4> QED
          BY <4>1, <4>2, <4>3
      <3> QED
        BY <1>5, <2>1, <3>1, <3>2
    <2>2. ASSUME RCVD_EOF \in x.closes
          PROVE  ~Has(s, {"DATA", "EOF"}) /\ (q.eof \/ q.close)
      <3>1. ~Has(r, {"DATA", "EOF"}) /\ (p.eof \/ p.close)
        BY <1>0, <2>2 DEF Incoming
      <3>2. b.t \notin {"DATA", "EOF"}
        BY <1>3, <3>1 DEF Replies
      <3> QED
        BY <1>3, <1>6, <3>1, <3>2
    <2>3. ASSUME RCVD_CLOSE \in x.closes
          PROVE  /\ RCVD_EOF \in x.closes /\ SENT_EOF \in x.closes /\ q.close
                 /\ Only(s, Replies)
                 /\ "late" \notin x.bugs => s = << >>
      <3>1. /\ RCVD_EOF \in x.closes /\ SENT_EOF \in x.closes /\ p.close
            /\ Only(r, Replies)
        BY <1>0, <2>3 DEF Incoming
      <3>2. b.t \in Replies /\ "late" \in x.bugs
        BY <1>3, <1>4, <3>1
      <3> QED
        BY <1>3, <1>7, <3>1, <3>2
    <2>4. /\ Has(s, {"EOF"}) => q.eof
          /\ Has(s, {"CLOSE"}) => q.close
      <3>1. b.t \in {"EOF"} => q.eof
        BY <1>3
      <3>2. b.t \in {"CLOSE"} => q.close
        BY <1>3
      <3> QED
        BY <1>0, <1>3, <1>6, <3>1, <3>2 DEF Incoming
    <2>5. /\ x.got + Sizes(s, "DATA") <= q.sent
          /\ x.chan # "zombie" => x.got + Sizes(s, "DATA") = q.sent
          /\ q.sent + q.room <= MaxIn
      <3>1. /\ x.got + m <= p.sent
            /\ x.chan # "zombie" => x.got + m = p.sent
        BY <1>0, <1>11 DEF Incoming
      <3>2. p.sent + p.room <= MaxIn
        BY <1>0 DEF Incoming
      <3>3. /\ x.got + (m + d) <= q.sent
            /\ x.chan # "zombie" => x.got + (m + d) = q.sent
        BY <1>9, <1>11, <1>13, <3>1
      <3>4. q.sent + q.room = p.sent + p.room
        BY <1>9, <1>11, <1>13
      <3> QED
        BY <1>12, <3>2, <3>3, <3>4
    <2>6. (x.eofs = 0 \/ (x.eofs = 1 /\ RCVD_EOF \in x.closes)) /\ x.backlog <= x.got
      BY <1>0 DEF Incoming
    <2> QED
      BY <2>1, <2>2, <2>3, <2>4, <2>5, <2>6 DEF Incoming
  <1>17. Outgoing(x, q)
    BY <1>0, <1>1, <1>3 DEF Outgoing
  <1>18. Windows(x, s, q)
    <2>1. Sizes(x.tx, "DATA") <= q.recvwin
      <3>1. k <= p.recvwin
        BY <1>0, <1>11 DEF Windows
      <3>2. k <= q.recvwin
        BY <1>9, <1>11, <1>13, <3>1
      <3> QED
        BY <1>11, <3>2
    <2>2. ASSUME x.life = "half" PROVE RemWin + Sizes(s, "ADJUST") = q.recvwin
      <3>1. RemWin + n = p.recvwin
        BY <1>0, <1>11, <2>2 DEF Windows
      <3>2. RemWin \in Nat
        BY BoundsAssumption
      <3>3. RemWin + (n + g) = q.recvwin
        BY <1>9, <1>11, <1>13, <3>1, <3>2
      <3> QED
        BY <1>12, <3>3
    <2>3. ASSUME x.life = "open", SENT_EOF \notin x.closes
          PROVE  x.remwindow + Sizes(x.tx, "DATA") + Sizes(s, "ADJUST") = q.recvwin
      <3>1. x.remwindow + k + n = p.recvwin
        BY <1>0, <1>11, <2>3 DEF Windows
      <3>2. x.remwindow + k + (n + g) = q.recvwin
        BY <1>9, <1>11, <1>13, <3>1
      <3> QED
        BY <1>11, <1>12, <3>2
    <2>4. x.locwindow = q.sendwin + Sizes(s, "DATA") + Sizes(x.tx, "ADJUST")
      <3>1. x.locwindow = p.sendwin + m + l
        BY <1>0, <1>11 DEF Windows
      <3>2. x.locwindow = q.sendwin + (m + d) + l
        BY <1>9, <1>11, <1>13, <3>1
      <3> QED
        BY <1>11, <1>12, <3>2
    <2> QED
      BY <1>1, <2>1, <2>2, <2>3, <2>4 DEF Windows
  <1>19. Awaited(x, s, q, 0)
    <2>1. SUFFICES ASSUME ~q.close \/ Has(s, {"CLOSE"}) \/ "late" \in x.bugs
                   PROVE  Answers(s) + Wanted(x.tx) + 0 <= Len(x.chanreqs)
      BY DEF Awaited
    <2>5. x.chanreqs \in Seq(Requests)
      BY <1>0 DEF Typed
    <2>2. PICK h \in Nat : h = Len(x.chanreqs)
      BY <2>5
    <2>3. CASE b.t \in Replies
      <3>1. Answers(r) + Wanted(x.tx) + 1 <= Len(x.chanreqs)
        BY <1>4, <2>3 DEF Awaited
      <3>2. Answers(r) + Wanted(x.tx) + 1 <= h
        BY <2>2, <3>1, Zenon
      <3>3. Answers(s) = Answers(r) + 1
        BY <1>8, <2>3 DEF Answer
      <3>4. Answers(s) + Wanted(x.tx) + 0 <= h
        BY <1>9, <3>2, <3>3
      <3> QED
        BY <2>2, <3>4, Zenon
    <2>4. CASE b.t \notin Replies
      <3>1. Answers(r) + Wanted(x.tx) + 0 <= Len(x.chanreqs)
        BY <1>0, <1>3, <2>4 DEF Awaited
      <3>2. Answers(s) = Answers(r)
        <4>1. Answer(b) = 0
          BY <2>4 DEF Answer
        <4> QED
          BY <1>8, <1>9, <4>1
      <3> QED
        BY <3>1, <3>2, Zenon
    <2> QED
      BY <2>3, <2>4
  <1>20. Forgotten(x, s, q)
    BY DEF Forgotten
  <1>21. Knows(x, s, e)
    <2>1. x.x11 \in {"refused", "unreachable"} => ~Has(s, {"DATA"})
      BY <1>0, <1>4, <1>6 DEF Knows
    <2> QED
      BY <1>0, <2>1 DEF Knows
  <1> QED
    BY <1>0, <1>5, <1>14, <1>15, <1>16, <1>17, <1>18, <1>19, <1>20, <1>21 DEF Good

(* What stays between handlers when only the peer and the queues change.   *)
LEMMA BetweenPeer ==
    ASSUME NEW x, NEW y, NEW r, NEW p, NEW s, NEW q,
           Between(x, r, p), Good(y, s, q, 0, FALSE), Keeps(x, y, {"tx"}),
           q.close => p.close \/ Has(s, {"CLOSE"}),
           Has(r, {"CLOSE"}) => Has(s, {"CLOSE"})
    PROVE  Between(y, s, q)
  <1>1. /\ y.remwindow = x.remwindow /\ y.outbuffer = x.outbuffer
        /\ y.closes = x.closes /\ y.simple = x.simple /\ y.life = x.life
        /\ y.fixed = x.fixed /\ y.locmaxwin = x.locmaxwin
        /\ y.locwindow = x.locwindow /\ y.backlog = x.backlog
    BY DEF Keeps
  <1>2. Sent(y)
    BY <1>1 DEF Between, Sent
  <1>3. Closing(y, s, q)
    BY <1>1 DEF Between, Closing
  <1>4. Roomy => Reopened(y)
    BY <1>1 DEF Between, Reopened
  <1> QED
    BY <1>2, <1>3, <1>4 DEF Between

LEMMA PushedHas ==
    ASSUME NEW r, NEW s, NEW b, Pushed(r, s, b)
    PROVE  \A T : /\ Has(r, T) => Has(s, T)
                  /\ b.t \in T => Has(s, T)
  <1>1. /\ Len(r) \in Nat /\ Len(s) = Len(r) + 1 /\ Len(r) + 1 \in 1..Len(s)
        /\ \A i \in 1..Len(r) : s[i] = r[i] /\ i \in 1..Len(s)
        /\ s[Len(r) + 1] = b
    BY DEF Pushed
  <1> QED
    BY <1>1 DEF Has

(* A packet that the peer takes and does not answer.                       *)
LEMMA PeerGetsGood ==
    ASSUME NEW x, NEW y, NEW r, NEW p, NEW q, NEW a,
           Between(x, r, p), Took(x.tx, y.tx, a), a.t \in Body,
           Keeps(x, y, {"tx"}), Gets(p, q, a)
    PROVE  Between(y, r, q)
  <1>1. PICK f : f = FALSE
    OBVIOUS
  <1>2. Good(x, r, p, 0, f)
    BY <1>1 DEF Between
  <1>3. Good(y, r, q, 0, f)
    BY <1>2, PeerTakeGood
  <1>4. q.close = p.close
    BY DEF Gets
  <1> QED
    BY <1>1, <1>3, <1>4, BetweenPeer

(* A request that wants a reply, and the reply.                            *)
LEMMA PeerRepliesGood ==
    ASSUME NEW x, NEW y, NEW r, NEW p, NEW s, NEW a, NEW b,
           Between(x, r, p), Took(x.tx, y.tx, a), a.t = "REQUEST", a.r # "none",
           Keeps(x, y, {"tx"}), ~p.close \/ "late" \in x.bugs,
           Pushed(r, s, b), b.t \in Replies
    PROVE  Between(y, s, p)
  <1>1. PICK f : f = FALSE
    OBVIOUS
  <1>2. Good(x, r, p, 0, f) /\ PeerTyped(p)
    BY <1>1 DEF Between, Good
  <1>3. a.t \in Body /\ Want(a) = 1 /\ Size(a, "DATA") = 0 /\ Size(a, "ADJUST") = 0
    BY DEF Body, Want, Size
  <1>4. Gets(p, p, a)
    BY <1>2, <1>3 DEF Gets, PeerTyped
  <1>5. Good(y, r, p, 0, f) /\ Awaited(y, r, p, Want(a))
    BY <1>2, <1>3, <1>4, PeerTakeGood
  <1>6. Awaited(y, r, p, 1)
    BY <1>3, <1>5
  <1>7. p.state = "open" /\ x.life \in {"open", "freed"}
    BY <1>2, <1>3, TxOpen
  <1>8. y.life = x.life /\ y.bugs = x.bugs
    BY DEF Keeps
  <1>9. y.life = "open"
    <2>1. SUFFICES ASSUME y.life = "freed" PROVE FALSE
      BY <1>7, <1>8
    <2>2. p.close
      BY <1>5, <1>7, <2>1 DEF Good, Forgotten
    <2>3. "late" \in y.bugs
      BY <1>8, <2>2
    <2>4. y.chanreqs = << >>
      BY <1>5, <2>1 DEF Good, Listed
    <2>5. Answers(r) + Wanted(y.tx) + 1 <= Len(y.chanreqs)
      BY <1>6, <2>3 DEF Awaited
    <2>6. Len(y.chanreqs) = 0
      BY <2>4
    <2>7. Answers(r) \in Nat /\ Wanted(y.tx) \in Nat
      BY <1>5, GoodNumbers, Zenon
    <2>8. Answers(r) + Wanted(y.tx) + 1 <= 0
      BY <2>5, <2>6, Zenon
    <2> QED
      BY <2>7, <2>8
  <1>10. /\ b \in Packets /\ b.t \in Body /\ b.t \notin {"DATA", "ADJUST", "EOF", "CLOSE"}
    BY DEF Pushed, Body, Replies
  <1>11. Size(b, "DATA") = 0 /\ Size(b, "ADJUST") = 0
    BY <1>10 DEF Size
  <1>12. SendsBack(y, r, p, p, b)
    BY <1>2, <1>6, <1>8, <1>9, <1>10, <1>11 DEF SendsBack, PeerTyped
  <1>13. Good(y, s, p, 0, f)
    BY <1>5, <1>7, <1>9, <1>12, PeerSendGood
  <1>14. Has(r, {"CLOSE"}) => Has(s, {"CLOSE"})
    BY PushedHas
  <1> QED
    BY <1>1, <1>13, <1>14, BetweenPeer

(* A packet the peer sends of its own accord.                              *)
LEMMA PeerSendsGood ==
    ASSUME NEW x, NEW r, NEW p, NEW s, NEW q, NEW b,
           Between(x, r, p), p.state = "open", ~p.close,
           Pushed(r, s, b), SendsBack(x, r, p, q, b)
    PROVE  Between(x, s, q)
  <1>1. PICK f : f = FALSE
    OBVIOUS
  <1>2. Good(x, r, p, 0, f) /\ Phase(x, r, p) /\ Forgotten(x, r, p) /\ DOMAIN x = Fields
    BY <1>1 DEF Between, Good, Typed
  <1>3. x.life \in {"half", "open"}
    BY <1>2 DEF Phase, Opened, Forgotten
  <1>4. Good(x, s, q, 0, f)
    BY <1>2, <1>3, PeerSendGood
  <1>5. q.close => Has(s, {"CLOSE"})
    <2>1. q.close => b.t \in {"CLOSE"}
      BY DEF SendsBack
    <2> QED
      BY <2>1, PushedHas
  <1>6. Has(r, {"CLOSE"}) => Has(s, {"CLOSE"})
    BY PushedHas
  <1>7. Keeps(x, x, {"tx"})
    BY <1>2 DEF Keeps
  <1> QED
    BY <1>1, <1>4, <1>5, <1>6, <1>7, BetweenPeer

(* The peer knows that we have closed the channel.                         *)
LEMMA PeerToldGood ==
    ASSUME NEW x, NEW r, NEW p, NEW q, NEW e,
           Good(x, r, p, 0, e), x.tx = << >>, SENT_CLOSE \in x.closes, p.close,
           DOMAIN q = PeerFields, q.state = p.state, q.sent = p.sent, q.room = p.room,
           q.grants = p.grants, q.eof = p.eof, q.close = p.close, q.gotClose = TRUE,
           q.got = p.got, q.recvwin = p.recvwin, q.sendwin = p.sendwin,
           q.gotEof = p.gotEof, p.state = "open"
    PROVE  Good(x, r, q, 0, e)
  <1>0. /\ Typed(x) /\ PeerTyped(p) /\ r \in Seq(Packets)
        /\ Phase(x, r, p) /\ Incoming(x, r, p) /\ Outgoing(x, p)
        /\ Windows(x, r, p) /\ Listed(x, 0) /\ Awaited(x, r, p, 0)
        /\ Forgotten(x, r, p) /\ Knows(x, r, e)
    BY DEF Good
  <1>1. PeerTyped(q)
    BY <1>0 DEF PeerTyped
  <1>2. Phase(x, r, q)
    BY <1>0 DEF Phase
  <1>3. Incoming(x, r, q)
    BY <1>0 DEF Incoming
  <1>4. Outgoing(x, q)
    BY <1>0 DEF Outgoing
  <1>5. Windows(x, r, q) /\ Awaited(x, r, q, 0) /\ Forgotten(x, r, q)
    BY <1>0 DEF Windows, Awaited, Forgotten
  <1> QED
    BY <1>0, <1>1, <1>2, <1>3, <1>4, <1>5 DEF Good

(* CHANNEL_CLOSE, which the peer answers with its own if it has not sent   *)
(* it.                                                                     *)
PeerHasClose(r, s, p) ==
    IF p.close THEN s = r ELSE Pushed(r, s, Packet("CLOSE"))

HasClosed(p, q) == q = [p EXCEPT !.gotClose = TRUE, !.close = TRUE]

LEMMA PeerGetsCloseGood ==
    ASSUME NEW x, NEW y, NEW r, NEW p, NEW s, NEW q, NEW a,
           Between(x, r, p), Took(x.tx, y.tx, a), a.t = "CLOSE",
           Keeps(x, y, {"tx"}), PeerHasClose(r, s, p),
           HasClosed(p, q)
    PROVE  Between(y, s, q)
  <1>1. PICK f : f = FALSE
    OBVIOUS
  <1>2. Good(x, r, p, 0, f) /\ PeerTyped(p) /\ Outgoing(x, p) /\ DOMAIN p = PeerFields
    BY <1>1 DEF Between, Good, PeerTyped
  <1>3. a.t \in Body /\ Want(a) = 0 /\ Size(a, "DATA") = 0 /\ Size(a, "ADJUST") = 0
    BY DEF Body, Want, Size
  <1>4. Gets(p, p, a)
    BY <1>2, <1>3 DEF Gets, PeerTyped
  <1>5. Good(y, r, p, 0, f)
    BY <1>2, <1>3, <1>4, PeerTakeGood
  <1>6. p.state = "open" /\ x.life \in {"open", "freed"}
    BY <1>2, <1>3, TxOpen
  <1>7. SENT_CLOSE \in y.closes
    <2>1. Has(x.tx, {"CLOSE"})
      BY DEF Has, Took
    <2>2. y.closes = x.closes
      BY DEF Keeps
    <2> QED
      BY <1>2, <2>1, <2>2 DEF Outgoing
  <1>8. y.tx = << >>
    <2>1. SUFFICES ASSUME 1 \in 1..Len(y.tx) PROVE FALSE
      BY DEF Took
    <2>2. 1 \in 1..Len(x.tx) /\ 2 \in 1..Len(x.tx) /\ 1 < 2 /\ x.tx[1].t = "CLOSE"
      BY <2>1 DEF Took
    <2> QED
      BY <1>2, <2>2 DEF Outgoing
  <1>9. /\ DOMAIN q = PeerFields /\ q.state = p.state /\ q.sent = p.sent
        /\ q.room = p.room /\ q.grants = p.grants /\ q.eof = p.eof
        /\ q.close = TRUE /\ q.gotClose = TRUE /\ q.got = p.got
        /\ q.recvwin = p.recvwin /\ q.sendwin = p.sendwin /\ q.gotEof = p.gotEof
    BY <1>2 DEF PeerFields, HasClosed
  <1>10. Has(r, {"CLOSE"}) => Has(s, {"CLOSE"})
    BY PushedHas DEF PeerHasClose
  <1>11. Good(y, s, q, 0, f) /\ (p.close \/ Has(s, {"CLOSE"}))
    <2>1. CASE p.close
      <3>1. q.close = p.close
        <4>1. p.close = TRUE
          BY <1>2, <2>1 DEF PeerTyped
        <4> QED
          BY <1>9, <4>1
      <3>2. s = r
        BY <2>1 DEF PeerHasClose
      <3>3. Good(y, r, q, 0, f)
        BY <1>5, <1>6, <1>7, <1>8, <1>9, <2>1, <3>1, PeerToldGood
      <3> QED
        BY <2>1, <3>2, <3>3
    <2>2. CASE ~p.close
      <3>1. Pushed(r, s, Packet("CLOSE"))
        BY <2>2 DEF PeerHasClose
      <3>2. PICK b : b = Packet("CLOSE")
        OBVIOUS
      <3>3. /\ b.t = "CLOSE" /\ b.t \in Body /\ b.t \notin Replies
            /\ Size(b, "DATA") = 0 /\ Size(b, "ADJUST") = 0
        BY <3>2 DEF Packet, Body, Replies, Size
      <3>4. Pushed(r, s, b) /\ b \in Packets
        BY <3>1, <3>2 DEF Pushed
      <3>9. PICK p1 : p1 = [p EXCEPT !.close = TRUE]
        OBVIOUS
      <3>5. /\ DOMAIN p1 = PeerFields /\ p1.state = p.state /\ p1.sent = p.sent
            /\ p1.room = p.room /\ p1.grants = p.grants /\ p1.eof = p.eof
            /\ p1.close = TRUE /\ p1.gotClose = p.gotClose /\ p1.got = p.got
            /\ p1.recvwin = p.recvwin /\ p1.sendwin = p.sendwin /\ p1.gotEof = p.gotEof
        BY <1>2, <3>9 DEF PeerFields
      <3>6. SendsBack(y, r, p, p1, b)
        <4>1. /\ p1.sent = p.sent + Size(b, "DATA") /\ p1.room = p.room - Size(b, "DATA")
              /\ p1.sendwin = p.sendwin - Size(b, "DATA")
              /\ p1.recvwin = p.recvwin + Size(b, "ADJUST")
              /\ p1.room \in Nat /\ p1.sendwin \in Nat /\ p1.grants \in Nat
          BY <1>2, <3>3, <3>5 DEF PeerTyped
        <4>2. p1.eof \in BOOLEAN /\ p1.close \in BOOLEAN
          BY <1>2, <3>5 DEF PeerTyped
        <4>3. (p.eof => p1.eof) /\ p1.close
          BY <3>5
        <4> QED
          BY <2>2, <3>3, <3>4, <3>5, <4>1, <4>2, <4>3 DEF SendsBack
      <3>7. y.life \in {"half", "open"}
        <4>1. y.life = x.life
          BY DEF Keeps
        <4> QED
          BY <1>2, <1>6, <2>2, <4>1 DEF Good, Forgotten
      <3>8. Good(y, s, p1, 0, f)
        BY <1>5, <1>6, <3>4, <3>6, <3>7, PeerSendGood
      <3>10. Has(s, {"CLOSE"})
        <4>1. b.t \in {"CLOSE"}
          BY <3>3
        <4> QED
          BY <3>4, <4>1, PushedHas
      <3>11. /\ DOMAIN p1 = PeerFields /\ p1.state = "open" /\ p1.close
             /\ q.close = p1.close /\ q.state = p1.state
        BY <1>6, <1>9, <3>5
      <3>12. /\ q.sent = p1.sent /\ q.room = p1.room /\ q.grants = p1.grants
             /\ q.eof = p1.eof /\ q.got = p1.got /\ q.recvwin = p1.recvwin
             /\ q.sendwin = p1.sendwin /\ q.gotEof = p1.gotEof
        BY <1>9, <3>5
      <3>13. Good(y, s, q, 0, f)
        BY <1>7, <1>8, <1>9, <3>8, <3>11, <3>12, PeerToldGood
      <3> QED
        BY <3>10, <3>13
    <2> QED
      BY <2>1, <2>2
  <1>13. q.close => p.close \/ Has(s, {"CLOSE"})
    BY <1>11
  <1> QED
    BY <1>1, <1>10, <1>11, <1>13, BetweenPeer

(* The peer takes the packet that opens the channel, on either side, or    *)
(* that says that it stays closed.                                         *)
LEMMA TxOpening ==
    ASSUME NEW x, NEW r, NEW p, NEW w, NEW e, NEW u, NEW a,
           Good(x, r, p, w, e), Took(x.tx, u, a),
           a.t \in {"OPEN", "CONFIRMATION", "REFUSAL"}
    PROVE  /\ p.state = "opening" /\ r = << >>
           /\ a.t = "OPEN" => x.life = "half" /\ u = << >>
           /\ a.t = "CONFIRMATION" => x.life = "open" /\ Only(u, Body)
           /\ a.t = "REFUSAL" => x.life = "freed" /\ u = << >>
  <1>0. Phase(x, r, p) /\ PeerTyped(p)
    BY DEF Good
  <1>1. /\ x.tx # << >> /\ x.tx[1] = a /\ 1 \in 1..Len(x.tx)
        /\ Len(u) \in Nat /\ Len(x.tx) = Len(u) + 1 /\ u \in Seq(Packets)
        /\ \A i \in 1..Len(u) : /\ u[i] = x.tx[i + 1] /\ i + 1 \in 1..Len(x.tx)
                                /\ i + 1 # 1
    BY DEF Took
  <1>2. a.t \notin Body
    BY DEF Body, Replies
  <1>3. ~Opened(x, r)
    BY <1>1, <1>2 DEF Opened, Only
  <1>4. ~Refused(x, r)
    BY <1>1 DEF Refused
  <1>5. p.state = "opening" /\ Opening(x, r)
    BY <1>0, <1>3, <1>4 DEF Phase, PeerTyped
  <1>6. CASE x.life = "half" /\ x.tx = <<Packet("OPEN")>> /\ r = << >>
    <2>1. a.t = "OPEN" /\ Len(x.tx) = 1
      BY <1>1, <1>6 DEF Packet
    <2>2. u = << >>
      BY <1>1, <2>1
    <2> QED
      BY <1>5, <1>6, <2>1, <2>2
  <1>7. CASE /\ x.life = "open" /\ r = << >>
             /\ x.tx # << >> /\ x.tx[1].t = "CONFIRMATION"
             /\ \A i \in 1..Len(x.tx) : i = 1 \/ x.tx[i].t \in Body
    <2>1. a.t = "CONFIRMATION"
      BY <1>1, <1>7
    <2>2. Only(u, Body)
      BY <1>1, <1>7 DEF Only
    <2> QED
      BY <1>5, <1>7, <2>1, <2>2
  <1>8. CASE x.life = "freed" /\ x.tx = <<Packet("REFUSAL")>> /\ r = << >>
    <2>1. a.t = "REFUSAL" /\ Len(x.tx) = 1
      BY <1>1, <1>8 DEF Packet
    <2>2. u = << >>
      BY <1>1, <2>1
    <2> QED
      BY <1>5, <1>8, <2>1, <2>2
  <1> QED
    BY <1>1, <1>5, <1>6, <1>7, <1>8 DEF Opening

Opens(x, r, s, p, q, a) ==
    /\ DOMAIN q = PeerFields
    /\ q.sent = p.sent /\ q.room = p.room /\ q.grants = p.grants
    /\ q.eof = p.eof /\ q.close = p.close /\ q.got = p.got
    /\ q.gotEof = p.gotEof /\ q.gotClose = p.gotClose /\ q.recvwin = p.recvwin
    /\ \/ /\ a.t = "OPEN" /\ Pushed(r, s, Bytes("CONFIRMATION", RemWin))
          /\ q.state = "open" /\ q.sendwin = x.locwindow
       \/ /\ a.t = "OPEN" /\ Pushed(r, s, Packet("REFUSAL"))
          /\ q.state = "closed" /\ q.sendwin = p.sendwin
       \/ /\ a.t = "CONFIRMATION" /\ s = r
          /\ q.state = "open" /\ q.sendwin = a.n
       \/ /\ a.t = "REFUSAL" /\ s = r
          /\ q.state = "closed" /\ q.sendwin = p.sendwin

(* What there is to read for us after that.                                *)
LEMMA OpensQueue ==
    ASSUME NEW x, NEW r, NEW s, NEW p, NEW q, NEW a, r = << >>, Opens(x, r, s, p, q, a)
    PROVE  /\ s \in Seq(Packets) /\ Len(s) \in 0..1
           /\ Sizes(s, "DATA") = 0 /\ Sizes(s, "ADJUST") = 0 /\ Answers(s) = 0
           /\ ~Has(s, {"EOF"}) /\ ~Has(s, {"CLOSE"}) /\ ~Has(s, {"DATA"})
           /\ a.t = "OPEN" => s = IF q.state = "open" THEN <<Bytes("CONFIRMATION", RemWin)>>
                                  ELSE <<Packet("REFUSAL")>>
           /\ a.t # "OPEN" => s = << >>
  <1>1. CASE a.t # "OPEN"
    <2>1. s = << >>
      BY <1>1 DEF Opens
    <2>2. s \in Seq(Packets) /\ Len(s) \in 0..1
      BY <2>1
    <2> QED
      BY <1>1, <2>1, <2>2, EmptyCounts
  <1>2. CASE a.t = "OPEN"
    <2>1. PICK b : b = IF q.state = "open" THEN Bytes("CONFIRMATION", RemWin)
                       ELSE Packet("REFUSAL")
      OBVIOUS
    <2>2. Pushed(r, s, b)
      BY <1>2, <2>1 DEF Opens
    <2>3. b.t \in {"CONFIRMATION", "REFUSAL"}
      BY <2>1 DEF Bytes, Packet
    <2>4. s \in Seq(Packets) /\ Len(s) = 1 /\ s[1] = b /\ s = <<b>>
      BY <2>2 DEF Pushed
    <2>5. /\ Sizes(s, "DATA") = Sizes(r, "DATA") + Size(b, "DATA")
          /\ Sizes(s, "ADJUST") = Sizes(r, "ADJUST") + Size(b, "ADJUST")
          /\ Answers(s) = Answers(r) + Answer(b)
      BY <2>2, PushCounts
    <2>6. Size(b, "DATA") = 0 /\ Size(b, "ADJUST") = 0 /\ Answer(b) = 0
      BY <2>3 DEF Size, Answer, Replies
    <2>7. Sizes(r, "DATA") = 0 /\ Sizes(r, "ADJUST") = 0 /\ Answers(r) = 0
      BY EmptyCounts
    <2>8. Sizes(s, "DATA") = 0 /\ Sizes(s, "ADJUST") = 0 /\ Answers(s) = 0
      BY <2>5, <2>6, <2>7
    <2>9. ~Has(s, {"EOF"}) /\ ~Has(s, {"CLOSE"}) /\ ~Has(s, {"DATA"})
      BY <2>3, <2>4 DEF Has
    <2> QED
      BY <1>2, <2>1, <2>4, <2>8, <2>9
  <1> QED
    BY <1>1, <1>2

LEMMA PeerOpensGood ==
    ASSUME NEW x, NEW y, NEW r, NEW p, NEW s, NEW q, NEW e, NEW a,
           Good(x, r, p, 0, e), Took(x.tx, y.tx, a),
           a.t \in {"OPEN", "CONFIRMATION", "REFUSAL"},
           Keeps(x, y, {"tx"}), Opens(x, r, s, p, q, a)
    PROVE  Good(y, s, q, 0, e) /\ r = << >> /\ q.close = p.close
  <1>0. /\ Typed(x) /\ PeerTyped(p) /\ r \in Seq(Packets)
        /\ Phase(x, r, p) /\ Incoming(x, r, p) /\ Outgoing(x, p)
        /\ Windows(x, r, p) /\ Listed(x, 0) /\ Awaited(x, r, p, 0)
        /\ Forgotten(x, r, p) /\ Knows(x, r, e)
    BY DEF Good
  <1>1. /\ DOMAIN y = Fields /\ y.life = x.life /\ y.pending_eof = x.pending_eof
        /\ y.throttling_conn = x.throttling_conn /\ y.throttle_count = x.throttle_count
        /\ y.closes = x.closes /\ y.eofs = x.eofs /\ y.outbuffer = x.outbuffer
        /\ y.remwindow = x.remwindow /\ y.locwindow = x.locwindow
        /\ y.remlocwin = x.remlocwin /\ y.backlog = x.backlog /\ y.req = x.req
        /\ y.got = x.got
        /\ y.locmaxwin = x.locmaxwin /\ y.throttle_state = x.throttle_state
        /\ y.chanreqs = x.chanreqs /\ y.chan = x.chan /\ y.bugs = x.bugs
        /\ y.user_input = x.user_input
        /\ y.written = x.written /\ y.ready = x.ready
        /\ y.x11 = x.x11 /\ y.fixed = x.fixed
        /\ y.fault = x.fault /\ y.simple = x.simple
        /\ y.reading = x.reading /\ y.eof_sent = x.eof_sent
    BY DEF Keeps
  <1>2. /\ DOMAIN q = PeerFields
        /\ q.sent = p.sent /\ q.room = p.room /\ q.grants = p.grants
        /\ q.eof = p.eof /\ q.close = p.close /\ q.got = p.got
        /\ q.gotEof = p.gotEof /\ q.gotClose = p.gotClose /\ q.recvwin = p.recvwin
    BY DEF Opens
  <1>3. /\ p.state = "opening" /\ r = << >>
        /\ a.t = "OPEN" => x.life = "half" /\ y.tx = << >>
        /\ a.t = "CONFIRMATION" => x.life = "open" /\ Only(y.tx, Body)
        /\ a.t = "REFUSAL" => x.life = "freed" /\ y.tx = << >>
    BY TxOpening
  <1>4. /\ s \in Seq(Packets) /\ Len(s) \in 0..1
        /\ Sizes(s, "DATA") = 0 /\ Sizes(s, "ADJUST") = 0 /\ Answers(s) = 0
        /\ ~Has(s, {"EOF"}) /\ ~Has(s, {"CLOSE"}) /\ ~Has(s, {"DATA"})
        /\ a.t = "OPEN" => s = IF q.state = "open" THEN <<Bytes("CONFIRMATION", RemWin)>>
                               ELSE <<Packet("REFUSAL")>>
        /\ a.t # "OPEN" => s = << >>
    BY <1>3, OpensQueue
  <1>5. /\ q.state \in {"open", "closed"} /\ q.sendwin \in {x.locwindow, a.n, p.sendwin}
        /\ a.t = "REFUSAL" => q.state = "closed"
        /\ a.t = "CONFIRMATION" => q.state = "open" /\ q.sendwin = a.n
        /\ a.t = "OPEN" /\ q.state = "open" => q.sendwin = x.locwindow
    BY DEF Opens
  <1>6. /\ Sizes(x.tx, "DATA") = Size(a, "DATA") + Sizes(y.tx, "DATA")
        /\ Sizes(x.tx, "ADJUST") = Size(a, "ADJUST") + Sizes(y.tx, "ADJUST")
        /\ Wanted(x.tx) = Want(a) + Wanted(y.tx)
    BY TakeCounts
  <1>7. y.tx \in Seq(Packets) /\ a \in Packets /\ a.n \in Nat
    BY DEF Took, Packets
  <1>8. /\ Sizes(y.tx, "DATA") \in Nat /\ Sizes(y.tx, "ADJUST") \in Nat
        /\ Wanted(y.tx) \in Nat
    BY <1>7, CountsNat
  <1>9. Size(a, "DATA") = 0 /\ Size(a, "ADJUST") = 0 /\ Want(a) = 0
    BY DEF Size, Want
  <1>10. /\ Sizes(x.tx, "DATA") = Sizes(y.tx, "DATA")
         /\ Sizes(x.tx, "ADJUST") = Sizes(y.tx, "ADJUST")
         /\ Wanted(x.tx) = Wanted(y.tx)
    BY <1>6, <1>8, <1>9
  <1>11. Sizes(r, "DATA") = 0 /\ Sizes(r, "ADJUST") = 0 /\ Answers(r) = 0
    BY <1>3, EmptyCounts
  <1>12. ~p.eof /\ ~p.close /\ ~p.gotEof /\ ~p.gotClose
    BY <1>0, <1>3 DEF Phase
  <1>13. /\ \A i \in 1..Len(y.tx) : y.tx[i] = x.tx[i + 1] /\ i + 1 \in 1..Len(x.tx)
         /\ \A i, j \in 1..Len(y.tx) : i < j => i + 1 < j + 1
    BY DEF Took
  <1>14. \A t : Has(y.tx, t) => Has(x.tx, t)
    BY <1>13 DEF Has
  <1>15. RCVD_EOF \notin x.closes /\ RCVD_CLOSE \notin x.closes
    BY <1>0, <1>12 DEF Incoming
  <1>16. Typed(y)
    BY <1>0, <1>1, <1>7 DEF Typed
  <1>17. PeerTyped(q)
    <2>1. q.sendwin \in Nat
      BY <1>0, <1>5, <1>7 DEF Typed, PeerTyped
    <2> QED
      BY <1>0, <1>2, <1>5, <2>1 DEF PeerTyped
  <1>18. Phase(y, s, q)
    <2>1. ASSUME q.state = "open" PROVE Opened(y, s)
      <3>1. CASE a.t = "OPEN"
        <4>1. s = <<Bytes("CONFIRMATION", RemWin)>>
          BY <1>4, <2>1, <3>1
        <4>2. /\ s # << >> /\ s[1] = Bytes("CONFIRMATION", RemWin)
              /\ \A i \in 1..Len(s) : i = 1
          BY <4>1
        <4> QED
          BY <1>1, <1>3, <3>1, <4>2 DEF Opened
      <3>2. CASE a.t = "CONFIRMATION"
        <4>1. Only(s, Body)
          BY <1>4, <3>2, EmptyCounts
        <4> QED
          BY <1>1, <1>3, <3>2, <4>1 DEF Opened
      <3> QED
        BY <1>5, <2>1, <3>1, <3>2
    <2>2. ASSUME q.state = "closed" PROVE Refused(y, s)
      <3>1. CASE a.t = "OPEN"
        BY <1>1, <1>3, <1>4, <2>2, <3>1 DEF Refused
      <3>2. CASE a.t = "REFUSAL"
        BY <1>1, <1>3, <1>4, <3>2 DEF Refused
      <3> QED
        BY <1>5, <2>2, <3>1, <3>2
    <2>3. y.life \in {"none", "half"} => Untouched(y) /\ ~y.fixed
      BY <1>0, <1>1 DEF Phase, Untouched
    <2>4. /\ ~q.eof /\ ~q.close /\ ~q.gotEof /\ ~q.gotClose
          /\ q.sent = 0 /\ q.got = 0 /\ q.recvwin = RemWin
      BY <1>0, <1>2, <1>3, <1>12 DEF Phase
    <2>5. /\ y.life = "half" => y.x11 = "connected" /\ y.chan # "x11"
          /\ y.life = "none" => y.x11 = "greeting" /\ ~y.simple
      BY <1>0, <1>1 DEF Phase
    <2> QED
      BY <1>5, <2>1, <2>2, <2>3, <2>4, <2>5 DEF Phase
  <1>19. Incoming(y, s, q)
    <2>1. ASSUME NEW i \in 1..Len(s), NEW j \in 1..Len(s), i < j PROVE FALSE
      <3>1. PICK h \in 0..1 : h = Len(s)
        BY <1>4
      <3>2. i \in 1..h /\ j \in 1..h /\ i < j
        BY <2>1, <3>1, Zenon
      <3> QED
        BY <3>1, <3>2
    <2>2. y.eofs = 0 /\ y.backlog <= y.got
      BY <1>0, <1>1, <1>15 DEF Incoming
    <2>3. /\ y.got + Sizes(s, "DATA") <= q.sent
          /\ y.chan # "zombie" => y.got + Sizes(s, "DATA") = q.sent
          /\ q.sent + q.room <= MaxIn
      BY <1>0, <1>1, <1>2, <1>4, <1>11 DEF Incoming
    <2> QED
      BY <1>1, <1>4, <1>15, <2>1, <2>2, <2>3 DEF Incoming
  <1>20. Outgoing(y, q)
    <2>1. ASSUME NEW i \in 1..Len(y.tx), NEW j \in 1..Len(y.tx), i < j
          PROVE  y.tx[i].t # "CLOSE" /\ (y.tx[i].t = "EOF" => y.tx[j].t # "DATA")
      <3>1. PICK u \in 1..Len(x.tx), v \in 1..Len(x.tx) : u < v /\ y.tx[i] = x.tx[u] /\ y.tx[j] = x.tx[v]
        BY <1>13, <2>1
      <3> QED
        BY <1>0, <3>1 DEF Outgoing
    <2>2. /\ Has(y.tx, {"CLOSE"}) => SENT_CLOSE \in y.closes
          /\ Has(y.tx, {"EOF"}) => SENT_EOF \in y.closes /\ y.outbuffer = 0
      BY <1>0, <1>1, <1>14 DEF Outgoing
    <2>3. /\ SENT_CLOSE \in y.closes => SENT_EOF \in y.closes /\ y.chanreqs = << >>
          /\ y.pending_eof => SENT_EOF \notin y.closes /\ y.chan # "zombie"
      BY <1>0, <1>1 DEF Outgoing
    <2>4. ~q.close => q.got + Sizes(y.tx, "DATA") + y.outbuffer = y.written
      BY <1>0, <1>1, <1>2, <1>10 DEF Outgoing
    <2>5. ~q.gotEof /\ ~q.gotClose
      BY <1>2, <1>12
    <2> QED
      BY <2>1, <2>2, <2>3, <2>4, <2>5 DEF Outgoing
  <1>21. Windows(y, s, q)
    <2>1. Sizes(y.tx, "DATA") <= q.recvwin
      BY <1>0, <1>2, <1>10 DEF Windows
    <2>2. y.life = "half" => RemWin + Sizes(s, "ADJUST") = q.recvwin
      BY <1>0, <1>1, <1>2, <1>4, <1>11 DEF Windows
    <2>3. y.life = "open" /\ SENT_EOF \notin y.closes =>
             y.remwindow + Sizes(y.tx, "DATA") + Sizes(s, "ADJUST") = q.recvwin
      BY <1>0, <1>1, <1>2, <1>4, <1>10, <1>11 DEF Windows
    <2>4. ASSUME q.state = "open", y.life \in {"half", "open"}
          PROVE  y.locwindow = q.sendwin + Sizes(s, "DATA") + Sizes(y.tx, "ADJUST")
      <3>0. x.locwindow \in Nat
        BY <1>0 DEF Typed
      <3>1. CASE a.t = "OPEN"
        <4>1. Sizes(y.tx, "ADJUST") = 0
          BY <1>3, <3>1, EmptyCounts
        <4> QED
          BY <1>1, <1>4, <1>5, <2>4, <3>0, <3>1, <4>1
      <3>2. CASE a.t = "CONFIRMATION"
        <4>1. x.tx[1] = a
          BY DEF Took
        <4>2. x.locwindow = a.n + Sizes(x.tx, "ADJUST")
          BY <1>0, <1>3, <3>2, <4>1 DEF Windows
        <4> QED
          BY <1>1, <1>4, <1>5, <1>7, <1>8, <1>10, <3>2, <4>2
      <3> QED
        BY <1>5, <2>4, <3>1, <3>2
    <2> QED
      BY <1>5, <2>1, <2>2, <2>3, <2>4 DEF Windows
  <1>22. Listed(y, 0)
    BY <1>0, <1>1, ListedSame
  <1>23. Awaited(y, s, q, 0)
    <2>1. Answers(r) + Wanted(x.tx) + 0 <= Len(x.chanreqs)
      BY <1>0, <1>12 DEF Awaited
    <2>2. Answers(s) = Answers(r) /\ Wanted(y.tx) = Wanted(x.tx) /\ y.chanreqs = x.chanreqs
      BY <1>1, <1>4, <1>10, <1>11
    <2>3. Answers(s) + Wanted(y.tx) + 0 <= Len(y.chanreqs)
      BY <2>1, <2>2, Zenon
    <2> QED
      BY <2>3 DEF Awaited
  <1>24. Forgotten(y, s, q)
    BY <1>1, <1>3, <1>5 DEF Forgotten
  <1>25. Knows(y, s, e)
    BY <1>0, <1>1, <1>4 DEF Knows
  <1> QED
    BY <1>2, <1>3, <1>4, <1>16, <1>17, <1>18, <1>19, <1>20, <1>21, <1>22, <1>23, <1>24, <1>25
       DEF Good

LEMMA PeerOpensBetween ==
    ASSUME NEW x, NEW y, NEW r, NEW p, NEW s, NEW q, NEW a,
           Between(x, r, p), Took(x.tx, y.tx, a),
           a.t \in {"OPEN", "CONFIRMATION", "REFUSAL"},
           Keeps(x, y, {"tx"}), Opens(x, r, s, p, q, a)
    PROVE  Between(y, s, q)
  <1>1. PICK f : f = FALSE
    OBVIOUS
  <1>2. Good(x, r, p, 0, f)
    BY <1>1 DEF Between
  <1>3. Good(y, s, q, 0, f) /\ r = << >> /\ q.close = p.close
    BY <1>2, PeerOpensGood
  <1>4. ~Has(r, {"CLOSE"})
    BY <1>3, EmptyCounts
  <1> QED
    BY <1>1, <1>3, <1>4, BetweenPeer

-----------------------------------------------------------------------------
(* The specification.                                                      *)

(* A queue of one packet that opens a channel counts for nothing.          *)
LEMMA OpenCounts ==
    ASSUME NEW q, q = <<Packet("OPEN")>> \/ q = << >>
    PROVE  /\ q \in Seq(Packets) /\ Len(q) \in 0..1
           /\ Sizes(q, "DATA") = 0 /\ Sizes(q, "ADJUST") = 0
           /\ Answers(q) = 0 /\ Wanted(q) = 0
           /\ ~Has(q, {"EOF"}) /\ ~Has(q, {"CLOSE"}) /\ ~Has(q, {"DATA"})
  <1>1. CASE q = << >>
    BY <1>1, EmptyCounts
  <1>2. CASE q = <<Packet("OPEN")>>
    <2>1. PICK b : b = Packet("OPEN")
      OBVIOUS
    <2>2. b \in Packets /\ b.t = "OPEN"
      BY <2>1 DEF Packet, Packets, Names
    <2>3. q \in Seq(Packets) /\ Len(q) = 1 /\ q[1] = b /\ q = <<b>>
      BY <1>2, <2>1, <2>2
    <2>4. Pushed(<< >>, q, b)
      BY <2>2, <2>3 DEF Pushed
    <2>5. /\ Sizes(q, "DATA") = Sizes(<< >>, "DATA") + Size(b, "DATA")
          /\ Sizes(q, "ADJUST") = Sizes(<< >>, "ADJUST") + Size(b, "ADJUST")
          /\ Answers(q) = Answers(<< >>) + Answer(b)
          /\ Wanted(q) = Wanted(<< >>) + Want(b)
      BY <2>4, PushCounts
    <2>6. Size(b, "DATA") = 0 /\ Size(b, "ADJUST") = 0 /\ Answer(b) = 0 /\ Want(b) = 0
      BY <2>2 DEF Size, Answer, Want, Replies
    <2>7. /\ Sizes(q, "DATA") = 0 /\ Sizes(q, "ADJUST") = 0
          /\ Answers(q) = 0 /\ Wanted(q) = 0
      BY <2>5, <2>6, EmptyCounts
    <2>8. ~Has(q, {"EOF"}) /\ ~Has(q, {"CLOSE"}) /\ ~Has(q, {"DATA"})
      BY <2>2, <2>3 DEF Has
    <2> QED
      BY <2>3, <2>7, <2>8
  <1> QED
    BY <1>1, <1>2

(* The channel about to be opened.                                         *)
Fresh(x, r, p) ==
    /\ DOMAIN x = Fields
    /\ x.life = IF x.chan = "x11" THEN "none" ELSE "half"
    /\ x.closes = {} /\ x.chanreqs = << >> /\ x.req = {} /\ ~x.pending_eof
    /\ x.outbuffer = 0 /\ x.written = 0 /\ x.remwindow = 0
    /\ x.got = 0 /\ x.backlog = 0 /\ x.eofs = 0 /\ ~x.ready
    /\ x.throttling_conn = FALSE /\ x.throttle_count = 0 /\ x.fixed = FALSE
    /\ x.throttle_state = "UNTHROTTLED" /\ x.user_input = 0 /\ x.fault = "none"
    /\ x.locwindow = x.locmaxwin /\ x.remlocwin = x.locmaxwin
    /\ x.locmaxwin = IF x.simple THEN OUR_V2_BIGWIN ELSE OUR_V2_WINSIZE
    /\ x.chan \in Kinds /\ x.chan \in {"main", "fwd", "x11"}
    /\ x.chan = "x11" => ~x.simple
    /\ x.chan = "main" => "late" \notin x.bugs
    /\ x.x11 = IF x.chan = "x11" THEN "greeting" ELSE "connected"
    /\ x.tx = IF x.chan = "x11" THEN << >> ELSE <<Packet("OPEN")>>
    /\ r = IF x.chan = "x11" THEN <<Packet("OPEN")>> ELSE << >>
    /\ DOMAIN p = PeerFields /\ p.state = "opening"
    /\ p.sendwin = 0 /\ p.recvwin = RemWin /\ p.sent = 0 /\ p.got = 0
    /\ p.room \in 0..MaxIn /\ p.grants \in Nat
    /\ p.eof = FALSE /\ p.close = FALSE /\ p.gotEof = FALSE /\ p.gotClose = FALSE

LEMMA FreshGood ==
    ASSUME NEW x, NEW r, NEW p, Fresh(x, r, p)
    PROVE  Between(x, r, p)
  <1>0. /\ RemWin \in Nat /\ MaxIn \in Nat
        /\ OUR_V2_BIGWIN \in Nat \ {0} /\ OUR_V2_WINSIZE \in Nat \ {0}
    BY BoundsAssumption
  <1>1. /\ DOMAIN x = Fields
        /\ x.life = IF x.chan = "x11" THEN "none" ELSE "half"
        /\ x.closes = {} /\ x.chanreqs = << >> /\ x.req = {} /\ ~x.pending_eof
        /\ x.outbuffer = 0 /\ x.written = 0 /\ x.remwindow = 0
        /\ x.got = 0 /\ x.backlog = 0 /\ x.eofs = 0 /\ ~x.ready
        /\ x.throttling_conn = FALSE /\ x.throttle_count = 0 /\ x.fixed = FALSE
        /\ x.throttle_state = "UNTHROTTLED" /\ x.user_input = 0 /\ x.fault = "none"
    BY DEF Fresh
  <1>2. /\ x.locwindow = x.locmaxwin /\ x.remlocwin = x.locmaxwin
        /\ x.locmaxwin = IF x.simple THEN OUR_V2_BIGWIN ELSE OUR_V2_WINSIZE
    BY DEF Fresh
  <1>3. /\ x.chan \in Kinds /\ x.chan \in {"main", "fwd", "x11"}
        /\ x.chan = "x11" => ~x.simple
        /\ x.chan = "main" => "late" \notin x.bugs
        /\ x.x11 = IF x.chan = "x11" THEN "greeting" ELSE "connected"
        /\ x.tx = IF x.chan = "x11" THEN << >> ELSE <<Packet("OPEN")>>
        /\ r = IF x.chan = "x11" THEN <<Packet("OPEN")>> ELSE << >>
    BY DEF Fresh
  <1>4. /\ DOMAIN p = PeerFields /\ p.state = "opening"
        /\ p.sendwin = 0 /\ p.recvwin = RemWin /\ p.sent = 0 /\ p.got = 0
        /\ p.room \in 0..MaxIn /\ p.grants \in Nat
        /\ p.eof = FALSE /\ p.close = FALSE /\ p.gotEof = FALSE /\ p.gotClose = FALSE
    BY DEF Fresh
  <1>5. x.locmaxwin \in Nat \ {0}
    BY <1>0, <1>2
  <1>6. /\ r \in Seq(Packets) /\ Len(r) \in 0..1
        /\ Sizes(r, "DATA") = 0 /\ Sizes(r, "ADJUST") = 0 /\ Answers(r) = 0
        /\ ~Has(r, {"EOF"}) /\ ~Has(r, {"CLOSE"}) /\ ~Has(r, {"DATA"})
    <2>1. r = <<Packet("OPEN")>> \/ r = << >>
      BY <1>3
    <2> QED
      BY <2>1, OpenCounts
  <1>7. /\ x.tx \in Seq(Packets) /\ Len(x.tx) \in 0..1
        /\ Sizes(x.tx, "DATA") = 0 /\ Sizes(x.tx, "ADJUST") = 0 /\ Wanted(x.tx) = 0
        /\ ~Has(x.tx, {"EOF"}) /\ ~Has(x.tx, {"CLOSE"})
    <2>1. x.tx = <<Packet("OPEN")>> \/ x.tx = << >>
      BY <1>3
    <2> QED
      BY <2>1, OpenCounts
  <1>8. ASSUME NEW q, Len(q) \in 0..1, NEW i \in 1..Len(q), NEW j \in 1..Len(q), i < j
        PROVE  FALSE
    <2>1. PICK h \in 0..1 : h = Len(q)
      BY <1>8
    <2>2. i \in 1..h /\ j \in 1..h /\ i < j
      BY <1>8, <2>1, Zenon
    <2> QED
      BY <2>1, <2>2
  <1>9. x.life \in {"none", "half"}
    BY <1>1
  <1>10. Typed(x)
    <2>1. x.chanreqs \in Seq(Requests)
      BY <1>1
    <2>2. x.x11 \in Outcomes
      BY <1>3 DEF Outcomes
    <2>3. x.locwindow \in Nat /\ x.remlocwin \in Int
      BY <1>2, <1>5
    <2>4. /\ x.outbuffer \in Nat /\ x.remwindow \in Nat /\ x.written \in Nat
          /\ x.backlog \in Nat /\ x.got \in Nat /\ x.eofs \in Nat
          /\ x.closes \subseteq Closes /\ x.req \subseteq DOMAIN Rank
      BY <1>1
    <2>5. /\ x.throttle_state \in {"THROTTLED", "UNTHROTTLING", "UNTHROTTLED"}
          /\ x.throttling_conn \in BOOLEAN /\ x.fixed \in BOOLEAN
          /\ x.throttle_count = IF x.throttling_conn THEN 1 ELSE 0
          /\ x.user_input = 0 /\ x.fault \in {"none", "freed under handler"}
      BY <1>1
    <2>6. x.life \in {"none", "half", "open", "freed"} /\ x.chan \in Kinds \cup {"zombie"}
      BY <1>3, <1>9
    <2> QED
      BY <1>1, <1>5, <1>7, <2>1, <2>2, <2>3, <2>4, <2>5, <2>6 DEF Typed
  <1>11. PeerTyped(p)
    <2>1. p.room \in Nat
      BY <1>0, <1>4
    <2>2. /\ p.sendwin \in Nat /\ p.recvwin \in Nat /\ p.sent \in Nat /\ p.got \in Nat
          /\ p.grants \in Nat
      BY <1>0, <1>4
    <2> QED
      BY <1>4, <2>1, <2>2 DEF PeerTyped
  <1>12. Phase(x, r, p)
    <2>1. Opening(x, r)
      BY <1>1, <1>3 DEF Opening
    <2>2. Untouched(x)
      BY <1>1, <1>2 DEF Untouched
    <2> QED
      BY <1>1, <1>3, <1>4, <2>1, <2>2 DEF Phase
  <1>13. Incoming(x, r, p)
    <2>1. /\ x.got + Sizes(r, "DATA") <= p.sent
          /\ x.got + Sizes(r, "DATA") = p.sent
          /\ x.backlog <= x.got /\ p.sent + p.room <= MaxIn
      BY <1>0, <1>1, <1>4, <1>6
    <2> QED
      BY <1>1, <1>6, <1>8, <2>1 DEF Incoming
  <1>14. Outgoing(x, p)
    <2>1. p.got + Sizes(x.tx, "DATA") + x.outbuffer = x.written
      BY <1>1, <1>4, <1>7
    <2> QED
      BY <1>1, <1>4, <1>7, <1>8, <2>1 DEF Outgoing
  <1>15. Windows(x, r, p)
    <2>1. Sizes(x.tx, "DATA") <= p.recvwin /\ RemWin + Sizes(r, "ADJUST") = p.recvwin
      BY <1>0, <1>4, <1>6, <1>7
    <2> QED
      BY <1>4, <1>9, <2>1 DEF Windows
  <1>16. Listed(x, 0)
    <2>1. Len(x.chanreqs) = 0
      BY <1>1
    <2>2. Asked(x.chanreqs, 0) = {}
      BY <2>1 DEF Asked
    <2>3. {x.chanreqs[i].r : i \in Asked(x.chanreqs, 0)} = {}
      BY <2>2
    <2> QED
      BY <1>1, <2>1, <2>2, <2>3 DEF Listed
  <1>17. Awaited(x, r, p, 0)
    <2>1. Len(x.chanreqs) = 0
      BY <1>1
    <2>2. Answers(r) + Wanted(x.tx) + 0 <= 0
      BY <1>6, <1>7
    <2> QED
      BY <2>1, <2>2, Zenon DEF Awaited
  <1>18. Forgotten(x, r, p)
    BY <1>4 DEF Forgotten
  <1>19. Knows(x, r, FALSE)
    BY <1>1, <1>3 DEF Knows
  <1>20. Good(x, r, p, 0, FALSE)
    BY <1>6, <1>10, <1>11, <1>12, <1>13, <1>14, <1>15, <1>16, <1>17, <1>18, <1>19 DEF Good
  <1>21. Roomy => Reopened(x)
    <2>1. x.simple => x.locmaxwin >= OUR_V2_BIGWIN
      BY <1>0, <1>2
    <2> QED
      BY <1>9, <2>1 DEF Reopened
  <1> QED
    BY <1>1, <1>4, <1>20, <1>21 DEF Between, Sent, Closing

LEMMA InitFresh ==
    ASSUME Orderly, Init
    PROVE  Fresh(c, rx, peer)
  <1>1. "early input" \notin Unguarded /\ "late reply" \notin Unguarded
    BY DEF Orderly, Avoided
  <1>2. PICK k \in Kinds, cfg \in Configs \cup {{}}, q \in Quirks,
             fb \in BOOLEAN, simple \in BOOLEAN, seat \in BOOLEAN, typed \in 0..1 :
          /\ IF k = "main" THEN cfg \in Configs
             ELSE cfg = {} /\ ~fb /\ ~simple /\ ~seat /\ typed = 0
          /\ typed = 1 => "early input" \in Unguarded
          /\ k = "main" /\ "late" \in q => "late reply" \in Unguarded
          /\ c = ssh2_channel_init(k, cfg, fb, q, simple, seat, typed)
    BY DEF Init
  <1>3. typed = 0 /\ k \in {"main", "fwd", "x11"} /\ (k = "x11" => ~simple)
        /\ (k = "main" => "late" \notin q)
    <2>1. k \in {"main", "fwd", "x11"}
      BY BoundsAssumption
    <2>2. typed = 0
      <3>1. typed # 1
        BY <1>1, <1>2, Zenon
      <3> QED
        BY <3>1
    <2>3. (k = "x11" => ~simple) /\ (k = "main" => "late" \notin q)
      BY <1>1, <1>2
    <2> QED
      BY <2>1, <2>2, <2>3
  <1>4. /\ DOMAIN c = Fields
        /\ c.chan = k /\ c.simple = simple /\ c.bugs = q
        /\ c.life = IF k = "x11" THEN "none" ELSE "half"
        /\ c.closes = {} /\ c.chanreqs = << >> /\ c.req = {} /\ c.pending_eof = FALSE
        /\ c.outbuffer = 0 /\ c.written = 0 /\ c.remwindow = 0
        /\ c.got = 0 /\ c.backlog = 0 /\ c.eofs = 0 /\ c.ready = FALSE
        /\ c.throttling_conn = FALSE /\ c.throttle_count = 0 /\ c.fixed = FALSE
        /\ c.throttle_state = "UNTHROTTLED" /\ c.user_input = typed /\ c.fault = "none"
        /\ c.locwindow = IF simple THEN OUR_V2_BIGWIN ELSE OUR_V2_WINSIZE
        /\ c.locmaxwin = IF simple THEN OUR_V2_BIGWIN ELSE OUR_V2_WINSIZE
        /\ c.remlocwin = IF simple THEN OUR_V2_BIGWIN ELSE OUR_V2_WINSIZE
        /\ c.x11 = IF k = "x11" THEN "greeting" ELSE "connected"
        /\ c.tx = IF k = "x11" THEN << >> ELSE <<Packet("OPEN")>>
    BY <1>2 DEF ssh2_channel_init, Fields
  <1>5. rx = IF c.chan = "x11" THEN <<Packet("OPEN")>> ELSE << >>
    BY DEF Init
  <1>6. /\ DOMAIN peer = PeerFields /\ peer.state = "opening"
        /\ peer.sendwin = 0 /\ peer.recvwin = RemWin /\ peer.sent = 0 /\ peer.got = 0
        /\ peer.room = IF c.chan = "main" THEN SessionIn ELSE MaxIn
        /\ peer.grants = IF c.chan = "main" THEN SessionOut ELSE MaxOut
        /\ peer.eof = FALSE /\ peer.close = FALSE
        /\ peer.gotEof = FALSE /\ peer.gotClose = FALSE
    BY DEF Init, PeerFields
  <1>7. peer.room \in 0..MaxIn /\ peer.grants \in Nat
    <2>1. /\ MaxIn \in Nat /\ MaxOut \in Nat
          /\ SessionIn \in 0..MaxIn /\ SessionOut \in 0..MaxOut
      BY BoundsAssumption
    <2>2. MaxIn \in 0..MaxIn /\ SessionOut \in Nat
      BY <2>1
    <2> QED
      BY <1>6, <2>1, <2>2
  <1>8. /\ c.locwindow = c.locmaxwin /\ c.remlocwin = c.locmaxwin
        /\ c.locmaxwin = IF c.simple THEN OUR_V2_BIGWIN ELSE OUR_V2_WINSIZE
    BY <1>4
  <1>9. /\ c.chan \in Kinds /\ c.chan \in {"main", "fwd", "x11"}
        /\ c.chan = "x11" => ~c.simple
        /\ c.chan = "main" => "late" \notin c.bugs
    BY <1>3, <1>4
  <1>10. /\ c.life = IF c.chan = "x11" THEN "none" ELSE "half"
         /\ c.x11 = IF c.chan = "x11" THEN "greeting" ELSE "connected"
         /\ c.tx = IF c.chan = "x11" THEN << >> ELSE <<Packet("OPEN")>>
         /\ c.user_input = 0 /\ ~c.pending_eof /\ ~c.ready
    BY <1>3, <1>4
  <1> QED
    BY <1>4, <1>5, <1>6, <1>7, <1>8, <1>9, <1>10 DEF Fresh

(* A packet is taken.                                                      *)
LEMMA Taken ==
    ASSUME NEW t, Inv, Take(t)
    PROVE  /\ Took(rx, rx', Head(rx)) /\ Head(rx).t = t /\ peer' = peer
           /\ rx' \in Seq(Packets) /\ rx # << >> /\ rx' = Tail(rx)
           /\ Between(c, rx, peer) /\ Good(c, rx, peer, 0, FALSE)
  <1>1. /\ rx # << >> /\ Head(rx).t = t /\ peer' = peer /\ rx' = Tail(rx)
    BY DEF Take
  <1>2. Between(c, rx, peer) /\ Good(c, rx, peer, 0, FALSE) /\ rx \in Seq(Packets)
    BY DEF Inv, Between, Good
  <1>3. Took(rx, Tail(rx), Head(rx))
    BY <1>1, <1>2, TailTook
  <1>4. Took(rx, rx', Head(rx))
    BY <1>1, <1>3
  <1>5. rx' \in Seq(Packets)
    BY <1>4 DEF Took
  <1> QED
    BY <1>1, <1>2, <1>4, <1>5

(* A packet for an open channel.                                           *)
LEMMA TakenOpen ==
    ASSUME NEW t, Inv, Take(t), t \in Body
    PROVE  c.life = "open" /\ \A y : Checked("open", y) = y
  <1>1. /\ Took(rx, rx', Head(rx)) /\ Head(rx).t = t
        /\ Good(c, rx, peer, 0, FALSE)
    BY Taken
  <1>2. c.life = "open"
    BY <1>1, HeadOpen
  <1> QED
    BY <1>2 DEF Checked

LEMMA GotOpenInv ==
    ASSUME NEW sharing \in BOOLEAN, Inv, GotOpen(sharing)
    PROVE  Inv'
  <1>0. Take("OPEN")
    BY DEF GotOpen
  <1>1. /\ Took(rx, rx', Head(rx)) /\ Head(rx).t = "OPEN" /\ peer' = peer
        /\ Between(c, rx, peer)
    BY <1>0, Taken
  <1>2. PICK win : win = IF sharing THEN FixedWin ELSE c.locwindow
    OBVIOUS
  <1>3. Accepts(c, c', sharing, win)
    BY <1>2 DEF GotOpen, Accepts
  <1>4. Between(c', rx', peer)
    BY <1>1, <1>3, GetOpenGood
  <1> QED
    BY <1>1, <1>4 DEF Inv

LEMMA GotUnwantedOpenInv ==
    ASSUME Inv, GotUnwantedOpen
    PROVE  Inv'
  <1>0. Take("OPEN")
    BY DEF GotUnwantedOpen
  <1>1. /\ Took(rx, rx', Head(rx)) /\ Head(rx).t = "OPEN" /\ peer' = peer
        /\ Between(c, rx, peer)
    BY <1>0, Taken
  <1>2. PICK y : y = [Push(c, Packet("REFUSAL")) EXCEPT !.life = "freed"]
    OBVIOUS
  <1>3. c' = y
    BY <1>2 DEF GotUnwantedOpen
  <1>4. Between(y, rx', peer)
    BY <1>1, <1>2, GetUnwantedOpenGood
  <1> QED
    BY <1>1, <1>3, <1>4 DEF Inv

LEMMA GotConfirmationInv ==
    ASSUME Inv, GotConfirmation
    PROVE  Inv'
  <1>0. Take("CONFIRMATION")
    BY DEF GotConfirmation
  <1>1. /\ Took(rx, rx', Head(rx)) /\ Head(rx).t = "CONFIRMATION" /\ peer' = peer
        /\ Between(c, rx, peer) /\ rx' \in Seq(Packets) /\ Good(c, rx, peer, 0, FALSE)
    BY <1>0, Taken
  <1>2. c.life = "half"
    BY <1>1, HeadOpening
  <1>10. PICK a : a = Head(rx)
    OBVIOUS
  <1>3. PICK z : z = [c EXCEPT !.life = "open", !.remwindow = a.n]
    OBVIOUS
  <1>4. PICK v : v = chan_open_confirmation(z)
    OBVIOUS
  <1>5. PICK u : u = ssh2_channel_check_close(v)
    OBVIOUS
  <1>6. PICK y : y = IF u.pending_eof THEN ssh2_channel_try_eof(u) ELSE u
    OBVIOUS
  <1>7. c' = Checked("half", y)
    BY <1>3, <1>4, <1>5, <1>6, <1>10 DEF GotConfirmation
  <1>8. c' = y
    BY <1>2, <1>7 DEF Checked
  <1>9. Between(y, rx', peer)
    <2>1. Took(rx, rx', a) /\ a.t = "CONFIRMATION"
      BY <1>1, <1>10
    <2>2. Confirms(c, z, a) /\ EofDue(u, y)
      BY <1>3, <1>6 DEF Confirms, EofDue
    <2> QED
      BY <1>1, <1>4, <1>5, <2>1, <2>2, GetConfirmationGood
  <1> QED
    BY <1>1, <1>8, <1>9 DEF Inv

LEMMA GotRefusalInv ==
    ASSUME Inv, GotRefusal
    PROVE  Inv'
  <1>0. Take("REFUSAL")
    BY DEF GotRefusal
  <1>1. /\ Took(rx, rx', Head(rx)) /\ Head(rx).t = "REFUSAL" /\ peer' = peer
        /\ Between(c, rx, peer) /\ Good(c, rx, peer, 0, FALSE)
    BY <1>0, Taken
  <1>2. c.life = "half"
    BY <1>1, HeadOpening
  <1>3. PICK y : y = [c EXCEPT !.life = "freed"]
    OBVIOUS
  <1>4. c' = y
    BY <1>2, <1>3 DEF GotRefusal, Checked
  <1>5. Between(y, rx', peer)
    BY <1>1, <1>3, GetRefusalGood
  <1> QED
    BY <1>1, <1>4, <1>5 DEF Inv

LEMMA GotDataInv ==
    ASSUME Orderly, NEW bufsize \in 0..MaxIn, NEW outcome \in Outcomes, Inv,
           GotData(bufsize, outcome)
    PROVE  Inv'
  <1>0. Take("DATA")
    BY DEF GotData
  <1>1. /\ Took(rx, rx', Head(rx)) /\ Head(rx).t = "DATA" /\ peer' = peer
        /\ Between(c, rx, peer) /\ rx' \in Seq(Packets)
    BY <1>0, Taken
  <1>2. "DATA" \in Body
    BY DEF Body
  <1>3. \A y : Checked("open", y) = y
    BY <1>0, <1>2, TakenOpen
  <1>4. PICK n \in Nat : n = Head(rx).n
    <2>1. Head(rx) \in Packets
      BY <1>1 DEF Took
    <2> QED
      BY <2>1 DEF Packets
  <1>5. bufsize \in Nat
    OBVIOUS
  <1> DEFINE x1 == chan_send([c EXCEPT !.locwindow = @ - Head(rx).n,
                                       !.remlocwin = @ - Head(rx).n],
                             Head(rx).n, bufsize, outcome)
             x2 == IF /\ x1.remlocwin <= 0
                      /\ x1.throttle_state = "UNTHROTTLED"
                      /\ x1.locmaxwin < WinCap
                   THEN [x1 EXCEPT !.locmaxwin = @ + OUR_V2_WINSIZE] ELSE x1
             x3 == IF bufsize < x2.locmaxwin
                   THEN ssh2_set_window(x2, x2.locmaxwin - bufsize) ELSE x2
             y == IF /\ bufsize > x3.locmaxwin \/ (x3.simple /\ bufsize > 0)
                     /\ ~x3.throttling_conn
                  THEN ssh_throttle_conn(x3, 1)
                  ELSE x3
  <1>10. c' = Checked("open", y)
    BY DEF GotData
  <1> HIDE DEF x1, x2, x3, y
  <1>11. c' = y
    BY <1>3, <1>10
  <1>12. x2 = [x1 EXCEPT !.locmaxwin = @ + OUR_V2_WINSIZE] \/ x2 = x1
    BY DEF x2
  <1>13. Buffered(x1, x2, x3, y, bufsize)
    BY <1>12 DEF Buffered, x3, y
  <1>14. outcome \in {"refused", "unreachable"} => ~Has(rx', {"DATA"})
    <2>1. SUFFICES ASSUME outcome \in {"refused", "unreachable"}
                   PROVE  ~Has(rx', {"DATA"})
      OBVIOUS
    <2>2. \A i \in 2..Len(rx) : rx[i].t # "DATA"
      BY <2>1 DEF GotData, Allowed, Orderly, Avoided
    <2>3. \A i \in 1..Len(rx') : rx'[i] = rx[i + 1] /\ i + 1 \in 2..Len(rx)
      BY <1>1 DEF Took
    <2> QED
      BY <2>2, <2>3 DEF Has
  <1>15. /\ IF c.chan = "zombie" \/ outcome # "connected" THEN bufsize = 0
            ELSE IF c.backlog > 0 THEN bufsize = c.backlog + n
            ELSE bufsize <= n
         /\ c.x11 = "connected" => outcome = "connected"
    BY <1>4 DEF GotData
  <1>18. x1 = chan_send([c EXCEPT !.locwindow = @ - n, !.remlocwin = @ - n],
                        n, bufsize, outcome)
    BY <1>4, Zenon DEF x1
  <1>16. Handed(c, x1, rx', n, bufsize, outcome)
    BY <1>14, <1>15, <1>18 DEF Handed
  <1>17. Between(y, rx', peer)
    BY <1>1, <1>4, <1>5, <1>13, <1>16, GetDataGood
  <1> QED
    BY <1>1, <1>11, <1>17 DEF Inv

LEMMA GotAdjustInv ==
    ASSUME Inv, GotAdjust
    PROVE  Inv'
  <1>0. Take("ADJUST")
    BY DEF GotAdjust
  <1>1. /\ Took(rx, rx', Head(rx)) /\ Head(rx).t = "ADJUST" /\ peer' = peer
        /\ Between(c, rx, peer) /\ rx' \in Seq(Packets)
    BY <1>0, Taken
  <1>2. "ADJUST" \in Body
    BY DEF Body
  <1>3. \A y : Checked("open", y) = y
    BY <1>0, <1>2, TakenOpen
  <1>4. PICK n : n = Head(rx).n
    OBVIOUS
  <1>5. PICK y : y = IF SENT_EOF \in c.closes THEN c
                     ELSE ssh2_try_send_and_unthrottle([c EXCEPT !.remwindow = @ + n])
    OBVIOUS
  <1>6. c' = Checked("open", y)
    BY <1>4, <1>5 DEF GotAdjust
  <1>7. c' = y
    BY <1>3, <1>6
  <1>8. Between(y, rx', peer)
    BY <1>1, <1>4, <1>5, GetAdjustGood
  <1> QED
    BY <1>1, <1>7, <1>8 DEF Inv

LEMMA GotRequestInv ==
    ASSUME NEW success \in BOOLEAN, Inv, GotRequest(success)
    PROVE  Inv'
  <1>0. Take("REQUEST")
    BY DEF GotRequest
  <1>1. /\ Took(rx, rx', Head(rx)) /\ Head(rx).t = "REQUEST" /\ peer' = peer
        /\ Between(c, rx, peer) /\ rx' \in Seq(Packets)
    BY <1>0, Taken
  <1>2. "REQUEST" \in Body
    BY DEF Body
  <1>3. \A y : Checked("open", y) = y
    BY <1>0, <1>2, TakenOpen
  <1>4. PICK t \in Replies : t = IF success THEN "SUCCESS" ELSE "FAILURE"
    BY DEF Replies
  <1>5. PICK y : y = IF SENT_CLOSE \in c.closes THEN c ELSE Push(c, Packet(t))
    OBVIOUS
  <1>6. c' = Checked("open", y)
    BY <1>4, <1>5 DEF GotRequest
  <1>7. c' = y
    BY <1>3, <1>6
  <1>8. Between(y, rx', peer)
    BY <1>1, <1>5, GetRequestGood
  <1> QED
    BY <1>1, <1>7, <1>8 DEF Inv

LEMMA GotReplyInv ==
    ASSUME NEW success \in BOOLEAN, Inv, GotReply(success)
    PROVE  Inv'
  <1>4. PICK t : t = IF success THEN "SUCCESS" ELSE "FAILURE"
    OBVIOUS
  <1>0. Take(t)
    BY <1>4 DEF GotReply
  <1>1. /\ Took(rx, rx', Head(rx)) /\ Head(rx).t = t /\ peer' = peer
        /\ Between(c, rx, peer) /\ rx' \in Seq(Packets)
    BY <1>0, Taken
  <1>2. t \in Body /\ t \in Replies
    BY <1>4 DEF Body, Replies
  <1>3. \A y : Checked("open", y) = y
    BY <1>0, <1>2, TakenOpen
  <1>5. c.chanreqs # << >>
    BY <1>1, <1>2, ReplyExpected
  <1>6. PICK v : v = RunHandler(c, Head(c.chanreqs), success)
    OBVIOUS
  <1>7. PICK y : y = ssh2_channel_check_close([v EXCEPT !.chanreqs = Tail(@)])
    OBVIOUS
  <1>8. c' = Checked("open", y)
    BY <1>5, <1>6, <1>7 DEF GotReply
  <1>9. c' = y
    BY <1>3, <1>8
  <1>10. Between(y, rx', peer)
    BY <1>1, <1>2, <1>6, <1>7, GetReplyGood
  <1> QED
    BY <1>1, <1>9, <1>10 DEF Inv

LEMMA GotEofInv ==
    ASSUME Inv, GotEof
    PROVE  Inv'
  <1>0. Take("EOF")
    BY DEF GotEof
  <1>1. /\ Took(rx, rx', Head(rx)) /\ Head(rx).t = "EOF" /\ peer' = peer
        /\ Between(c, rx, peer) /\ rx' \in Seq(Packets)
    BY <1>0, Taken
  <1>2. "EOF" \in Body
    BY DEF Body
  <1>3. \A y : Checked("open", y) = y
    BY <1>0, <1>2, TakenOpen
  <1>5. PICK y : y = IF RCVD_EOF \in c.closes THEN c
                     ELSE ssh2_channel_check_close(
                            chan_send_eof([c EXCEPT !.closes = @ \cup {RCVD_EOF}]))
    OBVIOUS
  <1>6. c' = Checked("open", y)
    BY <1>5 DEF GotEof
  <1>7. c' = y
    BY <1>3, <1>6
  <1>8. Between(y, rx', peer)
    BY <1>1, <1>5, GetEofGood
  <1> QED
    BY <1>1, <1>7, <1>8 DEF Inv

LEMMA GotCloseInv ==
    ASSUME Inv, GotClose
    PROVE  Inv'
  <1>0. Take("CLOSE")
    BY DEF GotClose
  <1>1. /\ Took(rx, rx', Head(rx)) /\ Head(rx).t = "CLOSE" /\ peer' = peer
        /\ Between(c, rx, peer) /\ rx' \in Seq(Packets)
    BY <1>0, Taken
  <1>2. "CLOSE" \in Body
    BY DEF Body
  <1>3. \A y : Checked("open", y) = y
    BY <1>0, <1>2, TakenOpen
  <1>4. PICK x1 : x1 = ImpliedEof(c)
    OBVIOUS
  <1>5. PICK x2 : x2 = IF "late" \in x1.bugs THEN x1 ELSE AnswerAll(x1)
    OBVIOUS
  <1>6. PICK x3 : x3 = OutgoingEof(x2)
    OBVIOUS
  <1>7. PICK y : y = IF RCVD_CLOSE \in x3.closes THEN x3
                     ELSE ssh2_channel_check_close([x3 EXCEPT !.closes = @ \cup {RCVD_CLOSE}])
    OBVIOUS
  <1>8. c' = Checked("open", y)
    BY <1>4, <1>5, <1>6, <1>7 DEF GotClose
  <1>9. c' = y
    BY <1>3, <1>8
  <1>10. Between(y, rx', peer)
    BY <1>1, <1>4, <1>5, <1>6, <1>7, CloseGood
  <1> QED
    BY <1>1, <1>9, <1>10 DEF Inv

(* What the local end does.                                                *)
LEMMA Locally ==
    ASSUME Inv, Local
    PROVE  /\ Between(c, rx, peer) /\ c.life \in {"half", "open"} /\ c.fault = "none"
           /\ rx' = rx /\ peer' = peer /\ c.user_input = 0
           /\ \A y : c' = y /\ Between(y, rx, peer) => Inv'
  <1>1. c.life \in {"half", "open"} /\ c.fault = "none" /\ rx' = rx /\ peer' = peer
    BY DEF Local, Running
  <1>2. Between(c, rx, peer) /\ c.user_input = 0
    BY DEF Inv, Between, Good, Typed
  <1>3. ASSUME NEW y, c' = y, Between(y, rx, peer) PROVE Inv'
    BY <1>1, <1>3 DEF Inv
  <1> QED
    BY <1>1, <1>2, <1>3

LEMMA UserInputInv ==
    ASSUME Orderly, NEW n \in 1..MaxOut, Inv, UserInput(n)
    PROVE  Inv'
  <1>1. Local /\ c.chan = "main"
    BY DEF UserInput
  <1>2. /\ Between(c, rx, peer) /\ c.life \in {"half", "open"} /\ c.user_input = 0
        /\ \A y : c' = y /\ Between(y, rx, peer) => Inv'
    BY <1>1, Locally
  <1>3. Typing(c)
    BY DEF UserInput, Allowed, Orderly, Avoided, Typing
  <1>4. n \in Nat /\ n # 0 /\ c.user_input + n = n
    BY <1>2
  <1>5. PICK z : z = [c EXCEPT !.user_input = n]
    OBVIOUS
  <1>6. z = [c EXCEPT !.user_input = @ + n]
    BY <1>4, <1>5, Zenon
  <1>7. PICK y : y = ssh2_connection_got_user_input(z)
    OBVIOUS
  <1>8. c' = y
    BY <1>6, <1>7 DEF UserInput
  <1>9. Between(y, rx, peer)
    BY <1>1, <1>2, <1>3, <1>4, <1>5, <1>7, UserInputGood
  <1> QED
    BY <1>2, <1>8, <1>9

LEMMA UserEofInv ==
    ASSUME Inv, UserEof
    PROVE  Inv'
  <1>1. Local /\ c.chan = "main"
    BY DEF UserEof
  <1>2. /\ Between(c, rx, peer) /\ c.life \in {"half", "open"}
        /\ \A y : c' = y /\ Between(y, rx, peer) => Inv'
    BY <1>1, Locally
  <1>3. PICK y : y = mainchan_special_eof(c)
    OBVIOUS
  <1>4. c' = y
    BY <1>3 DEF UserEof
  <1>5. Between(y, rx, peer)
    BY <1>1, <1>2, <1>3, UserEofGood
  <1> QED
    BY <1>2, <1>4, <1>5

LEMMA SpecialInv ==
    ASSUME Orderly, Inv, Special
    PROVE  Inv'
  <1>1. Local /\ c.life = "open" /\ {SENT_CLOSE, RCVD_CLOSE} \cap c.closes = {}
    BY DEF Special, Allowed, Orderly, Avoided
  <1>2. /\ Between(c, rx, peer)
        /\ \A y : c' = y /\ Between(y, rx, peer) => Inv'
    BY <1>1, Locally
  <1>3. PICK n : n = c.specials + 1
    OBVIOUS
  <1>4. PICK y : y = ssh2_chanreq_init([c EXCEPT !.specials = n], "none", "none", 0)
    OBVIOUS
  <1>5. c' = y
    BY <1>3, <1>4 DEF Special
  <1>6. Between(y, rx, peer)
    BY <1>1, <1>2, <1>4, SpecialGood
  <1> QED
    BY <1>2, <1>5, <1>6

LEMMA SocketDataInv ==
    ASSUME NEW n \in 1..MaxOut, Inv, SocketData(n)
    PROVE  Inv'
  <1>1. Local /\ c.chan \in {"fwd", "x11"} /\ Receiving(c)
    BY DEF SocketData, Receiving
  <1>2. /\ Between(c, rx, peer) /\ c.life \in {"half", "open"}
        /\ \A y : c' = y /\ Between(y, rx, peer) => Inv'
    BY <1>1, Locally
  <1>3. PICK m : m = c.lost + n
    OBVIOUS
  <1>4. PICK y : y = IF Frozen(c) THEN [c EXCEPT !.lost = m] ELSE ssh2channel_write(c, n)
    OBVIOUS
  <1>5. c' = y
    BY <1>3, <1>4 DEF SocketData, Frozen
  <1>6. n \in Nat
    OBVIOUS
  <1>7. Between(y, rx, peer)
    BY <1>1, <1>2, <1>4, <1>6, SocketDataGood
  <1> QED
    BY <1>2, <1>5, <1>7

LEMMA SocketEofInv ==
    ASSUME Inv, SocketEof
    PROVE  Inv'
  <1>1. Local /\ c.chan \in {"fwd", "x11"} /\ c.x11 = "connected"
    BY DEF SocketEof
  <1>2. /\ Between(c, rx, peer) /\ c.life \in {"half", "open"}
        /\ \A y : c' = y /\ Between(y, rx, peer) => Inv'
    BY <1>1, Locally
  <1>3. PICK y : y = ssh2channel_write_eof([c EXCEPT !.eof_sent = TRUE])
    OBVIOUS
  <1>4. c' = y
    BY <1>3 DEF SocketEof
  <1>5. Between(y, rx, peer)
    BY <1>1, <1>2, <1>3, SocketEofGood
  <1> QED
    BY <1>2, <1>4, <1>5

LEMMA SocketErrorInv ==
    ASSUME Orderly, Inv, SocketError
    PROVE  Inv'
  <1>1. Local /\ c.chan \in {"fwd", "x11"} /\ c.x11 = "connected"
    BY DEF SocketError
  <1>2. /\ Between(c, rx, peer) /\ c.life \in {"half", "open"} /\ c.fault = "none"
        /\ \A y : c' = y /\ Between(y, rx, peer) => Inv'
    BY <1>1, Locally
  <1>3. PICK silent : silent = (c.chan = "x11" /\ c.written = 0)
    OBVIOUS
  <1>4. silent => SENT_EOF \notin c.closes
    BY <1>3 DEF SocketError, Allowed, Orderly, Avoided
  <1>5. PICK z : z = IF silent THEN x11_send_init_error(c) ELSE c
    OBVIOUS
  <1>6. PICK y : y = IF z.fault = "none" THEN ssh2channel_initiate_close(z) ELSE z
    OBVIOUS
  <1>7. c' = y
    BY <1>3, <1>5, <1>6 DEF SocketError
  <1>8. Between(y, rx, peer)
    BY <1>1, <1>2, <1>3, <1>4, <1>5, <1>6, SocketErrorGood
  <1> QED
    BY <1>2, <1>7, <1>8

LEMMA ConsumeInv ==
    ASSUME NEW bufsize \in 0..MaxIn, Inv, Consume(bufsize)
    PROVE  Inv'
  <1>1. Local /\ bufsize < c.backlog
    BY DEF Consume
  <1>2. /\ Between(c, rx, peer) /\ c.life \in {"half", "open"}
        /\ \A y : c' = y /\ Between(y, rx, peer) => Inv'
    BY <1>1, Locally
  <1>3. PICK y : y = ssh2channel_unthrottle([c EXCEPT !.backlog = bufsize], bufsize)
    OBVIOUS
  <1>4. c' = y
    BY <1>3 DEF Consume
  <1>5. bufsize \in Nat
    OBVIOUS
  <1>6. Between(y, rx, peer)
    BY <1>1, <1>2, <1>3, <1>5, ConsumeGood
  <1> QED
    BY <1>2, <1>4, <1>6

LEMMA ThrottleAllInv ==
    ASSUME NEW throttled \in BOOLEAN, Inv, ssh2_throttle_all_channels(throttled)
    PROVE  Inv'
  <1>1. Local
    BY DEF ssh2_throttle_all_channels
  <1>2. /\ Between(c, rx, peer) /\ c.life \in {"half", "open"}
        /\ \A y : c' = y /\ Between(y, rx, peer) => Inv'
    BY <1>1, Locally
  <1>3. PICK y : y = ssh2_channel_check_throttle([c EXCEPT !.all_throttled = throttled])
    OBVIOUS
  <1>4. c' = y
    BY <1>3 DEF ssh2_throttle_all_channels
  <1>5. Between(y, rx, peer)
    BY <1>2, <1>3, ThrottleAllGood
  <1> QED
    BY <1>2, <1>4, <1>5

(* What the peer does.                                                     *)
LEMMA TxTaken ==
    ASSUME NEW t, Inv, PeerTakes(t)
    PROVE  /\ Took(c.tx, c'.tx, Head(c.tx)) /\ Head(c.tx).t = t
           /\ Keeps(c, c', {"tx"}) /\ Between(c, rx, peer)
           /\ PeerTyped(peer) /\ rx \in Seq(Packets)
  <1>1. c.tx # << >> /\ Head(c.tx).t = t /\ c' = [c EXCEPT !.tx = Tail(@)]
    BY DEF PeerTakes
  <1>2. /\ Between(c, rx, peer) /\ DOMAIN c = Fields /\ c.tx \in Seq(Packets)
        /\ PeerTyped(peer) /\ rx \in Seq(Packets)
    BY DEF Inv, Between, Good, Typed
  <1>3. c'.tx = Tail(c.tx) /\ Keeps(c, c', {"tx"})
    BY <1>1, <1>2 DEF Keeps, Fields
  <1>4. Took(c.tx, Tail(c.tx), Head(c.tx))
    BY <1>1, <1>2, TailTook
  <1> QED
    BY <1>1, <1>2, <1>3, <1>4

(* The other fields of the peer stay when it opens the channel.            *)
Otherwise(p, q) ==
    /\ DOMAIN q = PeerFields
    /\ q.sent = p.sent /\ q.room = p.room /\ q.grants = p.grants
    /\ q.eof = p.eof /\ q.close = p.close /\ q.got = p.got
    /\ q.gotEof = p.gotEof /\ q.gotClose = p.gotClose /\ q.recvwin = p.recvwin

LEMMA PeerOpensInv ==
    ASSUME Inv, PeerOpens
    PROVE  Inv'
  <1>1. PICK a : a = Head(c.tx)
    OBVIOUS
  <1>2. CASE /\ PeerTakes("OPEN") /\ Reply(Bytes("CONFIRMATION", RemWin))
             /\ peer' = [peer EXCEPT !.state = "open", !.sendwin = c.locwindow]
    <2>1. /\ Took(c.tx, c'.tx, a) /\ a.t = "OPEN"
          /\ Keeps(c, c', {"tx"}) /\ Between(c, rx, peer)
          /\ DOMAIN peer = PeerFields /\ rx \in Seq(Packets)
      BY <1>1, <1>2, TxTaken DEF PeerTyped
    <2>2. PICK b : b = Bytes("CONFIRMATION", RemWin)
      OBVIOUS
    <2>3. b \in Packets
      BY <2>2, BoundsAssumption DEF Bytes, Packets, Names
    <2>4. Pushed(rx, rx', b)
      <3>1. rx' = Append(rx, b)
        BY <1>2, <2>2 DEF Reply
      <3> QED
        BY <2>1, <2>3, <3>1, PushPushed
    <2>7. Otherwise(peer, peer') /\ peer'.state = "open" /\ peer'.sendwin = c.locwindow
      BY <1>2, <2>1 DEF Otherwise, PeerFields
    <2>5. Opens(c, rx, rx', peer, peer', a)
      BY <2>1, <2>2, <2>4, <2>7 DEF Opens, Otherwise
    <2>6. Between(c', rx', peer')
      BY <2>1, <2>5, PeerOpensBetween
    <2> QED
      BY <2>6 DEF Inv
  <1>3. CASE /\ PeerTakes("OPEN") /\ Reply(Packet("REFUSAL"))
             /\ peer' = [peer EXCEPT !.state = "closed"]
    <2>1. /\ Took(c.tx, c'.tx, a) /\ a.t = "OPEN"
          /\ Keeps(c, c', {"tx"}) /\ Between(c, rx, peer)
          /\ DOMAIN peer = PeerFields /\ rx \in Seq(Packets)
      BY <1>1, <1>3, TxTaken DEF PeerTyped
    <2>2. PICK b : b = Packet("REFUSAL")
      OBVIOUS
    <2>3. b \in Packets
      BY <2>2 DEF Packet, Packets, Names
    <2>4. Pushed(rx, rx', b)
      <3>1. rx' = Append(rx, b)
        BY <1>3, <2>2 DEF Reply
      <3> QED
        BY <2>1, <2>3, <3>1, PushPushed
    <2>7. Otherwise(peer, peer') /\ peer'.state = "closed" /\ peer'.sendwin = peer.sendwin
      BY <1>3, <2>1 DEF Otherwise, PeerFields
    <2>5. Opens(c, rx, rx', peer, peer', a)
      BY <2>1, <2>2, <2>4, <2>7 DEF Opens, Otherwise
    <2>6. Between(c', rx', peer')
      BY <2>1, <2>5, PeerOpensBetween
    <2> QED
      BY <2>6 DEF Inv
  <1>4. CASE /\ PeerTakes("CONFIRMATION") /\ UNCHANGED rx
             /\ peer' = [peer EXCEPT !.state = "open", !.sendwin = Head(c.tx).n]
    <2>1. /\ Took(c.tx, c'.tx, a) /\ a.t = "CONFIRMATION"
          /\ Keeps(c, c', {"tx"}) /\ Between(c, rx, peer)
          /\ DOMAIN peer = PeerFields
      BY <1>1, <1>4, TxTaken DEF PeerTyped
    <2>2. peer' = [peer EXCEPT !.state = "open", !.sendwin = a.n] /\ rx' = rx
      BY <1>1, <1>4
    <2>7. Otherwise(peer, peer') /\ peer'.state = "open" /\ peer'.sendwin = a.n
      BY <2>1, <2>2 DEF Otherwise, PeerFields
    <2>5. Opens(c, rx, rx', peer, peer', a)
      BY <2>1, <2>2, <2>7 DEF Opens, Otherwise
    <2>6. Between(c', rx', peer')
      BY <2>1, <2>5, PeerOpensBetween
    <2> QED
      BY <2>6 DEF Inv
  <1>5. CASE /\ PeerTakes("REFUSAL") /\ UNCHANGED rx
             /\ peer' = [peer EXCEPT !.state = "closed"]
    <2>1. /\ Took(c.tx, c'.tx, a) /\ a.t = "REFUSAL"
          /\ Keeps(c, c', {"tx"}) /\ Between(c, rx, peer)
          /\ DOMAIN peer = PeerFields
      BY <1>1, <1>5, TxTaken DEF PeerTyped
    <2>2. rx' = rx
      BY <1>5
    <2>7. Otherwise(peer, peer') /\ peer'.state = "closed" /\ peer'.sendwin = peer.sendwin
      BY <1>5, <2>1 DEF Otherwise, PeerFields
    <2>5. Opens(c, rx, rx', peer, peer', a)
      BY <2>1, <2>2, <2>7 DEF Opens, Otherwise
    <2>6. Between(c', rx', peer')
      BY <2>1, <2>5, PeerOpensBetween
    <2> QED
      BY <2>6 DEF Inv
  <1> QED
    BY <1>2, <1>3, <1>4, <1>5 DEF PeerOpens

(* A packet that the peer does not answer.                                 *)
LEMMA PeerGetsInv ==
    ASSUME NEW t \in Body, Inv, PeerTakes(t), UNCHANGED rx, Gets(peer, peer', Head(c.tx))
    PROVE  Inv'
  <1>1. PICK a : a = Head(c.tx)
    OBVIOUS
  <1>2. /\ Took(c.tx, c'.tx, a) /\ a.t \in Body
        /\ Keeps(c, c', {"tx"}) /\ Between(c, rx, peer)
    BY <1>1, TxTaken
  <1>3. Gets(peer, peer', a)
    BY <1>1
  <1>4. Between(c', rx, peer')
    BY <1>2, <1>3, PeerGetsGood
  <1> QED
    BY <1>4 DEF Inv

(* The packet changes nothing for the peer that we keep count of.          *)
LEMMA GetsNothing ==
    ASSUME NEW p, NEW a, PeerTyped(p), a.t \in {"REQUEST", "SUCCESS", "FAILURE"}
    PROVE  Gets(p, p, a)
  <1>1. Size(a, "DATA") = 0 /\ Size(a, "ADJUST") = 0
    BY DEF Size
  <1> QED
    BY <1>1 DEF Gets, PeerTyped

LEMMA PeerGetsDataInv ==
    ASSUME Inv, PeerGetsData
    PROVE  Inv'
  <1>1. PeerTakes("DATA") /\ UNCHANGED rx /\ "DATA" \in Body
    BY DEF PeerGetsData, Body
  <1>2. Head(c.tx).t = "DATA" /\ PeerTyped(peer)
    BY <1>1, TxTaken
  <1>3. PICK a : a = Head(c.tx)
    OBVIOUS
  <1>4. Size(a, "DATA") = a.n /\ Size(a, "ADJUST") = 0
    BY <1>2, <1>3 DEF Size
  <1>5. peer' = [peer EXCEPT !.got = @ + a.n, !.recvwin = @ - a.n]
    BY <1>3 DEF PeerGetsData
  <1>6. Gets(peer, peer', a)
    BY <1>2, <1>4, <1>5 DEF Gets, PeerTyped, PeerFields
  <1> QED
    BY <1>1, <1>3, <1>6, PeerGetsInv

LEMMA PeerGetsAdjustInv ==
    ASSUME Inv, PeerGetsAdjust
    PROVE  Inv'
  <1>1. PeerTakes("ADJUST") /\ UNCHANGED rx /\ "ADJUST" \in Body
    BY DEF PeerGetsAdjust, Body
  <1>2. Head(c.tx).t = "ADJUST" /\ PeerTyped(peer)
    BY <1>1, TxTaken
  <1>3. PICK a : a = Head(c.tx)
    OBVIOUS
  <1>4. Size(a, "ADJUST") = a.n /\ Size(a, "DATA") = 0
    BY <1>2, <1>3 DEF Size
  <1>5. peer' = [peer EXCEPT !.sendwin = @ + a.n]
    BY <1>3 DEF PeerGetsAdjust
  <1>6. Gets(peer, peer', a)
    BY <1>2, <1>4, <1>5 DEF Gets, PeerTyped, PeerFields
  <1> QED
    BY <1>1, <1>3, <1>6, PeerGetsInv

LEMMA PeerGetsRequestInv ==
    ASSUME NEW granted \in BOOLEAN, Inv, PeerGetsRequest(granted)
    PROVE  Inv'
  <1>1. PeerTakes("REQUEST") /\ peer' = peer /\ "REQUEST" \in Body
    BY DEF PeerGetsRequest, Body
  <1>2. PICK a : a = Head(c.tx)
    OBVIOUS
  <1>3. /\ Took(c.tx, c'.tx, a) /\ a.t = "REQUEST"
        /\ Keeps(c, c', {"tx"}) /\ Between(c, rx, peer)
        /\ PeerTyped(peer) /\ rx \in Seq(Packets)
    BY <1>1, <1>2, TxTaken
  <1>4. CASE a.r = "none" \/ (peer.close /\ "late" \notin c.bugs)
    <2>1. UNCHANGED rx
      BY <1>2, <1>4 DEF PeerGetsRequest
    <2>2. Gets(peer, peer', a)
      BY <1>1, <1>3, GetsNothing
    <2> QED
      BY <1>1, <1>2, <2>1, <2>2, PeerGetsInv
  <1>5. CASE a.r # "none" /\ (~peer.close \/ "late" \in c.bugs)
    <2>1. PICK b : b = Packet(IF granted THEN "SUCCESS" ELSE "FAILURE")
      OBVIOUS
    <2>2. b \in Packets /\ b.t \in Replies
      BY <2>1 DEF Packet, Packets, Names, Body, Replies
    <2>3. rx' = Append(rx, b)
      BY <1>2, <1>5, <2>1 DEF PeerGetsRequest, Reply
    <2>4. Pushed(rx, rx', b)
      BY <1>3, <2>2, <2>3, PushPushed
    <2>5. Between(c', rx', peer)
      BY <1>3, <1>5, <2>2, <2>4, PeerRepliesGood
    <2> QED
      BY <1>1, <2>5 DEF Inv
  <1> QED
    BY <1>4, <1>5

LEMMA PeerGetsReplyInv ==
    ASSUME Inv, PeerGetsReply
    PROVE  Inv'
  <1>1. PICK t \in Replies : PeerTakes(t)
    BY DEF PeerGetsReply, Replies
  <1>2. UNCHANGED rx /\ peer' = peer /\ t \in Body
    BY DEF PeerGetsReply, Body
  <1>3. PeerTyped(peer) /\ Head(c.tx).t = t
    BY <1>1, TxTaken
  <1>4. Gets(peer, peer', Head(c.tx))
    BY <1>2, <1>3, GetsNothing DEF Replies
  <1> QED
    BY <1>1, <1>2, <1>4, PeerGetsInv

LEMMA PeerGetsEofInv ==
    ASSUME Inv, PeerGetsEof
    PROVE  Inv'
  <1>1. PeerTakes("EOF") /\ UNCHANGED rx /\ "EOF" \in Body
    BY DEF PeerGetsEof, Body
  <1>2. Head(c.tx).t = "EOF" /\ PeerTyped(peer)
    BY <1>1, TxTaken
  <1>3. PICK a : a = Head(c.tx)
    OBVIOUS
  <1>4. Size(a, "ADJUST") = 0 /\ Size(a, "DATA") = 0 /\ a.t = "EOF"
    BY <1>2, <1>3 DEF Size
  <1>5. peer' = [peer EXCEPT !.gotEof = TRUE]
    BY DEF PeerGetsEof
  <1>6. Gets(peer, peer', a)
    BY <1>2, <1>4, <1>5 DEF Gets, PeerTyped, PeerFields
  <1> QED
    BY <1>1, <1>3, <1>6, PeerGetsInv

LEMMA PeerGetsCloseInv ==
    ASSUME Inv, PeerGetsClose
    PROVE  Inv'
  <1>1. PeerTakes("CLOSE")
    BY DEF PeerGetsClose
  <1>2. PICK a : a = Head(c.tx)
    OBVIOUS
  <1>3. /\ Took(c.tx, c'.tx, a) /\ a.t = "CLOSE"
        /\ Keeps(c, c', {"tx"}) /\ Between(c, rx, peer) /\ rx \in Seq(Packets)
    BY <1>1, <1>2, TxTaken
  <1>4. HasClosed(peer, peer')
    BY DEF PeerGetsClose, HasClosed
  <1>5. PeerHasClose(rx, rx', peer)
    <2>1. CASE peer.close
      BY <2>1 DEF PeerGetsClose, PeerHasClose
    <2>2. CASE ~peer.close
      <3>1. PICK b : b = Packet("CLOSE")
        OBVIOUS
      <3>2. b \in Packets
        BY <3>1 DEF Packet, Packets, Names, Body
      <3>3. rx' = Append(rx, b)
        BY <2>2, <3>1 DEF PeerGetsClose, Reply
      <3>4. Pushed(rx, rx', b)
        BY <1>3, <3>2, <3>3, PushPushed
      <3> QED
        BY <2>2, <3>1, <3>4 DEF PeerHasClose
    <2> QED
      BY <2>1, <2>2
  <1>6. Between(c', rx', peer')
    BY <1>3, <1>4, <1>5, PeerGetsCloseGood
  <1> QED
    BY <1>6 DEF Inv

LEMMA MaySend ==
    ASSUME Inv, PeerMaySend
    PROVE  /\ Between(c, rx, peer) /\ peer.state = "open" /\ peer.close = FALSE
           /\ DOMAIN c = Fields /\ PeerTyped(peer) /\ rx \in Seq(Packets)
           /\ c' = c
  <1>1. /\ Between(c, rx, peer) /\ PeerTyped(peer) /\ rx \in Seq(Packets)
        /\ DOMAIN c = Fields
    BY DEF Inv, Between, Good, Typed
  <1>2. peer.close = FALSE
    BY <1>1 DEF PeerMaySend, PeerTyped
  <1> QED
    BY <1>1, <1>2 DEF PeerMaySend

(* Nothing but b is added to what comes from the peer.                     *)
LEMMA SentInv ==
    ASSUME NEW b \in Packets, Inv, PeerMaySend, Reply(b), SendsBack(c, rx, peer, peer', b)
    PROVE  Inv'
  <1>1. /\ Between(c, rx, peer) /\ peer.state = "open" /\ ~peer.close
        /\ rx \in Seq(Packets) /\ c' = c
    BY MaySend
  <1>2. Pushed(rx, rx', b)
    <2>1. rx' = Append(rx, b)
      BY DEF Reply
    <2> QED
      BY <1>1, <2>1, PushPushed
  <1>3. Between(c, rx', peer')
    BY <1>1, <1>2, PeerSendsGood
  <1> QED
    BY <1>1, <1>3 DEF Inv

LEMMA PeerSendsDataInv ==
    ASSUME Orderly, NEW n \in 1..MaxIn, Inv, PeerSendsData(n)
    PROVE  Inv'
  <1>1. PeerMaySend /\ ~peer.eof /\ n <= peer.sendwin /\ n <= peer.room
    BY DEF PeerSendsData
  <1>2. /\ peer.state = "open" /\ peer.close = FALSE /\ PeerTyped(peer)
    BY <1>1, MaySend
  <1>3. c.x11 \notin {"refused", "unreachable"}
    BY DEF PeerSendsData, Allowed, Orderly, Avoided
  <1>4. PICK b : b = Bytes("DATA", n)
    OBVIOUS
  <1>5. /\ b \in Packets /\ b.t = "DATA" /\ b.t \in Body /\ b.t \notin Replies
        /\ Size(b, "DATA") = n /\ Size(b, "ADJUST") = 0
    BY <1>4 DEF Bytes, Packets, Names, Body, Replies, Size
  <1>6. Reply(b)
    BY <1>4 DEF PeerSendsData
  <1>7. peer' = [peer EXCEPT !.sent = @ + n, !.sendwin = @ - n, !.room = @ - n]
    BY DEF PeerSendsData
  <1>8. peer.room - n \in Nat /\ peer.sendwin - n \in Nat
    <2>1. n \in Nat /\ peer.room \in Nat /\ peer.sendwin \in Nat
      BY <1>2 DEF PeerTyped
    <2> QED
      BY <1>1, <2>1
  <1>9. /\ DOMAIN peer' = PeerFields /\ peer'.state = peer.state
        /\ peer'.got = peer.got /\ peer'.gotEof = peer.gotEof
        /\ peer'.gotClose = peer.gotClose /\ peer'.sent = peer.sent + n
        /\ peer'.room = peer.room - n /\ peer'.sendwin = peer.sendwin - n
        /\ peer'.recvwin = peer.recvwin /\ peer'.grants = peer.grants
        /\ peer'.eof = peer.eof /\ peer'.close = peer.close
    BY <1>2, <1>7 DEF PeerTyped, PeerFields
  <1>10. peer'.recvwin = peer.recvwin + 0 /\ peer'.grants \in Nat
    BY <1>2, <1>9 DEF PeerTyped
  <1>11. SendsBack(c, rx, peer, peer', b)
    BY <1>1, <1>2, <1>3, <1>5, <1>8, <1>9, <1>10 DEF SendsBack, PeerTyped
  <1> QED
    BY <1>1, <1>5, <1>6, <1>11, SentInv

LEMMA PeerSendsAdjustInv ==
    ASSUME NEW n \in 1..MaxOut, Inv, PeerSendsAdjust(n)
    PROVE  Inv'
  <1>1. PeerMaySend /\ n <= peer.grants
    BY DEF PeerSendsAdjust
  <1>2. /\ peer.state = "open" /\ peer.close = FALSE /\ PeerTyped(peer)
    BY <1>1, MaySend
  <1>4. PICK b : b = Bytes("ADJUST", n)
    OBVIOUS
  <1>5. /\ b \in Packets /\ b.t = "ADJUST" /\ b.t \in Body /\ b.t \notin Replies
        /\ Size(b, "DATA") = 0 /\ Size(b, "ADJUST") = n
    BY <1>4 DEF Bytes, Packets, Names, Body, Replies, Size
  <1>6. Reply(b)
    BY <1>4 DEF PeerSendsAdjust
  <1>7. peer' = [peer EXCEPT !.grants = @ - n, !.recvwin = @ + n]
    BY DEF PeerSendsAdjust
  <1>8. peer.grants - n \in Nat
    <2>1. n \in Nat /\ peer.grants \in Nat
      BY <1>2 DEF PeerTyped
    <2> QED
      BY <1>1, <2>1
  <1>9. /\ DOMAIN peer' = PeerFields /\ peer'.state = peer.state
        /\ peer'.got = peer.got /\ peer'.gotEof = peer.gotEof
        /\ peer'.gotClose = peer.gotClose /\ peer'.sent = peer.sent
        /\ peer'.room = peer.room /\ peer'.sendwin = peer.sendwin
        /\ peer'.recvwin = peer.recvwin + n /\ peer'.grants = peer.grants - n
        /\ peer'.eof = peer.eof /\ peer'.close = peer.close
    BY <1>2, <1>7 DEF PeerTyped, PeerFields
  <1>10. /\ peer'.sent = peer.sent + 0 /\ peer'.room = peer.room - 0
         /\ peer'.sendwin = peer.sendwin - 0
         /\ peer'.room \in Nat /\ peer'.sendwin \in Nat
    BY <1>2, <1>9 DEF PeerTyped
  <1>11. SendsBack(c, rx, peer, peer', b)
    BY <1>2, <1>5, <1>8, <1>9, <1>10 DEF SendsBack, PeerTyped
  <1> QED
    BY <1>1, <1>5, <1>6, <1>11, SentInv

LEMMA PeerAsksInv ==
    ASSUME Inv, PeerAsks
    PROVE  Inv'
  <1>1. PeerMaySend
    BY DEF PeerAsks
  <1>2. /\ peer.state = "open" /\ peer.close = FALSE /\ PeerTyped(peer)
    BY <1>1, MaySend
  <1>4. PICK b : b = Request("asked")
    OBVIOUS
  <1>5. /\ b \in Packets /\ b.t = "REQUEST" /\ b.t \in Body /\ b.t \notin Replies
        /\ Size(b, "DATA") = 0 /\ Size(b, "ADJUST") = 0
    BY <1>4 DEF Request, Packets, Names, Body, Replies, Size
  <1>6. Reply(b)
    BY <1>4 DEF PeerAsks
  <1>7. peer' = [peer EXCEPT !.asks = @ - 1]
    BY DEF PeerAsks
  <1>9. /\ DOMAIN peer' = PeerFields /\ peer'.state = peer.state
        /\ peer'.got = peer.got /\ peer'.gotEof = peer.gotEof
        /\ peer'.gotClose = peer.gotClose /\ peer'.sent = peer.sent
        /\ peer'.room = peer.room /\ peer'.sendwin = peer.sendwin
        /\ peer'.recvwin = peer.recvwin /\ peer'.grants = peer.grants
        /\ peer'.eof = peer.eof /\ peer'.close = peer.close
    BY <1>2, <1>7 DEF PeerTyped, PeerFields
  <1>10. /\ peer'.sent = peer.sent + 0 /\ peer'.room = peer.room - 0
         /\ peer'.sendwin = peer.sendwin - 0 /\ peer'.recvwin = peer.recvwin + 0
         /\ peer'.room \in Nat /\ peer'.sendwin \in Nat /\ peer'.grants \in Nat
    BY <1>2, <1>9 DEF PeerTyped
  <1>11. SendsBack(c, rx, peer, peer', b)
    BY <1>2, <1>5, <1>9, <1>10 DEF SendsBack, PeerTyped
  <1> QED
    BY <1>1, <1>5, <1>6, <1>11, SentInv

LEMMA PeerSendsEofInv ==
    ASSUME Inv, PeerSendsEof
    PROVE  Inv'
  <1>1. PeerMaySend /\ ~peer.eof
    BY DEF PeerSendsEof
  <1>2. /\ peer.state = "open" /\ peer.close = FALSE /\ PeerTyped(peer)
    BY <1>1, MaySend
  <1>4. PICK b : b = Packet("EOF")
    OBVIOUS
  <1>5. /\ b \in Packets /\ b.t = "EOF" /\ b.t \in Body /\ b.t \notin Replies
        /\ Size(b, "DATA") = 0 /\ Size(b, "ADJUST") = 0
    BY <1>4 DEF Packet, Packets, Names, Body, Replies, Size
  <1>6. Reply(b)
    BY <1>4 DEF PeerSendsEof
  <1>7. peer' = [peer EXCEPT !.eof = TRUE]
    BY DEF PeerSendsEof
  <1>9. /\ DOMAIN peer' = PeerFields /\ peer'.state = peer.state
        /\ peer'.got = peer.got /\ peer'.gotEof = peer.gotEof
        /\ peer'.gotClose = peer.gotClose /\ peer'.sent = peer.sent
        /\ peer'.room = peer.room /\ peer'.sendwin = peer.sendwin
        /\ peer'.recvwin = peer.recvwin /\ peer'.grants = peer.grants
        /\ peer'.eof = TRUE /\ peer'.close = peer.close
    BY <1>2, <1>7 DEF PeerTyped, PeerFields
  <1>10. /\ peer'.sent = peer.sent + 0 /\ peer'.room = peer.room - 0
         /\ peer'.sendwin = peer.sendwin - 0 /\ peer'.recvwin = peer.recvwin + 0
         /\ peer'.room \in Nat /\ peer'.sendwin \in Nat /\ peer'.grants \in Nat
    BY <1>2, <1>9 DEF PeerTyped
  <1>11. SendsBack(c, rx, peer, peer', b)
    BY <1>1, <1>2, <1>5, <1>9, <1>10 DEF SendsBack, PeerTyped
  <1> QED
    BY <1>1, <1>5, <1>6, <1>11, SentInv

LEMMA PeerSendsCloseInv ==
    ASSUME Inv, PeerSendsClose
    PROVE  Inv'
  <1>1. PeerMaySend
    BY DEF PeerSendsClose
  <1>2. /\ peer.state = "open" /\ peer.close = FALSE /\ PeerTyped(peer)
    BY <1>1, MaySend
  <1>4. PICK b : b = Packet("CLOSE")
    OBVIOUS
  <1>5. /\ b \in Packets /\ b.t = "CLOSE" /\ b.t \in Body /\ b.t \notin Replies
        /\ Size(b, "DATA") = 0 /\ Size(b, "ADJUST") = 0
    BY <1>4 DEF Packet, Packets, Names, Body, Replies, Size
  <1>6. Reply(b)
    BY <1>4 DEF PeerSendsClose
  <1>7. peer' = [peer EXCEPT !.close = TRUE]
    BY DEF PeerSendsClose
  <1>9. /\ DOMAIN peer' = PeerFields /\ peer'.state = peer.state
        /\ peer'.got = peer.got /\ peer'.gotEof = peer.gotEof
        /\ peer'.gotClose = peer.gotClose /\ peer'.sent = peer.sent
        /\ peer'.room = peer.room /\ peer'.sendwin = peer.sendwin
        /\ peer'.recvwin = peer.recvwin /\ peer'.grants = peer.grants
        /\ peer'.eof = peer.eof /\ peer'.close = TRUE
    BY <1>2, <1>7 DEF PeerTyped, PeerFields
  <1>10. /\ peer'.sent = peer.sent + 0 /\ peer'.room = peer.room - 0
         /\ peer'.sendwin = peer.sendwin - 0 /\ peer'.recvwin = peer.recvwin + 0
         /\ peer'.room \in Nat /\ peer'.sendwin \in Nat /\ peer'.grants \in Nat
    BY <1>2, <1>9 DEF PeerTyped
  <1>11. SendsBack(c, rx, peer, peer', b)
    BY <1>2, <1>5, <1>9, <1>10 DEF SendsBack, PeerTyped
  <1> QED
    BY <1>1, <1>5, <1>6, <1>11, SentInv

(* The invariant is inductive.                                             *)
LEMMA InitInv ==
    ASSUME Orderly, Init
    PROVE  Inv
  BY InitFresh, FreshGood DEF Inv

LEMMA NextInv ==
    ASSUME Orderly, Inv, [Next]_vars
    PROVE  Inv'
  <1>1. CASE ssh2_connection_filter_queue
    <2>1. ASSUME NEW b \in BOOLEAN, GotOpen(b) PROVE Inv'
      BY <2>1, GotOpenInv
    <2>2. ASSUME NEW b \in BOOLEAN, GotRequest(b) PROVE Inv'
      BY <2>2, GotRequestInv
    <2>3. ASSUME NEW b \in BOOLEAN, GotReply(b) PROVE Inv'
      BY <2>3, GotReplyInv
    <2>4. ASSUME NEW n \in 0..MaxIn, NEW o \in Outcomes, GotData(n, o) PROVE Inv'
      BY <2>4, GotDataInv
    <2> QED
      BY <1>1, <2>1, <2>2, <2>3, <2>4, GotUnwantedOpenInv, GotConfirmationInv,
         GotRefusalInv, GotAdjustInv, GotEofInv, GotCloseInv
         DEF ssh2_connection_filter_queue
  <1>2. CASE LocalEnd
    <2>1. ASSUME NEW n \in 1..MaxOut, UserInput(n) PROVE Inv'
      BY <2>1, UserInputInv
    <2>2. ASSUME NEW n \in 1..MaxOut, SocketData(n) PROVE Inv'
      BY <2>2, SocketDataInv
    <2>3. ASSUME NEW n \in 0..MaxIn, Consume(n) PROVE Inv'
      BY <2>3, ConsumeInv
    <2>4. ASSUME NEW b \in BOOLEAN, ssh2_throttle_all_channels(b) PROVE Inv'
      BY <2>4, ThrottleAllInv
    <2> QED
      BY <1>2, <2>1, <2>2, <2>3, <2>4, UserEofInv, SpecialInv, SocketEofInv, SocketErrorInv
         DEF LocalEnd
  <1>3. CASE Peer
    <2>1. ASSUME NEW b \in BOOLEAN, PeerGetsRequest(b) PROVE Inv'
      BY <2>1, PeerGetsRequestInv
    <2>2. ASSUME PeerHandles PROVE Inv'
      BY <2>1, <2>2, PeerOpensInv, PeerGetsDataInv, PeerGetsAdjustInv, PeerGetsReplyInv,
         PeerGetsEofInv, PeerGetsCloseInv
         DEF PeerHandles
    <2>3. ASSUME NEW n \in 1..MaxIn, PeerSendsData(n) PROVE Inv'
      BY <2>3, PeerSendsDataInv
    <2>4. ASSUME NEW n \in 1..MaxOut, PeerSendsAdjust(n) PROVE Inv'
      BY <2>4, PeerSendsAdjustInv
    <2> QED
      BY <1>3, <2>2, <2>3, <2>4, PeerAsksInv, PeerSendsEofInv, PeerSendsCloseInv DEF Peer
  <1>4. CASE UNCHANGED vars
    BY <1>4 DEF vars, Inv
  <1> QED
    BY <1>1, <1>2, <1>3, <1>4 DEF Next

LEMMA Invariance ==
    ASSUME Orderly
    PROVE  Safe => []Inv
  <1>1. Init => Inv
    BY InitInv
  <1>2. Inv /\ [Next]_vars => Inv'
    BY NextInv
  <1> QED
    BY <1>1, <1>2, PTL DEF Safe
-----------------------------------------------------------------------------
(* What it is good for, under the condition Orderly; the runs show that    *)
(* without it most of this is false.                                       *)

(* The fields of the channel keep their types, the window and the buffers  *)
(* do not become negative, and the SSH connection is throttled at most     *)
(* once.                                                                   *)
THEOREM TypeCorrect ==
    ASSUME Orderly
    PROVE  Safe => []TypeOK
  <1>1. Inv => TypeOK
    <2> SUFFICES ASSUME Inv PROVE TypeOK
      OBVIOUS
    <2>1. Typed(c) /\ PeerTyped(peer) /\ Incoming(c, rx, peer) /\ Outgoing(c, peer)
      BY DEF Inv, Between, Good
    <2>2. c.throttle_count \in 0..1
      <3>1. c.throttle_count = IF c.throttling_conn THEN 1 ELSE 0
        BY <2>1 DEF Typed
      <3> QED
        BY <3>1
    <2>3. /\ SENT_CLOSE \in c.closes => SENT_EOF \in c.closes
          /\ RCVD_CLOSE \in c.closes => RCVD_EOF \in c.closes
      BY <2>1 DEF Incoming, Outgoing
    <2>4. {c.outbuffer, c.remwindow, c.backlog} \subseteq Nat
      BY <2>1 DEF Typed
    <2> QED
      BY <2>1, <2>2, <2>3, <2>4 DEF TypeOK, Typed, PeerTyped
  <1> QED
    BY <1>1, Invariance, PTL

(* What mainchan believes to be outstanding is on the channel's list, in   *)
(* the order in which mainchan_request_response looks for it.              *)
THEOREM RepliesFindTheirRequests ==
    ASSUME Orderly
    PROVE  Safe => []RepliesMatched
  <1>1. Inv => RepliesMatched
    <2> SUFFICES ASSUME Inv PROVE RepliesMatched
      OBVIOUS
    <2>1. Listed(c, 0) /\ c.chanreqs \in Seq(Requests)
      BY DEF Inv, Between, Good, Typed
    <2>2. DOMAIN c.chanreqs = 1..Len(c.chanreqs)
      BY <2>1
    <2>3. \A i \in 1..Len(c.chanreqs) : i > 0
      BY <2>1
    <2>4. Asked(c.chanreqs, 0)
          = {i \in DOMAIN c.chanreqs : c.chanreqs[i].h = "ssh2_channel_response"}
      BY <2>2, <2>3 DEF Asked
    <2> QED
      BY <2>1, <2>4 DEF Listed, RepliesMatched
  <1> QED
    BY <1>1, Invariance, PTL

(* The local end is told of the end of its input once, after all input.    *)
THEOREM InputEndsComplete ==
    ASSUME Orderly
    PROVE  Safe => []InputComplete
  <1>1. Inv => InputComplete
    <2> SUFFICES ASSUME Inv PROVE InputComplete
      OBVIOUS
    <2>1. Typed(c) /\ Incoming(c, rx, peer) /\ rx \in Seq(Packets) /\ PeerTyped(peer)
      BY DEF Inv, Between, Good
    <2>2. c.eofs = 0 \/ (c.eofs = 1 /\ RCVD_EOF \in c.closes)
      BY <2>1 DEF Incoming
    <2>3. ASSUME c.eofs = 1, c.chan # "zombie" PROVE c.got = peer.sent
      <3>1. RCVD_EOF \in c.closes
        BY <2>2, <2>3
      <3>2. ~Has(rx, {"DATA"})
        BY <2>1, <3>1 DEF Incoming, Has
      <3>3. Sizes(rx, "DATA") = 0
        BY <2>1, <3>2, SizesNone
      <3>4. c.got + Sizes(rx, "DATA") = peer.sent
        BY <2>1, <2>3 DEF Incoming
      <3>5. c.got \in Nat
        BY <2>1 DEF Typed
      <3> QED
        BY <3>3, <3>4, <3>5
    <2>4. c.eofs <= 1
      BY <2>2
    <2> QED
      BY <2>3, <2>4 DEF InputComplete
  <1> QED
    BY <1>1, Invariance, PTL

(* Both ends reckon alike with both windows, whatever is on its way.       *)
THEOREM WindowsInStep ==
    ASSUME Orderly
    PROVE  Safe => []WindowsAgree
  <1>1. Inv => WindowsAgree
    BY DEF Inv, Between, Good, Windows, WindowsAgree
  <1> QED
    BY <1>1, Invariance, PTL

(* Data does not wait while the window is open, and none is left behind    *)
(* when the peer sees the end.                                             *)
THEOREM OutputLosesNothing ==
    ASSUME Orderly
    PROVE  Safe => []OutputComplete
  <1>1. Inv => OutputComplete
    <2> SUFFICES ASSUME Inv PROVE OutputComplete
      OBVIOUS
    <2>1. Typed(c) /\ Outgoing(c, peer) /\ PeerTyped(peer) /\ Sent(c)
      BY DEF Inv, Between, Good
    <2>2. NothingHeldBack
      BY <2>1 DEF Sent, NothingHeldBack
    <2>3. ASSUME peer.gotEof, ~peer.close PROVE peer.got = c.written
      <3>1. c.outbuffer = 0 /\ ~Has(c.tx, {"DATA"}) /\ c.tx \in Seq(Packets)
        BY <2>1, <2>3 DEF Outgoing, Typed
      <3>2. Sizes(c.tx, "DATA") = 0
        BY <3>1, SizesNone
      <3>3. peer.got + Sizes(c.tx, "DATA") + c.outbuffer = c.written
        BY <2>1, <2>3 DEF Outgoing
      <3>4. peer.got \in Nat
        BY <2>1 DEF PeerTyped
      <3> QED
        BY <3>1, <3>2, <3>3, <3>4
    <2> QED
      BY <2>2, <2>3 DEF OutputComplete, EofAfterData
  <1> QED
    BY <1>1, Invariance, PTL

(* CHANNEL_CLOSE is the last packet for a channel, and the channel is not  *)
(* freed while one may come for it.                                        *)
THEOREM HandshakeKept ==
    ASSUME Orderly
    PROVE  Safe => []CloseHandshake
  <1>1. Inv => CloseHandshake
    <2> SUFFICES ASSUME Inv PROVE CloseHandshake
      OBVIOUS
    <2>1. Typed(c) /\ Outgoing(c, peer) /\ Forgotten(c, rx, peer)
      BY DEF Inv, Between, Good
    <2>2. ASSUME NEW i \in 1..Len(c.tx), c.tx[i].t = "CLOSE" PROVE i = Len(c.tx)
      <3>1. Len(c.tx) \in Nat
        <4>1. c.tx \in Seq(Packets)
          BY <2>1 DEF Typed
        <4> QED
          BY <4>1
      <3>2. ~(i < Len(c.tx))
        <4>1. SUFFICES ASSUME i < Len(c.tx) PROVE FALSE
          OBVIOUS
        <4>2. Len(c.tx) \in 1..Len(c.tx)
          BY <2>2, <3>1
        <4> QED
          BY <2>1, <2>2, <4>1, <4>2 DEF Outgoing
      <3> QED
        BY <2>2, <3>1, <3>2
    <2>3. CloseIsLast
      BY <2>1, <2>2 DEF CloseIsLast, Outgoing
    <2>4. FreedIsForgotten
      BY <2>1 DEF FreedIsForgotten, Forgotten
    <2> QED
      BY <2>3, <2>4 DEF CloseHandshake
  <1> QED
    BY <1>1, Invariance, PTL

(* No assertion of connection2.c fails, no channel is used after it was    *)
(* destroyed, and the peer is not accused of an error.                     *)
THEOREM NeverAtFault ==
    ASSUME Orderly
    PROVE  Safe => []NoFault
  <1>1. Inv => NoFault
    BY DEF Inv, Between, Good, Typed, NoFault
  <1> QED
    BY <1>1, Invariance, PTL

(* A local end that has taken all it got has left the peer some window, if *)
(* what comes in all is less than the window of a simple channel.          *)
THEOREM WindowReopens ==
    ASSUME Orderly, Roomy
    PROVE  Safe => []NotStarved
  <1>1. Inv => NotStarved
    <2> SUFFICES ASSUME Inv PROVE NotStarved
      OBVIOUS
    <2>1. Typed(c) /\ Reopened(c)
      BY DEF Inv, Between, Good
    <2>2. SUFFICES ASSUME c.life = "open", ~c.fixed, c.backlog = 0,
                          {RCVD_EOF, SENT_CLOSE} \cap c.closes = {}
                   PROVE  c.locwindow > 0
      BY DEF NotStarved
    <2>3. c.locwindow > 0 \/ c.backlog >= c.locmaxwin
      BY <2>1, <2>2 DEF Reopened
    <2>4. c.locmaxwin \in Nat \ {0}
      BY <2>1 DEF Typed
    <2> QED
      BY <2>2, <2>3, <2>4
  <1> QED
    BY <1>1, Invariance, PTL
====
