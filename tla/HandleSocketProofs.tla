-------------------------- MODULE HandleSocketProofs --------------------------
(***************************************************************************)
(* Safety of HandleSocket for every length of the data source and every    *)
(* backlog limit.  The plug's calls are made on a structure that may be    *)
(* in the middle of handle_gotdata or of handle_socket_unfreeze, so the    *)
(* invariant speaks of any structure x, and there is a second, weaker one  *)
(* for a structure whose first block is being received.                    *)
(***************************************************************************)
EXTENDS HandleSocket, SequenceTheorems, TLAPS

(* The states in which the handle is throttled and chunks are kept.        *)
Held == {"FROZEN", "THAWING"}

(* A socket between two operations.  One that is being thawed has a        *)
(* callback to do it, and one the plug wants thawed is not left frozen.    *)
Sound(x) ==
    /\ x \in HandleSocket /\ ~x.defer_close
    /\ x.live => /\ x.frozen \in Held <=> x.inputdata # << >>
                 /\ ~x.want => x.frozen \in {"UNFROZEN", "THAWING"}
                 /\ x.frozen = "THAWING" => x.ncb > 0
                 /\ ~x.deferred_close
    /\ ~x.live => x.ncb = 0

(* A socket whose data q is being passed to the plug by                    *)
(* handle_socket_unfreeze: whatever the plug does, it stays throttled.     *)
Draining(x, q) ==
    /\ x \in HandleSocket /\ x.defer_close /\ x.live /\ x.inputdata = q
    /\ x.frozen \in Held
    /\ ~x.want => x.frozen = "THAWING"

(* The handle delivers chunks, unless the socket keeps some.               *)
HandleAgrees ==
    /\ s.live <=> st # "freed"
    /\ s.live => st \in (IF s.frozen \in Held THEN {"stopped"}
                         ELSE {"reading", "ended"})

Inv == TypeOK /\ Sound(s) /\ HandleAgrees /\ ReceivedInOrder
-----------------------------------------------------------------------------
(* Passing on the head of what is kept loses and reorders nothing.         *)
LEMMA PassOnHead ==
    ASSUME NEW S, NEW r \in Seq(S), NEW q \in Seq(S), q # << >>
    PROVE  /\ Append(r, Head(q)) \in Seq(S) /\ Tail(q) \in Seq(S)
           /\ Append(r, Head(q)) \o Tail(q) = r \o q
  <1>1. PICK hd, tl : hd = Head(q) /\ tl = Tail(q)
    OBVIOUS
  <1>2. hd \in S /\ tl \in Seq(S) /\ <<hd>> \in Seq(S)
    BY <1>1, HeadTailProperties
  <1>3. q = <<hd>> \o tl
    <2>1. PICK u : u = <<hd>> \o tl
      OBVIOUS
    <2>2. /\ Len(q) \in Nat /\ Len(q) # 0 /\ hd = q[1]
          /\ Len(tl) = Len(q) - 1 /\ \A i \in 1..Len(tl) : tl[i] = q[i + 1]
      BY <1>1, HeadTailProperties, EmptySeq
    <2>3. u \in Seq(S) /\ Len(u) = 1 + Len(tl)
          /\ \A i \in 1..Len(u) : u[i] = IF i <= 1 THEN hd ELSE tl[i - 1]
      BY <1>2, <2>1, ConcatProperties
    <2>4. Len(u) = Len(q) /\ \A i \in 1..Len(q) : u[i] = q[i]
      BY <2>2, <2>3
    <2> QED
      BY <2>1, <2>3, <2>4, SeqEqual
  <1>4. Append(r, hd) \in Seq(S) /\ Append(r, hd) = r \o <<hd>>
    BY <1>2, AppendProperties, AppendIsConcat
  <1>5. (r \o <<hd>>) \o tl = r \o (<<hd>> \o tl)
    <2>1. PICK e : e = <<hd>>
      OBVIOUS
    <2>2. (r \o e) \o tl = r \o (e \o tl)
      <3>1. e \in Seq(S) /\ tl \in Seq(S)
        BY <1>2, <2>1
      <3> QED
        BY <3>1, ConcatAssociative, SMTT(30)
    <2> QED
      BY <2>1, <2>2, Zenon
  <1> QED
    BY <1>1, <1>2, <1>3, <1>4, <1>5, Zenon

(* A chunk delivered straight to the plug, and one kept for later.         *)
LEMMA DeliverOrKeep ==
    ASSUME NEW g \in Seq(Nat), NEW n \in Nat
    PROVE  /\ Append(g, n) \in Seq(Nat) /\ Append(<< >>, n) \in Seq(Nat)
           /\ Append(<< >>, n) # << >> /\ g \o Append(<< >>, n) = Append(g, n)
           /\ g \o << >> = g
  <1>1. << >> \in Seq(Nat)
    OBVIOUS
  <1>2. Append(g, n) \in Seq(Nat) /\ Append(g, n) = g \o <<n>>
    BY AppendProperties, AppendIsConcat
  <1>3. Append(<< >>, n) = <<n>> /\ <<n>> # << >> /\ <<n>> \in Seq(Nat)
    OBVIOUS
  <1>4. g \o << >> = g
    BY ConcatEmptySeq
  <1> QED
    BY <1>1, <1>2, <1>3, <1>4

(* sk_handle_close where it is not deferred.                               *)
LEMMA CloseSound ==
    ASSUME NEW x \in HandleSocket, ~x.defer_close
    PROVE  Sound(sk_handle_close(x)) /\ ~sk_handle_close(x).live
  <1>1. << >> \in Seq(Nat)
    OBVIOUS
  <1>2. PICK y : y = sk_handle_close(x)
    OBVIOUS
  <1>3. y = [x EXCEPT !.live = FALSE, !.inputdata = << >>, !.ncb = 0,
                      !.recvopen = FALSE]
    BY <1>2 DEF sk_handle_close
  <1>4. y \in HandleSocket /\ ~y.live /\ y.ncb = 0 /\ ~y.defer_close
    BY <1>1, <1>3 DEF HandleSocket
  <1> QED
    BY <1>2, <1>4 DEF Sound

(* Any change to the field ncb, which is a number.                         *)
LEMMA NcbChanges ==
    ASSUME NEW x \in HandleSocket, NEW n \in Nat, NEW y,
           y = [x EXCEPT !.ncb = n]
    PROVE  /\ y \in HandleSocket /\ y.ncb = n
           /\ y.frozen = x.frozen /\ y.inputdata = x.inputdata
           /\ y.defer_close = x.defer_close /\ y.live = x.live
           /\ y.deferred_close = x.deferred_close /\ y.want = x.want
  BY DEF HandleSocket

(* What sk_handle_set_frozen(x, f) leaves behind, y.                       *)
Froze(x, f, y) ==
    /\ y \in HandleSocket /\ y.want = f
    /\ y.frozen = IF x.frozen \in Held
                  THEN IF f THEN "FROZEN" ELSE "THAWING"
                  ELSE IF f THEN "FREEZING" ELSE "UNFROZEN"
    /\ x.frozen = "FROZEN" /\ ~f => y.ncb > 0
    /\ x.frozen # "FROZEN" \/ f => y.ncb = x.ncb
    /\ y.inputdata = x.inputdata /\ y.defer_close = x.defer_close
    /\ y.live = x.live /\ y.deferred_close = x.deferred_close

(* sk_handle_set_frozen, in one place for its eight cases.                 *)
LEMMA SetFrozen ==
    ASSUME NEW x \in HandleSocket, NEW f \in BOOLEAN, NEW y,
           y = sk_handle_set_frozen(x, f)
    PROVE  Froze(x, f, y)
  <1>1. CASE x.frozen = "FROZEN" /\ ~f
    <2>1. PICK n \in Nat : n = x.ncb
      BY DEF HandleSocket
    <2>2. n + 1 \in Nat /\ n + 1 > 0
      OBVIOUS
    <2>3. PICK t : t = [x EXCEPT !.want = f, !.frozen = "THAWING"]
      OBVIOUS
    <2>4. /\ t \in HandleSocket /\ t.want = f /\ t.frozen = "THAWING"
          /\ t.inputdata = x.inputdata /\ t.defer_close = x.defer_close
          /\ t.live = x.live /\ t.deferred_close = x.deferred_close
          /\ t.ncb = n
      BY <2>1, <2>3 DEF HandleSocket
    <2>5. PICK m \in Nat : m = n + 1
      BY <2>2
    <2>6. y = [t EXCEPT !.ncb = m]
      BY <1>1, <2>3, <2>4, <2>5 DEF sk_handle_set_frozen, queue_toplevel_callback, HandleSocket
    <2>7. /\ y \in HandleSocket /\ y.ncb = m
          /\ y.frozen = t.frozen /\ y.inputdata = t.inputdata
          /\ y.defer_close = t.defer_close /\ y.live = t.live
          /\ y.deferred_close = t.deferred_close /\ y.want = t.want
      BY <2>4, <2>6, NcbChanges
    <2>8. y.ncb > 0
      BY <2>2, <2>5, <2>7
    <2> QED
      BY <1>1, <2>4, <2>7, <2>8 DEF Held, Froze
  <1>2. CASE x.frozen # "FROZEN" \/ f
    <2>1. y = [x EXCEPT !.want = f,
                        !.frozen = IF x.frozen \in Held
                                   THEN IF f THEN "FROZEN" ELSE "THAWING"
                                   ELSE IF f THEN "FREEZING" ELSE "UNFROZEN"]
      BY <1>2 DEF sk_handle_set_frozen, HandleSocket, Held
    <2> QED
      BY <1>2, <2>1 DEF HandleSocket, Held, Froze
  <1> QED
    BY <1>1, <1>2

(* What sk_handle_write, sk_handle_write_eof and the end of a write leave  *)
(* alone: everything of the incoming direction but recv_H.                 *)
LEMMA Sending ==
    ASSUME NEW x \in HandleSocket, NEW y,
           \/ y = sk_handle_write_eof(x)
           \/ y = sk_handle_write(x)
           \/ y = SendEof([x EXCEPT !.sendq = FALSE])
    PROVE  /\ y \in HandleSocket
           /\ y.frozen = x.frozen /\ y.inputdata = x.inputdata
           /\ y.defer_close = x.defer_close /\ y.live = x.live
           /\ y.deferred_close = x.deferred_close /\ y.want = x.want
           /\ y.ncb = x.ncb
  <1>1. ASSUME NEW z \in HandleSocket, NEW v, v = SendEof(z)
        PROVE  /\ v \in HandleSocket
               /\ v.frozen = z.frozen /\ v.inputdata = z.inputdata
               /\ v.defer_close = z.defer_close /\ v.live = z.live
               /\ v.deferred_close = z.deferred_close /\ v.want = z.want
               /\ v.ncb = z.ncb
    <2>1. CASE v = z
      BY <2>1
    <2>2. CASE \E b \in BOOLEAN : v = [z EXCEPT !.sendeof = "EOF_SENT",
                                                !.recvopen = b]
      <3>1. PICK b \in BOOLEAN : v = [z EXCEPT !.sendeof = "EOF_SENT",
                                              !.recvopen = b]
        BY <2>2
      <3> QED
        BY <3>1 DEF HandleSocket
    <2>3. (z.recvopen /\ ~z.bidir) \in BOOLEAN
      BY DEF HandleSocket
    <2> QED
      BY <1>1, <2>1, <2>2, <2>3 DEF SendEof
  <1>2. CASE y = sk_handle_write(x)
    BY <1>2 DEF sk_handle_write, HandleSocket
  <1>3. ASSUME NEW z \in {[x EXCEPT !.sendq = FALSE],
                          [x EXCEPT !.sendeof = "EOF_PENDING"]}
        PROVE  /\ z \in HandleSocket
               /\ z.frozen = x.frozen /\ z.inputdata = x.inputdata
               /\ z.defer_close = x.defer_close /\ z.live = x.live
               /\ z.deferred_close = x.deferred_close /\ z.want = x.want
               /\ z.ncb = x.ncb
    BY <1>3 DEF HandleSocket
  <1>4. CASE y = sk_handle_write_eof(x)
    BY <1>1, <1>3, <1>4, ZenonT(30) DEF sk_handle_write_eof
  <1>5. CASE y = SendEof([x EXCEPT !.sendq = FALSE])
    BY <1>1, <1>3, <1>5, ZenonT(30)
  <1> QED
    BY <1>2, <1>4, <1>5

(* The plug's calls between two operations, or from plug_receive in        *)
(* handle_gotdata: the chunks kept stay kept.                              *)
LEMMA PlugCallSound ==
    ASSUME NEW x, Sound(x), NEW y \in PlugCall(x)
    PROVE  /\ Sound(y)
           /\ y.live => /\ x.live /\ y.inputdata = x.inputdata
                        /\ y.frozen \in Held <=> x.frozen \in Held
  <1>0. x \in HandleSocket /\ ~x.defer_close
    BY DEF Sound
  <1>1. CASE y = x
    BY <1>1
  <1>2. ASSUME x.live, NEW f \in BOOLEAN, y = sk_handle_set_frozen(x, f)
        PROVE  /\ Sound(y) /\ y.inputdata = x.inputdata
               /\ y.frozen \in Held <=> x.frozen \in Held
    <2>1. Froze(x, f, y)
      BY <1>0, <1>2, SetFrozen
    <2> QED
      BY <1>0, <1>2, <2>1 DEF Sound, Held, Froze
  <1>3. ASSUME x.live, y = sk_handle_close(x)
        PROVE  Sound(y) /\ ~y.live
    BY <1>0, <1>3, CloseSound
  <1>4. ASSUME y = sk_handle_write_eof(x) \/ y = sk_handle_write(x)
        PROVE  /\ Sound(y) /\ y.inputdata = x.inputdata /\ y.live = x.live
               /\ y.frozen = x.frozen
    <2>1. /\ y \in HandleSocket /\ y.inputdata = x.inputdata /\ y.live = x.live
          /\ y.frozen = x.frozen /\ y.defer_close = x.defer_close
          /\ y.deferred_close = x.deferred_close /\ y.ncb = x.ncb
          /\ y.want = x.want
      BY <1>0, <1>4, Sending
    <2> QED
      BY <2>1 DEF Sound
  <1> QED
    BY <1>1, <1>2, <1>3, <1>4 DEF PlugCall

(* The plug's calls from plug_receive in handle_socket_unfreeze: a close   *)
(* is deferred.                                                            *)
LEMMA PlugCallDraining ==
    ASSUME NEW x, NEW q, Draining(x, q), NEW y \in PlugCall(x)
    PROVE  Draining(y, q)
  <1>0. x \in HandleSocket
    BY DEF Draining
  <1>1. CASE y = x
    BY <1>1
  <1>2. ASSUME NEW f \in BOOLEAN, y = sk_handle_set_frozen(x, f)
        PROVE  Draining(y, q)
    <2>1. Froze(x, f, y)
      BY <1>0, <1>2, SetFrozen
    <2> QED
      BY <2>1 DEF Draining, Held, Froze
  <1>3. CASE y = sk_handle_close(x)
    <2>1. y = [x EXCEPT !.deferred_close = TRUE]
      BY <1>3 DEF sk_handle_close, Draining
    <2>2. /\ y \in HandleSocket /\ y.inputdata = x.inputdata /\ y.live = x.live
          /\ y.frozen = x.frozen /\ y.defer_close = x.defer_close
          /\ y.want = x.want
      BY <1>0, <2>1 DEF HandleSocket
    <2> QED
      BY <2>2 DEF Draining
  <1>4. CASE y = sk_handle_write_eof(x) \/ y = sk_handle_write(x)
    <2>1. /\ y \in HandleSocket /\ y.inputdata = x.inputdata /\ y.live = x.live
          /\ y.frozen = x.frozen /\ y.defer_close = x.defer_close
          /\ y.want = x.want
      BY <1>0, <1>4, Sending
    <2> QED
      BY <2>1 DEF Draining
  <1> QED
    BY <1>1, <1>2, <1>3, <1>4 DEF PlugCall

(* The same for all that a plug does before plug_receive returns.          *)
LEMMA ReentrantSound ==
    ASSUME NEW x, Sound(x), NEW y \in Reentrant(x)
    PROVE  /\ Sound(y)
           /\ y.live => /\ x.live /\ y.inputdata = x.inputdata
                        /\ y.frozen \in Held <=> x.frozen \in Held
  BY PlugCallSound DEF Reentrant

LEMMA ReentrantDraining ==
    ASSUME NEW x, NEW q, Draining(x, q), NEW y \in Reentrant(x)
    PROVE  Draining(y, q)
  BY PlugCallDraining DEF Reentrant
-----------------------------------------------------------------------------
(* A new socket satisfies the invariant.                                   *)
LEMMA InitInv == Init => Inv
  <1> SUFFICES ASSUME Init PROVE Inv
    OBVIOUS
  <1>1. << >> \in Seq(Nat)
    OBVIOUS
  <1>2. /\ s \in HandleSocket /\ ~s.defer_close /\ s.frozen = "UNFROZEN"
        /\ s.inputdata = << >> /\ ~s.deferred_close /\ s.live
    <2>1. PICK b \in BOOLEAN : s = make_handle_socket(b)
      BY DEF Init
    <2> QED
      BY <1>1, <2>1 DEF make_handle_socket, HandleSocket
  <1>3. st = "reading" /\ got = << >> /\ received = << >> /\ closing = FALSE
    BY DEF Init, InInit
  <1>4. << >> \o << >> = << >>
    BY <1>1, ConcatEmptySeq
  <1> QED
    BY <1>1, <1>2, <1>3, <1>4
       DEF Inv, TypeOK, Sound, Held, HandleAgrees, ReceivedInOrder

(* Every operation preserves the invariant.                                *)
LEMMA NextInv == Inv /\ Next => Inv'
  <1> SUFFICES ASSUME Inv, Next PROVE Inv'
    OBVIOUS
  <1>0. /\ TypeOK /\ Sound(s) /\ HandleAgrees /\ ReceivedInOrder
        /\ s \in HandleSocket /\ got \in Seq(Nat) /\ received \in Seq(Nat)
        /\ Len(got) + 1 \in Nat /\ ~s.defer_close
        /\ s.inputdata \in Seq(Nat)
    BY DEF Inv, TypeOK, HandleSocket
  <1>1. ASSUME NEW t, Sound(t), s' = t, received' = received, got' = got,
               closing' \in BOOLEAN, t.live => s.live /\ t.inputdata = s.inputdata,
               st' \in {"reading", "stopped", "ended", "freed"}, HandleAgrees'
        PROVE  Inv'
    BY <1>0, <1>1 DEF Inv, TypeOK, Sound, ReceivedInOrder
  <1>2. CASE GotDataUnfrozen
    <2>1. PICK t \in Reentrant(s) : s' = t /\ InData(0, ~t.live)
      BY <1>2 DEF GotDataUnfrozen
    <2>2. /\ s.live /\ s.frozen = "UNFROZEN" /\ s.inputdata = << >>
          /\ received' = Append(received, Len(got) + 1) /\ closing' = closing
      BY <1>0, <1>2 DEF GotDataUnfrozen, Sound, Held
    <2>3. /\ Sound(t)
          /\ t.live => t.inputdata = << >> /\ t.frozen \notin Held
      BY <1>0, <2>1, <2>2, ReentrantSound DEF Held
    <2>4. /\ st = "reading" /\ got' = Append(got, Len(got) + 1)
          /\ st' = IF t.live THEN "reading" ELSE "freed"
      BY <2>1, BacklogAssumption DEF InData
    <2>5. received = got
      BY <1>0, <2>2, ConcatEmptySeq DEF ReceivedInOrder
    <2>6. /\ received' = got' /\ got' \in Seq(Nat) /\ got' \o << >> = got'
      BY <1>0, <2>2, <2>4, <2>5, AppendProperties, ConcatEmptySeq
    <2> QED
      BY <1>0, <2>1, <2>2, <2>3, <2>4, <2>6
         DEF Inv, TypeOK, Sound, HandleAgrees, ReceivedInOrder
  <1>3. CASE GotDataFreezing
    <2>1. /\ s.live /\ s.frozen = "FREEZING" /\ closing' = closing
          /\ received' = received /\ InData(INT_MAX, FALSE)
          /\ s' = [s EXCEPT !.inputdata = Append(@, Len(got) + 1),
                            !.frozen = "FROZEN"]
      BY <1>3 DEF GotDataFreezing
    <2>2. s.inputdata = << >>
      BY <1>0, <2>1 DEF Sound, Held
    <2>3. /\ st = "reading" /\ got' = Append(got, Len(got) + 1)
          /\ st' = "stopped"
      BY <2>1, BacklogAssumption DEF InData, INT_MAX
    <2>4. received = got
      BY <1>0, <2>1, <2>2, ConcatEmptySeq DEF ReceivedInOrder
    <2>5. PICK q : q = Append(<< >>, Len(got) + 1)
      OBVIOUS
    <2>6. /\ q \in Seq(Nat) /\ q # << >> /\ got \o q = got'
          /\ got' \in Seq(Nat)
      BY <1>0, <2>3, <2>5, DeliverOrKeep
    <2>7. /\ s' \in HandleSocket /\ s'.inputdata = q /\ s'.frozen = "FROZEN"
          /\ s'.live /\ ~s'.defer_close /\ s'.want = s.want
          /\ s'.deferred_close = s.deferred_close
      BY <1>0, <2>1, <2>2, <2>5, <2>6 DEF HandleSocket
    <2>8. s'.want /\ ~s'.deferred_close
      BY <1>0, <2>1, <2>7 DEF Sound
    <2> QED
      BY <1>0, <2>1, <2>3, <2>4, <2>6, <2>7, <2>8
         DEF Inv, TypeOK, Sound, Held, HandleAgrees, ReceivedInOrder
  <1>4. CASE GotEnd
    <2>1. PICK t \in {s, sk_handle_close(s)} : s' = t /\ InEnd(~t.live)
      BY <1>4 DEF GotEnd
    <2>2. /\ s.live /\ received' = received /\ closing' = TRUE /\ got' = got
          /\ st = "reading" /\ st' = IF t.live THEN "ended" ELSE "freed"
      BY <1>4, <2>1 DEF GotEnd, InEnd
    <2>3. Sound(t) /\ (t.live => t = s)
      BY <1>0, <2>1, CloseSound
    <2>4. HandleAgrees'
      BY <1>0, <2>1, <2>2, <2>3 DEF HandleAgrees, Held
    <2> QED
      BY <1>1, <2>1, <2>2, <2>3, <2>4
  <1>5. CASE SentData
    <2>1. /\ s.live /\ s' = SendEof([s EXCEPT !.sendq = FALSE])
          /\ st' = st /\ got' = got /\ received' = received
          /\ closing' = closing
      BY <1>5 DEF SentData
    <2>2. /\ s' \in HandleSocket /\ s'.inputdata = s.inputdata /\ s'.live
          /\ s'.frozen = s.frozen /\ s'.defer_close = s.defer_close
          /\ s'.deferred_close = s.deferred_close /\ s'.ncb = s.ncb
          /\ s'.want = s.want
      BY <1>0, <2>1 DEF SendEof, HandleSocket
    <2>3. Sound(s') /\ HandleAgrees'
      BY <1>0, <2>1, <2>2 DEF Sound, HandleAgrees
    <2> QED
      BY <1>0, <1>1, <2>1, <2>2, <2>3 DEF TypeOK
  <1>6. CASE SendError
    <2>1. /\ s.live /\ received' = received /\ closing' = TRUE
          /\ got' = got
          /\ \/ s' = s /\ st' = st
             \/ s' = sk_handle_close(s) /\ st' = "freed"
      BY <1>6 DEF SendError, InFree
    <2>2. Sound(s') /\ (s'.live => s' = s /\ st' = st) /\ (~s'.live => st' = "freed")
      BY <1>0, <2>1, CloseSound
    <2>3. HandleAgrees'
      BY <1>0, <2>1, <2>2 DEF HandleAgrees
    <2> QED
      BY <1>0, <1>1, <2>1, <2>2, <2>3 DEF TypeOK
  <1>7. CASE UnfreezeStale
    <2>1. /\ s.ncb > 0 /\ s.frozen # "THAWING" /\ s' = [s EXCEPT !.ncb = @ - 1]
          /\ st' = st /\ got' = got /\ received' = received /\ closing' = closing
      BY <1>7 DEF UnfreezeStale
    <2>2. s.live
      BY <1>0, <2>1 DEF Sound
    <2>3. Sound(s') /\ s'.live /\ s'.inputdata = s.inputdata /\ s'.frozen = s.frozen
      <3>1. PICK n \in Nat : n = s.ncb - 1
        BY <1>0, <2>1 DEF HandleSocket
      <3>2. /\ s' \in HandleSocket /\ s'.frozen = s.frozen
            /\ s'.inputdata = s.inputdata /\ s'.defer_close = s.defer_close
            /\ s'.live = s.live /\ s'.deferred_close = s.deferred_close
            /\ s'.want = s.want
        <4>1. s' = [s EXCEPT !.ncb = n]
          BY <1>0, <2>1, <3>1 DEF HandleSocket
        <4> QED
          BY <1>0, <4>1, NcbChanges
      <3> QED
        BY <1>0, <2>1, <2>2, <3>2 DEF Sound
    <2>4. HandleAgrees'
      BY <1>0, <2>1, <2>2, <2>3 DEF HandleAgrees
    <2> QED
      BY <1>0, <1>1, <2>1, <2>2, <2>3, <2>4 DEF TypeOK
  <1>8. CASE Unfreeze
    <2>1. PICK b, t : /\ b = [s EXCEPT !.ncb = @ - 1, !.defer_close = TRUE]
                      /\ t \in Reentrant(b) /\ s' = AfterReceive(t)
                      /\ IF ~s'.live THEN InFree
                         ELSE IF s'.frozen = "UNFROZEN" THEN InUnthrottle(0)
                         ELSE UNCHANGED <<st, got>>
      BY <1>8 DEF Unfreeze
    <2>2. PICK q : q = s.inputdata
      OBVIOUS
    <2>3. /\ s.ncb > 0 /\ s.frozen = "THAWING" /\ closing' = closing
          /\ received' = Append(received, Head(q))
      BY <1>8, <2>2 DEF Unfreeze
    <2>4. s.live /\ q \in Seq(Nat) /\ q # << >> /\ st = "stopped"
      BY <1>0, <2>2, <2>3 DEF Sound, Held, HandleAgrees
    <2>5. Draining(b, q)
      <3>1. PICK n \in Nat : n = s.ncb - 1
        BY <1>0, <2>3 DEF HandleSocket
      <3>2. b = [s EXCEPT !.ncb = n, !.defer_close = TRUE]
        BY <1>0, <2>1, <3>1 DEF HandleSocket
      <3>3. /\ b \in HandleSocket /\ b.defer_close /\ b.live
            /\ b.inputdata = q /\ b.frozen = "THAWING"
        BY <1>0, <2>2, <2>3, <2>4, <3>2 DEF HandleSocket
      <3> QED
        BY <3>3 DEF Draining, Held
    <2>6. Draining(t, q)
      BY <2>1, <2>5, ReentrantDraining
    <2>7. /\ received' \in Seq(Nat) /\ Tail(q) \in Seq(Nat)
          /\ received' \o Tail(q) = got
      <3>1. received \o q = got
        BY <1>0, <2>2, <2>4 DEF ReceivedInOrder
      <3>2. /\ Append(received, Head(q)) \in Seq(Nat) /\ Tail(q) \in Seq(Nat)
            /\ Append(received, Head(q)) \o Tail(q) = received \o q
        BY <1>0, <2>4, PassOnHead
      <3> QED
        BY <2>3, <3>1, <3>2, Zenon
    <2>8. PICK c : c = [t EXCEPT !.inputdata = Tail(q), !.defer_close = FALSE]
      OBVIOUS
    <2>9. /\ c \in HandleSocket /\ c.inputdata = Tail(q) /\ ~c.defer_close
          /\ c.live /\ c.frozen \in Held /\ (~c.want => c.frozen = "THAWING")
      BY <2>6, <2>7, <2>8 DEF Draining, HandleSocket
    <2>10. s' = IF c.deferred_close THEN sk_handle_close(c)
                ELSE IF Tail(q) # << >> THEN queue_toplevel_callback(c)
                ELSE [c EXCEPT !.frozen = "UNFROZEN"]
      BY <2>1, <2>6, <2>8, <2>9 DEF AfterReceive, Draining
    <2>11. CASE c.deferred_close
      <3>1. Sound(s') /\ ~s'.live
        BY <2>9, <2>10, <2>11, CloseSound
      <3>2. st' = "freed" /\ got' = got
        BY <2>1, <3>1 DEF InFree
      <3> QED
        BY <1>0, <2>3, <2>7, <3>1, <3>2
           DEF Inv, TypeOK, Sound, HandleAgrees, ReceivedInOrder
    <2>12. CASE ~c.deferred_close /\ Tail(q) # << >>
      <3>1. /\ Sound(s') /\ s'.live /\ s'.frozen \in Held
            /\ s'.inputdata = Tail(q)
        BY <2>9, <2>10, <2>12, SMTT(30) DEF queue_toplevel_callback, Sound, HandleSocket, Held
      <3>2. st' = "stopped" /\ got' = got
        BY <2>1, <2>4, <3>1 DEF Held
      <3> QED
        BY <1>0, <2>3, <2>7, <3>1, <3>2
           DEF Inv, TypeOK, Sound, HandleAgrees, ReceivedInOrder
    <2>13. CASE ~c.deferred_close /\ Tail(q) = << >>
      <3>1. /\ s' \in HandleSocket /\ s'.live /\ s'.frozen = "UNFROZEN"
            /\ s'.inputdata = << >> /\ ~s'.defer_close /\ ~s'.deferred_close
        BY <2>9, <2>10, <2>13 DEF HandleSocket
      <3>2. st' = "reading" /\ got' = got
        BY <2>1, <2>4, <3>1, BacklogAssumption DEF InUnthrottle
      <3> QED
        BY <1>0, <2>3, <2>7, <2>13, <3>1, <3>2
           DEF Inv, TypeOK, Sound, HandleAgrees, ReceivedInOrder, Held
    <2> QED
      BY <2>11, <2>12, <2>13
  <1>9. CASE Plug
    <2>1. PICK t \in PlugCall(s) :
            s' = t /\ IF t.live THEN UNCHANGED <<st, got>> ELSE InFree
      BY <1>9 DEF Plug
    <2>2. s.live /\ received' = received /\ closing' = closing
      BY <1>9 DEF Plug
    <2>3. /\ Sound(t)
          /\ t.live => /\ t.inputdata = s.inputdata
                       /\ t.frozen \in Held <=> s.frozen \in Held
      BY <1>0, <2>1, PlugCallSound
    <2>4. got' = got /\ (t.live => st' = st) /\ (~t.live => st' = "freed")
      BY <2>1 DEF InFree
    <2>5. HandleAgrees'
      BY <1>0, <2>1, <2>2, <2>3, <2>4 DEF HandleAgrees
    <2> QED
      BY <1>0, <1>1, <2>1, <2>2, <2>3, <2>4, <2>5 DEF TypeOK
  <1> QED
    BY <1>2, <1>3, <1>4, <1>5, <1>6, <1>7, <1>8, <1>9 DEF Next, RunCallback

(* The inductive invariant is one.                                         *)
LEMMA Invariance == Safe => []Inv
  <1>1. Inv /\ UNCHANGED vars => Inv'
    BY DEF vars, Inv, TypeOK, Sound, HandleAgrees, ReceivedInOrder
  <1>2. Inv /\ [Next]_vars => Inv'
    BY <1>1, NextInv
  <1> QED
    BY <1>2, InitInv, PTL DEF Safe
-----------------------------------------------------------------------------
(* Type correctness of the socket structure.                               *)
THEOREM TypeCorrect == Safe => []TypeOK
  <1>1. Inv => TypeOK
    BY DEF Inv
  <1> QED
    BY <1>1, Invariance, PTL

(* The assertions of handle-socket.c hold where they stand, and no handle  *)
(* or callback outlives the socket, however the plug freezes, thaws and    *)
(* closes it from within plug_receive.                                     *)
THEOREM SocketIsSound == Safe => []SocketSound
  <1>1. Inv => SocketSound
    <2> SUFFICES ASSUME Inv PROVE SocketSound
      OBVIOUS
    <2>1. s \in HandleSocket /\ Sound(s) /\ HandleAgrees
      BY DEF Inv, Sound
    <2>2. AssertionsHold
      BY <2>1 DEF AssertionsHold, Sound, HandleAgrees, Held, HandleSocket
    <2>3. NoCallbackForDead
      BY <2>1 DEF NoCallbackForDead, Sound, HandleAgrees, HandleSocket
    <2> QED
      BY <2>2, <2>3 DEF SocketSound
  <1> QED
    BY <1>1, Invariance, PTL

(* The plug gets what the handle delivers once and in order, directly or   *)
(* through inputdata, and a socket it does not want frozen reads or is     *)
(* about to be thawed.                                                     *)
THEOREM PlugSeesAll == Safe => []PlugView
  <1>1. Inv => PlugView
    <2> SUFFICES ASSUME Inv PROVE PlugView
      OBVIOUS
    <2>1. s \in HandleSocket /\ Sound(s) /\ HandleAgrees /\ ReceivedInOrder
      BY DEF Inv, Sound
    <2>2. NotStuck
      BY <2>1 DEF NotStuck, Sound, HandleAgrees, Held, HandleSocket
    <2> QED
      BY <2>1, <2>2 DEF PlugView
  <1> QED
    BY <1>1, Invariance, PTL
=============================================================================
