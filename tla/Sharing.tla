------------------------------- MODULE Sharing -------------------------------
(***************************************************************************)
(* Connection sharing, ssh/sharing.c: several downstream PuTTYs use the    *)
(* SSH connection of one upstream.  The upstream keeps, for every          *)
(* downstream, a connstate that translates channel ids and remembers what  *)
(* has to be undone at the server when the downstream goes away; the       *)
(* connection layer (ssh/connection2.c, connection2-client.c) keeps the    *)
(* channels, remote forwardings and outstanding global requests of all.    *)
(*                                                                         *)
(* The server is external.  Its messages arrive in order through q, and it *)
(* looks at ours at once: the order in which the upstream sees what the    *)
(* server and the downstreams do is arbitrary either way.  A downstream    *)
(* does what an SSH client may do, as far as the upstream has told it.     *)
(* Data is left out but for the messages queued on an X11 channel.         *)
(***************************************************************************)
EXTENDS Integers, Sequences, SequencesExt, FiniteSets

CONSTANTS Downstreams, Ports,
          MaxChannels,    \* channel ids on either side
          MaxQueue,       \* server messages on their way
          MaxRequests,    \* connections, opens and global requests
          Servers,        \* subset of {"lenient", "strict"}
          Unguarded       \* the situations the specification lets happen

VARIABLES ds,      \* the connstates
          conn,    \* the connection layer
          srv,     \* the server
          q,       \* messages from the server
          asked,   \* how many of them there have been
         orders,  \* history: which orders of Unguarded there have been
          fault    \* an assertion failed, freed memory used, protocol broken

vars == <<ds, conn, srv, q, asked, orders, fault>>

ASSUME SharingAssumption ==
    MaxChannels \in Nat /\ MaxQueue \in Nat /\ MaxRequests \in Nat

Ids == 1..MaxChannels
None == "none"

(* The state the handlers pass along.                                      *)
Now == [ds |-> ds, conn |-> conn, srv |-> srv, fault |-> fault]

Becomes(s) ==
    /\ ds' = s.ds /\ conn' = s.conn /\ srv' = s.srv /\ fault' = s.fault

Fault(s, what) == IF s.fault = None THEN [s EXCEPT !.fault = what] ELSE s

Min1(S) == CHOOSE x \in S : \A y \in S : x <= y

----------------------------------------------------------------------------
(* The server's part, as the SSH protocol has it.                          *)

FreeSid == Ids \ {c.sid : c \in srv.chans}

SrvOpen(s, us) == [s EXCEPT !.srv.asked = @ \cup {us}]

SrvFind(s, sid, sts) == {c \in s.srv.chans : c.sid = sid /\ c.st \in sts}

SrvConfirm(s, sid, us) ==
    IF SrvFind(s, sid, {"opening"}) = {} THEN Fault(s, "confirmed twice")
    ELSE [s EXCEPT !.srv.chans =
            {IF c.sid = sid THEN [c EXCEPT !.st = "open", !.us = us] ELSE c :
               c \in @}]

(* A refusal of a channel that is not half-open breaks the protocol, as in *)
(* this program's own connection layer.  A lenient server ignores the one  *)
(* for the id 0, which follows every CHANNEL_OPEN handed to a downstream;  *)
(* no other.                                                               *)
SrvRefuse(s, sid) ==
    IF SrvFind(s, sid, {"opening"}) # {}
    THEN [s EXCEPT !.srv.chans = {c \in @ : c.sid # sid}]
    ELSE IF sid # 0 THEN Fault(s, "refused twice")
    ELSE IF s.srv.kind = "lenient" THEN s
    ELSE Fault(s, "refused the id 0")

SrvClose(s, sid) ==
    LET cs == SrvFind(s, sid, {"open"})
    IN  IF cs = {} \/ \E c \in cs : c.rcvd THEN Fault(s, "closed twice")
        ELSE [s EXCEPT !.srv.chans =
                {IF c \in cs THEN [c EXCEPT !.rcvd = TRUE] ELSE c :
                   c \in {d \in @ : ~(d \in cs /\ d.sent)}}]

(* Anything else on a channel.                                             *)
SrvMessage(s, sid) ==
    IF \E c \in SrvFind(s, sid, {"open"}) : ~c.rcvd THEN s
    ELSE Fault(s, "message on a closed channel")

SrvRequest(s, kind, p, want) ==
    IF want THEN [s EXCEPT !.srv.reqs = Append(@, [kind |-> kind, port |-> p])]
    ELSE [s EXCEPT !.srv.listen = @ \ {p}]

----------------------------------------------------------------------------
(* The connection layer.                                                   *)

FreeUs(s) == {u \in Ids : s.conn.chans[u] = None}

alloc_sharing_channel(s, us, d) == [s EXCEPT !.conn.chans[us] = d]

delete_sharing_channel(s, us) == [s EXCEPT !.conn.chans[us] = None]

(* ssh2_rportfwd_remove with the pointer fwd->rpf of a downstream.         *)
rportfwd_remove(s, d, p) ==
    IF s.conn.rpf[p] = d THEN [s EXCEPT !.conn.rpf[p] = None]
    ELSE Fault(s, "rportfwd used after free")

----------------------------------------------------------------------------
(* The connstate.                                                          *)

NewConnstate ==
    [st |-> "live", half |-> {}, chans |-> {}, xchans |-> {},
     fwd |-> [p \in Ports |-> "no"], greq |-> <<>>]

NoConnstate == [NewConnstate EXCEPT !.st = "none"]

ByUs(s, d, us) == {c \in s.ds[d].chans : c.us = us}
XByUs(s, d, us) == {x \in s.ds[d].xchans : x.us = us}

NewChannel(us, sid, st) == [us |-> us, sid |-> sid, st |-> st, x11 |-> FALSE]

(* The connection layer's entry stays.                                     *)
RemoveChannel_keeps_id(s, d, c) == [s EXCEPT !.ds[d].chans = @ \ {c}]

(* share_remove_channel goes with ssh_delete_sharing_channel.              *)
RemoveChannel(s, d, c) ==
    delete_sharing_channel([s EXCEPT !.ds[d].chans = @ \ {c}], c.us)

SetState(s, d, c, st) ==
    [s EXCEPT !.ds[d].chans = (@ \ {c}) \cup {[c EXCEPT !.st = st]}]

(* What share_try_cleanup does with the half-open channels, the channels   *)
(* and the forwardings, one by one.                                        *)
RefuseHalf(s, d) ==
    FoldSet(LAMBDA sid, a : SrvRefuse([a EXCEPT !.ds[d].half = @ \ {sid}],
                                      sid),
            s, s.ds[d].half)

CloseChannel(s, d, c) ==
    LET s1 == SrvClose(s, c.sid)
    IN  IF c.st = "RCVD_CLOSE" THEN RemoveChannel(s1, d, c)
        ELSE SetState(s1, d, c, "SENT_CLOSE")


CloseChannels(s, d) ==
    FoldSet(LAMBDA c, a : CloseChannel(a, d, c), s,
            {c \in s.ds[d].chans : c.st \in {"OPEN", "RCVD_CLOSE"}})

(* Forwardings are not cancelled at the server.                            *)
CancelForwardings_silent(s, d) ==
    FoldSet(LAMBDA p, a :
              rportfwd_remove([a EXCEPT !.ds[d].fwd[p] = "no"], d, p),
            s, {p \in Ports : s.ds[d].fwd[p] = "active"})

CancelForwardings(s, d) ==
    FoldSet(LAMBDA p, a :
              rportfwd_remove(
                SrvRequest([a EXCEPT !.ds[d].fwd[p] = "no"], "cancel", p,
                           FALSE),
                d, p),
            s, {p \in Ports : s.ds[d].fwd[p] = "active"})

share_try_cleanup(s, d) ==
    LET s1 == CancelForwardings(CloseChannels(RefuseHalf(s, d), d), d)
        c == s1.ds[d]
    IN  IF c.half = {} /\ c.chans = {} /\ \A p \in Ports : c.fwd[p] = "no"
        THEN [s1 EXCEPT !.ds[d] = [NoConnstate EXCEPT !.st = "freed"]]
        ELSE s1

Retry(s, d) == IF s.ds[d].st = "dead" THEN share_try_cleanup(s, d) ELSE s

share_begin_cleanup(s, d) ==
    share_try_cleanup([s EXCEPT !.ds[d].st = "dead"], d)

(* share_dead_xchannel_respond.                                            *)
share_dead_xchannel_respond(s, d, x) ==
    IF Contains(x.queue, "close")
    THEN delete_sharing_channel([s EXCEPT !.ds[d].xchans = @ \ {x}], x.us)
    ELSE [s EXCEPT !.ds[d].xchans =
            (@ \ {x}) \cup {[x EXCEPT !.queue = <<>>]}]

----------------------------------------------------------------------------
(* A downstream connects, and what it sends.                               *)

Request == asked < MaxRequests /\ asked' = asked + 1

share_listen_accepting(d) ==
    /\ ds[d].st \in {"none", "freed"} /\ Request
    /\ ds' = [ds EXCEPT ![d] = NewConnstate]
    /\ UNCHANGED <<conn, srv, q, fault>>

(* CHANNEL_OPEN.                                                           *)
Open(d) ==
    /\ ds[d].st = "live" /\ Request
    /\ FreeUs(Now) # {}
    /\ LET us == Min1(FreeUs(Now))
       IN  Becomes(SrvOpen(
             [alloc_sharing_channel(Now, us, d) EXCEPT !.ds[d].chans =
                @ \cup {NewChannel(us, 0, "UNACKNOWLEDGED")}], us))
    /\ UNCHANGED q

(* OPEN_CONFIRMATION and OPEN_FAILURE for a half-open channel.             *)
Confirm(d) ==
    /\ ds[d].st = "live"
    /\ FreeUs(Now) # {}
    /\ \E sid \in ds[d].half :
         LET us == Min1(FreeUs(Now))
         IN  Becomes(SrvConfirm(
               [alloc_sharing_channel(Now, us, d) EXCEPT
                  !.ds[d].chans = @ \cup {NewChannel(us, sid, "OPEN")},
                  !.ds[d].half = @ \ {sid}], sid, us))
    /\ UNCHANGED <<q, asked>>

Refuse(d) ==
    /\ ds[d].st = "live"
    /\ \E sid \in ds[d].half :
         Becomes(SrvRefuse([Now EXCEPT !.ds[d].half = @ \ {sid}], sid))
    /\ UNCHANGED <<q, asked>>

(* The same for an X11 channel, which the upstream has already accepted.   *)
(* The queued messages go to the downstream; the new channel is OPEN even  *)
(* if a CLOSE is among them.                                               *)
XConfirm(d) ==
    /\ ds[d].st = "live"
    /\ \E x \in ds[d].xchans :
         /\ x.live
         /\ ~Contains(x.queue, "close") \/ "closed x" \in Unguarded
         /\ Becomes(SrvMessage(
              [Now EXCEPT
                 !.ds[d].chans = @ \cup {NewChannel(x.us, x.sid, "OPEN")},
                 !.ds[d].xchans = @ \ {x}], x.sid))
    /\ UNCHANGED <<q, asked>>

XRefuse(d) ==
    /\ ds[d].st = "live"
    /\ \E x \in ds[d].xchans :
         /\ x.live
         /\ LET x1 == [x EXCEPT !.live = FALSE]
                s == SrvClose([Now EXCEPT !.ds[d].xchans =
                                 (@ \ {x}) \cup {x1}], x.sid)
            IN  Becomes(share_dead_xchannel_respond(s, d, x1))
    /\ UNCHANGED <<q, asked>>

(* CHANNEL_CLOSE: passed on first, then the state is looked after.         *)
CloseFromDownstream(s, d, c) ==
    LET s1 == SrvClose(s, c.sid)
    IN  IF c.st = "RCVD_CLOSE" THEN RemoveChannel(s1, d, c)
        ELSE SetState(s1, d, c, "SENT_CLOSE")

Close(d) ==
    /\ ds[d].st = "live"
    /\ \E c \in ds[d].chans :
         /\ c.st \in {"OPEN", "RCVD_CLOSE"}
         /\ Becomes(CloseFromDownstream(Now, d, c))
    /\ UNCHANGED <<q, asked>>

(* CHANNEL_REQUEST "x11-req".                                              *)
X11Req(d) ==
    /\ ds[d].st = "live"
    /\ \E c \in ds[d].chans :
         /\ c.st = "OPEN" /\ ~c.x11
         /\ Becomes(SrvMessage(
              [Now EXCEPT !.ds[d].chans =
                 (@ \ {c}) \cup {[c EXCEPT !.x11 = TRUE]}], c.sid))
    /\ UNCHANGED <<q, asked>>

(* The list of the downstream's global requests.  globreq_tail is never    *)
(* set, so a second one takes the place of the first.                      *)
QueueGlobreq(s, d, kind, p) ==
    [s EXCEPT !.ds[d].greq = <<[kind |-> kind, port |-> p]>>,
              !.conn.greqs = Append(@, d)]

(* GLOBAL_REQUEST "tcpip-forward".                                         *)
TcpipForward(d, p) ==
    /\ ds[d].st = "live" /\ Request
    /\ ds[d].greq = <<>> \/ "second request" \in Unguarded
    /\ IF conn.rpf[p] # None THEN UNCHANGED <<ds, conn, srv, fault>>
       ELSE Becomes(QueueGlobreq(
              [SrvRequest(Now, "forward", p, TRUE) EXCEPT
                 !.conn.rpf[p] = d, !.ds[d].fwd[p] = "asked"],
              d, "forward", p))
    /\ UNCHANGED q

(* GLOBAL_REQUEST "cancel-tcpip-forward".                                  *)
CancelTcpipForward(d, p) ==
    /\ ds[d].st = "live" /\ Request
    /\ ds[d].greq = <<>> \/ "second request" \in Unguarded
    /\ ds[d].fwd[p] # "no"
    /\ Becomes(QueueGlobreq(
         SrvRequest(rportfwd_remove(Now, d, p), "cancel", p, TRUE),
         d, "cancel", p))
    /\ UNCHANGED q

(* The downstream's socket closes.  What is on its way to the connstate is *)
(* not looked at before the connstate is freed.                            *)
MayGo(d) ==
    /\ \/ "cancelled" \in Unguarded
       \/ \A i \in DOMAIN ds[d].greq : ds[d].greq[i].kind # "cancel"
    /\ ds[d].xchans = {} \/ "x channel" \in Unguarded
    /\ \/ "refused open" \in Unguarded
       \/ \A i \in DOMAIN q : q[i].type = "OPEN_FAILURE"
                               => conn.chans[q[i].us] # d
    /\ \/ "x channel" \in Unguarded
       \/ \A i \in DOMAIN q : q[i].type = "X11" => q[i].d # d

share_closing(d) ==
    /\ ds[d].st = "live" /\ MayGo(d)
    /\ Becomes(share_begin_cleanup(Now, d))
    /\ UNCHANGED <<q, asked>>

(* The downstream sends DISCONNECT instead.  share_receive goes on to      *)
(* reset its buffer in the connstate, freed or not.                        *)
Disconnect(d) ==
    /\ ds[d].st = "live" /\ MayGo(d)
    /\ LET s == share_begin_cleanup(Now, d)
       IN  /\ s.ds[d].st # "freed" \/ "disconnect" \in Unguarded
           /\ Becomes(IF s.ds[d].st = "freed"
                      THEN Fault(s, "buffer used after free") ELSE s)
    /\ UNCHANGED <<q, asked>>

----------------------------------------------------------------------------
(* What the server does, and the messages it sends.                        *)

Send(m) == Len(q) < MaxQueue /\ q' = Append(q, m)

NewSrvChannel(sid, us, st) ==
    [sid |-> sid, us |-> us, st |-> st, sent |-> FALSE, rcvd |-> FALSE]

SrvAnswerOpen ==
    /\ FreeSid # {}
    /\ \E us \in srv.asked :
         LET sid == Min1(FreeSid)
         IN  /\ srv' = [srv EXCEPT !.asked = @ \ {us},
                          !.chans = @ \cup {NewSrvChannel(sid, us, "open")}]
             /\ Send([type |-> "OPEN_CONFIRMATION", us |-> us, sid |-> sid])
    /\ UNCHANGED <<ds, conn, asked, fault>>

(* Refusing what a downstream that has gone asked for leaves its connstate *)
(* behind: only the answer to a CLOSE, or to a request, is looked at then. *)
SrvRefuseOpen ==
    /\ \E us \in srv.asked :
         /\ "refused open" \in Unguarded \/ ds[conn.chans[us]].st # "dead"
         /\ srv' = [srv EXCEPT !.asked = @ \ {us}]
         /\ Send([type |-> "OPEN_FAILURE", us |-> us])
    /\ UNCHANGED <<ds, conn, asked, fault>>

Refusal == [forward |-> "refused forward", cancel |-> "refused cancel"]

SrvReply ==
    /\ srv.reqs # <<>>
    /\ \E ok \in BOOLEAN :
       LET r == Head(srv.reqs)
       IN  /\ ok \/ Refusal[r.kind] \in Unguarded
           /\ srv' = [srv EXCEPT
                        !.reqs = Tail(@),
                        !.listen = IF ~ok THEN @
                                   ELSE IF r.kind = "forward"
                                        THEN @ \cup {r.port}
                                        ELSE @ \ {r.port}]
           /\ Send([type |-> "REPLY", ok |-> ok])
    /\ UNCHANGED <<ds, conn, asked, fault>>

SrvForwarded ==
    /\ FreeSid # {} /\ Request
    /\ \E p \in srv.listen :
         LET sid == Min1(FreeSid)
         IN  /\ srv' = [srv EXCEPT !.chans =
                          @ \cup {NewSrvChannel(sid, 0, "opening")}]
             /\ Send([type |-> "OPEN", sid |-> sid, port |-> p])
    /\ UNCHANGED <<ds, conn, fault>>

(* An X11 connection with the credentials of a downstream's channel.  Its  *)
(* opening, and the upstream's reading of the credentials, are one step.   *)
SrvX11 ==
    /\ FreeSid # {} /\ Request
    /\ \E c \in srv.chans :
         /\ c.st = "open" /\ ~c.rcvd /\ ~c.sent
         /\ conn.chans[c.us] # None
         /\ "x channel" \in Unguarded \/ ds[conn.chans[c.us]].st = "live"
         /\ \E e \in ByUs(Now, conn.chans[c.us], c.us) : e.x11
         /\ LET sid == Min1(FreeSid)
            IN  /\ srv' = [srv EXCEPT !.chans =
                             @ \cup {NewSrvChannel(sid, 0, "opening")}]
                /\ Send([type |-> "X11", sid |-> sid,
                         d |-> conn.chans[c.us], us |-> c.us])
    /\ UNCHANGED <<ds, conn, fault>>

SrvSendClose ==
    /\ \E c \in srv.chans :
         /\ c.st = "open" /\ ~c.sent
         /\ srv' = [srv EXCEPT !.chans =
                      (@ \ {c}) \cup
                        (IF c.rcvd THEN {} ELSE {[c EXCEPT !.sent = TRUE]})]
         /\ Send([type |-> "CLOSE", us |-> c.us])
    /\ UNCHANGED <<ds, conn, asked, fault>>

----------------------------------------------------------------------------
(* The upstream reads a message: ssh2_connection_filter_queue and          *)
(* share_got_pkt_from_server.                                              *)

(* REQUEST_SUCCESS and REQUEST_FAILURE.                                    *)
GotReply(s, d, ok) ==
    IF s.ds[d].st \notin {"live", "dead"}
    THEN Fault(s, "connstate used after free")
    ELSE IF s.ds[d].greq = <<>> THEN Fault(s, "assert(globreq)")
    ELSE LET r == Head(s.ds[d].greq)
             f == IF r.kind = "forward" THEN IF ok THEN "active" ELSE "no"
                  ELSE IF ok THEN "no" ELSE s.ds[d].fwd[r.port]
         IN  Retry([s EXCEPT !.ds[d].fwd[r.port] = f,
                             !.ds[d].greq = <<>>], d)

(* The cleanup is not tried again when a channel's id is known.            *)
OnChannel_once(s, d, c, m) ==
    CASE m.type = "OPEN_CONFIRMATION" ->
           [s EXCEPT !.ds[d].chans =
                    (@ \ {c}) \cup {[c EXCEPT !.sid = m.sid, !.st = "OPEN"]}]
      [] m.type = "OPEN_FAILURE" -> RemoveChannel(s, d, c)
      [] m.type = "CLOSE" /\ c.st = "SENT_CLOSE" -> Retry(RemoveChannel(s, d, c), d)
      [] m.type = "CLOSE" -> SetState(s, d, c, "RCVD_CLOSE")

(* A message about a channel of a downstream.                              *)
OnChannel(s, d, c, m) ==
    CASE m.type = "OPEN_CONFIRMATION" ->
           Retry([s EXCEPT !.ds[d].chans =
                    (@ \ {c}) \cup {[c EXCEPT !.sid = m.sid, !.st = "OPEN"]}],
                 d)
      [] m.type = "OPEN_FAILURE" -> RemoveChannel(s, d, c)
      [] m.type = "CLOSE" /\ c.st = "SENT_CLOSE" -> Retry(RemoveChannel(s, d, c), d)
      [] m.type = "CLOSE" -> SetState(s, d, c, "RCVD_CLOSE")

OnXChannel(s, d, x, m) ==
    LET x1 == [x EXCEPT !.queue = Append(@, "close")]
        s1 == [s EXCEPT !.ds[d].xchans = (@ \ {x}) \cup {x1}]
    IN  IF x.live THEN s1 ELSE share_dead_xchannel_respond(s1, d, x1)

GotChannelMessage(s, m) ==
    LET d == s.conn.chans[m.us]
    IN  IF d = None THEN Fault(s, "message for a nonexistent channel")
        ELSE IF s.ds[d].st \notin {"live", "dead"}
        THEN Fault(s, "connstate used after free")
        ELSE IF ByUs(s, d, m.us) # {}
        THEN OnChannel(s, d, CHOOSE c \in ByUs(s, d, m.us) : TRUE, m)
        ELSE IF XByUs(s, d, m.us) # {}
        THEN OnXChannel(s, d, CHOOSE x \in XByUs(s, d, m.us) : TRUE, m)
        ELSE s

(* CHANNEL_OPEN for a forwarding.  One that belongs to a downstream is     *)
(* handed to it, and is then still at the head of the queue: read again,   *)
(* past its end, it is an unknown type of channel with the id 0.           *)
GotOpen(s, m) ==
    LET d == s.conn.rpf[m.port]
    IN  IF d = None THEN SrvRefuse(s, m.sid)
        ELSE IF s.ds[d].st \notin {"live", "dead"}
        THEN Fault(s, "connstate used after free")
        ELSE SrvRefuse([s EXCEPT !.ds[d].half = @ \cup {m.sid}], 0)

(* ssh2channel_x11_sharing_handover and share_setup_x11_channel, if the    *)
(* credentials are still those of a downstream's channel.  Otherwise the   *)
(* upstream closes the channel itself; so it does when the bound on the    *)
(* ids is reached.                                                         *)
GotX11(s, m) ==
    LET us == Min1(FreeUs(s))
    IN  IF FreeUs(s) # {} /\ \E c \in ByUs(s, m.d, m.us) : c.x11
        THEN SrvConfirm(
               [alloc_sharing_channel(s, us, m.d) EXCEPT !.ds[m.d].xchans =
                  @ \cup {[us |-> us, sid |-> m.sid, live |-> TRUE,
                           queue |-> <<>>]}], m.sid, us)
        ELSE SrvRefuse(s, m.sid)

Receive ==
    /\ q # <<>> /\ q' = Tail(q)
    /\ LET m == Head(q)
       IN  CASE m.type = "REPLY" ->
                  Becomes([GotReply(Now, Head(conn.greqs), m.ok) EXCEPT
                             !.conn.greqs = Tail(@)])
             [] m.type = "OPEN" -> Becomes(GotOpen(Now, m))
             [] m.type = "X11" -> Becomes(GotX11(Now, m))
             [] OTHER -> Becomes(GotChannelMessage(Now, m))
    /\ UNCHANGED asked

----------------------------------------------------------------------------
Init ==
    /\ ds = [d \in Downstreams |-> NoConnstate]
    /\ conn = [chans |-> [u \in Ids |-> None], rpf |-> [p \in Ports |-> None],
               greqs |-> <<>>]
    /\ \E kind \in Servers :
         srv = [chans |-> {}, asked |-> {}, listen |-> {}, reqs |-> <<>>,
                kind |-> kind]
    /\ q = <<>> /\ asked = 0 /\ orders = {} /\ fault = None

Downstream(d) ==
    \/ share_listen_accepting(d)
    \/ Open(d) \/ Confirm(d) \/ Refuse(d) \/ XConfirm(d) \/ XRefuse(d)
    \/ Close(d) \/ X11Req(d)
    \/ \E p \in Ports : TcpipForward(d, p) \/ CancelTcpipForward(d, p)
    \/ share_closing(d) \/ Disconnect(d)

Server ==
    \/ SrvAnswerOpen \/ SrvRefuseOpen \/ SrvReply
    \/ SrvForwarded \/ SrvX11 \/ SrvSendClose

(* The orders of global requests that a step completes: a downstream has   *)
(* two outstanding, it goes with a cancellation outstanding, the server    *)
(* refuses a cancellation.                                                 *)
Happens(order) ==
    CASE order = "second request" ->
           /\ Len(conn'.greqs) > Len(conn.greqs)
           /\ ds[Last(conn'.greqs)].greq # <<>>
      [] order = "cancelled" ->
           \E d \in Downstreams :
             /\ ds[d].st = "live" /\ ds'[d].st # "live"
             /\ \E i \in DOMAIN ds[d].greq : ds[d].greq[i].kind = "cancel"
      [] order = "refused cancel" ->
           /\ Len(srv'.reqs) < Len(srv.reqs) /\ Head(srv.reqs).kind = "cancel"
           /\ ~Last(q').ok

Next ==
    /\ fault = None
    /\ \/ \E d \in Downstreams : Downstream(d)
       \/ Server \/ Receive
    /\ orders' = orders \cup
         {o \in {"second request", "cancelled", "refused cancel"} : Happens(o)}

Spec == Init /\ [][Next]_vars

----------------------------------------------------------------------------
(* No assertion fails, no connstate or forwarding is used after it was     *)
(* freed, and the server is sent nothing that breaks the protocol.         *)
NoFault == fault = None

(* What goes wrong has one of these causes.  A CHANNEL_OPEN handed to a    *)
(* downstream is answered by the upstream too, at that moment and for the  *)
(* id 0, which a strict server does not stand.  assert(globreq), "should   *)
(* match the queue in ssh.c", fails only after a downstream has asked      *)
(* again before the reply; a reply finds a connstate freed only then.  A   *)
(* forwarding is used after it was freed only then, or after it was        *)
(* cancelled with the cancellation refused, or outstanding when the        *)
(* downstream went.  DISCONNECT uses the buffer of the connstate that it   *)
(* has just freed.  And in whatever order downstreams come, go and die, no *)
(* channel is confirmed, refused or closed twice or sent anything after    *)
(* its CLOSE, and no message comes for one that was forgotten.             *)
FaultHasCause ==
    \/ NoFault
    \/ /\ fault = "refused the id 0"
       /\ srv.kind = "strict" /\ \E d \in Downstreams : ds[d].half # {}
    \/ fault = "assert(globreq)" /\ "second request" \in orders
    \/ fault = "connstate used after free" /\ "second request" \in orders
    \/ fault = "rportfwd used after free" /\ orders # {}
    \/ /\ fault = "buffer used after free"
       /\ \E d \in Downstreams : ds[d].st = "freed"

(* The three tables of channels agree: a channel of the connection layer   *)
(* belongs to a connstate that knows it, under one entry, and a connstate  *)
(* knows only such channels; and a channel's state is what the server has  *)
(* been sent and what has been read from it.                               *)
CloseComing(us) ==
    \E i \in DOMAIN q : q[i].type = "CLOSE" /\ q[i].us = us

TablesAgree ==
    fault = None =>
      /\ \A us \in Ids :
           conn.chans[us] # None =>
             Cardinality(ByUs(Now, conn.chans[us], us)
                         \cup XByUs(Now, conn.chans[us], us)) = 1
      /\ \A d \in Downstreams :
           /\ \A c \in ds[d].chans \cup ds[d].xchans : conn.chans[c.us] = d
           /\ \A c \in ds[d].chans :
                c.st \in {"OPEN", "RCVD_CLOSE"} =>
                  \E e \in srv.chans :
                    /\ e.sid = c.sid /\ e.us = c.us /\ ~e.rcvd
                    /\ e.sent <=> (c.st = "RCVD_CLOSE" \/ CloseComing(c.us))

(* When every downstream has been freed, and what was on its way has       *)
(* arrived, nothing of theirs is left: no channel and no listening port at *)
(* the server, and no entry in the connection layer's tables.              *)
NothingLeft ==
    (/\ \A d \in Downstreams : ds[d].st \in {"none", "freed"}
     /\ q = <<>> /\ srv.reqs = <<>> /\ fault = None)
    => /\ srv.chans = {} /\ srv.asked = {} /\ srv.listen = {}
       /\ \A us \in Ids : conn.chans[us] = None
       /\ \A p \in Ports : conn.rpf[p] = None
       /\ conn.greqs = <<>>

(* A downstream that has gone is freed in the end, which lets the          *)
(* connection layer wind up the connection after the last one: as long as  *)
(* its connstate is kept something will come that has the cleanup tried    *)
(* again, a message under way, or the server's answer to an open, a        *)
(* request or a CLOSE.                                                     *)
DeadIsFreed ==
    (\E d \in Downstreams : ds[d].st = "dead")
    => \/ q # <<>> \/ srv.asked # {} \/ srv.reqs # <<>>
       \/ \E c \in srv.chans : c.rcvd

=============================================================================
