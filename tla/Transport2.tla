----------------------------- MODULE Transport2 -----------------------------
(***************************************************************************)
(* The SSH-2 transport layer (ssh/transport2.c) on its binary packet       *)
(* protocol (ssh/bpp2.c): key exchange and re-exchange, and the delayed    *)
(* compression that is switched on by user authentication.  Both ends of   *)
(* the connection run the same code, the client as "c" and the server as   *)
(* "s"; FIFO byte streams join them.                                       *)
(*                                                                         *)
(* A packet is its type, a number (the count of a KEXINIT, the position of *)
(* a data packet) and the compression setting a KEXINIT proposes.  On the  *)
(* wire it also carries the key it was encrypted under and whether it was  *)
(* compressed.  A key is the pair of KEXINIT numbers that the exchange     *)
(* hash covers.  Keys, MACs and compression themselves are abstracted: a   *)
(* packet can be read iff the reader's key and compression are the         *)
(* writer's.                                                               *)
(*                                                                         *)
(* One step of a coroutine runs from one packet to the next; `run' is the  *)
(* end whose coroutine runs, and nothing else happens until it returns.    *)
(***************************************************************************)
EXTENDS Integers, Sequences

CONSTANTS MaxRekeys,     \* how often a re-exchange is asked for
          MaxData,       \* data packets the higher layers send, together
          MaxFailures,   \* authentication attempts the server refuses
          Offers,        \* what servers offer to compress with: "zlib", "delayed"
          Servers,       \* "own": ssh/bpp2.c as a server; "other": one that
                         \* remembers, as our client does, that it is authenticated
          RekeyBugs,     \* whether BUG_SSH2_REKEY is set for the server
          Unguarded      \* the cases of the README that are let happen

VARIABLES st,            \* the state of each end
          wire,          \* the packets each end has written
          run,           \* the end whose coroutine runs, or "none"
          env,           \* the server's offer and kind, the quirk, and what is left to ask for
          ended          \* why the connection ended, or "no"

vars == <<st, wire, run, env, ended>>

Side == {"c", "s"}
Peer(i) == IF i = "c" THEN "s" ELSE "c"

Userauth == {"auth", "failure", "success"}     \* userauth_range
Higher == Userauth \cup {"data"}               \* types from 50 up

Packet(t, n, zip) == [type |-> t, n |-> n, zip |-> zip]
Plain(t) == Packet(t, 0, FALSE)

\* ssh2_transport_new and ssh2_bpp_new
NewSide(zip) ==
    [pc |-> "start",            \* where crState resumes
     kexing |-> FALSE,          \* kex_in_progress
     class |-> "none",          \* rekey_class
     deferred |-> FALSE,        \* deferred_rekey_reason is set
     conf |-> zip,              \* CONF_compression
     kexinits |-> 0,            \* KEXINITs sent
     proposed |-> FALSE,        \* outgoing_kexinit: compression in the last one
     key |-> <<0, 0>>,          \* the exchange under way or last made
     comp |-> "none",           \* the compression it chose
     session |-> FALSE,         \* got_session_id
     higherOk |-> FALSE,        \* higher_layer_ok
     inQ |-> <<>>, outQ |-> <<>>,               \* in_pq and out_pq
     outHigher |-> <<>>, inHigher |-> <<>>,     \* pq_out_higher, pq_in_higher
     cb |-> {"process"},        \* idempotent callbacks that are queued
     expired |-> {},            \* stats->in.expired, stats->out.expired
     outKey |-> <<0, 0>>, inKey |-> <<0, 0>>,
     outZip |-> FALSE, inZip |-> FALSE,         \* out_comp, in_decomp
     outPend |-> FALSE, inPend |-> FALSE,       \* {out,in}.pending_compression
     blocked |-> FALSE,         \* the BPP's own pending_compression
     authed |-> FALSE,          \* seen_userauth_success
     newkeys |-> FALSE,         \* pending_newkeys
     auth |-> "no",             \* the higher layer: "no", "asked", "yes"
     sent |-> 0, received |-> 0]

Init ==
    /\ \E zip \in BOOLEAN : st = [i \in Side |-> NewSide(i = "s" \/ zip)]
    /\ wire = [i \in Side |-> <<>>]
    /\ run = "none"
    /\ env \in [offer : Offers, server : Servers, bug : RekeyBugs,
                rekeys : {MaxRekeys}, failures : {MaxFailures},
                data : {MaxData}]
    /\ ended = "no"

-----------------------------------------------------------------------------
(* Packet queues and the binary packet protocol. *)

\* pq_push, which queues the callback of the packet queue
Push(x, p) == [x EXCEPT !.outQ = Append(@, p), !.cb = @ \cup {"output"}]
PushHigher(x, p) == [x EXCEPT !.outHigher = Append(@, p), !.cb = @ \cup {"higher"}]

\* pq_concatenate(out_pq, out_pq, pq_out_higher)
PassHigher(x) ==
    [x EXCEPT !.outQ = @ \o x.outHigher, !.outHigher = <<>>,
              !.cb = IF x.outQ \o x.outHigher = <<>> THEN @ ELSE @ \cup {"output"}]

ssh2_bpp_enable_pending_compression(x) ==
    [x EXCEPT !.inZip = @ \/ x.inPend, !.outZip = @ \/ x.outPend,
              !.inPend = FALSE, !.outPend = FALSE]

ssh2_bpp_rekey_inadvisable(x) == x.blocked

\* The last position that ssh2_bpp_handle_output sends in one call: while the
\* client's compression waits for authentication, the last userauth packet, or
\* one packet if there is none.
LastSent(i, x) ==
    LET auths == {k \in DOMAIN x.outQ : x.outQ[k].type \in Userauth}
    IN  IF x.outQ = <<>> \/ (x.blocked /\ auths = {}) THEN 0
        ELSE IF i = "c" /\ x.outPend
             THEN IF auths = {} THEN 1 ELSE CHOOSE k \in auths : \A l \in auths : l <= k
             ELSE Len(x.outQ)

\* What a call writes: a server's packets after USERAUTH_SUCCESS are compressed.
Written(i, x) ==
    LET after(k) == \E l \in 1..(k - 1) : i = "s" /\ x.outQ[l].type = "success"
    IN  [k \in 1..LastSent(i, x) |->
            [packet |-> x.outQ[k], key |-> x.outKey,
             zip |-> x.outZip \/ (after(k) /\ x.outPend)]]

\* ... and what it leaves.
Sent(i, x) ==
    LET last == LastSent(i, x)
        rest == [x EXCEPT !.outQ = SubSeq(@, last + 1, Len(@)),
                          !.blocked = @ \/ (i = "c" /\ x.outPend /\ last > 0)]
    IN  IF i = "s" /\ \E k \in 1..last : x.outQ[k].type = "success"
        THEN [ssh2_bpp_enable_pending_compression(rest)
                 EXCEPT !.authed = @ \/ env.server = "other"]
        ELSE rest

\* The requests that go wrong, see the README: before the higher layer is started,
\* or while compression waits for authentication; and one forgotten for
\* ssh2_transport_notify_auth_done.
MayAsk(i) ==
    /\ "not started" \in Unguarded \/ st[i].higherOk
    /\ \/ "authenticating" \in Unguarded
       \/ \A j \in Side : st[j].auth = "yes"
       \/ env.offer # "delayed"
       \/ ~st["c"].conf /\ st["c"].comp = "none"
    /\ \/ "forgotten" \in Unguarded
       \/ \A k \in DOMAIN st[i].inHigher : st[i].inHigher[k].type # "success"

Ask(i) ==
    /\ env.rekeys > 0
    /\ MayAsk(i)
    /\ env' = [env EXCEPT !.rekeys = @ - 1]

\* A limit on the data sent under one key may be reached by any packet.  One that
\* is reached under the old keys of an exchange makes no difference: NEWKEYS resets it.
dts_consume(i, direction) ==
    \/ /\ ~st[i].kexing \/ (direction = "out" /\ st[i].pc = "newkeys")
       /\ Ask(i)
    \/ env' = env

Consumed(x, direction) ==
    [x EXCEPT !.expired = IF env' # env THEN @ \cup {direction} ELSE @]

\* Two ends of one connection act one at a time: they share only the wires.
Quiet == run = "none" /\ ended = "no"

\* ic_out_pq: ssh2_bpp_handle_output
ssh2_bpp_handle_output(i) ==
    /\ Quiet
    /\ "output" \in st[i].cb
    /\ wire' = [wire EXCEPT ![i] = @ \o Written(i, st[i])]
    /\ dts_consume(i, "out")
    /\ st' = [st EXCEPT ![i] = [Consumed(Sent(i, @), "out") EXCEPT !.cb = @ \ {"output"}]]
    /\ UNCHANGED <<run, ended>>

ssh2_bpp_new_outgoing_crypto(x) ==
    LET later == x.comp = "delayed" /\ ~x.authed
    IN  [x EXCEPT !.outKey = x.key, !.outPend = later,
                  !.outZip = x.comp # "none" /\ ~later]

ssh2_bpp_new_incoming_crypto(x) ==
    LET later == x.comp = "delayed" /\ ~x.authed
    IN  [x EXCEPT !.inKey = x.key, !.inPend = later,
                  !.inZip = x.comp # "none" /\ ~later, !.newkeys = FALSE]

\* A BPP in which a userauth packet does not release the queued output.
Noted_blocked(i, x, type) ==
    [(IF type = "success" /\ i = "c"
      THEN [ssh2_bpp_enable_pending_compression(x) EXCEPT !.authed = TRUE]
      ELSE x) EXCEPT !.newkeys = (type = "newkeys"), !.cb = @ \cup {"process"}]

\* What receiving a packet does in the BPP, after the packet is queued.
Noted(i, x, type) ==
    LET enabled == IF type = "success" /\ i = "c"
                   THEN [ssh2_bpp_enable_pending_compression(x) EXCEPT !.authed = TRUE]
                   ELSE x
        unblocked == x.blocked /\ type \in Userauth
    IN  [enabled EXCEPT !.newkeys = (type = "newkeys"),
                        !.blocked = @ /\ ~unblocked,
                        !.cb = @ \cup {"process"}
                                 \cup (IF unblocked THEN {"output"} ELSE {})]

\* ssh2_bpp_handle_input, one packet.  After NEWKEYS it waits for the keys.
ssh2_bpp_handle_input(i) ==
    /\ Quiet
    /\ wire[Peer(i)] # <<>>
    /\ ~st[i].newkeys
    /\ LET w == Head(wire[Peer(i)])
       IN  IF w.key # st[i].inKey \/ w.zip # st[i].inZip
           THEN /\ ended' = "unreadable"      \* "Incorrect MAC received on packet"
                /\ UNCHANGED <<st, wire, env>>
           ELSE /\ wire' = [wire EXCEPT ![Peer(i)] = Tail(@)]
                /\ dts_consume(i, "in")
                /\ st' = [st EXCEPT ![i] =
                            Noted(i, Consumed([@ EXCEPT !.inQ = Append(@, w.packet)], "in"),
                                  w.packet.type)]
                /\ UNCHANGED ended
    /\ UNCHANGED run

-----------------------------------------------------------------------------
(* ssh2_transport_process_queue. *)

\* A callback enters the coroutine.
ssh2_transport_process_queue(i) ==
    /\ Quiet
    /\ \E c \in st[i].cb \cap {"process", "higher"} :
          st' = [st EXCEPT ![i].cb = @ \ {c}]
    /\ run' = i
    /\ UNCHANGED <<wire, env, ended>>

\* The coroutine's next packet, once the filter has passed on what is not its own.
Next_packet(i) == Head(st[i].inQ)
Ready(i) == st[i].inQ # <<>> /\ Next_packet(i).type \notin Higher
Popped(i) == [st[i] EXCEPT !.inQ = Tail(@)]

Step(i, x) == st' = [st EXCEPT ![i] = x] /\ UNCHANGED <<wire, env>>
Return(i, x) == Step(i, x) /\ run' = "none" /\ UNCHANGED ended
Continue(i, x) == Step(i, x) /\ UNCHANGED <<run, ended>>
End(why) == ended' = why /\ UNCHANGED <<st, wire, run, env>>

\* ssh2_transport_filter_queue
FilterQueue(i) ==
    /\ st[i].inQ # <<>>
    /\ Next_packet(i).type \in Higher
    /\ IF st[i].higherOk
       THEN Continue(i, [Popped(i) EXCEPT !.inHigher = Append(@, Next_packet(i))])
       ELSE End("premature")

\* begin_key_exchange: send our KEXINIT.  Nothing reads the class until it is reset.
BeginKex(x) ==
    LET n == x.kexinits + 1
    IN  [Push(x, Packet("kexinit", n, x.conf))
            EXCEPT !.pc = "kexinit", !.kexing = TRUE, !.kexinits = n,
                   !.proposed = x.conf, !.class = "none"]

Start(i) == st[i].pc = "start" /\ Continue(i, BeginKex(st[i]))

\* A wait that passes the higher layer's packets through.
Wait_passing(i) ==
    /\ st[i].pc \in {"kexinit", "kex", "newkeys", "service"}
    /\ st[i].inQ = <<>>
    /\ Return(i, PassHigher(st[i]))

\* crMaybeWaitUntilV on a packet that is not there
Wait(i) ==
    /\ st[i].pc \in {"kexinit", "kex", "newkeys", "service"}
    /\ st[i].inQ = <<>>
    /\ Return(i, st[i])

\* The client's first message of the key exchange proper; the server waits for it.
Perform(i, x) == [(IF i = "c" THEN Push(x, Plain("init")) ELSE x) EXCEPT !.pc = "kex"]

\* ssh2_scan_kexinits: the client's preference decides, among what the server offers.
Negotiated(i, x, p) ==
    LET wanted == IF i = "c" THEN x.proposed ELSE p.zip
    IN  [x EXCEPT !.key = IF i = "c" THEN <<x.kexinits, p.n>> ELSE <<p.n, x.kexinits>>,
                  !.comp = IF wanted THEN env.offer ELSE "none"]

\* Their KEXINIT.  The user may be asked about a weak algorithm, at most once.
KexInit(i) ==
    /\ st[i].pc = "kexinit"
    /\ Ready(i)
    /\ LET x == Negotiated(i, Popped(i), Next_packet(i))
       IN  IF Next_packet(i).type # "kexinit" THEN End("protocol")
           ELSE \/ Continue(i, Perform(i, x))
                \/ i = "c" /\ ~x.session /\ Return(i, [x EXCEPT !.pc = "warn"])

\* New keys before the BPP has written NEWKEYS.
SendNewKeys_unflushed(i, x) ==
    LET z == ssh2_bpp_new_outgoing_crypto([Push(x, Plain("newkeys")) EXCEPT !.expired = @ \ {"out"}])
    IN  /\ wire' = wire
        /\ st' = [st EXCEPT ![i] = [PassHigher(z) EXCEPT !.pc = "newkeys", !.session = TRUE]]

\* NEWKEYS: everything up to it is written under the old keys, everything after
\* it, the higher layer's packets first, under the new.
SendNewKeys(i, x) ==
    LET y == Push(x, Plain("newkeys"))
        z == ssh2_bpp_new_outgoing_crypto([Sent(i, y) EXCEPT !.expired = @ \ {"out"}])
    IN  /\ wire' = [wire EXCEPT ![i] = @ \o Written(i, y)]
        /\ st' = [st EXCEPT ![i] = [PassHigher(z) EXCEPT !.pc = "newkeys", !.session = TRUE]]

\* ssh2kex_coroutine: the client verifies the host key of the first exchange,
\* and may have to wait for the user.
Kex(i) ==
    /\ st[i].pc = "kex"
    /\ Ready(i)
    /\ LET p == Next_packet(i)
       IN  \/ /\ p.type # (IF i = "c" THEN "reply" ELSE "init")
              /\ End("protocol")
           \/ /\ i = "s" /\ p.type = "init"
              /\ SendNewKeys(i, Push(Popped(i), Plain("reply")))
              /\ UNCHANGED <<run, env, ended>>
           \/ /\ i = "c" /\ p.type = "reply"
              /\ \/ SendNewKeys(i, Popped(i)) /\ UNCHANGED <<run, env, ended>>
                 \/ ~st[i].session /\ Return(i, [Popped(i) EXCEPT !.pc = "hostkey"])

\* ssh2_transport_dialog_callback: the user's answer resumes the coroutine.
ssh2_transport_dialog_callback(i, yes) ==
    /\ Quiet
    /\ st[i].pc \in {"warn", "hostkey"}
    /\ IF ~yes THEN End("user")
       ELSE /\ IF st[i].pc = "warn"
               THEN st' = [st EXCEPT ![i] = Perform(i, @)] /\ UNCHANGED wire
               ELSE SendNewKeys(i, st[i])
            /\ run' = i
            /\ UNCHANGED <<env, ended>>

\* process_queue run by a callback while an answer is awaited
StillWaiting(i) ==
    /\ st[i].pc \in {"warn", "hostkey"}
    /\ st[i].inQ # <<>> => Ready(i)
    /\ Return(i, st[i])

\* Their NEWKEYS.  A deferred reason begins the next exchange at once.
KeysDone(i) ==
    LET x == ssh2_bpp_new_incoming_crypto([Popped(i) EXCEPT !.expired = @ \ {"in"}])
    IN  IF x.deferred
        THEN Continue(i, BeginKex([x EXCEPT !.deferred = FALSE]))
        ELSE IF x.higherOk
             THEN Return(i, [x EXCEPT !.kexing = FALSE, !.pc = "idle", !.class = "none"])
             ELSE Continue(i, [(IF i = "c" THEN Push(x, Plain("request")) ELSE x)
                                  EXCEPT !.kexing = FALSE, !.pc = "service"])

NewKeys(i) ==
    /\ st[i].pc = "newkeys"
    /\ Ready(i)
    /\ IF Next_packet(i).type # "newkeys" THEN End("protocol") ELSE KeysDone(i)

\* SERVICE_REQUEST and SERVICE_ACCEPT start the higher layer.
Service(i) ==
    /\ st[i].pc = "service"
    /\ Ready(i)
    /\ IF Next_packet(i).type # (IF i = "c" THEN "accept" ELSE "request")
       THEN End("protocol")
       ELSE Return(i, [(IF i = "c" THEN Popped(i) ELSE Push(Popped(i), Plain("accept")))
                          EXCEPT !.higherOk = TRUE, !.pc = "idle", !.class = "none"])

\* One turn of the loop between key exchanges.  A KEXINIT goes back on the queue
\* for the exchange it begins.
Idle(i) ==
    /\ st[i].pc = "idle"
    /\ st[i].inQ # <<>> => Ready(i)
    /\ LET x == PassHigher(st[i])
           theirs == Ready(i)
           class == IF theirs THEN "server"
                    ELSE IF x.class = "normal" \/ x.expired # {} THEN "normal" ELSE "none"
       IN  IF theirs /\ Next_packet(i).type # "kexinit" THEN End("protocol")
           ELSE IF class = "none" \/ (class = "normal" /\ i = "c" /\ env.bug)
                THEN Return(i, [x EXCEPT !.class = "none",
                                         !.expired = IF class = "none" THEN @ ELSE {}])
                ELSE Continue(i, BeginKex(x))

Coroutine(i) ==
    /\ run = i /\ ended = "no"
    /\ \/ FilterQueue(i) \/ Start(i) \/ Wait(i) \/ KexInit(i) \/ Kex(i)
       \/ StillWaiting(i) \/ NewKeys(i) \/ Service(i) \/ Idle(i)

-----------------------------------------------------------------------------
(* What asks for a key re-exchange. *)

\* ssh2_transport_special_cmd (SS_REKEY, SS_XCERT) on the client, and
\* ssh2_transport_timer on either end.
AskNow(i) ==
    /\ Quiet
    /\ Ask(i)
    /\ ~st[i].kexing
    /\ st' = [st EXCEPT ![i].class = "normal", ![i].cb = @ \cup {"process"}]
    /\ UNCHANGED <<wire, run, ended>>

ssh2_transport_special_cmd == AskNow("c")
ssh2_transport_timer(i) == st[i].session /\ AskNow(i)

\* A reconfiguration that defers no reason.
ssh2_transport_reconfigure_not_deferred(mandatory) ==
    LET x == st["c"]
        now == ~x.kexing /\ ~ssh2_bpp_rekey_inadvisable(x)
    IN  /\ Quiet
        /\ Ask("c")
        /\ st' = [st EXCEPT !["c"] =
                    [@ EXCEPT !.conf = IF mandatory THEN ~@ ELSE @,
                              !.class = IF now THEN "normal" ELSE @,
                              !.cb = IF now THEN @ \cup {"process"} ELSE @]]
        /\ UNCHANGED <<wire, run, ended>>

\* ssh2_transport_reconfigure: a new compression setting needs a new exchange, now
\* or after the present one; a lower limit asks for one only if it can be now.
ssh2_transport_reconfigure(mandatory) ==
    LET x == st["c"]
        now == ~x.kexing /\ ~ssh2_bpp_rekey_inadvisable(x)
    IN  /\ Quiet
        /\ Ask("c")
        /\ st' = [st EXCEPT !["c"] =
                    [@ EXCEPT !.conf = IF mandatory THEN ~@ ELSE @,
                              !.class = IF now THEN "normal" ELSE @,
                              !.cb = IF now THEN @ \cup {"process"} ELSE @,
                              !.deferred = @ \/ (mandatory /\ ~now)]]
        /\ UNCHANGED <<wire, run, ended>>

-----------------------------------------------------------------------------
(* The higher layers, as the transport layer sees them. *)

\* Their packets during an exchange wait for the next call of the coroutine after
\* it: see the README for the ones queued between the two NEWKEYS.
MaySend(i) == /\ Quiet
              /\ st[i].higherOk
              /\ "between newkeys" \in Unguarded \/ st[i].pc # "newkeys"

HigherSend(i, p, x) ==
    /\ MaySend(i)
    /\ st' = [st EXCEPT ![i] = PushHigher(x, p)]
    /\ UNCHANGED <<wire, run, ended>>

userauth_request ==
    /\ st["c"].auth = "no"
    /\ HigherSend("c", Plain("auth"), [st["c"] EXCEPT !.auth = "asked"])
    /\ UNCHANGED env

userauth_reply(yes) ==
    /\ st["s"].auth = "asked"
    /\ yes \/ env.failures > 0
    /\ env' = [env EXCEPT !.failures = IF yes THEN 0 ELSE @ - 1]
    /\ HigherSend("s", Plain(IF yes THEN "success" ELSE "failure"),
                  [st["s"] EXCEPT !.auth = IF yes THEN "yes" ELSE "no"])

connection_data(i) ==
    /\ st[i].auth = "yes"
    /\ env.data > 0
    /\ env' = [env EXCEPT !.data = @ - 1]
    /\ HigherSend(i, Packet("data", st[i].sent + 1, FALSE), [st[i] EXCEPT !.sent = @ + 1])

\* USERAUTH_SUCCESS at the client calls ssh2_transport_notify_auth_done.
HigherReceive(i) ==
    /\ Quiet
    /\ st[i].inHigher # <<>>
    /\ LET p == Head(st[i].inHigher)
           x == [st[i] EXCEPT !.inHigher = Tail(@)]
       IN  IF p.type = "data" /\ p.n # x.received + 1 THEN End("disorder")
           ELSE /\ st' = [st EXCEPT ![i] =
                    CASE p.type = "data" -> [x EXCEPT !.received = p.n]
                      [] p.type = "auth" -> [x EXCEPT !.auth = "asked"]
                      [] p.type = "failure" -> [x EXCEPT !.auth = "no"]
                      [] p.type = "success" ->
                            [x EXCEPT !.auth = "yes",
                                      !.class = "post_userauth",
                                      !.cb = @ \cup {"process"}]]
                /\ UNCHANGED <<wire, run, env, ended>>

-----------------------------------------------------------------------------
EventLoop(i) ==
    \/ ssh2_transport_process_queue(i) \/ Coroutine(i)
    \/ ssh2_bpp_handle_output(i) \/ ssh2_bpp_handle_input(i)
    \/ HigherReceive(i)

Next ==
    \/ \E i \in Side : \/ EventLoop(i)
                       \/ ssh2_transport_timer(i)
                       \/ connection_data(i)
    \/ \E yes \in BOOLEAN : \/ ssh2_transport_dialog_callback("c", yes)
                            \/ userauth_reply(yes)
                            \/ ssh2_transport_reconfigure(yes)
    \/ ssh2_transport_special_cmd
    \/ userauth_request

\* The event loop runs callbacks and reads the socket; a dialog and the prompts of
\* authentication, which come one at a time, are answered.
Answer ==
    \/ ssh2_transport_dialog_callback("c", TRUE)
    \/ userauth_request
    \/ userauth_reply(TRUE)

Fairness == WF_vars(EventLoop("c")) /\ WF_vars(EventLoop("s")) /\ WF_vars(Answer)

Safe == Init /\ [][Next]_vars
Spec == Safe /\ Fairness

-----------------------------------------------------------------------------
(* Properties. *)

\* Two ends that run this code never break off the connection: every packet is
\* read under the key and the compression it was written under, packets come
\* where the coroutine expects them, and the higher layer's arrive once and in order.
NoProtocolError == ended \in {"no", "user"}

\* What an end has sent and the other has not yet taken, in order.
Stream(i) ==
    LET w == wire[i] IN st[Peer(i)].inQ \o [k \in DOMAIN w |-> w[k].packet] \o st[i].outQ

\* RFC 4253 section 7.1: from its KEXINIT to its NEWKEYS an end sends no packet of
\* a higher layer.
QuietDuringKex ==
    \A i \in Side :
        LET q == Stream(i)
            opened == st[Peer(i)].pc \in {"warn", "kex", "hostkey", "newkeys"}
        IN  \A b \in DOMAIN q :
               (q[b].type \in Higher /\ (opened \/ \E a \in 1..(b - 1) : q[a].type = "kexinit"))
               => \E k \in 1..(b - 1) : /\ q[k].type = "newkeys"
                                       /\ \A a \in k..(b - 1) : q[a].type # "kexinit"

\* Outside a key exchange the higher layer's packets are on their way: none is left
\* on pq_out_higher with no callback to fetch it.
NothingHeldBack ==
    \A i \in Side : (Quiet /\ st[i].pc = "idle" /\ st[i].outHigher # <<>>)
                     => st[i].cb \cap {"process", "higher"} # {}

\* The higher layer's packets are kept back during a key exchange, and only then.
HeldBackForKex == QuietDuringKex /\ NothingHeldBack

\* A key exchange that has begun comes to its end, at both ends, however the
\* requests for another one fall.
Kexing == \E i \in Side : st[i].kexing
KexCompletes == Kexing ~> (~Kexing \/ ended # "no")

Applied == st["c"].conf = (st["c"].comp # "none")

\* A changed compression setting comes into force: the exchange it asks for takes
\* place, now or after the one under way.
ConfigTakesEffect == ~env.bug ~> (Applied \/ ended # "no")
=============================================================================
