---------------------------- MODULE Ssh2Channel ----------------------------
(***************************************************************************)
(* One channel of the SSH-2 connection layer, ssh/connection2.c, with the  *)
(* local end it serves: the main session (ssh/mainchan.c), a forwarded     *)
(* port (ssh/portfwd.c) or a forwarded X connection (ssh/x11fwd.c).        *)
(*                                                                         *)
(* A handler is an operator that takes the channel, a record, and returns  *)
(* it; handlers call each other as the functions of the code do.  Data is  *)
(* counted in bytes, and a run of DATA packets is one packet with their    *)
(* total.  The peer is external and keeps to RFC 4254; the connection is   *)
(* two FIFO queues: c.tx, the packets we push on out_pq, and rx.           *)
(***************************************************************************)
EXTENDS Integers, Sequences

CONSTANTS
    Kinds,          \* local ends to consider: "main", "fwd", "x11"
    Configs,        \* optional requests a main session may be set up with,
                    \* or {"direct-tcpip"} if it is no session at all
    Quirks,         \* sets of remote_bugs to consider: "late", "chokes", "maxpkt"
    Unguarded,      \* orders of events that the front end does not avoid
    OUR_V2_WINSIZE, \* also OUR_V2_MAXPKT, which has the same value
    OUR_V2_BIGWIN,
    WinCap,         \* 0x40000000: locmaxwin at which the window stops growing
    FixedWin,       \* initial_fixed_window_size of an X connection
    RemWin,         \* window the peer offers when the channel opens
    MaxOut,         \* bound: bytes the local end writes
    MaxIn,          \* bound: bytes the peer sends
    SessionOut,     \* the same bounds for a session, which has more to do
    SessionIn,
    MaxSpecials,    \* bound: resizes, breaks and signals
    MaxAsks,        \* bound: requests of the peer, on a session
    MaxFlight,      \* bound: packets under way when an end starts to send
    Congestion      \* bound: the kinds during which the SSH connection may back up

ASSUME BoundsAssumption ==
    /\ Kinds \subseteq {"main", "fwd", "x11"}
    /\ \A q \in Quirks : q \subseteq {"late", "chokes", "maxpkt"}
    /\ Unguarded \subseteq {"early input", "late input", "late special",
                            "early unthrottle", "late reset",
                            "throttled reset", "hasty client",
                            "late reply"}
    /\ {OUR_V2_WINSIZE, OUR_V2_BIGWIN, WinCap, FixedWin} \subseteq Nat \ {0}
    /\ OUR_V2_WINSIZE < WinCap /\ WinCap <= OUR_V2_BIGWIN
    /\ {RemWin, MaxOut, MaxIn, MaxSpecials, MaxAsks, MaxFlight} \subseteq Nat
    /\ SessionOut \in 0..MaxOut /\ SessionIn \in 0..MaxIn
    /\ Congestion \subseteq Kinds \cup {"zombie"}

VARIABLES
    c,          \* the ssh2_channel, its local end and ssh.c's throttle count
    rx,         \* packets from the peer, in_pq included
    peer        \* the other end of the channel

vars == <<c, rx, peer>>

SENT_EOF   == "SENT_EOF"
SENT_CLOSE == "SENT_CLOSE"
RCVD_EOF   == "RCVD_EOF"
RCVD_CLOSE == "RCVD_CLOSE"

(* n is a number of bytes; r tells requests apart, and whether they want a *)
(* reply.                                                                  *)
Packet(t) == [t |-> t, n |-> 0, r |-> "none"]
Bytes(t, n) == [t |-> t, n |-> n, r |-> "none"]
Request(r) == [t |-> "REQUEST", n |-> 0, r |-> r]

Push(x, p) == [x EXCEPT !.tx = Append(@, p)]

(* The program stops at a failed assertion, or goes on in freed memory;    *)
(* `fault' is the first such event.                                        *)
Fail(x, why) == [x EXCEPT !.fault = IF @ = "none" THEN why ELSE @]

(* The requests of a session, in the order in which                        *)
(* mainchan_request_response looks at the req_... flags.                   *)
Rank == [x11 |-> 1, agent |-> 2, pty |-> 3, env |-> 4,
         primary |-> 5, fallback |-> 6]
First(S) == CHOOSE r \in S : \A q \in S : Rank[r] <= Rank[q]

Least(a, b) == IF a < b THEN a ELSE b
-----------------------------------------------------------------------------
(* ssh2_channel_init, called with the channel about to be opened: by us    *)
(* ("half", once CHANNEL_OPEN is sent) or by the peer ("none" until then). *)
ssh2_channel_init(k, cfg, fb, bugs, simple, seat, typed) ==
    [life |-> IF k = "x11" THEN "none" ELSE "half",
     closes |-> {}, pending_eof |-> FALSE,
     throttling_conn |-> FALSE, throttled_by_backlog |-> FALSE,
     outbuffer |-> 0, remwindow |-> 0,
     locwindow |-> IF simple THEN OUR_V2_BIGWIN ELSE OUR_V2_WINSIZE,
     locmaxwin |-> IF simple THEN OUR_V2_BIGWIN ELSE OUR_V2_WINSIZE,
     remlocwin |-> IF simple THEN OUR_V2_BIGWIN ELSE OUR_V2_WINSIZE,
     chanreqs |-> << >>, throttle_state |-> "UNTHROTTLED",
     chan |-> k, fixed |-> FALSE,
     x11 |-> IF k = "x11" THEN "greeting" ELSE "connected",
     \* connection and ssh.c
     bugs |-> bugs, simple |-> simple, all_throttled |-> FALSE,
     throttle_count |-> 0, user_input |-> typed,
     tx |-> IF k = "x11" THEN << >> ELSE <<Packet("OPEN")>>,
     \* the local end: reading tells whether it takes local input
     config |-> cfg, has_fallback |-> fb, seat_eof |-> seat,
     req |-> {}, got_pty |-> FALSE, ready |-> FALSE, reading |-> FALSE,
     eof_sent |-> FALSE, eof_pending |-> FALSE,
     backlog |-> 0, eofs |-> 0,
     \* history
     written |-> 0, lost |-> 0, got |-> 0, specials |-> 0, fault |-> "none"]

Init ==
    /\ \E k \in Kinds, cfg \in Configs \cup {{}}, q \in Quirks,
          fb, simple, seat \in BOOLEAN, typed \in 0..1 :
          /\ IF k = "main" THEN cfg \in Configs
             ELSE cfg = {} /\ ~fb /\ ~simple /\ ~seat /\ typed = 0
          /\ typed = 1 => "early input" \in Unguarded
          /\ k = "main" /\ "late" \in q => "late reply" \in Unguarded
          /\ c = ssh2_channel_init(k, cfg, fb, q, simple, seat, typed)
    /\ rx = IF c.chan = "x11" THEN <<Packet("OPEN")>> ELSE << >>
    /\ peer = [state |-> "opening", sendwin |-> 0, recvwin |-> RemWin,
               sent |-> 0, got |-> 0,
               room |-> IF c.chan = "main" THEN SessionIn ELSE MaxIn,
               grants |-> IF c.chan = "main" THEN SessionOut ELSE MaxOut,
               eof |-> FALSE, close |-> FALSE,
               gotEof |-> FALSE, gotClose |-> FALSE,
               asks |-> IF c.chan = "main" THEN MaxAsks ELSE 0]
-----------------------------------------------------------------------------
(* Closing.                                                                *)

close_local(x) == [x EXCEPT !.chan = "zombie", !.fixed = FALSE]

ssh2_channel_destroy(x) ==
    IF x.chanreqs # << >> THEN Fail(x, "destroyed with requests outstanding")
    ELSE [close_local(x) EXCEPT !.life = "freed"]

(* chan_default_want_close, and zombiechan_want_close.                     *)
chan_want_close(x) == x.chan = "zombie" \/ {SENT_EOF, RCVD_EOF} \subseteq x.closes

(* CLOSE that does not wait for the requests outstanding.                  *)
SendClose_despite_requests(x) ==
    IF chan_want_close(x) /\ SENT_CLOSE \notin x.closes
    THEN [Push(x, Packet("CLOSE")) EXCEPT !.closes = @ \cup {SENT_EOF, SENT_CLOSE}]
    ELSE x

SendClose(x) ==
    IF chan_want_close(x) /\ x.chanreqs = << >> /\ SENT_CLOSE \notin x.closes
    THEN [Push(x, Packet("CLOSE")) EXCEPT !.closes = @ \cup {SENT_EOF, SENT_CLOSE}]
    ELSE x

(* Destruction that does not wait for the peer's CLOSE.                    *)
ssh2_channel_check_close_on_sent(x) ==
    IF x.life = "freed" THEN Fail(x, "use after free")
    ELSE IF x.life = "half" THEN x
    ELSE LET y == SendClose(x)
         IN  IF SENT_CLOSE \in y.closes THEN ssh2_channel_destroy(y) ELSE y

ssh2_channel_check_close(x) ==
    IF x.life = "freed" THEN Fail(x, "use after free")
    ELSE IF x.life = "half" THEN x
    ELSE LET y == SendClose(x)
         IN  IF {SENT_CLOSE, RCVD_CLOSE} \subseteq y.closes
             THEN ssh2_channel_destroy(y)
             ELSE y

ssh2_channel_try_eof(x) ==
    IF x.life = "half" \/ x.outbuffer > 0 THEN x
    ELSE ssh2_channel_check_close(
           [Push(x, Packet("EOF")) EXCEPT !.pending_eof = FALSE,
                                          !.closes = @ \cup {SENT_EOF}])

ssh2channel_write_eof(x) ==
    IF SENT_EOF \in x.closes THEN x
    ELSE ssh2_channel_try_eof([x EXCEPT !.pending_eof = TRUE])

ssh2channel_initiate_close(x) ==
    ssh2_channel_check_close([close_local(x) EXCEPT !.pending_eof = FALSE])
-----------------------------------------------------------------------------
(* Sending data.                                                           *)

(* Sending that does not use up the window.                                *)
ssh2_try_send_no_window(x) ==
    LET n == Least(x.outbuffer, x.remwindow)
        y == IF x.life = "half" \/ n = 0 THEN x
             ELSE [Push(x, Bytes("DATA", n)) EXCEPT !.outbuffer = @ - n]
    IN  IF y.outbuffer = 0 /\ y.pending_eof THEN ssh2_channel_try_eof(y) ELSE y

ssh2_try_send(x) ==
    LET n == Least(x.outbuffer, x.remwindow)
        y == IF x.life = "half" \/ n = 0 THEN x
             ELSE [Push(x, Bytes("DATA", n)) EXCEPT !.outbuffer = @ - n,
                                                    !.remwindow = @ - n]
    IN  IF y.outbuffer = 0 /\ y.pending_eof THEN ssh2_channel_try_eof(y) ELSE y

(* mainchan_set_input_wanted, pfd_set_input_wanted and x11_set_input_wanted *)
(* obey whatever state they are in; a zombie has nothing to stop.          *)
chan_set_input_wanted(x, wanted) ==
    IF x.chan = "zombie" THEN x ELSE [x EXCEPT !.reading = wanted]

ssh2_channel_check_throttle(x) ==
    IF x.life = "freed" THEN Fail(x, "use after free")
    ELSE chan_set_input_wanted(x, /\ ~x.throttled_by_backlog
                                  /\ ~x.all_throttled
                                  /\ ~x.pending_eof
                                  /\ SENT_EOF \notin x.closes)

ssh2_try_send_and_unthrottle(x) ==
    IF SENT_EOF \in x.closes THEN x
    ELSE LET y == ssh2_try_send(x)
         IN  IF y.outbuffer > 0 THEN y
             ELSE ssh2_channel_check_throttle([y EXCEPT !.throttled_by_backlog = FALSE])

ssh2channel_write(x, n) ==
    IF SENT_EOF \in x.closes THEN Fail(x, "write after EOF")
    ELSE ssh2_try_send([x EXCEPT !.outbuffer = @ + n, !.written = @ + n])
-----------------------------------------------------------------------------
(* Channel requests, the window we offer, and the replies.                 *)

(* h names the handler, or is "none" if no reply is wanted.                *)
ssh2_chanreq_init(x, r, h, size) ==
    IF {SENT_CLOSE, RCVD_CLOSE} \cap x.closes # {}
    THEN Fail(x, "request after CLOSE")
    ELSE [Push(x, Request(r)) EXCEPT
             !.chanreqs = IF h = "none" THEN @
                          ELSE Append(@, [h |-> h, r |-> r, n |-> size])]

(* ssh2_set_window once it has decided to open the window to newwin.       *)
OpenWindow(x, newwin) ==
    LET room == newwin - x.locwindow
        y == IF newwin = x.locmaxwin /\ "chokes" \notin x.bugs
             THEN [ssh2_chanreq_init(x, "winadj", "ssh2_handle_winadj_response", room)
                     EXCEPT !.throttle_state =
                              IF @ = "UNTHROTTLED" THEN @ ELSE "UNTHROTTLING"]
             ELSE [x EXCEPT !.remlocwin = newwin, !.throttle_state = "THROTTLED"]
    IN  [Push(y, Bytes("ADJUST", room)) EXCEPT !.locwindow = newwin]

ssh2_set_window(x, win) ==
    LET newwin == IF "maxpkt" \in x.bugs THEN Least(win, OUR_V2_WINSIZE) ELSE win
    IN  IF \/ {RCVD_EOF, SENT_CLOSE} \cap x.closes # {}
           \/ x.fixed
           \/ newwin \div 2 < x.locwindow
        THEN x
        ELSE OpenWindow(x, newwin)

ssh2_handle_winadj_response(x, size) ==
    [x EXCEPT !.remlocwin = @ + size,
              !.throttle_state = IF @ = "UNTHROTTLING" THEN "UNTHROTTLED" ELSE @]

(* ssh_throttle_conn, as its two callers use it.                           *)
ssh_throttle_conn(x, adjust) ==
    [x EXCEPT !.throttling_conn = (adjust > 0), !.throttle_count = @ + adjust]

(* Unthrottling that leaves the window shut.                               *)
ssh2channel_unthrottle_conn_only(x, bufsize) ==
    LET buflimit == IF x.simple THEN 0 ELSE x.locmaxwin
    IN  IF x.throttling_conn /\ bufsize <= buflimit THEN ssh_throttle_conn(x, -1) ELSE x

ssh2channel_unthrottle(x, bufsize) ==
    LET buflimit == IF x.simple THEN 0 ELSE x.locmaxwin
        y == IF bufsize < buflimit THEN ssh2_set_window(x, buflimit - bufsize) ELSE x
    IN  IF y.throttling_conn /\ bufsize <= buflimit THEN ssh_throttle_conn(y, -1) ELSE y

ssh2channel_window_override_removed(x) ==
    ssh2_set_window([x EXCEPT !.fixed = FALSE], OUR_V2_WINSIZE)
-----------------------------------------------------------------------------
(* The main session channel, ssh/mainchan.c.                               *)

ssh2_connection_got_user_input(x) ==
    IF x.user_input = 0 THEN x
    ELSE ssh2channel_write([x EXCEPT !.user_input = 0], x.user_input)

mainchan_special_eof(x) ==
    IF ~x.ready THEN [x EXCEPT !.eof_pending = TRUE]
    ELSE IF x.eof_sent THEN x
    ELSE [ssh2channel_write_eof(x) EXCEPT !.eof_sent = TRUE]

mainchan_ready(x) ==
    LET y == ssh2_connection_got_user_input([x EXCEPT !.ready = TRUE, !.reading = TRUE])
    IN  IF y.eof_pending THEN mainchan_special_eof([y EXCEPT !.eof_pending = FALSE]) ELSE y

AskMain(x, r) ==
    ssh2_chanreq_init([x EXCEPT !.req = @ \cup {r}], r, "ssh2_channel_response", 0)

(* Those of the optional requests that the configuration calls for.        *)
AskIf(x, r) == IF r \in x.config THEN AskMain(x, r) ELSE x
AskOptional(x) == AskIf(AskIf(AskIf(AskIf(x, "x11"), "agent"), "pty"), "env")

(* The command asked for before the rest.                                  *)
mainchan_open_confirmation_command_first(x) == AskOptional(AskMain(x, "primary"))

(* The hint that the channel is simple asks for no reply.                  *)
mainchan_open_confirmation(x) ==
    LET y == IF x.simple THEN ssh2_chanreq_init(x, "none", "none", 0) ELSE x
    IN  IF "direct-tcpip" \in x.config THEN mainchan_ready(y)
        ELSE AskMain(AskOptional(y), "primary")

(* ssh_sw_abort frees the connection layer under the handler that called.  *)
mainchan_request_response(x, success) ==
    IF x.req = {} THEN x
    ELSE LET r == First(x.req)
             y == [x EXCEPT !.req = @ \ {r}, !.got_pty = @ \/ (r = "pty" /\ success)]
         IN  IF r \notin {"primary", "fallback"} THEN y
             ELSE IF success THEN mainchan_ready(y)
             ELSE IF r = "primary" /\ y.has_fallback THEN AskMain(y, "fallback")
             ELSE Fail(y, "freed under handler")

mainchan_send_eof(x) ==
    IF ~x.eof_sent /\ (x.seat_eof \/ x.got_pty)
    THEN [ssh2channel_write_eof(x) EXCEPT !.eof_sent = TRUE, !.reading = FALSE]
    ELSE x

(* pfd_send_eof ends at the socket, and so does x11_send_eof once there is *)
(* one: until then, it answers with an EOF.                                *)
chan_send_eof(x) ==
    LET y == [x EXCEPT !.eofs = @ + 1]
    IN  CASE x.chan = "main"   -> mainchan_send_eof(y)
          [] x.chan = "zombie" -> x
          [] OTHER             -> IF x.x11 \in {"greeting", "refused"}
                                  THEN ssh2channel_write_eof(y) ELSE y

RunHandler(x, q, success) ==
    IF q.h = "ssh2_handle_winadj_response"
    THEN ssh2_handle_winadj_response(x, q.n)
    ELSE mainchan_request_response(x, success)
-----------------------------------------------------------------------------
(* ssh2_connection_filter_queue: one action per type of packet.            *)

Running == c.fault = "none"

(* Nothing in the code stops these orders; Unguarded says whether the      *)
(* user, the SSH socket or the X client avoids them.                       *)
Allowed(what) == what \in Unguarded

Take(t) ==
    /\ Running
    /\ rx # << >> /\ Head(rx).t = t
    /\ rx' = Tail(rx)
    /\ UNCHANGED peer

(* "Received %s for %s channel": a packet for a channel that is not open,  *)
(* or not half-open, as its type wants, is an error of the peer.           *)
Checked(life, y) == IF c.life # life THEN Fail(c, "protocol error") ELSE y

(* An X connection, accepted; its window is fixed if connection sharing    *)
(* might yet take the channel over.                                        *)
GotOpen(sharing) ==
    /\ Take("OPEN")
    /\ LET win == IF sharing THEN FixedWin ELSE c.locwindow
       IN  c' = [Push(c, Bytes("CONFIRMATION", win)) EXCEPT
                   !.life = "open", !.fixed = sharing, !.remwindow = RemWin, !.reading = TRUE,
                   !.locwindow = win, !.locmaxwin = win, !.remlocwin = win]

GotUnwantedOpen ==
    /\ Take("OPEN")
    /\ c' = [Push(c, Packet("REFUSAL")) EXCEPT !.life = "freed"]

chan_open_confirmation(x) ==
    CASE x.chan = "main" -> mainchan_open_confirmation(x)
      [] x.chan = "fwd"  -> [x EXCEPT !.ready = TRUE, !.reading = TRUE]
      [] OTHER           -> x

GotConfirmation ==
    /\ Take("CONFIRMATION")
    /\ LET x == ssh2_channel_check_close(
                  chan_open_confirmation(
                    [c EXCEPT !.life = "open", !.remwindow = Head(rx).n]))
       IN  c' = Checked("half",
                  IF x.pending_eof THEN ssh2_channel_try_eof(x) ELSE x)

(* mainchan_open_failure has the connection aborted by a callback.         *)
GotRefusal ==
    /\ Take("REFUSAL")
    /\ c' = Checked("half", [c EXCEPT !.life = "freed"])

(* The error an X client gets instead of a connection.                     *)
x11_send_init_error(x) == ssh2channel_write_eof(ssh2channel_write(x, 1))

(* An X client's greeting may be incomplete, bad or good; in the last case *)
(* the X server may be out of reach, which is known at once or later.  A   *)
(* socket that does get connected is not frozen.                           *)
Outcomes == {"greeting", "refused", "unreachable", "connected"}

x11_send(x, outcome) ==
    LET y == ssh2channel_window_override_removed(x)
    IN  CASE x.x11 = "unreachable" -> Fail(x, "second X connection")
          [] outcome = "greeting" -> x
          [] outcome = "refused" -> [x11_send_init_error(x) EXCEPT !.x11 = outcome]
          [] outcome = "unreachable" -> [x11_send_init_error(y) EXCEPT !.x11 = outcome]
          [] outcome = "connected" -> [y EXCEPT !.x11 = outcome, !.reading = TRUE]

(* The local end takes the data and reports what it has buffered, bufsize: *)
(* the backlog shrinks by a write only if there was none, and otherwise    *)
(* with a call of sshfwd_unthrottle.                                       *)
chan_send(x, n, bufsize, outcome) ==
    LET y == [x EXCEPT !.got = @ + n, !.backlog = bufsize]
    IN  IF x.chan = "zombie" THEN x
        ELSE IF x.x11 = "connected" THEN y
        ELSE x11_send(y, outcome)

GotData(bufsize, outcome) ==
    /\ Take("DATA")
    /\ IF c.chan = "zombie" \/ outcome # "connected" THEN bufsize = 0
       ELSE IF c.backlog > 0 THEN bufsize = c.backlog + Head(rx).n
       ELSE bufsize <= Head(rx).n
    /\ c.x11 = "connected" => outcome = "connected"
    /\ c.x11 = "refused" => outcome = "refused"
    /\ \/ Allowed("hasty client")
       \/ outcome \notin {"refused", "unreachable"}
       \/ \A i \in 2..Len(rx) : rx[i].t # "DATA"
    /\ LET n  == Head(rx).n
           x1 == chan_send([c EXCEPT !.locwindow = @ - n, !.remlocwin = @ - n],
                           n, bufsize, outcome)
           x2 == IF /\ x1.remlocwin <= 0
                    /\ x1.throttle_state = "UNTHROTTLED"
                    /\ x1.locmaxwin < WinCap
                 THEN [x1 EXCEPT !.locmaxwin = @ + OUR_V2_WINSIZE] ELSE x1
           x3 == IF bufsize < x2.locmaxwin
                 THEN ssh2_set_window(x2, x2.locmaxwin - bufsize) ELSE x2
       IN  c' = Checked("open",
                  IF /\ bufsize > x3.locmaxwin \/ (x3.simple /\ bufsize > 0)
                     /\ ~x3.throttling_conn
                  THEN ssh_throttle_conn(x3, 1)
                  ELSE x3)

(* An adjustment that does not restart the sending.                        *)
GotAdjust_ignored ==
    /\ Take("ADJUST")
    /\ c' = Checked("open", [c EXCEPT !.remwindow = @ + Head(rx).n])

GotAdjust ==
    /\ Take("ADJUST")
    /\ c' = Checked("open",
              IF SENT_EOF \in c.closes THEN c
              ELSE ssh2_try_send_and_unthrottle([c EXCEPT !.remwindow = @ + Head(rx).n]))

(* A request of the peer that wants a reply; what it asks for is for the   *)
(* local end to grant or not.                                              *)
GotRequest(success) ==
    /\ Take("REQUEST")
    /\ c' = Checked("open",
              IF SENT_CLOSE \in c.closes THEN c
              ELSE Push(c, Packet(IF success THEN "SUCCESS" ELSE "FAILURE")))

(* A reply that nobody sees was the last one outstanding.                  *)
GotReply_no_close_check(success) ==
    /\ Take(IF success THEN "SUCCESS" ELSE "FAILURE")
    /\ c' = Checked("open",
              IF c.chanreqs = << >> THEN Fail(c, "protocol error")
              ELSE LET x == RunHandler(c, Head(c.chanreqs), success)
                   IN  [x EXCEPT !.chanreqs = Tail(@)])

GotReply(success) ==
    /\ Take(IF success THEN "SUCCESS" ELSE "FAILURE")
    /\ c' = Checked("open",
              IF c.chanreqs = << >> THEN Fail(c, "protocol error")
              ELSE LET x == RunHandler(c, Head(c.chanreqs), success)
                   IN  ssh2_channel_check_close([x EXCEPT !.chanreqs = Tail(@)]))

GotEof ==
    /\ Take("EOF")
    /\ c' = Checked("open",
              IF RCVD_EOF \in c.closes THEN c
              ELSE ssh2_channel_check_close(
                     chan_send_eof([c EXCEPT !.closes = @ \cup {RCVD_EOF}])))

(* CHANNEL_CLOSE answers every outstanding request, the first of the list  *)
(* while there is one.  The failure of the primary command may add the     *)
(* fallback's request meanwhile, so there is one more turn.                *)
AnswerFirst(x) ==
    IF x.chanreqs = << >> THEN x
    ELSE [RunHandler(x, Head(x.chanreqs), FALSE) EXCEPT !.chanreqs = Tail(@)]

AnswerAll(x) ==
    LET after[k \in 0..(Len(x.chanreqs) + 1)] ==
            IF k = 0 THEN x ELSE AnswerFirst(after[k - 1])
    IN  after[Len(x.chanreqs) + 1]

(* CLOSE that repeats the EOF.                                             *)
ImpliedEof_always(x) ==
    chan_send_eof([x EXCEPT !.closes = @ \cup {RCVD_EOF}])

ImpliedEof(x) ==
    IF RCVD_EOF \in x.closes THEN x
    ELSE chan_send_eof([x EXCEPT !.closes = @ \cup {RCVD_EOF}])

OutgoingEof(x) ==
    IF SENT_EOF \in x.closes THEN x
    ELSE ssh2_channel_check_throttle(ssh2channel_write_eof([x EXCEPT !.outbuffer = 0]))

GotClose ==
    /\ Take("CLOSE")
    /\ LET x1 == ImpliedEof(c)
           x2 == IF "late" \in x1.bugs THEN x1 ELSE AnswerAll(x1)
           x3 == OutgoingEof(x2)
       IN  c' = Checked("open",
                  IF RCVD_CLOSE \in x3.closes THEN x3
                  ELSE ssh2_channel_check_close([x3 EXCEPT !.closes = @ \cup {RCVD_CLOSE}]))

ssh2_connection_filter_queue ==
    \/ \E b \in BOOLEAN : GotOpen(b) \/ GotRequest(b) \/ GotReply(b)
    \/ GotUnwantedOpen \/ GotConfirmation \/ GotRefusal
    \/ \E n \in 0..MaxIn, o \in Outcomes : GotData(n, o)
    \/ GotAdjust \/ GotEof \/ GotClose
-----------------------------------------------------------------------------
(* What the local end does of its own accord.                              *)

Local ==
    /\ Running /\ c.life \in {"half", "open"}
    /\ Len(c.tx) < MaxFlight
    /\ UNCHANGED <<rx, peer>>

(* ssh_send: input for the main channel, which goes straight to            *)
(* ssh2_connection_got_user_input.                                         *)
UserInput(n) ==
    /\ Local /\ c.chan = "main"
    /\ c.written + c.user_input + n <= SessionOut
    /\ Allowed("early input") \/ c.ready
    /\ Allowed("late input") \/ (c.reading /\ ~c.eof_sent)
    /\ c' = ssh2_connection_got_user_input([c EXCEPT !.user_input = @ + n])

(* SS_EOF, from the end of standard input or from the user.                *)
UserEof ==
    /\ Local /\ c.chan = "main"
    /\ ~c.eof_sent /\ ~c.eof_pending
    /\ c' = mainchan_special_eof(c)

(* ssh2_terminal_size, and the breaks and signals of mainchan_special_cmd. *)
Special ==
    /\ Local /\ c.chan = "main"
    /\ c.life = "open"
    /\ c.specials < MaxSpecials
    /\ Allowed("late special") \/ {SENT_CLOSE, RCVD_CLOSE} \cap c.closes = {}
    /\ c' = ssh2_chanreq_init([c EXCEPT !.specials = @ + 1], "none", "none", 0)

(* pfd_receive and x11_receive: data from the local socket.                *)
SocketData(n) ==
    /\ Local /\ c.chan \in {"fwd", "x11"}
    /\ c.reading /\ c.x11 = "connected"
    /\ c.written + c.lost + n <= MaxOut
    /\ ~c.eof_sent
    /\ c' = IF c.chan = "fwd" /\ ~c.ready THEN [c EXCEPT !.lost = @ + n]
            ELSE ssh2channel_write(c, n)

(* pfd_closing and x11_closing: the local socket has come to an end, or    *)
(* failed.                                                                 *)
SocketEof ==
    /\ Local /\ c.chan \in {"fwd", "x11"}
    /\ c.x11 = "connected" /\ ~c.eof_sent
    /\ c' = ssh2channel_write_eof([c EXCEPT !.eof_sent = TRUE])

(* x11_closing first sends the X client an error message, and EOF, if it   *)
(* has sent it nothing before.                                             *)
SocketError ==
    /\ Local /\ c.chan \in {"fwd", "x11"}
    /\ c.x11 = "connected"
    /\ LET silent == c.chan = "x11" /\ c.written = 0
           x == IF silent THEN x11_send_init_error(c) ELSE c
       IN  /\ silent /\ SENT_EOF \in c.closes => Allowed("late reset")
           /\ c.throttling_conn => Allowed("throttled reset")
           /\ c' = IF x.fault = "none" THEN ssh2channel_initiate_close(x) ELSE x

(* ssh2_stdout_unthrottle, pfd_sent and x11_sent.                          *)
Consume(bufsize) ==
    /\ Local /\ c.chan # "zombie"
    /\ bufsize < c.backlog
    /\ c' = ssh2channel_unthrottle([c EXCEPT !.backlog = bufsize], bufsize)

(* ssh_throttle_all, from ssh_bpp_output_raw_data_callback and ssh_sent.   *)
ssh2_throttle_all_channels(throttled) ==
    /\ Local
    /\ c.chan \in Congestion /\ c.all_throttled # throttled
    /\ Allowed("early unthrottle") \/ c.life = "open"
    /\ c' = ssh2_channel_check_throttle([c EXCEPT !.all_throttled = throttled])

LocalEnd ==
    \/ \E n \in 1..MaxOut : UserInput(n) \/ SocketData(n)
    \/ UserEof \/ Special \/ SocketEof \/ SocketError
    \/ \E n \in 0..MaxIn : Consume(n)
    \/ \E b \in BOOLEAN : ssh2_throttle_all_channels(b)
-----------------------------------------------------------------------------
(* The peer: external, and true to the protocol.                           *)

Reply(p) == rx' = Append(rx, p)

PeerTakes(t) ==
    /\ Running
    /\ c.tx # << >> /\ Head(c.tx).t = t
    /\ c' = [c EXCEPT !.tx = Tail(@)]

PeerOpens ==
    \/ /\ PeerTakes("OPEN")
       /\ \/ Reply(Bytes("CONFIRMATION", RemWin))
             /\ peer' = [peer EXCEPT !.state = "open", !.sendwin = c.locwindow]
          \/ Reply(Packet("REFUSAL")) /\ peer' = [peer EXCEPT !.state = "closed"]
    \/ /\ PeerTakes("CONFIRMATION")
       /\ peer' = [peer EXCEPT !.state = "open", !.sendwin = Head(c.tx).n]
       /\ UNCHANGED rx
    \/ /\ PeerTakes("REFUSAL")
       /\ peer' = [peer EXCEPT !.state = "closed"]
       /\ UNCHANGED rx

PeerGetsData ==
    /\ PeerTakes("DATA")
    /\ peer' = [peer EXCEPT !.got = @ + Head(c.tx).n, !.recvwin = @ - Head(c.tx).n]
    /\ UNCHANGED rx

PeerGetsAdjust ==
    /\ PeerTakes("ADJUST")
    /\ peer' = [peer EXCEPT !.sendwin = @ + Head(c.tx).n]
    /\ UNCHANGED rx

(* Replies come in the order of the requests.  After its CLOSE the peer    *)
(* sends none, unless it has the bug that "late" stands for; nobody grants *)
(* a winadj.                                                               *)
PeerGetsRequest(granted) ==
    /\ PeerTakes("REQUEST")
    /\ LET r == Head(c.tx).r
       IN  /\ granted => r # "winadj"
           /\ IF r = "none" \/ (peer.close /\ "late" \notin c.bugs)
              THEN UNCHANGED rx
              ELSE Reply(Packet(IF granted THEN "SUCCESS" ELSE "FAILURE"))
    /\ UNCHANGED peer

PeerGetsReply ==
    /\ PeerTakes("SUCCESS") \/ PeerTakes("FAILURE")
    /\ UNCHANGED <<rx, peer>>

PeerGetsEof ==
    /\ PeerTakes("EOF")
    /\ peer' = [peer EXCEPT !.gotEof = TRUE]
    /\ UNCHANGED rx

PeerGetsClose ==
    /\ PeerTakes("CLOSE")
    /\ peer' = [peer EXCEPT !.gotClose = TRUE, !.close = TRUE]
    /\ IF peer.close THEN UNCHANGED rx ELSE Reply(Packet("CLOSE"))

PeerHandles ==
    \/ PeerOpens \/ PeerGetsData \/ PeerGetsAdjust \/ PeerGetsReply
    \/ PeerGetsEof \/ PeerGetsClose
    \/ \E b \in BOOLEAN : PeerGetsRequest(b)

PeerMaySend ==
    /\ Running /\ peer.state = "open" /\ ~peer.close
    /\ Len(rx) < MaxFlight
    /\ UNCHANGED c

PeerSendsData(n) ==
    /\ PeerMaySend /\ ~peer.eof
    /\ n <= peer.sendwin /\ n <= peer.room
    /\ Allowed("hasty client") \/ c.x11 \notin {"refused", "unreachable"}
    /\ Reply(Bytes("DATA", n))
    /\ peer' = [peer EXCEPT !.sent = @ + n, !.sendwin = @ - n, !.room = @ - n]

PeerSendsAdjust(n) ==
    /\ PeerMaySend
    /\ n <= peer.grants
    /\ Reply(Bytes("ADJUST", n))
    /\ peer' = [peer EXCEPT !.grants = @ - n, !.recvwin = @ + n]

PeerAsks ==
    /\ PeerMaySend /\ peer.asks > 0
    /\ Reply(Request("asked"))
    /\ peer' = [peer EXCEPT !.asks = @ - 1]

PeerSendsEof ==
    /\ PeerMaySend /\ ~peer.eof
    /\ Reply(Packet("EOF"))
    /\ peer' = [peer EXCEPT !.eof = TRUE]

PeerSendsClose ==
    /\ PeerMaySend
    /\ Reply(Packet("CLOSE"))
    /\ peer' = [peer EXCEPT !.close = TRUE]

Peer ==
    \/ PeerHandles
    \/ \E n \in 1..MaxIn : PeerSendsData(n)
    \/ \E n \in 1..MaxOut : PeerSendsAdjust(n)
    \/ PeerAsks \/ PeerSendsEof \/ PeerSendsClose

Next == ssh2_connection_filter_queue \/ LocalEnd \/ Peer

Safe == Init /\ [][Next]_vars

(* The main loop processes what has arrived unless the connection is       *)
(* throttled (only ssh2_connection_filter_queue shortens rx); the peer     *)
(* handles what it gets; the local end works off what it has buffered.     *)
(* Nobody promises to send, to grant or to close.                          *)
Process ==
    /\ Running /\ c.throttle_count = 0
    /\ rx # << >> /\ rx' = Tail(rx)

Drain == \E n \in 0..MaxIn : Consume(n)

Spec == Safe /\ WF_rx(Process) /\ WF_vars(PeerHandles) /\ WF_vars(Drain)
-----------------------------------------------------------------------------
Closes == {SENT_EOF, SENT_CLOSE, RCVD_EOF, RCVD_CLOSE}

TypeOK ==
    /\ c.life \in {"none", "half", "open", "freed"}
    /\ c.closes \subseteq Closes
    /\ SENT_CLOSE \in c.closes => SENT_EOF \in c.closes
    /\ RCVD_CLOSE \in c.closes => RCVD_EOF \in c.closes
    /\ {c.outbuffer, c.remwindow, c.backlog} \subseteq Nat
    /\ c.chan \in Kinds \cup {"zombie"}
    /\ c.throttle_state \in {"THROTTLED", "UNTHROTTLING", "UNTHROTTLED"}
    /\ c.throttle_count \in 0..1
    /\ peer.recvwin \in Nat /\ peer.sendwin \in Nat

Total(w) ==
    LET sum[i \in 0..Len(w)] == IF i = 0 THEN 0 ELSE sum[i - 1] + w[i]
    IN  sum[Len(w)]

(* The bytes of the packets of type t in q.                                *)
Sizes(q, t) == Total([i \in 1..Len(q) |-> IF q[i].t = t THEN q[i].n ELSE 0])

(* The two ends agree on both windows, whatever is in flight: what we take *)
(* to be left of the peer's window is what the peer has, less our data on  *)
(* its way, plus its adjustments on theirs; and the same the other way.    *)
WindowsAgree ==
    c.life = "open" /\ peer.state = "open" =>
        /\ SENT_EOF \notin c.closes =>
             c.remwindow + Sizes(c.tx, "DATA") + Sizes(rx, "ADJUST") = peer.recvwin
        /\ c.locwindow = peer.sendwin + Sizes(rx, "DATA") + Sizes(c.tx, "ADJUST")

(* No data waits while the peer's window is open.                          *)
NothingHeldBack == c.life = "open" /\ c.remwindow > 0 => c.outbuffer = 0

(* The EOF the peer sees comes after every byte the local end wrote.  Only *)
(* a peer that has closed the channel itself may miss some.                *)
EofAfterData == peer.gotEof /\ ~peer.close => peer.got = c.written

(* What the local end writes goes out as the window allows, and before the *)
(* end.                                                                    *)
OutputComplete == NothingHeldBack /\ EofAfterData

(* The local end is told of the end of its input once, by CHANNEL_EOF or   *)
(* by CHANNEL_CLOSE, and after all that the peer has sent.                 *)
InputComplete ==
    /\ c.eofs <= 1
    /\ c.eofs = 1 /\ c.chan # "zombie" => c.got = peer.sent

(* CHANNEL_CLOSE is the last packet we send for a channel: the peer has    *)
(* forgotten the channel by the time anything else would arrive.           *)
CloseIsLast ==
    /\ \A i \in 1..Len(c.tx) : c.tx[i].t = "CLOSE" => i = Len(c.tx)
    /\ peer.gotClose => c.tx = << >>

(* The id of a channel is free for another once no packet can cite it.     *)
FreedIsForgotten ==
    c.life = "freed" /\ peer.state = "open" /\ Running =>
        /\ peer.close
        /\ rx = << >>

(* The closing handshake of RFC 4254, seen from both ends.                 *)
CloseHandshake == CloseIsLast /\ FreedIsForgotten

(* CHANNEL_SUCCESS and CHANNEL_FAILURE do not say what they answer: the    *)
(* requests mainchan believes to be outstanding, in the order in which it  *)
(* checks for them, are those on the channel's list.                       *)
RepliesMatched ==
    LET asked == {i \in DOMAIN c.chanreqs : c.chanreqs[i].h = "ssh2_channel_response"}
    IN  Running /\ c.chan = "main" =>
          /\ c.req = {c.chanreqs[i].r : i \in asked}
          /\ \A i, j \in asked :
               i < j => Rank[c.chanreqs[i].r] < Rank[c.chanreqs[j].r]

(* Neither an assertion of connection2.c fails, nor is a channel used      *)
(* after ssh2_channel_destroy, nor do we accuse the peer of an error.      *)
NoFault == c.fault \in {"none", "freed under handler"}

(* An open channel whose local end has taken all it got has some window.   *)
NotStarved ==
    /\ c.life = "open" /\ ~c.fixed /\ c.backlog = 0
    /\ {RCVD_EOF, SENT_CLOSE} \cap c.closes = {}
    => c.locwindow > 0

(* Once the peer has sent CHANNEL_CLOSE, the channel goes.                 *)
ClosedIsFreed == peer.close /\ peer.state = "open" ~> c.life = "freed" \/ ~Running

(* A channel whose local end has gone announces it, however many requests  *)
(* were outstanding.                                                       *)
ZombieCloses ==
    c.chan = "zombie" /\ c.life = "open" ~> SENT_CLOSE \in c.closes \/ ~Running

(* The closing of a channel, whoever begins it, comes to its end.          *)
ClosingEnds == ClosedIsFreed /\ ZombieCloses

(* Properties the code does not have.                                      *)

(* ssh2_chanreq_init "will enforce by assertion that we don't subsequently *)
(* put anything back on this list": no request follows CLOSE.              *)
NoRequestAfterClose == c.fault # "request after CLOSE"

(* ssh2channel_write asserts that the outgoing side is still open.         *)
NoWriteAfterEof == c.fault # "write after EOF"

(* "in case anything on the current call stack objects to this entire PPL  *)
(* being freed": the layer is not freed under a handler of its own.        *)
NotFreedUnderHandler == c.fault # "freed under handler"

(* "We don't want this channel to read further input if this particular    *)
(* channel has a backed-up SSH window".                                    *)
BacklogStopsInput ==
    c.life = "open" /\ c.chan # "zombie" /\ c.outbuffer > 0 => ~c.reading

(* "... or if the outgoing side of the whole SSH connection is currently   *)
(* throttled".                                                             *)
CongestionStopsInput ==
    /\ c.life = "open" /\ c.chan # "zombie" /\ c.x11 = "connected"
    /\ c.all_throttled
    => ~c.reading

(* x11_send asserts that it has no socket yet when it looks at a greeting. *)
NoSecondConnection == c.fault # "second X connection"

(* "Freeze the socket until the SSH server confirms the connection": no    *)
(* byte read from the local socket is thrown away.                         *)
NoInputLost == c.lost = 0

(* throttling_conn is "true if this channel is causing the underlying      *)
(* connection to be throttled": without such a channel, it is not.         *)
ThrottledByLiveChannel ==
    c.throttle_count > 0 => c.life = "open" /\ c.throttling_conn

(* remlocwin is "the amount of local window that we think the remote end   *)
(* had available": never more than we offered.                             *)
RemlocwinIsOffered == c.remlocwin <= c.locwindow
=============================================================================
