# ScoTTY: a TLA+ model of the terminal client's concurrent core

ScoTTY is KiTTY, a Windows fork of PuTTY 0.76: a terminal, an SSH-2 client with
port, X11 and agent forwarding, file transfer tools and a key agent. This
project models the parts in which several activities meet: the threads that
read and write Windows handles, the sockets built on them, the queue of
top-level callbacks and the timers that drive everything else, SSH-2 from the
key exchange to the channels, port forwardings and connections shared with other
processes, and the line buffers of the terminal. Paths below are relative to `src/0.76b_My_PuTTY/` unless they
begin with `src/`.

## The system

The program is one main loop (`windows/window.c`, `windows/cliloop.c`) that
waits for window messages, network events and the events of handle subthreads,
then runs the queued callbacks. Everything but the subthreads of
`windows/handle-io.c` happens on the main thread; concurrency elsewhere is the
interleaving of callbacks, of network input and of user input, and re-entrance:
a callback into a client may close, freeze or free the object that called it.

| Part | State | Operations | Hard because |
|---|---|---|---|
| Handle I/O, `windows/handle-io.c` | flags `busy`, `moribund`, `done`, `defunct`; two events; one buffer | new, write, write EOF, unthrottle, free, got event; the thread's read/write loop | a thread and the main loop share memory without a lock; frees from callbacks |
| Handle sockets, `windows/handle-socket.c` | `frozen` (four states), `inputdata`, deferred close, queued callbacks | freeze, thaw, write, EOF, close, receive | reads cannot be cancelled; plugs re-enter |
| Callbacks, `callback.c` | list of callbacks, `queued` of idempotent ones | queue, delete by context, run | callbacks queue and delete callbacks while one runs |
| SSH-2 channels, `ssh/connection2.c` | half-open, four close bits, two windows, buffers, outstanding requests, throttle flags | one handler per packet type, sshfwd_* calls from local ends | replies without names, close handshake, flow control in both directions |
| Main session, `ssh/mainchan.c` | outstanding set-up requests, ready, EOF sent or pending | set-up, fallback command, input, specials | user events at any time |
| Forwarded ports, `ssh/portfwd.c`; X11, `ssh/x11fwd.c` | socket, readiness, greeting | receive, sent, closing, send, EOF | sockets fail at any time; the X greeting decides late |
| Port forwarding manager, `ssh/portfwd.c`; global requests, `ssh/connection2.c`, `ssh/connection2-client.c` | forwardings, remote forwardings, outstanding requests | reconfigure, reply, incoming connection | replies without names; settings change while they are under way |
| Transport, `ssh/transport2.c`, `ssh/bpp2.c` | coroutine state, keys, compression, four packet queues, rekey timer, data limits | key exchange, rekey, reconfigure, packets in and out | either end may rekey at any time, against queued data and authentication |
| Sharing, `ssh/sharing.c` | per downstream: channels, half-channels, X channels, forwardings, requests | translation of ids, cleanup | a third process in every channel, which may die at any time |
| Timers, `timing.c`; keepalives, `pinger.c` | timers ordered by a wrapping tick count, live contexts, one window timer | schedule, expire, run; reconfigure | wrap, late messages, sleeping machine, reused addresses |
| Terminal, `terminal/terminal.c` | two screens, scrollback, margins, cursors, viewpoint | output, scroll, swap, erase, resize, reset, reconfigure | every operation moves lines between three trees under the user's viewpoint |
| SSH backend, `ssh/ssh.c` | layers, throttle count, raw buffers | start, send, throttle, abort, shutdown | frees everything, from anywhere |
| Pageant, SFTP, network sockets, proxies, telnet, logging, scripting | see `PROJECT.json` | | not modelled |

The calls between the modelled parts: a handle socket is the client of one
input and one output handle (`gotdata`, `sentdata`); it queues
`handle_socket_unfreeze` as a top-level callback; a channel's local end is the
plug of a socket, which the channel freezes (`chan_set_input_wanted`) and
throttles (`chan_send`'s result, `sshfwd_unthrottle`); a channel that buffers
too much throttles the whole connection (`ssh_throttle_conn`), and a congested
connection stops all local ends (`ssh2_throttle_all_channels`). The layers of SSH
hand packets to each other through queues whose idempotent callbacks run the
next layer: the connection layer and user authentication write to
`pq_out_higher`, which the transport releases after its NEWKEYS. The connection
layer passes packets for a downstream's channels, and the replies to its global
requests, to `sharing.c`, whose replies come back as packets to send. The pinger
and the transport are clients of `timing.c`, and `timing.c` of the one WM_TIMER
the window asks for.

## Modules

- `HandleGeneric` - the fields all handles share, `handle_free`,
  `handle_destroy`, the moribund branch of `handle_got_event`, and which events
  the main loop waits for. `alloc` says that the structure exists.
- `HandleInput` - an input handle. The variable `h` is the structure, `pc` the
  place of the subthread between two accesses to shared memory, `buf` the
  buffer, and `got`, `told` what the client has been given. Every access of the
  thread to the structure is a step of its own; a call on the main thread, the
  client's callback included, is one step, which is what the main loop makes
  it. `gotdata` may free the handle.
- `HandleInputSpec` - what a client may rely on: chunks in order while it is
  reading, stopped by backlog, ended or freed. No thread, no event.
  `HandleInput` is shown to implement it, and `HandleSocket` is built on it.
- `HandleOutput` - an output handle. A write may be partial, may fail, and may
  be overtaken by more writes, EOF and free, from `sentdata` as well.
  `handle_try_output` hands over any non-empty prefix, since the granularity of
  a buffer chain is not the client's.
- `HandleSocket` - a handle socket above `HandleInputSpec`: state `s` holds the
  socket, `ncb` the number of its callbacks in the queue. During
  `plug_receive` the plug may make any two calls in a row (freeze, thaw, write,
  EOF, close).
- `Callback` - the queue, with `cbcurr` for the running callback, so that
  queueing and deletion from within a callback are interleavings of the model.
- `Ssh2Channel` - one channel, its local end (`chan`: "main", "fwd", "x11" or
  "zombie"), the packets under way in both directions, and the peer. Handlers
  are operators from a channel to a channel and call each other as the
  functions do; one action per packet type and per local event. A failed
  assertion, a use of freed memory and a protocol error are recorded in
  `fault`, after which nothing happens.
- `Timing` - `schedule_timer`, `run_timers` (one step per turn of its loop, as
  the functions it calls schedule timers themselves), `expire_timer_context` and
  the window's timer. `tm` is what the file keeps in static variables. Each timer
  carries `left`, the true number of ticks until it is due, which the code can
  only infer from numbers that wrap.
- `Pinger` - composes `Timing` with two pingers, at addresses that are used
  again. It is where the timers are checked: `Timing` has no `Next` of its own.
- `PortFwdMgr` - the forwardings in force against the configuration, the remote
  forwardings and global requests of the connection layer, and a server that
  grants or refuses them and forwards connections. Entries of the configuration
  are numbers; `TypeOf` and `Src` give their types and source ports.
- `Transport2` - both ends of a connection, running the same code, joined by
  FIFO byte streams. A packet on the wire carries the key and the compression it
  was written under, and can be read only under the same. One step of a
  coroutine goes from one packet to the next; user authentication and the
  connection layer are reduced to the packets they send and receive.
- `Terminal` - the screens, scrollback, margins, cursors and viewpoint. A line is
  0 when it is blank and else the number of the text last written to it. Where
  the code looks at the column, the remote, which can set it, chooses. Operators
  from a terminal to a terminal call each other as the functions do.
- `Sharing` - the upstream's connstates `ds`, the connection layer's tables
  `conn`, the server `srv` and its messages `q`. Handlers pass a record of all of
  it along. `orders` is history: which orders of global requests there have been,
  which `FaultHasCause` names as causes. A downstream sends what a client of the bare protocol may send.
- `HandleInputProofs`, `HandleOutputProofs`, `HandleSocketProofs`, `CallbackProofs`,
  `PingerProofs`, `PortFwdMgrProofs`, `Ssh2ChannelProofs`, `TerminalProofs` - theorems
  and proofs, see below.
- `MC*` - the modules TLC runs.

In each module an operator called `x_something` just before an operator `x` is
a plausible mistake in `x`; no specification uses it. It documents what the
properties are sensitive to.

### What `Unguarded` means

Several modules show orders of events that the code does not prevent and does
not survive (see the disagreements below). Beyond such an event the
specification has little more to say, since the program has stopped or its
tables are wrong. So that the other properties can be checked beyond them, the
constant `Unguarded` lists the orders that may happen in a run, and an empty set
says that user, sockets, server and downstreams happen to avoid them. Nothing in
the code sees to that, and several of them are ordinary use. The run and the theorems
of `PortFwdMgr` therefore avoid none, and the run of `Sharing` lets four happen: they
say what holds up to the fault, and what each fault comes from (`FaultHasCause`).

| module | member | event |
|---|---|---|
| `Ssh2Channel` | "early input" | input before the session is ready |
| | "late input" | input while the session does not want any, or after its EOF |
| | "late special" | a resize, break or signal between our CLOSE and the peer's |
| | "late reply" | a server answers the session's requests after its CLOSE |
| | "early unthrottle" | congestion begins or ends while the channel is half-open |
| | "late reset" | an X socket fails after it has reported EOF, nothing having been sent |
| | "throttled reset" | a local socket fails while its channel throttles the connection |
| | "hasty client" | an X client sends more after a greeting that led to no connection |
| `Pinger` | "same end" | a pinger's timer ends in the same tick as one left by a former object at its address |
| `PortFwdMgr` | "second batch" | a remote forwarding is asked for when all earlier requests have been answered |
| | "outstanding" | a forwarding is removed before its request has been answered |
| | "duplicate" | two entries ask for the same remote port |
| | "unasked" | the server forwards a port before any was asked for |
| `Transport2` | "not started" | a rekey is asked for before the higher layer has been started |
| | "authenticating" | a rekey is asked for while delayed compression waits for authentication |
| | "forgotten" | a rekey is asked for while USERAUTH_SUCCESS waits for the authentication layer |
| | "between newkeys" | a higher layer sends between our NEWKEYS and the peer's |
| `Terminal` | "reset" | a full reset on the alternate screen |
| | "reconfigured" | `erase_to_scrollback` changes on the alternate screen while it is scrolled back |
| `Sharing` | "second request" | a downstream makes a global request before the reply to its last |
| | "refused open" | the server refuses a channel whose downstream has gone |
| | "cancelled" | a downstream goes while its cancellation is unanswered |
| | "refused cancel", "refused forward" | the server refuses such a request |
| | "x channel" | a downstream goes while an X connection for it is being set up |
| | "closed x" | an X connection is confirmed by the downstream after the server has closed it |
| | "disconnect" | a downstream says goodbye with SSH2_MSG_DISCONNECT and leaves nothing to wait for |

## Runs that pass

| run | shows | bounds |
|---|---|---|
| `handle_input` | no use after free; chunks once and in order, stopped only by backlog, end reported once (`ClientView`); every read reported and a thread asked to die does (`HandshakeCompletes`); refinement of `HandleInputSpec` | 3 chunks; backlogs below, at and above a limit of 2 |
| `handle_output` | no use after free; bytes in order and once, EOF after data (`WriterView`); queue drained | 4 bytes in calls and writes of every size |
| `handle_socket` | assertions of `handle_gotdata`, no callback for a freed socket (`SocketSound`); order, never stuck (`PlugView`); thawed data delivered | 4 chunks, 3 stale callbacks |
| `callback` | no callback for a dead context; order, idempotence, no lost request (`QueueKept`); progress | 2 contexts, 3 idempotent callbacks, 4 queued |
| `ssh2_channel` | replies matched, end of input told once and complete, windows agree, output neither held back nor overtaken by EOF, CLOSE last and freed means forgotten, no fault | session, forwarded port and X11; up to two bytes each way, window of 1 or 2, congestion while a port is forwarded and after, late repliers |
| `ssh2_closes` | never starved; a channel closed by the peer is freed and a zombie closes (`ClosingEnds`) | all kinds, two bytes in, no window out, three server bugs |
| `pinger` | a ping waited for has its timer and the window's (`PingIsComing`); no timer early or out of order (`RunWhenDue`); pinging goes on | 2 addresses, intervals 0 to 2, tick count modulo 14, sleep of 2 ticks, two timers |
| `portfwdmgr` | in all orders of events: each use of freed memory has its one cause (`FaultHasCause`); up to it requests match replies; each port has the configured destination; server and client agree at rest | a local and three remote entries, two on one port; 3 configurations, 3 messages each way |
| `transport` | no protocol error between two ends; higher layers' packets held back during an exchange and only then; every exchange completes; settings take effect | 2 requested rekeys, one data packet, one refused authentication, delayed compression |
| `terminal` | trees, margins and cursors consistent; view on existing lines; view stays on its text; erased text kept | 2 or 3 rows, 1 or 2 lines of scrollback, 2 pieces of text, three combinations of settings |
| `sharing` | with a lenient and a strict server, second requests, cancellations outstanding or refused, and DISCONNECT: each fault has its cause (`FaultHasCause`); up to it tables of downstream, connection and server agree; nothing of a gone downstream is left; its state is freed | 2 downstreams that are alike, one port, 3 ids, 5 requests, 2 messages on their way |

Why the bounds are enough to be interesting: three chunks let a chunk be
delivered, one be in the buffer and one be read; four bytes give partial writes
of a second buffer; two bytes against a window of one force every wait for
WINDOW_ADJUST; two packets in flight put data, an adjustment and a close in every
order. A tick range of 14 is more than twice the longest delay, lateness and
slack together, as 2^32 is in the program, and the clock starts just before the
wrap as well as at 0. Three configurations let a port be given to another
destination and back while requests are under way, or be asked for after all earlier
requests have been answered. Two rekeys can meet from both
ends, follow each other or be deferred; the first exchange comes before them.
Two window sizes make every resize both ways and leave a scrollback of one line,
full after one scroll; two texts tell order. Three ids and five requests give
each downstream a channel and a forwarding, and an id that is used again.

The unbounded quantities are bounded in the guards by `MaxReads`, `MaxBytes`,
`MaxQueued`, `MaxCallbacks`, `MaxOut`, `MaxIn`, `SessionOut`, `SessionIn`,
`MaxSpecials`, `MaxAsks`, `MaxFlight`, `MaxTimers`, `MaxLate`, `MaxDelay`,
`MaxConfig`, `MaxRekeys`, `MaxData`, `MaxFailures`, `MaxText`, `MaxChannels`,
`MaxQueue` and `MaxRequests`. Deadlock is not checked: in each model the clients
may do nothing more and the bounds stop them.

`NoFault` of `Ssh2Channel` allows the fault "freed under handler" (below). In
`ssh2_closes`, "throttled reset" is left out: a connection throttled for good
would stop the closing handshake too. The type invariants of `HandleInput`,
`HandleOutput`, `HandleSocket`, `Callback`, `Ssh2Channel`, `Pinger` and
`PortFwdMgr` are stated in the modules and hold under the same configurations,
which leave them out to keep the suite small; all are proved.

## Runs that show a disagreement

| run | what happens |
|---|---|
| `terminal_reconfig` | on the alternate screen the main screen's lines count as scrollback only while `erase_to_scrollback` is on; a user who has scrolled back to them and turns it off is left above the first line that exists, and the next redraw ends in `lineptr`'s "line==NULL" error (`terminal/terminal.c:1797`, against :1185) |

### Disagreements without a run of their own

The modules state further properties that comments and assertions of the code
promise and the code does not keep, and others that it keeps only while the
orders above are avoided. With the constants below, the others as in the
module's passing run (`Ssh2Channel.cfg` for `Ssh2Channel`), TLC reports each of
them violated under `Safe` or `Spec`.

| module | property | constants | what happens |
|---|---|---|---|
| `HandleInput` | `EofDisposes` | | a handle freed during a read that ends in EOF or an error is never destroyed: the moribund branch asks a thread to die that has exited (`windows/handle-io.c:633`, against :169) |
| `HandleOutput` | `DefunctIsIdle` | | `handle_write` after a write error marks the handle busy for ever, so that `handle_free` never frees it (`windows/handle-io.c:519`, against :63 and :589) |
| `HandleSocket` | `FrozenReceivesNothing` | | a socket frozen from within `plug_receive` while it thaws goes on receiving (`windows/handle-socket.c:189`, against `network.h:194`) |
| | `IncomingStaysOpen` | | EOF on a socket with one bidirectional handle closes both directions (`windows/handle-socket.c:156`, against `windows/handle-io.c:533`) |
| `Ssh2Channel` | `NoWriteAfterEof` | "late input" | input after the session's EOF reaches the assertion of `ssh2channel_write`: nothing in the sending path looks at `want_user_input` (`ssh/connection2.c:1736`, against :1415) |
| | `NoWriteAfterEof` | "late reset" or "hasty client" | an error message follows the EOF (`ssh/x11fwd.c:710` and :998, against the same assertion) |
| | `NoRequestAfterClose` | "late special" | a resize, break or signal between our CLOSE and the peer's reaches the assertion of `ssh2_chanreq_init` (`ssh/connection2.c:1648`, against :1343) |
| | `NoInputLost` | "early unthrottle" | congestion that ends before a forwarded connection is confirmed unfreezes its socket, and what is read is dropped (`ssh/portfwd.c:632`, against :408) |
| | `ThrottledByLiveChannel` | "throttled reset", `MaxIn = 3` | a channel destroyed while it throttles the connection leaves it throttled (`ssh/connection2.c:1228`, against `ssh/connection2.h:88`); `ClosingEnds` then fails too |
| | `NoFault` | "late reply", "main" | the refusal of the primary command, after our CLOSE, sends the fallback's request (`ssh/mainchan.c:298`, against the assertion at `ssh/connection2.c:1343`) |
| | `NothingHeldBack` | "early input", "late input" | input before OPEN_CONFIRMATION waits for the next write or adjustment (`ssh/connection2.c:497`) |
| | `NotFreedUnderHandler` | | a refused command frees the connection layer under the handler that reports it (`ssh/mainchan.c:298`, against `ssh/connection2.c:1240`) |
| | `BacklogStopsInput` | | `throttled_by_backlog` is never set, so a backed-up channel's socket is still read (`ssh/connection2.c:1176`, against :1184) |
| | `CongestionStopsInput` | | a socket made during congestion is read at once (`ssh/x11fwd.c:1025`) |
| | `NoSecondConnection` | "hasty client" | data after a failed connection is taken for a greeting (`ssh/x11fwd.c:1032`, against the assertion at :984) |
| | `RemlocwinIsOffered` | `OUR_V2_WINSIZE = 4`, `MaxIn = 7` | a partial reopening during an outstanding winadj is counted twice (`ssh/connection2.c:948` and :874) |
| `Pinger` | `PendingHasTimer` | "same end" | a timer that equals one of a dead object at the same address is not added, and its context not registered: the ping never comes (`timing.c:133`) |
| `PortFwdMgr` | `NoFault` | "second batch" | `globreq_tail` points to a freed request once the list has emptied, and a forwarding asked for later is appended to it (`ssh/connection2.c:373`, against `ssh/connection2.h:45`) |
| | `NoFault` | "duplicate" | the record of a remote forwarding that duplicates another is freed and stays in the tree, where the next configuration reads it (`ssh/portfwd.c:1080`, against :980) |
| | `NoFault` | "outstanding" | the reply to the request of a removed forwarding finds its record freed (`ssh/connection2-client.c:274`) |
| | `NoFault` | "unasked" | a forwarded connection before any forwarding was asked for uses a tree that does not exist (`ssh/connection2-client.c:55`) |
| | `KeptIsRunning` | | a listener that could not be opened is kept as if it ran, and not tried again (`ssh/portfwd.c:1034`) |
| `Transport2` | `KexCompletes` | "authenticating", `MaxRekeys = 1` | a KEXINIT behind a userauth packet is held back with the rest of the output until the reply, which waits for the exchange (`ssh/bpp2.c:968`) |
| | `NoProtocolError` | `Servers = {"own"}` | the server side does not set `seen_userauth_success`, so after a rekey it compresses later than its peer (`ssh/bpp2.c:646`) |
| | `NoProtocolError` | "not started", `Offers = {"zlib"}` | a KEXINIT arrives where the coroutine expects the answer to its service request (`ssh/transport2.c:1580`) |
| | `ConfigTakesEffect` | "forgotten", `Offers = {"zlib"}` | `ssh2_transport_notify_auth_done` overwrites the class of the rekey that was asked for, which is then dropped (`ssh/transport2.c:1643`) |
| | `NothingHeldBack` | "between newkeys" | a packet queued between the two NEWKEYS stays queued until another callback runs the coroutine (`ssh/transport2.c:1486`) |
| `Terminal` | `ErasedIsKept`, `ViewStays` | "reset" | `power_on` forgets that the alternate screen is shown, and takes it for the main one from then on (`terminal/terminal.c:1369`) |
| `Sharing` | `NoFault` | `Servers = {"strict"}` | a CHANNEL_OPEN handed to a downstream stays at the head of the queue, is read again past its end and answered with OPEN_FAILURE for id 0 (`ssh/connection2.c:405`, against :394), which this program's own connection layer calls a protocol error (:472) |
| | `NoFault` | "second request" | the `globreq_tail` of a downstream is never set, so that a second request takes the place of the first and the second reply finds the list empty (`ssh/sharing.c:1396`, against the assertion at :1185), or the connstate freed |
| | `NoFault` | "cancelled", "refused cancel" | the cleanup cancels, and frees, a forwarding whose cancellation is outstanding or was refused |
| | `NoFault` | "disconnect" | `share_receive` resets its buffer in a connstate that the DISCONNECT has freed |
| | `DeadIsFreed` | "refused open" | OPEN_FAILURE does not try the cleanup again (`ssh/sharing.c:1264`) |
| | `NothingLeft` | "refused forward" | the connection layer's record of a refused forwarding stays (`ssh/sharing.c:1188`) |
| | `TablesAgree` | "x channel", "closed x" | the cleanup does not look at X channels; a channel the server has closed is recorded as open |

For `Sharing` the others are `Unguarded = {}` and the lenient server. A server of
`Sharing` takes a refusal of a channel that is not half-open for an error
(`SrvRefuse`), as `ssh/connection2.c:472` does; the lenient one ignores the refusal of
id 0 and no other. It is there because under the strict one no behaviour gets past the
first forwarded connection. The orders of the last three rows
break what the other properties of `sharing` say, so the run leaves them out.

Two more are outside the models: `ssh2_transport_reconfigure` takes the new data
limit from `s->conf` before it replaces it (`ssh/transport2.c:2079` and :2116),
and `term_size` deletes a line of text at the bottom when the cursor is above it
(`terminal/terminal.c:2290`).

### Hazards without a property

`PROJECT.json` lists the hazards that a property covers. Known ones that none
does: those of the table above, where the code does not have the property; a
`CreateThread` that fails, which no operation of `windows/handle-io.c` reports
(:454), so that there is no promise to check; a source read with
HANDLE_FLAG_IGNOREEOF at its end, which is read again at once and for ever (:165),
and of which `HandshakeCompletes` does not speak; and a ZMODEM transfer, during
which `windows/window.c:1969` skips the queued callbacks for as long as handle
events keep arriving, against the fairness `EventuallyRun` assumes.

## Fairness

`HandleInput` and `HandleOutput`: the scheduler runs a subthread that can go on
(`Handshake`, `Subthread`), and the main loop serves a signalled event
(`GotEvent`). Nothing promises that a read returns, so `ReadData` is not fair; a
write is assumed to complete. `HandleSocket` and `Callback`: the main loop runs
queued callbacks on every turn. (During a ZMODEM transfer `windows/window.c`
line 1969 skips them; that is listed as a hazard.) `Ssh2Channel`: packets that
have arrived are processed unless the connection is throttled, the peer handles
what it gets, and the local end works off its buffer. `Pinger`: time passes, and
the main loop handles WM_TIMER and runs `run_timers` to its end. `Transport2`: the
event loop of each end runs its callbacks and reads its socket, and dialogues and
prompts, which come one at a time, are answered (`Answer`). No fairness is assumed
for anything else that a user, a client or the peer does of its own accord.
`PortFwdMgr`, `Terminal` and `Sharing` have safety properties only; `DeadIsFreed`
states the absence of a dead end as an invariant instead.

## Proofs

Eight modules of proofs go with eight components. Each states an inductive invariant
`Inv`, proves that `Init` implies it and every action keeps it, with a lemma per
action, and draws the theorems from it. TLC had checked each invariant, or all of
it that it can evaluate, on the instance of the run. The theorems are about every
value of the constants, and so about any number of bytes, callbacks, timers or
configurations: the bounds of the runs are constants, too.

| module | theorems | on the condition |
|---|---|---|
| `HandleInputProofs` | `NoUseAfterFree`, `ClientView`, `TypeOK`, refinement of `HandleInputSpec` | |
| `HandleOutputProofs` | `NoUseAfterFree`, `WriterView`, `TypeOK` | |
| `HandleSocketProofs` | `SocketSound`, `PlugView`, `TypeOK` | |
| `CallbackProofs` | `NoDeadContext`, `QueueKept`, `TypeOK` | |
| `PingerProofs` | `RunWhenDue` (an action property), `TypeOK`; `PingIsComing` | none for the first two; `"same end" \notin Unguarded` for the last |
| `PortFwdMgrProofs` | `FaultHasCause`, `RequestsMatchReplies`, `ServerAgrees`, `ForwardedAsConfigured`, `TypeOK` | |
| `Ssh2ChannelProofs` | `RepliesMatched`, `InputComplete`, `WindowsAgree`, `OutputComplete`, `CloseHandshake`, `NoFault`, `TypeOK`; `NotStarved` | `Orderly`; for the last `Roomy` as well |
| `TerminalProofs` | `Consistent`; `ViewInRange`; the action properties `ViewStays` and `ErasedIsKept` | none; `"reconfigured" \notin Unguarded`; neither `"reset"` nor `"reconfigured"`; `"reset" \notin Unguarded` |

The other assumptions are the named ones on the constants in each component's
module, which TLC evaluates in its run: numbers are natural, a backlog limit is
positive, the entries of a configuration are a finite set of numbers, `ICtx` gives
each idempotent callback a context, and the tick range is even and more than
twice the longest delay, lateness and slack together. A condition on `Unguarded`
says which events of the table above do not happen. "same end" breaks
`PendingHasTimer`, as the disagreements above show. `Orderly` says that of the events of
`Ssh2Channel` only "early unthrottle" and "throttled reset" may happen; the other
six break `NoFault`, or `NothingHeldBack`, which is half of `OutputComplete`. `Roomy`
says that all that comes in is less than the window of a simple channel: the only
bound on data in a theorem, and the real OUR_V2_BIGWIN is 2^31 - 1. "reconfigured"
breaks `ViewInRange` in the run `terminal_reconfig`, and "reset" both action
properties of `Terminal`. No theorem about `Terminal` limits the sizes of the
window and the scrollback, the settings or the length of the session.

**Input handles.** Whether the main thread may destroy the structure depends on
where the thread is, and nothing in the flags alone says so. `Inv` adds the
protocol of the two events, by the place of the thread: while it is working both
events are clear and `busy` holds; while it waits, exactly one of "result to
collect", "told to go on" and "idle" holds, and `busy` tells which; when it has
been woken the events are clear; `done` is set only with `moribund`; once it has
exited only its last signal is left. `Data` ties the buffer to `nread` and `got`
by the same cases. The refinement maps the flags to the four states of
`HandleInputSpec` (`AbsState`); `StepRefines` shows that the thread's steps
stutter and each main-thread step is the abstract step of the same name.

**Output handles.** The same protocol (`Working`, `Waiting`, `Woken`, `Life`), and
the bytes: the block in flight is the head of the queue and the next to be
written (`Block`), and what is written and what is queued add up to what was
given, apart from a write that has ended unheard (`Queue`). The functions call
each other, and `sentdata` calls the client, on a structure that is half updated,
so the parts speak of any structure; `handle_try_output` and the client's calls
are lemmas about it.

**Handle sockets.** `Sound` says what is true of a socket between two operations:
it is throttled exactly while it keeps data, one that is thawing has a callback
queued, one that the plug wants thawed is not frozen. `Draining` is what is left
of it while `handle_socket_unfreeze` passes data on and the plug makes calls.

**Callbacks.** `Ordered` numbers the queue and what has run; `Once` relates
`queued` of an idempotent callback to its place in the queue. The lemma
`Unlinked` says which list `delete_callbacks_for_context` leaves.

**Timers.** `Tree` says of each timer that the ticks left, inferred from wrapping
numbers, are the true ones, and that not more ticks have gone by since the tree
was last used than since the timer was set; the lemmas `TimerTicks` and
`FirstIs` make of it that the order of the tree is that of the ticks left and that
`Reached` asks whether there are any. `Awake` says of every timer, of an expired
context as well, that the window will look at it, which is what
`timer_change_notify` for the first one keeps up; `PingIsComing`, which speaks of
the active ones, is not inductive without. `Timely` is the part that needs no
condition, `Serving` the part about pingers.

**Port forwardings.** The heart is `Matched`: the ports of the answers and of the
requests under way, put together, are those of the outstanding requests, in
order. It is stated with witnesses instead of counts, proved for each way in
which a queue changes, and turned into the counting of `RequestsMatchReplies` at
the end. `Settled` follows each port of the server through the messages that are
going to open or close it; it holds as long as every outstanding request still has
its record (`Recorded`), and once one has lost it, its answer is the last that is
looked at. `FaultHasCause` is told from `Caused`, which is true between
actions whatever happens: a request has lost its record only if a later configuration
took it, the freed tail is there only when no request is, and the tree is missing only
as long as nothing was asked for. That a freed record has another entry of its port
beside it is part of `ForwardedAsConfigured`. No theorem assumes anything about
`Unguarded`, and each cause is a condition on the state that the code meets. The set of new entries is walked in order (`Sorted`);
that a finite set of numbers can be listed is proved by taking the smallest set
that cannot.

**SSH-2 channels.** A packet runs through half a dozen functions that pass a channel
to each other, so the invariant is `Good(x, r, p, w, e)`, of any channel `x`,
packets `r` on their way to it and peer `p`, in the midst of a handler too: `w` is
the number of requests that are being answered, none or one, and `e` says that the
local end is about to be told that it has to stop. Each function has a lemma that
takes `Good` from the channel it gets to the channel it returns, and says in `Keeps`
which fields it leaves alone. `Good` consists of `Phase` (how far the opening has
come, from the packets on their way), `Incoming` and `Outgoing` (what ends a
direction, and that the bytes taken, on their way and kept back add up to the bytes
sent), `Windows` (what each end takes the windows to be, against the data and
adjustments on their way), `Listed` and `Awaited` (what mainchan waits for is on the
channel's list, in order, and every reply on its way finds a request there),
`Forgotten` (who can still cite a channel that is gone) and `Knows` (what the close
bits say about the local end). Between two actions, `Between` adds that no data waits
while there is window (`Sent`), that a CLOSE the peer has sent is on its way or has
come (`Closing`), and, if `Roomy`, that the window is open again (`Reopened`). None
of the properties is inductive by itself: that data never exceeds the peer's window
needs the order of the opening, that a reply finds its request needs to know who has
closed, and that nothing comes for a freed channel needs all of `Incoming`. The sums
over a queue are recursive functions; the lemmas `Sizes...` say what they become when
a packet is sent or taken.

**Terminal.** Handlers are chains of operators from a terminal to a terminal, so each
operator has lemmas about any terminal: it leaves it well-formed (`Well`: the type, the
buffers, the cursors, the margins) and a view that exists on lines that exist
(`Viewed`). In the middle of `power_on` the second does not hold, as the alternate
screen has been taken for the main one: `Viewable` is what `swap_screen` needs to put
it right. That the top of the window keeps its text is not a matter of line numbers
alone, as `ViewStays` asks for the text: a text shown could be lost and a copy of it
be elsewhere above the screen. So `Inv` adds that no text is in two lines (`Distinct`),
which each operator keeps (`Lasts`); then `Carries` says that a text at the top of a
view of the scrollback stays there or is nowhere, and `Still` that nothing above the
alternate screen changes while it is shown. For `ErasedIsKept`, `Saves` says that the
text of the main screen, with its scrollback, is what it was but for a part at the
beginning, and that such a part is lost only when the scrollback is full; it is
handed on from operator to operator (`SavesOn`), and its core is one turn of `scroll`'s
loop (`FirstLineOut`, `LineGoesUp`). The loops of `scroll` and `term_size` and the text
of a run of lines are recursive functions; `TurnsExist`, `TurnByTurn` and `TextsJoin`
reason about them by the least turn that goes wrong.

Only model-checked, and why:

- Liveness, and refinements under fairness: out of reach of the prover.
- `Transport2` and `Sharing`: no proof yet. Their handlers pass large records to each
  other, and `Sharing` also folds over sets and queues, about which each lemma needs
  an induction. Induction is to be had only as in `PortFwdMgrProofs`,
  `Ssh2ChannelProofs` and `TerminalProofs`, by a minimal counterexample (`WFMin`), since
  the theorems of the library that take a predicate cannot be instantiated.
- The theorems of `Pinger`, `Ssh2Channel` and `Terminal` say nothing about the orders
  of events that the conditions above exclude, and no passing run lets these happen.

## What the models leave out

- `HandleInput`: overlapped and plain reads are one step; chunk sizes. Foreign
  handles.
- `HandleSocket`: the stderr handle, and the sizes of writes.
- `Ssh2Channel`: several channels, channels other than a session, a direct-tcpip
  forwarding and X11; extended data and `errbuffer`; splitting by `remmaxpkt`;
  exit status and exit signal; SOCKS; the termination callback after the last
  channel.
  Specials while the channel is half-open are left out as the front end offers
  none before a session has started.
- `Timing`: the function pointer of a timer, as pingers have one function.
- `PortFwdMgr`: the parsing of settings, listening addresses and address
  families; the server test program's `portfwdmgr_listen`.
- `Transport2`: the cryptography, GSS key exchange, EXT_INFO, guessed packets,
  IGNORE packets, EOF and error handling of the packet protocol; host keys are
  one question to the user.
- `Terminal`: columns, attributes, character sets, selection, bidirectional text,
  mouse and printing; the parsing of escape sequences.
- `Sharing`: data and windows; the version exchange on the local socket; the
  upstream's own channels.

## Not modelled

The parts listed `not_modelled` in `PROJECT.json`, with reasons. They are of three
kinds. Much of the repository, and the reason why the mapped lines are a small
part of it, is code without a state that outlives a call or with nothing but I/O
on one side: cryptography, character set tables, key file formats, dialog boxes
and their settings, drawing, the registry, KiTTY's launcher and window extras,
ZMODEM's protocol; tests serve it better. SSH-1, Rlogin, SUPDUP and the server
test programs repeat in other words what is modelled. The rest is stateful and
in the plan below.

## Plan

The suite is kept to a dozen runs and forty properties, so that it stays quick: as
components are added, their runs take the place of plainer ones, and
disagreements move to the second table.

Done and proved: handle I/O, handle sockets and callbacks; timers and keepalives;
the forwarding manager and global requests; one SSH-2 channel with its local ends;
the terminal's line buffers. Done: transport and key exchange; connection sharing.
Left, in this order:

1. Theorems about `Transport2` (`NoProtocolError`, `QuietDuringKex`) and `Sharing`
   (`TablesAgree`).
2. Several channels by id over an abstract channel (a FIFO with close, which
   `Ssh2Channel` should implement), the throttle count and the termination check,
   and `ssh.c`'s shutdown and deferred abort.
3. Pageant (deferred decryption, queued requests), agent forwarding, the SFTP
   transfer queues, the SOCKS negotiation.
4. Network and proxy sockets, as implementations of one abstract socket with
   freezing; telnet options; the line discipline; the script engine; logging.
