----------------------------- MODULE HandleSocket -----------------------------
(***************************************************************************)
(* windows/handle-socket.c: a PuTTY Socket on top of an input handle       *)
(* (the promise of HandleInputSpec, which HandleInput implements), an      *)
(* output handle and the top-level callback queue.                         *)
(*                                                                         *)
(* A read in progress cannot be interrupted, so freezing the socket takes  *)
(* four states; and the plug (the socket's user) may re-enter the socket   *)
(* from within plug_receive.  The socket is the record s, the socket       *)
(* operations are operators on it, and the plug's re-entrant calls are     *)
(* compositions of them.                                                   *)
(***************************************************************************)
EXTENDS HandleInputSpec

VARIABLES
    s,          \* the HandleSocket structure
    received,   \* the chunks passed to plug_receive
    closing     \* plug_closing has been called

vars == <<st, got, s, received, closing>>

ASSUME BacklogAssumption == MAX_BACKLOG \in Nat \ {0}

INT_MAX == MAX_BACKLOG

(* frozen, inputdata, defer_close, deferred_close as in the code, and:     *)
(*   live     the structure exists (sk_handle_close frees it)              *)
(*   ncb      handle_socket_unfreeze callbacks queued for this socket      *)
(*   want     the plug's last sk_set_frozen, for the properties            *)
(*   bidir    send_H = recv_H, as for both ends of a named pipe            *)
(*   sendq    data is queued or in flight on the output handle             *)
(*   sendeof  the output handle's outgoingeof                              *)
(*   recvopen recv_H has not been closed                                   *)
make_handle_socket(b) ==
    [frozen |-> "UNFROZEN", inputdata |-> << >>,
     defer_close |-> FALSE, deferred_close |-> FALSE,
     live |-> TRUE, ncb |-> 0, want |-> FALSE, bidir |-> b,
     sendq |-> FALSE, sendeof |-> "EOF_NO", recvopen |-> TRUE]

Init ==
    /\ InInit
    /\ s \in {make_handle_socket(b) : b \in BOOLEAN}
    /\ received = << >>
    /\ closing = FALSE
-----------------------------------------------------------------------------
(* The socket's operations.                                                *)

queue_toplevel_callback(hs) == [hs EXCEPT !.ncb = @ + 1]

(* sk_handle_set_frozen that goes to THAWING but queues no callback.       *)
sk_set_frozen_forgets_callback(hs, f) ==
    LET t == [hs EXCEPT !.want = f]
    IN  IF f THEN [t EXCEPT !.frozen =
                     CASE hs.frozen \in {"FREEZING", "FROZEN"} -> hs.frozen
                       [] hs.frozen = "THAWING" -> "FROZEN"
                       [] hs.frozen = "UNFROZEN" -> "FREEZING"]
        ELSE CASE hs.frozen \in {"UNFROZEN", "THAWING"} -> t
               [] hs.frozen = "FREEZING" -> [t EXCEPT !.frozen = "UNFROZEN"]
               [] hs.frozen = "FROZEN" -> [t EXCEPT !.frozen = "THAWING"]

sk_handle_set_frozen(hs, f) ==
    LET t == [hs EXCEPT !.want = f]
    IN  IF f THEN [t EXCEPT !.frozen =
                     CASE hs.frozen \in {"FREEZING", "FROZEN"} -> hs.frozen
                       [] hs.frozen = "THAWING" -> "FROZEN"
                       [] hs.frozen = "UNFROZEN" -> "FREEZING"]
        ELSE CASE hs.frozen \in {"UNFROZEN", "THAWING"} -> t
               [] hs.frozen = "FREEZING" -> [t EXCEPT !.frozen = "UNFROZEN"]
               [] hs.frozen = "FROZEN" ->
                     queue_toplevel_callback([t EXCEPT !.frozen = "THAWING"])

(* sk_handle_close that leaves its callbacks in the queue.                 *)
sk_handle_close_keeps_callbacks(hs) ==
    IF hs.defer_close THEN [hs EXCEPT !.deferred_close = TRUE]
    ELSE [hs EXCEPT !.live = FALSE, !.inputdata = << >>, !.recvopen = FALSE]

(* Freeing both handles is the caller's InFree; delete_callbacks_for_      *)
(* context empties the queue of this socket's callbacks.                   *)
sk_handle_close(hs) ==
    IF hs.defer_close THEN [hs EXCEPT !.deferred_close = TRUE]
    ELSE [hs EXCEPT !.live = FALSE, !.inputdata = << >>, !.ncb = 0,
                    !.recvopen = FALSE]

sk_handle_write(hs) == [hs EXCEPT !.sendq = TRUE]

(* handle_try_output's end of the story: CloseHandle on send_H.            *)
SendEof(hs) ==
    IF hs.sendeof = "EOF_PENDING" /\ ~hs.sendq
    THEN [hs EXCEPT !.sendeof = "EOF_SENT", !.recvopen = @ /\ ~hs.bidir]
    ELSE hs

sk_handle_write_eof(hs) ==
    IF hs.sendeof = "EOF_NO"
    THEN SendEof([hs EXCEPT !.sendeof = "EOF_PENDING"])
    ELSE hs

(* What the plug may call while it holds the socket: writing stops with    *)
(* its own EOF, and everything stops with its own close.                   *)
PlugCall(hs) ==
    IF ~hs.live \/ hs.deferred_close THEN {hs}
    ELSE {sk_handle_set_frozen(hs, f) : f \in BOOLEAN}
         \cup {sk_handle_close(hs), sk_handle_write_eof(hs)}
         \cup (IF hs.sendeof = "EOF_NO" THEN {sk_handle_write(hs)} ELSE {})

(* plug_receive: the plug makes up to two such calls before it returns.    *)
Reentrant(hs) ==
    {hs} \cup PlugCall(hs) \cup UNION {PlugCall(t) : t \in PlugCall(hs)}
-----------------------------------------------------------------------------
(* handle_gotdata, len # 0.  Its assertion that the socket is neither      *)
(* FROZEN nor THAWING is the property AssertionsHold.                      *)
GotDataUnfrozen ==
    /\ s.live /\ s.frozen = "UNFROZEN"
    /\ received' = Append(received, Len(got) + 1)
    /\ \E t \in Reentrant(s) : s' = t /\ InData(0, ~t.live)
    /\ UNCHANGED closing

(* The read that was in progress when the socket was frozen has returned:  *)
(* keep its data, and throttle the handle with a huge backlog.             *)
GotDataFreezing ==
    /\ s.live /\ s.frozen = "FREEZING"
    /\ s' = [s EXCEPT !.inputdata = Append(@, Len(got) + 1),
                      !.frozen = "FROZEN"]
    /\ InData(INT_MAX, FALSE)
    /\ UNCHANGED <<received, closing>>

(* handle_gotdata at EOF or on an error: plug_closing, which may close the *)
(* socket.                                                                 *)
GotEnd ==
    /\ s.live
    /\ closing' = TRUE
    /\ \E t \in {s, sk_handle_close(s)} : s' = t /\ InEnd(~t.live)
    /\ UNCHANGED received

(* handle_sentdata, or handle_try_output sending a pending EOF after it.   *)
SentData ==
    /\ s.live /\ s.sendq
    /\ s' = SendEof([s EXCEPT !.sendq = FALSE])
    /\ UNCHANGED <<st, got, received, closing>>

(* handle_sentdata with a write error.                                     *)
SendError ==
    /\ s.live /\ s.sendq
    /\ closing' = TRUE
    /\ \/ UNCHANGED <<s, st, got>>
       \/ s' = sk_handle_close(s) /\ InFree
    /\ UNCHANGED received

(* The first lines of handle_socket_unfreeze: a callback that finds the    *)
(* socket in another state than THAWING does nothing.                      *)
UnfreezeStale ==
    /\ s.ncb > 0 /\ s.frozen # "THAWING"
    /\ s' = [s EXCEPT !.ncb = @ - 1]
    /\ UNCHANGED <<st, got, received, closing>>

(* What handle_socket_unfreeze does after plug_receive has returned.       *)
AfterReceive(hs) ==
    LET t == [hs EXCEPT !.inputdata = Tail(@), !.defer_close = FALSE]
    IN  IF t.deferred_close THEN sk_handle_close(t)
        ELSE IF t.inputdata # << >> THEN queue_toplevel_callback(t)
        ELSE [t EXCEPT !.frozen = "UNFROZEN"]

(* handle_socket_unfreeze that does not resume reading.                    *)
Unfreeze_stays_throttled ==
    /\ s.ncb > 0 /\ s.frozen = "THAWING"
    /\ received' = Append(received, Head(s.inputdata))
    /\ \E t \in Reentrant([s EXCEPT !.ncb = @ - 1, !.defer_close = TRUE]) :
         LET u == AfterReceive(t)
         IN  /\ s' = u
             /\ IF ~u.live THEN InFree ELSE UNCHANGED <<st, got>>
    /\ UNCHANGED closing

(* handle_socket_unfreeze: pass on the first block of the buffer, then     *)
(* close, go on or resume reading.                                         *)
Unfreeze ==
    /\ s.ncb > 0 /\ s.frozen = "THAWING"
    /\ received' = Append(received, Head(s.inputdata))
    /\ \E t \in Reentrant([s EXCEPT !.ncb = @ - 1, !.defer_close = TRUE]) :
         LET u == AfterReceive(t)
         IN  /\ s' = u
             /\ IF ~u.live THEN InFree
                ELSE IF u.frozen = "UNFROZEN" THEN InUnthrottle(0)
                ELSE UNCHANGED <<st, got>>
    /\ UNCHANGED closing

(* The plug's calls from elsewhere in the program.  It is bounded only in  *)
(* how many stale callbacks it piles up.                                   *)
MaxCallbacks == 3

Plug ==
    /\ s.live
    /\ \E t \in PlugCall(s) :
         /\ t.ncb <= MaxCallbacks
         /\ s' = t
         /\ IF t.live THEN UNCHANGED <<st, got>> ELSE InFree
    /\ UNCHANGED <<received, closing>>

RunCallback == Unfreeze \/ UnfreezeStale

Next ==
    \/ GotDataUnfrozen \/ GotDataFreezing \/ GotEnd \/ SentData \/ SendError
    \/ RunCallback \/ Plug

Safe == Init /\ [][Next]_vars

(* The main loop runs callbacks whenever any are queued.                   *)
SockSpec == Safe /\ WF_vars(RunCallback)
-----------------------------------------------------------------------------
HandleSocket ==
    [frozen : {"UNFROZEN", "FREEZING", "FROZEN", "THAWING"},
     inputdata : Seq(Nat),
     defer_close : BOOLEAN, deferred_close : BOOLEAN,
     live : BOOLEAN, ncb : Nat, want : BOOLEAN, bidir : BOOLEAN,
     sendq : BOOLEAN, sendeof : {"EOF_NO", "EOF_PENDING", "EOF_SENT"},
     recvopen : BOOLEAN]

(* defer_close is set only within handle_socket_unfreeze.                  *)
TypeOK ==
    /\ st \in {"reading", "stopped", "ended", "freed"}
    /\ got \in Seq(Nat)
    /\ received \in Seq(Nat)
    /\ closing \in BOOLEAN
    /\ s \in HandleSocket
    /\ ~s.defer_close

(* The three assertions of handle-socket.c, at the places where they       *)
(* stand: no data arrives while FROZEN or THAWING, a thawing socket's      *)
(* callback finds data, and an unfreeze from FREEZING finds none.          *)
AssertionsHold ==
    s.live => /\ s.frozen \in {"FROZEN", "THAWING"} => st # "reading"
              /\ s.frozen = "THAWING" => s.inputdata # << >>
              /\ s.frozen \in {"FREEZING", "UNFROZEN"} => s.inputdata = << >>

(* Through buffering, thawing in callbacks and re-entrant freezes, the     *)
(* plug gets every chunk the handle delivered, in order, and only those in *)
(* inputdata are still to come.                                            *)
ReceivedInOrder == s.live => received \o s.inputdata = got

(* sk_handle_close deletes the callbacks that name the socket, and no      *)
(* callback leaves a close it deferred undone.                             *)
NoCallbackForDead ==
    /\ s.ncb > 0 => s.live
    /\ s.live <=> st # "freed"
    /\ s.live => ~s.deferred_close

(* No assertion fails and no freed socket is called, however the plug      *)
(* freezes, thaws and closes the socket from within plug_receive.          *)
SocketSound == AssertionsHold /\ NoCallbackForDead

(* A socket the plug does not want frozen is reading, or is being thawed   *)
(* by a queued callback.                                                   *)
NotStuck ==
    s.live /\ ~s.want /\ st # "ended" =>
        \/ st = "reading" /\ s.frozen = "UNFROZEN"
        \/ s.frozen = "THAWING" /\ s.ncb > 0

(* The plug's view: all that the handle delivers, in order, and never left *)
(* waiting for what the socket itself holds up.                            *)
PlugView == ReceivedInOrder /\ NotStuck

(* Chunks kept back while frozen reach the plug once it thaws the socket   *)
(* for good.                                                               *)
ThawedIsDelivered ==
    [](s.live /\ ~s.want) ~> (s.inputdata = << >>)

(* network.h: "A frozen socket is one in which all READABLE notifications  *)
(* are ignored, so that data is not accepted from the peer until the       *)
(* socket is unfrozen".  Between the plug's sk_set_frozen(TRUE) and its    *)
(* sk_set_frozen(FALSE) it receives nothing.                               *)
FrozenReceivesNothing == [][s.live /\ s.want => received' = received]_vars

(* handle_write_eof: "never call this on a bidirectional handle if we're   *)
(* still interested in its incoming direction!"  As long as the plug has   *)
(* the socket open and has not seen its end, recv_H is open.               *)
IncomingStaysOpen == s.live /\ ~closing => s.recvopen
=============================================================================
