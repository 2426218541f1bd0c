----------------------------- MODULE HandleInput -----------------------------
(***************************************************************************)
(* An input handle of windows/handle-io.c: the subthread of                *)
(* handle_input_threadfunc, which reads and waits for permission to read   *)
(* again, against the main thread's handle_got_event, handle_throttle,     *)
(* handle_unthrottle and handle_free.                                      *)
(*                                                                         *)
(* Every access of the subthread to *ctx is a step of its own, because the *)
(* main thread may free the structure between any two of them.  The data   *)
(* source is external: its n-th chunk is the number n.                     *)
(***************************************************************************)
EXTENDS Integers, Sequences, HandleGeneric

CONSTANTS
    MAX_BACKLOG,        \* backlog at which reading stops
    Backlogs,           \* the backlogs a client may report
    MaxReads            \* bound: chunks the source holds

ASSUME BacklogAssumption ==
    /\ MAX_BACKLOG \in Nat
    /\ Backlogs \subseteq Nat
ASSUME MaxReadsAssumption == MaxReads \in Nat

VARIABLES
    ignoreeof,  \* ctx->flags & HANDLE_FLAG_IGNOREEOF
    h,          \* the handle_generic fields
    pc,         \* where the subthread is
    buf,        \* ctx->buffer and ctx->len: a chunk, EOF or Junk
    readerr,    \* ctx->readerr # 0
    nread,      \* chunks the source has given out
    got,        \* the chunks passed to gotdata, in order
    told,       \* number of times gotdata was told of EOF or an error
    backlog     \* the backlog the client reported last

vars == <<ignoreeof, h, pc, buf, readerr, nread, got, told, backlog>>

EOF  == 0       \* ctx->len = 0
Junk == -1      \* a read into ctx->buffer is in progress

(* "read"      in ReadFile                                                 *)
(* "signal"    about to SetEvent(ev_to_main), data in the buffer           *)
(* "finish"    the same after EOF or an error: `finished' is true          *)
(* "wait"      in WaitForSingleObject(ev_from_main)                        *)
(* "check"     woken, about to look at ctx->done                           *)
(* "die"       about to acknowledge ctx->done                              *)
(* "exited"    returned, or never created                                  *)
PCs == {"read", "signal", "finish", "wait", "check", "die", "exited"}

(* handle_input_new sets busy whether or not CreateThread succeeded.       *)
handle_input_new ==
    /\ ignoreeof \in BOOLEAN
    /\ h = handle_new(TRUE)
    /\ pc \in {"read", "exited"}
    /\ buf = Junk
    /\ readerr = FALSE
    /\ nread = 0
    /\ got = << >>
    /\ told = 0
    /\ backlog = 0

Init == handle_input_new
-----------------------------------------------------------------------------
(* The subthread.                                                          *)

ThreadOnly == UNCHANGED <<ignoreeof, got, told, backlog>>

ReadData ==
    /\ pc = "read"
    /\ nread < MaxReads
    /\ nread' = nread + 1
    /\ buf' = nread + 1
    /\ readerr' = FALSE
    /\ pc' = "signal"
    /\ ThreadOnly /\ UNCHANGED h

(* A read of length 0, or ERROR_BROKEN_PIPE, is EOF; with IGNOREEOF the    *)
(* former makes the thread read again without telling anybody.             *)
ReadEof ==
    /\ pc = "read"
    /\ ~ignoreeof
    /\ buf' = EOF
    /\ readerr' = FALSE
    /\ pc' = "finish"
    /\ ThreadOnly /\ UNCHANGED <<h, nread>>

ReadIgnored ==
    /\ pc = "read"
    /\ ignoreeof
    /\ readerr' = FALSE
    /\ ThreadOnly /\ UNCHANGED <<h, pc, buf, nread>>

(* ReadFile failed: BrokenPipe is a failure reported as plain EOF.         *)
ReadFails(brokenPipe) ==
    /\ pc = "read"
    /\ buf' = EOF
    /\ readerr' = ~brokenPipe
    /\ pc' = "finish"
    /\ ThreadOnly /\ UNCHANGED <<h, nread>>

Signal ==
    /\ pc = "signal"
    /\ h' = [h EXCEPT !.evToMain = TRUE]
    /\ pc' = "wait"
    /\ ThreadOnly /\ UNCHANGED <<buf, readerr, nread>>

SignalFinished ==
    /\ pc = "finish"
    /\ h' = [h EXCEPT !.evToMain = TRUE]
    /\ pc' = "exited"
    /\ ThreadOnly /\ UNCHANGED <<buf, readerr, nread>>

(* ev_from_main is an auto-reset event: a wait that returns resets it.     *)
Wake ==
    /\ pc = "wait"
    /\ h.evFromMain
    /\ h' = [h EXCEPT !.evFromMain = FALSE]
    /\ pc' = "check"
    /\ ThreadOnly /\ UNCHANGED <<buf, readerr, nread>>

Check ==
    /\ pc = "check"
    /\ IF h.done THEN pc' = "die" /\ UNCHANGED buf
                 ELSE pc' = "read" /\ buf' = Junk
    /\ ThreadOnly /\ UNCHANGED <<h, readerr, nread>>

Die ==
    /\ pc = "die"
    /\ h' = [h EXCEPT !.evToMain = TRUE]
    /\ pc' = "exited"
    /\ ThreadOnly /\ UNCHANGED <<buf, readerr, nread>>

Subthread ==
    \/ ReadData \/ ReadEof \/ ReadIgnored \/ (\E b \in BOOLEAN : ReadFails(b))
    \/ Signal \/ SignalFinished \/ Wake \/ Check \/ Die
-----------------------------------------------------------------------------
(* The main thread.                                                        *)

MainOnly == UNCHANGED <<ignoreeof, pc, buf, readerr, nread>>

handle_throttle(ctx, b) ==
    IF ctx.defunct \/ ctx.busy \/ b >= MAX_BACKLOG THEN ctx
    ELSE [ctx EXCEPT !.evFromMain = TRUE, !.busy = TRUE]

(* The handle as handle_got_event leaves it for the gotdata callback.      *)
Idle == [EventTaken(h) EXCEPT !.busy = FALSE]

(* handle_got_event, moribund handle: the result of the read is ignored.   *)
GotEventMoribund ==
    /\ HasEvent(h) /\ h.moribund
    /\ h' = got_event_moribund(EventTaken(h))
    /\ MainOnly /\ UNCHANGED <<got, told, backlog>>

(* handle_got_event that passes on what was read without testing len.      *)
GotEventData_no_len_test(b, frees) ==
    /\ HasEvent(h) /\ ~h.moribund
    /\ got' = Append(got, buf)
    /\ backlog' = b
    /\ h' = handle_throttle(IF frees THEN handle_free(Idle) ELSE Idle, b)
    /\ MainOnly /\ UNCHANGED told

(* handle_got_event that serves the client of a moribund handle.           *)
GotEventData_ignores_moribund(b, frees) ==
    /\ HasEvent(h) /\ ~h.done /\ buf # EOF
    /\ got' = Append(got, buf)
    /\ backlog' = b
    /\ h' = handle_throttle(IF frees THEN handle_free(Idle) ELSE Idle, b)
    /\ MainOnly /\ UNCHANGED told

(* handle_got_event, len # 0: gotdata takes the chunk and returns a        *)
(* backlog, possibly after calling handle_free on this very handle.        *)
GotEventData(b, frees) ==
    /\ HasEvent(h) /\ ~h.moribund /\ buf # EOF
    /\ got' = Append(got, buf)
    /\ backlog' = b
    /\ h' = handle_throttle(IF frees THEN handle_free(Idle) ELSE Idle, b)
    /\ MainOnly /\ UNCHANGED told

(* handle_got_event, len = 0: gotdata hears of the EOF or the error and    *)
(* may free the handle, which then has no subthread any more.              *)
GotEventEof(frees) ==
    /\ HasEvent(h) /\ ~h.moribund /\ buf = EOF
    /\ told' = told + 1
    /\ LET dead == [Idle EXCEPT !.defunct = TRUE]
       IN  h' = IF frees THEN handle_free(dead) ELSE dead
    /\ MainOnly /\ UNCHANGED <<got, backlog>>

(* A client owns the handle until it calls handle_free.                    *)
Owned == h.alloc /\ ~h.moribund

Free ==
    /\ Owned
    /\ h' = handle_free(h)
    /\ MainOnly /\ UNCHANGED <<got, told, backlog>>

(* handle_unthrottle, called by clients as they consume their backlog.     *)
Unthrottle(b) ==
    /\ Owned
    /\ b <= backlog
    /\ backlog' = b
    /\ h' = handle_throttle(h, b)
    /\ MainOnly /\ UNCHANGED <<got, told>>

GotEvent ==
    \/ GotEventMoribund
    \/ \E b \in Backlogs, f \in BOOLEAN : GotEventData(b, f)
    \/ \E f \in BOOLEAN : GotEventEof(f)

Main == GotEvent \/ Free \/ (\E b \in Backlogs : Unthrottle(b))

Next == Subthread \/ Main

Safe == Init /\ [][Next]_vars

(* The OS schedules a subthread that does not wait for the outside world,  *)
(* and the main loop serves every event.  Nothing makes a read complete,   *)
(* and clients promise nothing.                                            *)
Handshake == Signal \/ SignalFinished \/ Wake \/ Check \/ Die

Spec == Safe /\ WF_vars(Handshake) /\ WF_vars(GotEvent)
-----------------------------------------------------------------------------
TypeOK ==
    /\ ignoreeof \in BOOLEAN
    /\ h \in Handle
    /\ pc \in PCs
    /\ buf \in {EOF, Junk} \cup 1..MaxReads
    /\ readerr \in BOOLEAN
    /\ nread \in 0..MaxReads
    /\ got \in Seq({EOF} \cup 1..MaxReads)
    /\ told \in Nat
    /\ backlog \in Nat

(* handle_free's reason for `moribund': "otherwise the subthread will      *)
(* write to invalid memory after we free its context from under it".  As   *)
(* long as the subthread has steps left, its context exists.               *)
NoUseAfterFree == pc # "exited" => h.alloc

(* Over all the handing to and fro of the one buffer, gotdata sees every   *)
(* chunk once, whole and in the order of the source; only the chunk in     *)
(* flight when the client freed the handle may be missing.                 *)
DeliveredInOrder ==
    /\ \A i \in 1..Len(got) : got[i] = i
    /\ Len(got) <= nread
    /\ Owned /\ pc \in {"read", "finish"} => Len(got) = nread

(* Reading stops for backpressure only: an owned handle whose subthread    *)
(* has not gone and whose client's backlog is under the limit has a read   *)
(* requested, in progress or to be collected.                              *)
StoppedOnlyByBacklog ==
    Owned /\ ~h.defunct /\ backlog < MAX_BACKLOG => h.busy

(* EOF, like an error, is reported once, and only when the subthread has   *)
(* really gone: `defunct' is what lets handle_free destroy the handle on   *)
(* the spot.                                                               *)
EofIsFinal ==
    /\ told <= 1
    /\ told = 1 => pc = "exited" /\ h.defunct
    /\ h.defunct => told = 1 /\ Len(got) = nread

(* The client's whole view: all of the data, in order, stopped by nothing  *)
(* but its own backlog, and one end.                                       *)
ClientView == DeliveredInOrder /\ StoppedOnlyByBacklog /\ EofIsFinal

(* What has been read reaches gotdata, and so does the end of the data,    *)
(* unless the client frees the handle first.                               *)
ReadReported ==
    /\ \A n \in 1..MaxReads : (nread = n) ~> (Len(got) >= n \/ ~Owned)
    /\ (pc = "finish") ~> (told # 0 \/ ~Owned)

(* A subthread that is asked to die while it is alive does, and then its   *)
(* handle is destroyed.                                                    *)
AskedToDieIsDestroyed == (h.done /\ pc # "exited") ~> ~h.alloc

(* Every exchange of signals with the subthread, for data, for the end and *)
(* for its death, comes to its end.                                        *)
HandshakeCompletes == ReadReported /\ AskedToDieIsDestroyed

(* Seen from its client, an input handle is reading, stopped for its       *)
(* backlog, ended or freed, and delivers only while it is reading.         *)
AbsState ==
    IF ~Owned THEN "freed"
    ELSE IF h.defunct THEN "ended"
    ELSE IF h.busy THEN "reading"
    ELSE "stopped"

Abs == INSTANCE HandleInputSpec WITH st <- AbsState

(* The two threads together implement the promise clients build on.        *)
ImplementsHandleInputSpec == Abs!Spec

(* handle_input_threadfunc on EOF: "Telling that to the main thread will   *)
(* cause it to set its 'defunct' flag and dispose of the handle structure  *)
(* at the next opportunity".  For a handle that is freed already, that     *)
(* opportunity is the event itself.                                        *)
EofDisposes == (pc = "finish") ~> (h.defunct \/ ~h.alloc)
=============================================================================
