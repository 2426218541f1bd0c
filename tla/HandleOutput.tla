---------------------------- MODULE HandleOutput ----------------------------
(***************************************************************************)
(* An output handle of windows/handle-io.c: the subthread of               *)
(* handle_output_threadfunc, which waits to be given something to write,   *)
(* against the main thread's handle_write, handle_write_eof,               *)
(* handle_try_output, handle_got_event and handle_free.                    *)
(*                                                                         *)
(* The n-th byte (or block of bytes) a client ever writes is the number n. *)
(* The record o is the handle structure with the fields of HandleGeneric   *)
(* and those of struct handle_output, plus the history field `given'.      *)
(***************************************************************************)
EXTENDS Integers, Sequences, HandleGeneric

CONSTANT MaxBytes       \* bound: bytes the client ever writes

ASSUME MaxBytesAssumption == MaxBytes \in Nat

VARIABLES
    o,          \* the handle structure
    pc,         \* where the subthread is
    written     \* the bytes the OS accepted, in order

vars == <<o, pc, written>>

(* "wait"      in WaitForSingleObject(ev_from_main)                        *)
(* "check"     woken, about to look at ctx->done                           *)
(* "write"     in WriteFile                                                *)
(* "signal"    about to SetEvent(ev_to_main) after a write                 *)
(* "fail"      the same after a failed write                               *)
(* "die"       about to acknowledge ctx->done                              *)
(* "exited"    returned, or never created                                  *)
PCs == {"wait", "check", "write", "signal", "fail", "die", "exited"}

handle_output_new ==
    /\ o = [alloc |-> TRUE, busy |-> FALSE, moribund |-> FALSE,
            done |-> FALSE, defunct |-> FALSE,
            evToMain |-> FALSE, evFromMain |-> FALSE,
            buffer |-> << >>,           \* buffer and len: what to write
            lenwritten |-> 0, writeerr |-> FALSE,
            queued_data |-> << >>,
            outgoingeof |-> "EOF_NO",   \* EOF_SENT: ctx->h is closed
            given |-> 0]                \* bytes passed to handle_write
    /\ pc \in {"wait", "exited"}
    /\ written = << >>

Init == handle_output_new
-----------------------------------------------------------------------------
(* The subthread.                                                          *)

Wake ==
    /\ pc = "wait"
    /\ o.evFromMain
    /\ o' = [o EXCEPT !.evFromMain = FALSE]
    /\ pc' = "check"
    /\ UNCHANGED written

Check ==
    /\ pc = "check"
    /\ pc' = IF o.done THEN "die" ELSE "write"
    /\ UNCHANGED <<o, written>>

(* WriteFile, which may write less than it was given but not nothing.      *)
Write(n) ==
    /\ pc = "write"
    /\ n \in 1..Len(o.buffer)
    /\ written' = written \o SubSeq(o.buffer, 1, n)
    /\ o' = [o EXCEPT !.lenwritten = n, !.writeerr = FALSE]
    /\ pc' = "signal"

(* A failing write sets lenwritten to nothing useful.                      *)
WriteFails ==
    /\ pc = "write"
    /\ o' = [o EXCEPT !.lenwritten = 0, !.writeerr = TRUE]
    /\ pc' = "fail"
    /\ UNCHANGED written

Signal ==
    /\ pc = "signal"
    /\ o' = [o EXCEPT !.evToMain = TRUE]
    /\ pc' = "wait"
    /\ UNCHANGED written

SignalFailed ==
    /\ pc = "fail"
    /\ o' = [o EXCEPT !.evToMain = TRUE]
    /\ pc' = "exited"
    /\ UNCHANGED written

Die ==
    /\ pc = "die"
    /\ o' = [o EXCEPT !.evToMain = TRUE]
    /\ pc' = "exited"
    /\ UNCHANGED written

Subthread ==
    \/ Wake \/ Check \/ (\E n \in 1..MaxBytes : Write(n)) \/ WriteFails
    \/ Signal \/ SignalFailed \/ Die
-----------------------------------------------------------------------------
(* The main thread.  bufchain_prefix returns the first block of the        *)
(* bufchain, and a block may hold any number of the queued bytes, so the   *)
(* functions that start a write have a set of possible results.            *)

StartWrite(ctx) ==
    {[ctx EXCEPT !.buffer = SubSeq(ctx.queued_data, 1, n),
                 !.evFromMain = TRUE, !.busy = TRUE]
        : n \in 1..Len(ctx.queued_data)}

(* handle_try_output that closes the handle without waiting for the queue. *)
handle_try_output_hasty_eof(ctx) ==
    IF ~ctx.busy /\ ctx.outgoingeof = "EOF_PENDING"
    THEN {[ctx EXCEPT !.outgoingeof = "EOF_SENT"]}
    ELSE IF ~ctx.busy /\ ctx.queued_data # << >> THEN StartWrite(ctx)
    ELSE {ctx}

handle_try_output(ctx) ==
    IF ~ctx.busy /\ ctx.queued_data # << >> THEN StartWrite(ctx)
    ELSE IF ~ctx.busy /\ ctx.outgoingeof = "EOF_PENDING"
    THEN {[ctx EXCEPT !.outgoingeof = "EOF_SENT"]}      \* CloseHandle
    ELSE {ctx}

(* handle_write of n bytes.  Its assertion that no EOF was requested is    *)
(* the callers' duty.                                                      *)
handle_write(ctx, n) ==
    IF ctx.outgoingeof # "EOF_NO" THEN {}
    ELSE handle_try_output(
           [ctx EXCEPT !.queued_data = @ \o [i \in 1..n |-> ctx.given + i],
                       !.given = @ + n])

(* handle_write_eof that does not try to send what it has noted.           *)
handle_write_eof_not_tried(ctx) ==
    IF ctx.outgoingeof = "EOF_NO"
    THEN {[ctx EXCEPT !.outgoingeof = "EOF_PENDING"]}
    ELSE {ctx}

handle_write_eof(ctx) ==
    IF ctx.outgoingeof = "EOF_NO"
    THEN handle_try_output([ctx EXCEPT !.outgoingeof = "EOF_PENDING"])
    ELSE {ctx}

(* What a client may do to the handle: from its main program, or from      *)
(* within the sentdata callback.                                           *)
ClientCalls(ctx) ==
    {handle_free(ctx)} \cup handle_write_eof(ctx)
    \cup UNION {handle_write(ctx, n) : n \in 1..(MaxBytes - ctx.given)}

Owned == o.alloc /\ ~o.moribund

Client ==
    /\ Owned
    /\ o' \in ClientCalls(o)
    /\ UNCHANGED <<pc, written>>

GotEventMoribund ==
    /\ HasEvent(o) /\ o.moribund
    /\ o' = got_event_moribund(EventTaken(o))
    /\ UNCHANGED <<pc, written>>

(* handle_got_event after a write: bufchain_consume, sentdata, and then    *)
(* handle_try_output on whatever sentdata left behind.                     *)
GotEventWritten ==
    /\ HasEvent(o) /\ ~o.moribund /\ ~o.writeerr
    /\ LET ctx == [EventTaken(o) EXCEPT
                     !.busy = FALSE,
                     !.queued_data =
                        SubSeq(@, o.lenwritten + 1, Len(@))]
       IN  \E c \in {ctx} \cup ClientCalls(ctx) : o' \in handle_try_output(c)
    /\ UNCHANGED <<pc, written>>

(* handle_got_event after a failed write: sentdata hears of the error.     *)
GotEventError ==
    /\ HasEvent(o) /\ ~o.moribund /\ o.writeerr
    /\ o' \in LET ctx == [EventTaken(o) EXCEPT !.busy = FALSE,
                                               !.defunct = TRUE]
              IN  {ctx} \cup ClientCalls(ctx)
    /\ UNCHANGED <<pc, written>>

GotEvent == GotEventMoribund \/ GotEventWritten \/ GotEventError

Next == Subthread \/ GotEvent \/ Client

Safe == Init /\ [][Next]_vars

(* The OS schedules the subthread and completes its writes; the main loop  *)
(* serves every event.  Clients promise nothing.                           *)
Spec == Safe /\ WF_vars(Subthread) /\ WF_vars(GotEvent)
-----------------------------------------------------------------------------
OutputHandle ==
    [alloc : BOOLEAN, busy : BOOLEAN, moribund : BOOLEAN,
     done : BOOLEAN, defunct : BOOLEAN,
     evToMain : BOOLEAN, evFromMain : BOOLEAN,
     buffer : Seq(Nat), lenwritten : Nat,
     writeerr : BOOLEAN, queued_data : Seq(Nat),
     outgoingeof : {"EOF_NO", "EOF_PENDING", "EOF_SENT"},
     given : Nat]

TypeOK ==
    /\ o \in OutputHandle
    /\ pc \in PCs
    /\ written \in Seq(Nat)

(* The subthread's context and the block it writes from exist for as long  *)
(* as it may touch them: handle_free defers to a busy subthread, and       *)
(* bufchain_consume waits for the write it accounts for.                   *)
NoUseAfterFree ==
    /\ pc # "exited" => o.alloc
    /\ pc = "write" \/ (pc = "check" /\ ~o.done) =>
         /\ Len(o.buffer) <= Len(o.queued_data)
         /\ o.buffer = SubSeq(o.queued_data, 1, Len(o.buffer))

(* Whatever is written in parts, appended to while in flight and retried,  *)
(* the OS gets the client's bytes once each and in order, and the bytes it *)
(* has not got are still queued.                                           *)
Unaccounted ==
    IF (pc = "signal" \/ (pc = "wait" /\ o.evToMain)) THEN o.lenwritten ELSE 0

WrittenInOrder ==
    /\ \A i \in 1..Len(written) : written[i] = i
    /\ Owned => /\ Len(written) + Len(o.queued_data) = o.given + Unaccounted
                /\ \A i \in 1..Len(o.queued_data) :
                       o.queued_data[i] =
                         i + o.given - Len(o.queued_data)

(* handle_write_eof is out of band for the OS (it closes the handle), so   *)
(* it must come after every byte queued before it, and never under the     *)
(* subthread's feet.                                                       *)
EofAfterData ==
    o.outgoingeof = "EOF_SENT" =>
        /\ Len(written) = o.given
        /\ pc \notin {"write", "signal", "fail"}

(* What the other end of the handle sees: the client's bytes, once each    *)
(* and in order, and the end after all of them.                            *)
WriterView == WrittenInOrder /\ EofAfterData

(* Every byte is written and a requested EOF is sent, unless a write fails *)
(* or the client frees the handle first (or never got a subthread).        *)
Gone == o.writeerr \/ ~Owned \/ pc = "exited"

QueueDrained ==
    /\ \A n \in 1..MaxBytes : (o.given = n) ~> (Len(written) >= n \/ Gone)
    /\ (o.outgoingeof = "EOF_PENDING") ~> (o.outgoingeof = "EOF_SENT" \/ Gone)

(* Struct handle_generic says of `busy' "operation currently in progress?" *)
(* and of `defunct' "has the subthread already gone?"; handle_free defers  *)
(* to the subthread of a busy handle because it "is in the middle of       *)
(* something".  So a handle whose subthread has gone is not busy.          *)
DefunctIsIdle == o.defunct => ~o.busy
=============================================================================
