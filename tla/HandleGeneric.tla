---------------------------- MODULE HandleGeneric ----------------------------
(***************************************************************************)
(* The part of windows/handle-io.c that input and output handles share:    *)
(* struct handle_generic, handle_free, handle_destroy and the moribund     *)
(* branch of handle_got_event.                                             *)
(*                                                                         *)
(* A handle is a record; each C function that updates one in place is an   *)
(* operator from the record before the call to the record after it, so     *)
(* that a function which calls another, or a callback that re-enters this  *)
(* module, is modelled by composing operators.                             *)
(*                                                                         *)
(*   alloc       the structure and its two events exist                    *)
(*   busy        an operation of the subthread is in progress              *)
(*   moribund    handle_free was called while the subthread was alive      *)
(*   done        the subthread has been asked to terminate                 *)
(*   defunct     the subthread is known to have gone                       *)
(*   evToMain    ev_to_main, an auto-reset event                           *)
(*   evFromMain  ev_from_main, an auto-reset event                         *)
(***************************************************************************)

Handle == [alloc : BOOLEAN, busy : BOOLEAN, moribund : BOOLEAN,
           done : BOOLEAN, defunct : BOOLEAN,
           evToMain : BOOLEAN, evFromMain : BOOLEAN]

(* handle_input_new and handle_output_new differ in `busy' only: an input  *)
(* thread starts by reading, an output thread by waiting.                  *)
handle_new(b) ==
    [alloc |-> TRUE, busy |-> b, moribund |-> FALSE, done |-> FALSE,
     defunct |-> FALSE, evToMain |-> FALSE, evFromMain |-> FALSE]

handle_destroy(h) == [h EXCEPT !.alloc = FALSE]

(* Tell the subthread to die: handle_destroy follows on its answer.        *)
signal_to_die(h) ==
    [h EXCEPT !.moribund = TRUE, !.done = TRUE, !.busy = TRUE,
              !.evFromMain = TRUE]

(* handle_free that destroys a handle whose subthread is idle but alive.   *)
handle_free_kills_idle(h) ==
    IF h.busy THEN [h EXCEPT !.moribund = TRUE] ELSE handle_destroy(h)

handle_free(h) ==
    IF h.busy THEN [h EXCEPT !.moribund = TRUE]
    ELSE IF h.defunct THEN handle_destroy(h)
    ELSE signal_to_die(h)

(* The moribund branch of handle_got_event that forgets to send the        *)
(* subthread the request to die.                                           *)
got_event_moribund_silent(h) ==
    IF h.done THEN handle_destroy(h)
    ELSE [h EXCEPT !.done = TRUE, !.busy = TRUE]

(* What handle_got_event does to a moribund handle.                        *)
got_event_moribund(h) ==
    IF h.done THEN handle_destroy(h) ELSE signal_to_die(h)

(* The main loops wait only for the events handle_get_events lists, those  *)
(* of busy handles, and the wait resets the event it returns.              *)
HasEvent(h) == h.alloc /\ h.busy /\ h.evToMain

EventTaken(h) == [h EXCEPT !.evToMain = FALSE]
=============================================================================
