-------------------------- MODULE HandleInputProofs --------------------------
(***************************************************************************)
(* Safety of HandleInput for every backlog limit and every length of the   *)
(* data source.  The inductive invariant ties the place of the subthread   *)
(* (pc) to the main thread's flags and the two events: at any time exactly *)
(* one of the two owns the handle's buffer.                                *)
(***************************************************************************)
EXTENDS HandleInput, TLAPS

(* The subthread works: both events are clear, and the main thread waits.  *)
Working ==
    pc \in {"read", "signal", "finish"} =>
        h.busy /\ ~h.evToMain /\ ~h.evFromMain /\ ~h.done

(* The subthread waits: the main thread owns the buffer, or one of the     *)
(* events is on its way.                                                   *)
Waiting ==
    pc = "wait" =>
        \/ ~h.busy /\ ~h.evToMain /\ ~h.evFromMain /\ ~h.moribund
        \/ h.busy /\ h.evToMain /\ ~h.evFromMain /\ ~h.done
        \/ h.busy /\ ~h.evToMain /\ h.evFromMain

Woken ==
    /\ pc \in {"check", "die"} => h.busy /\ ~h.evToMain /\ ~h.evFromMain
    /\ pc = "die" => h.done

(* The life of a handle: alive, defunct, or freed and waiting for its end. *)
Life ==
    /\ pc # "exited" => h.alloc
    /\ h.done => h.moribund
    /\ h.defunct => pc = "exited" /\ ~h.moribund /\ ~h.busy

(* What the buffer holds, and what gotdata has had, at each hand-over.     *)
Pending == pc = "signal" \/ (pc = "wait" /\ h.evToMain)
Ended == pc = "finish" \/ (pc = "exited" /\ h.evToMain)

Data ==
    /\ \A i \in 1..Len(got) : got[i] = i
    /\ Len(got) <= nread
    /\ Owned /\ Pending => buf = nread /\ Len(got) = nread - 1 /\ nread # 0
    /\ Owned /\ pc # "exited" /\ ~Pending => Len(got) = nread
    /\ Owned /\ Ended => buf = EOF /\ Len(got) = nread
    /\ ~h.defunct => told = 0
    /\ h.defunct => told = 1 /\ Len(got) = nread

Inv == TypeOK /\ Working /\ Waiting /\ Woken /\ Life /\ Data
       /\ StoppedOnlyByBacklog
-----------------------------------------------------------------------------
(* A new handle satisfies the invariant, whether or not CreateThread gave  *)
(* it a subthread.                                                         *)
LEMMA InitInv == Init => Inv
  <1> SUFFICES ASSUME Init PROVE Inv
    OBVIOUS
  <1>1. h \in Handle /\ h.alloc /\ h.busy /\ ~h.moribund /\ ~h.done
        /\ ~h.defunct /\ ~h.evToMain /\ ~h.evFromMain
    BY DEF Init, handle_input_new, handle_new, Handle
  <1>2. /\ pc \in PCs /\ pc \in {"read", "exited"}
        /\ buf = -1 /\ nread = 0 /\ told = 0 /\ backlog = 0
    BY DEF Init, handle_input_new, PCs, Junk
  <1>3. ignoreeof \in BOOLEAN /\ readerr \in BOOLEAN
    BY Zenon DEF Init, handle_input_new
  <1>4. /\ got \in Seq({EOF} \cup 1..MaxReads)
        /\ Len(got) = 0
        /\ \A i \in 1..Len(got) : got[i] = i
    <2>1. << >> \in Seq({EOF} \cup 1..MaxReads) /\ Len(<< >>) = 0
      OBVIOUS
    <2> QED
      BY <2>1 DEF Init, handle_input_new
  <1>5. nread \in 0..MaxReads /\ buf \in {EOF, Junk} \cup 1..MaxReads
    BY <1>2, MaxReadsAssumption DEF EOF, Junk
  <1>6. TypeOK
    BY <1>1, <1>2, <1>3, <1>4, <1>5 DEF TypeOK
  <1>7. Working /\ Waiting /\ Woken /\ Life
    BY <1>1, <1>2 DEF Working, Waiting, Woken, Life
  <1>8. Data
    BY <1>1, <1>2, <1>4 DEF Data, Pending, Ended, Owned
  <1> QED
    BY <1>1, <1>6, <1>7, <1>8 DEF Inv, StoppedOnlyByBacklog

(* Every step of the subthread preserves the invariant.                    *)
LEMMA SubthreadInv == Inv /\ Subthread => Inv'
  <1> SUFFICES ASSUME Inv, Subthread PROVE Inv'
    OBVIOUS
  <1> USE MaxReadsAssumption
      DEF Inv, TypeOK, Handle, PCs, Working, Waiting, Woken, Life, Data,
          Pending, Ended, Owned, StoppedOnlyByBacklog, EOF, Junk, ThreadOnly
  <1>1. CASE ReadData
    <2>1. /\ h' = h /\ got' = got /\ told' = told /\ backlog' = backlog
          /\ nread' = nread + 1 /\ buf' = nread + 1 /\ pc' = "signal"
          /\ pc = "read" /\ readerr' = FALSE /\ ignoreeof' = ignoreeof
          /\ nread + 1 \in 1..MaxReads /\ nread \in Nat
      BY <1>1 DEF ReadData
    <2>2. TypeOK'
      <3>1. readerr' \in BOOLEAN /\ ignoreeof' \in BOOLEAN
        BY <2>1, Zenon
      <3>2. pc' \in PCs /\ nread' \in 0..MaxReads
            /\ buf' \in {EOF, Junk} \cup 1..MaxReads
        BY <2>1
      <3>3. h' \in Handle /\ told' \in Nat /\ backlog' \in Nat
            /\ got' \in Seq({EOF} \cup 1..MaxReads)
        BY <2>1
      <3> QED
        BY <3>1, <3>2, <3>3
    <2>3. Len(got) \in Nat /\ Len(got) <= nread
      OBVIOUS
    <2>4. Owned' => Len(got) = nread
      BY <2>1
    <2>5. Data'
      BY <2>1, <2>3, <2>4
    <2> QED
      BY <2>1, <2>2, <2>5
  <1>2. CASE ReadEof
    BY <1>2 DEF ReadEof
  <1>3. CASE ReadIgnored
    BY <1>3 DEF ReadIgnored
  <1>4. ASSUME NEW b \in BOOLEAN, ReadFails(b) PROVE Inv'
    BY <1>4 DEF ReadFails
  <1>5. CASE Signal
    BY <1>5 DEF Signal
  <1>6. CASE SignalFinished
    BY <1>6 DEF SignalFinished
  <1>7. CASE Wake
    BY <1>7 DEF Wake
  <1>8. CASE Check
    BY <1>8 DEF Check
  <1>9. CASE Die
    BY <1>9 DEF Die
  <1> QED
    BY <1>1, <1>2, <1>3, <1>4, <1>5, <1>6, <1>7, <1>8, <1>9 DEF Subthread

(* Every step of the main thread preserves it too.                         *)
LEMMA MainInv == Inv /\ Main => Inv'
  <1> SUFFICES ASSUME Inv, Main PROVE Inv'
    OBVIOUS
  <1> USE MaxReadsAssumption, BacklogAssumption
      DEF Inv, TypeOK, Handle, PCs, Working, Waiting, Woken, Life, Data,
          Pending, Ended, Owned, StoppedOnlyByBacklog, EOF, Junk, MainOnly,
          handle_free, handle_destroy, signal_to_die
  <1>1. CASE GotEventMoribund
    BY <1>1 DEF GotEventMoribund, HasEvent, EventTaken, got_event_moribund
  <1>2. ASSUME NEW b \in Backlogs, NEW f \in BOOLEAN, GotEventData(b, f)
        PROVE  Inv'
    <2>1. pc = "wait" /\ buf = nread /\ Len(got) = nread - 1 /\ nread # 0
      BY <1>2 DEF GotEventData, HasEvent
    <2>2. /\ got' = Append(got, nread)
          /\ Len(got') = nread
          /\ got' \in Seq({EOF} \cup 1..MaxReads)
          /\ \A i \in 1..Len(got') : got'[i] = i
      BY <1>2, <2>1 DEF GotEventData
    <2>3. /\ h.alloc /\ h.busy /\ h.evToMain /\ ~h.evFromMain /\ ~h.done
          /\ ~h.moribund /\ ~h.defunct /\ told' = told /\ told = 0
          /\ backlog' = b /\ b \in Nat /\ pc' = "wait" /\ nread' = nread
          /\ buf' = buf /\ readerr' = readerr /\ ignoreeof' = ignoreeof
      BY <1>2, <2>1 DEF GotEventData, HasEvent
    <2> DEFINE idle == [h EXCEPT !.evToMain = FALSE, !.busy = FALSE]
    <2>4. idle \in Handle /\ Idle = idle
      BY DEF Idle, EventTaken
    <2>5. CASE f
      <3>1. handle_free(Idle) = [idle EXCEPT !.moribund = TRUE, !.done = TRUE,
                                   !.busy = TRUE, !.evFromMain = TRUE]
        BY <2>3, <2>4
      <3>2. h' = handle_free(Idle)
        BY <1>2, <2>5, <3>1 DEF GotEventData, handle_throttle
      <3>3. /\ h' \in Handle /\ h'.alloc /\ h'.busy /\ ~h'.evToMain
            /\ h'.evFromMain /\ h'.done /\ h'.moribund /\ ~h'.defunct
        BY <2>3, <3>1, <3>2
      <3> QED
        BY <2>1, <2>2, <2>3, <3>3
    <2>6. CASE ~f
      <3>1. h' = handle_throttle(idle, b)
        BY <1>2, <2>4, <2>6 DEF GotEventData
      <3>2. /\ h' \in Handle /\ h'.alloc /\ ~h'.evToMain
            /\ ~h'.done /\ ~h'.moribund /\ ~h'.defunct
            /\ \/ b >= MAX_BACKLOG /\ ~h'.busy /\ ~h'.evFromMain
               \/ h'.busy /\ h'.evFromMain
        BY <2>3, <3>1 DEF handle_throttle
      <3> QED
        BY <2>1, <2>2, <2>3, <3>2
    <2> QED BY <2>5, <2>6
  <1>3. ASSUME NEW f \in BOOLEAN, GotEventEof(f) PROVE Inv'
    <2>1. /\ pc = "exited" /\ Len(got) = nread /\ told = 0
          /\ h.alloc /\ ~h.moribund /\ ~h.defunct /\ ~h.done
      BY <1>3 DEF GotEventEof, HasEvent
    <2>2. /\ h' \in Handle /\ ~h'.busy /\ ~h'.evToMain /\ h'.defunct
          /\ ~h'.moribund /\ ~h'.done
      BY <1>3, <2>1 DEF GotEventEof, EventTaken, Idle
    <2>3. /\ pc' = "exited" /\ told' = 1 /\ got' = got /\ nread' = nread
          /\ backlog' = backlog /\ buf' = buf /\ readerr' = readerr
          /\ ignoreeof' = ignoreeof
      BY <1>3, <2>1 DEF GotEventEof
    <2> QED
      BY <2>1, <2>2, <2>3
  <1>4. CASE Free
    BY <1>4, ZenonT(30) DEF Free
  <1>5. ASSUME NEW b \in Backlogs, Unthrottle(b) PROVE Inv'
    <2>1. /\ backlog' = b /\ b \in Nat /\ got' = got /\ told' = told
          /\ pc' = pc /\ buf' = buf /\ readerr' = readerr /\ nread' = nread
          /\ ignoreeof' = ignoreeof /\ Owned
          /\ h' = handle_throttle(h, b)
      BY <1>5 DEF Unthrottle
    <2>2. CASE h.defunct \/ h.busy \/ b >= MAX_BACKLOG
      <3>1. h' = h
        BY <2>1, <2>2 DEF handle_throttle
      <3> QED
        BY <2>1, <2>2, <3>1
    <2>3. CASE ~(h.defunct \/ h.busy \/ b >= MAX_BACKLOG)
      <3>1. /\ h' = [h EXCEPT !.evFromMain = TRUE, !.busy = TRUE]
            /\ h' \in Handle
        BY <2>1, <2>3 DEF handle_throttle
      <3>2. pc \in {"wait", "exited"}
        BY <2>3
      <3> QED
        BY <2>1, <2>3, <3>1, <3>2
    <2> QED
      BY <2>2, <2>3
  <1> QED
    BY <1>1, <1>2, <1>3, <1>4, <1>5 DEF Main, GotEvent

(* The invariant holds in every reachable state.                           *)
LEMMA Invariance == Safe => []Inv
  <1>1. Inv /\ [Next]_vars => Inv'
    <2> SUFFICES ASSUME Inv, [Next]_vars PROVE Inv'
      OBVIOUS
    <2>1. CASE UNCHANGED vars
      BY <2>1 DEF vars, Inv, TypeOK, Working, Waiting, Woken, Life, Data,
                  Pending, Ended, Owned, StoppedOnlyByBacklog
    <2> QED
      BY <2>1, SubthreadInv, MainInv DEF Next
  <1> QED
    BY <1>1, InitInv, PTL DEF Safe

(* handle_free and handle_got_event never free the structure from under    *)
(* its subthread.                                                          *)
THEOREM ThreadContextAlive == Safe => []NoUseAfterFree
  <1>1. Inv => NoUseAfterFree
    BY DEF Inv, Life, NoUseAfterFree
  <1> QED
    BY <1>1, Invariance, PTL

(* gotdata sees the source's chunks once, whole and in order.              *)
THEOREM ChunksInOrder == Safe => []DeliveredInOrder
  <1>1. Inv => DeliveredInOrder
    BY DEF Inv, Data, Pending, Ended, Owned, DeliveredInOrder
  <1> QED
    BY <1>1, Invariance, PTL

(* Reading stops only for as long as the client's backlog is too large.    *)
THEOREM Backpressure == Safe => []StoppedOnlyByBacklog
  <1>1. Inv => StoppedOnlyByBacklog
    BY DEF Inv
  <1> QED
    BY <1>1, Invariance, PTL

(* The end of the data is reported once, by a subthread that has gone.     *)
THEOREM EndReportedOnce == Safe => []EofIsFinal
  <1>1. Inv => EofIsFinal
    BY DEF Inv, TypeOK, Handle, Data, Life, EofIsFinal
  <1> QED
    BY <1>1, Invariance, PTL

(* The client's whole view of an input handle, from the three parts above. *)
THEOREM ClientViewHolds == Safe => []ClientView
  BY ChunksInOrder, Backpressure, EndReportedOnce, PTL DEF ClientView

(* The variables keep their types.                                         *)
THEOREM TypeCorrect == Safe => []TypeOK
  <1>1. Inv => TypeOK
    BY DEF Inv
  <1> QED
    BY <1>1, Invariance, PTL

(* Every step of the two threads is, for the client, a step of the promise *)
(* or nothing at all.                                                      *)
LEMMA StepRefines == Inv /\ [Next]_vars => [Abs!InNext]_(Abs!InVars)
  <1> SUFFICES ASSUME Inv, [Next]_vars
               PROVE  [Abs!InNext]_(Abs!InVars)
    OBVIOUS
  <1> USE DEF Owned, AbsState, Abs!InVars
  <1>1. CASE UNCHANGED vars
    BY <1>1 DEF vars
  <1>2. CASE Subthread
    <2>1. /\ got' = got
          /\ h'.alloc = h.alloc /\ h'.moribund = h.moribund
          /\ h'.defunct = h.defunct /\ h'.busy = h.busy
      BY <1>2 DEF Subthread, ReadData, ReadEof, ReadIgnored, ReadFails,
                  Signal, SignalFinished, Wake, Check, Die, ThreadOnly,
                  Inv, TypeOK, Handle
    <2> QED
      BY <2>1
  <1>3. CASE GotEventMoribund
    <2>1. got' = got /\ ~Owned /\ ~Owned'
      BY <1>3 DEF GotEventMoribund, got_event_moribund, EventTaken,
                  handle_destroy, signal_to_die, Inv, TypeOK, Handle
    <2> QED
      BY <2>1
  <1>4. ASSUME NEW b \in Backlogs, NEW f \in BOOLEAN, GotEventData(b, f)
        PROVE  Abs!InData(b, f)
    <2>1. /\ pc = "wait" /\ buf = nread /\ Len(got) = nread - 1
          /\ nread \in 1..MaxReads
      BY <1>4, MaxReadsAssumption
         DEF GotEventData, HasEvent, Inv, TypeOK, Handle, PCs, Data,
             Pending, Ended, Working, Woken, Life, EOF
    <2>2. /\ h \in Handle /\ h.alloc /\ h.busy /\ ~h.moribund
          /\ ~h.defunct /\ ~h.done
      BY <1>4, <2>1 DEF GotEventData, HasEvent, Inv, TypeOK, Waiting, Life
    <2>3. AbsState = "reading" /\ Len(got) < MaxReads
          /\ got' = Append(got, Len(got) + 1)
      BY <1>4, <2>1, <2>2, MaxReadsAssumption DEF GotEventData
    <2>4. /\ Idle \in Handle /\ Idle.alloc /\ ~Idle.busy /\ ~Idle.moribund
          /\ ~Idle.defunct
      BY <2>2 DEF Idle, EventTaken, Handle
    <2>5. AbsState' = IF f THEN "freed"
                      ELSE IF b < MAX_BACKLOG THEN "reading" ELSE "stopped"
      <3>1. CASE f
        <4>1. handle_free(Idle).moribund
          BY <2>4 DEF handle_free, signal_to_die, Handle
        <4>2. handle_throttle(handle_free(Idle), b).moribund
          BY <2>4, <4>1 DEF handle_throttle, handle_free, signal_to_die,
                            Handle
        <4> QED
          BY <1>4, <3>1, <4>2 DEF GotEventData
      <3>2. CASE ~f
        <4>1. h' = handle_throttle(Idle, b)
          BY <1>4, <3>2 DEF GotEventData
        <4>2. b \in Nat /\ MAX_BACKLOG \in Nat
          BY BacklogAssumption
        <4>3. /\ h'.alloc /\ ~h'.moribund /\ ~h'.defunct
              /\ h'.busy <=> b < MAX_BACKLOG
          BY <2>4, <4>1, <4>2 DEF handle_throttle, Handle
        <4> QED
          BY <3>2, <4>3
      <3> QED
        BY <3>1, <3>2
    <2> QED
      BY <2>3, <2>5 DEF Abs!InData
  <1>5. ASSUME NEW f \in BOOLEAN, GotEventEof(f) PROVE Abs!InEnd(f)
    <2>1. /\ h \in Handle /\ h.alloc /\ h.busy /\ ~h.moribund /\ ~h.defunct
      BY <1>5, MaxReadsAssumption
         DEF GotEventEof, HasEvent, Inv, TypeOK, Handle, PCs, Data, Pending,
             Ended, Working, Waiting, Woken, Life, EOF, StoppedOnlyByBacklog
    <2>2. got' = got
      BY <1>5 DEF GotEventEof
    <2>3. AbsState' = IF f THEN "freed" ELSE "ended"
      BY <1>5, <2>1 DEF GotEventEof, Idle, EventTaken, handle_free,
                        handle_destroy, Handle
    <2> QED
      BY <2>1, <2>2, <2>3 DEF Abs!InEnd
  <1>6. CASE Free
    <2>1. AbsState # "freed" /\ AbsState' = "freed" /\ got' = got
      BY <1>6 DEF Free, handle_free, handle_destroy, signal_to_die, Inv,
                  TypeOK, Handle
    <2> QED
      BY <2>1 DEF Abs!InFree, Abs!InNext
  <1>7. ASSUME NEW b \in Backlogs, Unthrottle(b) PROVE Abs!InUnthrottle(b)
    <2>1. /\ Owned /\ h' = handle_throttle(h, b) /\ got' = got
          /\ h \in Handle /\ b \in Nat /\ MAX_BACKLOG \in Nat
      BY <1>7, BacklogAssumption DEF Unthrottle, Inv, TypeOK
    <2>2. /\ h'.alloc /\ ~h'.moribund /\ h'.defunct = h.defunct
          /\ h'.busy <=> h.busy \/ (~h.defunct /\ b < MAX_BACKLOG)
      BY <2>1 DEF handle_throttle, Handle
    <2> QED
      BY <2>1, <2>2 DEF Abs!InUnthrottle
  <1> QED
    BY <1>1, <1>2, <1>3, <1>4, <1>5, <1>6, <1>7
       DEF Next, Main, GotEvent, Abs!InNext

(* An input handle, with its thread, events and flags, implements what     *)
(* HandleInputSpec promises the sockets and console readers built on it.   *)
THEOREM Refinement == Safe => ImplementsHandleInputSpec
  <1>1. Init => Abs!InInit
    BY DEF Init, handle_input_new, handle_new, AbsState, Owned, Abs!InInit
  <1> QED
    BY <1>1, StepRefines, Invariance, PTL
       DEF Safe, ImplementsHandleInputSpec, Abs!Spec
=============================================================================
