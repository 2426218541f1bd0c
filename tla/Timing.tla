------------------------------- MODULE Timing -------------------------------
(***************************************************************************)
(* timing.c: the timers of the program, ordered by a tick count that wraps,*)
(* and the part of windows/window.c that asks Windows for one WM_TIMER at  *)
(* the time of the first of them.                                          *)
(*                                                                         *)
(* tm is what timing.c keeps (timers, contexts, now) together with the     *)
(* window's timer.  Operators take a tm and the value c of GETTICKCOUNT    *)
(* and return a tm, as the functions change the static variables.  A turn  *)
(* of the loop in run_timers is a step, since the functions it calls       *)
(* schedule timers themselves.  A timer's field left and the field slept   *)
(* are not in the code: left is the true number of ticks until the timer   *)
(* is due, which the code can only infer from numbers that wrap.           *)
(***************************************************************************)
EXTENDS Integers

CONSTANTS
    Ctx,            \* addresses of objects that have timers
    TickRange,      \* number of values of the tick count: 2^32
    Slack,          \* the 10 ticks of tolerance in run_timers
    LateTicks,      \* 10 * TICKSPERSEC
    MaxDelay,       \* bound: the longest delay asked for
    SleepTicks,     \* ticks that pass while the machine sleeps
    MaxLate         \* bound: ticks by which a timer is overdue

ASSUME TickAssumption ==
    /\ Ctx \subseteq Nat
    /\ {TickRange, Slack, LateTicks, MaxDelay, SleepTicks, MaxLate} \subseteq Nat
    /\ TickRange % 2 = 0
    /\ 2 * (MaxLate + MaxDelay + Slack) < TickRange

VARIABLES
    clock,      \* GETTICKCOUNT()
    tm,         \* the timers and the window's timer
    running     \* run_timers is in its loop

Half == TickRange \div 2

(* An unsigned difference, and the same bits as a long.                    *)
Diff(a, b) == (a - b) % TickRange

SignedDiff(a, b) == IF Diff(a, b) >= Half THEN Diff(a, b) - TickRange ELSE Diff(a, b)

Timers == [ctx : Ctx, now : 0..TickRange - 1, when_set : 0..TickRange - 1, left : -MaxLate..MaxDelay]

TypeOKTiming ==
    /\ clock \in 0..TickRange - 1
    /\ tm \in [timers : SUBSET Timers, contexts : SUBSET Ctx, now : 0..TickRange - 1,
               armed : BOOLEAN, wait : 0..MaxDelay, slept : BOOLEAN]
    /\ running \in BOOLEAN

(* The order of the tree when now is the clock it was last used with.  No  *)
(* two timers are equal in all the fields it compares.                     *)
compare_timers(a, b, now) ==
    \/ SignedDiff(a.now, now) < SignedDiff(b.now, now)
    \/ a.now = b.now /\ a.ctx < b.ctx

First(m) == CHOOSE t \in m.timers : \A u \in m.timers \ {t} : compare_timers(t, u, m.now)

(* init_timers, called by whichever function comes first.                  *)
InitTiming(c) ==
    [timers |-> {}, contexts |-> {}, now |-> c, armed |-> FALSE, wait |-> 0, slept |-> FALSE]

(* The window's timer replaces the one set before.                         *)
timer_change_notify(m, c, next) ==
    [m EXCEPT !.armed = TRUE,
              !.wait = IF Diff(c, next) < Half - 1 THEN 0 ELSE Diff(next, c),
              !.slept = FALSE]

(* A timer due now is put off to the next tick: when - now is unsigned.    *)
When(c, ticks) == IF Diff(ticks, 0) = 0 THEN (c + 1) % TickRange ELSE (c + ticks) % TickRange

(* The context is registered only with a timer that was not there before.  *)
schedule_timer(m, c, ticks, ctx) ==
    LET when == When(c, ticks)
        t == [ctx |-> ctx, now |-> when, when_set |-> c, left |-> Diff(when, c)]
        same == \E u \in m.timers : u.ctx = ctx /\ u.now = when
        m1 == [m EXCEPT !.now = c, !.timers = IF same THEN @ ELSE @ \cup {t},
                        !.contexts = IF same THEN @ ELSE @ \cup {ctx}]
        first == First(m1)
    IN  IF (first = t /\ ~same) \/ (first.now + LateTicks) % TickRange < c
        THEN timer_change_notify(m1, c, first.now)
        ELSE m1

(* The timers stay in the tree until they come first.                      *)
expire_timer_context(m, ctx) == [m EXCEPT !.contexts = @ \ {ctx}]

(* The test of run_timers, relative to a little before the timer was set,  *)
(* and a plain comparison in its place.                                    *)
Reached_plain(t, now) == now > t.now

Reached(t, now) == Diff(now, t.when_set - Slack) > Diff(t.now, t.when_set - Slack)

Active(m) == {t \in m.timers : t.ctx \in m.contexts}
-----------------------------------------------------------------------------
(* Time passes; Windows counts down to WM_TIMER.                           *)
Tick ==
    /\ \A t \in tm.timers : t.left > -MaxLate
    /\ clock' = (clock + 1) % TickRange
    /\ tm' = [tm EXCEPT !.timers = {[t EXCEPT !.left = @ - 1] : t \in @},
                        !.wait = IF @ > 0 THEN @ - 1 ELSE 0]
    /\ UNCHANGED running

(* While the machine sleeps only the tick count goes on.                   *)
Sleep ==
    /\ ~running
    /\ SleepTicks > 0
    /\ \A t \in tm.timers : t.left - SleepTicks - tm.wait > -MaxLate
    /\ clock' = (clock + SleepTicks) % TickRange
    /\ tm' = [tm EXCEPT !.timers = {[t EXCEPT !.left = @ - SleepTicks] : t \in @}, !.slept = TRUE]
    /\ UNCHANGED running

(* WM_TIMER: the window's timer is killed and run_timers begins.           *)
WmTimer ==
    /\ ~running
    /\ tm.armed
    /\ tm.wait = 0
    /\ tm' = [tm EXCEPT !.armed = FALSE, !.now = clock]
    /\ running' = TRUE
    /\ UNCHANGED clock

(* The first timer belongs to an expired context.                          *)
RunDrop ==
    /\ running
    /\ tm.timers # {}
    /\ First(tm).ctx \notin tm.contexts
    /\ tm' = [tm EXCEPT !.timers = @ \ {First(tm)}]
    /\ UNCHANGED <<clock, running>>

(* The first timer is to be run: fn(ctx, now) follows in the same step.    *)
RunReady == running /\ tm.timers # {} /\ First(tm).ctx \in tm.contexts /\ Reached(First(tm), tm.now)

(* No timer, or one that is active and not due: run_timers returns, and    *)
(* the window asks to be woken for it.                                     *)
RunReturn ==
    /\ running
    /\ tm.timers # {} => First(tm).ctx \in tm.contexts /\ ~Reached(First(tm), tm.now)
    /\ running' = FALSE
    /\ tm' = IF tm.timers = {} THEN tm ELSE timer_change_notify(tm, clock, First(tm).now)
    /\ UNCHANGED clock
=============================================================================
