------------------------------- MODULE Pinger -------------------------------
(***************************************************************************)
(* pinger.c: keepalives, the clients of timing.c whose timers are set,     *)
(* overtaken by shorter ones, cancelled and, when a session ends, left     *)
(* behind.  A pinger lives at an address, which a later one may be given   *)
(* again.                                                                  *)
(***************************************************************************)
EXTENDS Timing, FiniteSets

CONSTANTS
    Intervals,      \* keepalive intervals, in ticks; 0 is off
    MaxTimers,      \* bound: timers in the tree
    Unguarded       \* "same end": a timer is set for an address while one of a
                    \* former object there is left that ends in the same tick

ASSUME IntervalAssumption == Intervals \subseteq 0..MaxDelay /\ MaxTimers \in Nat

VARIABLE
    ping        \* ping[a]: the Pinger at a

vars == <<clock, tm, running, ping>>

None == [alive |-> FALSE, interval |-> 0, pending |-> FALSE, next |-> 0, when_set |-> 0]

Init ==
    /\ clock \in {0, TickRange - 2}
    /\ tm = InitTiming(clock)
    /\ running = FALSE
    /\ ping = [a \in Ctx |-> None]

(* pinger_schedule that always goes by the timer set last.                 *)
pinger_schedule_latest(a, p, m) ==
    IF p.interval = 0 THEN [p |-> [p EXCEPT !.pending = FALSE, !.next = 0, !.when_set = 0], m |-> m]
    ELSE [p |-> [p EXCEPT !.pending = TRUE, !.next = When(clock, p.interval), !.when_set = clock],
          m |-> schedule_timer(m, clock, p.interval, a)]

(* pinger_schedule: the earlier of the new end and the pending one counts; *)
(* the other timer stays and will be ignored.  Without pending, next and   *)
(* when_set are not read, and their old values are not kept.               *)
pinger_schedule(a, p, m) ==
    LET next == When(clock, p.interval)
        sooner == ~p.pending \/ Diff(next, p.when_set) < Diff(p.next, p.when_set)
    IN  IF p.interval = 0 THEN [p |-> [p EXCEPT !.pending = FALSE, !.next = 0, !.when_set = 0], m |-> m]
        ELSE [p |-> IF sooner THEN [p EXCEPT !.pending = TRUE, !.next = next, !.when_set = clock] ELSE p,
              m |-> schedule_timer(m, clock, p.interval, a)]

Set(a, r) ==
    /\ ping' = [ping EXCEPT ![a] = r.p]
    /\ tm' = r.m
    /\ UNCHANGED <<clock, running>>

MaySchedule(a, i) ==
    /\ Cardinality(tm.timers) < MaxTimers
    /\ \/ "same end" \in Unguarded
       \/ i = 0
       \/ a \in tm.contexts
       \/ \A t \in tm.timers : t.ctx = a => t.now # When(clock, i)

pinger_new(a, i) ==
    /\ ~running
    /\ ~ping[a].alive
    /\ MaySchedule(a, i)
    /\ Set(a, pinger_schedule(a, [None EXCEPT !.alive = TRUE, !.interval = i], tm))

pinger_reconfig(a, i) ==
    /\ ~running
    /\ ping[a].alive
    /\ ping[a].interval # i
    /\ MaySchedule(a, i)
    /\ Set(a, pinger_schedule(a, [ping[a] EXCEPT !.interval = i], tm))

(* pinger_free that does not expire its timers.                            *)
pinger_free_keeps_context(a) ==
    /\ ~running
    /\ ping[a].alive
    /\ Set(a, [p |-> None, m |-> tm])

pinger_free(a) ==
    /\ ~running
    /\ ping[a].alive
    /\ Set(a, [p |-> None, m |-> expire_timer_context(tm, a)])

(* run_timers calls pinger_timer(ctx, now): a ping, and the next timer,    *)
(* unless this is not the timer the pinger waits for.                      *)
pinger_timer(a) ==
    /\ RunReady
    /\ First(tm).ctx = a
    /\ LET m == [tm EXCEPT !.timers = @ \ {First(tm)}]
       IN  IF ping[a].pending /\ First(tm).now = ping[a].next
           THEN Set(a, pinger_schedule(a, [ping[a] EXCEPT !.pending = FALSE], m))
           ELSE Set(a, [p |-> ping[a], m |-> m])

Pings(a) == pinger_timer(a) /\ ping[a].pending /\ First(tm).now = ping[a].next

TimingStep == (Tick \/ Sleep \/ WmTimer \/ RunDrop \/ RunReturn) /\ UNCHANGED ping

Next ==
    \/ TimingStep
    \/ \E a \in Ctx :
          \/ \E i \in Intervals : pinger_new(a, i) \/ pinger_reconfig(a, i)
          \/ pinger_free(a)
          \/ pinger_timer(a)

Loop ==
    \/ (WmTimer \/ RunDrop \/ RunReturn) /\ UNCHANGED ping
    \/ \E a \in Ctx : pinger_timer(a)

Safe == Init /\ [][Next]_vars

Spec == Safe /\ WF_vars(Tick /\ UNCHANGED ping) /\ WF_vars(Loop)
-----------------------------------------------------------------------------
(* Every variable keeps its type; the numbers of ticks left stay within    *)
(* the bounds and agree with what the code infers from wrapping numbers.   *)
TypeOK ==
    /\ TypeOKTiming
    /\ \A t \in tm.timers : SignedDiff(t.now, clock) = t.left
    /\ ping \in [Ctx -> [alive : BOOLEAN, interval : Intervals \cup {0}, pending : BOOLEAN,
                         next : 0..TickRange - 1, when_set : 0..TickRange - 1]]

(* run_timers runs no timer before its time, and none before another       *)
(* active one that was due earlier, wherever the tick count wraps.         *)
RunWhenDue ==
    [][\A t \in Active(tm) : (\A u \in tm'.timers : u.ctx # t.ctx \/ u.now # t.now)
          => t.left <= 0 /\ \A u \in Active(tm) : t.left <= u.left]_vars

(* A pinger that waits for a ping has a timer in the tree that will call   *)
(* it and that it will recognise: the timer it goes by, of a context that  *)
(* is registered; and a dead pinger has no registered context.             *)
PendingHasTimer ==
    \A a \in Ctx :
        /\ ping[a].pending => \E t \in Active(tm) : t.ctx = a /\ t.now = ping[a].next
        /\ a \in tm.contexts => ping[a].alive
        /\ ping[a].alive /\ ping[a].interval > 0 => ping[a].pending

(* Outside run_timers the window's timer is set for the first active timer *)
(* or before it, unless the machine has slept since.                       *)
WindowWakes ==
    \A t \in Active(tm) : 
        \/ running
        \/ tm.armed /\ (tm.slept \/ tm.wait <= (IF t.left > 0 THEN t.left ELSE 0))

(* A ping that is waited for will come: its timer is in the tree, and the  *)
(* window's timer is set to look at it.                                    *)
PingIsComing == PendingHasTimer /\ WindowWakes

(* A pinger that stays configured pings again and again.                   *)
KeepsPinging ==
    \A a \in Ctx : <>[](ping[a].alive /\ ping[a].interval > 0) => []<><<Pings(a)>>_vars
=============================================================================
