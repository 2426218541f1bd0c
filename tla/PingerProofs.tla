---------------------------- MODULE PingerProofs ----------------------------
(***************************************************************************)
(* Safety of Pinger and Timing for every range of the tick count and every *)
(* set of pingers: 2^32 ticks and all the sessions of a program included.  *)
(*                                                                         *)
(* All comparisons of timing.c are between numbers that wrap.  The lemmas  *)
(* below turn each of them into one between numbers of ticks that do not,  *)
(* as long as no timer is set for longer, or left for longer, than half    *)
(* the range: then the order of the tree is that of the ticks left, and    *)
(* the test of run_timers asks whether there are any.                      *)
(***************************************************************************)
EXTENDS Pinger, WellFoundedInduction, TLAPS

Ticks == 0..TickRange - 1

TimingState ==
    [timers : SUBSET Timers, contexts : SUBSET Ctx, now : Ticks,
     armed : BOOLEAN, wait : 0..MaxDelay, slept : BOOLEAN]

(* What holds of the timers of m when the clock is c.  The ticks left are  *)
(* those the code infers; a timer was set before the tree was last used,   *)
(* and no two are for the same context and the same tick.                  *)
InTime(m, c) == \A t \in m.timers : SignedDiff(t.now, c) = t.left

Lagging(m, c) ==
    \A t \in m.timers :
        /\ Diff(t.now, t.when_set) \in 1..MaxDelay
        /\ Diff(c, m.now) <= Diff(t.now, t.when_set) - t.left

OneEach(m) == \A t, u \in m.timers : t.ctx = u.ctx /\ t.now = u.now => t = u

Tree(m, c) == m \in TimingState /\ InTime(m, c) /\ Lagging(m, c) /\ OneEach(m)

(* The window is set to look at every timer, of whatever context.          *)
InReach(m, t) == m.armed /\ (m.slept \/ m.wait <= (IF t.left > 0 THEN t.left ELSE 0))

Awake(m, r) == \A t \in m.timers : r \/ InReach(m, t)

(* Each pinger of pg has its timer in m.                                   *)
Served(m, pg) ==
    \A a \in Ctx :
        /\ pg[a].pending => \E t \in Active(m) : t.ctx = a /\ t.now = pg[a].next
        /\ a \in m.contexts => pg[a].alive
        /\ pg[a].alive /\ pg[a].interval > 0 => pg[a].pending

PingState ==
    [alive : BOOLEAN, interval : Intervals \cup {0}, pending : BOOLEAN,
     next : Ticks, when_set : Ticks]

(* The part that holds whatever "same end" allows, and all of it.          *)
Timely ==
    /\ clock \in Ticks
    /\ running \in BOOLEAN
    /\ Tree(tm, clock)
    /\ Awake(tm, running)
    /\ ping \in [Ctx -> PingState]

Serving == Served(tm, ping)

Inv == Timely /\ Serving
-----------------------------------------------------------------------------
(* Numbers that wrap.                                                      *)
LEMMA Numbers ==
    /\ TickRange \in Nat /\ Slack \in Nat /\ MaxDelay \in Nat /\ MaxLate \in Nat
    /\ LateTicks \in Nat /\ SleepTicks \in Nat
    /\ Half \in Nat /\ TickRange = 2 * Half
    /\ MaxLate + MaxDelay + Slack < Half
  <1>1. /\ TickRange \in Nat /\ Slack \in Nat /\ MaxDelay \in Nat /\ MaxLate \in Nat
        /\ LateTicks \in Nat /\ SleepTicks \in Nat
    BY TickAssumption
  <1>2. Half \in Nat /\ TickRange = 2 * Half
    BY <1>1, TickAssumption DEF Half
  <1> QED
    BY <1>1, <1>2, TickAssumption

LEMMA ZeroTick == 0 \in Ticks
  <1>1. TickRange \in Nat /\ TickRange > 0
    BY Numbers
  <1> QED
    BY <1>1 DEF Ticks

LEMMA DiffIs ==
    ASSUME NEW a \in Int, NEW b \in Int, NEW k \in Ticks,
           a - b = k \/ a - b = k + TickRange \/ a - b = k - TickRange
    PROVE  Diff(a, b) = k
  BY Numbers DEF Diff, Ticks

LEMMA DiffIn ==
    ASSUME NEW a \in Ticks, NEW b \in Ticks
    PROVE  /\ Diff(a, b) \in Ticks
           /\ a - b = Diff(a, b) \/ a - b = Diff(a, b) - TickRange
  <1>1. CASE a >= b
    BY <1>1, Numbers DEF Diff, Ticks
  <1>2. CASE a < b
    <2>1. a - b + TickRange \in Ticks
      BY <1>2, Numbers DEF Ticks
    <2>2. Diff(a, b) = a - b + TickRange
      BY <2>1, DiffIs, Numbers DEF Ticks
    <2> QED
      BY <2>1, <2>2, Numbers DEF Ticks
  <1> QED
    BY <1>1, <1>2 DEF Ticks

(* k ticks from b to a, forwards or backwards by less than half the range. *)
LEMMA SignedIs ==
    ASSUME NEW a \in Ticks, NEW b \in Ticks, NEW k \in Int, -Half < k, k < Half,
           a - b = k \/ a - b = k + TickRange \/ a - b = k - TickRange
    PROVE  SignedDiff(a, b) = k
  <1>1. CASE k >= 0
    <2>1. Diff(a, b) = k
      BY <1>1, DiffIs, Numbers DEF Ticks
    <2> QED
      BY <1>1, <2>1, Numbers DEF SignedDiff
  <1>2. CASE k < 0
    <2>1. k + TickRange \in Ticks
      BY <1>2, Numbers DEF Ticks
    <2>2. Diff(a, b) = k + TickRange
      <3>1. a - b = (k + TickRange) \/ a - b = (k + TickRange) - TickRange
        BY <1>2, Numbers DEF Ticks
      <3> QED
        BY <2>1, <3>1, DiffIs DEF Ticks
    <2> QED
      BY <1>2, <2>2, Numbers DEF SignedDiff
  <1> QED
    BY <1>1, <1>2

LEMMA SignedIn ==
    ASSUME NEW a \in Ticks, NEW b \in Ticks
    PROVE  /\ SignedDiff(a, b) \in Int
           /\ \/ a - b = SignedDiff(a, b)
              \/ a - b = SignedDiff(a, b) + TickRange
              \/ a - b = SignedDiff(a, b) - TickRange
  <1>1. PICK d \in Ticks : d = Diff(a, b) /\ (a - b = d \/ a - b = d - TickRange)
    BY DiffIn
  <1> QED
    BY <1>1, Numbers DEF SignedDiff, Ticks

(* The clock goes on by k ticks.                                           *)
LEMMA Later ==
    ASSUME NEW c \in Ticks, NEW k \in Nat
    PROVE  (c + k) % TickRange \in Ticks
  BY Numbers DEF Ticks

LEMMA LaterIs ==
    ASSUME NEW c \in Ticks, NEW k \in Nat, k < TickRange
    PROVE  (c + k) % TickRange = c + k \/ (c + k) % TickRange = c + k - TickRange
  <1>1. CASE c + k < TickRange
    BY <1>1, Numbers DEF Ticks
  <1>2. CASE c + k >= TickRange
    BY <1>2, Numbers DEF Ticks
  <1> QED
    BY <1>1, <1>2, Numbers DEF Ticks
-----------------------------------------------------------------------------
(* The timers of a tree.                                                   *)
LEMMA TimerType ==
    ASSUME NEW m \in TimingState, NEW t \in m.timers
    PROVE  /\ t \in Timers
           /\ t.ctx \in Ctx /\ t.now \in Ticks /\ t.when_set \in Ticks
           /\ t.left \in -MaxLate..MaxDelay /\ t.left \in Int
  <1>1. t \in Timers
    BY DEF TimingState
  <1>2. t.left \in -MaxLate..MaxDelay
    BY <1>1 DEF Timers
  <1> QED
    BY <1>1, <1>2, Numbers DEF Timers, Ticks

(* The tree was last used e ticks after t was set, lag ticks ago.          *)
LEMMA TimerTicks ==
    ASSUME NEW c \in Ticks, NEW m, Tree(m, c), NEW t \in m.timers
    PROVE  /\ Diff(c, m.now) \in Nat
           /\ t.left + Diff(c, m.now) <= MaxDelay
           /\ SignedDiff(t.now, m.now) = t.left + Diff(c, m.now)
           /\ Reached(t, m.now) <=> t.left + Diff(c, m.now) < 0
  <1>1. m \in TimingState /\ m.now \in Ticks
    BY DEF Tree, TimingState
  <1>2. t.now \in Ticks /\ t.when_set \in Ticks /\ t.left \in -MaxLate..MaxDelay
    BY <1>1, TimerType
  <1>3. PICK w \in Ticks : w = t.now
    BY <1>2
  <1>4. PICK s \in Ticks : s = t.when_set
    BY <1>2
  <1>5. PICK l \in Int : l = t.left /\ -MaxLate <= l /\ l <= MaxDelay
    BY <1>2, Numbers
  <1>6. PICK n \in Ticks : n = m.now
    BY <1>1
  <1>7. PICK lag \in Ticks : lag = Diff(c, n) /\ (c - n = lag \/ c - n = lag - TickRange)
    BY DiffIn
  <1>8. PICK d \in Ticks : d = Diff(w, s) /\ (w - s = d \/ w - s = d - TickRange)
    BY DiffIn
  <1>9. 1 <= d /\ d <= MaxDelay /\ lag <= d - l
    BY <1>3, <1>4, <1>5, <1>6, <1>7, <1>8, Numbers DEF Tree, Lagging
  <1>10. w - c = l \/ w - c = l + TickRange \/ w - c = l - TickRange
    <2>1. SignedDiff(w, c) = l
      BY <1>3, <1>5 DEF Tree, InTime
    <2> QED
      BY <2>1, SignedIn
  <1>11. lag \in Nat /\ l + lag <= d /\ l + lag >= -MaxLate /\ l + lag < Half /\ -Half < l + lag
    BY <1>5, <1>9, Numbers DEF Ticks
  <1>12. SignedDiff(w, n) = l + lag
    <2>1. PICK k \in Int : k = l + lag
      BY <1>11
    <2>2. c - n = lag \/ c - n = lag - TickRange
      BY <1>7
    <2>3. w - n = k \/ w - n = k + TickRange \/ w - n = k - TickRange
      <3>1. w \in Int /\ n \in Int /\ c \in Int /\ w - n \in -TickRange..TickRange
        BY Numbers DEF Ticks
      <3>2. CASE c - n = lag
        BY <1>10, <1>11, <2>1, <3>1, <3>2, Numbers
      <3>3. CASE c - n = lag - TickRange
        BY <1>10, <1>11, <2>1, <3>1, <3>3, Numbers
      <3> QED
        BY <2>2, <3>2, <3>3
    <2>4. -Half < k /\ k < Half
      BY <1>11, <2>1
    <2> QED
      BY <2>1, <2>3, <2>4, SignedIs
  <1> DEFINE b == s - Slack
  <1>16. b \in Int /\ w \in Int /\ n \in Int /\ s \in Int
    BY Numbers DEF Ticks
  <1>13. Diff(w, s - Slack) = d + Slack
    <2>1. PICK k \in Ticks : k = d + Slack
      BY <1>9, Numbers DEF Ticks
    <2>2. w - b = k \/ w - b = k - TickRange
      BY <1>8, <1>16, <2>1, Numbers DEF Ticks
    <2> HIDE DEF b
    <2>3. Diff(w, b) = k
      BY <1>16, <2>2, DiffIs
    <2> QED
      BY <2>1, <2>3 DEF b
  <1>14. Diff(n, s - Slack) = d - l - lag + Slack
    <2>1. PICK e \in Nat : e = d - l - lag
      BY <1>5, <1>9, <1>11 DEF Ticks
    <2>2. PICK k \in Ticks : k = e + Slack
      <3>1. e <= MaxDelay + MaxLate
        BY <1>5, <1>9, <1>11, <2>1, Numbers DEF Ticks
      <3> QED
        BY <3>1, Numbers DEF Ticks
    <2>3. n - s = e \/ n - s = e - TickRange \/ n - s = e + TickRange
      <3>1. PICK x \in Int : x = w - c
        BY DEF Ticks
      <3>2. PICK y \in Int : y = c - n
        BY DEF Ticks
      <3>3. PICK z \in Int : z = w - s
        BY DEF Ticks
      <3>4. n - s = z - x - y
        BY <1>16, <3>1, <3>2, <3>3 DEF Ticks
      <3>5. x = l \/ x = l + TickRange \/ x = l - TickRange
        BY <1>10, <3>1
      <3>6. y = lag \/ y = lag - TickRange
        BY <1>7, <3>2
      <3>7. z = d \/ z = d - TickRange
        BY <1>8, <3>3
      <3>8. n - s \in -TickRange..TickRange /\ n - s < TickRange /\ -TickRange < n - s
        BY Numbers DEF Ticks
      <3>9. e < TickRange
        BY <2>2, Numbers DEF Ticks
      <3>10. d \in Int /\ lag \in Int /\ TickRange \in Int
        BY Numbers DEF Ticks
      <3>11. PICK q \in Int : q = n - s
        BY <1>16
      <3>12. q = z - x - y /\ q < TickRange /\ -TickRange < q
        BY <3>4, <3>8, <3>11
      <3>13. ASSUME z = d
             PROVE  q = e \/ q = e - TickRange \/ q = e + TickRange
        BY <1>5, <2>1, <3>5, <3>6, <3>9, <3>10, <3>11, <3>12, <3>13
      <3>14. ASSUME z = d - TickRange
             PROVE  q = e \/ q = e - TickRange \/ q = e + TickRange
        BY <1>5, <2>1, <3>5, <3>6, <3>9, <3>10, <3>11, <3>12, <3>14
      <3>15. q = e \/ q = e - TickRange \/ q = e + TickRange
        BY <3>7, <3>13, <3>14
      <3> QED
        BY <3>11, <3>15
    <2>4. n - b = k \/ n - b = k - TickRange \/ n - b = k + TickRange
      BY <1>16, <2>2, <2>3, Numbers
    <2> HIDE DEF b
    <2>5. Diff(n, b) = k
      BY <1>16, <2>4, DiffIs
    <2> QED
      BY <2>1, <2>2, <2>5 DEF b
  <1>15. Reached(t, n) <=> l + lag < 0
    BY <1>3, <1>4, <1>13, <1>14, <1>5, <1>9, Numbers DEF Reached, Ticks
  <1>17. Diff(c, m.now) = lag /\ t.left = l /\ t.now = w /\ m.now = n
    BY <1>3, <1>5, <1>6, <1>7
  <1>18. lag \in Nat /\ l + lag <= MaxDelay
    BY <1>9, <1>11, Numbers DEF Ticks
  <1> QED
    BY <1>12, <1>15, <1>17, <1>18

LEMMA NegativeSum ==
    ASSUME NEW l \in Int, NEW lag \in Nat, l + lag < 0
    PROVE  l <= 0
  OBVIOUS

(* A timer that run_timers runs is due.                                    *)
LEMMA ReachedIsDue ==
    ASSUME NEW c \in Ticks, NEW m, Tree(m, c), NEW t \in m.timers, Reached(t, m.now)
    PROVE  t.left <= 0
  <1>1. PICK l : l = t.left
    OBVIOUS
  <1>2. PICK lag : lag = Diff(c, m.now)
    OBVIOUS
  <1>3. l \in Int
    BY <1>1, TimerType DEF Tree
  <1>4. lag \in Nat /\ l + lag < 0
    BY <1>1, <1>2, TimerTicks
  <1> QED
    BY <1>1, <1>3, <1>4, NegativeSum

LEMMA LeastMember ==
    ASSUME NEW T, T \subseteq Nat, T # {}
    PROVE  \E x \in T : \A y \in T : x <= y
  <1> DEFINE R == OpToRel(<, Nat)
  <1>1. IsWellFoundedOn(R, Nat)
    BY NatLessThanWellFounded
  <1>2. PICK x \in T : \A y \in T : ~(<<y, x>> \in R)
    <2> HIDE DEF R
    <2> QED
      BY <1>1, WFMin
  <1>3. \A y \in T : ~(y < x)
    BY <1>2 DEF OpToRel
  <1> HIDE DEF R
  <1> QED
    BY <1>2, <1>3

(* Equal ticks left mean the same end.                                     *)
LEMMA SameEnd ==
    ASSUME NEW a \in Ticks, NEW b \in Ticks, NEW c \in Ticks, SignedDiff(a, c) = SignedDiff(b, c)
    PROVE  a = b
  <1>1. PICK x \in Int : x = SignedDiff(a, c)
    BY SignedIn
  <1> QED
    BY <1>1, SignedIn, Numbers DEF Ticks

(* No timer has fewer ticks left than f.                                   *)
Soonest(m, f) == \A u \in m.timers : f.left <= u.left

(* The tree has a first timer, and no other has fewer ticks left.          *)
LEMMA FirstIs ==
    ASSUME NEW c \in Ticks, NEW m, Tree(m, c), m.timers # {}
    PROVE  First(m) \in m.timers /\ Soonest(m, First(m))
  <1>1. m \in TimingState /\ m.now \in Ticks
    BY DEF Tree, TimingState
  <1> DEFINE First0(t) == \A u \in m.timers \ {t} : compare_timers(t, u, m.now)
             Lefts == {t.left + MaxLate : t \in m.timers}
  <1>2. PICK lag \in Int : lag = Diff(c, m.now)
    BY TimerTicks
  <1>3. \A t \in m.timers : SignedDiff(t.now, m.now) = t.left + lag
    BY <1>2, TimerTicks
  <1>4. PICK x \in Lefts : \A y \in Lefts : x <= y
    <2>1. Lefts \subseteq Nat
      <3>1. \A t \in m.timers : t.left + MaxLate \in Nat
        BY <1>1, TimerType, Numbers
      <3> QED
        BY <3>1
    <2>2. Lefts # {}
      OBVIOUS
    <2> QED
      BY <2>1, <2>2, LeastMember
  <1>5. PICK s \in m.timers : x = s.left + MaxLate
    BY <1>4
  <1>6. \A u \in m.timers : s.left <= u.left
    <2> TAKE u \in m.timers
    <2>1. u.left + MaxLate \in Lefts
      OBVIOUS
    <2>2. s.left + MaxLate <= u.left + MaxLate
      BY <1>4, <1>5, <2>1
    <2> QED
      BY <2>2, <1>1, TimerType, Numbers
  <1> DEFINE Ctxs == {t.ctx : t \in {v \in m.timers : v.left = s.left}}
  <1>7. PICK k \in Ctxs : \A y \in Ctxs : k <= y
    <2>1. Ctxs \subseteq Nat
      BY <1>1, TimerType, TickAssumption
    <2>2. s.ctx \in Ctxs
      OBVIOUS
    <2> QED
      BY <2>1, <2>2, LeastMember
  <1>8. PICK t \in m.timers : t.left = s.left /\ t.ctx = k
    BY <1>7
  <1>9. First0(t)
    <2> SUFFICES ASSUME NEW u \in m.timers, u # t
                 PROVE  compare_timers(t, u, m.now)
      OBVIOUS
    <2>1. t.left \in Int /\ u.left \in Int /\ t.left <= u.left
      BY <1>1, <1>6, <1>8, TimerType
    <2>2. CASE t.left < u.left
      <3>1. SignedDiff(t.now, m.now) < SignedDiff(u.now, m.now)
        BY <1>2, <1>3, <2>1, <2>2
      <3> QED
        BY <3>1 DEF compare_timers
    <2>3. CASE t.left = u.left
      <3>1. t.now = u.now
        <4>1. SignedDiff(t.now, m.now) = SignedDiff(u.now, m.now)
          BY <1>3, <2>3
        <4>2. t.now \in Ticks /\ u.now \in Ticks
          BY <1>1, TimerType
        <4> QED
          BY <1>1, <4>1, <4>2, SameEnd
      <3>2. u.ctx \in Ctxs
        BY <1>8, <2>3
      <3>3. t.ctx <= u.ctx
        BY <1>7, <1>8, <3>2
      <3>4. t.ctx # u.ctx
        BY <3>1 DEF Tree, OneEach
      <3>5. t.ctx \in Nat /\ u.ctx \in Nat
        BY <1>1, TimerType, TickAssumption
      <3>6. t.ctx < u.ctx
        BY <3>3, <3>4, <3>5
      <3> QED
        BY <3>1, <3>6 DEF compare_timers
    <2> QED
      BY <2>1, <2>2, <2>3
  <1>10. First(m) \in m.timers /\ First0(First(m))
    BY <1>9 DEF First
  <1>11. ASSUME NEW u \in m.timers
         PROVE  First(m).left <= u.left
    <2>1. PICK f \in m.timers : f = First(m)
      BY <1>10
    <2>2. f.left \in Int /\ u.left \in Int /\ f.now \in Ticks /\ u.now \in Ticks
      BY <1>1, TimerType
    <2>3. CASE f = u
      BY <2>1, <2>2, <2>3
    <2>4. CASE f # u
      <3>1. compare_timers(f, u, m.now)
        BY <1>10, <2>1, <2>4
      <3>2. f.left + lag <= u.left + lag
        BY <1>2, <1>3, <2>2, <3>1 DEF compare_timers
      <3> QED
        BY <1>2, <2>1, <2>2, <3>2
    <2> QED
      BY <2>3, <2>4
  <1> QED
    BY <1>10, <1>11 DEF Soonest
-----------------------------------------------------------------------------
(* Setting timers and the window's timer.                                  *)
LEMMA WhenIs ==
    ASSUME NEW c \in Ticks, NEW i \in 1..MaxDelay
    PROVE  /\ When(c, i) \in Ticks
           /\ Diff(When(c, i), c) = i
           /\ SignedDiff(When(c, i), c) = i
  <1>1. i \in Nat /\ 0 < i /\ i < Half /\ i \in Ticks /\ i < TickRange
    BY Numbers DEF Ticks
  <1>2. Diff(i, 0) = i
    BY <1>1, Numbers, DiffIs DEF Ticks
  <1>3. When(c, i) = (c + i) % TickRange
    BY <1>1, <1>2 DEF When
  <1>4. PICK w \in Ticks : w = When(c, i)
    BY <1>1, <1>3, Later
  <1>5. w = c + i \/ w = c + i - TickRange
    BY <1>1, <1>3, <1>4, LaterIs
  <1>6. w - c = i \/ w - c = i - TickRange
    BY <1>1, <1>5, Numbers DEF Ticks
  <1>7. w \in Int /\ c \in Int /\ -Half < i
    BY <1>1, Numbers DEF Ticks
  <1>8. Diff(w, c) = i
    BY <1>1, <1>6, <1>7, DiffIs
  <1>9. SignedDiff(w, c) = i
    BY <1>1, <1>6, <1>7, SignedIs
  <1> QED
    BY <1>4, <1>8, <1>9

(* timer_change_notify waits for as long as the timer has left.            *)
LEMMA WaitIs ==
    ASSUME NEW c \in Ticks, NEW next \in Ticks, NEW l \in -MaxLate..MaxDelay,
           1 <= MaxDelay, SignedDiff(next, c) = l
    PROVE  (IF Diff(c, next) < Half - 1 THEN 0 ELSE Diff(next, c)) = (IF l > 0 THEN l ELSE 0)
  <1>1. l \in Int /\ -MaxLate <= l /\ l <= MaxDelay
    BY Numbers
  <1>2. next - c = l \/ next - c = l + TickRange \/ next - c = l - TickRange
    BY SignedIn
  <1>3. CASE l > 0
    <2>1. TickRange - l \in Ticks /\ l \in Ticks
      BY <1>1, <1>3, Numbers DEF Ticks
    <2>2. PICK k \in Ticks : k = TickRange - l
      BY <2>1
    <2>3. c - next = k \/ c - next = k - TickRange
      BY <1>1, <1>2, <1>3, <2>2, Numbers DEF Ticks
    <2>4. Diff(c, next) = k
      BY <2>3, DiffIs, Numbers DEF Ticks
    <2>5. Diff(next, c) = l
      BY <1>2, <2>1, DiffIs, Numbers DEF Ticks
    <2>6. ~(k < Half - 1)
      BY <1>1, <2>2, Numbers
    <2> QED
      BY <1>3, <2>4, <2>5, <2>6
  <1>4. CASE l <= 0
    <2>1. -l \in Ticks /\ -l < Half - 1
      BY <1>1, <1>4, Numbers DEF Ticks
    <2>2. PICK k \in Ticks : k = -l
      BY <2>1
    <2>3. c - next = k \/ c - next = k - TickRange \/ c - next = k + TickRange
      BY <1>1, <1>2, <1>4, <2>2, Numbers DEF Ticks
    <2>4. Diff(c, next) = k
      BY <2>3, DiffIs, Numbers DEF Ticks
    <2>5. ~(l > 0)
      BY <1>1, <1>4
    <2> QED
      BY <2>1, <2>2, <2>4, <2>5
  <1> QED
    BY <1>1, <1>3, <1>4

(* Asking to be woken for the first timer is enough for all.               *)
Asked(m, n, c) ==
    Tree(n, c) /\ Awake(n, FALSE) /\ n.timers = m.timers /\ n.contexts = m.contexts

LEMMA Notified ==
    ASSUME NEW c \in Ticks, NEW m, Tree(m, c),
           NEW f \in m.timers, Soonest(m, f),
           NEW n, n = timer_change_notify(m, c, f.now)
    PROVE  Asked(m, n, c)
  <1>1. m \in TimingState
    BY DEF Tree
  <1>2. f.now \in Ticks /\ f.left \in -MaxLate..MaxDelay /\ SignedDiff(f.now, c) = f.left
    BY <1>1, TimerType DEF Tree, InTime
  <1>3. 1 <= MaxDelay
    <2>1. Diff(f.now, f.when_set) \in 1..MaxDelay
      BY DEF Tree, Lagging
    <2> QED
      BY <2>1, Numbers
  <1>4. PICK w : w = (IF f.left > 0 THEN f.left ELSE 0)
    OBVIOUS
  <1>5. w \in 0..MaxDelay
    BY <1>2, <1>4, Numbers
  <1>6. n = [m EXCEPT !.armed = TRUE, !.wait = w, !.slept = FALSE]
    BY <1>2, <1>3, <1>4, WaitIs DEF timer_change_notify
  <1>7. n \in TimingState
    BY <1>1, <1>5, <1>6 DEF TimingState
  <1>8. /\ n.timers = m.timers /\ n.contexts = m.contexts /\ n.now = m.now
        /\ n.armed = TRUE /\ n.wait = w
    BY <1>1, <1>6 DEF TimingState
  <1>9. Tree(n, c)
    BY <1>7, <1>8 DEF Tree, InTime, Lagging, OneEach
  <1>10. Awake(n, FALSE)
    <2> SUFFICES ASSUME NEW t \in m.timers
                 PROVE  w <= (IF t.left > 0 THEN t.left ELSE 0)
      BY <1>8 DEF Awake, InReach
    <2>1. f.left \in Int /\ t.left \in Int /\ f.left <= t.left
      BY <1>1, TimerType DEF Soonest
    <2> QED
      BY <1>4, <2>1
  <1> QED
    BY <1>8, <1>9, <1>10 DEF Asked

(* The tree just used, with a timer added.                                 *)
LEMMA Added ==
    ASSUME NEW c \in Ticks, NEW m, Tree(m, c), NEW i \in 1..MaxDelay, NEW a \in Ctx,
           NEW t, t = [ctx |-> a, now |-> When(c, i), when_set |-> c, left |-> Diff(When(c, i), c)],
           NEW K, K \in SUBSET Ctx, NEW S,
           S = m.timers \/ (S = m.timers \cup {t}
                            /\ \A u \in m.timers : ~(u.ctx = a /\ u.now = When(c, i))),
           NEW n, n = [m EXCEPT !.now = c, !.timers = S, !.contexts = K]
    PROVE  Tree(n, c)
  <1>1. m \in TimingState
    BY DEF Tree
  <1>2. PICK w \in Ticks : w = When(c, i) /\ Diff(w, c) = i /\ SignedDiff(w, c) = i
    BY WhenIs
  <1>3. t \in Timers /\ t.ctx = a /\ t.now = w /\ t.when_set = c /\ t.left = i
    BY <1>2, Numbers DEF Timers, Ticks
  <1>4. n.timers = S /\ n.now = c
    BY <1>1 DEF TimingState
  <1>5. n \in TimingState
    <2>1. S \subseteq Timers
      BY <1>1, <1>3 DEF TimingState
    <2>2. S \in SUBSET Timers
      BY <2>1
    <2>3. n = [timers |-> S, contexts |-> K, now |-> c, armed |-> m.armed,
               wait |-> m.wait, slept |-> m.slept]
      BY <1>1 DEF TimingState
    <2>4. m.armed \in BOOLEAN /\ m.wait \in 0..MaxDelay /\ m.slept \in BOOLEAN
      BY <1>1 DEF TimingState
    <2> QED
      BY <2>2, <2>3, <2>4 DEF TimingState
  <1>6. Diff(c, c) = 0
    <2>1. 0 \in Ticks /\ c \in Int /\ c - c = 0
      BY Numbers DEF Ticks
    <2> QED
      BY <2>1, DiffIs
  <1>7. InTime(n, c)
    BY <1>2, <1>3, <1>4 DEF Tree, InTime
  <1>8. Lagging(n, c)
    <2> SUFFICES ASSUME NEW u \in S
                 PROVE  /\ Diff(u.now, u.when_set) \in 1..MaxDelay
                        /\ 0 <= Diff(u.now, u.when_set) - u.left
      BY <1>4, <1>6 DEF Lagging
    <2>1. CASE u \in m.timers
      <3>1. PICK lag \in Nat : lag = Diff(c, m.now)
        BY <2>1, TimerTicks
      <3>2. PICK d \in 1..MaxDelay : d = Diff(u.now, u.when_set)
        BY <2>1 DEF Tree, Lagging
      <3>3. lag <= d - u.left
        BY <2>1, <3>1, <3>2 DEF Tree, Lagging
      <3>4. u.left \in Int
        BY <1>1, <2>1, TimerType
      <3> QED
        BY <3>1, <3>2, <3>3, <3>4
    <2>2. CASE u = t
      <3>1. i \in Int /\ 0 <= i - i
        OBVIOUS
      <3> QED
        BY <1>2, <1>3, <2>2, <3>1
    <2> QED
      BY <2>1, <2>2
  <1>9. OneEach(n)
    BY <1>2, <1>3, <1>4 DEF OneEach, Tree
  <1> QED
    BY <1>5, <1>7, <1>8, <1>9 DEF Tree

(* A timer of a for when will have a registered context.                   *)
Free(m, a, when) == a \in m.contexts \/ \A t \in m.timers : t.ctx = a => t.now # when

(* What pinger_schedule is promised by schedule_timer.                     *)
Scheduled(m, n, c, i, a) ==
    /\ Tree(n, c)
    /\ Awake(m, FALSE) => Awake(n, FALSE)
    /\ m.timers \subseteq n.timers
    /\ m.contexts \subseteq n.contexts /\ n.contexts \subseteq m.contexts \cup {a}
    /\ Free(m, a, When(c, i)) => \E t \in Active(n) : t.ctx = a /\ t.now = When(c, i)

LEMMA Scheduling ==
    ASSUME NEW c \in Ticks, NEW m, Tree(m, c), NEW i \in 1..MaxDelay, NEW a \in Ctx
    PROVE  Scheduled(m, schedule_timer(m, c, i, a), c, i, a)
  <1> DEFINE when == When(c, i)
             same == \E u \in m.timers : u.ctx = a /\ u.now = when
  <1>1. m \in TimingState
    BY DEF Tree
  <1>2. PICK t : t = [ctx |-> a, now |-> when, when_set |-> c, left |-> Diff(when, c)]
    OBVIOUS
  <1>3. PICK S : S = (IF same THEN m.timers ELSE m.timers \cup {t})
    OBVIOUS
  <1>4. PICK K : K = (IF same THEN m.contexts ELSE m.contexts \cup {a})
    OBVIOUS
  <1>5. PICK m1 : m1 = [m EXCEPT !.now = c, !.timers = S, !.contexts = K]
    OBVIOUS
  <1>6. PICK n : n = schedule_timer(m, c, i, a)
    OBVIOUS
  <1>7. n = IF (First(m1) = t /\ ~same) \/ (First(m1).now + LateTicks) % TickRange < c
            THEN timer_change_notify(m1, c, First(m1).now) ELSE m1
    BY <1>1, <1>2, <1>3, <1>4, <1>5, <1>6 DEF schedule_timer, TimingState
  <1>8. K \in SUBSET Ctx
    BY <1>1, <1>4 DEF TimingState
  <1>9. Tree(m1, c)
    <2>1. \/ S = m.timers
          \/ S = m.timers \cup {t} /\ \A u \in m.timers : ~(u.ctx = a /\ u.now = when)
      BY <1>3
    <2> HIDE DEF same
    <2> QED
      BY <1>2, <1>5, <1>8, <2>1, Added, ZenonT(30)
  <1>10. /\ m1.timers = S /\ m1.contexts = K
         /\ m1.armed = m.armed /\ m1.wait = m.wait /\ m1.slept = m.slept
    BY <1>1, <1>5 DEF TimingState
  <1>11. \E u \in S : u.ctx = a /\ u.now = when
    BY <1>2, <1>3
  <1>12. Free(m, a, when) => a \in K
    BY <1>4 DEF Free
  <1>13. PICK f \in S : f = First(m1) /\ Soonest(m1, f)
    BY <1>9, <1>10, <1>11, FirstIs
  <1>14. m.timers \subseteq S /\ m.contexts \subseteq K /\ K \subseteq m.contexts \cup {a}
    BY <1>3, <1>4
  <1>15. Free(m, a, when) => \E u \in Active(m1) : u.ctx = a /\ u.now = when
    BY <1>10, <1>11, <1>12 DEF Active
  <1>16. CASE (f = t /\ ~same) \/ (f.now + LateTicks) % TickRange < c
    <2>1. n = timer_change_notify(m1, c, f.now)
      BY <1>7, <1>13, <1>16
    <2>2. Tree(n, c) /\ Awake(n, FALSE) /\ n.timers = m1.timers /\ n.contexts = m1.contexts
      BY <1>9, <1>10, <1>13, <2>1, Notified, ZenonT(30) DEF Asked
    <2>3. Free(m, a, when) => \E u \in Active(n) : u.ctx = a /\ u.now = when
      BY <1>15, <2>2 DEF Active
    <2> QED
      BY <1>6, <1>10, <1>14, <2>2, <2>3 DEF Scheduled
  <1>17. CASE ~((f = t /\ ~same) \/ (f.now + LateTicks) % TickRange < c)
    <2>1. n = m1
      BY <1>7, <1>13, <1>17
    <2>2. ASSUME Awake(m, FALSE)
          PROVE  Awake(m1, FALSE)
      <3>1. f \in m.timers
        BY <1>3, <1>13, <1>17
      <3>2. m.armed /\ (m.slept \/ m.wait <= (IF f.left > 0 THEN f.left ELSE 0))
        BY <2>2, <3>1 DEF Awake, InReach
      <3> SUFFICES ASSUME NEW u \in S
                   PROVE  m.armed /\ (m.slept \/ m.wait <= (IF u.left > 0 THEN u.left ELSE 0))
        BY <1>10 DEF Awake, InReach
      <3>3. m1 \in TimingState
        BY <1>9 DEF Tree
      <3>4. f.left \in Int /\ u.left \in Int /\ f.left <= u.left
          BY <1>10, <1>13, <3>3, TimerType DEF Soonest
      <3>5. m.wait \in Int
        BY <1>1, Numbers DEF TimingState
      <3> QED
        BY <3>2, <3>4, <3>5
    <2> QED
      BY <1>6, <1>9, <1>10, <1>14, <1>15, <2>1, <2>2 DEF Scheduled
  <1> QED
    BY <1>16, <1>17
-----------------------------------------------------------------------------
(* A pinger p may be scheduled at a.                                       *)
MayWait(m, p, a, c) ==
    /\ p.alive
    /\ p.pending => \E t \in Active(m) : t.ctx = a /\ t.now = p.next
    /\ p.interval = 0 \/ Free(m, a, When(c, p.interval))

(* What pinger_schedule promises, of the pinger q that replaces p at a.    *)
Kept(m, q, n, p, a, c) ==
    /\ Tree(n, c)
    /\ Awake(m, FALSE) => Awake(n, FALSE)
    /\ m.timers \subseteq n.timers
    /\ m.contexts \subseteq n.contexts /\ n.contexts \subseteq m.contexts \cup {a}
    /\ q \in PingState
    /\ q.alive = p.alive
    /\ MayWait(m, p, a, c) /\ q.pending => \E t \in Active(n) : t.ctx = a /\ t.now = q.next
    /\ q.interval > 0 => q.pending

LEMMA PingerSchedules ==
    ASSUME clock \in Ticks, NEW m, Tree(m, clock), NEW a \in Ctx,
           NEW p \in PingState, NEW r, r = pinger_schedule(a, p, m)
    PROVE  Kept(m, r.p, r.m, p, a, clock)
  <1>1. Intervals \subseteq 0..MaxDelay
    BY IntervalAssumption
  <1>2. 0 \in Ticks
    BY Numbers DEF Ticks
  <1>3. CASE p.interval = 0
    <2>1. r = [p |-> [p EXCEPT !.pending = FALSE, !.next = 0, !.when_set = 0], m |-> m]
      BY <1>3 DEF pinger_schedule
    <2>2. PICK q : q = [p EXCEPT !.pending = FALSE, !.next = 0, !.when_set = 0]
      OBVIOUS
    <2>3. q \in PingState /\ q.alive = p.alive /\ ~q.pending /\ q.interval = 0
      BY <1>2, <1>3, <2>2 DEF PingState
    <2>4. ~(q.interval > 0)
      BY <2>3
    <2>5. r.p = q /\ r.m = m
      BY <2>1, <2>2
    <2>6. Kept(m, q, m, p, a, clock)
      BY <2>3, <2>4 DEF Kept
    <2> QED
      BY <2>5, <2>6
  <1>4. CASE p.interval # 0
    <2>1. p.interval \in 1..MaxDelay
      <3>1. p.interval \in Intervals \cup {0}
        BY DEF PingState
      <3>2. p.interval \in 0..MaxDelay
        BY <1>1, <1>4, <3>1
      <3> QED
        BY <1>4, <3>2
    <2>2. PICK w \in Ticks : w = When(clock, p.interval)
      BY <2>1, WhenIs
    <2>3. PICK n : n = schedule_timer(m, clock, p.interval, a)
      OBVIOUS
    <2>4. Scheduled(m, n, clock, p.interval, a)
      BY <1>4, <2>1, <2>3, Scheduling
    <2>5. PICK s \in BOOLEAN : s = (~p.pending \/ Diff(w, p.when_set) < Diff(p.next, p.when_set))
      OBVIOUS
    <2>6. PICK q : q = IF s THEN [p EXCEPT !.pending = TRUE, !.next = w, !.when_set = clock] ELSE p
      OBVIOUS
    <2>7. r.p = q /\ r.m = n
      BY <1>4, <2>2, <2>3, <2>5, <2>6 DEF pinger_schedule
    <2>8. q \in PingState /\ q.alive = p.alive /\ q.pending
      BY <2>5, <2>6 DEF PingState
    <2>9. ASSUME MayWait(m, p, a, clock)
          PROVE  \E t \in Active(n) : t.ctx = a /\ t.now = q.next
      <3>1. CASE s
        <4>1. q.next = w
          BY <2>6, <3>1 DEF PingState
        <4> QED
          BY <1>4, <2>2, <2>4, <2>9, <4>1 DEF Scheduled, MayWait
      <3>2. CASE ~s
        <4>1. q = p /\ p.pending
          BY <2>5, <2>6, <3>2
        <4>2. Active(m) \subseteq Active(n)
          BY <2>4 DEF Scheduled, Active
        <4> QED
          BY <2>9, <4>1, <4>2 DEF MayWait
      <3> QED
        BY <2>5, <3>1, <3>2
    <2> QED
      BY <2>4, <2>7, <2>8, <2>9 DEF Kept, Scheduled
  <1> QED
    BY <1>3, <1>4
-----------------------------------------------------------------------------
(* Time passes: each timer has k ticks less left.                          *)
Aged(m, n, k) == n.timers = {[t EXCEPT !.left = @ - k] : t \in m.timers}

Older(u, t, k) ==
    /\ u = [t EXCEPT !.left = @ - k]
    /\ u.ctx = t.ctx /\ u.now = t.now /\ u.when_set = t.when_set /\ u.left = t.left - k

LEMMA AgedTimers ==
    ASSUME NEW m \in TimingState, NEW n, NEW k \in Nat, Aged(m, n, k)
    PROVE  /\ \A u \in n.timers : \E t \in m.timers : Older(u, t, k)
           /\ \A t \in m.timers : \E u \in n.timers : Older(u, t, k)
  <1>1. ASSUME NEW t \in m.timers, NEW u, u = [t EXCEPT !.left = @ - k]
        PROVE  Older(u, t, k)
    <2>1. t \in Timers
      BY TimerType
    <2> QED
      BY <1>1, <2>1 DEF Timers, Older
  <1> QED
    BY <1>1 DEF Aged

Ageing(m, k, w, s) ==
    [m EXCEPT !.timers = {[t EXCEPT !.left = @ - k] : t \in m.timers}, !.wait = w, !.slept = s]

LEMMA Passed ==
    ASSUME NEW c \in Ticks, NEW m, Tree(m, c), NEW k \in Nat,
           \A t \in m.timers : t.left - k >= -MaxLate,
           NEW w \in 0..MaxDelay, NEW s \in BOOLEAN,
           NEW n, n = Ageing(m, k, w, s)
    PROVE  /\ Tree(n, (c + k) % TickRange)
           /\ Aged(m, n, k)
           /\ n.contexts = m.contexts /\ n.armed = m.armed /\ n.wait = w /\ n.slept = s
  <1>1. m \in TimingState
    BY DEF Tree
  <1>2. PICK c2 \in Ticks : c2 = (c + k) % TickRange
    BY Later
  <1>3. /\ Aged(m, n, k) /\ n.now = m.now
        /\ n.contexts = m.contexts /\ n.armed = m.armed /\ n.wait = w /\ n.slept = s
    BY <1>1 DEF Aged, Ageing, TimingState
  <1>4. \A u \in n.timers : \E t \in m.timers : Older(u, t, k)
    BY <1>1, <1>3, AgedTimers
  <1>5. ASSUME NEW t \in m.timers
        PROVE  /\ k < Half /\ t.left - k \in -MaxLate..MaxDelay
               /\ SignedDiff(t.now, c2) = t.left - k
               /\ Diff(c2, m.now) <= Diff(t.now, t.when_set) - (t.left - k)
    <2>1. PICK l \in Int : l = t.left /\ -MaxLate <= l /\ l <= MaxDelay /\ l - k >= -MaxLate
      BY <1>1, TimerType, Numbers
    <2>2. k < Half /\ k < TickRange /\ l - k <= MaxDelay
      BY <2>1, Numbers
    <2>3. c2 = c + k \/ c2 = c + k - TickRange
      BY <1>2, <2>2, LaterIs
    <2>4. PICK x \in Ticks : x = t.now
      BY <1>1, TimerType
    <2>5. x - c = l \/ x - c = l + TickRange \/ x - c = l - TickRange
      BY <2>1, <2>4, SignedIn DEF Tree, InTime
    <2>6. PICK j \in Int : j = l - k /\ -Half < j /\ j < Half
      BY <2>1, <2>2, Numbers
    <2>7. x - c2 = j \/ x - c2 = j + TickRange \/ x - c2 = j - TickRange
      BY <2>3, <2>5, <2>6, Numbers DEF Ticks
    <2>8. SignedDiff(x, c2) = j
      BY <2>6, <2>7, SignedIs
    <2>9. PICK lag \in Ticks : lag = Diff(c, m.now)
                               /\ (c - m.now = lag \/ c - m.now = lag - TickRange)
      BY <1>1, DiffIn DEF TimingState
    <2>10. PICK d \in 1..MaxDelay : d = Diff(t.now, t.when_set)
      BY DEF Tree, Lagging
    <2>11. lag <= d - l
      BY <2>1, <2>9, <2>10 DEF Tree, Lagging
    <2>12. PICK g \in Ticks : g = lag + k
      BY <2>1, <2>2, <2>11, Numbers DEF Ticks
    <2>13. PICK z \in Ticks : z = m.now
      BY <1>1 DEF TimingState
    <2>14. c2 - z = g \/ c2 - z = g - TickRange \/ c2 - z = g + TickRange
      BY <2>3, <2>9, <2>12, <2>13, Numbers DEF Ticks
    <2>15. Diff(c2, z) = g
      BY <2>14, DiffIs, Numbers DEF Ticks
    <2>16. g <= d - (l - k)
      BY <2>1, <2>11, <2>12 DEF Ticks
    <2>17. l - k \in -MaxLate..MaxDelay
      BY <2>1, <2>2, Numbers
    <2> QED
      BY <2>1, <2>2, <2>4, <2>6, <2>8, <2>10, <2>13, <2>15, <2>16, <2>17
  <1>6. n.timers \subseteq Timers
    <2> SUFFICES ASSUME NEW u \in n.timers
                 PROVE  u \in Timers
      OBVIOUS
    <2>1. PICK t \in m.timers : u = [t EXCEPT !.left = @ - k]
      BY <1>4 DEF Older
    <2>2. t \in Timers
      BY <1>1, TimerType
    <2>3. t.left - k \in -MaxLate..MaxDelay
      BY <1>5
    <2> QED
      BY <2>1, <2>2, <2>3 DEF Timers
  <1>7. n \in TimingState
    <2>1. n.timers \in SUBSET Timers
      BY <1>6
    <2>2. PICK S \in SUBSET Timers : S = n.timers
      BY <2>1
    <2>3. n = [m EXCEPT !.timers = S, !.wait = w, !.slept = s]
      BY <1>1, <2>2 DEF Ageing, TimingState
    <2> QED
      BY <1>1, <2>3 DEF TimingState
  <1>8. InTime(n, c2)
    BY <1>4, <1>5 DEF InTime, Older
  <1>9. Lagging(n, c2)
    <2> SUFFICES ASSUME NEW u \in n.timers
                 PROVE  /\ Diff(u.now, u.when_set) \in 1..MaxDelay
                        /\ Diff(c2, n.now) <= Diff(u.now, u.when_set) - u.left
      BY DEF Lagging
    <2>1. PICK t \in m.timers : u.now = t.now /\ u.when_set = t.when_set /\ u.left = t.left - k
      BY <1>4 DEF Older
    <2>2. Diff(t.now, t.when_set) \in 1..MaxDelay
      BY DEF Tree, Lagging
    <2>3. Diff(c2, m.now) <= Diff(t.now, t.when_set) - (t.left - k)
      BY <1>5
    <2> QED
      BY <1>3, <2>1, <2>2, <2>3
  <1>10. OneEach(n)
    <2> SUFFICES ASSUME NEW u \in n.timers, NEW v \in n.timers, u.ctx = v.ctx, u.now = v.now
                 PROVE  u = v
      BY DEF OneEach
    <2>1. PICK t \in m.timers : u = [t EXCEPT !.left = @ - k] /\ u.ctx = t.ctx /\ u.now = t.now
      BY <1>4 DEF Older
    <2>2. PICK r \in m.timers : v = [r EXCEPT !.left = @ - k] /\ v.ctx = r.ctx /\ v.now = r.now
      BY <1>4 DEF Older
    <2>3. t = r
      BY <2>1, <2>2 DEF Tree, OneEach
    <2> QED
      BY <2>1, <2>2, <2>3
  <1> QED
    BY <1>2, <1>3, <1>7, <1>8, <1>9, <1>10 DEF Tree
-----------------------------------------------------------------------------
(* The invariant holds at first and is kept by each action.                *)
LEMMA InitInv == Init => Inv
  <1> SUFFICES ASSUME Init
               PROVE  Inv
    OBVIOUS
  <1>1. clock \in Ticks
    BY Numbers, TickAssumption DEF Init, Ticks
  <1>2. tm = [timers |-> {}, contexts |-> {}, now |-> clock, armed |-> FALSE, wait |-> 0,
              slept |-> FALSE]
    BY DEF Init, InitTiming
  <1>3. tm \in TimingState
    BY <1>1, <1>2, Numbers DEF TimingState
  <1>4. tm.timers = {} /\ tm.contexts = {}
    BY <1>2
  <1>5. Tree(tm, clock) /\ Awake(tm, running)
    BY <1>3, <1>4 DEF Tree, InTime, Lagging, OneEach, Awake
  <1>6. 0 \in Ticks
    BY ZeroTick
  <1>7. \A a \in Ctx : ping[a] = None
    BY DEF Init
  <1>8. None \in PingState /\ ~None.alive /\ ~None.pending
    BY <1>6 DEF None, PingState
  <1>9. ping \in [Ctx -> PingState]
    BY <1>8 DEF Init
  <1>10. Served(tm, ping)
    BY <1>4, <1>7, <1>8 DEF Served
  <1> QED
    BY <1>1, <1>5, <1>9, <1>10 DEF Inv, Timely, Serving, Init

LEMMA AgedInv ==
    ASSUME Timely, Serving, NEW n, NEW k \in Nat, Aged(tm, n, k), n.contexts = tm.contexts
    PROVE  Served(n, ping)
  <1>1. tm \in TimingState
    BY DEF Timely, Tree
  <1>2. \A t \in tm.timers : \E u \in n.timers : Older(u, t, k)
    BY <1>1, AgedTimers
  <1>3. \A t \in Active(tm) : \E u \in Active(n) : u.ctx = t.ctx /\ u.now = t.now
    BY <1>2 DEF Active, Older
  <1>4. ASSUME NEW a \in Ctx, ping[a].pending
        PROVE  \E t \in Active(n) : t.ctx = a /\ t.now = ping[a].next
    <2>1. PICK t \in Active(tm) : t.ctx = a /\ t.now = ping[a].next
      BY <1>4 DEF Serving, Served
    <2> QED
      BY <1>3, <2>1
  <1> QED
    BY <1>4 DEF Serving, Served

LEMMA TickInv == Timely /\ Tick /\ UNCHANGED ping => Timely' /\ (Serving => Serving')
  <1> SUFFICES ASSUME Timely, Tick, UNCHANGED ping
               PROVE  Timely' /\ (Serving => Serving')
    OBVIOUS
  <1>1. tm \in TimingState /\ tm.wait \in 0..MaxDelay /\ tm.slept \in BOOLEAN
    BY DEF Timely, Tree, TimingState
  <1>2. PICK w \in 0..MaxDelay : w = (IF tm.wait > 0 THEN tm.wait - 1 ELSE 0)
    BY <1>1, Numbers
  <1>3. PICK s \in BOOLEAN : s = tm.slept
    BY <1>1
  <1>4. tm' = Ageing(tm, 1, w, s)
    <2>1. PICK S : S = {[t EXCEPT !.left = @ - 1] : t \in tm.timers}
      OBVIOUS
    <2>2. tm' = [tm EXCEPT !.timers = S, !.wait = w]
      BY <1>2, <2>1 DEF Tick
    <2>3. tm' = [tm EXCEPT !.timers = S, !.wait = w, !.slept = s]
      BY <1>1, <1>3, <2>2 DEF TimingState
    <2> QED
      BY <2>1, <2>3 DEF Ageing
  <1>5. \A t \in tm.timers : t.left - 1 >= -MaxLate
    <2> TAKE t \in tm.timers
    <2>1. t.left \in Int /\ t.left > -MaxLate
      BY <1>1, TimerType DEF Tick
    <2> QED
      BY <2>1, Numbers
  <1>6. clock \in Ticks /\ Tree(tm, clock) /\ clock' = (clock + 1) % TickRange
    BY DEF Timely, Serving, Tick
  <1>7. /\ Tree(tm', clock') /\ Aged(tm, tm', 1)
        /\ tm'.contexts = tm.contexts /\ tm'.armed = tm.armed
        /\ tm'.wait = w /\ tm'.slept = s
    BY <1>4, <1>5, <1>6, Passed
  <1>8. clock' \in Ticks
    BY <1>6, Later
  <1>9. Awake(tm', running)
    <2> SUFFICES ASSUME NEW u \in tm'.timers, ~running
                 PROVE  InReach(tm', u)
      BY DEF Awake
    <2>1. PICK t \in tm.timers : Older(u, t, 1)
      BY <1>1, <1>7, AgedTimers
    <2>2. InReach(tm, t)
      BY DEF Timely, Serving, Awake
    <2>3. t.left \in Int /\ u.left = t.left - 1
      BY <1>1, <2>1, TimerType DEF Older
    <2>4. tm.wait \in Int /\ tm.wait >= 0
      BY <1>1, Numbers
    <2>5. tm.wait <= (IF t.left > 0 THEN t.left ELSE 0) => w <= (IF u.left > 0 THEN u.left ELSE 0)
      BY <1>2, <2>3, <2>4
    <2> QED
      BY <1>3, <1>7, <2>2, <2>5 DEF InReach
  <1>10. Serving => Served(tm', ping)
    BY <1>7, AgedInv
  <1> QED
    BY <1>7, <1>8, <1>9, <1>10 DEF Timely, Serving, Tick

LEMMA SleepInv == Timely /\ Sleep /\ UNCHANGED ping => Timely' /\ (Serving => Serving')
  <1> SUFFICES ASSUME Timely, Sleep, UNCHANGED ping
               PROVE  Timely' /\ (Serving => Serving')
    OBVIOUS
  <1>1. tm \in TimingState /\ tm.wait \in 0..MaxDelay
    BY DEF Timely, Tree, TimingState
  <1>2. PICK w \in 0..MaxDelay : w = tm.wait
    BY <1>1
  <1>3. PICK k \in Nat : k = SleepTicks
    BY Numbers
  <1>4. tm' = Ageing(tm, k, w, TRUE)
    <2>1. PICK S : S = {[t EXCEPT !.left = @ - k] : t \in tm.timers}
      OBVIOUS
    <2>2. tm' = [tm EXCEPT !.timers = S, !.slept = TRUE]
      BY <1>3, <2>1 DEF Sleep
    <2>3. tm' = [tm EXCEPT !.timers = S, !.wait = w, !.slept = TRUE]
      BY <1>1, <1>2, <2>2 DEF TimingState
    <2> QED
      BY <2>1, <2>3 DEF Ageing
  <1>5. \A t \in tm.timers : t.left - k >= -MaxLate
    <2> TAKE t \in tm.timers
    <2>1. t.left \in Int /\ t.left - k - w > -MaxLate
      BY <1>1, <1>2, <1>3, TimerType DEF Sleep
    <2> QED
      BY <2>1, Numbers
  <1>6. clock \in Ticks /\ Tree(tm, clock) /\ clock' = (clock + k) % TickRange
    BY <1>3 DEF Timely, Serving, Sleep
  <1>7. /\ Tree(tm', clock') /\ Aged(tm, tm', k)
        /\ tm'.contexts = tm.contexts /\ tm'.armed = tm.armed /\ tm'.slept = TRUE
    <2>1. PICK s \in BOOLEAN : s = TRUE
      OBVIOUS
    <2>2. PICK n : n = tm'
      OBVIOUS
    <2>3. n = Ageing(tm, k, w, s)
      BY <1>4, <2>1, <2>2
    <2>4. clock \in Ticks /\ Tree(tm, clock)
      BY <1>6
    <2>5. Tree(n, (clock + k) % TickRange) /\ Aged(tm, n, k)
          /\ n.contexts = tm.contexts /\ n.armed = tm.armed /\ n.wait = w /\ n.slept = s
      BY <1>5, <2>3, <2>4, Passed
    <2> QED
      BY <1>6, <2>1, <2>2, <2>5
  <1>8. clock' \in Ticks
    BY <1>6, Later
  <1>9. Awake(tm', running)
    <2> SUFFICES ASSUME NEW u \in tm'.timers, ~running
                 PROVE  InReach(tm', u)
      BY DEF Awake
    <2>1. PICK t \in tm.timers : Older(u, t, k)
      BY <1>1, <1>7, AgedTimers
    <2>2. InReach(tm, t)
      BY DEF Timely, Serving, Awake
    <2> QED
      BY <1>7, <2>2 DEF InReach
  <1>10. Serving => Served(tm', ping)
    BY <1>7, AgedInv
  <1> QED
    BY <1>7, <1>8, <1>9, <1>10 DEF Timely, Serving, Sleep

(* run_timers takes the clock as now.                                      *)
LEMMA WmTimerInv == Timely /\ WmTimer /\ UNCHANGED ping => Timely' /\ (Serving => Serving')
  <1> SUFFICES ASSUME Timely, WmTimer, UNCHANGED ping
               PROVE  Timely' /\ (Serving => Serving')
    OBVIOUS
  <1>1. clock \in Ticks /\ Tree(tm, clock) /\ tm \in TimingState
    BY DEF Timely, Tree
  <1>2. tm' = [tm EXCEPT !.armed = FALSE, !.now = clock] /\ clock' = clock /\ running' = TRUE
    BY DEF WmTimer
  <1>3. tm' \in TimingState /\ tm'.timers = tm.timers /\ tm'.contexts = tm.contexts
        /\ tm'.now = clock
    BY <1>1, <1>2 DEF TimingState
  <1>4. Diff(clock, clock) = 0
    <2>1. 0 \in Ticks /\ clock \in Int /\ clock - clock = 0
      BY <1>1, Numbers DEF Ticks
    <2> QED
      BY <2>1, DiffIs
  <1>5. Lagging(tm', clock)
    <2> SUFFICES ASSUME NEW t \in tm.timers
                 PROVE  /\ Diff(t.now, t.when_set) \in 1..MaxDelay
                        /\ 0 <= Diff(t.now, t.when_set) - t.left
      BY <1>3, <1>4 DEF Lagging
    <2>1. PICK lag \in Nat : lag = Diff(clock, tm.now)
      BY <1>1, TimerTicks
    <2>2. PICK d \in 1..MaxDelay : d = Diff(t.now, t.when_set)
      BY <1>1 DEF Tree, Lagging
    <2>3. lag <= d - t.left
      BY <1>1, <2>1, <2>2 DEF Tree, Lagging
    <2>4. t.left \in Int
      BY <1>1, TimerType
    <2> QED
      BY <2>1, <2>2, <2>3, <2>4
  <1>6. Tree(tm', clock)
    BY <1>1, <1>3, <1>5 DEF Tree, InTime, OneEach
  <1>7. Serving => Served(tm', ping)
    BY <1>3 DEF Serving, Served, Active
  <1> QED
    BY <1>2, <1>6, <1>7 DEF Timely, Serving, Awake

LEMMA Removed ==
    ASSUME NEW c \in Ticks, NEW m, Tree(m, c), NEW f, NEW n, n = [m EXCEPT !.timers = @ \ {f}]
    PROVE  /\ Tree(n, c)
           /\ n.timers = m.timers \ {f} /\ n.contexts = m.contexts /\ n.now = m.now
           /\ \A r : Awake(m, r) => Awake(n, r)
  <1>1. m \in TimingState
    BY DEF Tree
  <1>2. /\ n.timers = m.timers \ {f} /\ n.contexts = m.contexts /\ n.now = m.now
        /\ n.armed = m.armed /\ n.wait = m.wait /\ n.slept = m.slept
    BY <1>1 DEF TimingState
  <1>3. n \in TimingState
    <2>1. PICK S \in SUBSET Timers : S = m.timers \ {f}
      BY <1>1 DEF TimingState
    <2>2. n = [m EXCEPT !.timers = S]
      BY <1>1, <2>1 DEF TimingState
    <2> QED
      BY <1>1, <2>2 DEF TimingState
  <1>4. InTime(n, c)
    BY <1>2 DEF Tree, InTime
  <1>5. Lagging(n, c)
    BY <1>2 DEF Tree, Lagging
  <1>6. OneEach(n)
    BY <1>2 DEF Tree, OneEach
  <1>7. \A r : Awake(m, r) => Awake(n, r)
    BY <1>2 DEF Awake, InReach
  <1> QED
    BY <1>2, <1>3, <1>4, <1>5, <1>6, <1>7 DEF Tree

(* A timer that is dropped is not one that a pinger waits for.             *)
LEMMA RunDropInv == Timely /\ RunDrop /\ UNCHANGED ping => Timely' /\ (Serving => Serving')
  <1> SUFFICES ASSUME Timely, RunDrop, UNCHANGED ping
               PROVE  Timely' /\ (Serving => Serving')
    OBVIOUS
  <1>1. clock \in Ticks /\ Tree(tm, clock) /\ clock' = clock /\ running' = running
    BY DEF Timely, RunDrop
  <1>2. PICK f : f = First(tm)
    OBVIOUS
  <1>3. tm' = [tm EXCEPT !.timers = @ \ {f}] /\ f.ctx \notin tm.contexts
    BY <1>2 DEF RunDrop
  <1>4. /\ Tree(tm', clock) /\ tm'.timers = tm.timers \ {f} /\ tm'.contexts = tm.contexts
        /\ Awake(tm, running) => Awake(tm', running)
    BY <1>1, <1>3, Removed
  <1>5. Active(tm') = Active(tm)
    BY <1>3, <1>4 DEF Active
  <1>6. Serving => Served(tm', ping)
    BY <1>4, <1>5 DEF Serving, Served
  <1> QED
    BY <1>1, <1>4, <1>6 DEF Timely, Serving

(* run_timers returns, and the window is asked for the first timer.        *)
LEMMA RunReturnInv == Timely /\ RunReturn /\ UNCHANGED ping => Timely' /\ (Serving => Serving')
  <1> SUFFICES ASSUME Timely, RunReturn, UNCHANGED ping
               PROVE  Timely' /\ (Serving => Serving')
    OBVIOUS
  <1>1. clock \in Ticks /\ Tree(tm, clock) /\ clock' = clock /\ running' = FALSE
    BY DEF Timely, RunReturn
  <1>2. Tree(tm', clock) /\ Awake(tm', FALSE)
        /\ tm'.timers = tm.timers /\ tm'.contexts = tm.contexts
    <2>1. CASE tm.timers = {}
      <3>1. tm' = tm
        BY <2>1 DEF RunReturn
      <3> QED
        BY <1>1, <2>1, <3>1 DEF Awake
    <2>2. CASE tm.timers # {}
      <3>1. PICK f \in tm.timers : f = First(tm) /\ Soonest(tm, f)
        BY <1>1, <2>2, FirstIs
      <3>2. tm' = timer_change_notify(tm, clock, f.now)
        BY <2>2, <3>1 DEF RunReturn
      <3>3. Asked(tm, tm', clock)
        BY <1>1, <3>1, <3>2, Notified
      <3> QED
        BY <3>3 DEF Asked
    <2> QED
      BY <2>1, <2>2
  <1>3. Active(tm') = Active(tm)
    BY <1>2 DEF Active
  <1>4. Serving => Served(tm', ping)
    BY <1>2, <1>3 DEF Serving, Served
  <1> QED
    BY <1>1, <1>2, <1>4 DEF Timely, Serving
-----------------------------------------------------------------------------
(* One pinger is replaced, and the timers of the others are kept.          *)
LEMMA OneServed ==
    ASSUME NEW m, NEW n, NEW pg \in [Ctx -> PingState], NEW a \in Ctx, NEW q, Served(m, pg),
           NEW p, NEW k, Kept(k, q, n, p, a, clock), MayWait(k, p, a, clock),
           n.contexts = m.contexts \/ n.contexts \subseteq m.contexts \cup {a},
           \A t \in Active(m) : t.ctx # a => t \in Active(n)
    PROVE  Served(n, [pg EXCEPT ![a] = q])
  <1> DEFINE new == [pg EXCEPT ![a] = q]
  <1>1. new[a] = q /\ \A b \in Ctx \ {a} : new[b] = pg[b]
    OBVIOUS
  <1> HIDE DEF new
  <1>2. ASSUME NEW b \in Ctx, b # a
        PROVE  /\ new[b].pending => \E t \in Active(n) : t.ctx = b /\ t.now = new[b].next
               /\ b \in n.contexts => new[b].alive
               /\ new[b].alive /\ new[b].interval > 0 => new[b].pending
    <2>1. new[b] = pg[b]
      BY <1>1, <1>2
    <2>2. b \in n.contexts => b \in m.contexts
      BY <1>2
    <2>3. \A t \in Active(m) : t.ctx = b => t \in Active(n)
      BY <1>2
    <2> QED
      BY <2>1, <2>2, <2>3 DEF Served
  <1>3. /\ new[a].pending => \E t \in Active(n) : t.ctx = a /\ t.now = new[a].next
        /\ a \in n.contexts => new[a].alive
        /\ new[a].alive /\ new[a].interval > 0 => new[a].pending
    BY <1>1 DEF Kept, MayWait
  <1>4. Served(n, new)
    BY <1>2, <1>3 DEF Served
  <1> QED
    BY <1>4 DEF new

(* pinger_new and pinger_reconfig: pinger_schedule outside run_timers.     *)
LEMMA SetInv ==
    ASSUME Timely, ~running, NEW a \in Ctx, NEW p \in PingState,
           NEW r, r = pinger_schedule(a, p, tm), Set(a, r)
    PROVE  /\ Timely' /\ tm.timers \subseteq tm'.timers
           /\ Serving /\ MayWait(tm, p, a, clock) => Serving'
  <1>1. clock \in Ticks /\ Tree(tm, clock) /\ ping \in [Ctx -> PingState]
    BY DEF Timely
  <1>2. ping' = [ping EXCEPT ![a] = r.p] /\ tm' = r.m /\ clock' = clock /\ running' = running
    BY DEF Set
  <1>3. PICK q : q = r.p
    OBVIOUS
  <1>4. Kept(tm, q, tm', p, a, clock)
    BY <1>1, <1>2, <1>3, PingerSchedules
  <1>5. \A t \in Active(tm) : t \in Active(tm')
    BY <1>4 DEF Kept, Active
  <1>6. tm'.contexts \subseteq tm.contexts \cup {a}
    BY <1>4 DEF Kept
  <1>8. ASSUME Serving, MayWait(tm, p, a, clock)
        PROVE  Served(tm', [ping EXCEPT ![a] = q])
    BY <1>1, <1>4, <1>5, <1>6, <1>8, OneServed DEF Serving
  <1>9. ping' = [ping EXCEPT ![a] = q] /\ q \in PingState
    BY <1>2, <1>3, <1>4 DEF Kept
  <1>10. ping' \in [Ctx -> PingState]
    BY <1>1, <1>9
  <1>11. Tree(tm', clock) /\ Awake(tm', running)
    <2>1. Awake(tm, FALSE)
      BY DEF Timely, Awake
    <2>2. Awake(tm', FALSE)
      BY <1>4, <2>1 DEF Kept
    <2> QED
      BY <1>4, <2>2 DEF Kept, Awake
  <1>12. tm.timers \subseteq tm'.timers
    BY <1>4 DEF Kept
  <1> QED
    BY <1>1, <1>2, <1>8, <1>9, <1>10, <1>11, <1>12 DEF Timely, Serving

LEMMA NewInv ==
    ASSUME Timely, NEW a \in Ctx, NEW i \in Intervals, pinger_new(a, i)
    PROVE  /\ Timely' /\ tm.timers \subseteq tm'.timers
           /\ Serving /\ "same end" \notin Unguarded => Serving'
  <1>1. PICK p : p = [None EXCEPT !.alive = TRUE, !.interval = i]
    OBVIOUS
  <1>2. 0 \in Ticks
    BY ZeroTick
  <1>3. p \in PingState /\ p.alive /\ ~p.pending /\ p.interval = i
    BY <1>1, <1>2 DEF None, PingState
  <1>4. PICK r : r = pinger_schedule(a, p, tm)
    OBVIOUS
  <1>5. Set(a, r) /\ ~running
    BY <1>1, <1>4 DEF pinger_new
  <1>6. "same end" \notin Unguarded => p.interval = 0 \/ Free(tm, a, When(clock, p.interval))
    BY <1>3 DEF pinger_new, MaySchedule, Free
  <1>7. "same end" \notin Unguarded => MayWait(tm, p, a, clock)
    BY <1>3, <1>6 DEF MayWait
  <1> QED
    BY <1>3, <1>4, <1>5, <1>7, SetInv

LEMMA ReconfigInv ==
    ASSUME Timely, NEW a \in Ctx, NEW i \in Intervals,
           pinger_reconfig(a, i)
    PROVE  /\ Timely' /\ tm.timers \subseteq tm'.timers
           /\ Serving /\ "same end" \notin Unguarded => Serving'
  <1>1. PICK p : p = [ping[a] EXCEPT !.interval = i]
    OBVIOUS
  <1>2. ping[a] \in PingState /\ ping[a].alive
    BY DEF Timely, pinger_reconfig
  <1>3. p \in PingState /\ p.alive /\ p.interval = i
        /\ p.pending = ping[a].pending /\ p.next = ping[a].next
    BY <1>1, <1>2 DEF PingState
  <1>4. PICK r : r = pinger_schedule(a, p, tm)
    OBVIOUS
  <1>5. Set(a, r) /\ ~running
    BY <1>1, <1>4 DEF pinger_reconfig
  <1>6. "same end" \notin Unguarded => p.interval = 0 \/ Free(tm, a, When(clock, p.interval))
    BY <1>3 DEF pinger_reconfig, MaySchedule, Free
  <1>7. Serving /\ p.pending => \E t \in Active(tm) : t.ctx = a /\ t.now = p.next
    BY <1>3 DEF Serving, Served
  <1>8. Serving /\ "same end" \notin Unguarded => MayWait(tm, p, a, clock)
    BY <1>2, <1>3, <1>6, <1>7 DEF MayWait
  <1> QED
    BY <1>3, <1>4, <1>5, <1>8, SetInv

LEMMA FreeInv ==
    ASSUME Timely, NEW a \in Ctx, pinger_free(a)
    PROVE  Timely' /\ (Serving => Serving')
  <1>1. clock \in Ticks /\ Tree(tm, clock) /\ ping \in [Ctx -> PingState] /\ Awake(tm, running)
    BY DEF Timely
  <1>2. PICK n : n = [tm EXCEPT !.contexts = @ \ {a}]
    OBVIOUS
  <1>3. ping' = [ping EXCEPT ![a] = None] /\ tm' = n /\ clock' = clock /\ running' = running
    BY <1>2 DEF pinger_free, Set, expire_timer_context
  <1>4. /\ n.timers = tm.timers /\ n.contexts = tm.contexts \ {a} /\ n.now = tm.now
        /\ n.armed = tm.armed /\ n.wait = tm.wait /\ n.slept = tm.slept
    BY <1>1, <1>2 DEF Tree, TimingState
  <1>5. n \in TimingState
    <2>1. PICK K \in SUBSET Ctx : K = tm.contexts \ {a}
      BY <1>1 DEF Tree, TimingState
    <2>2. n = [tm EXCEPT !.contexts = K]
      BY <1>1, <1>2, <2>1 DEF Tree, TimingState
    <2> QED
      BY <1>1, <2>2 DEF Tree, TimingState
  <1>6. Tree(n, clock) /\ Awake(n, running)
    BY <1>1, <1>4, <1>5 DEF Tree, InTime, Lagging, OneEach, Awake, InReach
  <1>7. 0 \in Ticks
    BY ZeroTick
  <1>8. None \in PingState /\ ~None.alive /\ ~None.pending
    BY <1>7 DEF None, PingState
  <1>9. ping' \in [Ctx -> PingState]
    BY <1>1, <1>3, <1>8
  <1>10. ping'[a] = None /\ \A b \in Ctx \ {a} : ping'[b] = ping[b]
    BY <1>1, <1>3
  <1>11. Serving => Served(n, ping')
    <2> SUFFICES ASSUME Serving
                 PROVE  Served(n, ping')
      OBVIOUS
    <2>1. ASSUME NEW b \in Ctx, b # a
          PROVE  /\ ping'[b].pending => \E t \in Active(n) : t.ctx = b /\ t.now = ping'[b].next
                 /\ b \in n.contexts => ping'[b].alive
                 /\ ping'[b].alive /\ ping'[b].interval > 0 => ping'[b].pending
      <3>1. ping'[b] = ping[b]
        BY <1>10, <2>1
      <3>2. \A t \in Active(tm) : t.ctx = b => t \in Active(n)
        BY <1>4, <2>1 DEF Active
      <3> QED
        BY <1>4, <3>1, <3>2 DEF Serving, Served
    <2> QED
      BY <1>4, <1>8, <1>10, <2>1 DEF Served
  <1> QED
    BY <1>1, <1>3, <1>6, <1>9, <1>11 DEF Timely, Serving

(* pinger_timer: its timer is gone, and a new one set, or it was not the   *)
(* one that the pinger waits for.                                          *)
LEMMA TimerInv ==
    ASSUME Timely, NEW a \in Ctx, pinger_timer(a)
    PROVE  /\ Timely' /\ tm.timers \ {First(tm)} \subseteq tm'.timers
           /\ Serving => Serving'
  <1>1. clock \in Ticks /\ Tree(tm, clock) /\ ping \in [Ctx -> PingState]
    BY DEF Timely, Serving
  <1>2. PICK f : f = First(tm)
    OBVIOUS
  <1>3. PICK m : m = [tm EXCEPT !.timers = @ \ {f}]
    OBVIOUS
  <1>4. running /\ f.ctx = a /\ a \in tm.contexts
    BY <1>2 DEF pinger_timer, RunReady
  <1>5. Tree(m, clock) /\ m.timers = tm.timers \ {f} /\ m.contexts = tm.contexts
    BY <1>1, <1>3, Removed
  <1>7. ping[a] \in PingState /\ (Serving => ping[a].alive)
    BY <1>1, <1>4 DEF Serving, Served
  <1>8. CASE ping[a].pending /\ f.now = ping[a].next
    <2>1. PICK p : p = [ping[a] EXCEPT !.pending = FALSE]
      OBVIOUS
    <2>2. p \in PingState /\ p.alive = ping[a].alive /\ ~p.pending
      BY <1>7, <2>1 DEF PingState
    <2>3. PICK r : r = pinger_schedule(a, p, m)
      OBVIOUS
    <2>4. Set(a, r)
      BY <1>2, <1>3, <1>8, <2>1, <2>3 DEF pinger_timer
    <2>5. ping' = [ping EXCEPT ![a] = r.p] /\ tm' = r.m /\ clock' = clock /\ running' = running
      BY <2>4 DEF Set
    <2>6. PICK q : q = r.p
      OBVIOUS
    <2>7. a \in m.contexts
      BY <1>4, <1>5
    <2>8. Kept(m, r.p, r.m, p, a, clock)
      BY <1>1, <1>5, <2>2, <2>3, PingerSchedules
    <2>9. Kept(m, q, tm', p, a, clock)
      BY <2>5, <2>6, <2>8
    <2>10. m.timers \subseteq tm'.timers /\ tm.contexts \subseteq tm'.contexts
           /\ tm'.contexts \subseteq tm.contexts \cup {a}
      BY <1>5, <2>9 DEF Kept
    <2>11. \A t \in Active(tm) : t.ctx # a => t \in Active(tm')
      BY <1>4, <1>5, <2>10 DEF Active
    <2>12. ASSUME Serving
           PROVE  Served(tm', [ping EXCEPT ![a] = q])
      <3>1. MayWait(m, p, a, clock)
        BY <1>7, <2>2, <2>7, <2>12 DEF MayWait, Free
      <3>2. Served(tm, ping)
        BY <2>12 DEF Serving
      <3> QED
        BY <1>1, <2>9, <2>10, <2>11, <3>1, <3>2, OneServed
    <2>13. Tree(tm', clock) /\ q \in PingState
      BY <2>9 DEF Kept
    <2>14. ping' \in [Ctx -> PingState]
      BY <1>1, <2>5, <2>6, <2>13
    <2> QED
      BY <1>1, <1>2, <1>4, <1>5, <2>5, <2>6, <2>10, <2>12, <2>13, <2>14 DEF Timely, Serving, Awake
  <1>9. CASE ~(ping[a].pending /\ f.now = ping[a].next)
    <2>1. Set(a, [p |-> ping[a], m |-> m])
      BY <1>2, <1>3, <1>9 DEF pinger_timer
    <2>2. ping' = ping /\ tm' = m /\ clock' = clock /\ running' = running
      BY <1>1, <2>1 DEF Set
    <2>3. ASSUME Serving
          PROVE  Served(m, ping)
      <3>1. ASSUME NEW b \in Ctx, ping[b].pending
            PROVE  \E t \in Active(m) : t.ctx = b /\ t.now = ping[b].next
        <4>1. PICK t \in Active(tm) : t.ctx = b /\ t.now = ping[b].next
          BY <2>3, <3>1 DEF Serving, Served
        <4>2. t # f
          BY <1>4, <1>9, <3>1, <4>1
        <4>3. t \in Active(m)
          BY <1>5, <4>2 DEF Active
        <4> QED
          BY <4>1, <4>3
      <3> QED
        BY <1>5, <2>3, <3>1 DEF Serving, Served
    <2> QED
      BY <1>1, <1>2, <1>4, <1>5, <2>2, <2>3 DEF Timely, Serving, Awake
  <1> QED
    BY <1>8, <1>9

LEMMA NextInv ==
    Timely /\ [Next]_vars => Timely' /\ (Serving /\ "same end" \notin Unguarded => Serving')
  <1> DEFINE Goal == Timely' /\ (Serving /\ "same end" \notin Unguarded => Serving')
  <1> SUFFICES ASSUME Timely, [Next]_vars
               PROVE  Goal
    OBVIOUS
  <1>1. CASE TimingStep
    BY <1>1, TickInv, SleepInv, WmTimerInv, RunDropInv, RunReturnInv DEF TimingStep
  <1>2. ASSUME NEW a \in Ctx, NEW i \in Intervals, pinger_new(a, i)
        PROVE  Goal
    BY <1>2, NewInv
  <1>3. ASSUME NEW a \in Ctx, NEW i \in Intervals, pinger_reconfig(a, i)
        PROVE  Goal
    BY <1>3, ReconfigInv
  <1>4. ASSUME NEW a \in Ctx, pinger_free(a)
        PROVE  Goal
    BY <1>4, FreeInv
  <1>5. ASSUME NEW a \in Ctx, pinger_timer(a)
        PROVE  Goal
    BY <1>5, TimerInv
  <1>6. CASE UNCHANGED vars
    BY <1>6 DEF vars, Timely, Serving
  <1> QED
    BY <1>1, <1>2, <1>3, <1>4, <1>5, <1>6 DEF Next

LEMMA AlwaysTimely == Safe => []Timely
  <1>1. Timely /\ [Next]_vars => Timely'
    BY NextInv
  <1>2. Init => Timely
    BY InitInv DEF Inv
  <1> QED
    BY <1>1, <1>2, PTL DEF Safe

LEMMA Invariance ==
    ASSUME "same end" \notin Unguarded
    PROVE  Safe => []Inv
  <1>1. Inv /\ [Next]_vars => Inv'
    BY NextInv DEF Inv
  <1> QED
    BY <1>1, InitInv, PTL DEF Safe
-----------------------------------------------------------------------------
(* Every variable keeps its type, and the ticks left to each timer, which  *)
(* the code infers from wrapping numbers, are the true ones.               *)
THEOREM TypeCorrect == Safe => []TypeOK
  <1>1. Timely => TypeOK
    BY DEF Timely, TypeOK, TypeOKTiming, Tree, InTime, TimingState, PingState, Ticks
  <1> QED
    BY <1>1, AlwaysTimely, PTL

(* A ping that is waited for will come: the pinger's timer is in the tree, *)
(* its context is registered, and the window's timer is set to look at it. *)
THEOREM PingWillCome ==
    ASSUME "same end" \notin Unguarded
    PROVE  Safe => []PingIsComing
  <1>1. Inv => PingIsComing
    <2> SUFFICES ASSUME Inv
                 PROVE  PendingHasTimer /\ WindowWakes
      BY DEF PingIsComing
    <2>1. PendingHasTimer
      BY DEF Inv, Serving, Served, PendingHasTimer
    <2>2. WindowWakes
      BY DEF Inv, Timely, Awake, InReach, WindowWakes, Active
    <2> QED
      BY <2>1, <2>2
  <1> QED
    BY <1>1, Invariance, PTL

(* run_timers runs a timer when it is due and no active one was due        *)
(* before it, wherever the tick count wraps; nothing else removes one.     *)
DueFirst ==
    \A t \in Active(tm) : (\A u \in tm'.timers : u.ctx # t.ctx \/ u.now # t.now)
        => t.left <= 0 /\ \A u \in Active(tm) : t.left <= u.left

LEMMA NoneGone ==
    ASSUME \A t \in Active(tm) : \E u \in tm'.timers : u.ctx = t.ctx /\ u.now = t.now
    PROVE  DueFirst
  BY DEF DueFirst

LEMMA StepDueFirst == Timely /\ [Next]_vars => DueFirst
  <1> SUFFICES ASSUME Timely, [Next]_vars
               PROVE  DueFirst
    OBVIOUS
  <1>1. clock \in Ticks /\ Tree(tm, clock) /\ tm \in TimingState
    BY DEF Timely, Tree
  <1>2. ASSUME NEW k, tm'.timers = {[t EXCEPT !.left = @ - k] : t \in tm.timers}
        PROVE  DueFirst
    <2>1. ASSUME NEW t \in Active(tm)
          PROVE  \E u \in tm'.timers : u.ctx = t.ctx /\ u.now = t.now
      <3>1. t \in tm.timers /\ t \in Timers
        BY <1>1, TimerType DEF Active
      <3>2. PICK u \in tm'.timers : u = [t EXCEPT !.left = @ - k]
        BY <1>2, <3>1
      <3>3. u.ctx = t.ctx /\ u.now = t.now
        BY <3>1, <3>2 DEF Timers
      <3> QED
        BY <3>3
    <2> QED
      BY <2>1, NoneGone
  <1>3. ASSUME tm.timers \subseteq tm'.timers
        PROVE  DueFirst
    BY <1>3, NoneGone DEF Active
  <1>4. CASE Tick
    <2>1. tm'.timers = {[t EXCEPT !.left = @ - 1] : t \in tm.timers}
      BY <1>1, <1>4 DEF Tick, TimingState
    <2> QED
      BY <1>2, <2>1
  <1>5. CASE Sleep
    <2>1. tm'.timers = {[t EXCEPT !.left = @ - SleepTicks] : t \in tm.timers}
      BY <1>1, <1>5 DEF Sleep, TimingState
    <2> QED
      BY <1>2, <2>1
  <1>6. CASE WmTimer
    BY <1>1, <1>3, <1>6 DEF WmTimer, TimingState
  <1>7. CASE RunDrop
    <2>1. PICK f : f = First(tm)
      OBVIOUS
    <2>2. tm' = [tm EXCEPT !.timers = @ \ {f}] /\ f.ctx \notin tm.contexts
      BY <1>7, <2>1 DEF RunDrop
    <2>3. tm'.timers = tm.timers \ {f}
      BY <1>1, <2>2 DEF TimingState
    <2> QED
      BY <2>2, <2>3, NoneGone DEF Active
  <1>8. CASE RunReturn
    BY <1>1, <1>3, <1>8 DEF RunReturn, timer_change_notify, TimingState
  <1>9. ASSUME NEW a \in Ctx, NEW i \in Intervals, pinger_new(a, i)
        PROVE  DueFirst
    BY <1>3, <1>9, NewInv
  <1>10. ASSUME NEW a \in Ctx, NEW i \in Intervals, pinger_reconfig(a, i)
         PROVE  DueFirst
    BY <1>3, <1>10, ReconfigInv
  <1>11. ASSUME NEW a \in Ctx, pinger_free(a)
         PROVE  DueFirst
    BY <1>1, <1>3, <1>11 DEF pinger_free, Set, expire_timer_context, TimingState
  <1>12. ASSUME NEW a \in Ctx, pinger_timer(a)
         PROVE  DueFirst
    <2>1. RunReady
      BY <1>12 DEF pinger_timer
    <2>2. PICK f \in tm.timers : f = First(tm) /\ Soonest(tm, f) /\ Reached(f, tm.now)
      BY <1>1, <2>1, FirstIs DEF RunReady
    <2>3. tm.timers \ {f} \subseteq tm'.timers
      BY <1>12, <2>2, TimerInv
    <2>6. f.left <= 0
      BY <1>1, <2>2, ReachedIsDue
    <2> SUFFICES ASSUME NEW t \in Active(tm),
                        \A u \in tm'.timers : u.ctx # t.ctx \/ u.now # t.now
                 PROVE  t.left <= 0 /\ \A u \in Active(tm) : t.left <= u.left
      BY DEF DueFirst
    <2>7. t = f
      BY <2>3 DEF Active
    <2> QED
      BY <2>2, <2>6, <2>7 DEF Soonest, Active
  <1>13. CASE UNCHANGED vars
    BY <1>3, <1>13 DEF vars
  <1> QED
    BY <1>4, <1>5, <1>6, <1>7, <1>8, <1>9, <1>10, <1>11, <1>12, <1>13 DEF Next, TimingStep

(* run_timers runs no timer before its time, and none before another       *)
(* active one that was due earlier: the loop over the tree of timing.c,    *)
(* wherever the tick count wraps.                                          *)
THEOREM RunInOrder == Safe => RunWhenDue
  <1>1. Timely /\ [Next]_vars =>
            \A t \in Active(tm) : (\A u \in tm'.timers : u.ctx # t.ctx \/ u.now # t.now)
                => t.left <= 0 /\ \A u \in Active(tm) : t.left <= u.left
    BY StepDueFirst DEF DueFirst
  <1> QED
    BY <1>1, AlwaysTimely, PTL DEF Safe, RunWhenDue
=============================================================================
