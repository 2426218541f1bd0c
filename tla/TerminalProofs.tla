--------------------------- MODULE TerminalProofs ---------------------------
(***************************************************************************)
(* Proofs about the line buffers of the terminal.  Every operator of       *)
(* Terminal that takes a terminal to a terminal has a lemma: it keeps the  *)
(* terminal well-formed (Well), leaves a view that shows lines that exist  *)
(* on such lines (Viewed), puts no text in two lines (Lasts), and keeps    *)
(* the text at the top of a view of the scrollback there (Carries).  Those *)
(* that erase or change screens lose no text of the main screen but the    *)
(* oldest (Saves).                                                         *)
(***************************************************************************)
EXTENDS Terminal, SequenceTheorems, NaturalsInduction, WellFoundedInduction, TLAPS

Terminals ==
    [rows : Nat \ {0}, savelines : Nat, set : Setting,
     screen : Seq(Nat), alt : Seq(Nat), sb : Seq(Nat),
     temps : Nat, which : {0, 1}, altsb : Nat, disptop : Int,
     y : Int, alt_y : Int, save_y : Int, alt_save_y : Int,
     mt : Int, mb : Int, alt_t : Int, alt_b : Int]

Row(s, y) == 0 <= y /\ y < s.rows

(* A screen has a line for each row, the scrollback is within its limit.   *)
Buffers(s) ==
    /\ Len(s.screen) = s.rows /\ Len(s.alt) = s.rows
    /\ s.temps <= Len(s.sb) /\ Len(s.sb) <= s.savelines
    /\ s.altsb <= s.rows

Cursors(s) == Row(s, s.y) /\ Row(s, s.alt_y) /\ Row(s, s.save_y) /\ Row(s, s.alt_save_y)

Margins(s) == /\ 0 <= s.mt /\ s.mt <= s.mb /\ s.mb < s.rows
              /\ 0 <= s.alt_t /\ s.alt_t <= s.alt_b /\ s.alt_b < s.rows

Well(s) == s \in Terminals /\ Buffers(s) /\ Cursors(s) /\ Margins(s)

Viewed(s) == -sblines(s) <= s.disptop /\ s.disptop <= 0

(* What no operation but a resize or the settings change.                  *)
Same(s, x) == x.rows = s.rows /\ x.savelines = s.savelines /\ x.set = s.set

(* x comes of s by an operation that leaves it on the screen which.        *)
Follows(s, x, which) ==
    /\ Well(x) /\ Same(s, x) /\ x.which = which
    /\ Viewed(s) => Viewed(x)

(* Where a text is, and that no text is in two places.                     *)
In(q, l) == \E i \in 1..Len(q) : q[i] = l
Lone(q) == \A i, j \in 1..Len(q) : q[i] # 0 /\ q[i] = q[j] => i = j
Apart(q, r) == \A l : l # 0 => ~(In(q, l) /\ In(r, l))

On(s, l) == In(s.sb, l) \/ In(s.screen, l) \/ In(s.alt, l)

Distinct(s) ==
    /\ Lone(s.sb) /\ Lone(s.screen) /\ Lone(s.alt)
    /\ Apart(s.sb, s.screen) /\ Apart(s.sb, s.alt) /\ Apart(s.screen, s.alt)

(* The text l is at the top of a view of the scrollback.                   *)
Top(s) == s.disptop + altlines(s) + Len(s.sb) + 1
Shows(s, l) == s.disptop < -altlines(s) /\ s.sb[Top(s)] = l

(* From s to x no text is made or doubled.                                 *)
Lasts(s, x) ==
    /\ Distinct(s) => Distinct(x)
    /\ \A l : l # 0 /\ On(x, l) => On(s, l)

(* The text at the top of a view of the scrollback stays there unless it   *)
(* is lost.                                                                *)
Carries(s, x) ==
    /\ Lasts(s, x)
    /\ Viewed(s) /\ Distinct(s) /\ ~s.set.sod
       => \A l : l # 0 /\ Shows(s, l) => Shows(x, l) \/ ~On(x, l)

(* On the alternate screen, nothing above it changes.                      *)
Still(s, x) ==
    s.which = 1
    => /\ x.which = 1 /\ x.sb = s.sb /\ x.alt = s.alt /\ x.altsb = s.altsb
       /\ s.set.sod \/ x.disptop = s.disptop

(* From s to x by an operation that does not change screens.               *)
Holds(s, x) == Follows(s, x, s.which) /\ Carries(s, x) /\ Still(s, x)

(* From s to x by an operation that may change screens.                    *)
Keeps(s, x) ==
    /\ Follows(s, x, x.which) /\ Carries(s, x)
    /\ x.which = 1 => Still(s, x)
    /\ s.which = 1 /\ x.which = 0 => x.sb = s.sb

Inv == /\ Well(t) /\ text \in Nat
       /\ "reconfigured" \notin Unguarded => Viewed(t)
       /\ Distinct(t) /\ \A l : l # 0 /\ On(t, l) => l \in 1..text
-----------------------------------------------------------------------------
(* Numbers, sequences and loops.                                           *)

(* A set of numbers that has a member has a least one.                     *)
LEMMA LeastMember ==
    ASSUME NEW T, T \subseteq Nat, T # {}
    PROVE  \E x \in T : \A y \in T : x <= y
  <1> DEFINE R == OpToRel(<, Nat)
  <1>1. IsWellFoundedOn(R, Nat)
    BY NatLessThanWellFounded
  <1>2. PICK x \in T : \A y \in T : ~(<<y, x>> \in R)
    <2> HIDE DEF R
    <2> QED
      BY <1>1, WFMin
  <1>3. \A y \in T : ~(y < x)
    BY <1>2 DEF OpToRel
  <1> HIDE DEF R
  <1> QED
    BY <1>2, <1>3

LEMMA MinOfTwo ==
    ASSUME NEW a \in Int, NEW b \in Int
    PROVE  Min({a, b}) = IF a <= b THEN a ELSE b
  <1>1. PICK x \in {a, b} : \A y \in {a, b} : x <= y
    BY a <= b \/ b <= a
  <1>2. Min({a, b}) \in {a, b} /\ \A y \in {a, b} : Min({a, b}) <= y
    BY <1>1 DEF Min
  <1> QED
    BY <1>2

LEMMA MaxOfTwo ==
    ASSUME NEW a \in Int, NEW b \in Int
    PROVE  Max({a, b}) = IF a >= b THEN a ELSE b
  <1>1. PICK x \in {a, b} : \A y \in {a, b} : x >= y
    BY a <= b \/ b <= a
  <1>2. Max({a, b}) \in {a, b} /\ \A y \in {a, b} : Max({a, b}) >= y
    BY <1>1 DEF Max
  <1> QED
    BY <1>2

(* The last row that holds anything is a row.                              *)
LEMMA LastNonempty ==
    ASSUME NEW q \in Seq(Nat)
    PROVE  find_last_nonempty_line(q) \in -1..(Len(q) - 1)
  <1> DEFINE full == {i \in 1..Len(q) : q[i] # 0}
  <1>0. Len(q) \in Nat
    OBVIOUS
  <1>1. CASE full = {}
    BY <1>0, <1>1 DEF find_last_nonempty_line
  <1>2. CASE full # {}
    <2> DEFINE above == {k \in Nat : Len(q) - k \in full}
    <2>1. above # {}
      <3>1. PICK i \in full : TRUE
        BY <1>2
      <3>2. Len(q) - i \in above
        BY <1>0, <3>1
      <3> QED
        BY <3>2
    <2>2. PICK k \in above : \A j \in above : k <= j
      BY <2>1, LeastMember
    <2>3. Len(q) - k \in full /\ \A i \in full : Len(q) - k >= i
      <3>1. ASSUME NEW i \in full PROVE Len(q) - i \in above /\ i \in Nat
        BY <1>0
      <3>2. k \in Nat /\ Len(q) - k \in full /\ \A j \in above : k <= j
        BY <2>2
      <3> HIDE DEF full, above
      <3>3. ASSUME NEW i \in full PROVE Len(q) - k >= i
        <4>1. k <= Len(q) - i /\ i \in Nat
          BY <3>1, <3>2
        <4> QED
          BY <1>0, <3>2, <4>1
      <3> QED
        BY <3>2, <3>3
    <2> HIDE DEF full
    <2>4. Max(full) \in full
      BY <2>3 DEF Max
    <2>5. Max(full) \in 1..Len(q)
      BY <2>4 DEF full
    <2>6. find_last_nonempty_line(q) = Max(full) - 1
      BY <1>2 DEF find_last_nonempty_line, full
    <2> QED
      BY <1>0, <2>5, <2>6
  <1> QED
    BY <1>1, <1>2

LEMMA Removed ==
    ASSUME NEW q \in Seq(Nat), NEW i \in 1..Len(q)
    PROVE  RemoveAt(q, i) \in Seq(Nat) /\ Len(RemoveAt(q, i)) = Len(q) - 1
  <1>1. Len(q) \in Nat /\ \A j \in 1..Len(q) : q[j] \in Nat
    OBVIOUS
  <1> DEFINE a == SubSeq(q, 1, i - 1)  b == SubSeq(q, i + 1, Len(q))
  <1>2. a \in Seq(Nat) /\ Len(a) = i - 1
    BY <1>1, SubSeqProperties
  <1>3. b \in Seq(Nat) /\ Len(b) = Len(q) - i
    BY <1>1, SubSeqProperties
  <1>4. RemoveAt(q, i) = a \o b
    BY DEF RemoveAt
  <1> HIDE DEF a, b
  <1>5. a \o b \in Seq(Nat) /\ Len(a \o b) = Len(a) + Len(b)
    BY <1>2, <1>3, ConcatProperties
  <1> QED
    BY <1>1, <1>2, <1>3, <1>4, <1>5

LEMMA Inserted ==
    ASSUME NEW q \in Seq(Nat), NEW i \in 1..(Len(q) + 1), NEW e \in Nat
    PROVE  InsertAt(q, i, e) \in Seq(Nat) /\ Len(InsertAt(q, i, e)) = Len(q) + 1
  <1>1. Len(q) \in Nat /\ \A j \in 1..Len(q) : q[j] \in Nat
    OBVIOUS
  <1> DEFINE a == SubSeq(q, 1, i - 1)  b == SubSeq(q, i, Len(q))
  <1>2. a \in Seq(Nat) /\ Len(a) = i - 1
    BY <1>1, SubSeqProperties
  <1>3. b \in Seq(Nat) /\ Len(b) = Len(q) - i + 1
    BY <1>1, SubSeqProperties
  <1>4. <<e>> \in Seq(Nat) /\ Len(<<e>>) = 1
    OBVIOUS
  <1> HIDE DEF a, b
  <1> DEFINE d == a \o <<e>>
  <1>5. d \in Seq(Nat) /\ Len(d) = i
    BY <1>1, <1>2, <1>4, ConcatProperties
  <1>6. InsertAt(q, i, e) = d \o b
    BY DEF InsertAt, a, b
  <1> HIDE DEF d
  <1>7. d \o b \in Seq(Nat) /\ Len(d \o b) = Len(d) + Len(b)
    BY <1>3, <1>5, ConcatProperties
  <1> QED
    BY <1>1, <1>3, <1>5, <1>6, <1>7

(* Erased rows.                                                            *)
LEMMA Blanks ==
    ASSUME NEW n \in Nat
    PROVE  Blank(n) \in Seq(Nat) /\ Len(Blank(n)) = n
  BY DEF Blank

(* g lists what n turns of F make of s, which there is for any n.          *)
Turns(g, F, s, n) == g = [i \in 0..n |-> IF i = 0 THEN s ELSE F[g[i - 1]]]

LEMMA TurnsExist ==
    ASSUME NEW F, NEW s, NEW n \in Nat
    PROVE  \E g : Turns(g, F, s, n)
  <1> DEFINE Bad == {m \in Nat : ~\E g : Turns(g, F, s, m)}
  <1>1. SUFFICES ASSUME Bad # {} PROVE FALSE
    OBVIOUS
  <1>2. PICK m \in Bad : \A k \in Bad : m <= k
    BY <1>1, LeastMember
  <1>3. CASE m = 0
    <2> DEFINE z == [i \in 0..0 |-> s]
    <2>1. Turns(z, F, s, 0)
      BY DEF Turns
    <2> QED
      BY <1>2, <1>3, <2>1
  <1>4. CASE m # 0
    <2>1. m - 1 \in Nat /\ m - 1 \notin Bad
      BY <1>2, <1>4
    <2>2. PICK g : Turns(g, F, s, m - 1)
      BY <2>1
    <2> DEFINE u == [i \in 0..m |-> IF i = m THEN F[g[m - 1]] ELSE g[i]]
    <2>3. /\ \A i \in 0..(m - 1) : g[i] = IF i = 0 THEN s ELSE F[g[i - 1]]
          /\ \A i \in 0..(m - 1) : u[i] = g[i]
          /\ u[m] = F[g[m - 1]]
      BY <1>2, <1>4, <2>1, <2>2, SMT DEF Turns
    <2>4. u = [i \in 0..m |-> u[i]]
      OBVIOUS
    <2> HIDE DEF u
    <2>5. \A i \in 0..m : u[i] = IF i = 0 THEN s ELSE F[u[i - 1]]
      BY <1>2, <1>4, <2>1, <2>3
    <2>6. Turns(u, F, s, m)
      BY <2>4, <2>5 DEF Turns
    <2> QED
      BY <1>2, <2>6
  <1> QED
    BY <1>3, <1>4

(* What holds before a loop and is handed on by each turn holds after it.  *)
LEMMA TurnByTurn ==
    ASSUME NEW n \in Nat, NEW h, NEW W, h[0] \in W[0],
           \A i \in 1..n : h[i - 1] \in W[i - 1] => h[i] \in W[i]
    PROVE  \A i \in 0..n : h[i] \in W[i]
  <1> DEFINE Bad == {i \in 0..n : h[i] \notin W[i]}
  <1>0. Bad \subseteq Nat
    OBVIOUS
  <1>1. SUFFICES ASSUME Bad # {} PROVE FALSE
    OBVIOUS
  <1>2. PICK m \in Bad : \A k \in Bad : m <= k
    BY <1>0, <1>1, LeastMember, Zenon
  <1>3. m # 0
    BY <1>2
  <1>4. m - 1 \in 0..n /\ m \in 1..n /\ m - 1 \notin Bad
    BY <1>2, <1>3
  <1> QED
    BY <1>2, <1>4
-----------------------------------------------------------------------------
(* Scrolling.                                                              *)

LEMMA FollowsItself ==
    ASSUME NEW s, Well(s)
    PROVE  Follows(s, s, s.which)
  BY DEF Follows, Same

LEMMA FollowsOn ==
    ASSUME NEW s, NEW x, NEW y, NEW v, NEW w, Follows(s, x, v), Follows(x, y, w)
    PROVE  Follows(s, y, w)
  BY DEF Follows, Same

LEMMA ToScrollbackFollows ==
    ASSUME NEW s, Well(s), NEW line \in Nat, s.savelines > 0, s.which = 0
    PROVE  Follows(s, ToScrollback(s, line), 0)
  <1> DEFINE full == Len(s.sb) = s.savelines
             older == IF full THEN Tail(s.sb) ELSE s.sb
             sb == Append(older, line)
             temps == IF full THEN s.temps ELSE s.temps + 1
             disptop == IF s.disptop > -s.savelines /\ s.disptop < 0
                        THEN s.disptop - 1 ELSE s.disptop
             x == ToScrollback(s, line)
  <1>1. /\ s \in Terminals /\ s.sb \in Seq(Nat) /\ Len(s.sb) \in Nat
        /\ s.temps \in Nat /\ s.savelines \in Nat /\ s.disptop \in Int
        /\ s.temps <= Len(s.sb) /\ Len(s.sb) <= s.savelines
    BY DEF Well, Terminals, Buffers
  <1>2. older \in Seq(Nat) /\ Len(older) = IF full THEN Len(s.sb) - 1 ELSE Len(s.sb)
    <2>1. CASE full
      BY <1>1, <2>1, HeadTailProperties
    <2>2. CASE ~full
      BY <1>1, <2>2
    <2> QED
      BY <2>1, <2>2
  <1>3. sb \in Seq(Nat) /\ Len(sb) = IF full THEN Len(s.sb) ELSE Len(s.sb) + 1
    BY <1>1, <1>2, AppendProperties
  <1>4. x = [s EXCEPT !.sb = sb, !.temps = temps, !.disptop = disptop]
    BY DEF ToScrollback
  <1>5. /\ temps \in Nat /\ temps <= Len(sb) /\ Len(sb) <= s.savelines /\ disptop \in Int
        /\ -Len(s.sb) <= s.disptop /\ s.disptop <= 0 => -Len(sb) <= disptop /\ disptop <= 0
    BY <1>1, <1>3
  <1> HIDE DEF sb, temps, disptop, x
  <1>6. /\ x \in Terminals /\ x.sb = sb /\ x.temps = temps /\ x.disptop = disptop
        /\ x.screen = s.screen /\ x.alt = s.alt /\ x.altsb = s.altsb /\ x.which = s.which
        /\ Same(s, x)
    BY <1>1, <1>3, <1>4, <1>5 DEF Terminals, Same
  <1>7. /\ x.y = s.y /\ x.alt_y = s.alt_y /\ x.save_y = s.save_y /\ x.alt_save_y = s.alt_save_y
        /\ x.mt = s.mt /\ x.mb = s.mb /\ x.alt_t = s.alt_t /\ x.alt_b = s.alt_b
    BY <1>1, <1>4 DEF Terminals
  <1>8. Well(x)
    BY <1>5, <1>6, <1>7 DEF Well, Buffers, Cursors, Margins, Row, Same
  <1>9. Viewed(s) => Viewed(x)
    BY <1>1, <1>3, <1>5, <1>6 DEF Viewed, sblines, altlines
  <1> QED
    BY <1>6, <1>8, <1>9 DEF Follows, x

(* A terminal of which only the screen is another.                         *)
LEMMA ScreenFollows ==
    ASSUME NEW s, Well(s), NEW q \in Seq(Nat), Len(q) = s.rows
    PROVE  Follows(s, [s EXCEPT !.screen = q], s.which)
  <1> DEFINE x == [s EXCEPT !.screen = q]
  <1>1. s \in Terminals
    BY DEF Well
  <1>2. /\ x \in Terminals /\ x.sb = s.sb /\ x.temps = s.temps /\ x.disptop = s.disptop
        /\ x.screen = q /\ x.alt = s.alt /\ x.altsb = s.altsb /\ x.which = s.which
        /\ Same(s, x)
    BY <1>1 DEF Terminals, Same
  <1>3. /\ x.y = s.y /\ x.alt_y = s.alt_y /\ x.save_y = s.save_y /\ x.alt_save_y = s.alt_save_y
        /\ x.mt = s.mt /\ x.mb = s.mb /\ x.alt_t = s.alt_t /\ x.alt_b = s.alt_b
    BY <1>1 DEF Terminals
  <1> HIDE DEF x
  <1>4. Well(x)
    BY <1>2, <1>3 DEF Well, Buffers, Cursors, Margins, Row, Same
  <1>5. Viewed(s) => Viewed(x)
    BY <1>2 DEF Viewed, sblines, altlines, Same
  <1>6. Follows(s, x, s.which)
    BY <1>2, <1>4, <1>5 DEF Follows
  <1> QED
    BY <1>6 DEF x

Region(s, top, bot) == top \in Nat /\ bot \in Nat /\ top <= bot /\ bot < s.rows

LEMMA ScrollForwardFollows ==
    ASSUME NEW s, Well(s), NEW top, NEW bot, Region(s, top, bot),
           NEW keep \in BOOLEAN, keep => s.which = 0
    PROVE  Follows(s, ScrollForward(s, top, bot, keep), s.which)
  <1> DEFINE x == IF keep /\ s.savelines > 0 THEN ToScrollback(s, s.screen[top + 1]) ELSE s
             r == RemoveAt(x.screen, top + 1)
             q == InsertAt(r, bot + 1, 0)
  <1>1. s.screen \in Seq(Nat) /\ Len(s.screen) = s.rows /\ s.rows \in Nat
    BY DEF Well, Terminals, Buffers
  <1>2. top + 1 \in 1..Len(s.screen) /\ s.screen[top + 1] \in Nat
    BY <1>1 DEF Region
  <1>3. Follows(s, x, s.which)
    BY <1>2, ToScrollbackFollows, FollowsItself
  <1> HIDE DEF x
  <1>4. Well(x) /\ x.rows = s.rows /\ x.screen \in Seq(Nat) /\ Len(x.screen) = s.rows
    BY <1>3 DEF Follows, Same, Well, Terminals, Buffers
  <1>5. r \in Seq(Nat) /\ Len(r) = s.rows - 1
    BY <1>1, <1>2, <1>4, Removed
  <1>6. q \in Seq(Nat) /\ Len(q) = s.rows
    <2> HIDE DEF r
    <2>1. bot + 1 \in 1..(Len(r) + 1)
      BY <1>1, <1>5 DEF Region
    <2>2. InsertAt(r, bot + 1, 0) \in Seq(Nat) /\ Len(InsertAt(r, bot + 1, 0)) = Len(r) + 1
      BY <1>5, <2>1, Inserted
    <2> QED
      BY <1>1, <1>5, <2>2
  <1>7. Follows(x, [x EXCEPT !.screen = q], x.which)
    BY <1>4, <1>6, ScreenFollows
  <1>8. ScrollForward(s, top, bot, keep) = [x EXCEPT !.screen = q]
    BY DEF ScrollForward, x
  <1> QED
    <2> HIDE DEF q
    <2>1. x.which = s.which
      BY <1>3 DEF Follows
    <2> QED
      BY <1>3, <1>7, <1>8, <2>1, FollowsOn

LEMMA ScrollBackFollows ==
    ASSUME NEW s, Well(s), NEW top, NEW bot, Region(s, top, bot)
    PROVE  Follows(s, ScrollBack(s, top, bot), s.which)
  <1> DEFINE r == RemoveAt(s.screen, bot + 1)
             q == InsertAt(r, top + 1, 0)
  <1>1. s.screen \in Seq(Nat) /\ Len(s.screen) = s.rows /\ s.rows \in Nat
    BY DEF Well, Terminals, Buffers
  <1>2. r \in Seq(Nat) /\ Len(r) = s.rows - 1
    <2>1. bot + 1 \in 1..Len(s.screen)
      BY <1>1 DEF Region
    <2> QED
      BY <1>1, <2>1, Removed
  <1>3. q \in Seq(Nat) /\ Len(q) = s.rows
    <2> HIDE DEF r
    <2>1. top + 1 \in 1..(Len(r) + 1)
      BY <1>1, <1>2 DEF Region
    <2>2. InsertAt(r, top + 1, 0) \in Seq(Nat) /\ Len(InsertAt(r, top + 1, 0)) = Len(r) + 1
      BY <1>2, <2>1, Inserted
    <2> QED
      BY <1>1, <1>2, <2>2
  <1> QED
    BY <1>3, ScreenFollows DEF ScrollBack

-----------------------------------------------------------------------------
(* Where the texts go.                                                     *)

LEMMA CarriesOn ==
    ASSUME NEW s, NEW x, NEW y, NEW v, NEW w, Follows(s, x, v), Follows(x, y, w),
           Carries(s, x), Carries(x, y)
    PROVE  Carries(s, y)
  <1>1. x.set = s.set /\ (Viewed(s) => Viewed(x))
    BY DEF Follows, Same
  <1>2. ASSUME NEW l, l # 0, On(y, l) PROVE On(s, l)
    BY <1>2 DEF Carries, Lasts
  <1>3. Distinct(s) => Distinct(y)
    BY DEF Carries, Lasts
  <1>4. ASSUME Viewed(s), Distinct(s), ~s.set.sod, NEW l, l # 0, Shows(s, l)
        PROVE  Shows(y, l) \/ ~On(y, l)
    <2>1. Viewed(x) /\ Distinct(x) /\ ~x.set.sod
      BY <1>1, <1>4 DEF Carries, Lasts
    <2>2. Shows(x, l) \/ ~On(x, l)
      BY <1>4 DEF Carries, Lasts
    <2>3. Shows(x, l) => Shows(y, l) \/ ~On(y, l)
      BY <1>4, <2>1 DEF Carries, Lasts
    <2>4. On(y, l) => On(x, l)
      BY <1>4 DEF Carries, Lasts
    <2> QED
      BY <2>2, <2>3, <2>4
  <1> QED
    BY <1>2, <1>3, <1>4 DEF Carries, Lasts

LEMMA LastsOn ==
    ASSUME NEW s, NEW x, NEW y, Lasts(s, x), Lasts(x, y)
    PROVE  Lasts(s, y)
  BY DEF Lasts

(* Both at once, for operations that may change screens.                   *)
Goes(s, x, which) == Follows(s, x, which) /\ Carries(s, x)

LEMMA GoesOn ==
    ASSUME NEW s, NEW x, NEW y, NEW v, NEW w, Goes(s, x, v), Goes(x, y, w)
    PROVE  Goes(s, y, w)
  BY FollowsOn, CarriesOn DEF Goes

LEMMA HoldsOn ==
    ASSUME NEW s, NEW x, NEW y, Holds(s, x), Holds(x, y)
    PROVE  Holds(s, y)
  <1>1. Follows(s, x, s.which) /\ Follows(x, y, x.which) /\ x.which = s.which /\ x.set = s.set
    BY DEF Holds, Follows, Same
  <1>2. Follows(s, y, s.which)
    BY <1>1, FollowsOn
  <1>3. Carries(s, y)
    BY <1>1, CarriesOn DEF Holds
  <1>4. Still(s, y)
    BY <1>1 DEF Holds, Still
  <1> QED
    BY <1>2, <1>3, <1>4 DEF Holds

(* An operation that leaves the lines and the view where they are.         *)
Unmoved(s, x) ==
    /\ x.sb = s.sb /\ x.screen = s.screen /\ x.alt = s.alt /\ x.altsb = s.altsb
    /\ x.which = s.which /\ x.disptop = s.disptop /\ x.set = s.set

LEMMA UnmovedHolds ==
    ASSUME NEW s, NEW x, Follows(s, x, s.which), Unmoved(s, x)
    PROVE  Holds(s, x)
  <1>1. Distinct(x) <=> Distinct(s)
    BY DEF Unmoved, Distinct
  <1>2. \A l : On(x, l) <=> On(s, l)
    BY DEF Unmoved, On
  <1>3. \A l : Shows(x, l) <=> Shows(s, l)
    BY DEF Unmoved, Shows, Top, altlines
  <1>4. Still(s, x)
    BY DEF Unmoved, Still
  <1> QED
    BY <1>1, <1>2, <1>3, <1>4 DEF Holds, Carries, Lasts

LEMMA HoldsItself ==
    ASSUME NEW s, Well(s)
    PROVE  Holds(s, s)
  BY FollowsItself, UnmovedHolds DEF Unmoved

(* A screen whose lines come, each once, from those of the old one.        *)
LEMMA ScreenHolds ==
    ASSUME NEW s, Well(s), NEW q \in Seq(Nat), Len(q) = s.rows,
           Lone(s.screen) => Lone(q), \A l : l # 0 /\ In(q, l) => In(s.screen, l)
    PROVE  Holds(s, [s EXCEPT !.screen = q])
  <1> DEFINE x == [s EXCEPT !.screen = q]
  <1>1. Follows(s, x, s.which)
    BY ScreenFollows
  <1>2. /\ x.sb = s.sb /\ x.screen = q /\ x.alt = s.alt /\ x.altsb = s.altsb
        /\ x.which = s.which /\ x.disptop = s.disptop /\ x.set = s.set
    BY DEF Well, Terminals
  <1> HIDE DEF x
  <1>3. Distinct(s) => Distinct(x)
    <2>1. Apart(s.sb, s.screen) => Apart(s.sb, q)
      BY DEF Apart
    <2>2. Apart(s.screen, s.alt) => Apart(q, s.alt)
      BY DEF Apart
    <2> QED
      BY <1>2, <2>1, <2>2 DEF Distinct
  <1>4. \A l : l # 0 /\ On(x, l) => On(s, l)
    BY <1>2 DEF On
  <1>5. \A l : Shows(x, l) <=> Shows(s, l)
    BY <1>2 DEF Shows, Top, altlines
  <1>6. Still(s, x)
    BY <1>2 DEF Still
  <1>7. Holds(s, x)
    BY <1>1, <1>3, <1>4, <1>5, <1>6 DEF Holds, Carries, Lasts
  <1> QED
    BY <1>7 DEF x

(* A line is taken out of the screen, an empty one put in.                 *)
LEMMA ShiftedLines ==
    ASSUME NEW q \in Seq(Nat), NEW i \in 1..Len(q), NEW j \in 1..Len(q)
    PROVE  LET r == InsertAt(RemoveAt(q, i), j, 0)
           IN  /\ r \in Seq(Nat) /\ Len(r) = Len(q)
               /\ Lone(q) => Lone(r)
               /\ \A l : l # 0 /\ In(r, l) => In(q, l)
               /\ Lone(q) /\ q[i] # 0 => ~In(r, q[i])
  <1> DEFINE n == Len(q)
             a == SubSeq(q, 1, i - 1)   b == SubSeq(q, i + 1, n)
             d == RemoveAt(q, i)
             e == SubSeq(d, 1, j - 1)   f == SubSeq(d, j, n - 1)
             r == InsertAt(d, j, 0)
             from(k) == LET m == IF k < j THEN k ELSE k - 1
                        IN  IF m < i THEN m ELSE m + 1
  <1>1. n \in Nat /\ i \in 1..n /\ j \in 1..n /\ \A k \in 1..n : q[k] \in Nat
    OBVIOUS
  <1>2. d \in Seq(Nat) /\ Len(d) = n - 1
    BY Removed
  <1>3. \A k \in 1..(n - 1) : d[k] = IF k < i THEN q[k] ELSE q[k + 1]
    <2>1. d = a \o b
      BY DEF RemoveAt
    <2>2. a \in Seq(Nat) /\ Len(a) = i - 1 /\ \A k \in 1..(i - 1) : a[k] = q[k]
      BY <1>1, SubSeqProperties
    <2>3. b \in Seq(Nat) /\ Len(b) = n - i /\ \A k \in 1..(n - i) : b[k] = q[k + i]
      <3>1. \A k \in (i + 1)..n : q[k] \in Nat
        BY <1>1
      <3>2. /\ b \in Seq(Nat) /\ Len(b) = IF i + 1 <= n THEN n - (i + 1) + 1 ELSE 0
            /\ \A k \in 1..(n - (i + 1) + 1) : b[k] = q[i + 1 + k - 1]
        BY <1>1, <3>1, SubSeqProperties
      <3> HIDE DEF n, b
      <3> QED
        BY <1>1, <3>2
    <2> HIDE DEF n, a, b, d
    <2>4. \A k \in 1..(Len(a) + Len(b)) :
            (a \o b)[k] = IF k <= Len(a) THEN a[k] ELSE b[k - Len(a)]
      BY <2>2, <2>3, ConcatProperties
    <2> SUFFICES ASSUME NEW k \in 1..(n - 1)
                 PROVE  d[k] = IF k < i THEN q[k] ELSE q[k + 1]
      OBVIOUS
    <2>5. k \in 1..(Len(a) + Len(b)) /\ k \in Int
      BY <1>1, <2>2, <2>3
    <2>6. d[k] = IF k <= i - 1 THEN a[k] ELSE b[k - (i - 1)]
      BY <2>1, <2>2, <2>4, <2>5
    <2>7. CASE k < i
      BY <1>1, <2>2, <2>5, <2>6, <2>7
    <2>8. CASE ~(k < i)
      <3>1. k - (i - 1) \in 1..(n - i) /\ k - (i - 1) + i = k + 1
        BY <1>1, <2>8
      <3>2. b[k - (i - 1)] = q[k + 1]
        BY <2>3, <3>1
      <3> QED
        BY <1>1, <2>5, <2>6, <2>8, <3>2
    <2> QED
      BY <2>7, <2>8
  <1> HIDE DEF d
  <1>4. r \in Seq(Nat) /\ Len(r) = n
    <2>1. j \in 1..(Len(d) + 1) /\ 0 \in Nat
      BY <1>1, <1>2
    <2>2. InsertAt(d, j, 0) \in Seq(Nat) /\ Len(InsertAt(d, j, 0)) = Len(d) + 1
      BY <1>2, <2>1, Inserted
    <2> HIDE DEF n
    <2> QED
      BY <1>1, <1>2, <2>2
  <1>5. \A k \in 1..n : r[k] = IF k = j THEN 0 ELSE IF k < j THEN d[k] ELSE d[k - 1]
    <2> DEFINE z == <<0>>  ez == e \o z
    <2>a. \A k \in 1..(n - 1) : d[k] \in Nat
      <3>1. \A k \in 1..Len(d) : d[k] \in Nat
        BY <1>2, ElementOfSeq
      <3> HIDE DEF n
      <3> QED
        BY <1>2, <3>1
    <2>1. r = ez \o f
      BY <1>1, <1>2 DEF InsertAt
    <2> HIDE DEF n
    <2>2. e \in Seq(Nat) /\ Len(e) = j - 1 /\ \A k \in 1..(j - 1) : e[k] = d[k]
      <3>1. \A k \in 1..(j - 1) : d[k] \in Nat
        BY <1>1, <2>a
      <3> QED
        BY <1>1, <1>2, <3>1, SubSeqProperties
    <2>3. f \in Seq(Nat) /\ Len(f) = n - j /\ \A k \in 1..(n - j) : f[k] = d[k + j - 1]
      <3> DEFINE hi == n - 1
      <3>1. (\A k \in j..hi : d[k] \in Nat) /\ hi \in Int /\ j \in Int /\ f = SubSeq(d, j, hi)
        BY <1>1, <2>a
      <3>3. hi = n - 1
        OBVIOUS
      <3> HIDE DEF f, hi
      <3>2. /\ f \in Seq(Nat) /\ Len(f) = IF j <= hi THEN hi - j + 1 ELSE 0
            /\ \A k \in 1..(hi - j + 1) : f[k] = d[j + k - 1]
        BY <3>1, SubSeqProperties
      <3> QED
        BY <1>1, <3>2, <3>3
    <2>4. z \in Seq(Nat) /\ Len(z) = 1 /\ z[1] = 0
      OBVIOUS
    <2> HIDE DEF e, f, z, r
    <2>5. /\ ez \in Seq(Nat) /\ Len(ez) = j
          /\ \A k \in 1..j : ez[k] = IF k = j THEN 0 ELSE d[k]
      <3>1. /\ e \o z \in Seq(Nat) /\ Len(e \o z) = Len(e) + Len(z)
            /\ \A k \in 1..(Len(e) + Len(z)) :
                 (e \o z)[k] = IF k <= Len(e) THEN e[k] ELSE z[k - Len(e)]
        BY <2>2, <2>4, ConcatProperties
      <3> HIDE DEF ez
      <3>2. ez = e \o z
        BY DEF ez
      <3> QED
        BY <1>1, <2>2, <2>4, <3>1, <3>2
    <2> HIDE DEF ez
    <2>6. \A k \in 1..(Len(ez) + Len(f)) :
            (ez \o f)[k] = IF k <= Len(ez) THEN ez[k] ELSE f[k - Len(ez)]
      BY <2>3, <2>5, ConcatProperties
    <2> SUFFICES ASSUME NEW k \in 1..n
                 PROVE  r[k] = IF k = j THEN 0 ELSE IF k < j THEN d[k] ELSE d[k - 1]
      OBVIOUS
    <2>7. k \in 1..(Len(ez) + Len(f)) /\ k \in Int
      BY <1>1, <2>3, <2>5
    <2>8. r[k] = IF k <= j THEN ez[k] ELSE f[k - j]
      BY <2>1, <2>5, <2>6, <2>7
    <2>9. CASE k <= j
      BY <1>1, <2>5, <2>7, <2>8, <2>9
    <2>10. CASE ~(k <= j)
      <3>1. k - j \in 1..(n - j) /\ k - j + j - 1 = k - 1
        BY <1>1, <2>10
      <3>2. f[k - j] = d[k - 1]
        BY <2>3, <3>1
      <3> QED
        BY <1>1, <2>7, <2>8, <2>10, <3>2
    <2> QED
      BY <2>9, <2>10
  <1> HIDE DEF r
  <1>6. ASSUME NEW k \in 1..n, k # j
        PROVE  from(k) \in 1..n /\ from(k) # i /\ r[k] = q[from(k)]
    <2> HIDE DEF n
    <2> QED
      BY <1>1, <1>3, <1>5, <1>6
  <1>7. ASSUME NEW k \in 1..n, NEW m \in 1..n, k # j, m # j, from(k) = from(m)
        PROVE  k = m
    <2> HIDE DEF n
    <2> QED
      BY <1>1, <1>7
  <1>8. r[j] = 0
    <2> HIDE DEF n
    <2> QED
      BY <1>1, <1>5
  <1> HIDE DEF from
  <1>9. Lone(q) => Lone(r)
    <2> SUFFICES ASSUME Lone(q), NEW k \in 1..n, NEW m \in 1..n, r[k] # 0, r[k] = r[m]
                 PROVE  k = m
      BY <1>4 DEF Lone
    <2>1. k # j /\ m # j
      BY <1>8
    <2>2. /\ from(k) \in 1..n /\ r[k] = q[from(k)]
          /\ from(m) \in 1..n /\ r[m] = q[from(m)]
      BY <1>6, <2>1
    <2>3. from(k) = from(m)
      BY <2>2 DEF Lone
    <2> QED
      BY <1>7, <2>1, <2>3
  <1>10. \A l : l # 0 /\ In(r, l) => In(q, l)
    BY <1>4, <1>6, <1>8 DEF In
  <1>11. Lone(q) /\ q[i] # 0 => ~In(r, q[i])
    BY <1>4, <1>6, <1>8 DEF In, Lone
  <1> QED
    BY <1>4, <1>9, <1>10, <1>11 DEF r, d

LEMMA ScrollBackHolds ==
    ASSUME NEW s, Well(s), NEW top, NEW bot, Region(s, top, bot)
    PROVE  Holds(s, ScrollBack(s, top, bot))
  <1> DEFINE q == InsertAt(RemoveAt(s.screen, bot + 1), top + 1, 0)
             i == bot + 1  j == top + 1
  <1>1. s.screen \in Seq(Nat) /\ Len(s.screen) = s.rows /\ s.rows \in Nat
    BY DEF Well, Terminals, Buffers
  <1>2. i \in 1..Len(s.screen) /\ j \in 1..Len(s.screen)
    BY <1>1 DEF Region
  <1>3. ScrollBack(s, top, bot) = [s EXCEPT !.screen = q] /\ q = InsertAt(RemoveAt(s.screen, i), j, 0)
    BY DEF ScrollBack
  <1> HIDE DEF q, i, j
  <1>4. /\ q \in Seq(Nat) /\ Len(q) = Len(s.screen) /\ (Lone(s.screen) => Lone(q))
        /\ \A l : l # 0 /\ In(q, l) => In(s.screen, l)
    BY <1>1, <1>2, <1>3, ShiftedLines
  <1> QED
    BY <1>1, <1>3, <1>4, ScreenHolds

(* What ToScrollback makes of the scrollback.                              *)
LEMMA ScrollbackLines ==
    ASSUME NEW s, Well(s), NEW line \in Nat, s.savelines > 0
    PROVE  LET x == ToScrollback(s, line)
               gone == IF Len(s.sb) = s.savelines THEN 1 ELSE 0
               n == Len(s.sb) - gone
           IN  /\ Len(x.sb) = n + 1 /\ x.sb[n + 1] = line
               /\ \A k \in 1..n : x.sb[k] = s.sb[k + gone]
               /\ x.disptop = IF s.disptop > -s.savelines /\ s.disptop < 0
                              THEN s.disptop - 1 ELSE s.disptop
               /\ x.screen = s.screen /\ x.alt = s.alt /\ x.altsb = s.altsb
               /\ x.which = s.which
  <1> DEFINE full == Len(s.sb) = s.savelines
             gone == IF full THEN 1 ELSE 0
             n == Len(s.sb) - gone
             older == IF full THEN Tail(s.sb) ELSE s.sb
             sb == Append(older, line)
             temps == IF full THEN s.temps ELSE s.temps + 1
             disptop == IF s.disptop > -s.savelines /\ s.disptop < 0
                        THEN s.disptop - 1 ELSE s.disptop
             x == ToScrollback(s, line)
  <1>1. s \in Terminals /\ s.sb \in Seq(Nat) /\ Len(s.sb) \in Nat /\ s.savelines \in Nat
    BY DEF Well, Terminals
  <1>2. older \in Seq(Nat) /\ Len(older) = n /\ \A k \in 1..n : older[k] = s.sb[k + gone]
    <2>1. CASE full
      <3>1. s.sb # <<>>
        BY <1>1, <2>1
      <3>2. /\ Tail(s.sb) \in Seq(Nat) /\ Len(Tail(s.sb)) = Len(s.sb) - 1
            /\ \A k \in 1..Len(Tail(s.sb)) : Tail(s.sb)[k] = s.sb[k + 1]
        BY <1>1, <3>1, HeadTailProperties
      <3> QED
        BY <2>1, <3>2
    <2>2. CASE ~full
      BY <1>1, <2>2
    <2> QED
      BY <2>1, <2>2
  <1>3. x = [s EXCEPT !.sb = sb, !.temps = temps, !.disptop = disptop]
    BY DEF ToScrollback
  <1> HIDE DEF older, n
  <1>4. /\ Len(sb) = Len(older) + 1 /\ sb[Len(older) + 1] = line
        /\ \A k \in 1..Len(older) : sb[k] = older[k]
    BY <1>2, AppendProperties
  <1> HIDE DEF sb, temps, disptop, x
  <1>5. /\ x.sb = sb /\ x.disptop = disptop /\ x.screen = s.screen /\ x.alt = s.alt
        /\ x.altsb = s.altsb /\ x.which = s.which
    BY <1>1, <1>3 DEF Terminals
  <1> HIDE DEF gone
  <1>6. /\ Len(x.sb) = n + 1 /\ x.sb[n + 1] = line
        /\ \A k \in 1..n : x.sb[k] = s.sb[k + gone]
    BY <1>2, <1>4, <1>5
  <1> QED
    BY <1>5, <1>6 DEF x, disptop, n, gone

LEMMA ScrollForwardHolds ==
    ASSUME NEW s, Well(s), NEW top, NEW bot, Region(s, top, bot),
           NEW keep \in BOOLEAN, keep => s.which = 0
    PROVE  Holds(s, ScrollForward(s, top, bot, keep))
  <1> DEFINE i == top + 1  j == bot + 1  line == s.screen[i]
             q == InsertAt(RemoveAt(s.screen, i), j, 0)
  <1>1. s.screen \in Seq(Nat) /\ Len(s.screen) = s.rows /\ s.rows \in Nat
    BY DEF Well, Terminals, Buffers
  <1>2. i \in 1..Len(s.screen) /\ j \in 1..Len(s.screen) /\ line \in Nat
    BY <1>1 DEF Region
  <1>3. /\ q \in Seq(Nat) /\ Len(q) = Len(s.screen) /\ (Lone(s.screen) => Lone(q))
        /\ \A l : l # 0 /\ In(q, l) => In(s.screen, l)
        /\ Lone(s.screen) /\ line # 0 => ~In(q, line)
    <2> HIDE DEF i, j
    <2> QED
      BY <1>1, <1>2, ShiftedLines
  <1>4. CASE ~(keep /\ s.savelines > 0)
    <2>1. ScrollForward(s, top, bot, keep) = [s EXCEPT !.screen = q]
      BY <1>4 DEF ScrollForward
    <2> HIDE DEF q
    <2> QED
      BY <1>1, <1>3, <2>1, ScreenHolds
  <1>5. CASE keep /\ s.savelines > 0
    <2> DEFINE y == ToScrollback(s, line)
               x == [y EXCEPT !.screen = q]
               gone == IF Len(s.sb) = s.savelines THEN 1 ELSE 0
               n == Len(s.sb) - gone
    <2>1. /\ s.sb \in Seq(Nat) /\ s.disptop \in Int /\ s.which = 0 /\ s.savelines \in Nat
          /\ Len(s.sb) <= s.savelines
      BY <1>5 DEF Well, Terminals, Buffers
    <2>a. Len(s.sb) \in Nat /\ \A k \in 1..Len(s.sb) : s.sb[k] \in Nat
      BY <2>1
    <2>2. ScrollForward(s, top, bot, keep) = x
      <3>1. y.screen = s.screen
        BY <1>2, <1>5, ScrollbackLines
      <3> QED
        BY <1>5, <3>1 DEF ScrollForward
    <2>3. Follows(s, x, 0)
      BY <2>1, <2>2, ScrollForwardFollows
    <2> HIDE DEF line, q
    <2>4. /\ Len(y.sb) = n + 1 /\ y.sb[n + 1] = line
          /\ \A k \in 1..n : y.sb[k] = s.sb[k + gone]
          /\ y.disptop = IF s.disptop > -s.savelines /\ s.disptop < 0
                         THEN s.disptop - 1 ELSE s.disptop
          /\ y.alt = s.alt /\ y.which = 0
      BY <1>2, <1>5, <2>1, ScrollbackLines
    <2>5. y \in Terminals
      BY <1>2, <1>5, <2>1, ToScrollbackFollows DEF Follows, Well
    <2> HIDE DEF y
    <2>6. x.sb = y.sb /\ x.disptop = y.disptop /\ x.alt = s.alt /\ x.screen = q /\ x.which = 0
      BY <2>4, <2>5 DEF Terminals
    <2> HIDE DEF x
    <2>7. n \in Nat /\ gone \in Nat /\ n + gone = Len(s.sb) /\ (gone = 0 \/ gone = 1)
      BY <1>5, <2>1, <2>a
    <2>8. gone = 1 <=> Len(s.sb) = s.savelines
      OBVIOUS
    <2> HIDE DEF n, gone
    <2>9. In(s.screen, line)
      BY <1>2 DEF In, line
    <2>10. ASSUME NEW l, l # 0, In(x.sb, l) PROVE In(s.sb, l) \/ l = line
      <3>1. PICK k \in 1..(n + 1) : x.sb[k] = l
        BY <2>4, <2>6, <2>10 DEF In
      <3>2. CASE k = n + 1
        BY <2>4, <2>6, <3>1, <3>2
      <3>3. CASE k # n + 1
        <4>1. k \in 1..n /\ k + gone \in 1..Len(s.sb)
          BY <2>7, <3>3
        <4>2. s.sb[k + gone] = l
          BY <2>4, <2>6, <3>1, <4>1
        <4> QED
          BY <4>1, <4>2 DEF In
      <3> QED
        BY <3>2, <3>3
    <2>11. ASSUME Distinct(s) PROVE Lone(x.sb)
      <3> SUFFICES ASSUME NEW k \in 1..(n + 1), NEW m \in 1..(n + 1),
                          x.sb[k] # 0, x.sb[k] = x.sb[m], k # m
                   PROVE  FALSE
        BY <2>4, <2>6 DEF Lone
      <3>1. \A h \in 1..n : h + gone \in 1..Len(s.sb) /\ x.sb[h] = s.sb[h + gone]
        BY <2>4, <2>6, <2>7
      <3>2. ASSUME NEW h \in 1..n, line # 0, x.sb[h] = line PROVE FALSE
        <4>1. In(s.sb, line)
          BY <3>1, <3>2 DEF In
        <4> QED
          BY <2>9, <2>11, <3>2, <4>1 DEF Distinct, Apart
      <3>3. x.sb[n + 1] = line
        BY <2>4, <2>6
      <3>4. CASE k \in 1..n /\ m \in 1..n
        <4>1. /\ k + gone \in 1..Len(s.sb) /\ x.sb[k] = s.sb[k + gone]
              /\ m + gone \in 1..Len(s.sb) /\ x.sb[m] = s.sb[m + gone]
          BY <3>1, <3>4
        <4>2. k + gone = m + gone
          BY <2>11, <4>1 DEF Distinct, Lone
        <4> QED
          BY <2>7, <4>2
      <3>5. CASE k = n + 1 \/ m = n + 1
        <4>1. k \in 1..n \/ m \in 1..n
          BY <2>7, <3>5
        <4> QED
          BY <3>2, <3>3, <3>5, <4>1
      <3> QED
        BY <2>7, <3>4, <3>5
    <2>12. ASSUME Distinct(s) PROVE Distinct(x)
      <3>1. Apart(x.sb, q)
        <4> SUFFICES ASSUME NEW l, l # 0, In(x.sb, l), In(q, l) PROVE FALSE
          BY DEF Apart
        <4>1. In(s.screen, l) /\ (In(s.sb, l) \/ l = line)
          BY <1>3, <2>10
        <4> QED
          BY <1>3, <2>12, <4>1 DEF Distinct, Apart
      <3>2. Apart(x.sb, s.alt)
        <4> SUFFICES ASSUME NEW l, l # 0, In(x.sb, l), In(s.alt, l) PROVE FALSE
          BY DEF Apart
        <4>1. In(s.sb, l) \/ l = line
          BY <2>10
        <4> QED
          BY <2>9, <2>12, <4>1 DEF Distinct, Apart
      <3>3. Apart(q, s.alt)
        BY <1>3, <2>12 DEF Distinct, Apart
      <3> QED
        BY <1>3, <2>6, <2>11, <2>12, <3>1, <3>2, <3>3 DEF Distinct
    <2>13. ASSUME NEW l, l # 0, On(x, l) PROVE On(s, l)
      BY <1>3, <2>6, <2>9, <2>10, <2>13 DEF On
    <2>14. ASSUME Viewed(s), Distinct(s), NEW l, l # 0, Shows(s, l)
           PROVE  Shows(x, l) \/ ~On(x, l)
      <3>0. altlines(s) = 0 /\ altlines(x) = 0
        BY <2>1, <2>6 DEF altlines
      <3>1. /\ -Len(s.sb) <= s.disptop /\ s.disptop < 0
            /\ s.sb[s.disptop + Len(s.sb) + 1] = l
        <4>1. sblines(s) = Len(s.sb)
          BY <2>a, <3>0 DEF sblines
        <4>2. -sblines(s) <= s.disptop
          BY <2>14 DEF Viewed
        <4>3. s.disptop < -altlines(s) /\ s.sb[s.disptop + altlines(s) + Len(s.sb) + 1] = l
          BY <2>14 DEF Shows, Top
        <4> QED
          BY <2>1, <2>a, <3>0, <4>1, <4>2, <4>3
      <3>2. CASE s.disptop > -s.savelines
        <4> DEFINE k == s.disptop - 1 + (n + 1) + 1
        <4>1. x.disptop = s.disptop - 1 /\ Len(x.sb) = n + 1
          BY <2>4, <2>6, <3>1, <3>2
        <4>2. k \in 1..n /\ k + gone = s.disptop + Len(s.sb) + 1
          <5> DEFINE len == Len(s.sb)  top0 == s.disptop
          <5>1. /\ len \in Nat /\ top0 \in Int /\ s.savelines \in Nat /\ -len <= top0 /\ top0 < 0
                /\ n + gone = len /\ top0 > -s.savelines
            BY <2>1, <2>7, <2>a, <3>1, <3>2
          <5>2. gone = 1 => len = s.savelines
            BY <2>8
          <5> HIDE DEF len, top0
          <5>3. top0 - 1 + (n + 1) + 1 \in 1..n
            BY <2>7, <5>1, <5>2
          <5>4. top0 - 1 + (n + 1) + 1 + gone = top0 + len + 1
            BY <2>7, <5>1
          <5> QED
            BY <5>3, <5>4 DEF len, top0
        <4>3. x.sb[k] = l
          <5>1. x.sb[k] = s.sb[k + gone]
            BY <2>4, <2>6, <4>2
          <5> QED
            BY <3>1, <4>2, <5>1
        <4>4. x.disptop + altlines(x) + Len(x.sb) + 1 = k
          BY <2>1, <2>7, <3>0, <4>1
        <4>5. x.disptop < -altlines(x)
          BY <2>1, <3>0, <3>1, <4>1
        <4> QED
          BY <4>3, <4>4, <4>5 DEF Shows, Top
      <3>3. CASE ~(s.disptop > -s.savelines)
        <4>1. gone = 1 /\ s.disptop = -Len(s.sb) /\ 1 \in 1..Len(s.sb)
          BY <2>1, <2>7, <2>8, <2>a, <3>1, <3>3
        <4>2. s.sb[1] = l
          BY <2>a, <3>1, <4>1
        <4>3. In(s.sb, l)
          BY <4>1, <4>2 DEF In
        <4>4. ~In(x.sb, l)
          <5> SUFFICES ASSUME NEW k \in 1..(n + 1), x.sb[k] = l PROVE FALSE
            BY <2>4, <2>6 DEF In
          <5>1. CASE k = n + 1
            <6>1. l = line
              BY <2>4, <2>6, <5>1
            <6> QED
              BY <2>9, <2>14, <4>3, <6>1 DEF Distinct, Apart
          <5>2. CASE k # n + 1
            <6>1. k \in 1..n /\ k + 1 \in 1..Len(s.sb) /\ k + 1 # 1
              BY <2>7, <4>1, <5>2
            <6>2. s.sb[k + 1] = l
              BY <2>4, <2>6, <4>1, <6>1
            <6> QED
              BY <2>14, <4>1, <4>2, <6>1, <6>2 DEF Distinct, Lone
          <5> QED
            BY <5>1, <5>2
        <4>5. ~In(q, l) /\ ~In(s.alt, l)
          BY <1>3, <2>14, <4>3 DEF Distinct, Apart
        <4> QED
          BY <2>6, <4>4, <4>5 DEF On
      <3> QED
        BY <3>2, <3>3
    <2>15. Still(s, x)
      BY <2>1 DEF Still
    <2> QED
      BY <2>1, <2>2, <2>3, <2>12, <2>13, <2>14, <2>15 DEF Holds, Carries, Lasts
  <1> QED
    BY <1>4, <1>5

(* scroll's loops.                                                         *)
ForwardTimes(s, top, bot, keep, n) ==
    Times(LAMBDA a : ScrollForward(a, top, bot, keep), s, n)
BackTimes(s, top, bot, n) == Times(LAMBDA a : ScrollBack(a, top, bot), s, n)

LEMMA ForwardTurns ==
    ASSUME NEW s, NEW top, NEW bot, NEW keep, NEW n \in Nat, NEW V, s \in V,
           \A x \in V : ScrollForward(x, top, bot, keep) \in V
    PROVE  ForwardTimes(s, top, bot, keep, n) \in V
  <1> DEFINE F == [x \in V |-> ScrollForward(x, top, bot, keep)]
             W == [i \in 0..n |-> V]
             after == CHOOSE h : h = [i \in 0..n |-> IF i = 0 THEN s
                                        ELSE ScrollForward(h[i - 1], top, bot, keep)]
  <1>1. PICK g : Turns(g, F, s, n)
    BY TurnsExist
  <1>3. ASSUME NEW x \in V
        PROVE  F[x] = ScrollForward(x, top, bot, keep) /\ ScrollForward(x, top, bot, keep) \in V
    OBVIOUS
  <1>4. \A i \in 0..n : W[i] = V
    OBVIOUS
  <1> HIDE DEF F, W
  <1>5. \A i \in 0..n : g[i] \in V
    <2>1. g[0] = s /\ \A i \in 1..n : g[i] = F[g[i - 1]]
      BY <1>1 DEF Turns
    <2>2. g[0] \in W[0] /\ \A i \in 1..n : g[i - 1] \in W[i - 1] => g[i] \in W[i]
      BY <1>3, <1>4, <2>1
    <2> QED
      BY <1>4, <2>2, TurnByTurn
  <1>6. g = [i \in 0..n |-> IF i = 0 THEN s ELSE ScrollForward(g[i - 1], top, bot, keep)]
    <2>1. \A i \in 0..n : i # 0 => F[g[i - 1]] = ScrollForward(g[i - 1], top, bot, keep)
      BY <1>3, <1>5
    <2> QED
      BY <1>1, <2>1 DEF Turns
  <1>7. after = [i \in 0..n |-> IF i = 0 THEN s ELSE ScrollForward(after[i - 1], top, bot, keep)]
    BY <1>6, Zenon
  <1>8. ForwardTimes(s, top, bot, keep, n) = after[n]
    BY DEF ForwardTimes, Times
  <1> HIDE DEF after
  <1>9. \A i \in 0..n : after[i] \in V
    <2>1. after[0] = s /\ \A i \in 1..n : after[i] = ScrollForward(after[i - 1], top, bot, keep)
      BY <1>7
    <2>2. after[0] \in W[0] /\ \A i \in 1..n : after[i - 1] \in W[i - 1] => after[i] \in W[i]
      BY <1>3, <1>4, <2>1
    <2> QED
      BY <1>4, <2>2, TurnByTurn
  <1> QED
    BY <1>8, <1>9

LEMMA ForwardLoop ==
    ASSUME NEW s, Well(s), NEW top, NEW bot, Region(s, top, bot),
           NEW keep \in BOOLEAN, keep => s.which = 0, NEW n \in Nat
    PROVE  Holds(s, ForwardTimes(s, top, bot, keep, n))
  <1> DEFINE V == {x \in Terminals : Holds(s, x)}
  <1>1. s \in V
    BY HoldsItself DEF Well
  <1>2. ASSUME NEW x \in V PROVE ScrollForward(x, top, bot, keep) \in V
    <2>1. x \in Terminals /\ Holds(s, x)
      OBVIOUS
    <2>2. Well(x) /\ x.rows = s.rows /\ x.which = s.which
      BY <2>1 DEF Holds, Follows, Same
    <2>3. Holds(x, ScrollForward(x, top, bot, keep))
      BY <2>2, ScrollForwardHolds DEF Region
    <2>4. Holds(s, ScrollForward(x, top, bot, keep))
      BY <2>1, <2>3, HoldsOn
    <2> QED
      BY <2>4 DEF Holds, Follows, Well
  <1> HIDE DEF V
  <1>3. ForwardTimes(s, top, bot, keep, n) \in V
    BY <1>1, <1>2, ForwardTurns
  <1> QED
    BY <1>3 DEF V

LEMMA BackLoop ==
    ASSUME NEW s, Well(s), NEW top, NEW bot, Region(s, top, bot),
           NEW n \in Nat
    PROVE  Holds(s, BackTimes(s, top, bot, n))
  <1> DEFINE F == [x \in Terminals |-> ScrollBack(x, top, bot)]
             V == {x \in Terminals : Holds(s, x)}
             W == [i \in 0..n |-> V]
             after == CHOOSE h : h = [i \in 0..n |-> IF i = 0 THEN s
                                        ELSE ScrollBack(h[i - 1], top, bot)]
  <1>1. PICK g : Turns(g, F, s, n)
    BY TurnsExist
  <1>2. s \in V
    BY HoldsItself DEF Well
  <1>3. ASSUME NEW x \in V
        PROVE  F[x] = ScrollBack(x, top, bot) /\ ScrollBack(x, top, bot) \in V
    <2>1. x \in Terminals /\ Holds(s, x)
      OBVIOUS
    <2>2. Well(x) /\ x.rows = s.rows /\ x.which = s.which
      BY <2>1 DEF Holds, Follows, Same
    <2>3. Holds(x, ScrollBack(x, top, bot))
      BY <2>2, ScrollBackHolds DEF Region
    <2>4. Holds(s, ScrollBack(x, top, bot))
      BY <2>1, <2>3, HoldsOn
    <2> QED
      BY <2>4 DEF Holds, Follows, Well
  <1>4. \A i \in 0..n : W[i] = V
    OBVIOUS
  <1> HIDE DEF V, F, W
  <1>5. \A i \in 0..n : g[i] \in V
    <2>1. g[0] = s /\ \A i \in 1..n : g[i] = F[g[i - 1]]
      BY <1>1 DEF Turns
    <2>2. g[0] \in W[0] /\ \A i \in 1..n : g[i - 1] \in W[i - 1] => g[i] \in W[i]
      BY <1>2, <1>3, <1>4, <2>1
    <2> QED
      BY <1>4, <2>2, TurnByTurn
  <1>6. g = [i \in 0..n |-> IF i = 0 THEN s ELSE ScrollBack(g[i - 1], top, bot)]
    <2>1. \A i \in 0..n : i # 0 => F[g[i - 1]] = ScrollBack(g[i - 1], top, bot)
      BY <1>3, <1>5
    <2> QED
      BY <1>1, <2>1 DEF Turns
  <1>7. after = [i \in 0..n |-> IF i = 0 THEN s ELSE ScrollBack(after[i - 1], top, bot)]
    BY <1>6, Zenon
  <1>8. BackTimes(s, top, bot, n) = after[n]
    BY DEF BackTimes, Times
  <1> HIDE DEF after
  <1>9. \A i \in 0..n : after[i] \in V
    <2>1. after[0] = s /\ \A i \in 1..n : after[i] = ScrollBack(after[i - 1], top, bot)
      BY <1>7
    <2>2. after[0] \in W[0] /\ \A i \in 1..n : after[i - 1] \in W[i - 1] => after[i] \in W[i]
      BY <1>2, <1>3, <1>4, <2>1
    <2> QED
      BY <1>4, <2>2, TurnByTurn
  <1> QED
    BY <1>8, <1>9 DEF V

LEMMA scrollHolds ==
    ASSUME NEW s, Well(s), NEW top, NEW bot, Region(s, top, bot),
           NEW lines \in Int, NEW sb \in BOOLEAN
    PROVE  Holds(s, scroll(s, top, bot, lines, sb))
  <1> DEFINE size == bot - top + 1
             keep == sb /\ top = 0 /\ s.which = 0
  <1>1. size \in Nat
    BY DEF Region
  <1>2. CASE lines < 0
    <2> DEFINE n == Min({-lines, size})
    <2>1. n \in Nat
      BY <1>1, <1>2, MinOfTwo
    <2>2. scroll(s, top, bot, lines, sb) = BackTimes(s, top, bot, n)
      BY <1>2 DEF scroll, BackTimes, Times
    <2> HIDE DEF n
    <2> QED
      BY <2>1, <2>2, BackLoop
  <1>3. CASE ~(lines < 0)
    <2> DEFINE n == Min({lines, size})
    <2>1. n \in Nat
      BY <1>1, <1>3, MinOfTwo
    <2>2. scroll(s, top, bot, lines, sb) = ForwardTimes(s, top, bot, keep, n)
      BY <1>3 DEF scroll, ForwardTimes, Times
    <2>3. keep \in BOOLEAN /\ (keep => s.which = 0)
      OBVIOUS
    <2> HIDE DEF n, keep
    <2> QED
      BY <2>1, <2>2, <2>3, ForwardLoop
  <1> QED
    BY <1>2, <1>3

LEMMA scrollFollows ==
    ASSUME NEW s, Well(s), NEW top, NEW bot, Region(s, top, bot),
           NEW lines \in Int, NEW sb \in BOOLEAN
    PROVE  Follows(s, scroll(s, top, bot, lines, sb), s.which)
  BY scrollHolds DEF Holds
-----------------------------------------------------------------------------
(* Erasing and changing screens.                                           *)

(* No line is left over that a resize might bring back.                    *)
LEMMA TempsHold ==
    ASSUME NEW s, Well(s)
    PROVE  Holds(s, [s EXCEPT !.temps = 0])
  <1> DEFINE x == [s EXCEPT !.temps = 0]
  <1>1. s \in Terminals /\ Len(s.sb) \in Nat
    BY DEF Well, Terminals
  <1>2. /\ x \in Terminals /\ x.sb = s.sb /\ x.temps = 0 /\ x.disptop = s.disptop
        /\ x.screen = s.screen /\ x.alt = s.alt /\ x.altsb = s.altsb /\ x.which = s.which
        /\ Same(s, x)
    BY <1>1 DEF Terminals, Same
  <1>3. /\ x.y = s.y /\ x.alt_y = s.alt_y /\ x.save_y = s.save_y /\ x.alt_save_y = s.alt_save_y
        /\ x.mt = s.mt /\ x.mb = s.mb /\ x.alt_t = s.alt_t /\ x.alt_b = s.alt_b
    BY <1>1 DEF Terminals
  <1> HIDE DEF x
  <1>4. Well(x)
    BY <1>1, <1>2, <1>3 DEF Well, Buffers, Cursors, Margins, Row, Same
  <1>5. Viewed(s) => Viewed(x)
    BY <1>2 DEF Viewed, sblines, altlines, Same
  <1>6. Follows(s, x, s.which)
    BY <1>2, <1>4, <1>5 DEF Follows
  <1>7. Holds(s, x)
    BY <1>2, <1>6, UnmovedHolds DEF Unmoved, Same
  <1> QED
    BY <1>7 DEF x

LEMMA BlankHolds ==
    ASSUME NEW s, Well(s)
    PROVE  Holds(s, [s EXCEPT !.screen = Blank(s.rows)])
  <1> DEFINE q == Blank(s.rows)
  <1>1. s.rows \in Nat
    BY DEF Well, Terminals
  <1>2. q \in Seq(Nat) /\ Len(q) = s.rows
    BY <1>1, Blanks
  <1>3. \A i \in 1..s.rows : q[i] = 0
    BY DEF Blank
  <1> HIDE DEF q
  <1>4. Lone(q) /\ \A l : l # 0 => ~In(q, l)
    BY <1>2, <1>3 DEF Lone, In
  <1>5. Holds(s, [s EXCEPT !.screen = q])
    BY <1>2, <1>4, ScreenHolds
  <1> QED
    BY <1>5 DEF q

LEMMA EraseAllHolds ==
    ASSUME NEW s, Well(s)
    PROVE  Holds(s, EraseAll(s))
  <1> DEFINE n == find_last_nonempty_line(s.screen) + 1
             x == IF s.set.e2s
                  THEN IF n > 0 THEN scroll(s, 0, n - 1, n, TRUE) ELSE s
                  ELSE [s EXCEPT !.screen = Blank(s.rows)]
  <1>1. s.screen \in Seq(Nat) /\ Len(s.screen) = s.rows /\ s.rows \in Nat
    BY DEF Well, Terminals, Buffers
  <1>2. n \in 0..s.rows
    BY <1>1, LastNonempty
  <1>3. EraseAll(s) = IF s.which = 0 THEN [x EXCEPT !.temps = 0] ELSE x
    BY DEF EraseAll
  <1>4. n > 0 => Region(s, 0, n - 1)
    BY <1>1, <1>2 DEF Region
  <1>5. Holds(s, x)
    <2> HIDE DEF n
    <2>1. n > 0 => Holds(s, scroll(s, 0, n - 1, n, TRUE))
      <3> DEFINE bot == n - 1
      <3>1. SUFFICES ASSUME n > 0 PROVE Holds(s, scroll(s, 0, bot, n, TRUE))
        OBVIOUS
      <3>2. Region(s, 0, bot) /\ n \in Int /\ TRUE \in BOOLEAN
        BY <1>1, <1>2, <1>4, <3>1
      <3> HIDE DEF bot
      <3> QED
        BY <3>2, scrollHolds
    <2>2. Holds(s, [s EXCEPT !.screen = Blank(s.rows)])
      BY BlankHolds
    <2> QED
      BY <2>1, <2>2, HoldsItself
  <1> HIDE DEF x, n
  <1>6. Well(x) /\ x.which = s.which
    BY <1>5 DEF Holds, Follows
  <1>7. Holds(x, [x EXCEPT !.temps = 0])
    BY <1>6, TempsHold
  <1> QED
    BY <1>3, <1>5, <1>7, HoldsOn

(* A view that exists, or is about to be put right.                        *)
Viewable(s) ==
    /\ s.disptop <= 0
    /\ -sblines(s) <= s.disptop \/ (s.which = 0 /\ s.set.e2s)

LEMMA ExchangedFollows ==
    ASSUME NEW s, Well(s), NEW which \in {0, 1}, which # s.which,
           NEW reset \in BOOLEAN, NEW keep \in BOOLEAN
    PROVE  LET x == Exchanged(s, which, reset, keep)
           IN  /\ Well(x) /\ Same(s, x) /\ x.which = which /\ (Viewable(s) => Viewed(x))
               /\ x.sb = s.sb /\ x.screen = s.alt /\ x.alt = s.screen
               /\ Viewed(s) /\ s.disptop < -altlines(s)
                  => /\ x.disptop < -altlines(x)
                     /\ x.disptop + altlines(x) = s.disptop + altlines(s)
  <1> DEFINE leave == s.set.e2s /\ s.which = 1 /\ s.disptop < 0
             low == Min({0, s.disptop + s.altsb})
             disptop == IF leave THEN low ELSE s.disptop
             altsb == find_last_nonempty_line(s.screen) + 1
             y == IF reset \/ keep THEN s.y ELSE s.alt_y
             mt == IF reset THEN s.mt ELSE s.alt_t
             mb == IF reset THEN s.mb ELSE s.alt_b
             save_y == IF reset THEN s.save_y ELSE s.alt_save_y
             s1 == [s EXCEPT !.disptop = disptop, !.which = which,
                             !.alt = s.screen, !.screen = s.alt, !.altsb = altsb,
                             !.y = y, !.alt_y = s.y, !.mt = mt, !.alt_t = s.mt,
                             !.mb = mb, !.alt_b = s.mb,
                             !.save_y = save_y, !.alt_save_y = s.save_y]
             enter == s1.set.e2s /\ s1.which = 1 /\ s1.disptop < 0
             top == IF enter THEN Max({-sblines(s1), s1.disptop - s1.altsb}) ELSE s1.disptop
             x == [s1 EXCEPT !.disptop = top]
  <1>1. Exchanged(s, which, reset, keep) = x
    BY DEF Exchanged
  <1>2. /\ s \in Terminals /\ s.rows \in Nat /\ s.set.e2s \in BOOLEAN /\ s.which \in {0, 1}
        /\ s.screen \in Seq(Nat) /\ s.alt \in Seq(Nat) /\ s.sb \in Seq(Nat)
        /\ s.disptop \in Int /\ s.altsb \in Nat /\ Len(s.sb) \in Nat
        /\ s.y \in Int /\ s.alt_y \in Int /\ s.save_y \in Int /\ s.alt_save_y \in Int
        /\ s.mt \in Int /\ s.mb \in Int /\ s.alt_t \in Int /\ s.alt_b \in Int
    <2>1. s \in Terminals
      BY DEF Well
    <2>2. s.set \in Setting /\ s.sb \in Seq(Nat)
      BY <2>1 DEF Terminals
    <2>3. s.set.e2s \in BOOLEAN /\ Len(s.sb) \in Nat
      BY <2>2 DEF Setting
    <2> QED
      BY <2>1, <2>3 DEF Terminals
  <1>3. Len(s.screen) = s.rows /\ Len(s.alt) = s.rows
    BY DEF Well, Buffers
  <1>4. altsb \in Nat /\ altsb <= s.rows
    <2>1. find_last_nonempty_line(s.screen) \in -1..(Len(s.screen) - 1)
      BY <1>2, LastNonempty
    <2> QED
      BY <1>2, <1>3, <2>1
  <1>5. /\ disptop \in Int
        /\ leave => disptop <= 0 /\ disptop <= s.disptop + s.altsb
                    /\ (disptop = 0 \/ disptop = s.disptop + s.altsb)
                    /\ (s.disptop + s.altsb < 0 => disptop = s.disptop + s.altsb)
        /\ ~leave => disptop = s.disptop
    <2>1. s.disptop + s.altsb \in Int
      BY <1>2
    <2>2. low = IF 0 <= s.disptop + s.altsb THEN 0 ELSE s.disptop + s.altsb
      BY <2>1, MinOfTwo
    <2> HIDE DEF low
    <2> QED
      BY <1>2, <2>2
  <1>6. y \in Int /\ mt \in Int /\ mb \in Int /\ save_y \in Int
    BY <1>2
  <1>7. Row(s, y) /\ Row(s, save_y) /\ 0 <= mt /\ mt <= mb /\ mb < s.rows
    BY DEF Well, Cursors, Margins
  <1> HIDE DEF altsb, disptop, y, mt, mb, save_y
  <1>8. /\ s1 \in Terminals /\ s1.sb = s.sb /\ s1.temps = s.temps /\ s1.disptop = disptop
        /\ s1.screen = s.alt /\ s1.alt = s.screen /\ s1.altsb = altsb /\ s1.which = which
        /\ Same(s, s1)
    BY <1>2, <1>4, <1>5, <1>6 DEF Terminals, Same
  <1>9. /\ s1.y = y /\ s1.alt_y = s.y /\ s1.save_y = save_y /\ s1.alt_save_y = s.save_y
        /\ s1.mt = mt /\ s1.mb = mb /\ s1.alt_t = s.mt /\ s1.alt_b = s.mb
    BY <1>2 DEF Terminals
  <1> HIDE DEF s1
  <1>10. sblines(s1) = Len(s.sb) + (IF s.set.e2s /\ which = 1 THEN altsb ELSE 0)
    BY <1>8 DEF sblines, altlines, Same
  <1>11. sblines(s1) \in Int
    BY <1>2, <1>4, <1>10
  <1>12. /\ top \in Int
         /\ enter => top >= -sblines(s1) /\ top >= disptop - altsb
                     /\ (top = -sblines(s1) \/ top = disptop - altsb)
         /\ ~enter => top = disptop
    BY <1>4, <1>5, <1>8, <1>11, MaxOfTwo
  <1>13. enter <=> s.set.e2s /\ which = 1 /\ disptop < 0
    BY <1>8 DEF Same
  <1> HIDE DEF top, enter
  <1>14. /\ x \in Terminals /\ x.sb = s.sb /\ x.temps = s.temps /\ x.disptop = top
         /\ x.screen = s.alt /\ x.alt = s.screen /\ x.altsb = altsb /\ x.which = which
         /\ Same(s, x)
    BY <1>8, <1>12 DEF Terminals, Same
  <1>15. /\ x.y = y /\ x.alt_y = s.y /\ x.save_y = save_y /\ x.alt_save_y = s.save_y
         /\ x.mt = mt /\ x.mb = mb /\ x.alt_t = s.mt /\ x.alt_b = s.mb
    BY <1>8, <1>9 DEF Terminals
  <1> HIDE DEF x
  <1>16. Well(x)
    <2>1. Buffers(x)
      BY <1>3, <1>4, <1>14 DEF Buffers, Well, Same
    <2>2. Cursors(x) /\ Margins(x)
      BY <1>7, <1>14, <1>15 DEF Cursors, Margins, Well, Same, Row
    <2> QED
      BY <1>14, <2>1, <2>2 DEF Well
  <1>17. ASSUME Viewable(s) PROVE Viewed(x)
    <2>1. sblines(x) = sblines(s1)
      BY <1>10, <1>14 DEF sblines, altlines, Same
    <2>2. sblines(s) = Len(s.sb) + (IF s.set.e2s /\ s.which = 1 THEN s.altsb ELSE 0)
      BY DEF sblines, altlines
    <2>3. s.disptop <= 0 /\ (-sblines(s) <= s.disptop \/ (s.which = 0 /\ s.set.e2s))
      BY <1>17 DEF Viewable
    <2>4. CASE which = 1
      <3>1. s.which = 0 /\ disptop = s.disptop
        BY <1>2, <1>5, <2>4
      <3>2. /\ x.disptop = top /\ disptop <= 0 /\ disptop \in Int /\ altsb \in Nat
            /\ Len(s.sb) \in Nat /\ s.set.e2s \in BOOLEAN
        BY <1>2, <1>4, <1>5, <1>14, <2>3, <3>1
      <3>3. sblines(x) = Len(s.sb) + (IF s.set.e2s THEN altsb ELSE 0)
        BY <1>10, <2>1, <2>4
      <3>4. CASE s.set.e2s /\ disptop < 0
        <4>1. top = -sblines(x) \/ top = disptop - altsb
          BY <1>12, <1>13, <2>1, <2>4, <3>4
        <4>2. top >= -sblines(x)
          BY <1>12, <1>13, <2>1, <2>4, <3>4
        <4> QED
          BY <3>2, <3>3, <3>4, <4>1, <4>2 DEF Viewed
      <3>5. CASE ~(s.set.e2s /\ disptop < 0)
        <4>1. top = disptop
          BY <1>12, <1>13, <3>5
        <4>2. ~s.set.e2s => -Len(s.sb) <= disptop
          BY <2>2, <2>3, <3>1, <3>2
        <4> QED
          BY <3>2, <3>3, <3>5, <4>1, <4>2 DEF Viewed
      <3> QED
        BY <3>4, <3>5
    <2>5. CASE which = 0
      <3>1. s.which = 1 /\ top = disptop
        BY <1>2, <1>12, <1>13, <2>5
      <3> QED
        BY <1>2, <1>4, <1>5, <1>10, <1>14, <2>1, <2>2, <2>3, <2>5, <3>1 DEF Viewed
    <2> QED
      BY <2>4, <2>5
  <1>18. ASSUME Viewed(s), s.disptop < -altlines(s)
         PROVE  /\ x.disptop < -altlines(x)
                /\ x.disptop + altlines(x) = s.disptop + altlines(s)
    <2>1. /\ altlines(s) = IF s.set.e2s /\ s.which = 1 THEN s.altsb ELSE 0
          /\ altlines(x) = IF s.set.e2s /\ which = 1 THEN altsb ELSE 0
      BY <1>14 DEF altlines, Same
    <2>2. sblines(s) = Len(s.sb) + altlines(s) /\ -sblines(s) <= s.disptop
      BY <1>18 DEF sblines, Viewed
    <2>3. CASE which = 1
      <3>1. /\ s.which = 0 /\ disptop = s.disptop /\ altlines(s) = 0 /\ disptop < 0
            /\ -Len(s.sb) <= disptop
        BY <1>2, <1>5, <1>18, <2>1, <2>2, <2>3
      <3>2. CASE s.set.e2s
        <4>1. /\ top >= -sblines(s1) /\ top >= disptop - altsb
              /\ top = -sblines(s1) \/ top = disptop - altsb
          BY <1>12, <1>13, <2>3, <3>1, <3>2
        <4>2. sblines(s1) = Len(s.sb) + altsb /\ altlines(x) = altsb /\ x.disptop = top
          BY <1>10, <1>14, <2>1, <2>3, <3>2
        <4>3. top = disptop - altsb
          <5> DEFINE len == Len(s.sb)
          <5>1. len \in Nat /\ altsb \in Nat /\ disptop \in Int /\ -len <= disptop
            BY <1>2, <1>4, <1>5, <3>1
          <5>2. /\ top >= -(len + altsb) /\ top >= disptop - altsb
                /\ top = -(len + altsb) \/ top = disptop - altsb
            BY <4>1, <4>2
          <5> HIDE DEF len
          <5> QED
            BY <5>1, <5>2
        <4> QED
          BY <1>2, <1>4, <3>1, <4>2, <4>3
      <3>3. CASE ~s.set.e2s
        <4>1. top = disptop /\ altlines(x) = 0 /\ x.disptop = top
          BY <1>12, <1>13, <1>14, <2>1, <3>3
        <4> QED
          BY <1>2, <3>1, <4>1
      <3> QED
        BY <3>2, <3>3
    <2>4. CASE which = 0
      <3>1. s.which = 1 /\ top = disptop /\ x.disptop = disptop /\ altlines(x) = 0
        BY <1>2, <1>12, <1>13, <1>14, <2>1, <2>4
      <3>2. CASE s.set.e2s
        <4>1. altlines(s) = s.altsb /\ s.disptop < -s.altsb
          BY <1>18, <2>1, <3>1, <3>2
        <4>2. leave
          BY <1>2, <3>1, <3>2, <4>1
        <4>3. disptop = s.disptop + s.altsb
          BY <1>2, <1>5, <4>1, <4>2
        <4> QED
          BY <1>2, <3>1, <4>1, <4>3
      <3>3. CASE ~s.set.e2s
        <4>1. altlines(s) = 0 /\ disptop = s.disptop
          BY <1>5, <2>1, <3>3
        <4> QED
          BY <1>2, <1>18, <3>1, <4>1
      <3> QED
        BY <3>2, <3>3
    <2> QED
      BY <2>3, <2>4
  <1> QED
    BY <1>1, <1>14, <1>16, <1>17, <1>18

LEMMA ExchangedCarries ==
    ASSUME NEW s, Well(s), NEW which \in {0, 1}, which # s.which,
           NEW reset \in BOOLEAN, NEW keep \in BOOLEAN
    PROVE  Carries(s, Exchanged(s, which, reset, keep))
  <1> DEFINE x == Exchanged(s, which, reset, keep)
  <1>1. /\ Well(x) /\ x.sb = s.sb /\ x.screen = s.alt /\ x.alt = s.screen
        /\ Viewed(s) /\ s.disptop < -altlines(s)
           => /\ x.disptop < -altlines(x)
              /\ x.disptop + altlines(x) = s.disptop + altlines(s)
    BY ExchangedFollows
  <1> HIDE DEF x
  <1>2. Distinct(s) => Distinct(x)
    BY <1>1 DEF Distinct, Apart
  <1>3. \A l : On(x, l) => On(s, l)
    BY <1>1 DEF On
  <1>4. ASSUME Viewed(s), NEW l, Shows(s, l) PROVE Shows(x, l)
    <2>1. s.disptop < -altlines(s) /\ s.sb[s.disptop + altlines(s) + Len(s.sb) + 1] = l
      BY <1>4 DEF Shows, Top
    <2>2. x.sb[x.disptop + altlines(x) + Len(x.sb) + 1] = l
      BY <1>1, <1>4, <2>1
    <2> QED
      BY <1>1, <1>4, <2>1, <2>2 DEF Shows, Top
  <1>5. Carries(s, x)
    BY <1>2, <1>3, <1>4 DEF Carries, Lasts
  <1> QED
    BY <1>5 DEF x

LEMMA ViewedIsViewable ==
    ASSUME NEW s, Well(s), Viewed(s)
    PROVE  Viewable(s)
  BY DEF Viewed, Viewable

(* swap_screen, of a view that need not exist yet.                         *)
LEMMA SwappedWell ==
    ASSUME NEW s, Well(s), NEW which \in {0, 1},
           NEW reset \in BOOLEAN, NEW keep \in BOOLEAN
    PROVE  LET x == swap_screen(s, which, reset, keep)
           IN  /\ Well(x) /\ Same(s, x) /\ x.which = which
               /\ which # s.which /\ Viewable(s) => Viewed(x)
               /\ Viewed(s) => Viewed(x)
  <1> DEFINE r == reset /\ which = 1
             e == Exchanged(s, which, r, keep)
             s1 == IF which # s.which THEN e ELSE s
             x == swap_screen(s, which, reset, keep)
  <1>1. x = IF r THEN EraseAll(s1) ELSE s1
    BY DEF swap_screen
  <1>2. r \in BOOLEAN
    OBVIOUS
  <1> HIDE DEF r, x
  <1>3. /\ Well(s1) /\ Same(s, s1) /\ s1.which = which
        /\ which # s.which /\ Viewable(s) => Viewed(s1)
        /\ Viewed(s) => Viewed(s1)
    <2>1. CASE which # s.which
      <3>1. Well(e) /\ Same(s, e) /\ e.which = which /\ (Viewable(s) => Viewed(e))
        BY <1>2, <2>1, ExchangedFollows
      <3> QED
        BY <2>1, <3>1, ViewedIsViewable
    <2>2. CASE which = s.which
      BY <2>2 DEF Same
    <2> QED
      BY <2>1, <2>2
  <1> HIDE DEF s1
  <1>4. Follows(s1, EraseAll(s1), which)
    BY <1>3, EraseAllHolds DEF Holds
  <1>5. CASE r
    <2>1. x = EraseAll(s1)
      BY <1>1, <1>5
    <2>2. Well(x) /\ Same(s1, x) /\ x.which = which /\ (Viewed(s1) => Viewed(x))
      BY <1>4, <2>1 DEF Follows
    <2>3. Same(s, x)
      BY <1>3, <2>2 DEF Same
    <2> QED
      BY <1>3, <2>2, <2>3 DEF x
  <1>6. CASE ~r
    BY <1>1, <1>3, <1>6 DEF x
  <1> QED
    BY <1>5, <1>6

LEMMA swap_screenFollows ==
    ASSUME NEW s, Well(s), NEW which \in {0, 1},
           NEW reset \in BOOLEAN, NEW keep \in BOOLEAN
    PROVE  Follows(s, swap_screen(s, which, reset, keep), which)
  BY SwappedWell DEF Follows

LEMMA swap_screenCarries ==
    ASSUME NEW s, Well(s), NEW which \in {0, 1},
           NEW reset \in BOOLEAN, NEW keep \in BOOLEAN
    PROVE  LET x == swap_screen(s, which, reset, keep)
           IN  /\ Carries(s, x)
               /\ which = s.which => Holds(s, x)
               /\ which = 0 /\ s.which = 1 => x.sb = s.sb
  <1> DEFINE r == reset /\ which = 1
             e == Exchanged(s, which, r, keep)
             s1 == IF which # s.which THEN e ELSE s
             x == swap_screen(s, which, reset, keep)
  <1>1. x = IF r THEN EraseAll(s1) ELSE s1
    BY DEF swap_screen
  <1>2. r \in BOOLEAN /\ (r => which = 1)
    OBVIOUS
  <1> HIDE DEF r, x
  <1>3. Follows(s, s1, which) /\ Carries(s, s1)
    <2>1. CASE which # s.which
      <3>1. Well(e) /\ Same(s, e) /\ e.which = which /\ (Viewable(s) => Viewed(e))
        BY <1>2, <2>1, ExchangedFollows
      <3>2. Carries(s, e)
        BY <1>2, <2>1, ExchangedCarries
      <3> QED
        BY <2>1, <3>1, <3>2, ViewedIsViewable DEF Follows
    <2>2. CASE which = s.which
      BY <2>2, HoldsItself DEF Holds
    <2> QED
      BY <2>1, <2>2
  <1>4. which = s.which => Holds(s, s1)
    BY HoldsItself
  <1>5. which = 0 /\ s.which = 1 => s1.sb = s.sb
    BY <1>2, ExchangedFollows
  <1> HIDE DEF s1
  <1>6. Holds(s1, EraseAll(s1)) /\ s1.which = which
    BY <1>3, EraseAllHolds DEF Follows
  <1>7. CASE r
    <2>1. x = EraseAll(s1)
      BY <1>1, <1>7
    <2> HIDE DEF r
    <2>2. Carries(s, x)
      BY <1>3, <1>6, <2>1, CarriesOn DEF Holds
    <2>3. which = s.which => Holds(s, x)
      BY <1>4, <1>6, <2>1, HoldsOn
    <2> QED
      BY <1>2, <1>7, <2>2, <2>3 DEF x
  <1>8. CASE ~r
    BY <1>1, <1>3, <1>4, <1>5, <1>8 DEF x
  <1> QED
    BY <1>7, <1>8

(* A cursor is put on a row.                                               *)
LEMMA CursorHolds ==
    ASSUME NEW s, Well(s), NEW r \in Int, Row(s, r)
    PROVE  /\ Holds(s, [s EXCEPT !.y = r])
           /\ Holds(s, [s EXCEPT !.save_y = r])
  <1>0. s \in Terminals /\ Buffers(s) /\ Cursors(s) /\ Margins(s)
    BY DEF Well
  <1>1. ASSUME NEW x, x \in {[s EXCEPT !.y = r], [s EXCEPT !.save_y = r]}
        PROVE  Holds(s, x)
    <2>1. /\ x \in Terminals /\ x.sb = s.sb /\ x.temps = s.temps /\ x.disptop = s.disptop
          /\ x.screen = s.screen /\ x.alt = s.alt /\ x.altsb = s.altsb /\ x.which = s.which
          /\ Same(s, x)
      BY <1>0, <1>1 DEF Terminals, Same
    <2>2. /\ x.y \in {s.y, r} /\ x.alt_y = s.alt_y
          /\ x.save_y \in {s.save_y, r} /\ x.alt_save_y = s.alt_save_y
          /\ x.mt = s.mt /\ x.mb = s.mb /\ x.alt_t = s.alt_t /\ x.alt_b = s.alt_b
      BY <1>0, <1>1 DEF Terminals
    <2>3. Well(x)
      BY <1>0, <2>1, <2>2 DEF Well, Buffers, Cursors, Margins, Row, Same
    <2>4. Viewed(s) => Viewed(x)
      BY <2>1 DEF Viewed, sblines, altlines, Same
    <2>5. Follows(s, x, s.which)
      BY <2>1, <2>3, <2>4 DEF Follows
    <2> QED
      BY <2>1, <2>5, UnmovedHolds DEF Unmoved, Same
  <1> QED
    BY <1>1

LEMMA save_cursorHolds ==
    ASSUME NEW s, Well(s), NEW save \in BOOLEAN
    PROVE  Holds(s, save_cursor(s, save))
  <1> DEFINE r == Min({s.save_y, s.rows - 1})
  <1>1. /\ s.y \in Int /\ Row(s, s.y) /\ s.save_y \in Int /\ Row(s, s.save_y)
        /\ s.rows \in Nat \ {0}
    BY DEF Well, Terminals, Cursors
  <1>2. r = IF s.save_y <= s.rows - 1 THEN s.save_y ELSE s.rows - 1
    BY <1>1, MinOfTwo
  <1>3. save_cursor(s, save) = IF save THEN [s EXCEPT !.save_y = s.y] ELSE [s EXCEPT !.y = r]
    BY DEF save_cursor
  <1> HIDE DEF r
  <1>4. r \in Int /\ Row(s, r)
    BY <1>1, <1>2 DEF Row
  <1>5. Holds(s, [s EXCEPT !.save_y = s.y]) /\ Holds(s, [s EXCEPT !.y = r])
    BY <1>1, <1>4, CursorHolds
  <1> QED
    BY <1>3, <1>5

LEMMA moveHolds ==
    ASSUME NEW s, Well(s), NEW y \in Int, NEW clip \in Int
    PROVE  Holds(s, move(s, y, clip))
  <1>1. s.y \in Int /\ s.mt \in Int /\ s.mb \in Int /\ s.rows \in Nat \ {0}
    BY DEF Well, Terminals
  <1> DEFINE y1 == IF clip > 0 /\ (s.y >= s.mt \/ clip = 2) /\ y < s.mt THEN s.mt ELSE y
             y2 == IF clip > 0 /\ (s.y <= s.mb \/ clip = 2) /\ y1 > s.mb THEN s.mb ELSE y1
             r == IF y2 < 0 THEN 0 ELSE IF y2 >= s.rows THEN s.rows - 1 ELSE y2
  <1>2. move(s, y, clip) = [s EXCEPT !.y = r]
    BY DEF move
  <1>3. y2 \in Int
    BY <1>1
  <1>4. r \in Int /\ Row(s, r)
    <2> HIDE DEF y2
    <2> QED
      BY <1>1, <1>3 DEF Row
  <1> HIDE DEF r
  <1> QED
    BY <1>2, <1>4, CursorHolds

(* The view goes to the bottom.                                            *)
LEMMA BottomFollows ==
    ASSUME NEW s, Well(s), NEW top \in Int, -sblines(s) <= top, top <= 0
    PROVE  LET x == [s EXCEPT !.disptop = top]
           IN  Follows(s, x, s.which) /\ Viewed(x)
  <1> DEFINE x == [s EXCEPT !.disptop = top]
  <1>0. s \in Terminals /\ Buffers(s) /\ Cursors(s) /\ Margins(s)
    BY DEF Well
  <1>1. /\ x \in Terminals /\ x.sb = s.sb /\ x.temps = s.temps /\ x.disptop = top
        /\ x.screen = s.screen /\ x.alt = s.alt /\ x.altsb = s.altsb /\ x.which = s.which
        /\ Same(s, x)
    BY <1>0 DEF Terminals, Same
  <1>2. /\ x.y = s.y /\ x.alt_y = s.alt_y /\ x.save_y = s.save_y /\ x.alt_save_y = s.alt_save_y
        /\ x.mt = s.mt /\ x.mb = s.mb /\ x.alt_t = s.alt_t /\ x.alt_b = s.alt_b
    BY <1>0 DEF Terminals
  <1> HIDE DEF x
  <1>3. Well(x)
    BY <1>0, <1>1, <1>2 DEF Well, Buffers, Cursors, Margins, Row, Same
  <1>4. Viewed(x)
    BY <1>1 DEF Viewed, sblines, altlines, Same
  <1>5. Follows(s, x, s.which)
    BY <1>1, <1>3, <1>4 DEF Follows
  <1> QED
    BY <1>4, <1>5 DEF x

LEMMA LinesAbove ==
    ASSUME NEW s, Well(s)
    PROVE  sblines(s) \in Nat
  <1>1. s.sb \in Seq(Nat) /\ s.altsb \in Nat
    BY DEF Well, Terminals
  <1>2. Len(s.sb) \in Nat
    BY <1>1
  <1> QED
    BY <1>1, <1>2 DEF sblines, altlines

(* Only the view is another.                                               *)
LEMMA BottomLasts ==
    ASSUME NEW s, Well(s), NEW top
    PROVE  Lasts(s, [s EXCEPT !.disptop = top])
  <1> DEFINE x == [s EXCEPT !.disptop = top]
  <1>1. x.sb = s.sb /\ x.screen = s.screen /\ x.alt = s.alt
    BY DEF Well, Terminals
  <1> HIDE DEF x
  <1>2. Lasts(s, x)
    BY <1>1 DEF Lasts, Distinct, On
  <1> QED
    BY <1>2 DEF x

LEMMA ShownHolds ==
    ASSUME NEW s, Well(s)
    PROVE  Holds(s, Shown(s))
  <1> DEFINE x == [s EXCEPT !.disptop = 0]
  <1>1. -sblines(s) <= 0 /\ 0 \in Int /\ 0 <= 0
    BY LinesAbove
  <1>2. Follows(s, x, s.which) /\ Lasts(s, x)
    BY <1>1, BottomFollows, BottomLasts
  <1>3. x.sb = s.sb /\ x.alt = s.alt /\ x.altsb = s.altsb /\ x.which = s.which
    BY DEF Well, Terminals
  <1> HIDE DEF x
  <1>4. s.set.sod => Holds(s, x)
    BY <1>2, <1>3 DEF Holds, Carries, Still
  <1> QED
    BY <1>4, HoldsItself DEF Shown, x

(* The margins and the cursors that power_on resets; the alternate screen  *)
(* is taken for the main one.                                              *)
PoweredOn(s) ==
    [s EXCEPT !.alt_y = 0, !.save_y = 0, !.alt_save_y = 0,
              !.alt_t = 0, !.mt = 0, !.alt_b = s.rows - 1, !.mb = s.rows - 1, !.which = 0]

LEMMA PoweredOnWell ==
    ASSUME NEW s, Well(s)
    PROVE  LET x == PoweredOn(s)
           IN  /\ Well(x) /\ Same(s, x) /\ x.which = 0
               /\ Viewed(s) => Viewable(x)
               /\ Lasts(s, x)
               /\ s.which = 0 => Goes(s, x, 0)
  <1> DEFINE x == PoweredOn(s)
  <1>0. s \in Terminals /\ Buffers(s) /\ Cursors(s) /\ Margins(s)
    BY DEF Well
  <1>a. /\ s.rows \in Nat \ {0} /\ s.which \in {0, 1} /\ s.sb \in Seq(Nat) /\ s.altsb \in Nat
        /\ s.disptop \in Int /\ s.set \in Setting
    BY <1>0 DEF Terminals
  <1>b. Len(s.sb) \in Nat /\ s.set.e2s \in BOOLEAN
    BY <1>a DEF Setting
  <1>1. /\ x \in Terminals /\ x.sb = s.sb /\ x.temps = s.temps /\ x.disptop = s.disptop
        /\ x.screen = s.screen /\ x.alt = s.alt /\ x.altsb = s.altsb /\ x.which = 0
        /\ Same(s, x)
    <2>1. s.rows - 1 \in Int /\ 0 \in Int /\ 0 \in {0, 1}
      BY <1>a
    <2>2. x \in Terminals
      BY <1>0, <2>1 DEF Terminals, PoweredOn
    <2> QED
      BY <1>0, <2>2 DEF Terminals, Same, PoweredOn
  <1>2. /\ x.y = s.y /\ x.alt_y = 0 /\ x.save_y = 0 /\ x.alt_save_y = 0
        /\ x.mt = 0 /\ x.mb = s.rows - 1 /\ x.alt_t = 0 /\ x.alt_b = s.rows - 1
    BY <1>0 DEF Terminals, PoweredOn
  <1> HIDE DEF x
  <1>3. Well(x)
    BY <1>0, <1>a, <1>1, <1>2 DEF Well, Buffers, Cursors, Margins, Row, Same
  <1>4. ASSUME Viewed(s) PROVE Viewable(x)
    <2>1. sblines(x) = Len(s.sb)
      BY <1>1 DEF sblines, altlines
    <2>2. sblines(s) = Len(s.sb) + (IF s.set.e2s /\ s.which = 1 THEN s.altsb ELSE 0)
      BY DEF sblines, altlines
    <2>3. -sblines(s) <= s.disptop /\ s.disptop <= 0
      BY <1>4 DEF Viewed
    <2>4. x.set = s.set
      BY <1>1 DEF Same
    <2> QED
      BY <1>a, <1>b, <1>1, <2>1, <2>2, <2>3, <2>4 DEF Viewable
  <1>5. Lasts(s, x)
    BY <1>1 DEF Lasts, Distinct, On
  <1>6. ASSUME s.which = 0 PROVE Goes(s, x, 0)
    <2>1. Unmoved(s, x)
      BY <1>1, <1>6 DEF Unmoved, Same
    <2>2. Viewed(s) => Viewed(x)
      BY <2>1 DEF Unmoved, Viewed, sblines, altlines
    <2>3. Follows(s, x, s.which)
      BY <1>1, <1>3, <1>6, <2>2 DEF Follows
    <2> QED
      BY <1>6, <2>1, <2>3, UnmovedHolds DEF Holds, Goes
  <1> QED
    BY <1>1, <1>3, <1>4, <1>5, <1>6 DEF x

LEMMA power_onFollows ==
    ASSUME NEW s, Well(s), NEW clear \in BOOLEAN
    PROVE  LET x == power_on(s, clear)
           IN  Follows(s, x, 0) /\ Lasts(s, x) /\ (s.which = 0 => Goes(s, x, 0))
  <1> DEFINE s1 == PoweredOn(s)
             a == swap_screen(s1, 1, FALSE, FALSE)
             b == EraseAll(a)
             s2 == swap_screen(b, 0, FALSE, FALSE)
             s3 == IF clear THEN EraseAll(s2) ELSE s2
             y == find_last_nonempty_line(s3.screen) + 1
             p == [s3 EXCEPT !.y = y - 1]
             x == power_on(s, clear)
  <1>0. FALSE \in BOOLEAN /\ TRUE \in BOOLEAN /\ 0 \in {0, 1} /\ 1 \in {0, 1}
    OBVIOUS
  <1>1. x = IF y = s.rows
            THEN scroll([s3 EXCEPT !.y = y - 1], 0, s.rows - 1, 1, TRUE)
            ELSE [s3 EXCEPT !.y = y]
    BY DEF power_on, PoweredOn
  <1>2. /\ Well(s1) /\ Same(s, s1) /\ s1.which = 0 /\ (Viewed(s) => Viewable(s1))
        /\ Lasts(s, s1) /\ (s.which = 0 => Goes(s, s1, 0))
    BY PoweredOnWell
  <1> HIDE DEF s1, x
  <1>3. /\ Well(a) /\ Same(s1, a) /\ a.which = 1 /\ (Viewable(s1) => Viewed(a))
    <2>1. 1 # s1.which
      BY <1>2
    <2> QED
      BY <1>0, <1>2, <2>1, SwappedWell
  <1>4. Follows(s, a, 1)
    BY <1>2, <1>3 DEF Follows, Same
  <1>5. Goes(s1, a, 1)
    BY <1>0, <1>2, swap_screenFollows, swap_screenCarries DEF Goes
  <1> HIDE DEF a
  <1>6. Goes(a, b, 1)
    BY <1>3, EraseAllHolds DEF Holds, Goes
  <1>7. Well(b)
    BY <1>6 DEF Goes, Follows
  <1> HIDE DEF b
  <1>8. Goes(a, s2, 0)
    <2>1. Goes(b, s2, 0)
      BY <1>0, <1>7, swap_screenFollows, swap_screenCarries DEF Goes
    <2> HIDE DEF s2
    <2> QED
      BY <1>6, <2>1, GoesOn
  <1> HIDE DEF s2
  <1>9. Well(s2) /\ s2.which = 0
    BY <1>8 DEF Goes, Follows
  <1>10. Goes(a, s3, 0)
    <2>1. Goes(s2, EraseAll(s2), 0)
      BY <1>9, EraseAllHolds DEF Holds, Goes
    <2> QED
      BY <1>8, <2>1, GoesOn
  <1> HIDE DEF s3
  <1>11. /\ Well(s3) /\ s3.which = 0 /\ s3.rows = s.rows /\ s3.rows \in Nat \ {0}
         /\ s3.screen \in Seq(Nat) /\ Len(s3.screen) = s3.rows
    BY <1>4, <1>10 DEF Goes, Follows, Same, Well, Terminals, Buffers
  <1>12. y \in 0..s3.rows
    <2>1. find_last_nonempty_line(s3.screen) \in -1..(Len(s3.screen) - 1)
      BY <1>11, LastNonempty
    <2> QED
      BY <1>11, <2>1
  <1> HIDE DEF y
  <1>13. Holds(s3, x)
    <2>1. CASE y = s.rows
      <3>1. y - 1 \in Int /\ Row(s3, y - 1)
        BY <1>11, <1>12, <2>1 DEF Row
      <3>2. Holds(s3, p)
        BY <1>11, <3>1, CursorHolds
      <3> HIDE DEF p
      <3>3. Well(p) /\ p.rows = s.rows /\ p.which = 0
        BY <1>11, <3>2 DEF Holds, Follows, Same
      <3> DEFINE bot == s.rows - 1
      <3>4. Region(p, 0, bot)
        BY <1>11, <3>3 DEF Region
      <3> HIDE DEF bot
      <3>5. 1 \in Int
        OBVIOUS
      <3>6. Holds(p, scroll(p, 0, bot, 1, TRUE))
        BY <1>0, <3>3, <3>4, <3>5, scrollHolds
      <3>7. x = scroll(p, 0, bot, 1, TRUE)
        BY <1>1, <2>1 DEF p, bot
      <3> QED
        BY <3>2, <3>6, <3>7, HoldsOn
    <2>2. CASE y # s.rows
      <3>1. y \in Int /\ Row(s3, y)
        BY <1>11, <1>12, <2>2 DEF Row
      <3>2. Holds(s3, [s3 EXCEPT !.y = y])
        BY <1>11, <3>1, CursorHolds
      <3> QED
        BY <1>1, <2>2, <3>2
    <2> QED
      BY <2>1, <2>2
  <1>14. Goes(a, x, 0)
    <2>1. Goes(s3, x, 0)
      BY <1>11, <1>13 DEF Holds, Goes
    <2> QED
      BY <1>10, <2>1, GoesOn
  <1>15. Follows(s, x, 0)
    BY <1>4, <1>14, FollowsOn DEF Goes
  <1>16. Goes(s1, x, 0)
    BY <1>5, <1>14, GoesOn
  <1>17. Lasts(s, x)
    BY <1>2, <1>16, LastsOn DEF Goes, Carries
  <1>18. s.which = 0 => Goes(s, x, 0)
    BY <1>2, <1>16, GoesOn
  <1> QED
    BY <1>15, <1>17, <1>18 DEF x

LEMMA term_clrsbFollows ==
    ASSUME NEW s, Well(s)
    PROVE  /\ Follows(s, term_clrsb(s), s.which) /\ Viewed(term_clrsb(s))
           /\ Lasts(s, term_clrsb(s))
  <1> DEFINE x == term_clrsb(s)
  <1>0. s \in Terminals /\ Buffers(s) /\ Cursors(s) /\ Margins(s) /\ s.rows \in Nat /\ s.savelines \in Nat
    BY DEF Well, Terminals
  <1>1. /\ x \in Terminals /\ x.sb = <<>> /\ x.temps = 0 /\ x.disptop = 0
        /\ x.screen = s.screen /\ x.alt = s.alt /\ x.altsb = 0 /\ x.which = s.which
        /\ Same(s, x)
    <2>1. <<>> \in Seq(Nat) /\ 0 \in Nat /\ 0 \in Int
      OBVIOUS
    <2>2. x \in Terminals
      BY <1>0, <2>1 DEF Terminals, term_clrsb
    <2> QED
      BY <1>0, <2>2 DEF Terminals, Same, term_clrsb
  <1>2. /\ x.y = s.y /\ x.alt_y = s.alt_y /\ x.save_y = s.save_y /\ x.alt_save_y = s.alt_save_y
        /\ x.mt = s.mt /\ x.mb = s.mb /\ x.alt_t = s.alt_t /\ x.alt_b = s.alt_b
    BY <1>0 DEF Terminals, term_clrsb
  <1> HIDE DEF x
  <1>3. Len(x.sb) = 0
    BY <1>1
  <1>4. Well(x)
    BY <1>0, <1>1, <1>2, <1>3 DEF Well, Buffers, Cursors, Margins, Row, Same
  <1>5. Viewed(x)
    BY <1>1, <1>3 DEF Viewed, sblines, altlines
  <1>6. Lasts(s, x)
    <2>1. Lone(x.sb) /\ \A l : ~In(x.sb, l)
      BY <1>3 DEF Lone, In
    <2>2. Apart(x.sb, x.screen) /\ Apart(x.sb, x.alt)
      BY <2>1 DEF Apart
    <2> QED
      BY <1>1, <2>1, <2>2 DEF Lasts, Distinct, On
  <1> QED
    BY <1>1, <1>4, <1>5, <1>6 DEF Follows, x
-----------------------------------------------------------------------------
(* Resizing.                                                               *)

(* What is true of a terminal while its window is being resized.           *)
Shape(s) == s \in Terminals /\ Len(s.screen) = s.rows /\ s.temps <= Len(s.sb)

LEMMA FrontAndLast ==
    ASSUME NEW q \in Seq(Nat), Len(q) > 0
    PROVE  /\ Front(q) \in Seq(Nat) /\ Len(Front(q)) = Len(q) - 1 /\ Last(q) \in Nat
           /\ In(q, Last(q)) /\ \A l : In(Front(q), l) => In(q, l)
           /\ Lone(q) => Lone(Front(q)) /\ (Last(q) # 0 => ~In(Front(q), Last(q)))
  <1> DEFINE n == Len(q)
  <1>0. n \in Nat /\ n > 0 /\ \A j \in 1..n : q[j] \in Nat
    OBVIOUS
  <1>a. Front(q) = SubSeq(q, 1, n - 1) /\ Last(q) = q[n]
    BY DEF Front, Last
  <1> HIDE DEF n
  <1>1. n \in 1..n /\ n - 1 \in Int /\ 1 \in Int /\ \A j \in 1..(n - 1) : q[j] \in Nat
    BY <1>0
  <1>2. /\ SubSeq(q, 1, n - 1) \in Seq(Nat)
        /\ Len(SubSeq(q, 1, n - 1)) = IF 1 <= n - 1 THEN n - 1 - 1 + 1 ELSE 0
        /\ \A k \in 1..(n - 1 - 1 + 1) : SubSeq(q, 1, n - 1)[k] = q[1 + k - 1]
    BY <1>1, SubSeqProperties
  <1>3. Len(SubSeq(q, 1, n - 1)) = n - 1
    BY <1>0, <1>2
  <1>4. q[n] \in Nat
    BY <1>0, <1>1
  <1> DEFINE f == Front(q)  e == Last(q)
  <1>5. /\ f \in Seq(Nat) /\ Len(f) = n - 1 /\ e \in Nat /\ e = q[n]
        /\ \A k \in 1..(n - 1) : f[k] = q[k]
    BY <1>0, <1>a, <1>2, <1>3, <1>4
  <1> HIDE DEF f, e
  <1>b. Len(q) = n
    BY DEF n
  <1>6. \A k \in 1..(n - 1) : k \in 1..n /\ k # n
    BY <1>0
  <1>7. In(q, e) /\ \A l : In(f, l) => In(q, l)
    BY <1>b, <1>1, <1>5, <1>6 DEF In
  <1>8. ASSUME Lone(q) PROVE Lone(f) /\ (e # 0 => ~In(f, e))
    <2>1. \A k, m \in 1..n : q[k] # 0 /\ q[k] = q[m] => k = m
      BY <1>b, <1>8 DEF Lone
    <2>2. Lone(f)
      BY <1>5, <1>6, <2>1 DEF Lone
    <2>3. e # 0 => ~In(f, e)
      BY <1>1, <1>5, <1>6, <2>1 DEF In
    <2> QED
      BY <2>2, <2>3
  <1> QED
    BY <1>b, <1>5, <1>7, <1>8 DEF f, e

(* A line is added at the end, or put before the others, or taken away.    *)
LEMMA AppendLines ==
    ASSUME NEW q \in Seq(Nat), NEW e \in Nat
    PROVE  LET r == Append(q, e)
           IN  /\ r \in Seq(Nat) /\ Len(r) = Len(q) + 1
               /\ \A l : In(r, l) <=> In(q, l) \/ l = e
               /\ Lone(q) /\ (e # 0 => ~In(q, e)) => Lone(r)
  <1> DEFINE n == Len(q)  r == Append(q, e)
  <1>1. n \in Nat /\ Len(q) = n
    OBVIOUS
  <1>2. /\ r \in Seq(Nat) /\ Len(r) = n + 1 /\ r[n + 1] = e
        /\ \A k \in 1..n : r[k] = q[k]
    BY AppendProperties
  <1> HIDE DEF n, r
  <1>3. \A k \in 1..(n + 1) : k \in 1..n \/ k = n + 1
    BY <1>1
  <1>4. n + 1 \in 1..(n + 1) /\ \A k \in 1..n : k \in 1..(n + 1)
    BY <1>1
  <1>5. \A l : In(r, l) <=> In(q, l) \/ l = e
    BY <1>1, <1>2, <1>3, <1>4 DEF In
  <1>6. Lone(q) /\ (e # 0 => ~In(q, e)) => Lone(r)
    BY <1>1, <1>2, <1>3 DEF In, Lone
  <1> QED
    BY <1>1, <1>2, <1>5, <1>6 DEF r

LEMMA FirstLines ==
    ASSUME NEW q \in Seq(Nat), NEW e \in Nat
    PROVE  LET r == <<e>> \o q
           IN  /\ r \in Seq(Nat) /\ Len(r) = Len(q) + 1
               /\ \A l : In(r, l) <=> In(q, l) \/ l = e
               /\ Lone(q) /\ (e # 0 => ~In(q, e)) => Lone(r)
  <1> DEFINE n == Len(q)  z == <<e>>  r == z \o q
  <1>1. n \in Nat /\ Len(q) = n /\ z \in Seq(Nat) /\ Len(z) = 1 /\ z[1] = e
    OBVIOUS
  <1> HIDE DEF z
  <1>2. /\ r \in Seq(Nat) /\ Len(r) = Len(z) + Len(q)
        /\ \A k \in 1..(Len(z) + Len(q)) : r[k] = IF k <= Len(z) THEN z[k] ELSE q[k - Len(z)]
    BY <1>1, ConcatProperties
  <1> HIDE DEF n, r
  <1>3. Len(r) = n + 1 /\ r[1] = e /\ \A k \in 2..(n + 1) : r[k] = q[k - 1]
    BY <1>1, <1>2
  <1>4. \A k \in 1..(n + 1) : k = 1 \/ (k \in 2..(n + 1) /\ k - 1 \in 1..n)
    BY <1>1
  <1>5. \A k \in 1..n : k + 1 \in 2..(n + 1) /\ k + 1 \in 1..(n + 1) /\ k + 1 - 1 = k
    BY <1>1
  <1>6. \A l : In(r, l) <=> In(q, l) \/ l = e
    <2> TAKE l
    <2>1. ASSUME In(r, l) PROVE In(q, l) \/ l = e
      BY <1>1, <1>3, <1>4, <2>1 DEF In
    <2>2. ASSUME In(q, l) PROVE In(r, l)
      <3>1. PICK k \in 1..n : q[k] = l
        BY <1>1, <2>2 DEF In
      <3>2. r[k + 1] = l /\ k + 1 \in 1..Len(r)
        BY <1>3, <1>5, <3>1
      <3> QED
        BY <3>2 DEF In
    <2>3. In(r, e)
      <3>1. 1 \in 1..Len(r)
        BY <1>1, <1>3
      <3> QED
        BY <1>3, <3>1 DEF In
    <2> QED
      BY <2>1, <2>2, <2>3
  <1>7. ASSUME Lone(q), e # 0 => ~In(q, e) PROVE Lone(r)
    <2> SUFFICES ASSUME NEW k \in 1..(n + 1), NEW m \in 1..(n + 1), r[k] # 0, r[k] = r[m]
                 PROVE  k = m
      BY <1>3 DEF Lone
    <2>1. CASE k = 1 \/ m = 1
      BY <1>1, <1>3, <1>4, <1>7, <2>1 DEF In
    <2>2. CASE k # 1 /\ m # 1
      <3>1. k - 1 \in 1..n /\ m - 1 \in 1..n /\ q[k - 1] # 0 /\ q[k - 1] = q[m - 1]
        BY <1>3, <1>4, <2>2
      <3>2. k - 1 = m - 1
        BY <1>1, <1>7, <3>1 DEF Lone
      <3> QED
        BY <1>1, <3>2
    <2> QED
      BY <2>1, <2>2
  <1> QED
    BY <1>1, <1>3, <1>2, <1>6, <1>7 DEF r, z

LEMMA PartLines ==
    ASSUME NEW q \in Seq(Nat), NEW from \in Nat \ {0}, from <= Len(q) + 1
    PROVE  LET r == SubSeq(q, from, Len(q))
           IN  /\ r \in Seq(Nat) /\ Len(r) = Len(q) - from + 1
               /\ \A l : In(r, l) => In(q, l)
               /\ Lone(q) => Lone(r) /\ \A k \in 1..(from - 1) : q[k] # 0 => ~In(r, q[k])
  <1> DEFINE n == Len(q)  r == SubSeq(q, from, n)
  <1>1. n \in Nat /\ Len(q) = n /\ from <= n + 1 /\ \A k \in 1..n : q[k] \in Nat
    OBVIOUS
  <1> HIDE DEF n
  <1>2. n \in Int /\ from \in Int /\ \A k \in from..n : q[k] \in Nat
    BY <1>1
  <1>3. /\ r \in Seq(Nat) /\ Len(r) = IF from <= n THEN n - from + 1 ELSE 0
        /\ \A k \in 1..(n - from + 1) : r[k] = q[from + k - 1]
    BY <1>2, SubSeqProperties
  <1> HIDE DEF r
  <1>4. /\ Len(r) = n - from + 1
        /\ \A k \in 1..Len(r) : r[k] = q[from + k - 1] /\ from + k - 1 \in 1..n
    BY <1>1, <1>3
  <1>5. \A l : In(r, l) => In(q, l)
    BY <1>1, <1>4 DEF In
  <1>6. ASSUME Lone(q) PROVE Lone(r) /\ \A k \in 1..(from - 1) : q[k] # 0 => ~In(r, q[k])
    <2>1. \A k, m \in 1..n : q[k] # 0 /\ q[k] = q[m] => k = m
      BY <1>1, <1>6 DEF Lone
    <2>2. Len(r) \in Nat
      BY <1>3
    <2>3. Lone(r)
      <3> SUFFICES ASSUME NEW k \in 1..Len(r), NEW m \in 1..Len(r), r[k] # 0, r[k] = r[m]
                   PROVE  k = m
        BY DEF Lone
      <3>1. from + k - 1 = from + m - 1
        BY <1>4, <2>1
      <3> QED
        BY <2>2, <3>1
    <2>4. ASSUME NEW k \in 1..(from - 1), q[k] # 0, NEW m \in 1..Len(r), r[m] = q[k]
          PROVE  FALSE
      <3>1. k \in 1..n /\ k # from + m - 1
        BY <1>1, <2>2
      <3> QED
        BY <1>4, <2>1, <2>4, <3>1
    <2> QED
      BY <2>3, <2>4 DEF In
  <1> QED
    BY <1>1, <1>3, <1>4, <1>5, <1>6 DEF r, n

LEMMA ShiftedShape ==
    ASSUME NEW s, Shape(s), NEW n \in Int
    PROVE  LET x == Shifted(s, n)
           IN  /\ Shape(x) /\ x.rows = s.rows /\ x.screen = s.screen /\ x.sb = s.sb
               /\ x.temps = s.temps /\ x.alt = s.alt
  <1> DEFINE x == Shifted(s, n)
  <1>1. s \in Terminals /\ Len(s.screen) = s.rows /\ s.temps <= Len(s.sb)
    BY DEF Shape
  <1>2. /\ s.y + n \in Int /\ s.save_y + n \in Int
        /\ s.alt_y + n \in Int /\ s.alt_save_y + n \in Int
    <2>1. s.y \in Int /\ s.save_y \in Int /\ s.alt_y \in Int /\ s.alt_save_y \in Int
      BY <1>1 DEF Terminals
    <2> QED
      BY <2>1
  <1>3. x \in Terminals
    BY <1>1, <1>2 DEF Terminals, Shifted
  <1>4. /\ x.rows = s.rows /\ x.screen = s.screen /\ x.sb = s.sb /\ x.temps = s.temps
        /\ x.alt = s.alt
    BY <1>1 DEF Terminals, Shifted
  <1> HIDE DEF x
  <1>5. Shape(x)
    BY <1>1, <1>3, <1>4 DEF Shape
  <1> QED
    BY <1>4, <1>5 DEF x

LEMMA GrowShape ==
    ASSUME NEW s, Shape(s)
    PROVE  Shape(Grow(s)) /\ Grow(s).rows = s.rows + 1 /\ Lasts(s, Grow(s))
  <1>1. /\ s \in Terminals /\ s.screen \in Seq(Nat) /\ s.sb \in Seq(Nat) /\ s.temps \in Nat
        /\ s.rows \in Nat \ {0} /\ Len(s.screen) = s.rows /\ s.temps <= Len(s.sb)
        /\ Len(s.sb) \in Nat
    <2>1. s \in Terminals /\ s.sb \in Seq(Nat)
      BY DEF Shape, Terminals
    <2>2. Len(s.sb) \in Nat
      BY <2>1
    <2> QED
      BY <2>1, <2>2 DEF Shape, Terminals
  <1>2. CASE s.temps > 0
    <2> DEFINE x == Shifted(s, 1)
               line == Last(s.sb)
               screen == <<line>> \o s.screen
               sb == Front(s.sb)
               z == [x EXCEPT !.screen = screen, !.sb = sb,
                              !.temps = s.temps - 1, !.rows = s.rows + 1]
    <2>1. /\ x \in Terminals /\ x.rows = s.rows /\ x.screen = s.screen /\ x.sb = s.sb
          /\ x.temps = s.temps /\ x.alt = s.alt
      BY ShiftedShape DEF Shape
    <2>a. Len(s.sb) > 0
      BY <1>1, <1>2
    <2>2. /\ sb \in Seq(Nat) /\ Len(sb) = Len(s.sb) - 1 /\ line \in Nat
          /\ In(s.sb, line) /\ \A l : In(sb, l) => In(s.sb, l)
          /\ Lone(s.sb) => Lone(sb) /\ (line # 0 => ~In(sb, line))
      BY <1>1, <2>a, FrontAndLast
    <2>3. Grow(s) = z
      BY <1>2, <2>1 DEF Grow
    <2> HIDE DEF x, line, sb
    <2>5. /\ screen \in Seq(Nat) /\ Len(screen) = s.rows + 1
          /\ \A l : In(screen, l) <=> In(s.screen, l) \/ l = line
          /\ Lone(s.screen) /\ (line # 0 => ~In(s.screen, line)) => Lone(screen)
      BY <1>1, <2>2, FirstLines
    <2> HIDE DEF screen
    <2>6. s.temps - 1 \in Nat /\ s.rows + 1 \in Nat \ {0}
      BY <1>1, <1>2
    <2>7. /\ z \in Terminals /\ z.screen = screen /\ z.sb = sb
          /\ z.temps = s.temps - 1 /\ z.rows = s.rows + 1 /\ z.alt = s.alt
      BY <2>1, <2>2, <2>5, <2>6 DEF Terminals
    <2> HIDE DEF z
    <2>8. Shape(z)
      BY <1>1, <2>2, <2>5, <2>7 DEF Shape
    <2>9. Lasts(s, z)
      <3>1. \A l : On(z, l) => On(s, l)
        BY <2>2, <2>5, <2>7 DEF On
      <3>2. ASSUME Distinct(s) PROVE Distinct(z)
        <4>1. Lone(sb) /\ Lone(screen)
          BY <2>2, <2>5, <3>2 DEF Distinct, Apart
        <4>2. Apart(sb, screen) /\ Apart(sb, s.alt) /\ Apart(screen, s.alt)
          BY <2>2, <2>5, <3>2 DEF Distinct, Apart
        <4> QED
          BY <2>7, <3>2, <4>1, <4>2 DEF Distinct
      <3> QED
        BY <3>1, <3>2 DEF Lasts
    <2> QED
      BY <2>3, <2>7, <2>8, <2>9
  <1>3. CASE ~(s.temps > 0)
    <2> DEFINE screen == Append(s.screen, 0)
               z == [s EXCEPT !.screen = screen, !.rows = s.rows + 1]
    <2>1. /\ screen \in Seq(Nat) /\ Len(screen) = s.rows + 1
          /\ \A l : In(screen, l) <=> In(s.screen, l) \/ l = 0
          /\ Lone(s.screen) => Lone(screen)
      BY <1>1, AppendLines
    <2>2. Grow(s) = z
      BY <1>3 DEF Grow
    <2> HIDE DEF screen
    <2>3. /\ z \in Terminals /\ z.screen = screen /\ z.sb = s.sb
          /\ z.temps = s.temps /\ z.rows = s.rows + 1 /\ z.alt = s.alt
      <3>1. s.rows + 1 \in Nat \ {0}
        BY <1>1
      <3> QED
        BY <1>1, <2>1, <3>1 DEF Terminals
    <2> HIDE DEF z
    <2>4. Lasts(s, z)
      <3>1. \A l : l # 0 /\ In(screen, l) => In(s.screen, l)
        BY <2>1
      <3>2. Distinct(s) => Distinct(z)
        BY <2>1, <2>3, <3>1 DEF Distinct, Apart
      <3>3. \A l : l # 0 /\ On(z, l) => On(s, l)
        BY <2>3, <3>1 DEF On
      <3> QED
        BY <3>2, <3>3 DEF Lasts
    <2> QED
      BY <1>1, <2>1, <2>2, <2>3, <2>4 DEF Shape
  <1> QED
    BY <1>2, <1>3

LEMMA ShrinkShape ==
    ASSUME NEW s, Shape(s), s.rows > 1
    PROVE  Shape(Shrink(s)) /\ Shrink(s).rows = s.rows - 1 /\ Lasts(s, Shrink(s))
  <1>1. /\ s \in Terminals /\ s.screen \in Seq(Nat) /\ s.sb \in Seq(Nat) /\ s.temps \in Nat
        /\ s.rows \in Nat \ {0} /\ Len(s.screen) = s.rows /\ s.temps <= Len(s.sb)
        /\ Len(s.sb) \in Nat
    <2>1. s \in Terminals /\ s.sb \in Seq(Nat)
      BY DEF Shape, Terminals
    <2>2. Len(s.sb) \in Nat
      BY <2>1
    <2> QED
      BY <2>1, <2>2 DEF Shape, Terminals
  <1>a. s.rows - 1 \in Nat \ {0}
    BY <1>1
  <1>2. CASE s.y < s.rows - 1
    <2> DEFINE screen == Front(s.screen)
               z == [s EXCEPT !.screen = screen, !.rows = s.rows - 1]
    <2>1. /\ screen \in Seq(Nat) /\ Len(screen) = s.rows - 1
          /\ \A l : In(screen, l) => In(s.screen, l)
          /\ Lone(s.screen) => Lone(screen)
      <3>1. Len(s.screen) > 0
        BY <1>1
      <3> QED
        BY <1>1, <3>1, FrontAndLast
    <2>2. Shrink(s) = z
      BY <1>2 DEF Shrink
    <2> HIDE DEF screen
    <2>3. /\ z \in Terminals /\ z.screen = screen /\ z.sb = s.sb
          /\ z.temps = s.temps /\ z.rows = s.rows - 1 /\ z.alt = s.alt
      BY <1>1, <1>a, <2>1 DEF Terminals
    <2> HIDE DEF z
    <2>4. Lasts(s, z)
      <3>1. \A l : l # 0 /\ In(screen, l) => In(s.screen, l)
        BY <2>1
      <3>2. Distinct(s) => Distinct(z)
        BY <2>1, <2>3, <3>1 DEF Distinct, Apart
      <3>3. \A l : l # 0 /\ On(z, l) => On(s, l)
        BY <2>3, <3>1 DEF On
      <3> QED
        BY <3>2, <3>3 DEF Lasts
    <2> QED
      BY <1>1, <2>1, <2>2, <2>3, <2>4 DEF Shape
  <1>3. CASE ~(s.y < s.rows - 1)
    <2> DEFINE x == Shifted(s, -1)
               line == Head(s.screen)
               screen == Tail(s.screen)
               sb == Append(s.sb, line)
               z == [x EXCEPT !.sb = sb, !.screen = screen,
                              !.temps = s.temps + 1, !.rows = s.rows - 1]
    <2>1. /\ x \in Terminals /\ x.rows = s.rows /\ x.screen = s.screen /\ x.sb = s.sb
          /\ x.temps = s.temps /\ x.alt = s.alt
      BY -1 \in Int, ShiftedShape DEF Shape
    <2>2. /\ line \in Nat /\ screen \in Seq(Nat) /\ Len(screen) = s.rows - 1
          /\ In(s.screen, line) /\ \A l : In(screen, l) => In(s.screen, l)
          /\ Lone(s.screen) => Lone(screen) /\ (line # 0 => ~In(screen, line))
      <3>1. s.screen # << >> /\ 1 \in 1..Len(s.screen) /\ 2 <= Len(s.screen) + 1
        BY <1>1
      <3>2. line = s.screen[1] /\ screen = SubSeq(s.screen, 2, Len(s.screen))
        BY <1>1, <3>1, TailIsSubSeq
      <3>3. line \in Nat /\ In(s.screen, line)
        BY <1>1, <3>1, <3>2, ElementOfSeq DEF In
      <3> HIDE DEF line, screen
      <3>4. 2 \in Nat \ {0} /\ 1 \in 1..(2 - 1)
        OBVIOUS
      <3>5. /\ screen \in Seq(Nat) /\ Len(screen) = Len(s.screen) - 2 + 1
            /\ \A l : In(screen, l) => In(s.screen, l)
            /\ Lone(s.screen) => Lone(screen)
                 /\ \A k \in 1..(2 - 1) : s.screen[k] # 0 => ~In(screen, s.screen[k])
        BY <1>1, <3>1, <3>2, <3>4, PartLines
      <3> QED
        BY <1>1, <3>2, <3>3, <3>4, <3>5
    <2>3. Shrink(s) = z
      BY <1>3, <2>1 DEF Shrink
    <2> HIDE DEF x, line, screen
    <2>4. /\ sb \in Seq(Nat) /\ Len(sb) = Len(s.sb) + 1
          /\ \A l : In(sb, l) <=> In(s.sb, l) \/ l = line
          /\ Lone(s.sb) /\ (line # 0 => ~In(s.sb, line)) => Lone(sb)
      BY <1>1, <2>2, AppendLines
    <2> HIDE DEF sb
    <2>5. /\ z \in Terminals /\ z.screen = screen /\ z.sb = sb
          /\ z.temps = s.temps + 1 /\ z.rows = s.rows - 1 /\ z.alt = s.alt
      <3>1. s.temps + 1 \in Nat
        BY <1>1
      <3> QED
        BY <1>a, <2>1, <2>2, <2>4, <3>1 DEF Terminals
    <2> HIDE DEF z
    <2>6. Lasts(s, z)
      <3>1. \A l : On(z, l) => On(s, l)
        BY <2>2, <2>4, <2>5 DEF On
      <3>2. ASSUME Distinct(s) PROVE Distinct(z)
        <4>1. Lone(sb) /\ Lone(screen)
          BY <2>2, <2>4, <3>2 DEF Distinct, Apart
        <4>2. Apart(sb, screen) /\ Apart(sb, s.alt) /\ Apart(screen, s.alt)
          BY <2>2, <2>4, <3>2 DEF Distinct, Apart
        <4> QED
          BY <2>5, <3>2, <4>1, <4>2 DEF Distinct
      <3> QED
        BY <3>1, <3>2 DEF Lasts
    <2> QED
      BY <1>1, <2>2, <2>3, <2>4, <2>5, <2>6 DEF Shape
  <1> QED
    BY <1>2, <1>3

(* term_size's loops.                                                      *)
GrowTimes(s, n) == Times(Grow, s, n)
ShrinkTimes(s, n) == Times(Shrink, s, n)

LEMMA GrowLoop ==
    ASSUME NEW s, Shape(s), NEW n \in Nat
    PROVE  /\ Shape(GrowTimes(s, n)) /\ GrowTimes(s, n).rows = s.rows + n
           /\ Lasts(s, GrowTimes(s, n))
  <1> DEFINE F == [x \in Terminals |-> Grow(x)]
             V(i) == {x \in Terminals : Shape(x) /\ x.rows = s.rows + i /\ Lasts(s, x)}
             W == [i \in 0..n |-> V(i)]
             after == CHOOSE h : h = [i \in 0..n |-> IF i = 0 THEN s ELSE Grow(h[i - 1])]
  <1>1. PICK g : Turns(g, F, s, n)
    BY TurnsExist
  <1>0. s \in Terminals /\ s.rows \in Nat
    BY DEF Shape, Terminals
  <1>2. s \in V(0)
    BY <1>0 DEF Lasts
  <1>3. ASSUME NEW i \in 1..n, NEW x \in V(i - 1)
        PROVE  F[x] = Grow(x) /\ Grow(x) \in V(i)
    <2>1. x \in Terminals /\ Shape(x) /\ x.rows = s.rows + (i - 1) /\ Lasts(s, x)
      OBVIOUS
    <2>2. Shape(Grow(x)) /\ Grow(x).rows = x.rows + 1 /\ Lasts(x, Grow(x))
      BY <2>1, GrowShape
    <2>3. Grow(x).rows = s.rows + i
      BY <1>0, <2>1, <2>2
    <2>4. Lasts(s, Grow(x))
      BY <2>1, <2>2, LastsOn
    <2> QED
      BY <2>1, <2>2, <2>3, <2>4 DEF Shape
  <1>4. \A i \in 0..n : W[i] = V(i)
    OBVIOUS
  <1> HIDE DEF V, F, W
  <1>5. \A i \in 0..n : g[i] \in V(i)
    <2>1. g[0] = s /\ \A i \in 1..n : g[i] = F[g[i - 1]]
      BY <1>1 DEF Turns
    <2>2. g[0] \in W[0] /\ \A i \in 1..n : g[i - 1] \in W[i - 1] => g[i] \in W[i]
      BY <1>2, <1>3, <1>4, <2>1
    <2> QED
      BY <1>4, <2>2, TurnByTurn
  <1>6. g = [i \in 0..n |-> IF i = 0 THEN s ELSE Grow(g[i - 1])]
    <2>1. \A i \in 0..n : i # 0 => F[g[i - 1]] = Grow(g[i - 1])
      BY <1>3, <1>5
    <2> QED
      BY <1>1, <2>1 DEF Turns
  <1>7. after = [i \in 0..n |-> IF i = 0 THEN s ELSE Grow(after[i - 1])]
    BY <1>6, Zenon
  <1>8. GrowTimes(s, n) = after[n]
    BY DEF GrowTimes, Times
  <1> HIDE DEF after
  <1>9. \A i \in 0..n : after[i] \in V(i)
    <2>1. after[0] = s /\ \A i \in 1..n : after[i] = Grow(after[i - 1])
      BY <1>7
    <2>2. after[0] \in W[0] /\ \A i \in 1..n : after[i - 1] \in W[i - 1] => after[i] \in W[i]
      BY <1>2, <1>3, <1>4, <2>1
    <2> QED
      BY <1>4, <2>2, TurnByTurn
  <1> QED
    BY <1>8, <1>9 DEF V

LEMMA ShrinkLoop ==
    ASSUME NEW s, Shape(s), NEW n \in Nat, n < s.rows
    PROVE  /\ Shape(ShrinkTimes(s, n)) /\ ShrinkTimes(s, n).rows = s.rows - n
           /\ Lasts(s, ShrinkTimes(s, n))
  <1> DEFINE F == [x \in Terminals |-> Shrink(x)]
             V(i) == {x \in Terminals : Shape(x) /\ x.rows = s.rows - i /\ Lasts(s, x)}
             W == [i \in 0..n |-> V(i)]
             after == CHOOSE h : h = [i \in 0..n |-> IF i = 0 THEN s ELSE Shrink(h[i - 1])]
  <1>1. PICK g : Turns(g, F, s, n)
    BY TurnsExist
  <1>0. s \in Terminals /\ s.rows \in Nat
    BY DEF Shape, Terminals
  <1>2. s \in V(0)
    BY <1>0 DEF Lasts
  <1>3. ASSUME NEW i \in 1..n, NEW x \in V(i - 1)
        PROVE  F[x] = Shrink(x) /\ Shrink(x) \in V(i)
    <2>1. x \in Terminals /\ Shape(x) /\ x.rows = s.rows - (i - 1) /\ Lasts(s, x)
      OBVIOUS
    <2>2. Shape(Shrink(x)) /\ Shrink(x).rows = x.rows - 1 /\ Lasts(x, Shrink(x))
      <3>1. x.rows > 1
        BY <1>0, <2>1
      <3> QED
        BY <2>1, <3>1, ShrinkShape
    <2>3. Shrink(x).rows = s.rows - i
      BY <1>0, <2>1, <2>2
    <2>4. Lasts(s, Shrink(x))
      BY <2>1, <2>2, LastsOn
    <2> QED
      BY <2>1, <2>2, <2>3, <2>4 DEF Shape
  <1>4. \A i \in 0..n : W[i] = V(i)
    OBVIOUS
  <1> HIDE DEF V, F, W
  <1>5. \A i \in 0..n : g[i] \in V(i)
    <2>1. g[0] = s /\ \A i \in 1..n : g[i] = F[g[i - 1]]
      BY <1>1 DEF Turns
    <2>2. g[0] \in W[0] /\ \A i \in 1..n : g[i - 1] \in W[i - 1] => g[i] \in W[i]
      BY <1>2, <1>3, <1>4, <2>1
    <2> QED
      BY <1>4, <2>2, TurnByTurn
  <1>6. g = [i \in 0..n |-> IF i = 0 THEN s ELSE Shrink(g[i - 1])]
    <2>1. \A i \in 0..n : i # 0 => F[g[i - 1]] = Shrink(g[i - 1])
      BY <1>3, <1>5
    <2> QED
      BY <1>1, <2>1 DEF Turns
  <1>7. after = [i \in 0..n |-> IF i = 0 THEN s ELSE Shrink(after[i - 1])]
    BY <1>6, Zenon
  <1>8. ShrinkTimes(s, n) = after[n]
    BY DEF ShrinkTimes, Times
  <1> HIDE DEF after
  <1>9. \A i \in 0..n : after[i] \in V(i)
    <2>1. after[0] = s /\ \A i \in 1..n : after[i] = Shrink(after[i - 1])
      BY <1>7
    <2>2. after[0] \in W[0] /\ \A i \in 1..n : after[i - 1] \in W[i - 1] => after[i] \in W[i]
      BY <1>2, <1>3, <1>4, <2>1
    <2> QED
      BY <1>4, <2>2, TurnByTurn
  <1> QED
    BY <1>8, <1>9 DEF V

LEMMA Clamped ==
    ASSUME NEW y \in Int, NEW rows \in Nat \ {0}
    PROVE  Clamp(y, rows) \in Int /\ 0 <= Clamp(y, rows) /\ Clamp(y, rows) < rows
  BY DEF Clamp

LEMMA term_sizeFollows ==
    ASSUME NEW s, Well(s), NEW rows \in Nat \ {0}, NEW savelines \in Nat
    PROVE  LET x == term_size(s, rows, savelines)
           IN  Well(x) /\ Viewed(x) /\ Lasts(s, x)
  <1> DEFINE s0 == swap_screen(s, 0, FALSE, FALSE)
             s1 == IF rows >= s.rows THEN Times(Grow, s0, rows - s.rows)
                   ELSE Times(Shrink, s0, s.rows - rows)
             len == Len(s1.sb)
             drop == Max({0, len - savelines})
             sb == SubSeq(s1.sb, drop + 1, len)
             temps == Min({s1.temps, len - drop})
             blank == Blank(rows)
             y == Clamp(s1.y, rows)
             save_y == Clamp(s1.save_y, rows)
             alt_save_y == Clamp(s1.alt_save_y, rows)
             bot == rows - 1
             s2 == [s1 EXCEPT
                      !.mt = 0, !.alt_t = 0, !.mb = bot, !.alt_b = bot,
                      !.savelines = savelines, !.sb = sb, !.temps = temps,
                      !.disptop = 0, !.alt = blank, !.altsb = 0,
                      !.y = y, !.alt_y = 0,
                      !.save_y = save_y, !.alt_save_y = alt_save_y]
  <1>1. term_size(s, rows, savelines) = swap_screen(s2, s.which, FALSE, FALSE)
    BY DEF term_size
  <1>2. s.which \in {0, 1} /\ FALSE \in BOOLEAN /\ 0 \in {0, 1} /\ s.rows \in Nat \ {0}
    BY DEF Well, Terminals
  <1>3. Shape(s0) /\ s0.rows = s.rows /\ Lasts(s, s0)
    <2>1. Follows(s, s0, 0) /\ Lasts(s, s0)
      BY <1>2, swap_screenFollows, swap_screenCarries DEF Carries
    <2> HIDE DEF s0
    <2> QED
      BY <2>1 DEF Follows, Same, Well, Buffers, Shape
  <1>4. Shape(s1) /\ s1.rows = rows /\ Lasts(s, s1)
    <2> HIDE DEF s0
    <2>1. CASE rows >= s.rows
      <3> DEFINE n == rows - s.rows
      <3>1. n \in Nat /\ s0.rows + n = rows
        BY <1>2, <1>3, <2>1
      <3>2. s1 = GrowTimes(s0, n)
        BY <2>1 DEF GrowTimes
      <3> HIDE DEF n, s1
      <3> QED
        BY <1>3, <3>1, <3>2, GrowLoop, LastsOn
    <2>2. CASE ~(rows >= s.rows)
      <3> DEFINE n == s.rows - rows
      <3>1. n \in Nat /\ s0.rows - n = rows /\ n < s0.rows
        BY <1>2, <1>3, <2>2
      <3>2. s1 = ShrinkTimes(s0, n)
        BY <2>2 DEF ShrinkTimes
      <3> HIDE DEF n, s1
      <3> QED
        BY <1>3, <3>1, <3>2, ShrinkLoop, LastsOn
    <2> QED
      BY <2>1, <2>2
  <1> HIDE DEF s1
  <1>5. /\ s1 \in Terminals /\ s1.sb \in Seq(Nat) /\ s1.temps \in Nat
        /\ s1.y \in Int /\ s1.save_y \in Int /\ s1.alt_save_y \in Int
        /\ s1.screen \in Seq(Nat) /\ Len(s1.screen) = rows
    BY <1>4 DEF Shape, Terminals
  <1>6. len \in Nat /\ s1.temps <= len
    BY <1>4, <1>5 DEF Shape
  <1>7. drop \in 0..len /\ len - drop <= savelines
    <2>1. len - savelines \in Int
      BY <1>6
    <2>2. drop = IF 0 >= len - savelines THEN 0 ELSE len - savelines
      BY <2>1, MaxOfTwo
    <2> HIDE DEF drop
    <2> QED
      BY <1>6, <2>2
  <1> HIDE DEF drop
  <1>8. /\ sb \in Seq(Nat) /\ Len(sb) = len - drop
        /\ (\A l : In(sb, l) => In(s1.sb, l)) /\ (Lone(s1.sb) => Lone(sb))
    <2> DEFINE from == drop + 1
    <2>1. from \in Nat \ {0} /\ from <= len + 1 /\ len - from + 1 = len - drop
      BY <1>6, <1>7
    <2>2. sb = SubSeq(s1.sb, from, len)
      OBVIOUS
    <2> HIDE DEF from, sb
    <2> QED
      BY <1>5, <2>1, <2>2, PartLines
  <1>9. temps \in Nat /\ temps <= len - drop
    <2>1. len - drop \in Int /\ s1.temps \in Int
      BY <1>5, <1>6, <1>7
    <2>2. temps = IF s1.temps <= len - drop THEN s1.temps ELSE len - drop
      BY <2>1, MinOfTwo
    <2> HIDE DEF temps
    <2> QED
      BY <1>5, <1>6, <1>7, <2>2
  <1>10. blank \in Seq(Nat) /\ Len(blank) = rows
    BY Blanks
  <1>11. /\ y \in Int /\ 0 <= y /\ y < rows
         /\ save_y \in Int /\ 0 <= save_y /\ save_y < rows
         /\ alt_save_y \in Int /\ 0 <= alt_save_y /\ alt_save_y < rows
         /\ bot \in Int /\ 0 <= bot /\ bot < rows
    <2>1. bot \in Int /\ 0 <= bot /\ bot < rows
      OBVIOUS
    <2> HIDE DEF bot
    <2> QED
      BY <1>5, <2>1, Clamped
  <1> HIDE DEF sb, temps, blank, y, save_y, alt_save_y, bot
  <1>12. s2 \in Terminals
    <2>1. 0 \in Nat /\ 0 \in Int
      OBVIOUS
    <2> QED
      BY <1>5, <1>8, <1>9, <1>10, <1>11, <2>1 DEF Terminals
  <1>13. /\ s2.rows = rows /\ s2.savelines = savelines /\ s2.sb = sb /\ s2.temps = temps
         /\ s2.screen = s1.screen /\ s2.alt = blank /\ s2.altsb = 0 /\ s2.disptop = 0
    BY <1>4, <1>5 DEF Terminals
  <1>a. \A k \in 1..rows : blank[k] = 0
    BY DEF blank, Blank
  <1>14. /\ s2.y = y /\ s2.alt_y = 0 /\ s2.save_y = save_y /\ s2.alt_save_y = alt_save_y
         /\ s2.mt = 0 /\ s2.mb = bot /\ s2.alt_t = 0 /\ s2.alt_b = bot
    BY <1>5 DEF Terminals
  <1> HIDE DEF s2
  <1>15. Well(s2)
    <2>1. Buffers(s2)
      <3>1. Len(sb) <= savelines /\ temps <= Len(sb) /\ 0 <= rows
        BY <1>6, <1>7, <1>8, <1>9
      <3> QED
        BY <1>5, <1>10, <1>13, <3>1 DEF Buffers
    <2>2. Cursors(s2)
      BY <1>11, <1>13, <1>14 DEF Cursors, Row
    <2>3. Margins(s2)
      BY <1>11, <1>13, <1>14 DEF Margins
    <2> QED
      BY <1>12, <2>1, <2>2, <2>3 DEF Well
  <1>16. Viewed(s2)
    BY <1>13, <1>15, LinesAbove DEF Viewed
  <1>17. Follows(s2, swap_screen(s2, s.which, FALSE, FALSE), s.which)
    BY <1>2, <1>15, swap_screenFollows
  <1>18. Lasts(s1, s2)
    <2>1. Lone(blank) /\ \A l : l # 0 => ~In(blank, l)
      BY <1>10, <1>a DEF Lone, In
    <2>2. \A l : l # 0 /\ On(s2, l) => On(s1, l)
      BY <1>8, <1>13, <2>1 DEF On
    <2>3. Distinct(s1) => Distinct(s2)
      BY <1>8, <1>13, <2>1 DEF Distinct, Apart
    <2> QED
      BY <2>2, <2>3 DEF Lasts
  <1>19. Lasts(s2, swap_screen(s2, s.which, FALSE, FALSE))
    BY <1>2, <1>15, swap_screenCarries DEF Carries
  <1>20. Lasts(s, swap_screen(s2, s.which, FALSE, FALSE))
    BY <1>4, <1>18, <1>19, LastsOn
  <1> QED
    BY <1>1, <1>16, <1>17, <1>20 DEF Follows
-----------------------------------------------------------------------------
(* The remote's output.                                                    *)

(* A part of the screen is erased, of the cursor's row perhaps.            *)
LEMMA ErasePartHolds ==
    ASSUME NEW s, Well(s), NEW from \in Int, NEW to \in Int,
           NEW rest \in {0, s.screen[s.y + 1]}
    PROVE  Holds(s, ErasePart(s, from, to, rest))
  <1> DEFINE line(i) == IF i - 1 = s.y THEN rest
                        ELSE IF i - 1 \in from..(to - 1) THEN 0 ELSE s.screen[i]
             q == [i \in DOMAIN s.screen |-> line(i)]
  <1>1. s.screen \in Seq(Nat) /\ Len(s.screen) = s.rows /\ s.rows \in Nat
    BY DEF Well, Terminals, Buffers
  <1>2. DOMAIN s.screen = 1..s.rows /\ \A i \in 1..s.rows : s.screen[i] \in Nat
    BY <1>1
  <1>a. s.y \in Int /\ 0 <= s.y /\ s.y < s.rows
    BY DEF Well, Terminals, Cursors, Row
  <1>b. \A i \in 1..s.rows : line(i) = 0 \/ line(i) = s.screen[i]
    <2>1. \A i \in 1..s.rows : i - 1 = s.y => i = s.y + 1
      BY <1>1, <1>a
    <2> QED
      BY <2>1
  <1> HIDE DEF line
  <1>3. \A i \in 1..s.rows : line(i) \in Nat
    BY <1>2, <1>b
  <1>4. ErasePart(s, from, to, rest) = [s EXCEPT !.screen = q]
    BY DEF ErasePart, line
  <1>5. q \in [1..s.rows -> Nat]
    BY <1>2, <1>3
  <1>c. \A i \in 1..s.rows : q[i] = 0 \/ q[i] = s.screen[i]
    BY <1>2, <1>b
  <1> HIDE DEF q
  <1>6. q \in Seq(Nat) /\ Len(q) = s.rows
    BY <1>1, <1>5
  <1>7. Lone(s.screen) => Lone(q)
    BY <1>1, <1>6, <1>c DEF Lone
  <1>8. \A l : l # 0 /\ In(q, l) => In(s.screen, l)
    BY <1>1, <1>6, <1>c DEF In
  <1> QED
    BY <1>4, <1>6, <1>7, <1>8, ScreenHolds

LEMMA MarginsAreARegion ==
    ASSUME NEW s, Well(s)
    PROVE  /\ Region(s, s.mt, s.mb)
           /\ s.y <= s.mb => Region(s, s.y, s.mb)
  <1>1. /\ s.mt \in Int /\ s.mb \in Int /\ s.y \in Int /\ Row(s, s.y)
        /\ 0 <= s.mt /\ s.mt <= s.mb /\ s.mb < s.rows
    BY DEF Well, Terminals, Cursors, Margins
  <1> QED
    BY <1>1 DEF Region, Row

LEMMA LineFeedHolds ==
    ASSUME NEW s, Well(s)
    PROVE  Holds(s, LineFeed(s)) /\ Holds(s, ReverseIndex(s))
  <1>1. s.y \in Int /\ 0 <= s.y /\ s.y < s.rows /\ s.rows \in Nat
    BY DEF Well, Terminals, Cursors, Row
  <1>2. /\ Holds(s, scroll(s, s.mt, s.mb, 1, TRUE))
        /\ Holds(s, scroll(s, s.mt, s.mb, -1, TRUE))
    <2>1. Region(s, s.mt, s.mb)
      BY MarginsAreARegion
    <2>2. 1 \in Int /\ -1 \in Int /\ TRUE \in BOOLEAN
      OBVIOUS
    <2> QED
      BY <2>1, <2>2, scrollHolds
  <1>3. ASSUME s.y < s.rows - 1 PROVE Holds(s, [s EXCEPT !.y = s.y + 1])
    <2>1. s.y + 1 \in Int /\ Row(s, s.y + 1)
      BY <1>1, <1>3 DEF Row
    <2> QED
      BY <2>1, CursorHolds
  <1>4. ASSUME s.y > 0 PROVE Holds(s, [s EXCEPT !.y = s.y - 1])
    <2>1. s.y - 1 \in Int /\ Row(s, s.y - 1)
      BY <1>1, <1>4 DEF Row
    <2> QED
      BY <2>1, CursorHolds
  <1>5. Holds(s, s)
    BY HoldsItself
  <1>6. Holds(s, LineFeed(s))
    BY <1>2, <1>3, <1>5 DEF LineFeed
  <1>7. Holds(s, ReverseIndex(s))
    BY <1>2, <1>4, <1>5 DEF ReverseIndex
  <1> QED
    BY <1>6, <1>7

(* What keeps the view, one operation after the other.                     *)
LEMMA HeldIsKept ==
    ASSUME NEW s, NEW x, Holds(s, x)
    PROVE  Keeps(s, x)
  BY DEF Holds, Keeps, Follows

LEMMA HeldThenKept ==
    ASSUME NEW s, NEW x, NEW y, Holds(s, x), Keeps(x, y)
    PROVE  Keeps(s, y)
  <1>1. /\ Follows(s, x, s.which) /\ Carries(s, x) /\ Still(s, x)
        /\ Follows(x, y, y.which) /\ Carries(x, y) /\ x.which = s.which /\ x.set = s.set
    BY DEF Holds, Keeps, Follows, Same
  <1>2. Follows(s, y, y.which) /\ Carries(s, y)
    BY <1>1, FollowsOn, CarriesOn
  <1>3. y.which = 1 => Still(s, y)
    BY <1>1 DEF Keeps, Still
  <1>4. s.which = 1 /\ y.which = 0 => y.sb = s.sb
    BY <1>1 DEF Keeps, Still
  <1> QED
    BY <1>2, <1>3, <1>4 DEF Keeps

LEMMA KeptThenHeld ==
    ASSUME NEW s, NEW x, NEW y, Keeps(s, x), Holds(x, y), y.sb = x.sb
    PROVE  Keeps(s, y)
  <1>1. /\ Follows(s, x, x.which) /\ Carries(s, x) /\ Follows(x, y, y.which)
        /\ Carries(x, y) /\ Still(x, y) /\ y.which = x.which /\ x.set = s.set
    BY DEF Holds, Keeps, Follows, Same
  <1>2. Follows(s, y, y.which) /\ Carries(s, y)
    BY <1>1, FollowsOn, CarriesOn
  <1>3. y.which = 1 => Still(s, y)
    BY <1>1 DEF Keeps, Still
  <1>4. s.which = 1 /\ y.which = 0 => y.sb = s.sb
    BY <1>1 DEF Keeps
  <1> QED
    BY <1>2, <1>3, <1>4 DEF Keeps

LEMMA TextsLast ==
    ASSUME Inv, Lasts(t, t'), text' = text
    PROVE  /\ text' \in Nat /\ Distinct(t)'
           /\ \A l : l # 0 /\ On(t', l) => l \in 1..text'
  BY DEF Inv, Lasts

(* The steps whose new terminal follows from the old one keep Inv.         *)
LEMMA FollowedIsFine ==
    ASSUME Inv, NEW w, Follows(t, t', w), Lasts(t, t'), text' = text
    PROVE  Inv'
  <1>1. Well(t)' /\ ("reconfigured" \notin Unguarded => Viewed(t)')
    BY DEF Inv, Follows
  <1> QED
    BY <1>1, TextsLast DEF Inv

LEMMA KeptIsFine ==
    ASSUME Inv, Keeps(t, t'), text' = text
    PROVE  Inv'
  BY FollowedIsFine DEF Keeps, Carries

(* A piece of text is written in a row, after a wrap perhaps.              *)
WrittenOn(s, q) ==
    /\ Holds(t, s) /\ t' = [s EXCEPT !.screen = q] /\ text' = text + 1
    /\ q \in Seq(Nat) /\ Len(q) = s.rows
    /\ \E i \in 1..s.rows : \A k \in 1..s.rows :
         q[k] = IF k = i THEN text + 1 ELSE s.screen[k]

LEMMA Written ==
    ASSUME Well(t), text \in Nat, Write
    PROVE  \E s, q : WrittenOn(s, q)
  <1>2. PICK wrap \in BOOLEAN :
          LET s == IF wrap THEN LineFeed(t) ELSE t
          IN  t' = [s EXCEPT !.screen[s.y + 1] = text + 1]
    BY DEF Write
  <1> DEFINE s == IF wrap THEN LineFeed(t) ELSE t
             line == text + 1
             i == s.y + 1
             q == [s.screen EXCEPT ![i] = line]
  <1>3. Holds(t, s)
    BY LineFeedHolds, HoldsItself
  <1>4. t' = [s EXCEPT !.screen = q] /\ text' = text + 1
    BY <1>2 DEF Write
  <1> HIDE DEF s
  <1>5. s.screen \in Seq(Nat) /\ Len(s.screen) = s.rows
    BY <1>3 DEF Holds, Follows, Well, Terminals, Buffers
  <1>6. line \in Nat /\ i \in 1..s.rows
    <2>1. s.y \in Int /\ 0 <= s.y /\ s.y < s.rows /\ s.rows \in Nat
      BY <1>3 DEF Holds, Follows, Well, Terminals, Cursors, Row
    <2> QED
      BY <2>1
  <1>7. q \in Seq(Nat) /\ Len(q) = s.rows
    <2> HIDE DEF line, i
    <2> QED
      BY <1>5, <1>6, ExceptSeq
  <1>8. \A k \in 1..s.rows : q[k] = IF k = i THEN line ELSE s.screen[k]
    <2> HIDE DEF line, i
    <2>1. DOMAIN s.screen = 1..s.rows
      BY <1>5
    <2> QED
      BY <2>1
  <1>9. \E k \in 1..s.rows : \A m \in 1..s.rows :
          q[m] = IF m = k THEN text + 1 ELSE s.screen[m]
    <2> HIDE DEF q, i
    <2> QED
      BY <1>6, <1>8
  <1>10. WrittenOn(s, q)
    BY <1>3, <1>4, <1>7, <1>9 DEF WrittenOn
  <1> HIDE DEF q
  <1> QED
    BY <1>10

LEMMA WriteKeeps ==
    ASSUME Inv, Write
    PROVE  Inv'
  <1>0. PICK s, q : WrittenOn(s, q)
    BY Written DEF Inv
  <1>1. /\ Holds(t, s) /\ t' = [s EXCEPT !.screen = q] /\ text' = text + 1
        /\ q \in Seq(Nat) /\ Len(q) = s.rows
        /\ \E i \in 1..s.rows : \A k \in 1..s.rows :
             q[k] = IF k = i THEN text + 1 ELSE s.screen[k]
    BY <1>0 DEF WrittenOn
  <1>2. PICK i \in 1..s.rows : \A k \in 1..s.rows :
          q[k] = IF k = i THEN text + 1 ELSE s.screen[k]
    BY <1>1
  <1>3. /\ text \in Nat /\ Distinct(t) /\ \A l : l # 0 /\ On(t, l) => l \in 1..text
    BY DEF Inv
  <1>4. /\ Distinct(s) /\ \A l : l # 0 /\ On(s, l) => l \in 1..text
    BY <1>1, <1>3 DEF Holds, Carries, Lasts
  <1>5. Well(s) /\ Len(s.screen) = s.rows
    BY <1>1 DEF Holds, Follows, Well, Buffers
  <1>6. t'.screen = q /\ t'.sb = s.sb /\ t'.alt = s.alt
    BY <1>1, <1>5 DEF Well, Terminals
  <1>7. Follows(t, t', s.which)
    <2>1. Follows(s, t', s.which)
      BY <1>1, <1>5, ScreenFollows
    <2> QED
      BY <1>1, <2>1, FollowsOn DEF Holds
  <1>8. \A l : In(q, l) => In(s.screen, l) \/ l = text + 1
    BY <1>1, <1>2, <1>5 DEF In
  <1>9. ~On(s, text + 1)
    <2>1. text + 1 # 0 /\ text + 1 \notin 1..text
      BY <1>3
    <2> QED
      BY <1>4, <2>1
  <1>10. Lone(q)
    <2>1. Lone(s.screen) /\ \A k \in 1..s.rows : s.screen[k] # text + 1
      BY <1>4, <1>5, <1>9 DEF Distinct, On, In
    <2> QED
      BY <1>1, <1>2, <1>5, <2>1 DEF Lone
  <1>11. Apart(s.sb, q) /\ Apart(q, s.alt)
    BY <1>4, <1>8, <1>9 DEF Distinct, Apart, On
  <1>12. Distinct(t)'
    BY <1>4, <1>6, <1>10, <1>11 DEF Distinct
  <1>13. ASSUME NEW l, l # 0, On(t', l) PROVE l \in 1..text'
    <2>1. On(s, l) \/ l = text + 1
      BY <1>6, <1>8, <1>13 DEF On
    <2> QED
      BY <1>1, <1>3, <1>4, <1>13, <2>1
  <1>14. Well(t)' /\ text' \in Nat /\ ("reconfigured" \notin Unguarded => Viewed(t)')
    BY <1>1, <1>3, <1>7 DEF Inv, Follows
  <1> QED
    BY <1>12, <1>13, <1>14 DEF Inv

LEMMA FeedKeeps ==
    ASSUME Well(t), Feed \/ FeedBack
    PROVE  Keeps(t, t')
  <1>1. t' \in {LineFeed(t), ReverseIndex(t)}
    BY DEF Feed, FeedBack
  <1>2. Holds(t, t')
    BY <1>1, LineFeedHolds
  <1> QED
    BY <1>2, HeldIsKept

LEMMA MoveKeeps ==
    ASSUME Well(t), Move
    PROVE  Keeps(t, t')
  <1>2. t.y \in Int /\ t.mt \in Int /\ t.rows \in Nat
    BY DEF Well, Terminals
  <1>3. PICK n \in 1..t.rows :
          t' \in {move(t, t.y - n, 1), move(t, t.y + n, 1),
                  move(t, n - 1, 0), move(t, t.mt + n - 1, 2)}
    BY DEF Move
  <1>4. \E y, clip \in Int : t' = move(t, y, clip)
    <2>1. /\ t.y - n \in Int /\ t.y + n \in Int /\ n - 1 \in Int /\ t.mt + n - 1 \in Int
          /\ 0 \in Int /\ 1 \in Int /\ 2 \in Int
      BY <1>2
    <2> QED
      BY <1>3, <2>1
  <1>5. Holds(t, t')
    BY <1>4, moveHolds
  <1> QED
    BY <1>5, HeldIsKept

LEMMA SaveCursorKeeps ==
    ASSUME Well(t), SaveCursor
    PROVE  Keeps(t, t')
  <1>1. t' \in {save_cursor(t, TRUE), save_cursor(t, FALSE)}
    BY DEF SaveCursor
  <1>2. Holds(t, t')
    BY <1>1, save_cursorHolds
  <1> QED
    BY <1>2, HeldIsKept

(* The margins are set, the cursor moves into them or to the first row.    *)
LEMMA MarginsHold ==
    ASSUME NEW s, Well(s), NEW top \in Nat, NEW bot \in Nat, top <= bot, bot < s.rows,
           NEW y \in Int, Row(s, y), NEW alt_t \in Int, NEW alt_b \in Int,
           0 <= alt_t, alt_t <= alt_b, alt_b < s.rows
    PROVE  Holds(s, [s EXCEPT !.alt_t = alt_t, !.mt = top, !.alt_b = alt_b,
                              !.mb = bot, !.y = y])
  <1> DEFINE x == [s EXCEPT !.alt_t = alt_t, !.mt = top, !.alt_b = alt_b,
                            !.mb = bot, !.y = y]
  <1>0. s \in Terminals /\ Buffers(s) /\ Cursors(s) /\ Margins(s)
    BY DEF Well
  <1>1. /\ x \in Terminals /\ x.sb = s.sb /\ x.temps = s.temps /\ x.disptop = s.disptop
        /\ x.screen = s.screen /\ x.alt = s.alt /\ x.altsb = s.altsb /\ x.which = s.which
        /\ Same(s, x)
    <2>1. top \in Int /\ bot \in Int
      OBVIOUS
    <2> QED
      BY <1>0, <2>1 DEF Terminals, Same
  <1>2. /\ x.y = y /\ x.alt_y = s.alt_y /\ x.save_y = s.save_y /\ x.alt_save_y = s.alt_save_y
        /\ x.mt = top /\ x.mb = bot /\ x.alt_t = alt_t /\ x.alt_b = alt_b
    BY <1>0 DEF Terminals
  <1> HIDE DEF x
  <1>3. Well(x)
    BY <1>0, <1>1, <1>2 DEF Well, Buffers, Cursors, Margins, Row, Same
  <1>4. Viewed(s) => Viewed(x)
    BY <1>1 DEF Viewed, sblines, altlines, Same
  <1>5. Follows(s, x, s.which)
    BY <1>1, <1>3, <1>4 DEF Follows
  <1>6. Holds(s, x)
    BY <1>1, <1>5, UnmovedHolds DEF Unmoved, Same
  <1> QED
    BY <1>6 DEF x

LEMMA SetMarginsKeeps ==
    ASSUME Well(t), SetMargins
    PROVE  Keeps(t, t')
  <1>2. /\ t.rows \in Nat \ {0} /\ t \in Terminals /\ t.alt_t \in Int /\ t.alt_b \in Int
        /\ 0 <= t.alt_t /\ t.alt_t <= t.alt_b /\ t.alt_b < t.rows
    BY DEF Well, Terminals, Margins
  <1>3. PICK top \in 0..(t.rows - 1), bot \in 0..(t.rows - 1), y \in {"top", "home"} :
          /\ bot > top
          /\ t' = [t EXCEPT !.mt = top, !.mb = bot, !.y = IF y = "top" THEN top ELSE 0]
    BY DEF SetMargins
  <1> DEFINE r == IF y = "top" THEN top ELSE 0
             x == [t EXCEPT !.alt_t = t.alt_t, !.mt = top, !.alt_b = t.alt_b,
                            !.mb = bot, !.y = r]
  <1>4. /\ top \in Nat /\ bot \in Nat /\ top <= bot /\ bot < t.rows
        /\ r \in Int /\ Row(t, r)
    BY <1>2, <1>3 DEF Row
  <1>5. t' = x
    BY <1>2, <1>3 DEF Terminals
  <1> HIDE DEF r
  <1>6. Holds(t, x)
    BY <1>2, <1>4, MarginsHold
  <1> QED
    BY <1>5, <1>6, HeldIsKept

LEMMA ShiftLinesKeeps ==
    ASSUME Well(t), ShiftLines
    PROVE  Keeps(t, t')
  <1>2. PICK n \in 1..t.rows :
          \/ /\ t.y <= t.mb
             /\ t' \in {scroll(t, t.y, t.mb, -n, FALSE), scroll(t, t.y, t.mb, n, TRUE)}
          \/ t' \in {scroll(t, t.mt, t.mb, n, TRUE), scroll(t, t.mt, t.mb, -n, TRUE)}
    BY DEF ShiftLines
  <1>3. n \in Int /\ -n \in Int /\ TRUE \in BOOLEAN /\ FALSE \in BOOLEAN
    BY <1>2
  <1>4. \E top, bot : \E lines \in Int, sb \in BOOLEAN :
          Region(t, top, bot) /\ t' = scroll(t, top, bot, lines, sb)
    <2>1. CASE /\ t.y <= t.mb
               /\ t' \in {scroll(t, t.y, t.mb, -n, FALSE), scroll(t, t.y, t.mb, n, TRUE)}
      <3>1. Region(t, t.y, t.mb)
        BY <2>1, MarginsAreARegion
      <3> QED
        BY <1>3, <2>1, <3>1
    <2>2. CASE t' \in {scroll(t, t.mt, t.mb, n, TRUE), scroll(t, t.mt, t.mb, -n, TRUE)}
      <3>1. Region(t, t.mt, t.mb)
        BY MarginsAreARegion
      <3> QED
        BY <1>3, <2>2, <3>1
    <2> QED
      BY <1>2, <2>1, <2>2
  <1>5. Holds(t, t')
    BY <1>4, scrollHolds
  <1> QED
    BY <1>5, HeldIsKept

LEMMA EraseScreenKeeps ==
    ASSUME Well(t), EraseScreen
    PROVE  Keeps(t, t')
  <1>2. PICK s \in {t, move(t, 0, 0)} : t' = Shown(EraseAll(s))
    BY DEF EraseScreen
  <1>3. Holds(t, s) /\ Well(s)
    <2>1. 0 \in Int
      OBVIOUS
    <2> QED
      BY <2>1, moveHolds, HoldsItself DEF Holds, Follows
  <1>4. Holds(s, EraseAll(s)) /\ Well(EraseAll(s))
    BY <1>3, EraseAllHolds DEF Holds, Follows
  <1>5. Holds(EraseAll(s), t')
    BY <1>2, <1>4, ShownHolds
  <1>6. Holds(t, t')
    BY <1>3, <1>4, <1>5, HoldsOn
  <1> QED
    BY <1>6, HeldIsKept

LEMMA EraseSomeKeeps ==
    ASSUME Well(t), EraseSome
    PROVE  Keeps(t, t')
  <1>2. t.y \in Int /\ t.rows \in Nat
    BY DEF Well, Terminals
  <1>3. PICK rest \in {0, t.screen[t.y + 1]} :
          \/ t' = Shown(ErasePart(t, t.y + 1, t.rows, rest))
          \/ t' = Shown(ErasePart(t, 0, t.y, rest))
          \/ t' = ErasePart(t, 0, 0, rest)
    BY DEF EraseSome
  <1>5. t.y + 1 \in Int /\ t.rows \in Int /\ 0 \in Int
    BY <1>2
  <1>6. PICK from \in Int, to \in Int :
          t' = ErasePart(t, from, to, rest) \/ t' = Shown(ErasePart(t, from, to, rest))
    BY <1>2, <1>3, <1>5
  <1> DEFINE x == ErasePart(t, from, to, rest)
  <1>7. Holds(t, x)
    BY ErasePartHolds
  <1>8. t' = x \/ t' = Shown(x)
    BY <1>6
  <1> HIDE DEF x
  <1>9. Holds(x, Shown(x))
    BY <1>7, ShownHolds DEF Holds, Follows
  <1>10. Holds(t, t')
    BY <1>7, <1>8, <1>9, HoldsOn
  <1> QED
    BY <1>10, HeldIsKept

LEMMA ClearScrollbackKeeps ==
    ASSUME Inv, ClearScrollback
    PROVE  Inv'
  <1>1. Well(t) /\ text' = text /\ t' = term_clrsb(t)
    BY DEF Inv, ClearScrollback
  <1>2. Follows(t, t', t.which) /\ Lasts(t, t')
    BY <1>1, term_clrsbFollows
  <1> QED
    BY <1>1, <1>2, FollowedIsFine

LEMMA ColumnModeKeeps ==
    ASSUME Well(t), ColumnMode
    PROVE  Keeps(t, t')
  <1> DEFINE bot == t.rows - 1
             x == [t EXCEPT !.alt_t = 0, !.mt = 0, !.alt_b = bot, !.mb = bot, !.y = 0]
  <1>2. t' = EraseAll(x)
    BY DEF ColumnMode
  <1>3. /\ bot \in Nat /\ bot \in Int /\ 0 <= bot /\ bot < t.rows
        /\ 0 \in Nat /\ 0 \in Int /\ 0 <= 0 /\ Row(t, 0)
    <2>1. t.rows \in Nat \ {0}
      BY DEF Well, Terminals
    <2> QED
      BY <2>1 DEF Row
  <1> HIDE DEF bot
  <1>4. Holds(t, x)
    BY <1>3, MarginsHold
  <1> HIDE DEF x
  <1>5. Holds(x, t')
    BY <1>2, <1>4, EraseAllHolds DEF Holds, Follows
  <1>6. Holds(t, t')
    BY <1>4, <1>5, HoldsOn
  <1> QED
    BY <1>6, HeldIsKept

LEMMA ScrollbackLeft ==
    ASSUME NEW s, Well(s), NEW save
    PROVE  Shown(s).sb = s.sb /\ save_cursor(s, save).sb = s.sb
  BY DEF Well, Terminals, Shown, save_cursor

LEMMA swap_screenKeeps ==
    ASSUME NEW s, Well(s), NEW which \in {0, 1},
           NEW reset \in BOOLEAN, NEW keep \in BOOLEAN
    PROVE  Keeps(s, swap_screen(s, which, reset, keep))
  <1> DEFINE x == swap_screen(s, which, reset, keep)
  <1>1. /\ Follows(s, x, which) /\ Carries(s, x) /\ (which = s.which => Holds(s, x))
        /\ which = 0 /\ s.which = 1 => x.sb = s.sb
    BY swap_screenFollows, swap_screenCarries
  <1> HIDE DEF x
  <1>2. x.which = which /\ Follows(s, x, x.which)
    BY <1>1 DEF Follows
  <1>3. x.which = 1 => Still(s, x)
    BY <1>1, <1>2 DEF Still, Holds
  <1> QED
    BY <1>1, <1>2, <1>3 DEF Keeps, x

LEMMA SwapScreenKeeps ==
    ASSUME Well(t), SwapScreen
    PROVE  Keeps(t, t')
  <1>0. FALSE \in BOOLEAN /\ TRUE \in BOOLEAN
    OBVIOUS
  <1>2. PICK state \in {0, 1} : t' \in {Mode47(state), Mode1047(state), Mode1049(state)}
    BY DEF SwapScreen
  <1> DEFINE which == IF t.set.noalt THEN 0 ELSE state
             s1 == IF state = 1 /\ ~t.set.noalt THEN save_cursor(t, TRUE) ELSE t
             s2 == swap_screen(s1, which, TRUE, FALSE)
             s3 == IF state = 0 /\ ~t.set.noalt THEN save_cursor(s2, FALSE) ELSE s2
  <1>3. which \in {0, 1}
    OBVIOUS
  <1>4. /\ Mode47(state) = Shown(swap_screen(t, which, FALSE, FALSE))
        /\ Mode1047(state) = Shown(swap_screen(t, which, TRUE, TRUE))
        /\ Mode1049(state) = Shown(s3)
    BY DEF Mode47, Mode1047, Mode1049
  <1> HIDE DEF which
  <1>5. Holds(t, s1)
    BY <1>0, save_cursorHolds, HoldsItself
  <1> HIDE DEF s1
  <1>6. Keeps(t, s2)
    <2>1. Keeps(s1, s2)
      BY <1>0, <1>3, <1>5, swap_screenKeeps DEF Holds, Follows
    <2> HIDE DEF s2
    <2> QED
      BY <1>5, <2>1, HeldThenKept
  <1> HIDE DEF s2
  <1>7. Keeps(t, s3)
    <2>1. Well(s2)
      BY <1>6 DEF Keeps, Follows
    <2>2. Holds(s2, s3) /\ s3.sb = s2.sb
      BY <1>0, <2>1, save_cursorHolds, HoldsItself, ScrollbackLeft
    <2> HIDE DEF s3
    <2> QED
      BY <1>6, <2>2, KeptThenHeld
  <1> HIDE DEF s3
  <1>8. PICK x : Keeps(t, x) /\ t' = Shown(x)
    <2>1. /\ Keeps(t, swap_screen(t, which, FALSE, FALSE))
          /\ Keeps(t, swap_screen(t, which, TRUE, TRUE))
      BY <1>0, <1>3, swap_screenKeeps
    <2> QED
      BY <1>2, <1>4, <1>7, <2>1
  <1>9. Holds(x, t') /\ t'.sb = x.sb
    BY <1>8, ShownHolds, ScrollbackLeft DEF Keeps, Follows
  <1> QED
    BY <1>8, <1>9, KeptThenHeld

(* A reset keeps the texts apart, and the view if it comes on the main     *)
(* screen.                                                                 *)
LEMMA ResetFollows ==
    ASSUME Well(t), Reset
    PROVE  /\ \E w : Follows(t, t', w) /\ Lasts(t, t')
           /\ "reset" \notin Unguarded => Keeps(t, t')
  <1>1. t' = Shown(power_on(t, TRUE)) /\ (t.which = 0 \/ "reset" \in Unguarded)
    BY DEF Reset
  <1> DEFINE x == power_on(t, TRUE)
  <1>2. Follows(t, x, 0) /\ Lasts(t, x) /\ (t.which = 0 => Goes(t, x, 0))
    <2>1. TRUE \in BOOLEAN
      OBVIOUS
    <2> QED
      BY <2>1, power_onFollows
  <1>3. t' = Shown(x)
    BY <1>1
  <1> HIDE DEF x
  <1>4. x.which = 0 /\ Holds(x, t')
    BY <1>2, <1>3, ShownHolds DEF Follows
  <1>5. Follows(t, t', x.which) /\ Lasts(t, t')
    BY <1>2, <1>4, FollowsOn, LastsOn DEF Holds, Carries
  <1>6. ASSUME "reset" \notin Unguarded PROVE Keeps(t, t')
    <2>1. t.which = 0 /\ Goes(t, x, 0) /\ Goes(x, t', 0)
      BY <1>1, <1>2, <1>4, <1>6 DEF Holds, Goes
    <2>2. Goes(t, t', 0) /\ t'.which = 0
      BY <1>4, <2>1, GoesOn DEF Goes, Follows
    <2> QED
      BY <2>1, <2>2 DEF Goes, Keeps
  <1> QED
    BY <1>5, <1>6

LEMMA OutputKeeps ==
    ASSUME Inv, Output
    PROVE  /\ Inv'
           /\ Write \/ Keeps(t, t') \/ (Reset /\ "reset" \in Unguarded)
  <1>1. Well(t)
    BY DEF Inv
  <1>2. CASE Write
    BY <1>2, WriteKeeps
  <1>3. CASE Reset
    <2>1. text' = text
      BY <1>3 DEF Reset
    <2> QED
      BY <1>1, <1>3, <2>1, ResetFollows, FollowedIsFine
  <1>4. CASE ~Write /\ ~Reset
    <2>1. text' = text
      BY <1>4 DEF Output, Feed, FeedBack, Move, SaveCursor, SetMargins, ShiftLines,
         EraseScreen, EraseSome, ColumnMode, SwapScreen
    <2>2. Keeps(t, t')
      BY <1>1, <1>4, FeedKeeps, MoveKeeps, SaveCursorKeeps, SetMarginsKeeps, ShiftLinesKeeps,
         EraseScreenKeeps, EraseSomeKeeps, ColumnModeKeeps, SwapScreenKeeps DEF Output
    <2> QED
      BY <2>1, <2>2, KeptIsFine
  <1> QED
    BY <1>2, <1>3, <1>4
-----------------------------------------------------------------------------
(* The user and the window.                                                *)

LEMMA ViewSet ==
    ASSUME NEW s, Well(s), NEW x, x = [s EXCEPT !.disptop = 0]
    PROVE  Follows(s, x, s.which) /\ Viewed(x) /\ Lasts(s, x)
  <1>1. -sblines(s) <= 0 /\ 0 <= 0 /\ 0 \in Int
    BY LinesAbove
  <1> QED
    BY <1>1, BottomFollows, BottomLasts

LEMMA term_updateKeeps ==
    ASSUME Inv, term_update
    PROVE  Inv'
  <1>1. Well(t) /\ text' = text /\ t' = [t EXCEPT !.disptop = 0]
    BY DEF Inv, term_update
  <1>2. Follows(t, t', t.which) /\ Lasts(t, t')
    BY <1>1, ViewSet
  <1> QED
    BY <1>1, <1>2, FollowedIsFine

LEMMA term_scrollKeeps ==
    ASSUME Inv, term_scroll
    PROVE  Inv'
  <1>1. Well(t) /\ text' = text
    BY DEF Inv, term_scroll
  <1>2. PICK top \in (-sblines(t))..0 : t' = [t EXCEPT !.disptop = top]
    BY DEF term_scroll
  <1>3. top \in Int /\ -sblines(t) <= top /\ top <= 0
    <2>1. sblines(t) \in Nat
      BY <1>1, LinesAbove
    <2> QED
      BY <1>2, <2>1
  <1>4. Follows(t, [t EXCEPT !.disptop = top], t.which)
    BY <1>1, <1>3, BottomFollows
  <1>5. Follows(t, t', t.which) /\ Lasts(t, t')
    BY <1>1, <1>2, <1>4, BottomLasts
  <1> QED
    BY <1>1, <1>5, FollowedIsFine

LEMMA term_pwronKeeps ==
    ASSUME Inv, term_pwron
    PROVE  Inv'
  <1>1. Well(t) /\ text' = text
    BY DEF Inv, term_pwron
  <1>2. PICK clear \in BOOLEAN : t' = [power_on(t, clear) EXCEPT !.disptop = 0]
    BY DEF term_pwron
  <1> DEFINE x == power_on(t, clear)
  <1>3. Follows(t, x, 0) /\ Lasts(t, x)
    BY <1>1, power_onFollows
  <1>4. t' = [x EXCEPT !.disptop = 0]
    BY <1>2
  <1> HIDE DEF x
  <1>5. Well(x)
    BY <1>3 DEF Follows
  <1>6. Follows(x, t', x.which) /\ Lasts(x, t')
    BY <1>4, <1>5, ViewSet
  <1>7. Follows(t, t', x.which) /\ Lasts(t, t')
    BY <1>3, <1>6, FollowsOn, LastsOn
  <1> QED
    BY <1>1, <1>7, FollowedIsFine

LEMMA ResizeKeeps ==
    ASSUME Inv, Resize
    PROVE  Inv'
  <1>1. Well(t) /\ text' = text
    BY DEF Inv, Resize
  <1>2. PICK size \in Sizes : t' = term_size(t, size[1], size[2])
    BY DEF Resize
  <1>3. size[1] \in Nat \ {0} /\ size[2] \in Nat
    BY <1>2, TerminalAssumption
  <1>4. Well(t') /\ Viewed(t') /\ Lasts(t, t')
    BY <1>1, <1>2, <1>3, term_sizeFollows
  <1> QED
    BY <1>1, <1>4, TextsLast DEF Inv

(* The settings change; the view is kept where the lines above the screen  *)
(* stay the same, or the view is at the bottom.                            *)
LEMMA term_reconfigKeeps ==
    ASSUME Inv, term_reconfig
    PROVE  Inv'
  <1>1. Well(t) /\ text' = text
    BY DEF Inv, term_reconfig
  <1>2. PICK set \in Settings :
          LET s1 == IF set.noalt THEN swap_screen(t, 0, FALSE, FALSE) ELSE t
          IN  /\ \/ "reconfigured" \in Unguarded
                 \/ s1.which = 0 \/ s1.disptop = 0 \/ set.e2s = t.set.e2s
              /\ t' = [s1 EXCEPT !.set = set]
    BY DEF term_reconfig
  <1> DEFINE s1 == IF set.noalt THEN swap_screen(t, 0, FALSE, FALSE) ELSE t
             x == [s1 EXCEPT !.set = set]
  <1>3. \E w : Follows(t, s1, w) /\ Lasts(t, s1)
    <2>1. FALSE \in BOOLEAN /\ 0 \in {0, 1}
      OBVIOUS
    <2>2. LET x1 == swap_screen(t, 0, FALSE, FALSE) IN Follows(t, x1, 0) /\ Lasts(t, x1)
      BY <1>1, <2>1, swap_screenFollows, swap_screenCarries DEF Carries
    <2> QED
      BY <1>1, <2>2, HoldsItself DEF Holds, Carries
  <1>4. /\ "reconfigured" \in Unguarded \/ s1.which = 0 \/ s1.disptop = 0 \/ set.e2s = t.set.e2s
        /\ t' = x
    BY <1>2
  <1> HIDE DEF s1
  <1>5. Well(s1) /\ s1.set = t.set /\ (Viewed(t) => Viewed(s1))
    BY <1>3 DEF Follows, Same
  <1>6. s1 \in Terminals /\ Buffers(s1) /\ Cursors(s1) /\ Margins(s1)
    BY <1>5 DEF Well
  <1>7. set \in Setting
    BY TerminalAssumption
  <1>8. /\ x \in Terminals /\ x.sb = s1.sb /\ x.temps = s1.temps /\ x.disptop = s1.disptop
        /\ x.screen = s1.screen /\ x.alt = s1.alt /\ x.altsb = s1.altsb /\ x.which = s1.which
        /\ x.rows = s1.rows /\ x.savelines = s1.savelines /\ x.set = set
    BY <1>6, <1>7 DEF Terminals
  <1>9. /\ x.y = s1.y /\ x.alt_y = s1.alt_y /\ x.save_y = s1.save_y
        /\ x.alt_save_y = s1.alt_save_y
        /\ x.mt = s1.mt /\ x.mb = s1.mb /\ x.alt_t = s1.alt_t /\ x.alt_b = s1.alt_b
    BY <1>6 DEF Terminals
  <1> HIDE DEF x
  <1>10. Well(x)
    BY <1>6, <1>8, <1>9 DEF Well, Buffers, Cursors, Margins, Row
  <1>11. ASSUME "reconfigured" \notin Unguarded PROVE Viewed(x)
    <2>1. Viewed(s1)
      BY <1>5, <1>11 DEF Inv
    <2>2. CASE s1.disptop = 0
      <3>1. sblines(x) \in Nat
        BY <1>10, LinesAbove
      <3> QED
        BY <1>8, <2>2, <3>1 DEF Viewed
    <2>3. CASE s1.which = 0 \/ set.e2s = t.set.e2s
      <3>1. altlines(x) = altlines(s1)
        BY <1>5, <1>8, <2>3 DEF altlines
      <3>2. sblines(x) = sblines(s1)
        BY <1>8, <3>1 DEF sblines
      <3> QED
        BY <1>8, <2>1, <3>2 DEF Viewed
    <2> QED
      BY <1>4, <1>11, <2>2, <2>3
  <1>12. Lasts(t, x)
    <2>1. Lasts(s1, x)
      BY <1>8 DEF Lasts, Distinct, On
    <2> QED
      BY <1>3, <2>1, LastsOn
  <1> QED
    BY <1>1, <1>4, <1>10, <1>11, <1>12, TextsLast DEF Inv

LEMMA Starts == Init => Inv
  <1>1. SUFFICES ASSUME Init PROVE Inv
    OBVIOUS
  <1>2. PICK size \in Sizes, set \in Settings : t = NewTerminal(size[1], size[2], set)
    BY <1>1 DEF Init
  <1> DEFINE rows == size[1]  savelines == size[2]  blank == Blank(rows)  bot == rows - 1
  <1>3. rows \in Nat \ {0} /\ savelines \in Nat /\ set \in Setting
    BY TerminalAssumption
  <1>4. t = [rows |-> rows, savelines |-> savelines, set |-> set,
             screen |-> blank, alt |-> blank, sb |-> <<>>,
             temps |-> 0, which |-> 0, altsb |-> 0, disptop |-> 0,
             y |-> 0, alt_y |-> 0, save_y |-> 0, alt_save_y |-> 0,
             mt |-> 0, mb |-> bot, alt_t |-> 0, alt_b |-> bot]
    BY <1>2 DEF NewTerminal
  <1> HIDE DEF rows, savelines
  <1>5. /\ blank \in Seq(Nat) /\ Len(blank) = rows /\ <<>> \in Seq(Nat) /\ Len(<<>>) = 0
        /\ bot \in Int /\ 0 <= bot /\ bot < rows /\ 0 < rows
        /\ 0 \in Nat /\ 0 \in Int /\ 0 \in {0, 1}
    BY <1>3, Blanks
  <1> HIDE DEF blank, bot
  <1>6. t \in Terminals
    BY <1>3, <1>4, <1>5 DEF Terminals
  <1>7. /\ t.sb = <<>> /\ t.temps = 0 /\ t.screen = blank /\ t.alt = blank /\ t.altsb = 0
        /\ t.rows = rows /\ t.savelines = savelines /\ t.disptop = 0
        /\ t.y = 0 /\ t.alt_y = 0 /\ t.save_y = 0 /\ t.alt_save_y = 0
        /\ t.mt = 0 /\ t.mb = bot /\ t.alt_t = 0 /\ t.alt_b = bot
    BY <1>4
  <1>8. Well(t)
    <2>1. Buffers(t)
      BY <1>3, <1>5, <1>7 DEF Buffers
    <2>2. Cursors(t) /\ Margins(t)
      BY <1>5, <1>7 DEF Cursors, Margins, Row
    <2> QED
      BY <1>6, <2>1, <2>2 DEF Well
  <1>9. Viewed(t)
    <2>1. sblines(t) \in Nat
      BY <1>8, LinesAbove
    <2> QED
      BY <1>7, <2>1 DEF Viewed
  <1>10. text \in Nat
    BY <1>1 DEF Init
  <1>11. \A l : l # 0 => ~In(blank, l) /\ ~In(t.sb, l)
    <2>1. \A k \in 1..rows : blank[k] = 0
      BY <1>3 DEF blank, Blank
    <2> QED
      BY <1>5, <1>7, <2>1 DEF In
  <1>12. Lone(blank) /\ Lone(t.sb)
    BY <1>11 DEF Lone, In
  <1>13. Distinct(t)
    BY <1>7, <1>11, <1>12 DEF Distinct, Apart
  <1>14. \A l : l # 0 => ~On(t, l)
    BY <1>7, <1>11 DEF On
  <1> QED
    BY <1>8, <1>9, <1>10, <1>13, <1>14 DEF Inv

LEMMA Steps == Inv /\ [Next]_vars => Inv'
  <1>1. SUFFICES ASSUME Inv, [Next]_vars PROVE Inv'
    OBVIOUS
  <1>2. CASE Next
    BY <1>1, <1>2, OutputKeeps, ClearScrollbackKeeps, term_updateKeeps, term_scrollKeeps,
       term_pwronKeeps, ResizeKeeps, term_reconfigKeeps DEF Next
  <1>3. CASE UNCHANGED vars
    BY <1>1, <1>3 DEF Inv, vars
  <1> QED
    BY <1>1, <1>2, <1>3

LEMMA Invariance == Spec => []Inv
  BY Starts, Steps, PTL DEF Spec
-----------------------------------------------------------------------------
(* Whatever the remote writes, the user chooses and the window's size, all *)
(* that scroll, swap_screen, power_on and term_size do leaves both screens *)
(* with a line for every row, the scrollback within its limit and with the *)
(* lines that a resize may bring back, and the cursors and the margins on  *)
(* the screen: the assertions of term_size hold.                           *)
THEOREM BuffersConsistent == Spec => []Consistent
  <1>1. ASSUME Inv PROVE Consistent
    <2>1. t \in Terminals /\ Buffers(t) /\ Cursors(t) /\ Margins(t)
      BY <1>1 DEF Inv, Well
    <2>2. /\ t.sb \in Seq(Nat) /\ t.temps \in Nat /\ t.rows \in Nat /\ t.altsb \in Nat
          /\ t.y \in Int /\ t.alt_y \in Int /\ t.save_y \in Int /\ t.alt_save_y \in Int
          /\ t.mt \in Int /\ t.mb \in Int /\ t.alt_t \in Int /\ t.alt_b \in Int
      BY <2>1 DEF Terminals
    <2>3. Len(t.sb) \in Nat
      BY <2>2
    <2>4. t.temps \in 0..Len(t.sb) /\ t.altsb \in 0..t.rows
      BY <2>1, <2>2, <2>3 DEF Buffers
    <2>5. \A y \in {t.y, t.alt_y, t.save_y, t.alt_save_y} : y \in 0..(t.rows - 1)
      BY <2>1, <2>2 DEF Cursors, Row
    <2>6. /\ t.mt \in 0..t.mb /\ t.mb < t.rows
          /\ t.alt_t \in 0..t.alt_b /\ t.alt_b < t.rows
      BY <2>1, <2>2 DEF Margins
    <2> QED
      BY <2>1, <2>4, <2>5, <2>6 DEF Consistent, Buffers
  <1> QED
    BY <1>1, Invariance, PTL

(* If the settings never change what counts as scrollback under a view of  *)
(* the scrollback (term_reconfig), do_paint never asks lineptr for a line  *)
(* that is not there, whatever is scrolled, erased, swapped and resized.   *)
THEOREM ViewShowsLines ==
    ASSUME "reconfigured" \notin Unguarded
    PROVE  Spec => []ViewInRange
  <1>1. ASSUME Inv PROVE ViewInRange
    <2>1. Well(t) /\ Viewed(t)
      BY <1>1 DEF Inv
    <2>2. sblines(t) \in Nat /\ t.disptop \in Int
      BY <2>1, LinesAbove DEF Well, Terminals
    <2> QED
      BY <2>1, <2>2 DEF Viewed, ViewInRange
  <1> QED
    BY <1>1, Invariance, PTL

(* A line above the screen is in the scrollback, or on the main screen     *)
(* under the alternate one.                                                *)
LEMMA AboveLines ==
    ASSUME NEW s, Well(s), NEW l, Contains(Above(s), l)
    PROVE  On(s, l) /\ (altlines(s) = 0 => In(s.sb, l))
  <1> DEFINE n == altlines(s)
             top == SubSeq(s.alt, 1, n)
  <1>1. /\ s.sb \in Seq(Nat) /\ s.alt \in Seq(Nat) /\ Len(s.alt) = s.rows /\ s.rows \in Nat
        /\ s.altsb \in Nat /\ s.altsb <= s.rows
    BY DEF Well, Terminals, Buffers
  <1>2. n \in 0..s.rows
    BY <1>1 DEF altlines
  <1>3. Len(s.sb) \in Nat /\ \A k \in 1..Len(s.alt) : s.alt[k] \in Nat
    BY <1>1
  <1>4. Above(s) = s.sb \o top
    BY DEF Above
  <1> HIDE DEF n
  <1>5. top \in Seq(Nat) /\ Len(top) = n /\ \A k \in 1..n : top[k] = s.alt[k]
    <2>1. \A k \in 1..n : s.alt[k] \in Nat
      BY <1>1, <1>2, <1>3
    <2>2. 1 \in Int /\ n \in Int /\ (1 <= n \/ n = 0)
      BY <1>2
    <2>3. /\ top \in Seq(Nat) /\ Len(top) = IF 1 <= n THEN n - 1 + 1 ELSE 0
          /\ \A k \in 1..(n - 1 + 1) : top[k] = s.alt[1 + k - 1]
      BY <2>1, <2>2, SubSeqProperties
    <2> HIDE DEF top
    <2> QED
      BY <2>2, <2>3
  <1> HIDE DEF top
  <1>6. /\ Len(s.sb \o top) = Len(s.sb) + n
        /\ \A k \in 1..(Len(s.sb) + n) :
             (s.sb \o top)[k] = IF k <= Len(s.sb) THEN s.sb[k] ELSE top[k - Len(s.sb)]
    BY <1>1, <1>5, ConcatProperties
  <1>7. PICK k \in 1..(Len(s.sb) + n) : (s.sb \o top)[k] = l
    BY <1>4, <1>6 DEF Contains
  <1> DEFINE len == Len(s.sb)
  <1>8. CASE k <= len
    <2>1. k \in 1..Len(s.sb) /\ s.sb[k] = l
      BY <1>6, <1>7, <1>8
    <2> QED
      BY <2>1 DEF On, In
  <1>9. CASE ~(k <= len)
    <2>1. top[k - Len(s.sb)] = l
      BY <1>6, <1>7, <1>9
    <2>2. len \in Nat /\ k \in 1..(len + n)
      BY <1>3, <1>7
    <2> DEFINE j == k - len
    <2>3. top[j] = l
      BY <2>1
    <2> HIDE DEF len
    <2>4. j \in 1..n
      BY <1>2, <1>9, <2>2
    <2> HIDE DEF j
    <2>5. j \in 1..Len(s.alt) /\ s.alt[j] = l /\ n # 0
      BY <1>1, <1>2, <1>5, <2>3, <2>4
    <2> QED
      BY <2>5 DEF On, In, n
  <1> QED
    BY <1>8, <1>9

(* The line at the top of a view above the screen.                         *)
LEMMA TopLine ==
    ASSUME NEW s, Well(s), Viewed(s), s.disptop < 0
    PROVE  LET l == lineptr(s, s.disptop)
           IN  \/ Shows(s, l) /\ In(s.sb, l)
               \/ /\ s.which = 1 /\ ~(s.disptop < -altlines(s))
                  /\ In(s.alt, l) /\ l = s.alt[s.disptop + s.altsb + 1]
  <1> DEFINE l == lineptr(s, s.disptop)  len == Len(s.sb)  n == altlines(s)  d == s.disptop
             i == d + n + len + 1  j == d + s.altsb + 1
  <1>1. /\ s.sb \in Seq(Nat) /\ s.alt \in Seq(Nat) /\ Len(s.alt) = s.rows /\ s.rows \in Nat
        /\ s.altsb \in Nat /\ s.altsb <= s.rows /\ d \in Int
    BY DEF Well, Terminals, Buffers
  <1>2. len \in Nat /\ n \in Int /\ (n = 0 \/ (s.which = 1 /\ n = s.altsb))
    BY <1>1 DEF altlines
  <1>3. -(len + n) <= d /\ d < 0
    BY DEF Viewed, sblines
  <1>4. l = IF d < -n THEN s.sb[i] ELSE s.alt[j]
    BY <1>1, <1>3 DEF lineptr
  <1>5. i = Top(s)
    BY DEF Top
  <1>6. CASE d < -n
    <2>1. l = s.sb[i]
      BY <1>4, <1>6
    <2>2. Shows(s, l)
      BY <1>5, <1>6, <2>1 DEF Shows
    <2>3. i \in 1..len
      <3> HIDE DEF len, n, d
      <3> QED
        BY <1>1, <1>2, <1>3, <1>6
    <2> HIDE DEF i
    <2>4. In(s.sb, l)
      BY <2>1, <2>3 DEF In
    <2> QED
      BY <2>2, <2>4
  <1>7. CASE ~(d < -n)
    <2>1. l = s.alt[j]
      BY <1>4, <1>7
    <2>2. s.which = 1 /\ n = s.altsb
      <3> HIDE DEF len, n, d
      <3> QED
        BY <1>1, <1>2, <1>3, <1>7
    <2>3. j \in 1..Len(s.alt)
      <3> HIDE DEF n, d
      <3> QED
        BY <1>1, <1>3, <1>7, <2>2
    <2>4. In(s.alt, l)
      <3> HIDE DEF j, l
      <3> QED
        BY <2>1, <2>3 DEF In
    <2> QED
      BY <1>7, <2>1, <2>2, <2>4
  <1> QED
    BY <1>6, <1>7

(* The text stays at the top if it is still above the screen.              *)
LEMMA KeptIsShown ==
    ASSUME NEW s, Well(s), Viewed(s), Distinct(s), s.disptop < 0, ~s.set.sod,
           NEW x, Keeps(s, x), lineptr(s, s.disptop) # 0,
           Contains(Above(x), lineptr(s, s.disptop))
    PROVE  x.disptop < 0 /\ lineptr(x, x.disptop) = lineptr(s, s.disptop)
  <1> DEFINE l == lineptr(s, s.disptop)
  <1>1. Well(x) /\ x.set = s.set /\ Carries(s, x)
    BY DEF Keeps, Follows, Same
  <1>2. On(x, l) /\ (altlines(x) = 0 => In(x.sb, l))
    BY <1>1, AboveLines
  <1>3. CASE Shows(s, l)
    <2>1. Shows(x, l)
      BY <1>1, <1>2, <1>3 DEF Carries
    <2>2. altlines(x) \in Nat /\ x.disptop \in Int
      BY <1>1 DEF Well, Terminals, altlines
    <2>3. x.disptop < -altlines(x) /\ x.sb[Top(x)] = l
      BY <2>1 DEF Shows
    <2>4. x.disptop < 0 /\ ~(x.disptop >= 0)
      BY <2>2, <2>3
    <2> HIDE DEF l
    <2>5. lineptr(x, x.disptop) = l
      BY <2>3, <2>4 DEF lineptr, Top
    <2> QED
      BY <2>4, <2>5 DEF l
  <1>4. CASE /\ s.which = 1 /\ ~(s.disptop < -altlines(s))
             /\ In(s.alt, l) /\ l = s.alt[s.disptop + s.altsb + 1]
    <2>1. x.which \in {0, 1}
      BY <1>1 DEF Well, Terminals
    <2>2. CASE x.which = 1
      <3>1. /\ x.alt = s.alt /\ x.altsb = s.altsb /\ x.disptop = s.disptop
        BY <1>4, <2>2 DEF Keeps, Still
      <3>2. altlines(x) = altlines(s)
        BY <1>1, <1>4, <2>2, <3>1 DEF altlines
      <3>3. s.disptop < 0 /\ ~(s.disptop >= 0)
        BY DEF Well, Terminals
      <3> HIDE DEF l
      <3>4. lineptr(x, x.disptop) = l
        BY <1>4, <3>1, <3>2, <3>3 DEF lineptr
      <3> QED
        BY <3>1, <3>3, <3>4 DEF l
    <2>3. CASE x.which = 0
      <3>1. x.sb = s.sb /\ altlines(x) = 0
        BY <1>4, <2>3 DEF Keeps, altlines
      <3>2. In(s.sb, l)
        BY <1>2, <3>1
      <3> QED
        BY <1>4, <3>2 DEF Distinct, Apart
    <2> QED
      BY <2>1, <2>2, <2>3
  <1> QED
    BY <1>3, <1>4, TopLine

(* What is written on the screen changes nothing above it.                 *)
LEMMA WrittenIsShown ==
    ASSUME Inv, Viewed(t), t.disptop < 0, ~t.set.sod, Write,
           lineptr(t, t.disptop) # 0, Contains(Above(t'), lineptr(t, t.disptop))
    PROVE  lineptr(t', t'.disptop) = lineptr(t, t.disptop)
  <1>1. PICK s, q : WrittenOn(s, q)
    BY Written DEF Inv
  <1>2. Holds(t, s) /\ t' = [s EXCEPT !.screen = q] /\ Well(s)
    BY <1>1 DEF WrittenOn, Holds, Follows
  <1>3. /\ t'.sb = s.sb /\ t'.alt = s.alt /\ t'.altsb = s.altsb /\ t'.which = s.which
        /\ t'.disptop = s.disptop /\ t'.set = s.set /\ s.disptop \in Int
    BY <1>2 DEF Well, Terminals
  <1>4. altlines(t') = altlines(s)
    BY <1>3 DEF altlines
  <1>5. Above(t') = Above(s)
    BY <1>3, <1>4 DEF Above
  <1>6. s.disptop < 0 /\ lineptr(s, s.disptop) = lineptr(t, t.disptop)
    <2>1. Keeps(t, s)
      BY <1>2, HeldIsKept
    <2> QED
      BY <1>5, <2>1, KeptIsShown DEF Inv
  <1>7. ~(s.disptop >= 0)
    BY <1>3, <1>6
  <1>8. lineptr(t', t'.disptop) = lineptr(s, s.disptop)
    BY <1>3, <1>4, <1>7 DEF lineptr
  <1> QED
    BY <1>6, <1>8

(* What scroll and swap_screen say they do for a user who looks at the     *)
(* scrollback: with scroll_on_disp off, whatever the remote writes, feeds, *)
(* scrolls, erases and swaps, the text at the top of the window is at the  *)
(* top of the window afterwards, or it is no longer above the screen.  It  *)
(* takes that no text is in two lines (Distinct), and that the two things  *)
(* do not happen that break it: a reset on the alternate screen, and a     *)
(* view of lines that are not there.                                       *)
THEOREM TextStaysInView ==
    ASSUME "reset" \notin Unguarded, "reconfigured" \notin Unguarded
    PROVE  Spec => ViewStays
  <1> DEFINE l == lineptr(t, t.disptop)
  <1>1. ASSUME Inv, Output, t.disptop < 0, ~t.set.sod, l # 0, Contains(Above(t'), l)
        PROVE  lineptr(t', t'.disptop) = l
    <2>1. Well(t) /\ Viewed(t) /\ Distinct(t)
      BY <1>1 DEF Inv
    <2>2. Write \/ Keeps(t, t')
      BY <1>1, OutputKeeps
    <2> QED
      BY <1>1, <2>1, <2>2, KeptIsShown, WrittenIsShown
  <1>2. Inv /\ [Next]_vars
        => [/\ t.disptop < 0 /\ ~t.set.sod
            /\ lineptr(t, t.disptop) # 0
            /\ lineptr(t', t'.disptop) # lineptr(t, t.disptop)
            /\ Contains(Above(t'), lineptr(t, t.disptop))
            => ~Output]_vars
    BY <1>1
  <1> QED
    BY <1>2, Invariance, PTL DEF Spec, ViewStays
-----------------------------------------------------------------------------
(* The text of lines.  g lists what Texts has kept of q, line by line.     *)
Keeping(g, q, n) ==
    g = [i \in 0..n |->
           IF i = 0 THEN <<>>
           ELSE IF q[i] = 0 THEN g[i - 1] ELSE Append(g[i - 1], q[i])]

LEMMA KeepingExists ==
    ASSUME NEW q, NEW n \in Nat
    PROVE  \E g : Keeping(g, q, n)
  <1> DEFINE Bad == {m \in Nat : ~\E g : Keeping(g, q, m)}
  <1>1. SUFFICES ASSUME Bad # {} PROVE FALSE
    OBVIOUS
  <1>2. PICK m \in Bad : \A k \in Bad : m <= k
    BY <1>1, LeastMember
  <1>3. CASE m = 0
    <2> DEFINE z == [i \in 0..0 |-> <<>>]
    <2>1. Keeping(z, q, 0)
      BY DEF Keeping
    <2> QED
      BY <1>2, <1>3, <2>1
  <1>4. CASE m # 0
    <2>1. m - 1 \in Nat /\ m - 1 \notin Bad
      BY <1>2, <1>4
    <2>2. PICK g : Keeping(g, q, m - 1)
      BY <2>1
    <2> DEFINE last == IF q[m] = 0 THEN g[m - 1] ELSE Append(g[m - 1], q[m])
               u == [i \in 0..m |-> IF i = m THEN last ELSE g[i]]
    <2>3. /\ \A i \in 0..(m - 1) :
               g[i] = IF i = 0 THEN <<>>
                      ELSE IF q[i] = 0 THEN g[i - 1] ELSE Append(g[i - 1], q[i])
          /\ \A i \in 0..(m - 1) : u[i] = g[i]
          /\ u[m] = last
      <3> HIDE DEF last
      <3>1. \A i \in 0..(m - 1) : i \in 0..m /\ i # m
        BY <1>2
      <3>2. m \in 0..m
        BY <1>2
      <3> QED
        BY <2>2, <3>1, <3>2 DEF Keeping
    <2>4. u = [i \in 0..m |-> u[i]]
      OBVIOUS
    <2> HIDE DEF u
    <2>5. \A i \in 0..m :
            u[i] = IF i = 0 THEN <<>>
                   ELSE IF q[i] = 0 THEN u[i - 1] ELSE Append(u[i - 1], q[i])
      BY <1>2, <1>4, <2>1, <2>3
    <2>6. Keeping(u, q, m)
      BY <2>4, <2>5 DEF Keeping
    <2> QED
      BY <1>2, <2>6
  <1> QED
    BY <1>3, <1>4

LEMMA KeepingSteps ==
    ASSUME NEW q, NEW n \in Nat, NEW g, Keeping(g, q, n)
    PROVE  /\ g[0] = <<>>
           /\ \A i \in 1..n : g[i] = IF q[i] = 0 THEN g[i - 1] ELSE Append(g[i - 1], q[i])
  <1>1. 0 \in 0..n /\ \A i \in 1..n : i \in 0..n /\ i # 0
    OBVIOUS
  <1>2. \A i \in 0..n :
          g[i] = IF i = 0 THEN <<>>
                 ELSE IF q[i] = 0 THEN g[i - 1] ELSE Append(g[i - 1], q[i])
    BY Zenon DEF Keeping
  <1>3. g[0] = <<>>
    BY <1>1, <1>2
  <1> QED
    BY <1>1, <1>2, <1>3

(* There is one such list for lines that begin alike.                      *)
Alike(q, r, n) == \A i \in 1..n : q[i] = r[i]

LEMMA KeepingIsOne ==
    ASSUME NEW q, NEW r, NEW n \in Nat, NEW m \in Nat, n <= m,
           NEW g, Keeping(g, q, n), NEW h, Keeping(h, r, m), Alike(q, r, n)
    PROVE  g[n] = h[n]
  <1> DEFINE W == [i \in 0..n |-> {h[i]}]
  <1>1. /\ g[0] = <<>> /\ h[0] = <<>>
        /\ \A i \in 1..n : g[i] = IF q[i] = 0 THEN g[i - 1] ELSE Append(g[i - 1], q[i])
        /\ \A i \in 1..m : h[i] = IF r[i] = 0 THEN h[i - 1] ELSE Append(h[i - 1], r[i])
    BY KeepingSteps
  <1>2. \A i \in 0..n : W[i] = {h[i]}
    OBVIOUS
  <1> HIDE DEF W
  <1>3. \A i \in 1..n : i \in 1..m /\ i - 1 \in 0..n /\ i \in 0..n
    OBVIOUS
  <1>4. g[0] \in W[0] /\ \A i \in 1..n : g[i - 1] \in W[i - 1] => g[i] \in W[i]
    BY <1>1, <1>2, <1>3 DEF Alike
  <1>5. \A i \in 0..n : g[i] \in W[i]
    BY <1>4, TurnByTurn
  <1> QED
    BY <1>2, <1>5

LEMMA TextsAreKept ==
    ASSUME NEW q \in Seq(Nat)
    PROVE  \E g : Keeping(g, q, Len(q)) /\ Texts(q) = g[Len(q)]
  <1> DEFINE n == Len(q)
             kept == CHOOSE h : h = [i \in 0..n |->
                       IF i = 0 THEN <<>>
                       ELSE IF q[i] = 0 THEN h[i - 1] ELSE Append(h[i - 1], q[i])]
  <1>1. n \in Nat
    OBVIOUS
  <1>2. PICK g : Keeping(g, q, n)
    BY <1>1, KeepingExists
  <1>3. Keeping(kept, q, n)
    BY <1>2, Zenon DEF Keeping
  <1>4. Texts(q) = kept[n]
    BY DEF Texts
  <1> HIDE DEF kept
  <1> QED
    BY <1>3, <1>4

LEMMA TextsType ==
    ASSUME NEW q \in Seq(Nat)
    PROVE  Texts(q) \in Seq(Nat)
  <1> DEFINE n == Len(q)  W == [i \in 0..n |-> Seq(Nat)]
  <1>1. PICK g : Keeping(g, q, n) /\ Texts(q) = g[n]
    BY TextsAreKept
  <1>2. n \in Nat /\ \A i \in 1..n : q[i] \in Nat
    OBVIOUS
  <1> HIDE DEF n
  <1>3. /\ g[0] = <<>>
        /\ \A i \in 1..n : g[i] = IF q[i] = 0 THEN g[i - 1] ELSE Append(g[i - 1], q[i])
    BY <1>1, <1>2, KeepingSteps
  <1>4. \A i \in 0..n : W[i] = Seq(Nat)
    OBVIOUS
  <1> HIDE DEF W
  <1>5. \A i \in 1..n : i \in 0..n /\ i - 1 \in 0..n
    BY <1>2
  <1>6. g[0] \in W[0] /\ \A i \in 1..n : g[i - 1] \in W[i - 1] => g[i] \in W[i]
    <2>1. g[0] \in W[0]
      <3>1. 0 \in 0..n /\ <<>> \in Seq(Nat)
        BY <1>2
      <3> QED
        BY <1>3, <1>4, <3>1
    <2>2. ASSUME NEW i \in 1..n, g[i - 1] \in Seq(Nat) PROVE g[i] \in Seq(Nat)
      <3> DEFINE a == g[i - 1]  x == q[i]
      <3>1. a \in Seq(Nat) /\ x \in Nat /\ g[i] = IF x = 0 THEN a ELSE Append(a, x)
        BY <1>2, <1>3, <2>2
      <3> HIDE DEF a, x
      <3>2. Append(a, x) \in Seq(Nat)
        BY <3>1, AppendProperties
      <3> QED
        BY <3>1, <3>2
    <2> QED
      BY <1>4, <1>5, <2>1, <2>2
  <1>7. \A i \in 0..n : g[i] \in W[i]
    BY <1>2, <1>6, TurnByTurn
  <1> QED
    BY <1>1, <1>2, <1>4, <1>7

LEMMA TextsOfNone == Texts(<<>>) = <<>>
  <1>1. <<>> \in Seq(Nat) /\ Len(<<>>) = 0
    OBVIOUS
  <1>2. PICK g : Keeping(g, <<>>, 0) /\ Texts(<<>>) = g[0]
    BY <1>1, TextsAreKept
  <1> QED
    BY <1>2, KeepingSteps

LEMMA TextsOfMore ==
    ASSUME NEW q \in Seq(Nat), NEW x \in Nat
    PROVE  Texts(Append(q, x)) = IF x = 0 THEN Texts(q) ELSE Append(Texts(q), x)
  <1> DEFINE n == Len(q)  r == Append(q, x)
  <1>1. n \in Nat
    OBVIOUS
  <1>2. /\ r \in Seq(Nat) /\ Len(r) = n + 1 /\ r[n + 1] = x
        /\ \A i \in 1..n : r[i] = q[i]
    <2>1. r \in Seq(Nat) /\ Len(r) = n + 1 /\ r[Len(q) + 1] = x
      BY AppendProperties
    <2>2. \A i \in 1..n : r[i] = q[i]
      BY AppendProperties
    <2> QED
      BY <2>1, <2>2
  <1>3. PICK g : Keeping(g, q, n) /\ Texts(q) = g[n]
    BY TextsAreKept
  <1> HIDE DEF n, r
  <1>4. PICK h : Keeping(h, r, n + 1) /\ Texts(r) = h[n + 1]
    <2>1. PICK h : Keeping(h, r, Len(r)) /\ Texts(r) = h[Len(r)]
      BY <1>2, TextsAreKept
    <2> QED
      BY <1>2, <2>1
  <1>5. g[n] = h[n]
    <2> DEFINE m == n + 1
    <2>1. m \in Nat /\ n <= m /\ Alike(q, r, n)
      BY <1>1, <1>2 DEF Alike
    <2>2. Keeping(g, q, n) /\ Keeping(h, r, m)
      BY <1>3, <1>4
    <2> HIDE DEF m
    <2> QED
      BY <1>1, <2>1, <2>2, KeepingIsOne
  <1>6. h[n + 1] = IF r[n + 1] = 0 THEN h[n] ELSE Append(h[n], r[n + 1])
    <2>1. n + 1 \in Nat /\ n + 1 \in 1..(n + 1) /\ (n + 1) - 1 = n
      BY <1>1
    <2>2. \A i \in 1..(n + 1) : h[i] = IF r[i] = 0 THEN h[i - 1] ELSE Append(h[i - 1], r[i])
      BY <1>4, <2>1, KeepingSteps
    <2> QED
      BY <2>1, <2>2
  <1> QED
    BY <1>2, <1>3, <1>4, <1>5, <1>6 DEF r

LEMMA Joined ==
    ASSUME NEW p \in Seq(Nat), NEW q \in Seq(Nat)
    PROVE  p \o q \in Seq(Nat)
  BY ConcatProperties

LEMMA JoinedAgain ==
    ASSUME NEW p \in Seq(Nat), NEW q \in Seq(Nat), NEW r \in Seq(Nat)
    PROVE  (p \o q) \o r = p \o (q \o r)
  BY ConcatAssociative, SMTT(30)

LEMMA JoinMore ==
    ASSUME NEW p \in Seq(Nat), NEW q \in Seq(Nat), NEW x \in Nat
    PROVE  p \o Append(q, x) = Append(p \o q, x)
  <1> DEFINE z == <<x>>  pq == p \o q
  <1>1. z \in Seq(Nat) /\ pq \in Seq(Nat)
    BY ConcatProperties
  <1>2. Append(q, x) = q \o z /\ Append(pq, x) = pq \o z
    BY <1>1, AppendIsConcat
  <1> HIDE DEF z
  <1>3. (p \o q) \o z = p \o (q \o z)
    BY <1>1, JoinedAgain
  <1> QED
    BY <1>2, <1>3

(* The text of two runs of lines is that of the one and of the other.      *)
LEMMA TextsJoin ==
    ASSUME NEW p \in Seq(Nat), NEW q \in Seq(Nat)
    PROVE  Texts(p \o q) = Texts(p) \o Texts(q)
  <1> DEFINE n == Len(q)
             part(i) == SubSeq(q, 1, i)
             Fine(i) == Texts(p \o part(i)) = Texts(p) \o Texts(part(i))
             Bad == {i \in 0..n : ~Fine(i)}
  <1>1. n \in Nat /\ \A i \in 1..n : q[i] \in Nat
    OBVIOUS
  <1>2. part(0) = <<>> /\ part(n) = q
    BY <1>1, SubSeqEmpty, SubSeqFull
  <1>3. \A i \in 0..n : part(i) \in Seq(Nat)
    <2> SUFFICES ASSUME NEW i \in 0..n PROVE part(i) \in Seq(Nat)
      OBVIOUS
    <2>1. i \in Int /\ 1 \in Int /\ \A k \in 1..i : q[k] \in Nat
      BY <1>1
    <2> QED
      BY <2>1, SubSeqProperties
  <1>4. \A i \in 1..n : part(i) = Append(part(i - 1), q[i])
    <2> SUFFICES ASSUME NEW i \in 1..n PROVE part(i) = Append(part(i - 1), q[i])
      OBVIOUS
    <2>1. part(i) = part(i - 1) \o <<q[i]>>
      <3>1. 1 \in 1..Len(q) /\ i \in 1..Len(q)
        BY <1>1
      <3> QED
        BY <3>1, SubSeqRecursiveSecond
    <2>2. part(i - 1) \in Seq(Nat) /\ q[i] \in Nat
      <3>1. i - 1 \in 0..n
        BY <1>1
      <3> QED
        BY <1>1, <1>3, <3>1
    <2> HIDE DEF part
    <2> QED
      BY <2>1, <2>2, AppendIsConcat
  <1> HIDE DEF part
  <1>5. Texts(p) \in Seq(Nat) /\ \A i \in 0..n : Texts(part(i)) \in Seq(Nat)
    BY <1>3, TextsType
  <1>6. Fine(0)
    <2>1. p \o part(0) = p /\ Texts(p) \o <<>> = Texts(p)
      BY <1>2, <1>5, ConcatEmptySeq
    <2> QED
      BY <1>2, <2>1, TextsOfNone
  <1>7. ASSUME NEW i \in 1..n, Fine(i - 1) PROVE Fine(i)
    <2> DEFINE a == part(i - 1)  x == q[i]  pa == p \o a
    <2>1. a \in Seq(Nat) /\ x \in Nat /\ pa \in Seq(Nat)
      <3>1. i - 1 \in 0..n
        BY <1>1
      <3>2. a \in Seq(Nat)
        BY <1>3, <3>1
      <3> QED
        BY <1>1, <3>2, ConcatProperties
    <2>2. part(i) = Append(a, x)
      BY <1>4
    <2>3. p \o Append(a, x) = Append(pa, x)
      BY <2>1, JoinMore
    <2>4. Texts(pa) = Texts(p) \o Texts(a)
      BY <1>7
    <2> HIDE DEF a, x, pa
    <2>5. Texts(a) \in Seq(Nat)
      BY <2>1, TextsType
    <2>6. /\ Texts(Append(pa, x)) = IF x = 0 THEN Texts(pa) ELSE Append(Texts(pa), x)
          /\ Texts(Append(a, x)) = IF x = 0 THEN Texts(a) ELSE Append(Texts(a), x)
      BY <2>1, TextsOfMore
    <2>7. Texts(p) \o Append(Texts(a), x) = Append(Texts(p) \o Texts(a), x)
      BY <1>5, <2>1, <2>5, JoinMore
    <2>8. Texts(p \o Append(a, x)) = Texts(p) \o Texts(Append(a, x))
      BY <2>3, <2>4, <2>6, <2>7
    <2> QED
      BY <2>2, <2>8
  <1>8. Bad = {}
    <2> SUFFICES ASSUME Bad # {} PROVE FALSE
      OBVIOUS
    <2>0. Bad \subseteq Nat
      BY <1>1
    <2>1. PICK i \in Bad : \A k \in Bad : i <= k
      BY <2>0, LeastMember, Zenon
    <2>2. i \in 0..n /\ ~Fine(i)
      BY <2>1
    <2>3. i # 0
      BY <1>6, <2>2
    <2>4. i \in 1..n /\ i - 1 \in 0..n /\ ~(i <= i - 1)
      BY <1>1, <2>2, <2>3
    <2> HIDE DEF Fine
    <2>5. i - 1 \notin Bad
      BY <2>1, <2>4
    <2>6. Fine(i - 1)
      BY <2>4, <2>5
    <2> QED
      BY <1>7, <2>2, <2>4, <2>6
  <1>9. n \in 0..n
    BY <1>1
  <1> QED
    BY <1>2, <1>8, <1>9

LEMMA TextsOfOne == Texts(<<0>>) = <<>>
  <1>1. <<>> \in Seq(Nat) /\ 0 \in Nat /\ <<0>> = Append(<<>>, 0)
    OBVIOUS
  <1>2. Texts(Append(<<>>, 0)) = Texts(<<>>)
    BY <1>1, TextsOfMore
  <1> QED
    BY <1>1, <1>2, TextsOfNone
-----------------------------------------------------------------------------
(* What becomes of the text of the main screen and the scrollback.         *)
MainLines(s) == IF s.which = 0 THEN s.screen ELSE s.alt

(* From s to x text is lost at its beginning only, and only if the         *)
(* scrollback is full then.                                                *)
KeepsText(s, x) ==
    /\ Len(s.sb) <= Len(x.sb) /\ x.savelines = s.savelines
    /\ \E g \in Seq(Nat) : /\ MainText(s) = g \o MainText(x)
                           /\ g = <<>> \/ Len(x.sb) = x.savelines

Saves(s, x) == Well(s) /\ Well(x) /\ KeepsText(s, x)

LEMMA MainTextType ==
    ASSUME NEW s, Well(s)
    PROVE  /\ s.sb \in Seq(Nat) /\ MainLines(s) \in Seq(Nat) /\ MainText(s) \in Seq(Nat)
           /\ MainText(s) = Texts(s.sb) \o Texts(MainLines(s))
  <1>1. s.sb \in Seq(Nat) /\ MainLines(s) \in Seq(Nat)
    BY DEF Well, Terminals, MainLines
  <1>2. MainText(s) = Texts(s.sb \o MainLines(s))
    BY DEF MainText, MainLines
  <1>3. s.sb \o MainLines(s) \in Seq(Nat)
    BY <1>1, Joined
  <1> QED
    BY <1>1, <1>2, <1>3, TextsType, TextsJoin

LEMMA SavesOn ==
    ASSUME NEW s, NEW x, NEW y, Saves(s, x), Saves(x, y)
    PROVE  Saves(s, y)
  <1>1. /\ Len(s.sb) \in Nat /\ Len(x.sb) \in Nat /\ Len(y.sb) \in Nat
        /\ MainText(y) \in Seq(Nat)
    <2>1. Well(s) /\ Well(x) /\ Well(y)
      BY DEF Saves
    <2>2. /\ s.sb \in Seq(Nat) /\ x.sb \in Seq(Nat) /\ y.sb \in Seq(Nat)
          /\ MainText(y) \in Seq(Nat)
      BY <2>1, MainTextType
    <2> QED
      BY <2>2
  <1>2. /\ Len(s.sb) <= Len(x.sb) /\ x.savelines = s.savelines
        /\ Len(x.sb) <= Len(y.sb) /\ y.savelines = x.savelines
        /\ Len(y.sb) <= y.savelines /\ s.savelines \in Nat
    BY DEF Saves, KeepsText, Well, Buffers, Terminals
  <1>3. PICK g \in Seq(Nat) : /\ MainText(s) = g \o MainText(x)
                              /\ g = <<>> \/ Len(x.sb) = x.savelines
    BY DEF Saves, KeepsText
  <1>4. PICK h \in Seq(Nat) : /\ MainText(x) = h \o MainText(y)
                              /\ h = <<>> \/ Len(y.sb) = y.savelines
    BY DEF Saves, KeepsText
  <1> DEFINE k == g \o h
  <1>5. k \in Seq(Nat) /\ MainText(s) = k \o MainText(y)
    <2> DEFINE a == MainText(y)
    <2>1. /\ a \in Seq(Nat) /\ g \in Seq(Nat) /\ h \in Seq(Nat)
          /\ MainText(s) = g \o (h \o a)
      BY <1>1, <1>3, <1>4
    <2> HIDE DEF a
    <2>2. k \in Seq(Nat)
      BY <2>1, Joined
    <2>3. (g \o h) \o a = g \o (h \o a)
      BY <2>1, JoinedAgain
    <2> QED
      BY <2>1, <2>2, <2>3 DEF a
  <1>6. k = <<>> \/ Len(y.sb) = y.savelines
    <2>1. CASE g = <<>> /\ h = <<>>
      <3>1. <<>> \in Seq(Nat)
        OBVIOUS
      <3>2. k = <<>>
        BY <2>1, <3>1, ConcatEmptySeq
      <3> QED
        BY <3>2
    <2>2. CASE ~(g = <<>>)
      <3>1. Len(x.sb) = x.savelines
        BY <1>3, <2>2
      <3> QED
        BY <1>1, <1>2, <3>1
    <2>3. CASE ~(h = <<>>)
      BY <1>4, <2>3
    <2> QED
      BY <2>1, <2>2, <2>3
  <1> HIDE DEF k
  <1>7. Len(s.sb) <= Len(y.sb) /\ y.savelines = s.savelines
    BY <1>1, <1>2
  <1> QED
    BY <1>5, <1>6, <1>7 DEF Saves, KeepsText

(* An operation that leaves the main screen and the scrollback alone.      *)
LEMMA LeftAlone ==
    ASSUME NEW s, Well(s), NEW x, Well(x), x.sb = s.sb, MainLines(x) = MainLines(s),
           x.savelines = s.savelines
    PROVE  Saves(s, x)
  <1>1. /\ MainText(s) = MainText(x) /\ MainText(x) \in Seq(Nat) /\ Len(s.sb) \in Nat
        /\ <<>> \in Seq(Nat)
    <2>1. MainText(s) = MainText(x)
      BY DEF MainText, MainLines
    <2>2. MainText(x) \in Seq(Nat) /\ s.sb \in Seq(Nat)
      BY MainTextType
    <2>3. <<>> \in Seq(Nat) /\ (s.sb \in Seq(Nat) => Len(s.sb) \in Nat)
      OBVIOUS
    <2> QED
      BY <2>1, <2>2, <2>3
  <1>2. MainText(s) = <<>> \o MainText(x)
    <2> DEFINE a == MainText(x)
    <2>1. a \in Seq(Nat)
      BY <1>1
    <2> HIDE DEF a
    <2>2. <<>> \o a = a
      BY <2>1, ConcatEmptySeq
    <2> QED
      BY <1>1, <2>2 DEF a
  <1>3. Len(s.sb) <= Len(x.sb)
    BY <1>1
  <1>4. \E g \in Seq(Nat) : /\ MainText(s) = g \o MainText(x)
                            /\ g = <<>> \/ Len(x.sb) = x.savelines
    BY <1>1, <1>2
  <1> QED
    BY <1>3, <1>4 DEF Saves, KeepsText

LEMMA SavesItself ==
    ASSUME NEW s, Well(s)
    PROVE  Saves(s, s)
  BY LeftAlone

(* The first line of the screen leaves it, an empty one comes in.          *)
LEMMA FirstLineOut ==
    ASSUME NEW q \in Seq(Nat), NEW j \in 1..Len(q)
    PROVE  LET r == InsertAt(RemoveAt(q, 1), j, 0)
           IN  r \in Seq(Nat) /\ Texts(q) = Texts(<<q[1]>>) \o Texts(r)
  <1> DEFINE n == Len(q)  x == q[1]  z == <<x>>
             tl == SubSeq(q, 2, n)
             d == RemoveAt(q, 1)
             a == SubSeq(d, 1, j - 1)  b == SubSeq(d, j, n - 1)
             o == <<0>>
             r == InsertAt(d, j, 0)
  <1>1. n \in Nat /\ j \in 1..n /\ x \in Nat
    <2>1. n \in Nat /\ j \in 1..n
      OBVIOUS
    <2>2. 1 \in 1..Len(q)
      BY <2>1
    <2> QED
      BY <2>1, <2>2, ElementOfSeq
  <1>2. d \in Seq(Nat) /\ Len(d) = n - 1
    <2>1. 1 \in 1..Len(q)
      BY <1>1
    <2> QED
      BY <2>1, Removed
  <1>3. q = z \o d
    <2>1. 1 \in 1..Len(q) /\ Len(q) \in 1..Len(q)
      BY <1>1
    <2>2. SubSeq(q, 1, n) = <<q[1]>> \o SubSeq(q, 1 + 1, n)
      BY <2>1, SubSeqRecursiveFirst
    <2>3. SubSeq(q, 1, n) = q
      BY SubSeqFull
    <2>4. tl \in Seq(Nat)
      <3>1. \A k \in 2..n : q[k] \in Nat
        BY ElementOfSeq
      <3>2. n \in Int /\ 2 \in Int
        BY <1>1
      <3> HIDE DEF n
      <3> QED
        BY <3>1, <3>2, SubSeqProperties
    <2>5. d = <<>> \o tl
      <3>1. SubSeq(q, 1, 1 - 1) = <<>>
        BY SubSeqEmpty
      <3> QED
        BY <3>1 DEF RemoveAt
    <2> HIDE DEF d
    <2>6. d = tl
      BY <2>4, <2>5, ConcatEmptySeq
    <2> QED
      BY <2>2, <2>3, <2>6
  <1> HIDE DEF d
  <1>4. a \in Seq(Nat) /\ b \in Seq(Nat) /\ d = a \o b
    <2> DEFINE m == Len(d)
    <2>1. m = n - 1 /\ m \in Nat /\ j - 1 \in 0..m /\ m \in (j - 1)..m
      BY <1>1, <1>2
    <2> HIDE DEF n
    <2>2. SubSeq(d, 1, j - 1) \o SubSeq(d, j - 1 + 1, m) = SubSeq(d, 1, m)
      <3> DEFINE k == j - 1
      <3>1. 1 \in 1..(Len(d) + 1) /\ k \in (1 - 1)..Len(d) /\ m \in k..Len(d)
        BY <2>1
      <3> HIDE DEF k, m
      <3>2. SubSeq(d, 1, k) \o SubSeq(d, k + 1, m) = SubSeq(d, 1, m)
        BY <1>2, <3>1, ConcatAdjacentSubSeq
      <3> QED
        BY <3>2 DEF k
    <2>3. SubSeq(d, 1, m) = d
      BY <1>2, SubSeqFull
    <2>4. j - 1 + 1 = j
      BY <1>1
    <2>5. d = a \o b
      BY <2>1, <2>2, <2>3, <2>4
    <2>6. \A k \in 1..m : d[k] \in Nat
      BY <1>2, ElementOfSeq
    <2>7. (\A k \in 1..(j - 1) : d[k] \in Nat) /\ \A k \in j..(n - 1) : d[k] \in Nat
      <3> HIDE DEF m
      <3> QED
        BY <1>1, <2>1, <2>6
    <2>8. a \in Seq(Nat) /\ b \in Seq(Nat)
      <3>1. 1 \in Int /\ j - 1 \in Int /\ j \in Int /\ n - 1 \in Int
        BY <1>1
      <3> QED
        BY <2>7, <3>1, SubSeqProperties
    <2> QED
      BY <2>5, <2>8
  <1>5. r = (a \o o) \o b
    BY <1>2 DEF InsertAt
  <1>6. z \in Seq(Nat) /\ o \in Seq(Nat)
    BY <1>1
  <1> HIDE DEF a, b, o, r, z
  <1> DEFINE ao == a \o o
  <1>7. ao \in Seq(Nat) /\ r \in Seq(Nat)
    BY <1>4, <1>5, <1>6, Joined
  <1>8. Texts(o) = <<>>
    BY TextsOfOne DEF o
  <1>9. Texts(ao) = Texts(a)
    <2>1. Texts(a) \in Seq(Nat) /\ Texts(ao) = Texts(a) \o Texts(o)
      BY <1>4, <1>6, TextsType, TextsJoin
    <2> QED
      BY <1>8, <2>1, ConcatEmptySeq
  <1>10. Texts(r) = Texts(d)
    <2>1. Texts(r) = Texts(ao) \o Texts(b)
      BY <1>4, <1>5, <1>7, TextsJoin
    <2>2. Texts(d) = Texts(a) \o Texts(b)
      BY <1>4, TextsJoin
    <2> QED
      BY <1>9, <2>1, <2>2
  <1>11. Texts(q) = Texts(z) \o Texts(d)
    BY <1>2, <1>3, <1>6, TextsJoin
  <1> QED
    BY <1>7, <1>10, <1>11 DEF r, z, d

(* A line goes to the scrollback, the oldest one is dropped if it is full. *)
LEMMA LineGoesUp ==
    ASSUME NEW s, Well(s), NEW line \in Nat
    PROVE  LET x == IF s.savelines > 0 THEN ToScrollback(s, line) ELSE s
           IN  \E g \in Seq(Nat) : /\ Texts(s.sb) \o Texts(<<line>>) = g \o Texts(x.sb)
                                   /\ g = <<>> \/ Len(x.sb) = s.savelines
                                   /\ x.sb \in Seq(Nat) /\ Len(s.sb) <= Len(x.sb)
  <1> DEFINE z == <<line>>
             x == IF s.savelines > 0 THEN ToScrollback(s, line) ELSE s
             full == Len(s.sb) = s.savelines
             older == IF full THEN Tail(s.sb) ELSE s.sb
  <1>1. /\ s \in Terminals /\ s.sb \in Seq(Nat) /\ Len(s.sb) \in Nat /\ s.savelines \in Nat
        /\ Len(s.sb) <= s.savelines
    BY DEF Well, Terminals, Buffers
  <1>2. /\ z \in Seq(Nat) /\ Texts(z) \in Seq(Nat) /\ Texts(s.sb) \in Seq(Nat)
        /\ <<>> \in Seq(Nat)
    <2>1. z \in Seq(Nat) /\ <<>> \in Seq(Nat)
      OBVIOUS
    <2> HIDE DEF z
    <2> QED
      BY <1>1, <2>1, TextsType
  <1>3. s.savelines > 0 => x.sb = Append(older, line)
    BY <1>1 DEF ToScrollback, Terminals
  <1>4. ~(s.savelines > 0) => x.sb = s.sb
    OBVIOUS
  <1>5. CASE s.savelines > 0 /\ ~full
    <2>1. x.sb = Append(s.sb, line)
      BY <1>3, <1>5
    <2> HIDE DEF x
    <2>2. Append(s.sb, line) = s.sb \o z
      BY <1>1, AppendIsConcat
    <2>3. x.sb \in Seq(Nat) /\ Len(x.sb) = Len(s.sb) + 1
      BY <1>1, <2>1, AppendProperties
    <2> HIDE DEF z
    <2>4. Texts(x.sb) = Texts(s.sb) \o Texts(z)
      BY <1>1, <1>2, <2>1, <2>2, TextsJoin
    <2>5. Texts(x.sb) \in Seq(Nat)
      BY <2>3, TextsType
    <2>6. <<>> \o Texts(x.sb) = Texts(x.sb)
      BY <2>5, ConcatEmptySeq
    <2>7. Len(s.sb) <= Len(x.sb)
      BY <1>1, <2>3
    <2> QED
      BY <1>2, <2>3, <2>4, <2>6, <2>7 DEF x, z
  <1>6. CASE s.savelines > 0 /\ full
    <2> DEFINE h == Head(s.sb)  hd == <<h>>  tl == Tail(s.sb)
    <2>1. x.sb = Append(tl, line)
      BY <1>3, <1>6
    <2> HIDE DEF x
    <2>2. s.sb # <<>>
      BY <1>1, <1>6
    <2>3. h \in Nat /\ tl \in Seq(Nat) /\ Len(tl) = Len(s.sb) - 1
      BY <1>1, <2>2, HeadTailProperties
    <2>4. s.sb = hd \o tl
      <3>1. 1 \in 1..Len(s.sb) /\ Len(s.sb) \in 1..Len(s.sb)
        BY <1>1, <1>6
      <3>2. SubSeq(s.sb, 1, Len(s.sb)) = <<s.sb[1]>> \o SubSeq(s.sb, 1 + 1, Len(s.sb))
        BY <1>1, <3>1, SubSeqRecursiveFirst
      <3>3. SubSeq(s.sb, 1, Len(s.sb)) = s.sb
        BY <1>1, SubSeqFull
      <3>4. tl = SubSeq(s.sb, 2, Len(s.sb))
        BY <1>1, <2>2, TailIsSubSeq
      <3>5. h = s.sb[1]
        OBVIOUS
      <3> QED
        BY <3>2, <3>3, <3>4, <3>5
    <2>5. hd \in Seq(Nat)
      BY <2>3
    <2> HIDE DEF h, hd, tl
    <2>6. Append(tl, line) = tl \o z
      BY <2>3, AppendIsConcat
    <2>7. x.sb \in Seq(Nat) /\ Len(x.sb) = Len(s.sb)
      <3>1. Append(tl, line) \in Seq(Nat) /\ Len(Append(tl, line)) = Len(tl) + 1
        BY <2>3, AppendProperties
      <3> QED
        BY <1>1, <2>1, <2>3, <3>1
    <2> HIDE DEF z
    <2>8. Texts(x.sb) = Texts(tl) \o Texts(z)
      <3>1. x.sb = tl \o z
        BY <2>1, <2>6
      <3>2. Texts(tl \o z) = Texts(tl) \o Texts(z)
        BY <1>2, <2>3, TextsJoin
      <3> QED
        BY <3>1, <3>2
    <2>9. Texts(s.sb) = Texts(hd) \o Texts(tl)
      BY <2>3, <2>4, <2>5, TextsJoin
    <2>10. Texts(hd) \in Seq(Nat) /\ Texts(tl) \in Seq(Nat)
      BY <2>3, <2>5, TextsType
    <2>11. Texts(s.sb) \o Texts(z) = Texts(hd) \o Texts(x.sb)
      <3> DEFINE a == Texts(hd)  b == Texts(tl)  c == Texts(z)
      <3>1. a \in Seq(Nat) /\ b \in Seq(Nat) /\ c \in Seq(Nat)
        BY <1>2, <2>10
      <3> HIDE DEF a, b, c
      <3>2. (a \o b) \o c = a \o (b \o c)
        BY <3>1, JoinedAgain
      <3> QED
        BY <2>8, <2>9, <3>2 DEF a, b, c
    <2>12. Len(s.sb) <= Len(x.sb) /\ Len(x.sb) = s.savelines
      BY <1>1, <1>6, <2>7
    <2> QED
      BY <2>7, <2>10, <2>11, <2>12 DEF x, z
  <1>7. CASE ~(s.savelines > 0)
    <2>1. x.sb = s.sb
      BY <1>4, <1>7
    <2> HIDE DEF x
    <2>2. s.savelines = 0 /\ Len(s.sb) = 0
      BY <1>1, <1>7
    <2>3. s.sb = <<>>
      BY <1>1, <2>2
    <2> HIDE DEF z
    <2>4. Texts(s.sb) \o Texts(z) = Texts(z) /\ Texts(z) \o Texts(x.sb) = Texts(z)
      BY <1>2, <2>1, <2>3, TextsOfNone, ConcatEmptySeq
    <2> QED
      BY <1>1, <1>2, <2>1, <2>2, <2>4 DEF x, z
  <1> QED
    BY <1>5, <1>6, <1>7

(* One turn of scroll's loop from the top of the screen.                   *)
LEMMA ForwardSaves ==
    ASSUME NEW s, Well(s), NEW bot, Region(s, 0, bot), NEW keep \in BOOLEAN,
           keep <=> s.which = 0
    PROVE  Saves(s, ScrollForward(s, 0, bot, keep))
  <1> DEFINE x == ScrollForward(s, 0, bot, keep)
             line == s.screen[1]
             j == bot + 1
             r == InsertAt(RemoveAt(s.screen, 1), j, 0)
  <1>1. /\ s \in Terminals /\ s.screen \in Seq(Nat) /\ Len(s.screen) = s.rows /\ s.rows \in Nat
        /\ s.sb \in Seq(Nat) /\ s.which \in {0, 1}
    BY DEF Well, Terminals, Buffers
  <1>2. Well(x) /\ Same(s, x) /\ x.which = s.which
    BY ScrollForwardFollows DEF Follows
  <1>3. j \in 1..Len(s.screen) /\ line \in Nat
    BY <1>1 DEF Region
  <1>4. 0 + 1 = 1
    OBVIOUS
  <1>5. CASE s.which = 1
    <2>1. x = [s EXCEPT !.screen = r]
      BY <1>4, <1>5 DEF ScrollForward
    <2> HIDE DEF r
    <2>2. x.sb = s.sb /\ x.alt = s.alt
      BY <1>1, <2>1 DEF Terminals
    <2> HIDE DEF x
    <2>3. MainLines(x) = MainLines(s)
      BY <1>2, <1>5, <2>2 DEF MainLines
    <2>4. Saves(s, x)
      BY <1>2, <2>2, <2>3, LeftAlone DEF Same
    <2> QED
      BY <2>4 DEF x
  <1>6. CASE s.which = 0
    <2> DEFINE y == IF s.savelines > 0 THEN ToScrollback(s, line) ELSE s
    <2>1. /\ r \in Seq(Nat)
          /\ Texts(s.screen) = Texts(<<line>>) \o Texts(r)
      BY <1>1, <1>3, FirstLineOut
    <2>2. x = [y EXCEPT !.screen = InsertAt(RemoveAt(@, 1), j, 0)]
      BY <1>4, <1>6 DEF ScrollForward
    <2>3. y \in Terminals /\ y.screen = s.screen
      <3>1. CASE s.savelines > 0
        <4> DEFINE z == ToScrollback(s, line)
        <4> HIDE DEF line
        <4>1. Follows(s, z, s.which) /\ z.screen = s.screen
          BY <1>3, <1>6, <3>1, ToScrollbackFollows, ScrollbackLines
        <4> QED
          BY <3>1, <4>1 DEF Follows, Well
      <3>2. CASE ~(s.savelines > 0)
        BY <1>1, <3>2
      <3> QED
        BY <3>1, <3>2
    <2>4. PICK g \in Seq(Nat) : /\ Texts(s.sb) \o Texts(<<line>>) = g \o Texts(y.sb)
                                /\ g = <<>> \/ Len(y.sb) = s.savelines
                                /\ y.sb \in Seq(Nat) /\ Len(s.sb) <= Len(y.sb)
      BY <1>3, LineGoesUp
    <2>5. x.sb = y.sb /\ x.screen = r
      <3> HIDE DEF y
      <3> QED
        BY <2>2, <2>3 DEF Terminals
    <2> HIDE DEF r, x, y
    <2>6. Texts(r) \in Seq(Nat) /\ Texts(y.sb) \in Seq(Nat) /\ Texts(s.sb) \in Seq(Nat)
          /\ Texts(<<line>>) \in Seq(Nat)
      <3>1. <<line>> \in Seq(Nat)
        BY <1>3
      <3> QED
        BY <1>1, <2>1, <2>4, <3>1, TextsType
    <2> DEFINE a == Texts(s.sb)  b == Texts(<<line>>)  c == Texts(r)  d == Texts(y.sb)
    <2>7. MainText(s) = a \o (b \o c) /\ MainText(x) = d \o c
      <3>1. MainText(s) = Texts(s.sb) \o Texts(s.screen)
        BY <1>6, MainTextType DEF MainLines
      <3>2. MainText(x) = Texts(x.sb) \o Texts(x.screen)
        BY <1>2, <1>6, MainTextType DEF MainLines
      <3> QED
        BY <2>1, <2>5, <3>1, <3>2
    <2>8. a \o b = g \o d /\ a \in Seq(Nat) /\ b \in Seq(Nat) /\ c \in Seq(Nat) /\ d \in Seq(Nat)
      BY <2>4, <2>6
    <2> HIDE DEF a, b, c, d
    <2>9. MainText(s) = g \o MainText(x)
      <3>1. (a \o b) \o c = a \o (b \o c)
        BY <2>8, JoinedAgain
      <3>2. (g \o d) \o c = g \o (d \o c)
        BY <2>8, JoinedAgain
      <3> QED
        BY <2>7, <2>8, <3>1, <3>2
    <2>10. KeepsText(s, x)
      BY <1>2, <2>4, <2>5, <2>9 DEF KeepsText, Same
    <2> QED
      BY <1>2, <2>10 DEF Saves, x
  <1> QED
    BY <1>1, <1>5, <1>6

LEMMA scrollSaves ==
    ASSUME NEW s, Well(s), NEW bot, Region(s, 0, bot), NEW lines \in Nat
    PROVE  Saves(s, scroll(s, 0, bot, lines, TRUE))
  <1> DEFINE size == bot - 0 + 1
             keep == s.which = 0
             n == Min({lines, size})
             V == {x \in Terminals : Holds(s, x) /\ Saves(s, x)}
  <1>1. n \in Nat
    <2>1. size \in Nat
      BY DEF Region
    <2> QED
      BY <2>1, MinOfTwo
  <1>2. s \in V
    BY HoldsItself, SavesItself DEF Well
  <1>3. ASSUME NEW x \in V PROVE ScrollForward(x, 0, bot, keep) \in V
    <2> DEFINE y == ScrollForward(x, 0, bot, keep)
    <2>1. x \in Terminals /\ Holds(s, x) /\ Saves(s, x)
      OBVIOUS
    <2>2. Well(x) /\ x.rows = s.rows /\ x.which = s.which
      BY <2>1 DEF Holds, Follows, Same
    <2>3. Region(x, 0, bot) /\ keep \in BOOLEAN /\ (keep <=> x.which = 0)
      BY <2>2 DEF Region
    <2> HIDE DEF keep
    <2>4. Holds(x, y) /\ Saves(x, y)
      BY <2>2, <2>3, ScrollForwardHolds, ForwardSaves
    <2> HIDE DEF y
    <2>5. Holds(s, y) /\ Saves(s, y)
      BY <2>1, <2>4, HoldsOn, SavesOn
    <2> QED
      BY <2>5 DEF Holds, Follows, Well, y
  <1>4. scroll(s, 0, bot, lines, TRUE) = ForwardTimes(s, 0, bot, keep, n)
    <2>1. ~(lines < 0)
      OBVIOUS
    <2>2. (TRUE /\ 0 = 0 /\ s.which = 0) = keep
      OBVIOUS
    <2> QED
      BY <2>1, <2>2 DEF scroll, ForwardTimes, Times
  <1> HIDE DEF V, n, keep
  <1>5. ForwardTimes(s, 0, bot, keep, n) \in V
    BY <1>1, <1>2, <1>3, ForwardTurns
  <1> QED
    BY <1>4, <1>5 DEF V

(* Erasing the screen with erase_to_scrollback.                            *)
LEMMA EraseAllSaves ==
    ASSUME NEW s, Well(s), s.set.e2s
    PROVE  Saves(s, EraseAll(s))
  <1> DEFINE n == find_last_nonempty_line(s.screen) + 1
             x == IF n > 0 THEN scroll(s, 0, n - 1, n, TRUE) ELSE s
             y == [x EXCEPT !.temps = 0]
  <1>1. s.screen \in Seq(Nat) /\ Len(s.screen) = s.rows /\ s.rows \in Nat
    BY DEF Well, Terminals, Buffers
  <1>2. n \in 0..s.rows
    BY <1>1, LastNonempty
  <1>3. EraseAll(s) = IF s.which = 0 THEN y ELSE x
    BY DEF EraseAll
  <1>4. Saves(s, x)
    <2> HIDE DEF n
    <2>1. CASE n > 0
      <3> DEFINE bot == n - 1
      <3>1. Region(s, 0, bot) /\ n \in Nat
        BY <1>1, <1>2, <2>1 DEF Region
      <3> HIDE DEF bot
      <3>2. Saves(s, scroll(s, 0, bot, n, TRUE))
        BY <3>1, scrollSaves
      <3> QED
        BY <2>1, <3>2 DEF bot
    <2>2. CASE ~(n > 0)
      BY <2>2, SavesItself
    <2> QED
      BY <2>1, <2>2
  <1> HIDE DEF x, n
  <1>5. Well(x) /\ x \in Terminals
    BY <1>4 DEF Saves, Well
  <1>6. Well(y)
    BY <1>5, TempsHold DEF Holds, Follows
  <1>7. /\ y.sb = x.sb /\ y.which = x.which /\ y.screen = x.screen /\ y.alt = x.alt
        /\ y.savelines = x.savelines
    BY <1>5 DEF Terminals
  <1> HIDE DEF y
  <1>8. MainLines(y) = MainLines(x)
    BY <1>7 DEF MainLines
  <1>9. Saves(x, y)
    BY <1>5, <1>6, <1>7, <1>8, LeftAlone
  <1> QED
    BY <1>3, <1>4, <1>9, SavesOn

(* The main screen stays what it was when the screens change.              *)
LEMMA swap_screenSaves ==
    ASSUME NEW s, Well(s), s.set.e2s, NEW which \in {0, 1},
           NEW reset \in BOOLEAN, NEW keep \in BOOLEAN
    PROVE  Saves(s, swap_screen(s, which, reset, keep))
  <1> DEFINE r == reset /\ which = 1
             e == Exchanged(s, which, r, keep)
             s1 == IF which # s.which THEN e ELSE s
             x == swap_screen(s, which, reset, keep)
  <1>1. x = IF r THEN EraseAll(s1) ELSE s1
    BY DEF swap_screen
  <1>2. r \in BOOLEAN /\ s.which \in {0, 1}
    BY DEF Well, Terminals
  <1> HIDE DEF r, x
  <1>3. Saves(s, s1) /\ s1.set = s.set
    <2>1. CASE which # s.which
      <3>1. /\ Well(e) /\ Same(s, e) /\ e.which = which
            /\ e.sb = s.sb /\ e.screen = s.alt /\ e.alt = s.screen
        BY <1>2, <2>1, ExchangedFollows
      <3> HIDE DEF e
      <3>2. MainLines(e) = MainLines(s)
        BY <1>2, <2>1, <3>1 DEF MainLines
      <3>3. Saves(s, e)
        BY <3>1, <3>2, LeftAlone DEF Same
      <3> QED
        BY <2>1, <3>1, <3>3 DEF Same
    <2>2. CASE which = s.which
      BY <2>2, SavesItself
    <2> QED
      BY <2>1, <2>2
  <1> HIDE DEF s1
  <1>4. Saves(s1, EraseAll(s1))
    BY <1>3, EraseAllSaves DEF Saves
  <1>5. Saves(s, x)
    BY <1>1, <1>3, <1>4, SavesOn
  <1> QED
    BY <1>5 DEF x

LEMMA power_onSaves ==
    ASSUME NEW s, Well(s), s.set.e2s, s.which = 0, NEW clear \in BOOLEAN
    PROVE  Saves(s, power_on(s, clear))
  <1> DEFINE s1 == PoweredOn(s)
             a == swap_screen(s1, 1, FALSE, FALSE)
             b == EraseAll(a)
             s2 == swap_screen(b, 0, FALSE, FALSE)
             s3 == IF clear THEN EraseAll(s2) ELSE s2
             y == find_last_nonempty_line(s3.screen) + 1
             p == [s3 EXCEPT !.y = y - 1]
             z == [s3 EXCEPT !.y = y]
             x == power_on(s, clear)
  <1>0. FALSE \in BOOLEAN /\ TRUE \in BOOLEAN /\ 0 \in {0, 1} /\ 1 \in {0, 1}
    OBVIOUS
  <1>1. x = IF y = s.rows THEN scroll(p, 0, s.rows - 1, 1, TRUE) ELSE z
    BY DEF power_on, PoweredOn
  <1>2. Well(s1) /\ Same(s, s1) /\ s1.which = 0 /\ Saves(s, s1)
    <2>1. Well(s1) /\ Same(s, s1) /\ s1.which = 0
      BY PoweredOnWell
    <2>2. s1.sb = s.sb /\ s1.screen = s.screen
      BY DEF Well, Terminals, PoweredOn
    <2> HIDE DEF s1
    <2>3. MainLines(s1) = MainLines(s)
      BY <2>1, <2>2 DEF MainLines
    <2> QED
      BY <2>1, <2>2, <2>3, LeftAlone DEF Same
  <1> HIDE DEF s1, x
  <1>3. Follows(s1, a, 1) /\ Saves(s1, a)
    BY <1>0, <1>2, swap_screenFollows, swap_screenSaves DEF Same
  <1>4. Well(a) /\ a.set = s.set /\ a.rows = s.rows
    BY <1>2, <1>3 DEF Follows, Same
  <1> HIDE DEF a
  <1>5. Holds(a, b) /\ Saves(a, b)
    BY <1>4, EraseAllHolds, EraseAllSaves
  <1>6. Well(b) /\ b.set = s.set /\ b.rows = s.rows
    BY <1>4, <1>5 DEF Holds, Follows, Same
  <1> HIDE DEF b
  <1>7. Follows(b, s2, 0) /\ Saves(b, s2)
    BY <1>0, <1>6, swap_screenFollows, swap_screenSaves
  <1>8. Well(s2) /\ s2.set = s.set /\ s2.rows = s.rows /\ s2.which = 0
    BY <1>6, <1>7 DEF Follows, Same
  <1> HIDE DEF s2
  <1>9. Holds(s2, s3) /\ Saves(s2, s3)
    BY <1>8, EraseAllHolds, EraseAllSaves, HoldsItself, SavesItself
  <1>10. Saves(s, s3)
    BY <1>2, <1>3, <1>5, <1>7, <1>9, SavesOn
  <1>11. /\ Well(s3) /\ s3.which = 0 /\ s3.rows = s.rows /\ s3.rows \in Nat \ {0}
         /\ s3.screen \in Seq(Nat) /\ Len(s3.screen) = s3.rows
    BY <1>8, <1>9 DEF Holds, Follows, Same, Well, Terminals, Buffers
  <1> HIDE DEF s3
  <1>12. y \in 0..s3.rows
    <2>1. find_last_nonempty_line(s3.screen) \in -1..(Len(s3.screen) - 1)
      BY <1>11, LastNonempty
    <2> QED
      BY <1>11, <2>1
  <1> HIDE DEF y
  <1>13. ASSUME NEW r \in Int, Row(s3, r), NEW q, q = [s3 EXCEPT !.y = r]
         PROVE  Saves(s3, q) /\ Well(q) /\ q.rows = s3.rows
    <2>1. Holds(s3, q)
      BY <1>11, <1>13, CursorHolds
    <2>2. Well(q) /\ Same(s3, q) /\ q.which = s3.which
      BY <2>1 DEF Holds, Follows
    <2>3. q.sb = s3.sb /\ q.screen = s3.screen
      BY <1>11, <1>13 DEF Well, Terminals
    <2>4. MainLines(q) = MainLines(s3)
      BY <1>11, <2>2, <2>3 DEF MainLines
    <2> QED
      BY <1>11, <2>2, <2>3, <2>4, LeftAlone DEF Same
  <1>14. Saves(s3, x)
    <2>1. CASE y = s.rows
      <3>1. y - 1 \in Int /\ Row(s3, y - 1)
        BY <1>11, <1>12, <2>1 DEF Row
      <3>2. Saves(s3, p) /\ Well(p) /\ p.rows = s3.rows
        BY <1>13, <3>1
      <3> HIDE DEF p
      <3> DEFINE bot == s.rows - 1
      <3>3. Region(p, 0, bot) /\ 1 \in Nat
        BY <1>11, <3>2 DEF Region
      <3> HIDE DEF bot
      <3>4. Saves(p, scroll(p, 0, bot, 1, TRUE))
        BY <3>2, <3>3, scrollSaves
      <3>5. x = scroll(p, 0, bot, 1, TRUE)
        BY <1>1, <2>1 DEF bot
      <3> QED
        BY <3>2, <3>4, <3>5, SavesOn
    <2>2. CASE y # s.rows
      <3>1. y \in Int /\ Row(s3, y)
        BY <1>11, <1>12, <2>2 DEF Row
      <3>2. Saves(s3, z)
        BY <1>13, <3>1
      <3> QED
        BY <1>1, <2>2, <3>2
    <2> QED
      BY <2>1, <2>2
  <1> QED
    BY <1>10, <1>14, SavesOn DEF x

(* The view and the cursors are of no account.                             *)
LEMMA ShownSaves ==
    ASSUME NEW s, Well(s)
    PROVE  /\ Saves(s, Shown(s)) /\ Saves(s, [s EXCEPT !.disptop = 0])
           /\ \A save \in BOOLEAN : Saves(s, save_cursor(s, save))
           /\ \A y \in Int, clip \in Int : Saves(s, move(s, y, clip))
  <1>1. ASSUME NEW x, Well(x), x.sb = s.sb, x.screen = s.screen, x.alt = s.alt,
               x.which = s.which, x.savelines = s.savelines
        PROVE  Saves(s, x)
    <2>1. MainLines(x) = MainLines(s)
      BY <1>1 DEF MainLines
    <2> QED
      BY <1>1, <2>1, LeftAlone
  <1>2. Saves(s, [s EXCEPT !.disptop = 0])
    <2> DEFINE x == [s EXCEPT !.disptop = 0]
    <2>1. Well(x)
      BY ViewSet DEF Follows
    <2>2. /\ x.sb = s.sb /\ x.screen = s.screen /\ x.alt = s.alt
          /\ x.which = s.which /\ x.savelines = s.savelines
      BY DEF Well, Terminals
    <2> HIDE DEF x
    <2>3. Saves(s, x)
      BY <1>1, <2>1, <2>2
    <2> QED
      BY <2>3 DEF x
  <1>3. Saves(s, Shown(s))
    BY <1>2, SavesItself DEF Shown
  <1>4. ASSUME NEW save \in BOOLEAN PROVE Saves(s, save_cursor(s, save))
    <2> DEFINE x == save_cursor(s, save)
    <2>1. Well(x)
      BY save_cursorHolds DEF Holds, Follows
    <2>2. /\ x.sb = s.sb /\ x.screen = s.screen /\ x.alt = s.alt
          /\ x.which = s.which /\ x.savelines = s.savelines
      BY DEF Well, Terminals, save_cursor
    <2> HIDE DEF x
    <2>3. Saves(s, x)
      BY <1>1, <2>1, <2>2
    <2> QED
      BY <2>3 DEF x
  <1>5. ASSUME NEW y \in Int, NEW clip \in Int PROVE Saves(s, move(s, y, clip))
    <2> DEFINE x == move(s, y, clip)
    <2>1. Well(x)
      BY moveHolds DEF Holds, Follows
    <2>2. /\ x.sb = s.sb /\ x.screen = s.screen /\ x.alt = s.alt
          /\ x.which = s.which /\ x.savelines = s.savelines
      BY DEF Well, Terminals, move
    <2> HIDE DEF x
    <2>3. Saves(s, x)
      BY <1>1, <2>1, <2>2
    <2> QED
      BY <2>3 DEF x
  <1> QED
    BY <1>2, <1>3, <1>4, <1>5

LEMMA EraseScreenSaves ==
    ASSUME Well(t), t.set.e2s, EraseScreen
    PROVE  Saves(t, t')
  <1>1. PICK s \in {t, move(t, 0, 0)} : t' = Shown(EraseAll(s))
    BY DEF EraseScreen
  <1> DEFINE x == EraseAll(s)
  <1>2. Saves(t, s) /\ Holds(t, s)
    <2>1. 0 \in Int
      OBVIOUS
    <2> QED
      BY <2>1, moveHolds, HoldsItself, ShownSaves, SavesItself
  <1>3. Well(s) /\ s.set.e2s
    BY <1>2 DEF Holds, Follows, Same
  <1>4. Saves(s, x)
    BY <1>3, EraseAllSaves
  <1>5. t' = Shown(x)
    BY <1>1
  <1> HIDE DEF x
  <1>6. Saves(x, t')
    BY <1>4, <1>5, ShownSaves DEF Saves
  <1> QED
    BY <1>2, <1>4, <1>6, SavesOn

LEMMA ColumnModeSaves ==
    ASSUME Well(t), t.set.e2s, ColumnMode
    PROVE  Saves(t, t')
  <1> DEFINE bot == t.rows - 1
             x == [t EXCEPT !.alt_t = 0, !.mt = 0, !.alt_b = bot, !.mb = bot, !.y = 0]
  <1>1. t' = EraseAll(x)
    BY DEF ColumnMode
  <1>2. /\ bot \in Nat /\ bot \in Int /\ 0 <= bot /\ bot < t.rows
        /\ 0 \in Nat /\ 0 \in Int /\ 0 <= 0 /\ Row(t, 0)
    <2>1. t.rows \in Nat \ {0}
      BY DEF Well, Terminals
    <2> QED
      BY <2>1 DEF Row
  <1> HIDE DEF bot
  <1>3. Holds(t, x)
    BY <1>2, MarginsHold
  <1>4. x.sb = t.sb /\ x.screen = t.screen /\ x.alt = t.alt
    BY DEF Well, Terminals
  <1> HIDE DEF x
  <1>5. Well(x) /\ x.set = t.set /\ x.which = t.which /\ x.savelines = t.savelines
    BY <1>3 DEF Holds, Follows, Same
  <1>6. MainLines(x) = MainLines(t)
    BY <1>4, <1>5 DEF MainLines
  <1>7. Saves(t, x)
    BY <1>4, <1>5, <1>6, LeftAlone
  <1>8. Saves(x, t')
    BY <1>1, <1>5, EraseAllSaves
  <1> QED
    BY <1>7, <1>8, SavesOn

LEMMA SwapScreenSaves ==
    ASSUME Well(t), t.set.e2s, SwapScreen
    PROVE  Saves(t, t')
  <1>0. FALSE \in BOOLEAN /\ TRUE \in BOOLEAN
    OBVIOUS
  <1>1. PICK state \in {0, 1} : t' \in {Mode47(state), Mode1047(state), Mode1049(state)}
    BY DEF SwapScreen
  <1> DEFINE which == IF t.set.noalt THEN 0 ELSE state
             s1 == IF state = 1 /\ ~t.set.noalt THEN save_cursor(t, TRUE) ELSE t
             s2 == swap_screen(s1, which, TRUE, FALSE)
             s3 == IF state = 0 /\ ~t.set.noalt THEN save_cursor(s2, FALSE) ELSE s2
  <1>2. which \in {0, 1}
    OBVIOUS
  <1>3. /\ Mode47(state) = Shown(swap_screen(t, which, FALSE, FALSE))
        /\ Mode1047(state) = Shown(swap_screen(t, which, TRUE, TRUE))
        /\ Mode1049(state) = Shown(s3)
    BY DEF Mode47, Mode1047, Mode1049
  <1> HIDE DEF which
  <1>4. Saves(t, s1) /\ Holds(t, s1)
    BY <1>0, save_cursorHolds, HoldsItself, ShownSaves, SavesItself
  <1>5. Well(s1) /\ s1.set.e2s
    BY <1>4 DEF Holds, Follows, Same
  <1> HIDE DEF s1
  <1>6. Saves(s1, s2)
    BY <1>0, <1>2, <1>5, swap_screenSaves
  <1> HIDE DEF s2
  <1>7. Saves(s2, s3)
    BY <1>0, <1>6, ShownSaves, SavesItself DEF Saves
  <1>8. Saves(t, s3)
    BY <1>4, <1>6, <1>7, SavesOn
  <1> HIDE DEF s3
  <1>9. PICK x : Saves(t, x) /\ t' = Shown(x)
    <2>1. /\ Saves(t, swap_screen(t, which, FALSE, FALSE))
          /\ Saves(t, swap_screen(t, which, TRUE, TRUE))
      BY <1>0, <1>2, swap_screenSaves
    <2> QED
      BY <1>1, <1>3, <1>8, <2>1
  <1>10. Saves(x, t')
    BY <1>9, ShownSaves DEF Saves
  <1> QED
    BY <1>9, <1>10, SavesOn

(* A reset on the main screen, by the remote or from the menu.             *)
LEMMA ResetSaves ==
    ASSUME Well(t), t.set.e2s, "reset" \notin Unguarded, Reset \/ term_pwron
    PROVE  Saves(t, t')
  <1>1. t.which = 0
    BY DEF Reset, term_pwron
  <1>2. PICK clear \in BOOLEAN :
          \/ t' = Shown(power_on(t, clear))
          \/ t' = [power_on(t, clear) EXCEPT !.disptop = 0]
    <2>1. TRUE \in BOOLEAN
      OBVIOUS
    <2> QED
      BY <2>1 DEF Reset, term_pwron
  <1> DEFINE x == power_on(t, clear)
  <1>3. Saves(t, x)
    BY <1>1, power_onSaves
  <1>4. t' = Shown(x) \/ t' = [x EXCEPT !.disptop = 0]
    BY <1>2
  <1> HIDE DEF x
  <1>5. Saves(x, t')
    BY <1>3, <1>4, ShownSaves DEF Saves
  <1> QED
    BY <1>3, <1>5, SavesOn

(* What a text ends with.                                                  *)
LEMMA EndIsSuffix ==
    ASSUME NEW a \in Seq(Nat), NEW g \in Seq(Nat)
    PROVE  IsSuffix(a, g \o a)
  <1> DEFINE n == Len(a)  m == Len(g)  b == g \o a  k == m + n
             ra == Reverse(a)  rb == Reverse(b)  rest == SubSeq(rb, 1, n)
  <1>1. /\ n \in Nat /\ m \in Nat
        /\ \A i \in 1..n : a[i] \in Nat
    OBVIOUS
  <1>2. /\ b \in Seq(Nat) /\ Len(b) = k
        /\ \A i \in 1..k : b[i] = IF i <= m THEN g[i] ELSE a[i - m]
    BY ConcatProperties
  <1> HIDE DEF b
  <1>3. \A i \in 1..k : b[i] \in Nat
    BY <1>2, ElementOfSeq
  <1>4. ra = [i \in 1..n |-> a[(n - i) + 1]] /\ rb = [i \in 1..k |-> b[(k - i) + 1]]
    BY <1>2 DEF Reverse
  <1> HIDE DEF n, m, ra, rb
  <1>5. /\ \A i \in 1..n : (n - i) + 1 \in 1..n
        /\ \A i \in 1..k : (k - i) + 1 \in 1..k
        /\ \A i \in 1..n : /\ i \in 1..k /\ ~((k - i) + 1 <= m)
                           /\ ((k - i) + 1) - m = (n - i) + 1
    BY <1>1
  <1>6. ra \in Seq(Nat) /\ Len(ra) = n
    BY <1>1, <1>4, <1>5
  <1>7. k \in Nat /\ rb \in Seq(Nat) /\ Len(rb) = k
    <2>1. k \in Nat
      BY <1>1
    <2> HIDE DEF k
    <2> QED
      BY <1>3, <1>4, <1>5, <2>1
  <1>8. \A i \in 1..n : rb[i] = ra[i]
    <2> SUFFICES ASSUME NEW i \in 1..n PROVE rb[i] = ra[i]
      OBVIOUS
    <2> DEFINE j == (k - i) + 1
    <2>1. i \in 1..k /\ j \in 1..k /\ ~(j <= m) /\ j - m = (n - i) + 1
      BY <1>5
    <2>2. rb[i] = b[j] /\ ra[i] = a[(n - i) + 1]
      BY <1>4, <2>1
    <2> HIDE DEF j, k
    <2> QED
      BY <1>2, <2>1, <2>2
  <1>9. rest \in Seq(Nat) /\ Len(rest) = n /\ \A i \in 1..n : rest[i] = rb[i]
    <2>1. \A i \in 1..n : rb[i] \in Nat
      <3>1. \A i \in 1..n : i \in 1..Len(rb)
        BY <1>5, <1>7
      <3> QED
        BY <1>7, <3>1, ElementOfSeq
    <2>2. 1 \in Int /\ n \in Int /\ (1 <= n \/ n = 0)
      BY <1>1
    <2>3. /\ rest \in Seq(Nat) /\ Len(rest) = IF 1 <= n THEN n - 1 + 1 ELSE 0
          /\ \A i \in 1..(n - 1 + 1) : rest[i] = rb[1 + i - 1]
      BY <2>1, <2>2, SubSeqProperties
    <2> HIDE DEF rest
    <2> QED
      BY <2>2, <2>3
  <1>10. rest = ra
    <2> HIDE DEF rest
    <2> QED
      BY <1>6, <1>8, <1>9, SeqEqual
  <1>11. SubSeq(ra, 1, n) = ra
    BY <1>6, SubSeqFull
  <1>12. n <= k
    BY <1>1
  <1> HIDE DEF k
  <1>13. IsPrefix(ra, rb)
    BY <1>6, <1>7, <1>10, <1>11, <1>12 DEF IsPrefix
  <1> QED
    BY <1>13 DEF IsSuffix, ra, rb, b

(* With erase_to_scrollback, no erasing of the screen, no change of        *)
(* columns, no mode that changes screens and no reset loses text of the    *)
(* main screen but the oldest, and that only when the scrollback is full   *)
(* (erase_lots, swap_screen and power_on with scroll): for any size of the *)
(* window and the scrollback, if no reset comes on the alternate screen,   *)
(* which power_on takes for the main one.                                  *)
THEOREM ErasedTextIsKept ==
    ASSUME "reset" \notin Unguarded
    PROVE  Spec => ErasedIsKept
  <1>1. ASSUME Well(t), t.set.e2s, EraseScreen \/ ColumnMode \/ SwapScreen \/ Reset \/ term_pwron,
               MainText(t') # MainText(t)
        PROVE  IsSuffix(MainText(t'), MainText(t)) /\ Len(t'.sb) = t.savelines
    <2>1. Saves(t, t')
      BY <1>1, EraseScreenSaves, ColumnModeSaves, SwapScreenSaves, ResetSaves
    <2>2. MainText(t') \in Seq(Nat)
      BY <2>1, MainTextType DEF Saves
    <2> DEFINE a == MainText(t')
    <2>3. PICK g \in Seq(Nat) : /\ MainText(t) = g \o a
                                /\ g = <<>> \/ Len(t'.sb) = t'.savelines
      BY <2>1 DEF Saves, KeepsText
    <2>4. t'.savelines = t.savelines
      BY <2>1 DEF Saves, KeepsText
    <2> HIDE DEF a
    <2>5. a \in Seq(Nat)
      BY <2>2 DEF a
    <2>6. g # <<>>
      <3>1. <<>> \o a = a
        BY <2>5, ConcatEmptySeq
      <3> QED
        BY <1>1, <2>3, <3>1 DEF a
    <2>7. IsSuffix(a, MainText(t))
      BY <2>3, <2>5, EndIsSuffix
    <2> QED
      BY <2>3, <2>4, <2>6, <2>7 DEF a
  <1>2. Inv /\ [Next]_vars
        => [/\ t.set.e2s /\ MainText(t') # MainText(t)
            /\ ~(IsSuffix(MainText(t'), MainText(t)) /\ Len(t'.sb) = t.savelines)
            => ~(EraseScreen \/ ColumnMode \/ SwapScreen \/ Reset
                 \/ term_pwron)]_vars
    BY <1>1 DEF Inv
  <1> QED
    BY <1>2, Invariance, PTL DEF Spec, ErasedIsKept
=============================================================================
