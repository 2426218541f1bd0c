------------------------------ MODULE Terminal ------------------------------
(***************************************************************************)
(* The line buffers of the terminal emulator, terminal/terminal.c: the     *)
(* screen, the alternate screen, the scrollback and the position the user  *)
(* has scrolled to, under the remote's output, the user's scrolling, the   *)
(* resizing of the window and the changing of the settings.                *)
(*                                                                         *)
(* A line is 0 when it is blank and otherwise the number of the piece of   *)
(* text last written to it.  Columns, attributes and character sets are    *)
(* left out: where the code looks at the cursor's column the remote, which *)
(* can put the cursor in any column beforehand, chooses the outcome.  So   *)
(* it does for origin mode, which it can also switch at any time.          *)
(***************************************************************************)
EXTENDS Integers, Sequences, SequencesExt, FiniteSets

CONSTANTS Sizes,      \* the window sizes, pairs <<rows, lines of scrollback>>
          MaxText,    \* how many pieces of text the remote writes
          Settings,   \* records [e2s, sod, noalt] the user may choose
          Remotes,    \* which groups of sequences a remote uses, sets of
                      \* "margins", "cursor", "erase", "alternate"
          Unguarded   \* the situations the specification lets happen

VARIABLES uses,   \* the sequences this session's remote uses
          t,      \* the terminal
          text    \* how many pieces of text have been written

vars == <<uses, t, text>>

(* term->erase_to_scrollback, term->scroll_on_disp and                     *)
(* term->no_alt_screen.                                                    *)
Setting == [e2s : BOOLEAN, sod : BOOLEAN, noalt : BOOLEAN]

ASSUME TerminalAssumption ==
    /\ Sizes \subseteq (Nat \ {0}) \X Nat
    /\ MaxText \in Nat
    /\ Settings \subseteq Setting

Blank(n) == [i \in 1..n |-> 0]

(* Apply Op n times.                                                       *)
Times(Op(_), s, n) ==
    LET after[i \in 0..n] == IF i = 0 THEN s ELSE Op(after[i - 1]) IN after[n]

----------------------------------------------------------------------------
(* A terminal of the given size, after term_init and the first term_size.  *)
NewTerminal(rows, savelines, set) ==
    [rows |-> rows, savelines |-> savelines, set |-> set,
     screen |-> Blank(rows), alt |-> Blank(rows), sb |-> <<>>,
     temps |-> 0, which |-> 0, altsb |-> 0, disptop |-> 0,
     y |-> 0, alt_y |-> 0, save_y |-> 0, alt_save_y |-> 0,
     mt |-> 0, mb |-> rows - 1, alt_t |-> 0, alt_b |-> rows - 1]

(* The lines of the main screen that count as scrollback while the         *)
(* alternate screen is shown.                                              *)
altlines(s) == IF s.set.e2s /\ s.which = 1 THEN s.altsb ELSE 0

sblines(s) == Len(s.sb) + altlines(s)

(* What the user can scroll through, above the screen.                     *)
Above(s) == s.sb \o SubSeq(s.alt, 1, altlines(s))

(* The line at row y, as lineptr finds it.                                 *)
lineptr(s, y) ==
    IF y >= 0 THEN s.screen[y + 1]
    ELSE IF y < -altlines(s)
         THEN s.sb[y + altlines(s) + Len(s.sb) + 1]
         ELSE s.alt[y + s.altsb + 1]

find_last_nonempty_line(screen) ==
    LET full == {i \in 1..Len(screen) : screen[i] # 0}
    IN  IF full = {} THEN -1 ELSE Max(full) - 1

(* What most handlers that redraw much do when scroll_on_disp is set.      *)
Shown(s) == IF s.set.sod THEN [s EXCEPT !.disptop = 0] ELSE s

----------------------------------------------------------------------------
(* The line that leaves the region at its top goes to the scrollback, and  *)
(* the viewpoint of a user who looks at the scrollback goes with it.       *)
ToScrollback(s, line) ==
    LET full == Len(s.sb) = s.savelines
    IN  [s EXCEPT !.sb = Append(IF full THEN Tail(@) ELSE @, line),
                  !.temps = IF full THEN @ ELSE @ + 1,
                  !.disptop = IF @ > -s.savelines /\ @ < 0
                              THEN @ - 1 ELSE @]

(* The viewpoint stays where it is while the scrollback has room.          *)
ScrollForward_view_fixed(s, top, bot, sb) ==
    LET s1 == IF sb /\ s.savelines > 0
              THEN [ToScrollback(s, s.screen[top + 1]) EXCEPT
                      !.disptop = s.disptop]
              ELSE s
    IN  [s1 EXCEPT !.screen =
            InsertAt(RemoveAt(@, top + 1), bot + 1, 0)]

(* One turn of scroll's loop, forward.                                     *)
ScrollForward(s, top, bot, sb) ==
    LET s1 == IF sb /\ s.savelines > 0
              THEN ToScrollback(s, s.screen[top + 1]) ELSE s
    IN  [s1 EXCEPT !.screen =
            InsertAt(RemoveAt(@, top + 1), bot + 1, 0)]

(* The same, backward.                                                     *)
ScrollBack(s, top, bot) ==
    [s EXCEPT !.screen = InsertAt(RemoveAt(@, bot + 1), top + 1, 0)]

(* Every line is counted as one that a resize may bring back.              *)
scroll_counts_all(s, top, bot, lines, sb) ==
    LET size == bot - top + 1
        keep == sb /\ top = 0 /\ s.which = 0
    IN  IF lines < 0
        THEN Times(LAMBDA a : ScrollBack(a, top, bot), s, Min({-lines, size}))
        ELSE Times(LAMBDA a : [ScrollForward(a, top, bot, keep) EXCEPT
                                 !.temps = a.temps + 1],
                   s, Min({lines, size}))

scroll(s, top, bot, lines, sb) ==
    LET size == bot - top + 1
        keep == sb /\ top = 0 /\ s.which = 0
    IN  IF lines < 0
        THEN Times(LAMBDA a : ScrollBack(a, top, bot), s, Min({-lines, size}))
        ELSE Times(LAMBDA a : ScrollForward(a, top, bot, keep),
                   s, Min({lines, size}))

(* The last row that holds anything is erased in place.                    *)
EraseAll_short(s) ==
    LET n == find_last_nonempty_line(s.screen)
        s1 == IF s.set.e2s
              THEN IF n > 0 THEN scroll(s, 0, n - 1, n, TRUE) ELSE s
              ELSE s
        s2 == [s1 EXCEPT !.screen = Blank(s.rows)]
    IN  IF s.which = 0 THEN [s2 EXCEPT !.temps = 0] ELSE s2

(* erase_lots of the whole screen, or from its first cell to its end: the  *)
(* rows that hold anything go to the scrollback if the setting says so.    *)
EraseAll(s) ==
    LET n == find_last_nonempty_line(s.screen) + 1
        s1 == IF s.set.e2s
              THEN IF n > 0 THEN scroll(s, 0, n - 1, n, TRUE) ELSE s
              ELSE [s EXCEPT !.screen = Blank(s.rows)]
    IN  IF s.which = 0 THEN [s1 EXCEPT !.temps = 0] ELSE s1

(* The other forms of erase_lots: rows from..to - 1 are erased, and of the *)
(* cursor's row either all there is (rest = 0) or not.                     *)
ErasePart(s, from, to, rest) ==
    [s EXCEPT !.screen =
        [i \in DOMAIN @ |-> IF i - 1 = s.y THEN rest
                            ELSE IF i - 1 \in from..(to - 1) THEN 0
                            ELSE @[i]]]

(* save_cursor.                                                            *)
save_cursor(s, save) ==
    IF save THEN [s EXCEPT !.save_y = s.y]
    ELSE [s EXCEPT !.y = Min({s.save_y, s.rows - 1})]

(* move, as far as rows go.                                                *)
move(s, y, clip) ==
    LET y1 == IF clip > 0 /\ (s.y >= s.mt \/ clip = 2) /\ y < s.mt
              THEN s.mt ELSE y
        y2 == IF clip > 0 /\ (s.y <= s.mb \/ clip = 2) /\ y1 > s.mb
              THEN s.mb ELSE y1
    IN  [s EXCEPT !.y = IF y2 < 0 THEN 0
                        ELSE IF y2 >= s.rows THEN s.rows - 1 ELSE y2]

----------------------------------------------------------------------------
(* The exchange of the two screens in swap_screen.  The viewpoint follows  *)
(* the lines of the main screen out of the scrollback and into it.         *)
Exchanged(s, which, reset, keep) ==
    LET leave == s.set.e2s /\ s.which = 1 /\ s.disptop < 0
        s1 == [s EXCEPT
                 !.disptop = IF leave THEN Min({0, @ + s.altsb}) ELSE @,
                 !.which = which,
                 !.alt = s.screen, !.screen = s.alt,
                 !.altsb = find_last_nonempty_line(s.screen) + 1,
                 !.y = IF reset \/ keep THEN @ ELSE s.alt_y, !.alt_y = s.y,
                 !.mt = IF reset THEN @ ELSE s.alt_t, !.alt_t = s.mt,
                 !.mb = IF reset THEN @ ELSE s.alt_b, !.alt_b = s.mb,
                 !.save_y = IF reset THEN @ ELSE s.alt_save_y,
                 !.alt_save_y = s.save_y]
        enter == s1.set.e2s /\ s1.which = 1 /\ s1.disptop < 0
    IN  [s1 EXCEPT !.disptop =
            IF enter THEN Max({-sblines(s1), @ - s1.altsb}) ELSE @]

(* The viewpoint is left where it is.                                      *)
swap_screen_no_adjust(s, which, reset, keep) ==
    LET s1 == IF which # s.which
              THEN [Exchanged(s, which, reset /\ which = 1, keep) EXCEPT
                      !.disptop = s.disptop] ELSE s
    IN  IF reset /\ which = 1 THEN EraseAll(s1) ELSE s1

swap_screen(s, which, reset, keep) ==
    LET s1 == IF which # s.which
              THEN Exchanged(s, which, reset /\ which = 1, keep) ELSE s
    IN  IF reset /\ which = 1 THEN EraseAll(s1) ELSE s1

power_on(s, clear) ==
    LET s1 == [s EXCEPT !.alt_y = 0, !.save_y = 0, !.alt_save_y = 0,
                        !.alt_t = 0, !.mt = 0,
                        !.alt_b = s.rows - 1, !.mb = s.rows - 1,
                        !.which = 0]
        s2 == swap_screen(EraseAll(swap_screen(s1, 1, FALSE, FALSE)),
                          0, FALSE, FALSE)
        s3 == IF clear THEN EraseAll(s2) ELSE s2
        y == find_last_nonempty_line(s3.screen) + 1
    IN  IF y = s.rows
        THEN scroll([s3 EXCEPT !.y = y - 1], 0, s.rows - 1, 1, TRUE)
        ELSE [s3 EXCEPT !.y = y]

term_clrsb(s) ==
    [s EXCEPT !.disptop = 0, !.sb = <<>>, !.temps = 0, !.altsb = 0]

----------------------------------------------------------------------------
(* The loops of term_size.  All cursors move with the text.                *)
Shifted(s, n) ==
    [s EXCEPT !.y = @ + n, !.save_y = @ + n,
              !.alt_y = @ + n, !.alt_save_y = @ + n]

Grow(s) ==
    IF s.temps > 0
    THEN [Shifted(s, 1) EXCEPT
            !.screen = <<Last(s.sb)>> \o @, !.sb = Front(@),
            !.temps = @ - 1, !.rows = @ + 1]
    ELSE [s EXCEPT !.screen = Append(@, 0), !.rows = @ + 1]

Shrink(s) ==
    IF s.y < s.rows - 1
    THEN [s EXCEPT !.screen = Front(@), !.rows = @ - 1]
    ELSE [Shifted(s, -1) EXCEPT
            !.sb = Append(@, Head(s.screen)), !.screen = Tail(@),
            !.temps = @ + 1, !.rows = @ - 1]

Clamp(y, rows) == IF y < 0 THEN 0 ELSE IF y >= rows THEN rows - 1 ELSE y

term_size(s, rows, savelines) ==
    LET s0 == swap_screen(s, 0, FALSE, FALSE)
        s1 == IF rows >= s.rows
              THEN Times(Grow, s0, rows - s.rows)
              ELSE Times(Shrink, s0, s.rows - rows)
        drop == Max({0, Len(s1.sb) - savelines})
        s2 == [s1 EXCEPT
                 !.mt = 0, !.alt_t = 0, !.mb = rows - 1, !.alt_b = rows - 1,
                 !.savelines = savelines,
                 !.sb = SubSeq(@, drop + 1, Len(@)),
                 !.temps = Min({@, Len(s1.sb) - drop}),
                 !.disptop = 0, !.alt = Blank(rows), !.altsb = 0,
                 !.y = Clamp(@, rows), !.alt_y = 0,
                 !.save_y = Clamp(@, rows), !.alt_save_y = Clamp(@, rows)]
    IN  swap_screen(s2, s.which, FALSE, FALSE)

----------------------------------------------------------------------------
(* The remote's output, term_out.                                          *)

LineFeed(s) ==
    IF s.y = s.mb THEN scroll(s, s.mt, s.mb, 1, TRUE)
    ELSE IF s.y < s.rows - 1 THEN [s EXCEPT !.y = @ + 1]
    ELSE s

ReverseIndex(s) ==
    IF s.y = s.mt THEN scroll(s, s.mt, s.mb, -1, TRUE)
    ELSE IF s.y > 0 THEN [s EXCEPT !.y = @ - 1]
    ELSE s

(* A graphic character, perhaps after a wrap.  DECALN, which fills the     *)
(* screen, is a Move and a Write for every row.                            *)
Write ==
    /\ text < MaxText
    /\ \E wrap \in BOOLEAN :
         LET s == IF wrap THEN LineFeed(t) ELSE t
         IN  t' = [s EXCEPT !.screen[s.y + 1] = text + 1]
    /\ text' = text + 1
    /\ UNCHANGED uses

(* LF, VT, FF, IND, NEL, and CR with an implicit line feed; RI.            *)
Feed == t' = LineFeed(t) /\ UNCHANGED <<uses, text>>

FeedBack == t' = ReverseIndex(t) /\ UNCHANGED <<uses, text>>

(* CUU, CUD, CNL, CPL: relative and held by the margins; VPA and CUP:      *)
(* absolute, or in the margins in origin mode.                             *)
Move ==
    /\ \E n \in 1..t.rows :
         t' \in {move(t, t.y - n, 1), move(t, t.y + n, 1),
                 move(t, n - 1, 0), move(t, t.mt + n - 1, 2)}
    /\ UNCHANGED <<uses, text>>

SaveCursor ==
    /\ "cursor" \in uses
    /\ t' \in {save_cursor(t, TRUE), save_cursor(t, FALSE)}
    /\ UNCHANGED <<uses, text>>

(* DECSTBM.                                                                *)
SetMargins ==
    /\ "margins" \in uses
    /\ \E top, bot \in 0..(t.rows - 1), y \in {"top", "home"} :
         /\ bot > top
         /\ t' = [t EXCEPT !.mt = top, !.mb = bot,
                                !.y = IF y = "top" THEN top ELSE 0]
    /\ UNCHANGED <<uses, text>>

(* IL, DL, SU and SD.                                                      *)
ShiftLines ==
    /\ "margins" \in uses
    /\ \E n \in 1..t.rows :
         \/ /\ t.y <= t.mb
            /\ t' \in {scroll(t, t.y, t.mb, -n, FALSE),
                       scroll(t, t.y, t.mb, n, TRUE)}
         \/ t' \in {scroll(t, t.mt, t.mb, n, TRUE),
                    scroll(t, t.mt, t.mb, -n, TRUE)}
    /\ UNCHANGED <<uses, text>>

(* ED 2 and ED 0 from the first cell; a form feed on a SCO terminal, which *)
(* goes to the first cell beforehand.                                      *)
EraseScreen ==
    /\ \E s \in {t, move(t, 0, 0)} : t' = Shown(EraseAll(s))
    /\ UNCHANGED <<uses, text>>

(* ED 0 from elsewhere (part of the first row is kept then), ED 1, and EL. *)
EraseSome ==
    /\ "erase" \in uses
    /\ \E rest \in {0, t.screen[t.y + 1]} :
         \/ t' = Shown(ErasePart(t, t.y + 1, t.rows, rest))
         \/ t' = Shown(ErasePart(t, 0, t.y, rest))
         \/ t' = ErasePart(t, 0, 0, rest)
    /\ UNCHANGED <<uses, text>>

(* CSI 3 J, or the menu's Clear Scrollback.                                *)
ClearScrollback ==
    t' = term_clrsb(t) /\ UNCHANGED <<uses, text>>

(* DECCOLM.                                                                *)
ColumnMode ==
    /\ t' = EraseAll([t EXCEPT !.alt_t = 0, !.mt = 0, !.alt_b = t.rows - 1,
                               !.mb = t.rows - 1, !.y = 0])
    /\ UNCHANGED <<uses, text>>

(* The modes 47, 1047 and 1049 of toggle_mode.                             *)
Mode47(state) ==
    Shown(swap_screen(t, IF t.set.noalt THEN 0 ELSE state, FALSE, FALSE))

Mode1047(state) ==
    Shown(swap_screen(t, IF t.set.noalt THEN 0 ELSE state, TRUE, TRUE))

Mode1049(state) ==
    LET on == state = 1 /\ ~t.set.noalt
        off == state = 0 /\ ~t.set.noalt
        s1 == IF on THEN save_cursor(t, TRUE) ELSE t
        s2 == swap_screen(s1, IF t.set.noalt THEN 0 ELSE state, TRUE, FALSE)
    IN  Shown(IF off THEN save_cursor(s2, FALSE) ELSE s2)

SwapScreen ==
    /\ "alternate" \in uses
    /\ \E state \in {0, 1} :
         t' \in {Mode47(state), Mode1047(state), Mode1049(state)}
    /\ UNCHANGED <<uses, text>>

(* RIS.  On the alternate screen it takes the two screens for each other.  *)
Reset ==
    /\ t.which = 0 \/ "reset" \in Unguarded
    /\ t' = Shown(power_on(t, TRUE))
    /\ UNCHANGED <<uses, text>>

Output ==
    \/ Write \/ Feed \/ FeedBack \/ Move \/ SaveCursor
    \/ SetMargins \/ ShiftLines \/ EraseScreen \/ EraseSome
    \/ ColumnMode \/ SwapScreen \/ Reset

----------------------------------------------------------------------------
(* term_update, run by a timer when something has changed.  The flag       *)
(* seen_disp_event is left out, so it may come when nothing has changed:   *)
(* the user, who can scroll back down at any time, does no less.           *)
term_update ==
    /\ t.set.sod /\ t.disptop < 0
    /\ t' = [t EXCEPT !.disptop = 0]
    /\ UNCHANGED <<uses, text>>

(* The user scrolls; a key pressed may also bring the screen back.         *)
term_scroll ==
    /\ \E top \in (-sblines(t))..0 : t' = [t EXCEPT !.disptop = top]
    /\ UNCHANGED <<uses, text>>

(* Reset Terminal and Clear the menu offers.                               *)
term_pwron ==
    /\ t.which = 0 \/ "reset" \in Unguarded
    /\ \E clear \in BOOLEAN :
         t' = [power_on(t, clear) EXCEPT !.disptop = 0]
    /\ UNCHANGED <<uses, text>>

Resize ==
    /\ \E size \in Sizes :
         /\ size # <<t.rows, t.savelines>>
         /\ t' = term_size(t, size[1], size[2])
    /\ UNCHANGED <<uses, text>>

(* The settings change in term_reconfig.  The viewpoint is not looked at,  *)
(* although the lines of the main screen may have left the scrollback.     *)
term_reconfig ==
    /\ \E set \in Settings :
         LET s1 == IF set.noalt THEN swap_screen(t, 0, FALSE, FALSE) ELSE t
         IN  /\ \/ "reconfigured" \in Unguarded
                \/ s1.which = 0 \/ s1.disptop = 0 \/ set.e2s = t.set.e2s
             /\ t' = [s1 EXCEPT !.set = set]
    /\ UNCHANGED <<uses, text>>

----------------------------------------------------------------------------
Init ==
    /\ \E size \in Sizes, set \in Settings :
         t = NewTerminal(size[1], size[2], set)
    /\ uses \in Remotes
    /\ text = 0

Next ==
    \/ Output \/ ClearScrollback \/ term_update \/ term_scroll \/ term_pwron
    \/ Resize \/ term_reconfig

Spec == Init /\ [][Next]_vars

----------------------------------------------------------------------------
(* What the rest of terminal.c asserts or indexes by: both screens have a  *)
(* line for every row (the assertions of term_size), the scrollback is     *)
(* within its limit and holds the lines a resize may bring back, the       *)
(* margins and all cursors are on the screen.                              *)
Consistent ==
    /\ Len(t.screen) = t.rows /\ Len(t.alt) = t.rows
    /\ t.temps \in 0..Len(t.sb) /\ Len(t.sb) <= t.savelines
    /\ \A y \in {t.y, t.alt_y, t.save_y, t.alt_save_y} : y \in 0..(t.rows - 1)
    /\ t.mt \in 0..t.mb /\ t.mb < t.rows
    /\ t.alt_t \in 0..t.alt_b /\ t.alt_b < t.rows
    /\ t.altsb \in 0..t.rows

(* Every row of the window shows a line that exists: lineptr, which        *)
(* do_paint calls for every row from disptop on, ends the program with     *)
(* null_line_error when it is asked for one that does not.                 *)
ViewInRange == t.disptop \in (-sblines(t))..0

(* The text at the top of the window stays there while the remote writes,  *)
(* scrolls and changes screens, unless the line has left the scrollback:   *)
(* what the comments in scroll ("they'd like to keep looking at the same   *)
(* line") and swap_screen ("still ends up pointing at the same text")      *)
(* promise when scroll_on_disp is off.                                     *)
ViewStays ==
    [][/\ t.disptop < 0 /\ ~t.set.sod
       /\ lineptr(t, t.disptop) # 0
       /\ lineptr(t', t'.disptop) # lineptr(t, t.disptop)
       /\ Contains(Above(t'), lineptr(t, t.disptop))
       => ~Output]_vars

(* The text in the lines q, blank ones left out.                           *)
Texts(q) ==
    LET kept[i \in 0..Len(q)] ==
          IF i = 0 THEN <<>>
          ELSE IF q[i] = 0 THEN kept[i - 1] ELSE Append(kept[i - 1], q[i])
    IN  kept[Len(q)]

(* The text of the main screen and its scrollback, oldest first.           *)
MainText(s) == Texts(s.sb \o (IF s.which = 0 THEN s.screen ELSE s.alt))

(* With erase_to_scrollback, clearing the screen, resetting the terminal   *)
(* or changing screens loses no text of the main screen but the oldest,    *)
(* for which the scrollback has no room.                                   *)
ErasedIsKept ==
    [][/\ t.set.e2s /\ MainText(t') # MainText(t)
       /\ ~(IsSuffix(MainText(t'), MainText(t)) /\ Len(t'.sb) = t.savelines)
       => ~(EraseScreen \/ ColumnMode \/ SwapScreen \/ Reset
            \/ term_pwron)]_vars

=============================================================================
