------------------------------- MODULE Screen -------------------------------
(***************************************************************************)
(* The character grid of components/term_core (screen.cpp) together with   *)
(* the rendering of its damage rectangle (terminal.cpp, render_dirty).     *)
(*                                                                         *)
(* A cell is a glyph, the pen (SGR state) it was written with and its part *)
(* in a double-width glyph.  `shown' is the cell the display was last      *)
(* handed for each position: it is what the user sees, the program itself  *)
(* keeps no such copy and relies on the damage rectangle instead.          *)
(*                                                                         *)
(* Rows and columns count from 0, as in the code.                          *)
(***************************************************************************)
EXTENDS Integers

CONSTANTS
    Narrow,       \* printable characters one column wide
    Wide,         \* East Asian full-width characters
    Space,        \* U+0020, the glyph of a blank cell
    Pens,         \* SGR states: attributes, foreground, background
    DefaultPen,   \* the SGR state after CSI 0 m
    Params,       \* numeric CSI parameters that can arrive
    Sizes,        \* the <<columns, rows>> the program resizes the grid to
    InitialSize,  \* the size the Terminal is constructed with
    Unpainted     \* a position no cell was ever drawn at

ASSUME ParamsAreNat == Params \subseteq Nat
ASSUME SizesFitAPair ==
    /\ InitialSize \in Sizes
    /\ \A z \in Sizes : z \in (Nat \X Nat) /\ z[1] >= 2 /\ z[2] >= 1
ASSUME SpaceIsNarrow == Space \in Narrow /\ Narrow \cap Wide = {}
ASSUME DefaultPenIsAPen == DefaultPen \in Pens

VARIABLES
    cols, rows,
    grid,                     \* the active page
    cursorRow, cursorCol,
    wrapPending,              \* the VT100 deferred wrap at the last column
    autowrap, cursorVisible,  \* DEC modes 7 and 25
    scrollTop, scrollBot,     \* the scroll region, bottom exclusive
    pen,
    saved,                    \* DECSC state
    damage,                   \* what render_dirty still has to draw
    backup, altActive,        \* the inactive page, and whether it is the main one
    shown                     \* what the display shows

sizeVars   == <<cols, rows>>
cursorVars == <<cursorRow, cursorCol, wrapPending>>
modeVars   == <<autowrap, cursorVisible>>
regionVars == <<scrollTop, scrollBot>>
penVars    == <<pen, saved>>
altVars    == <<backup, altActive>>
paintVars  == <<grid, damage>>
vars == <<sizeVars, cursorVars, modeVars, regionVars, penVars, altVars,
          paintVars, shown>>

-----------------------------------------------------------------------------
(* Cells, pages and rectangles. *)

Cell == [ch : Narrow \cup Wide, pen : Pens, half : {"single", "wide", "cont"}]

DefaultCell == [ch |-> Space, pen |-> DefaultPen, half |-> "single"]

\* What erasing and scrolling leave behind carries the current colours.
Blank == [ch |-> Space, pen |-> pen, half |-> "single"]

Row == 0 .. rows - 1
Col == 0 .. cols - 1

Filled(c, r, cell) == [i \in 0 .. r - 1 |-> [j \in 0 .. c - 1 |-> cell]]

BlankLine == [j \in Col |-> Blank]

NoDamage == [row0 |-> 0, col0 |-> 0, row1 |-> 0, col1 |-> 0]

IsEmpty(d) == d.row1 <= d.row0 \/ d.col1 <= d.col0

Lesser(a, b)  == IF a <= b THEN a ELSE b
Greater(a, b) == IF a >= b THEN a ELSE b

\* mark_rect: the damage is one rectangle, the hull of everything marked.
Mark(d, r0, c0, r1, c1) ==
    IF r1 <= r0 \/ c1 <= c0 THEN d
    ELSE IF IsEmpty(d) THEN [row0 |-> r0, col0 |-> c0, row1 |-> r1, col1 |-> c1]
    ELSE [row0 |-> Lesser(d.row0, r0),  col0 |-> Lesser(d.col0, c0),
          row1 |-> Greater(d.row1, r1), col1 |-> Greater(d.col1, c1)]

InDamage(d, r, c) == d.row0 <= r /\ r < d.row1 /\ d.col0 <= c /\ c < d.col1

MarkAll(d) == Mark(d, 0, 0, rows, cols)

NothingSaved == [has |-> FALSE, row |-> 0, col |-> 0, pen |-> DefaultPen]

\* The state a page starts with: see ScreenBackup and the two constructors.
FreshPage(c, r) ==
    [grid |-> Filled(c, r, DefaultCell), cursorRow |-> 0, cursorCol |-> 0,
     wrapPending |-> FALSE, scrollTop |-> 0, scrollBot |-> r,
     pen |-> DefaultPen, saved |-> NothingSaved]

-----------------------------------------------------------------------------
(* Parameters of control sequences. *)

U16(n) == n % 65536

\* A missing or zero parameter counts as 1; the helpers take a uint16_t.
Count(p) == U16(IF p = 0 THEN 1 ELSE p)

\* insert_* and delete_* treat 0 (after the truncation) as 1 and clip.
Clipped(n, room) == Lesser(IF n = 0 THEN 1 ELSE n, room)

\* Mutant: the last position taken for the number of positions.
ClampPosOffByOne(v, last) == IF v < 0 THEN 0 ELSE Lesser(v, last + 1)

ClampPos(v, last) == IF v < 0 THEN 0 ELSE Lesser(v, last)

-----------------------------------------------------------------------------
(* Whole-line moves. *)

\* Mutant: the bottom margin of the region is ignored.
ShiftedUpToLastRow(g, top, bot, n) ==
    [r \in Row |-> IF r < top THEN g[r] ELSE IF r + n < rows THEN g[r + n] ELSE BlankLine]

\* scroll_up and delete_lines: lines top..bot-1 move up by n.
ShiftedUp(g, top, bot, n) ==
    [r \in Row |-> IF r < top \/ r >= bot THEN g[r]
                   ELSE IF r + n < bot THEN g[r + n] ELSE BlankLine]

\* scroll_down and insert_lines: they move down by n.
ShiftedDown(g, top, bot, n) ==
    [r \in Row |-> IF r < top \/ r >= bot THEN g[r]
                   ELSE IF r - n >= top THEN g[r - n] ELSE BlankLine]

\* line_feed, as a function of the part of the state it changes.
LineFed(s) ==
    IF s.row + 1 = scrollBot
    THEN [s EXCEPT !.grid = ShiftedUp(s.grid, scrollTop, scrollBot, 1),
                   !.damage = Mark(s.damage, scrollTop, 0, scrollBot, cols)]
    ELSE IF s.row + 1 < rows THEN [s EXCEPT !.row = s.row + 1] ELSE s

Here == [grid |-> grid, damage |-> damage, row |-> cursorRow, col |-> cursorCol]

StartLine(s) == [LineFed(s) EXCEPT !.col = 0]

-----------------------------------------------------------------------------
(* Writing a character. *)

OrphanRight(line, c) ==
    c + 1 < cols /\ line[c].half = "wide" /\ line[c + 1].half = "cont"
OrphanLeft(line, c) ==
    c > 0 /\ line[c].half = "cont" /\ line[c - 1].half = "wide"

\* Mutant: only the continuation of an overwritten head is cleaned up.
UnpairedRightOnly(line, c) ==
    [k \in Col |-> IF k = c + 1 /\ OrphanRight(line, c) THEN Blank ELSE line[k]]

\* clear_orphan_pair: overwriting one half of a pair blanks the other.
Unpaired(line, c) ==
    [k \in Col |-> IF \/ k = c + 1 /\ OrphanRight(line, c)
                      \/ k = c - 1 /\ OrphanLeft(line, c)
                   THEN Blank ELSE line[k]]

NarrowLine(line, c, ch) ==
    [Unpaired(line, c) EXCEPT ![c] = [ch |-> ch, pen |-> pen, half |-> "single"]]

WideLine(line, c, ch) ==
    [Unpaired(Unpaired(line, c), c + 1) EXCEPT
        ![c]     = [ch |-> ch, pen |-> pen, half |-> "wide"],
        ![c + 1] = [ch |-> Space, pen |-> pen, half |-> "cont"]]

\* Mutant: the blanked orphan on the left is not marked.
FirstWrittenUnmarked(line, c) == c

\* The columns put_char marks: the cells written and the orphans blanked.
FirstWritten(line, c) == IF OrphanLeft(line, c) THEN c - 1 ELSE c
AfterNarrow(line, c)  == IF OrphanRight(line, c) THEN c + 2 ELSE c + 1
AfterWide(line, c)    == IF OrphanRight(Unpaired(line, c), c + 1) THEN c + 3 ELSE c + 2

\* Where put_char stands once the deferred wrap is honoured.
Unwrapped == IF wrapPending THEN StartLine(Here) ELSE Here

NoRoom(s) == s.col + 1 >= cols

PutNarrow(ch) ==
    LET s    == Unwrapped
        line == s.grid[s.row]
    IN  /\ grid' = [s.grid EXCEPT ![s.row] = NarrowLine(line, s.col, ch)]
        /\ damage' = Mark(s.damage, s.row, FirstWritten(line, s.col),
                          s.row + 1, AfterNarrow(line, s.col))
        /\ cursorRow' = s.row
        /\ cursorCol' = Lesser(s.col + 1, cols - 1)
        /\ wrapPending' = (autowrap /\ s.col + 1 = cols)
        /\ UNCHANGED <<sizeVars, modeVars, regionVars, penVars, altVars, shown>>

\* A pair that does not fit goes to the next line; with autowrap off it is
\* dropped, which changes nothing.
PutWide(ch) ==
    LET s    == IF NoRoom(Unwrapped) THEN StartLine(Unwrapped) ELSE Unwrapped
        line == s.grid[s.row]
    IN  /\ NoRoom(Unwrapped) => autowrap
        /\ grid' = [s.grid EXCEPT ![s.row] = WideLine(line, s.col, ch)]
        /\ damage' = Mark(s.damage, s.row, FirstWritten(line, s.col),
                          s.row + 1, AfterWide(line, s.col))
        /\ cursorRow' = s.row
        /\ cursorCol' = Lesser(s.col + 2, cols - 1)
        /\ wrapPending' = (autowrap /\ s.col + 2 >= cols)
        /\ UNCHANGED <<sizeVars, modeVars, regionVars, penVars, altVars, shown>>

-----------------------------------------------------------------------------
(* Cursor movement. *)

\* Mutant: a cursor movement forgets the deferred wrap.
PlaceCursorKeepsWrap(r, c) ==
    /\ cursorRow' = ClampPos(r, rows - 1)
    /\ cursorCol' = ClampPos(c, cols - 1)
    /\ UNCHANGED wrapPending

\* place_cursor, and every C0 or CSI function that ends in it.
PlaceCursor(r, c) ==
    /\ cursorRow' = ClampPos(r, rows - 1)
    /\ cursorCol' = ClampPos(c, cols - 1)
    /\ wrapPending' = FALSE

NoEdit == UNCHANGED <<sizeVars, modeVars, paintVars, altVars, shown>>

Backspace == PlaceCursor(cursorRow, cursorCol - 1) /\ NoEdit
             /\ UNCHANGED <<regionVars, penVars>>

TabWidth == 8

Tab == PlaceCursor(cursorRow, (cursorCol \div TabWidth + 1) * TabWidth) /\ NoEdit
       /\ UNCHANGED <<regionVars, penVars>>

CarriageReturn == PlaceCursor(cursorRow, 0) /\ NoEdit
                  /\ UNCHANGED <<regionVars, penVars>>

\* CSI A B C D: up, down, right, left by n.
MoveBy(dr, dc) ==
    /\ PlaceCursor(cursorRow + dr, cursorCol + dc)
    /\ NoEdit /\ UNCHANGED <<regionVars, penVars>>

\* CSI H, f, G, d, E and F.
MoveTo(r, c) ==
    /\ PlaceCursor(r, c)
    /\ NoEdit /\ UNCHANGED <<regionVars, penVars>>

\* CSI r: an empty region is refused, a valid one homes the cursor.
SetScrollRegion(top, bot) ==
    LET t == Greater(0, (IF top = 0 THEN 1 ELSE top) - 1)
        b == Lesser(rows, IF bot = 0 THEN rows ELSE bot)
    IN  /\ b > t
        /\ scrollTop' = t
        /\ scrollBot' = b
        /\ PlaceCursor(0, 0)
        /\ NoEdit /\ UNCHANGED penVars

SaveCursor ==
    /\ saved' = [has |-> TRUE, row |-> cursorRow, col |-> cursorCol, pen |-> pen]
    /\ NoEdit /\ UNCHANGED <<cursorVars, regionVars, pen>>

RestoreCursor ==
    /\ saved.has
    /\ PlaceCursor(saved.row, saved.col)
    /\ pen' = saved.pen
    /\ NoEdit /\ UNCHANGED <<regionVars, saved>>

SetPen(p) ==
    /\ pen' = p
    /\ NoEdit /\ UNCHANGED <<cursorVars, regionVars, saved>>

SetModes(wrap, visible) ==
    /\ autowrap' = wrap
    /\ cursorVisible' = visible
    /\ UNCHANGED <<sizeVars, cursorVars, regionVars, penVars, paintVars, altVars, shown>>

-----------------------------------------------------------------------------
(* Editing. *)

\* Everything an edit of the grid alone leaves as it was.
EditOnly == UNCHANGED <<sizeVars, modeVars, regionVars, penVars, altVars, shown>>

LineFeed ==
    LET s == LineFed(Here)
    IN  /\ grid' = s.grid
        /\ damage' = s.damage
        /\ cursorRow' = s.row
        /\ wrapPending' = FALSE
        /\ UNCHANGED cursorCol
        /\ EditOnly

NextLine ==   \* ESC E
    LET s == StartLine(Here)
    IN  /\ grid' = s.grid
        /\ damage' = s.damage
        /\ cursorRow' = s.row
        /\ cursorCol' = 0
        /\ wrapPending' = FALSE
        /\ EditOnly

ReverseIndex ==
    /\ IF cursorRow = scrollTop
       THEN /\ grid' = ShiftedDown(grid, scrollTop, scrollBot, 1)
            /\ damage' = Mark(damage, scrollTop, 0, scrollBot, cols)
            /\ UNCHANGED cursorRow
       ELSE /\ cursorRow' = ClampPos(cursorRow - 1, rows - 1)
            /\ UNCHANGED paintVars
    /\ wrapPending' = FALSE
    /\ UNCHANGED cursorCol
    /\ EditOnly

\* CSI S: the count is not clipped, but more than the region clears it.
ScrollUp(n) ==
    /\ n > 0
    /\ grid' = ShiftedUp(grid, scrollTop, scrollBot, n)
    /\ damage' = Mark(damage, scrollTop, 0, scrollBot, cols)
    /\ EditOnly /\ UNCHANGED cursorVars

ScrollDown(n) ==
    /\ n > 0
    /\ grid' = ShiftedDown(grid, scrollTop, scrollBot, n)
    /\ damage' = Mark(damage, scrollTop, 0, scrollBot, cols)
    /\ EditOnly /\ UNCHANGED cursorVars

InScrollRegion == scrollTop <= cursorRow /\ cursorRow < scrollBot

InsertLines(n) ==
    /\ InScrollRegion
    /\ grid' = ShiftedDown(grid, cursorRow, scrollBot,
                           Clipped(n, scrollBot - cursorRow))
    /\ damage' = Mark(damage, cursorRow, 0, scrollBot, cols)
    /\ PlaceCursor(cursorRow, 0)
    /\ EditOnly

DeleteLines(n) ==
    /\ InScrollRegion
    /\ grid' = ShiftedUp(grid, cursorRow, scrollBot,
                         Clipped(n, scrollBot - cursorRow))
    /\ damage' = Mark(damage, cursorRow, 0, scrollBot, cols)
    /\ PlaceCursor(cursorRow, 0)
    /\ EditOnly

\* insert_chars, delete_chars and erase_chars rewrite the cursor's line from
\* the cursor on; none of them looks at the halves of pairs.
EditLine(line, end) ==
    /\ grid' = [grid EXCEPT ![cursorRow] = line]
    /\ damage' = Mark(damage, cursorRow, cursorCol, cursorRow + 1, end)
    /\ wrapPending' = FALSE
    /\ UNCHANGED <<cursorRow, cursorCol>>
    /\ EditOnly

InsertChars(n) ==
    LET k == Clipped(n, cols - cursorCol)
        line == grid[cursorRow]
    IN  EditLine([c \in Col |-> IF c < cursorCol THEN line[c]
                               ELSE IF c - k >= cursorCol THEN line[c - k] ELSE Blank],
                 cols)

DeleteChars(n) ==
    LET k == Clipped(n, cols - cursorCol)
        line == grid[cursorRow]
    IN  EditLine([c \in Col |-> IF c < cursorCol THEN line[c]
                               ELSE IF c + k < cols THEN line[c + k] ELSE Blank],
                 cols)

\* The end column is a uint16_t sum: it wraps before it is clipped.
EraseChars(n) ==
    LET end == Lesser(U16(cursorCol + (IF n = 0 THEN 1 ELSE n)), cols)
        line == grid[cursorRow]
    IN  EditLine([c \in Col |-> IF cursorCol <= c /\ c < end THEN Blank ELSE line[c]],
                 end)

-----------------------------------------------------------------------------
(* Erasing. *)

Erase(mode, line) ==
    LET before(r, c) == r < cursorRow \/ (r = cursorRow /\ c < cursorCol)
        after(r, c)  == r > cursorRow \/ (r = cursorRow /\ c > cursorCol)
        hit(r, c)    == /\ line => r = cursorRow
                        /\ mode = 0 => ~ before(r, c)
                        /\ mode = 1 => ~ after(r, c)
    IN  grid' = [r \in Row |-> [c \in Col |-> IF hit(r, c) THEN Blank ELSE grid[r][c]]]

\* CSI K
EraseLine(mode) ==
    /\ Erase(mode, TRUE)
    /\ damage' = Mark(damage, cursorRow, IF mode = 0 THEN cursorCol ELSE 0,
                      cursorRow + 1, IF mode = 1 THEN cursorCol + 1 ELSE cols)
    /\ EditOnly /\ UNCHANGED cursorVars

\* CSI J
EraseDisplay(mode) ==
    /\ Erase(mode, FALSE)
    /\ damage' =
         CASE mode = 0 -> Mark(Mark(damage, cursorRow, cursorCol, cursorRow + 1, cols),
                               cursorRow + 1, 0, rows, cols)
           [] mode = 1 -> Mark(Mark(damage, 0, 0, cursorRow, cols),
                               cursorRow, 0, cursorRow + 1, cursorCol + 1)
           [] mode = 2 -> MarkAll(damage)
    /\ EditOnly /\ UNCHANGED cursorVars

-----------------------------------------------------------------------------
(* Pages: full reset, the alternate screen, a new grid size. *)

StartPage(page) ==
    /\ grid' = page.grid
    /\ cursorRow' = page.cursorRow
    /\ cursorCol' = page.cursorCol
    /\ wrapPending' = page.wrapPending
    /\ scrollTop' = page.scrollTop
    /\ scrollBot' = page.scrollBot
    /\ pen' = page.pen
    /\ saved' = page.saved
    /\ damage' = MarkAll(damage)

CurrentPage ==
    [grid |-> grid, cursorRow |-> cursorRow, cursorCol |-> cursorCol,
     wrapPending |-> wrapPending, scrollTop |-> scrollTop,
     scrollBot |-> scrollBot, pen |-> pen, saved |-> saved]

\* Mutant: a full reset also clears the page that is not in use.
ResetBothPages ==
    /\ StartPage(FreshPage(cols, rows))
    /\ autowrap' = TRUE
    /\ cursorVisible' = TRUE
    /\ backup' = FreshPage(cols, rows)
    /\ UNCHANGED <<sizeVars, altActive, shown>>

\* ESC c: the page in use starts afresh; the other one and altActive stay.
Reset ==
    /\ StartPage(FreshPage(cols, rows))
    /\ autowrap' = TRUE
    /\ cursorVisible' = TRUE
    /\ UNCHANGED <<sizeVars, altVars, shown>>

EnterAltScreen ==
    /\ ~ altActive
    /\ altActive' = TRUE
    /\ backup' = CurrentPage
    /\ StartPage(FreshPage(cols, rows))
    /\ UNCHANGED <<sizeVars, modeVars, shown>>

ExitAltScreen ==
    /\ altActive
    /\ altActive' = FALSE
    /\ backup' = CurrentPage
    /\ StartPage(backup)
    /\ UNCHANGED <<sizeVars, modeVars, shown>>

\* The display is re-gridded by the same caller (set_grid_size), so nothing
\* it showed before counts as drawn.
Resize(c, r) ==
    /\ <<c, r>> # <<cols, rows>>
    /\ cols' = c
    /\ rows' = r
    /\ grid' = [i \in 0 .. r - 1 |-> [j \in 0 .. c - 1 |->
                   IF i < rows /\ j < cols THEN grid[i][j] ELSE DefaultCell]]
    /\ cursorRow' = Lesser(cursorRow, r - 1)
    /\ cursorCol' = Lesser(cursorCol, c - 1)
    /\ wrapPending' = FALSE
    /\ scrollTop' = 0
    /\ scrollBot' = r
    /\ saved' = IF saved.has
                THEN [saved EXCEPT !.row = Lesser(saved.row, r - 1),
                                   !.col = Lesser(saved.col, c - 1)]
                ELSE saved
    /\ backup' = [FreshPage(c, r) EXCEPT !.pen = backup.pen]
    /\ damage' = Mark(NoDamage, 0, 0, r, c)
    /\ shown' = Filled(c, r, Unpainted)
    /\ UNCHANGED <<modeVars, pen, altActive>>

-----------------------------------------------------------------------------
(* Rendering. *)

\* Terminal::render_dirty takes the damage and draws every row of it.
RenderDirty ==
    /\ damage' = NoDamage
    /\ shown' = [r \in Row |-> [c \in Col |->
                    IF InDamage(damage, r, c) THEN grid[r][c] ELSE shown[r][c]]]
    /\ UNCHANGED <<sizeVars, cursorVars, modeVars, regionVars, penVars, altVars, grid>>

\* The compositor asks for a region again (ui_root::invalidate paints it
\* black before every layer repaints itself).
MarkRegion(r0, c0, r1, c1) ==
    /\ damage' = Mark(damage, r0, c0, r1, c1)
    /\ shown' = [r \in Row |-> [c \in Col |->
                    IF r0 <= r /\ r < r1 /\ c0 <= c /\ c < c1
                    THEN Unpainted ELSE shown[r][c]]]
    /\ UNCHANGED <<sizeVars, cursorVars, modeVars, regionVars, penVars, altVars, grid>>

-----------------------------------------------------------------------------

Init ==
    /\ cols = InitialSize[1]
    /\ rows = InitialSize[2]
    /\ grid = Filled(cols, rows, DefaultCell)
    /\ cursorRow = 0 /\ cursorCol = 0 /\ wrapPending = FALSE
    /\ autowrap = TRUE /\ cursorVisible = TRUE
    /\ scrollTop = 0 /\ scrollBot = rows
    /\ pen = DefaultPen /\ saved = NothingSaved
    /\ damage = NoDamage
    /\ backup = FreshPage(cols, rows) /\ altActive = FALSE
    /\ shown = Filled(cols, rows, DefaultCell)   \* the display starts black

PrintChar ==
    \/ \E ch \in Narrow : PutNarrow(ch)
    \/ \E ch \in Wide : PutWide(ch)

Move ==
    \/ Backspace \/ Tab \/ CarriageReturn
    \/ \E p \in Params : LET n == IF p = 0 THEN 1 ELSE p IN
           \/ MoveBy(-n, 0) \/ MoveBy(n, 0) \/ MoveBy(0, n) \/ MoveBy(0, -n)
           \/ MoveTo(cursorRow + n, 0) \/ MoveTo(cursorRow - n, 0)
           \/ MoveTo(cursorRow, n - 1) \/ MoveTo(n - 1, cursorCol)
    \/ \E p, q \in Params :
           \/ MoveTo((IF p = 0 THEN 1 ELSE p) - 1, (IF q = 0 THEN 1 ELSE q) - 1)
           \/ SetScrollRegion(p, q)
    \/ SaveCursor \/ RestoreCursor
    \/ \E p \in Pens : SetPen(p)
    \/ \E wrap, visible \in BOOLEAN : SetModes(wrap, visible)

\* Edits of whole lines, which cannot part the halves of a pair.
LineEdit ==
    \/ LineFeed \/ NextLine \/ ReverseIndex
    \/ \E p \in Params :
           \/ ScrollUp(Count(p)) \/ ScrollDown(Count(p))
           \/ InsertLines(Count(p)) \/ DeleteLines(Count(p))

CharEdit ==
    \/ \E p \in Params :
           InsertChars(Count(p)) \/ DeleteChars(Count(p)) \/ EraseChars(Count(p))
    \/ \E mode \in 0 .. 2 : EraseLine(mode) \/ EraseDisplay(mode)

Page == Reset \/ EnterAltScreen \/ ExitAltScreen

Regrid == \E z \in Sizes : Resize(z[1], z[2])

Paint ==
    \/ RenderDirty
    \/ \E r0 \in Row, c0 \in Col : \E r1 \in r0 .. rows, c1 \in c0 .. cols :
           MarkRegion(r0, c0, r1, c1)

Next == PrintChar \/ Move \/ LineEdit \/ CharEdit \/ Page \/ Regrid \/ Paint

Spec == Init /\ [][Next]_vars

-----------------------------------------------------------------------------
(* Properties. *)

SavedState == {NothingSaved} \cup [has : {TRUE}, row : Row, col : Col, pen : Pens]

PageState ==
    [grid : [Row -> [Col -> Cell]], cursorRow : Row, cursorCol : Col,
     wrapPending : BOOLEAN, scrollTop : Row, scrollBot : 1 .. rows,
     pen : Pens, saved : SavedState]

\* Type and bounds: every index the program dereferences without a check
\* (the cursor, the region, the saved cursor, the damage handed to the
\* renderer, and those of the page that is swapped in later) is in the grid
\* of the current size.
TypeOK ==
    /\ <<cols, rows>> \in Sizes
    /\ grid \in [Row -> [Col -> Cell]]
    /\ cursorRow \in Row /\ cursorCol \in Col /\ wrapPending \in BOOLEAN
    /\ autowrap \in BOOLEAN /\ cursorVisible \in BOOLEAN
    /\ scrollTop \in Row /\ scrollBot \in 1 .. rows /\ scrollTop < scrollBot
    /\ pen \in Pens /\ saved \in SavedState
    /\ damage \in [row0 : Nat, col0 : Nat, row1 : 0 .. rows, col1 : 0 .. cols]
    /\ backup \in PageState /\ backup.scrollTop < backup.scrollBot
    /\ altActive \in BOOLEAN
    /\ shown \in [Row -> [Col -> Cell \cup {Unpainted}]]

\* What the display shows differs from the grid only where damage is
\* pending: no edit, page switch or resize loses a repaint (put_char with the
\* orphans it blanks, scrolling, the one-rectangle hull of mark_rect).
DisplayFaithful ==
    \A r \in Row, c \in Col :
        shown[r][c] # grid[r][c] => InDamage(damage, r, c)

\* A deferred wrap is only pending on the last column, on the active page and
\* on the one that comes back when the alternate screen is left; otherwise
\* the next character would jump to a new line in mid-line.
WrapOnlyAtMargin ==
    /\ wrapPending => cursorCol = cols - 1
    /\ backup.wrapPending => backup.cursorCol = cols - 1

Paired(line) ==
    \A c \in DOMAIN line :
        /\ line[c].half = "wide" => c + 1 < cols /\ line[c + 1].half = "cont"
        /\ line[c].half = "cont" => c > 0 /\ line[c - 1].half = "wide"

\* screen.hpp, on clear_orphan_pair: "so the renderer never sees a dangling
\* wide / wide_cont flag".
NoDanglingPair == \A r \in Row : Paired(grid[r])

PagesPaired == NoDanglingPair /\ \A r \in Row : Paired(backup.grid[r])

\* Only an edit inside a line or a resize can part a pair: printing over one,
\* moving the cursor, scrolling, switching pages and rendering keep it whole.
PairsSurvive ==
    [][ PagesPaired /\ ~ PagesPaired' => CharEdit \/ Regrid ]_vars

\* While the alternate screen is up, the main page is exactly what it was,
\* whatever the application draws, resets or saves (a resize clears it).
MainPagePreserved ==
    [][ altActive /\ altActive' /\ UNCHANGED sizeVars => UNCHANGED backup ]_vars

\* A line outside the scroll region that the cursor neither leaves nor enters
\* changes only in an erase or a change of page or size: no print, line feed,
\* scroll or line insertion reaches over the edge of the region.
ScrollConfined ==
    [][ (UNCHANGED sizeVars /\ \E r \in Row \ {cursorRow, cursorRow'} :
            r \notin scrollTop .. scrollBot - 1 /\ grid'[r] # grid[r])
        => CharEdit \/ Page ]_vars
=============================================================================
