---------------------------- MODULE TerminalProofs ----------------------------
(***************************************************************************)
(* Proofs about the terminal.                                              *)
(*                                                                         *)
(* The screen, for every grid size, alphabet and set of parameters: its    *)
(* indices stay in bounds, no repaint is lost, a deferred wrap stays at    *)
(* the margin, the page that waits is left alone, scrolling stays in the   *)
(* region, and only edits inside a line part wide characters.              *)
(*                                                                         *)
(* The parser, for every set of bytes and every size of the arrays: it     *)
(* stays within its arrays (WithinItsArrays), and what it has read before  *)
(* the last time it was idle has no say in what it reports after it        *)
(* (Forgets).  Each invariant has one lemma for each handler of feed();    *)
(* those of the first rest on one lemma for each array or number of the    *)
(* record.                                                                 *)
(*                                                                         *)
(* What the parser reports is what the stream says (SaysWhatIsWritten),    *)
(* except from an ESC or a DEL within a sequence to the next rest.         *)
(* The invariant gives the record a meaning: in each state it holds what   *)
(* the bytes of the sequence begun write so far (SequenceSeen), and those  *)
(* of the character begun (TextSeen).  That a digit more makes ten times   *)
(* the number and a digit, where the number is defined as a sum over its   *)
(* digits, takes an induction over the digits (SumTenfold, SumOfOneMore).  *)
(***************************************************************************)
EXTENDS Screen, ControlSequences, SequenceTheorems, FiniteSetTheorems,
        WellFoundedInduction, TLAPS


Rect == [row0 : Nat, col0 : Nat, row1 : Nat, col1 : Nat]

Lines == [Col -> Cell]

Stage == [grid : [Row -> Lines],
          damage : [row0 : Nat, col0 : Nat, row1 : 0 .. rows, col1 : 0 .. cols],
          row : Row, col : Col]

-----------------------------------------------------------------------------
(* The damage rectangle. *)

\* Marking yields a rectangle no larger than what bounds both its arguments.
LEMMA MarkType ==
    ASSUME NEW R \in Nat, NEW C \in Nat,
           NEW d \in [row0 : Nat, col0 : Nat, row1 : 0 .. R, col1 : 0 .. C],
           NEW r0 \in Nat, NEW c0 \in Nat, NEW r1 \in 0 .. R, NEW c1 \in 0 .. C
    PROVE  Mark(d, r0, c0, r1, c1) \in
               [row0 : Nat, col0 : Nat, row1 : 0 .. R, col1 : 0 .. C]
BY DEF Mark, IsEmpty, Lesser, Greater

\* Marking loses no damage.
LEMMA MarkKeeps ==
    ASSUME NEW d \in Rect, NEW r0 \in Nat, NEW c0 \in Nat, NEW r1 \in Nat,
           NEW c1 \in Nat, NEW r \in Nat, NEW c \in Nat, InDamage(d, r, c)
    PROVE  InDamage(Mark(d, r0, c0, r1, c1), r, c)
BY DEF Mark, IsEmpty, Lesser, Greater, InDamage, Rect

\* Everything marked is damaged.
LEMMA MarkCovers ==
    ASSUME NEW d \in Rect, NEW r0 \in Nat, NEW c0 \in Nat, NEW r1 \in Nat,
           NEW c1 \in Nat, NEW r \in r0 .. r1 - 1, NEW c \in c0 .. c1 - 1
    PROVE  InDamage(Mark(d, r0, c0, r1, c1), r, c)
BY DEF Mark, IsEmpty, Lesser, Greater, InDamage, Rect

-----------------------------------------------------------------------------
(* The helpers return lines and grids of the size they were given. *)

LEMMA BlankType == TypeOK => Blank \in Cell /\ BlankLine \in Lines
BY SpaceIsNarrow DEF TypeOK, Blank, BlankLine, Lines, Cell

LEMMA DefaultCellType == DefaultCell \in Cell
BY SpaceIsNarrow, DefaultPenIsAPen DEF DefaultCell, Cell

LEMMA SizeType == TypeOK => cols \in Nat /\ cols >= 2 /\ rows \in Nat /\ rows >= 1
BY SizesFitAPair DEF TypeOK

\* Scrolling looks no further than the grid.
LEMMA ShiftType ==
    ASSUME TypeOK, NEW g \in [Row -> Lines], NEW top \in Nat,
           NEW bot \in 0 .. rows, NEW n \in Nat
    PROVE  /\ ShiftedUp(g, top, bot, n) \in [Row -> Lines]
           /\ ShiftedDown(g, top, bot, n) \in [Row -> Lines]
<1>1. cols \in Nat /\ rows \in Nat /\ BlankLine \in Lines
  BY BlankType, SizeType
<1>2. ShiftedUp(g, top, bot, n) \in [Row -> Lines]
  BY ONLY <1>1, g \in [Row -> Lines], top \in Nat, bot \in 0 .. rows, n \in Nat
     DEF ShiftedUp, Row
<1>3. ShiftedDown(g, top, bot, n) \in [Row -> Lines]
  BY ONLY <1>1, g \in [Row -> Lines], top \in Nat, bot \in 0 .. rows, n \in Nat
     DEF ShiftedDown, Row
<1>4. QED
  BY <1>2, <1>3

LEMMA HereType == TypeOK => Here \in Stage
BY DEF TypeOK, Here, Stage, Lines

LEMMA LineFedType ==
    ASSUME TypeOK, NEW s \in Stage
    PROVE  LineFed(s) \in Stage /\ LineFed(s).col = s.col
<1>1. scrollTop \in Nat /\ scrollBot \in 0 .. rows /\ cols \in 0 .. cols
  BY SizeType DEF TypeOK, Row
<1>2. ShiftedUp(s.grid, scrollTop, scrollBot, 1) \in [Row -> Lines]
  BY <1>1, ShiftType DEF Stage
<1>3. Mark(s.damage, scrollTop, 0, scrollBot, cols) \in
          [row0 : Nat, col0 : Nat, row1 : 0 .. rows, col1 : 0 .. cols]
  BY <1>1, SizeType, MarkType DEF Stage
<1>4. s.row + 1 < rows => s.row + 1 \in Row
  BY SizeType DEF Stage, Row
<1>5. QED
  BY <1>2, <1>3, <1>4 DEF LineFed, Stage

LEMMA StartLineType ==
    ASSUME TypeOK, NEW s \in Stage
    PROVE  StartLine(s) \in Stage /\ StartLine(s).col = 0
BY LineFedType, SizeType DEF StartLine, Stage, Col

\* put_char starts on a cell of the grid.
LEMMA UnwrappedType ==
    ASSUME TypeOK
    PROVE  /\ Unwrapped \in Stage
           /\ wrapPending => Unwrapped.col = 0
           /\ ~ wrapPending => Unwrapped.col = cursorCol
BY HereType, StartLineType DEF Unwrapped, Here

LEMMA UnpairedType ==
    ASSUME TypeOK, NEW line \in Lines, NEW c \in Col
    PROVE  Unpaired(line, c) \in Lines
BY BlankType DEF Unpaired, Lines

LEMMA WrittenLineType ==
    ASSUME TypeOK, NEW line \in Lines, NEW c \in Col
    PROVE  /\ \A ch \in Narrow : NarrowLine(line, c, ch) \in Lines
           /\ c + 1 \in Col => \A ch \in Wide : WideLine(line, c, ch) \in Lines
<1>1. pen \in Pens
  BY DEF TypeOK
<1>2. ASSUME NEW ch \in Narrow PROVE NarrowLine(line, c, ch) \in Lines
  BY <1>1, UnpairedType DEF NarrowLine, Lines, Cell
<1>3. ASSUME c + 1 \in Col, NEW ch \in Wide PROVE WideLine(line, c, ch) \in Lines
  <2>1. Unpaired(Unpaired(line, c), c + 1) \in Lines
    BY <1>3, UnpairedType
  <2>2. QED
    BY <1>1, <2>1, SpaceIsNarrow DEF WideLine, Lines, Cell
<1>4. QED
  BY <1>2, <1>3

\* The columns put_char marks are columns of the grid.
LEMMA WrittenSpan ==
    ASSUME TypeOK, NEW line \in Lines, NEW c \in Col
    PROVE  /\ FirstWritten(line, c) \in 0 .. c
           /\ AfterNarrow(line, c) \in c + 1 .. cols
           /\ c + 1 \in Col => AfterWide(line, c) \in c + 2 .. cols
BY SizeType DEF FirstWritten, AfterNarrow, AfterWide, OrphanLeft, OrphanRight, Col

-----------------------------------------------------------------------------
(* Type correctness, action by action. *)

\* Everything of TypeOK but the size stays typed when only these change.
Untouched == UNCHANGED <<sizeVars, modeVars, regionVars, penVars, altVars, shown>>

LEMMA RowCol == UNCHANGED sizeVars => Row' = Row /\ Col' = Col
BY DEF sizeVars, Row, Col

\* An edit that produces a typed grid, damage rectangle and cursor is typed.
LEMMA EditTyped ==
    ASSUME TypeOK, Untouched,
           grid' \in [Row -> [Col -> Cell]],
           damage' \in [row0 : Nat, col0 : Nat, row1 : 0 .. rows, col1 : 0 .. cols],
           cursorRow' \in Row, cursorCol' \in Col, wrapPending' \in BOOLEAN
    PROVE  TypeOK'
<1>1. Row' = Row /\ Col' = Col /\ rows' = rows /\ cols' = cols
  BY DEF Untouched, sizeVars, Row, Col
<1>2. SavedState' = SavedState /\ PageState' = PageState
  BY <1>1 DEF SavedState, PageState
<1>3. QED
  BY <1>1, <1>2 DEF TypeOK, Untouched, sizeVars, modeVars, regionVars, penVars, altVars

LEMMA PutNarrowType ==
    ASSUME TypeOK, NEW ch \in Narrow, PutNarrow(ch)
    PROVE  TypeOK'
<1> DEFINE s == Unwrapped
           line == s.grid[s.row]
<1>1. s \in Stage /\ s.row \in Row /\ s.col \in Col /\ line \in Lines
  BY UnwrappedType DEF Stage
<1>2. NarrowLine(line, s.col, ch) \in Lines
  BY <1>1, WrittenLineType
<1>3. grid' \in [Row -> [Col -> Cell]]
  BY <1>1, <1>2 DEF PutNarrow, Stage, Lines
<1>4. /\ FirstWritten(line, s.col) \in Nat
      /\ AfterNarrow(line, s.col) \in 0 .. cols
      /\ s.row \in Nat /\ s.row + 1 \in 0 .. rows
  BY <1>1, WrittenSpan, SizeType DEF Row, Col
<1>5. damage' \in [row0 : Nat, col0 : Nat, row1 : 0 .. rows, col1 : 0 .. cols]
  <2>1. s.damage \in [row0 : Nat, col0 : Nat, row1 : 0 .. rows, col1 : 0 .. cols]
    BY <1>1 DEF Stage
  <2>2. damage' = Mark(s.damage, s.row, FirstWritten(line, s.col),
                       s.row + 1, AfterNarrow(line, s.col))
    BY DEF PutNarrow
  <2>3. QED
    BY <1>4, <2>1, <2>2, SizeType, MarkType
<1>6. cursorRow' \in Row /\ cursorCol' \in Col /\ wrapPending' \in BOOLEAN
  BY <1>1, SizeType DEF PutNarrow, Lesser, Col, TypeOK
<1>7. QED
  BY <1>3, <1>5, <1>6, EditTyped DEF PutNarrow, Untouched

LEMMA WideStage ==
    ASSUME TypeOK, NoRoom(Unwrapped) => autowrap,
           NEW s, s = IF NoRoom(Unwrapped) THEN StartLine(Unwrapped) ELSE Unwrapped
    PROVE  s \in Stage /\ s.row \in Row /\ s.col \in Col /\ s.col + 1 \in Col
<1>1. Unwrapped \in Stage /\ Unwrapped.col \in Col
  BY UnwrappedType DEF Stage
<1>2. s \in Stage /\ (NoRoom(Unwrapped) => s.col = 0)
  BY <1>1, StartLineType
<1>3. s.col + 1 \in Col
  BY <1>1, <1>2, SizeType DEF NoRoom, Col
<1>4. QED
  BY <1>2, <1>3 DEF Stage

LEMMA PutWideType ==
    ASSUME TypeOK, NEW ch \in Wide, PutWide(ch)
    PROVE  TypeOK'
<1> DEFINE s == IF NoRoom(Unwrapped) THEN StartLine(Unwrapped) ELSE Unwrapped
           line == s.grid[s.row]
<1>1. s \in Stage /\ s.row \in Row /\ s.col \in Col /\ s.col + 1 \in Col
  BY WideStage DEF PutWide
<1>2. line \in Lines
  BY <1>1 DEF Stage
<1>3. WideLine(line, s.col, ch) \in Lines
  BY <1>1, <1>2, WrittenLineType
<1>4. grid' \in [Row -> [Col -> Cell]]
  BY <1>1, <1>3 DEF PutWide, Stage, Lines
<1>5. /\ FirstWritten(line, s.col) \in Nat
      /\ AfterWide(line, s.col) \in 0 .. cols
      /\ s.row \in Nat /\ s.row + 1 \in 0 .. rows
  BY <1>1, <1>2, WrittenSpan, SizeType DEF Row, Col
<1>6. damage' \in [row0 : Nat, col0 : Nat, row1 : 0 .. rows, col1 : 0 .. cols]
  <2>1. s.damage \in [row0 : Nat, col0 : Nat, row1 : 0 .. rows, col1 : 0 .. cols]
    BY <1>1 DEF Stage
  <2>2. damage' = Mark(s.damage, s.row, FirstWritten(line, s.col),
                       s.row + 1, AfterWide(line, s.col))
    BY DEF PutWide
  <2>3. QED
    BY <1>5, <2>1, <2>2, SizeType, MarkType
<1>7. cursorRow' \in Row /\ cursorCol' \in Col /\ wrapPending' \in BOOLEAN
  <2>1. /\ cursorRow' = s.row
        /\ cursorCol' = Lesser(s.col + 2, cols - 1)
        /\ wrapPending' = (autowrap /\ s.col + 2 >= cols)
    BY DEF PutWide
  <2>2. Lesser(s.col + 2, cols - 1) \in Col
    <3> HIDE DEF s
    <3> QED BY <1>1, SizeType DEF Lesser, Col
  <2>3. QED
    BY <1>1, <2>1, <2>2 DEF TypeOK
<1>8. QED
  BY <1>4, <1>6, <1>7, EditTyped DEF PutWide, Untouched

LEMMA ClampType ==
    ASSUME NEW v \in Int, NEW top \in Nat
    PROVE  ClampPos(v, top) \in 0 .. top
BY DEF ClampPos, Lesser

LEMMA PlaceCursorType ==
    ASSUME TypeOK, NEW r \in Int, NEW c \in Int, PlaceCursor(r, c)
    PROVE  cursorRow' \in Row /\ cursorCol' \in Col /\ wrapPending' = FALSE
BY SizeType, ClampType DEF PlaceCursor, Row, Col

\* What only moves the cursor, sets the region or the pen is typed.
LEMMA NoEditTyped ==
    ASSUME TypeOK, UNCHANGED <<sizeVars, paintVars, altVars, shown>>,
           cursorRow' \in Row, cursorCol' \in Col, wrapPending' \in BOOLEAN,
           autowrap' \in BOOLEAN, cursorVisible' \in BOOLEAN,
           scrollTop' \in Row, scrollBot' \in 1 .. rows, scrollTop' < scrollBot',
           pen' \in Pens, saved' \in SavedState
    PROVE  TypeOK'
<1>1. Row' = Row /\ Col' = Col /\ rows' = rows /\ cols' = cols
  BY DEF sizeVars, Row, Col
<1>2. SavedState' = SavedState /\ PageState' = PageState
  BY <1>1 DEF SavedState, PageState
<1>3. QED
  BY <1>1, <1>2 DEF TypeOK, sizeVars, paintVars, altVars

LEMMA MoveType ==
    ASSUME TypeOK, Move
    PROVE  TypeOK'
<1> USE DEF NoEdit, modeVars, regionVars, penVars
<1>1. cursorRow \in Int /\ cursorCol \in Int /\ rows \in Nat /\ cols \in Nat
  BY SizeType DEF TypeOK, Row, Col
<1>2. ASSUME NEW r \in Int, NEW c \in Int, PlaceCursor(r, c), NoEdit,
             UNCHANGED <<regionVars, penVars>>
      PROVE  TypeOK'
  BY <1>2, PlaceCursorType, NoEditTyped DEF TypeOK
<1>3. CASE Backspace \/ Tab \/ CarriageReturn
  BY <1>1, <1>2, <1>3 DEF Backspace, Tab, CarriageReturn, TabWidth
<1>4. ASSUME NEW r \in Int, NEW c \in Int, MoveTo(r, c)
      PROVE  TypeOK'
  BY <1>2, <1>4 DEF MoveTo
<1>5. ASSUME NEW r \in Int, NEW c \in Int, MoveBy(r, c)
      PROVE  TypeOK'
  BY <1>1, <1>2, <1>5 DEF MoveBy
<1>6. ASSUME NEW top \in Nat, NEW bot \in Nat, SetScrollRegion(top, bot)
      PROVE  TypeOK'
  <2>1. scrollTop' \in Row /\ scrollBot' \in 1 .. rows /\ scrollTop' < scrollBot'
    BY <1>6, SizeType DEF SetScrollRegion, Greater, Lesser, Row
  <2>2. PlaceCursor(0, 0) /\ NoEdit /\ UNCHANGED penVars
    BY <1>6 DEF SetScrollRegion
  <2>3. cursorRow' \in Row /\ cursorCol' \in Col /\ wrapPending' = FALSE
    <3>1. PlaceCursor(0, 0)
      BY <2>2
    <3>2. cols \in Nat /\ cols >= 2 /\ rows \in Nat /\ rows >= 1
      BY SizeType
    <3>3. QED
      BY <3>1, <3>2 DEF PlaceCursor, ClampPos, Lesser, Row, Col
  <2>4. /\ autowrap' \in BOOLEAN /\ cursorVisible' \in BOOLEAN
        /\ pen' \in Pens /\ saved' \in SavedState
    BY <2>2 DEF TypeOK, SavedState, Row, Col, sizeVars
  <2>5. QED
    BY <2>1, <2>2, <2>3, <2>4, NoEditTyped
<1>7. CASE SaveCursor
  <2>1. saved' \in SavedState
    BY <1>7 DEF SaveCursor, SavedState, TypeOK
  <2>2. QED
    BY <1>7, <2>1, NoEditTyped DEF SaveCursor, TypeOK, cursorVars
<1>8. CASE RestoreCursor
  <2>0. saved \in [has : {TRUE}, row : Row, col : Col, pen : Pens]
    <3>1. saved.has /\ saved \in SavedState
      BY <1>8 DEF RestoreCursor, TypeOK
    <3>2. saved # NothingSaved
      BY <3>1 DEF NothingSaved
    <3>3. QED
      BY <3>1, <3>2 DEF SavedState
  <2>1. saved.row \in Int /\ saved.col \in Int /\ saved.pen \in Pens
    BY <2>0, <1>1 DEF Row, Col
  <2>2. QED
    BY <1>8, <2>1, PlaceCursorType, NoEditTyped DEF RestoreCursor, TypeOK
<1>9. ASSUME NEW q \in Pens, SetPen(q)
      PROVE  TypeOK'
  BY <1>9, NoEditTyped DEF SetPen, TypeOK, cursorVars
<1>10. ASSUME NEW wrap \in BOOLEAN, NEW visible \in BOOLEAN, SetModes(wrap, visible)
       PROVE  TypeOK'
  BY <1>10, NoEditTyped DEF SetModes, TypeOK, cursorVars
<1>11. ASSUME NEW q \in Params, NEW n \in Nat,
              \/ MoveBy(-n, 0) \/ MoveBy(n, 0) \/ MoveBy(0, n) \/ MoveBy(0, -n)
              \/ MoveTo(cursorRow + n, 0) \/ MoveTo(cursorRow - n, 0)
              \/ MoveTo(cursorRow, n - 1) \/ MoveTo(n - 1, cursorCol)
       PROVE  TypeOK'
  BY <1>1, <1>4, <1>5, <1>11
<1>12. QED
  BY <1>3, <1>4, <1>6, <1>7, <1>8, <1>9, <1>10, <1>11, ParamsAreNat DEF Move

LEMMA CountType == ASSUME NEW q \in Params PROVE Count(q) \in Nat
<1>1. q \in Nat
  BY ParamsAreNat
<1>2. QED
  BY <1>1 DEF Count, U16

\* The facts about the current state the edits below share.
LEMMA StateFacts ==
    ASSUME TypeOK
    PROVE  /\ cols \in Nat /\ cols >= 2 /\ rows \in Nat /\ rows >= 1
           /\ cursorRow \in 0 .. rows - 1 /\ cursorCol \in 0 .. cols - 1
           /\ scrollTop \in 0 .. rows - 1 /\ scrollBot \in 1 .. rows
           /\ scrollTop < scrollBot
           /\ grid \in [Row -> Lines]
           /\ damage \in [row0 : Nat, col0 : Nat, row1 : 0 .. rows, col1 : 0 .. cols]
BY SizeType DEF TypeOK, Row, Col, Lines

LEMMA LineEditType ==
    ASSUME TypeOK, LineEdit
    PROVE  TypeOK'
<1> DEFINE Damage == [row0 : Nat, col0 : Nat, row1 : 0 .. rows, col1 : 0 .. cols]
<1> USE StateFacts DEF Untouched, EditOnly
<1>0. wrapPending \in BOOLEAN /\ cursorRow \in Row /\ cursorCol \in Col
  BY DEF TypeOK
<1>1. CASE LineFeed
  <2>1. LineFed(Here) \in Stage
    BY HereType, LineFedType
  <2>2. QED
    BY <1>0, <1>1, <2>1, EditTyped DEF LineFeed, Stage, Lines
<1>2. CASE NextLine
  <2>1. StartLine(Here) \in Stage /\ 0 \in Col
    BY HereType, StartLineType DEF Col
  <2>2. QED
    BY <1>2, <2>1, EditTyped DEF NextLine, Stage, Lines
<1>3. ASSUME NEW top \in Row PROVE Mark(damage, top, 0, scrollBot, cols) \in Damage
  <2>1. top \in Nat /\ scrollBot \in 0 .. rows /\ cols \in 0 .. cols
    BY <1>3 DEF Row
  <2>2. QED
    BY <2>1, MarkType
<1>4. ASSUME NEW top \in Row, NEW n \in Nat
      PROVE  /\ ShiftedUp(grid, top, scrollBot, n) \in [Row -> [Col -> Cell]]
             /\ ShiftedDown(grid, top, scrollBot, n) \in [Row -> [Col -> Cell]]
  <2>1. top \in Nat /\ scrollBot \in 0 .. rows
    BY <1>4 DEF Row
  <2>2. QED
    BY <2>1, ShiftType DEF Lines
<1>5. scrollTop \in Row /\ cursorRow \in Row
  BY DEF Row
<1>6. CASE ReverseIndex
  <2>1. CASE cursorRow = scrollTop
    <3>1. /\ grid' = ShiftedDown(grid, scrollTop, scrollBot, 1)
          /\ damage' = Mark(damage, scrollTop, 0, scrollBot, cols)
          /\ cursorRow' = cursorRow /\ cursorCol' = cursorCol /\ wrapPending' = FALSE
          /\ Untouched
      BY <1>6, <2>1 DEF ReverseIndex
    <3>2. QED
      BY <1>0, <1>3, <1>4, <1>5, <3>1, EditTyped
  <2>2. CASE cursorRow # scrollTop
    <3>1. ClampPos(cursorRow - 1, rows - 1) \in Row
      BY DEF ClampPos, Lesser, Row
    <3>2. /\ grid' = grid /\ damage' = damage
          /\ cursorRow' = ClampPos(cursorRow - 1, rows - 1)
          /\ cursorCol' = cursorCol /\ wrapPending' = FALSE
          /\ Untouched
      BY <1>6, <2>2 DEF ReverseIndex, paintVars
    <3>3. QED
      BY <1>0, <3>1, <3>2, EditTyped DEF Lines
  <2>3. QED
    BY <2>1, <2>2
<1>7. ASSUME NEW n \in Nat, ScrollUp(n) \/ ScrollDown(n)
      PROVE  TypeOK'
  <2>1. grid' \in [Row -> [Col -> Cell]] /\ damage' \in Damage
    <3>1. damage' = Mark(damage, scrollTop, 0, scrollBot, cols)
      BY <1>7 DEF ScrollUp, ScrollDown
    <3>2. \/ grid' = ShiftedUp(grid, scrollTop, scrollBot, n)
          \/ grid' = ShiftedDown(grid, scrollTop, scrollBot, n)
      BY <1>7 DEF ScrollUp, ScrollDown
    <3>3. QED
      BY ONLY <1>3, <1>4, <1>5, <1>7, <3>1, <3>2
  <2>2. /\ cursorRow' = cursorRow /\ cursorCol' = cursorCol
        /\ wrapPending' = wrapPending /\ Untouched
    BY <1>7 DEF ScrollUp, ScrollDown, cursorVars
  <2>3. QED
    BY <1>0, <2>1, <2>2, EditTyped
<1>8. ASSUME NEW n \in Nat, InsertLines(n) \/ DeleteLines(n)
      PROVE  TypeOK'
  <2>1. Clipped(n, scrollBot - cursorRow) \in Nat
    BY <1>8 DEF InsertLines, DeleteLines, InScrollRegion, Clipped, Lesser
  <2>2. cursorRow' \in Row /\ cursorCol' \in Col /\ wrapPending' = FALSE
    BY <1>8 DEF InsertLines, DeleteLines, PlaceCursor, ClampPos, Lesser, Row, Col
  <2>3. grid' \in [Row -> [Col -> Cell]] /\ damage' \in Damage
    <3> DEFINE k == Clipped(n, scrollBot - cursorRow)
    <3>1. damage' = Mark(damage, cursorRow, 0, scrollBot, cols)
      BY <1>8 DEF InsertLines, DeleteLines
    <3>2. \/ grid' = ShiftedUp(grid, cursorRow, scrollBot, k)
          \/ grid' = ShiftedDown(grid, cursorRow, scrollBot, k)
      BY <1>8 DEF InsertLines, DeleteLines
    <3>3. QED
      BY ONLY <1>3, <1>4, <1>5, <2>1, <3>1, <3>2
  <2>4. Untouched
    BY <1>8 DEF InsertLines, DeleteLines
  <2>5. QED
    BY ONLY <2>2, <2>3, <2>4, TypeOK, EditTyped
<1>9. QED
  BY <1>1, <1>2, <1>6, <1>7, <1>8, CountType DEF LineEdit

\* An edit inside the cursor's line is typed.
LEMMA EditLineType ==
    ASSUME TypeOK, NEW line \in Lines, NEW end \in 0 .. cols, EditLine(line, end)
    PROVE  TypeOK'
<1> USE StateFacts
<1>1. grid' \in [Row -> [Col -> Cell]]
  BY DEF EditLine, Lines
<1>2. Mark(damage, cursorRow, cursorCol, cursorRow + 1, end) \in
          [row0 : Nat, col0 : Nat, row1 : 0 .. rows, col1 : 0 .. cols]
  <2>1. cursorRow \in Nat /\ cursorCol \in Nat /\ cursorRow + 1 \in 0 .. rows
    OBVIOUS
  <2>2. QED
    BY <2>1, MarkType
<1>3. cursorRow' \in Row /\ cursorCol' \in Col /\ wrapPending' \in BOOLEAN
  BY DEF EditLine, Row, Col
<1>4. QED
  BY <1>1, <1>2, <1>3, EditTyped DEF EditLine, EditOnly, Untouched

LEMMA ShiftedLineType ==
    ASSUME TypeOK, NEW line \in Lines, NEW m \in Nat
    PROVE  /\ [c \in Col |-> IF c < cursorCol THEN line[c]
                  ELSE IF c - m >= cursorCol THEN line[c - m] ELSE Blank] \in Lines
           /\ [c \in Col |-> IF c < cursorCol THEN line[c]
                  ELSE IF c + m < cols THEN line[c + m] ELSE Blank] \in Lines
<1>1. Blank \in Cell /\ cursorCol \in Nat /\ cols \in Nat
  BY BlankType, StateFacts
<1>2. ASSUME NEW c \in Col
      PROVE  /\ line[c] \in Cell
             /\ c - m >= cursorCol => line[c - m] \in Cell
             /\ c + m < cols => line[c + m] \in Cell
  BY <1>1 DEF Lines, Col
<1>3. QED
  BY <1>1, <1>2 DEF Lines

LEMMA CharEditType ==
    ASSUME TypeOK, CharEdit
    PROVE  TypeOK'
<1> USE StateFacts
<1>1. Blank \in Cell /\ grid[cursorRow] \in [Col -> Cell]
  BY BlankType DEF Row, Lines
<1>2. cols \in 0 .. cols
  OBVIOUS
<1>3. ASSUME NEW n \in Nat, InsertChars(n) PROVE TypeOK'
  <2> DEFINE k == Clipped(n, cols - cursorCol)
             line == [c \in Col |-> IF c < cursorCol THEN grid[cursorRow][c]
                          ELSE IF c - k >= cursorCol THEN grid[cursorRow][c - k] ELSE Blank]
  <2>1. k \in Nat
    BY DEF Clipped, Lesser
  <2>2. line \in Lines
    <3>1. grid[cursorRow] \in Lines
      BY <1>1 DEF Lines
    <3>2. QED
      BY <2>1, <3>1, ShiftedLineType
  <2>3. EditLine(line, cols)
    BY <1>3 DEF InsertChars
  <2>4. QED
    BY <1>2, <2>2, <2>3, EditLineType
<1>4. ASSUME NEW n \in Nat, DeleteChars(n) PROVE TypeOK'
  <2> DEFINE k == Clipped(n, cols - cursorCol)
             line == [c \in Col |-> IF c < cursorCol THEN grid[cursorRow][c]
                          ELSE IF c + k < cols THEN grid[cursorRow][c + k] ELSE Blank]
  <2>1. k \in Nat
    BY DEF Clipped, Lesser
  <2>2. line \in Lines
    <3>1. grid[cursorRow] \in Lines
      BY <1>1 DEF Lines
    <3>2. QED
      BY <2>1, <3>1, ShiftedLineType
  <2>3. EditLine(line, cols)
    BY <1>4 DEF DeleteChars
  <2>4. QED
    BY <1>2, <2>2, <2>3, EditLineType
<1>5. ASSUME NEW n \in Nat, EraseChars(n) PROVE TypeOK'
  <2> DEFINE end == Lesser(U16(cursorCol + (IF n = 0 THEN 1 ELSE n)), cols)
             line == [c \in Col |-> IF cursorCol <= c /\ c < end THEN Blank
                                   ELSE grid[cursorRow][c]]
  <2>1. end \in 0 .. cols
    BY DEF Lesser, U16
  <2>2. line \in Lines
    BY <1>1, <2>1 DEF Lines, Col
  <2>3. EditLine(line, end)
    BY <1>5 DEF EraseChars
  <2>4. QED
    BY <2>1, <2>2, <2>3, EditLineType
<1>6. ASSUME NEW mode \in 0 .. 2, NEW line \in BOOLEAN, Erase(mode, line)
      PROVE  grid' \in [Row -> [Col -> Cell]]
  BY <1>1, <1>6 DEF Erase, Lines
<1>7. ASSUME NEW mode \in 0 .. 2, EraseLine(mode) PROVE TypeOK'
  <2>1. grid' \in [Row -> [Col -> Cell]]
    BY <1>6, <1>7 DEF EraseLine
  <2> DEFINE c0 == IF mode = 0 THEN cursorCol ELSE 0
             c1 == IF mode = 1 THEN cursorCol + 1 ELSE cols
  <2>2. c0 \in Nat /\ c1 \in 0 .. cols /\ cursorRow \in Nat /\ cursorRow + 1 \in 0 .. rows
    OBVIOUS
  <2>3. damage' = Mark(damage, cursorRow, c0, cursorRow + 1, c1)
    BY <1>7 DEF EraseLine
  <2>4. damage' \in [row0 : Nat, col0 : Nat, row1 : 0 .. rows, col1 : 0 .. cols]
    BY <2>2, <2>3, MarkType
  <2>5. QED
    BY <1>7, <2>1, <2>4, EditTyped DEF EraseLine, EditOnly, Untouched, cursorVars, TypeOK
<1>8. ASSUME NEW mode \in 0 .. 2, EraseDisplay(mode) PROVE TypeOK'
  <2>1. grid' \in [Row -> [Col -> Cell]]
    BY <1>6, <1>8 DEF EraseDisplay
  <2> DEFINE Damage == [row0 : Nat, col0 : Nat, row1 : 0 .. rows, col1 : 0 .. cols]
  <2>2. /\ cursorRow \in 0 .. rows /\ cursorRow + 1 \in 0 .. rows
        /\ cursorCol + 1 \in 0 .. cols /\ rows \in 0 .. rows /\ 0 \in Nat
        /\ cursorRow \in Nat /\ cursorCol \in Nat /\ cursorRow + 1 \in Nat
    OBVIOUS
  <2>3. /\ Mark(damage, cursorRow, cursorCol, cursorRow + 1, cols) \in Damage
        /\ Mark(damage, 0, 0, cursorRow, cols) \in Damage
        /\ MarkAll(damage) \in Damage
    BY <1>2, <2>2, MarkType DEF MarkAll
  <2>4. damage' \in Damage
    <3>1. CASE mode = 0
      <4>1. damage' = Mark(Mark(damage, cursorRow, cursorCol, cursorRow + 1, cols),
                           cursorRow + 1, 0, rows, cols)
        BY <1>8, <3>1 DEF EraseDisplay
      <4>2. QED
        BY <1>2, <2>2, <2>3, <4>1, MarkType
    <3>2. CASE mode = 1
      <4>1. damage' = Mark(Mark(damage, 0, 0, cursorRow, cols),
                           cursorRow, 0, cursorRow + 1, cursorCol + 1)
        BY <1>8, <3>2 DEF EraseDisplay
      <4>2. QED
        BY <1>2, <2>2, <2>3, <4>1, MarkType
    <3>3. CASE mode = 2
      <4>1. damage' = MarkAll(damage)
        BY <1>8, <3>3 DEF EraseDisplay
      <4>2. QED
        BY <2>3, <4>1
    <3>4. QED
      BY <3>1, <3>2, <3>3
  <2>5. QED
    BY <1>8, <2>1, <2>4, EditTyped DEF EraseDisplay, EditOnly, Untouched, cursorVars, TypeOK
<1>9. QED
  BY <1>3, <1>4, <1>5, <1>7, <1>8, CountType DEF CharEdit

\* A page of the current size: what SavedState, the alternate screen and a
\* reset put in place of the active one.
GoodPage(page) == page \in PageState /\ page.scrollTop < page.scrollBot

LEMMA FreshPageType == TypeOK => GoodPage(FreshPage(cols, rows))
<1> SUFFICES ASSUME TypeOK PROVE GoodPage(FreshPage(cols, rows))
  OBVIOUS
<1>1. cols \in Nat /\ cols >= 2 /\ rows \in Nat /\ rows >= 1
  BY StateFacts
<1>2. Filled(cols, rows, DefaultCell) \in [Row -> [Col -> Cell]]
  BY DefaultCellType DEF Filled, Row, Col
<1>3. NothingSaved \in SavedState
  BY <1>1, DefaultPenIsAPen DEF NothingSaved, SavedState, Row, Col
<1>4. 0 \in Row /\ 0 \in Col /\ rows \in 1 .. rows /\ 0 < rows
  BY <1>1 DEF Row, Col
<1>5. QED
  BY <1>2, <1>3, <1>4, DefaultPenIsAPen DEF GoodPage, FreshPage, PageState

LEMMA CurrentPageType == TypeOK => GoodPage(CurrentPage)
BY DEF TypeOK, GoodPage, CurrentPage, PageState

\* Starting a good page keeps the screen typed.
LEMMA StartPageType ==
    ASSUME TypeOK, NEW page, GoodPage(page), StartPage(page),
           UNCHANGED <<sizeVars, shown>>, GoodPage(backup'), altActive' \in BOOLEAN,
           autowrap' \in BOOLEAN, cursorVisible' \in BOOLEAN
    PROVE  TypeOK'
<1>1. Row' = Row /\ Col' = Col /\ rows' = rows /\ cols' = cols
  BY DEF sizeVars, Row, Col
<1>2. SavedState' = SavedState /\ PageState' = PageState
  BY <1>1 DEF SavedState, PageState
<1>3. MarkAll(damage) \in [row0 : Nat, col0 : Nat, row1 : 0 .. rows, col1 : 0 .. cols]
  <2>1. /\ rows \in 0 .. rows /\ cols \in 0 .. cols /\ rows \in Nat /\ cols \in Nat
        /\ damage \in [row0 : Nat, col0 : Nat, row1 : 0 .. rows, col1 : 0 .. cols]
    BY StateFacts
  <2>2. QED
    BY <2>1, MarkType DEF MarkAll
<1>4. /\ grid' \in [Row -> [Col -> Cell]]
      /\ cursorRow' \in Row /\ cursorCol' \in Col /\ wrapPending' \in BOOLEAN
      /\ scrollTop' \in Row /\ scrollBot' \in 1 .. rows /\ scrollTop' < scrollBot'
      /\ pen' \in Pens /\ saved' \in SavedState
  BY DEF StartPage, GoodPage, PageState
<1>5. damage' \in [row0 : Nat, col0 : Nat, row1 : 0 .. rows, col1 : 0 .. cols]
  BY <1>3 DEF StartPage
<1>6. <<cols', rows'>> \in Sizes /\ shown' \in [Row -> [Col -> Cell \cup {Unpainted}]]
  BY <1>1 DEF TypeOK, sizeVars
<1>7. backup' \in PageState /\ backup'.scrollTop < backup'.scrollBot
  BY <1>2 DEF GoodPage
<1>8. QED
  BY <1>1, <1>2, <1>4, <1>5, <1>6, <1>7 DEF TypeOK

LEMMA PageType ==
    ASSUME TypeOK, Page
    PROVE  TypeOK'
<1>0. UNCHANGED sizeVars
  BY DEF Page, Reset, EnterAltScreen, ExitAltScreen
<1>2. SavedState' = SavedState /\ PageState' = PageState
  BY <1>0, RowCol DEF SavedState, PageState, sizeVars
<1>3. autowrap \in BOOLEAN /\ cursorVisible \in BOOLEAN /\ altActive \in BOOLEAN
      /\ GoodPage(backup)
  BY DEF TypeOK, GoodPage
<1>4. CASE Reset
  <2>1. backup' = backup /\ altActive' = altActive
    BY <1>4 DEF Reset, altVars
  <2>2. GoodPage(backup')
    BY <1>2, <1>3, <2>1 DEF GoodPage
  <2>3. QED
    BY <1>3, <1>4, <2>1, <2>2, FreshPageType, StartPageType DEF Reset
<1>5. CASE EnterAltScreen
  <2>1. GoodPage(backup')
    BY <1>2, <1>5, CurrentPageType DEF EnterAltScreen, GoodPage
  <2>2. QED
    BY <1>3, <1>5, <2>1, FreshPageType, StartPageType DEF EnterAltScreen, modeVars
<1>6. CASE ExitAltScreen
  <2>1. GoodPage(backup')
    BY <1>2, <1>6, CurrentPageType DEF ExitAltScreen, GoodPage
  <2>2. QED
    BY <1>3, <1>6, <2>1, StartPageType DEF ExitAltScreen, modeVars
<1>7. QED
  BY <1>4, <1>5, <1>6 DEF Page

LEMMA ResizeType ==
    ASSUME TypeOK, NEW c, NEW r, <<c, r>> \in Sizes, Resize(c, r)
    PROVE  TypeOK'
<1>1. c \in Nat /\ c >= 2 /\ r \in Nat /\ r >= 1
  BY SizesFitAPair
<1>2. cols' = c /\ rows' = r /\ Row' = 0 .. r - 1 /\ Col' = 0 .. c - 1
  BY DEF Resize, Row, Col
<1>3. /\ cols \in Nat /\ rows \in Nat
      /\ cursorRow \in 0 .. rows - 1 /\ cursorCol \in 0 .. cols - 1
  BY StateFacts
<1>4. grid' \in [Row' -> [Col' -> Cell]]
  <2>1. ASSUME NEW i \in 0 .. r - 1, NEW j \in 0 .. c - 1, i < rows, j < cols
        PROVE  grid[i][j] \in Cell
    BY <1>1, <1>3, <2>1, StateFacts DEF Lines, Row, Col
  <2>2. grid' = [i \in 0 .. r - 1 |-> [j \in 0 .. c - 1 |->
                    IF i < rows /\ j < cols THEN grid[i][j] ELSE DefaultCell]]
    BY DEF Resize
  <2>3. QED
    BY <1>2, <2>1, <2>2, DefaultCellType
<1>5. cursorRow' \in Row' /\ cursorCol' \in Col' /\ wrapPending' = FALSE
  BY <1>1, <1>2, <1>3 DEF Resize, Lesser
<1>6. scrollTop' \in Row' /\ scrollBot' \in 1 .. rows' /\ scrollTop' < scrollBot'
  BY <1>1, <1>2 DEF Resize
<1>7. saved' \in SavedState'
  <2>1. saved \in SavedState
    BY DEF TypeOK
  <2>2. CASE saved = NothingSaved
    BY <2>2 DEF Resize, SavedState, NothingSaved
  <2>3. CASE saved \in [has : {TRUE}, row : Row, col : Col, pen : Pens]
    <3>1. saved' = [saved EXCEPT !.row = Lesser(saved.row, r - 1),
                                 !.col = Lesser(saved.col, c - 1)]
      BY <2>3 DEF Resize
    <3>2. saved.row \in 0 .. rows - 1 /\ saved.col \in 0 .. cols - 1
      BY <2>3 DEF Row, Col
    <3>3. Lesser(saved.row, r - 1) \in Row' /\ Lesser(saved.col, c - 1) \in Col'
      BY <1>1, <1>2, <1>3, <3>2 DEF Lesser
    <3>4. saved' \in [has : {TRUE}, row : Row', col : Col', pen : Pens]
      BY <2>3, <3>1, <3>3
    <3>5. QED
      BY <3>4 DEF SavedState
  <2>4. QED
    BY <2>1, <2>2, <2>3 DEF SavedState
<1>8. backup' \in PageState' /\ backup'.scrollTop < backup'.scrollBot
  <2>1. backup.pen \in Pens
    BY DEF TypeOK, PageState
  <2>2. NothingSaved \in SavedState'
    BY DEF SavedState
  <2>3. Filled(c, r, DefaultCell) \in [Row' -> [Col' -> Cell]]
    BY <1>2, DefaultCellType DEF Filled
  <2>4. 0 \in Row' /\ 0 \in Col' /\ r \in 1 .. rows' /\ 0 < r
    BY <1>1, <1>2
  <2>5. backup' = [grid |-> Filled(c, r, DefaultCell), cursorRow |-> 0, cursorCol |-> 0,
                   wrapPending |-> FALSE, scrollTop |-> 0, scrollBot |-> r,
                   pen |-> backup.pen, saved |-> NothingSaved]
    BY DEF Resize, FreshPage
  <2>6. QED
    BY <2>1, <2>2, <2>3, <2>4, <2>5 DEF PageState
<1>9. damage' \in [row0 : Nat, col0 : Nat, row1 : 0 .. rows', col1 : 0 .. cols']
  <2>1. NoDamage \in [row0 : Nat, col0 : Nat, row1 : 0 .. r, col1 : 0 .. c]
    BY <1>1 DEF NoDamage
  <2>2. r \in 0 .. r /\ c \in 0 .. c
    BY <1>1
  <2>3. QED
    BY <1>1, <1>2, <2>1, <2>2, MarkType DEF Resize
<1>10. shown' \in [Row' -> [Col' -> Cell \cup {Unpainted}]]
  BY <1>2 DEF Resize, Filled
<1>11. /\ autowrap' \in BOOLEAN /\ cursorVisible' \in BOOLEAN
       /\ altActive' \in BOOLEAN /\ pen' \in Pens
  BY DEF Resize, TypeOK, modeVars
<1>12. QED
  BY <1>2, <1>4, <1>5, <1>6, <1>7, <1>8, <1>9, <1>10, <1>11 DEF TypeOK

\* Rendering and marking touch the damage and what is shown, nothing else.
LEMMA PaintType ==
    ASSUME TypeOK, Paint
    PROVE  TypeOK'
<1> DEFINE Damage == [row0 : Nat, col0 : Nat, row1 : 0 .. rows, col1 : 0 .. cols]
<1>1. SUFFICES /\ damage' \in Damage
               /\ shown' \in [Row -> [Col -> Cell \cup {Unpainted}]]
               /\ UNCHANGED <<sizeVars, cursorVars, modeVars, regionVars, penVars, altVars, grid>>
  <2>1. UNCHANGED sizeVars => /\ Row' = Row /\ Col' = Col
                              /\ rows' = rows /\ cols' = cols
                              /\ SavedState' = SavedState /\ PageState' = PageState
    BY DEF sizeVars, Row, Col, SavedState, PageState
  <2>2. QED
    BY <2>1 DEF TypeOK, sizeVars, cursorVars, modeVars, regionVars, penVars, altVars
<1>2. /\ grid \in [Row -> [Col -> Cell]]
      /\ shown \in [Row -> [Col -> Cell \cup {Unpainted}]]
  BY DEF TypeOK
<1>3. rows \in Nat /\ cols \in Nat /\ damage \in Damage
  BY StateFacts
<1>4. CASE RenderDirty
  <2>1. damage' \in Damage
    BY <1>3, <1>4 DEF RenderDirty, NoDamage
  <2>2. shown' \in [Row -> [Col -> Cell \cup {Unpainted}]]
    BY <1>2, <1>4 DEF RenderDirty
  <2>3. QED
    BY <1>4, <2>1, <2>2 DEF RenderDirty
<1>5. ASSUME NEW r0 \in Row, NEW c0 \in Col, NEW r1 \in r0 .. rows, NEW c1 \in c0 .. cols,
             MarkRegion(r0, c0, r1, c1)
      PROVE  /\ damage' \in Damage
             /\ shown' \in [Row -> [Col -> Cell \cup {Unpainted}]]
             /\ UNCHANGED <<sizeVars, cursorVars, modeVars, regionVars, penVars, altVars, grid>>
  <2>1. r0 \in Nat /\ c0 \in Nat /\ r1 \in 0 .. rows /\ c1 \in 0 .. cols
    BY <1>3 DEF Row, Col
  <2>2. damage' \in Damage
    BY <1>3, <1>5, <2>1, MarkType DEF MarkRegion
  <2>3. shown' \in [Row -> [Col -> Cell \cup {Unpainted}]]
    BY <1>2, <1>5 DEF MarkRegion
  <2>4. QED
    BY <1>5, <2>2, <2>3 DEF MarkRegion
<1>6. QED
  BY <1>4, <1>5 DEF Paint

LEMMA InitType == Init => TypeOK
<1> SUFFICES ASSUME Init PROVE TypeOK
  OBVIOUS
<1>1. /\ cols \in Nat /\ cols >= 2 /\ rows \in Nat /\ rows >= 1
      /\ <<cols, rows>> \in Sizes
  <2>1. InitialSize \in Nat \X Nat /\ InitialSize = <<InitialSize[1], InitialSize[2]>>
    BY SizesFitAPair
  <2>2. QED
    BY <2>1, SizesFitAPair DEF Init
<1>2. Filled(cols, rows, DefaultCell) \in [Row -> [Col -> Cell]]
  BY DefaultCellType DEF Filled, Row, Col
<1>3. 0 \in Row /\ 0 \in Col /\ rows \in 1 .. rows /\ 0 < rows
  BY <1>1 DEF Row, Col
<1>4. NothingSaved \in SavedState
  BY DEF SavedState
<1>5. FreshPage(cols, rows) \in PageState
  BY <1>2, <1>3, <1>4, DefaultPenIsAPen DEF FreshPage, PageState
<1>6. NoDamage \in [row0 : Nat, col0 : Nat, row1 : 0 .. rows, col1 : 0 .. cols]
  BY <1>1 DEF NoDamage
<1>7. backup = FreshPage(cols, rows) /\ backup.scrollTop = 0 /\ backup.scrollBot = rows
  BY DEF Init, FreshPage
<1>8. /\ grid = Filled(cols, rows, DefaultCell) /\ shown = grid
      /\ cursorRow = 0 /\ cursorCol = 0 /\ scrollTop = 0 /\ scrollBot = rows
      /\ damage = NoDamage /\ saved = NothingSaved /\ backup = FreshPage(cols, rows)
  BY DEF Init
<1>9. /\ wrapPending \in BOOLEAN /\ autowrap \in BOOLEAN /\ cursorVisible \in BOOLEAN
      /\ altActive \in BOOLEAN
  BY DEF Init
<1>10. pen \in Pens
  BY DefaultPenIsAPen DEF Init, DefaultCell
<1>11. shown \in [Row -> [Col -> Cell \cup {Unpainted}]]
  BY ONLY <1>2, <1>8
<1>12. QED
  BY ONLY <1>1, <1>2, <1>3, <1>4, <1>5, <1>6, <1>7, <1>8, <1>9, <1>10, <1>11 DEF TypeOK

\* The indices the screen is read and written at, with no check of their own,
\* are in the grid for every sequence of control functions and resizes.
THEOREM TypeCorrect == Spec => []TypeOK
<1>1. TypeOK /\ [Next]_vars => TypeOK'
  <2> SUFFICES ASSUME TypeOK, [Next]_vars PROVE TypeOK'
    OBVIOUS
  <2>1. CASE PrintChar
    BY <2>1, PutNarrowType, PutWideType DEF PrintChar
  <2>2. CASE Move
    BY <2>2, MoveType
  <2>3. CASE LineEdit
    BY <2>3, LineEditType
  <2>4. CASE CharEdit
    BY <2>4, CharEditType
  <2>5. CASE Page
    BY <2>5, PageType
  <2>6. CASE Regrid
    <3>1. PICK z \in Sizes : Resize(z[1], z[2])
      BY <2>6 DEF Regrid
    <3>2. <<z[1], z[2]>> \in Sizes
      BY SizesFitAPair
    <3>3. QED
      BY <3>1, <3>2, ResizeType
  <2>7. CASE Paint
    BY <2>7, PaintType
  <2>8. CASE UNCHANGED vars
    <3>1. UNCHANGED sizeVars
      BY <2>8 DEF vars
    <3>2. SavedState' = SavedState /\ PageState' = PageState
      BY <3>1, RowCol DEF SavedState, PageState, sizeVars
    <3>3. QED
      BY <2>8, <3>1, <3>2, RowCol DEF TypeOK, vars, sizeVars, cursorVars, modeVars,
         regionVars, penVars, altVars, paintVars
  <2>9. QED
    BY <2>1, <2>2, <2>3, <2>4, <2>5, <2>6, <2>7, <2>8 DEF Next
<1>2. QED
  BY <1>1, InitType, PTL DEF Spec
-----------------------------------------------------------------------------
(* No repaint is lost. *)

\* A step that leaves a cell as it was, and the damage on it, keeps the
\* display faithful; so does one that damages every cell it changes.
Covered(d2, g2) ==
    \A r \in Row, c \in Col :
        (g2[r][c] # grid[r][c] \/ InDamage(damage, r, c)) => InDamage(d2, r, c)

LEMMA CoveredKeepsFaithful ==
    ASSUME TypeOK, DisplayFaithful, UNCHANGED <<sizeVars, shown>>,
           Covered(damage', grid')
    PROVE  DisplayFaithful'
<1>1. Row' = Row /\ Col' = Col
  BY RowCol
<1>2. QED
  BY <1>1 DEF DisplayFaithful, Covered

\* g2 differs from g only in the given rectangle.
Within(g, g2, r0, c0, r1, c1) ==
    \A r \in Row, c \in Col : g2[r][c] # g[r][c] =>
        r \in r0 .. r1 - 1 /\ c \in c0 .. c1 - 1

\* The whole argument of every editing function: the cells it changes are in
\* the rectangle it marks.
LEMMA MarkedIsCovered ==
    ASSUME TypeOK, NEW d \in Rect, NEW g, NEW g2, Covered(d, g),
           NEW r0 \in Nat, NEW c0 \in Nat, NEW r1 \in Nat, NEW c1 \in Nat,
           Within(g, g2, r0, c0, r1, c1)
    PROVE  Covered(Mark(d, r0, c0, r1, c1), g2)
<1> SUFFICES ASSUME NEW r \in Row, NEW c \in Col,
                    g2[r][c] # grid[r][c] \/ InDamage(damage, r, c)
             PROVE  InDamage(Mark(d, r0, c0, r1, c1), r, c)
  BY DEF Covered
<1>1. r \in Nat /\ c \in Nat
  BY SizeType DEF Row, Col
<1>2. CASE g2[r][c] # g[r][c]
  <2>1. r \in r0 .. r1 - 1 /\ c \in c0 .. c1 - 1
    BY <1>2 DEF Within
  <2>2. QED
    BY <2>1, MarkCovers
<1>3. CASE g2[r][c] = g[r][c]
  <2>1. InDamage(d, r, c)
    BY <1>3 DEF Covered
  <2>2. QED
    BY <1>1, <2>1, MarkKeeps
<1>4. QED
  BY <1>2, <1>3

LEMMA NowCovered == Covered(damage, grid)
BY DEF Covered

\* A rectangle inside the grid is a rectangle.
LEMMA DamageIsRect ==
    ASSUME TypeOK, NEW d \in [row0 : Nat, col0 : Nat, row1 : 0 .. rows, col1 : 0 .. cols]
    PROVE  d \in Rect
BY StateFacts DEF Rect

\* Whole-line moves stay between the margins they are given, and so in their marks.
LEMMA ShiftCovered ==
    ASSUME TypeOK, NEW d \in Rect, NEW g, Covered(d, g),
           NEW top \in Nat, NEW bot \in Nat, NEW n \in Nat
    PROVE  /\ Covered(Mark(d, top, 0, bot, cols), ShiftedUp(g, top, bot, n))
           /\ Covered(Mark(d, top, 0, bot, cols), ShiftedDown(g, top, bot, n))
<1>1. cols \in Nat /\ 0 \in Nat
  BY StateFacts
<1>2. ASSUME NEW c \in Col PROVE c \in 0 .. cols - 1
  BY <1>2 DEF Col
<1>3. /\ Within(g, ShiftedUp(g, top, bot, n), top, 0, bot, cols)
      /\ Within(g, ShiftedDown(g, top, bot, n), top, 0, bot, cols)
  <2> SUFFICES ASSUME NEW r \in Row, NEW c \in Col
               PROVE  /\ ShiftedUp(g, top, bot, n)[r][c] # g[r][c]
                         => r \in top .. bot - 1 /\ c \in 0 .. cols - 1
                      /\ ShiftedDown(g, top, bot, n)[r][c] # g[r][c]
                         => r \in top .. bot - 1 /\ c \in 0 .. cols - 1
    BY DEF Within
  <2>1. CASE r \in top .. bot - 1
    BY <1>2, <2>1
  <2>2. CASE r \notin top .. bot - 1
    <3>1. r < top \/ r >= bot
      BY <2>2, StateFacts DEF Row
    <3>2. /\ ShiftedUp(g, top, bot, n)[r] = g[r]
          /\ ShiftedDown(g, top, bot, n)[r] = g[r]
      BY ONLY r \in Row, <3>1 DEF ShiftedUp, ShiftedDown
    <3>3. QED
      BY <3>2
  <2>3. QED
    BY <2>1, <2>2
<1>4. QED
  BY <1>1, <1>3, MarkedIsCovered

LEMMA LineFedCovered ==
    ASSUME TypeOK, NEW s \in Stage, Covered(s.damage, s.grid)
    PROVE  /\ Covered(LineFed(s).damage, LineFed(s).grid)
           /\ Covered(StartLine(s).damage, StartLine(s).grid)
<1>1. s.damage \in Rect
  BY DamageIsRect DEF Stage
<1>2. scrollTop \in Nat /\ scrollBot \in Nat /\ 1 \in Nat
  BY StateFacts
<1>3. Covered(Mark(s.damage, scrollTop, 0, scrollBot, cols),
              ShiftedUp(s.grid, scrollTop, scrollBot, 1))
  BY <1>1, <1>2, ShiftCovered
<1>4. Covered(LineFed(s).damage, LineFed(s).grid)
  BY <1>3 DEF LineFed, Stage
<1>5. LineFed(s) \in Stage
  BY LineFedType
<1>6. /\ StartLine(s).damage = LineFed(s).damage
      /\ StartLine(s).grid = LineFed(s).grid
  BY <1>5 DEF StartLine, Stage
<1>7. QED
  BY <1>4, <1>6

LEMMA UnwrappedCovered ==
    ASSUME TypeOK
    PROVE  Covered(Unwrapped.damage, Unwrapped.grid)
<1>1. Covered(Here.damage, Here.grid)
  BY NowCovered DEF Here
<1>2. QED
  BY <1>1, HereType, LineFedCovered DEF Unwrapped

\* put_char changes its line between FirstWritten and AfterNarrow/AfterWide.
LEMMA NarrowLocal ==
    ASSUME TypeOK, NEW line \in Lines, NEW c \in Col, NEW ch \in Narrow, NEW k \in Col,
           NarrowLine(line, c, ch)[k] # line[k]
    PROVE  k \in FirstWritten(line, c) .. AfterNarrow(line, c) - 1
<1>1. c \in 0 .. cols - 1 /\ k \in 0 .. cols - 1 /\ cols \in Nat
  BY StateFacts DEF Col
<1>2. \/ k = c
      \/ k = c + 1 /\ OrphanRight(line, c)
      \/ k = c - 1 /\ OrphanLeft(line, c)
  BY DEF NarrowLine, Unpaired, Lines
<1>3. CASE k = c
  BY <1>1, <1>3 DEF FirstWritten, AfterNarrow
<1>4. CASE k = c + 1 /\ OrphanRight(line, c)
  BY <1>1, <1>4 DEF FirstWritten, AfterNarrow
<1>5. CASE k = c - 1 /\ OrphanLeft(line, c)
  BY <1>1, <1>5 DEF FirstWritten, AfterNarrow
<1>6. QED
  BY <1>2, <1>3, <1>4, <1>5

LEMMA WideLocal ==
    ASSUME TypeOK, NEW line \in Lines, NEW c \in Col, c + 1 \in Col, NEW ch \in Wide,
           NEW k \in Col, WideLine(line, c, ch)[k] # line[k]
    PROVE  k \in FirstWritten(line, c) .. AfterWide(line, c) - 1
<1> DEFINE first == Unpaired(line, c)
<1>1. c \in 0 .. cols - 1 /\ k \in 0 .. cols - 1 /\ cols \in Nat
  BY StateFacts DEF Col
<1>2. first \in Lines
  BY UnpairedType
<1>3. \/ k = c \/ k = c + 1
      \/ k = c + 2 /\ OrphanRight(first, c + 1)
      \/ k = c - 1 /\ OrphanLeft(line, c)
  <2>1. CASE k # c /\ k # c + 1
    <3>1. WideLine(line, c, ch)[k] = Unpaired(first, c + 1)[k]
      BY <2>1, UnpairedType DEF WideLine, Lines
    <3>2. Unpaired(first, c + 1)[k] # first[k] => k = c + 2 /\ OrphanRight(first, c + 1)
      <4> HIDE DEF first
      <4>1. Unpaired(first, c + 1)[k] # first[k]
            => \/ k = (c + 1) + 1 /\ OrphanRight(first, c + 1)
               \/ k = (c + 1) - 1 /\ OrphanLeft(first, c + 1)
        BY DEF Unpaired
      <4>2. (c + 1) + 1 = c + 2 /\ (c + 1) - 1 = c
        BY <1>1
      <4>3. QED
        BY <2>1, <4>1, <4>2
    <3>3. first[k] # line[k] => k = c - 1 /\ OrphanLeft(line, c)
      BY <2>1 DEF Unpaired
    <3>4. QED
      BY <3>1, <3>2, <3>3
  <2>2. QED
    BY <2>1
<1>4. FirstWritten(line, c) \in 0 .. c /\ AfterWide(line, c) \in c + 2 .. cols
  BY WrittenSpan
<1>5. CASE k = c \/ k = c + 1
  BY <1>1, <1>4, <1>5
<1>6. CASE k = c + 2 /\ OrphanRight(first, c + 1)
  BY <1>1, <1>4, <1>6 DEF AfterWide
<1>7. CASE k = c - 1 /\ OrphanLeft(line, c)
  BY <1>1, <1>4, <1>7 DEF FirstWritten
<1>8. QED
  BY <1>3, <1>5, <1>6, <1>7

\* Writing one line of a stage keeps it covered.
LEMMA LineWritten ==
    ASSUME TypeOK, NEW s \in Stage, Covered(s.damage, s.grid),
           NEW row \in Row, NEW new, NEW c0 \in Nat, NEW c1 \in Nat,
           \A k \in Col : new[k] # s.grid[row][k] => k \in c0 .. c1 - 1
    PROVE  Covered(Mark(s.damage, row, c0, row + 1, c1), [s.grid EXCEPT ![row] = new])
<1> DEFINE g2 == [s.grid EXCEPT ![row] = new]
<1>1. s.damage \in Rect /\ s.grid \in [Row -> Lines]
  BY DamageIsRect DEF Stage
<1>2. row \in Nat /\ row + 1 \in Nat /\ row \in row .. (row + 1) - 1
  BY StateFacts DEF Row
<1>3. ASSUME NEW r \in Row, NEW c \in Col, g2[r][c] # s.grid[r][c]
      PROVE  r \in row .. (row + 1) - 1 /\ c \in c0 .. c1 - 1
  <2>1. r = row
    BY <1>1, <1>3
  <2>2. g2[r] = new
    BY <1>1, <2>1
  <2>3. QED
    BY <1>2, <1>3, <2>1, <2>2
<1>4. Within(s.grid, g2, row, c0, row + 1, c1)
  BY <1>3 DEF Within
<1>5. Covered(Mark(s.damage, row, c0, row + 1, c1), g2)
  BY <1>1, <1>2, <1>4, MarkedIsCovered
<1>6. QED
  BY <1>5

LEMMA PutNarrowFaithful ==
    ASSUME TypeOK, DisplayFaithful, NEW ch \in Narrow, PutNarrow(ch)
    PROVE  DisplayFaithful'
<1> DEFINE s == Unwrapped
           line == s.grid[s.row]
<1>1. s \in Stage /\ s.row \in Row /\ s.col \in Col /\ line \in Lines
  BY UnwrappedType DEF Stage
<1>2. /\ FirstWritten(line, s.col) \in Nat /\ AfterNarrow(line, s.col) \in Nat
  <2>1. /\ FirstWritten(line, s.col) \in 0 .. s.col
        /\ AfterNarrow(line, s.col) \in s.col + 1 .. cols
    BY <1>1, WrittenSpan
  <2>2. s.col \in Nat /\ cols \in Nat
    BY <1>1, StateFacts DEF Col
  <2> HIDE DEF s, line
  <2>3. QED
    BY <2>1, <2>2
<1>3. Covered(Mark(s.damage, s.row, FirstWritten(line, s.col), s.row + 1,
                   AfterNarrow(line, s.col)),
              [s.grid EXCEPT ![s.row] = NarrowLine(line, s.col, ch)])
  BY <1>1, <1>2, NarrowLocal, UnwrappedCovered, LineWritten
<1>4. Covered(damage', grid')
  BY <1>3 DEF PutNarrow
<1>5. QED
  BY <1>4, CoveredKeepsFaithful DEF PutNarrow

LEMMA PutWideFaithful ==
    ASSUME TypeOK, DisplayFaithful, NEW ch \in Wide, PutWide(ch)
    PROVE  DisplayFaithful'
<1> DEFINE s == IF NoRoom(Unwrapped) THEN StartLine(Unwrapped) ELSE Unwrapped
           line == s.grid[s.row]
<1>1. s \in Stage /\ s.row \in Row /\ s.col \in Col /\ s.col + 1 \in Col
  BY WideStage DEF PutWide
<1>2. line \in Lines
  BY <1>1 DEF Stage
<1>3. Covered(s.damage, s.grid)
  BY UnwrappedCovered, UnwrappedType, LineFedCovered
<1>4. /\ FirstWritten(line, s.col) \in Nat /\ AfterWide(line, s.col) \in Nat
  <2>1. /\ FirstWritten(line, s.col) \in 0 .. s.col
        /\ AfterWide(line, s.col) \in s.col + 2 .. cols
    BY <1>1, <1>2, WrittenSpan
  <2>2. s.col \in Nat /\ cols \in Nat
    BY <1>1, StateFacts DEF Col
  <2> HIDE DEF s, line
  <2>3. QED
    BY <2>1, <2>2
<1>5. Covered(Mark(s.damage, s.row, FirstWritten(line, s.col), s.row + 1,
                   AfterWide(line, s.col)),
              [s.grid EXCEPT ![s.row] = WideLine(line, s.col, ch)])
  <2> HIDE DEF s
  <2> QED BY <1>1, <1>2, <1>3, <1>4, WideLocal, LineWritten
<1>6. Covered(damage', grid')
  BY <1>5 DEF PutWide
<1>7. QED
  BY <1>6, CoveredKeepsFaithful DEF PutWide

LEMMA MoveFaithful ==
    ASSUME TypeOK, DisplayFaithful, Move
    PROVE  DisplayFaithful'
<1>1. UNCHANGED <<sizeVars, paintVars, shown>>
  BY DEF Move, Backspace, Tab, CarriageReturn, MoveBy, MoveTo, SetScrollRegion,
     SaveCursor, RestoreCursor, SetPen, SetModes, NoEdit
<1>2. QED
  BY <1>1, RowCol DEF DisplayFaithful, paintVars

LEMMA LineEditFaithful ==
    ASSUME TypeOK, DisplayFaithful, LineEdit
    PROVE  DisplayFaithful'
<1>0. damage \in Rect
  BY StateFacts, DamageIsRect
<1>1. ASSUME NEW n \in Nat, NEW top \in Row
      PROVE  /\ Covered(Mark(damage, top, 0, scrollBot, cols),
                        ShiftedUp(grid, top, scrollBot, n))
             /\ Covered(Mark(damage, top, 0, scrollBot, cols),
                        ShiftedDown(grid, top, scrollBot, n))
  <2>1. top \in Nat /\ scrollBot \in Nat
    BY StateFacts DEF Row
  <2>2. QED
    BY <1>0, <2>1, NowCovered, ShiftCovered
<1>2. scrollTop \in Row /\ cursorRow \in Row
  BY DEF TypeOK
<1>3. Covered(Here.damage, Here.grid) /\ Here \in Stage
  BY NowCovered, HereType DEF Here
<1>4. CASE LineFeed
  <2>1. Covered(damage', grid') /\ UNCHANGED <<sizeVars, shown>>
    BY <1>3, <1>4, LineFedCovered DEF LineFeed, EditOnly
  <2>2. QED
    BY <2>1, CoveredKeepsFaithful
<1>5. CASE NextLine
  <2>1. Covered(damage', grid') /\ UNCHANGED <<sizeVars, shown>>
    BY <1>3, <1>5, LineFedCovered DEF NextLine, EditOnly
  <2>2. QED
    BY <2>1, CoveredKeepsFaithful
<1>6. CASE ReverseIndex
  <2>1. UNCHANGED <<sizeVars, shown>>
    BY <1>6 DEF ReverseIndex, EditOnly
  <2>2. CASE cursorRow = scrollTop
    BY <1>1, <1>2, <1>6, <2>1, <2>2, CoveredKeepsFaithful DEF ReverseIndex
  <2>3. CASE cursorRow # scrollTop
    <3>1. grid' = grid /\ damage' = damage
      BY <1>6, <2>3 DEF ReverseIndex, paintVars
    <3>2. QED
      BY <2>1, <3>1, NowCovered, CoveredKeepsFaithful
  <2>4. QED
    BY <2>2, <2>3
<1>7. ASSUME NEW n \in Nat, ScrollUp(n) \/ ScrollDown(n) PROVE DisplayFaithful'
  <2>1. Covered(damage', grid') /\ UNCHANGED <<sizeVars, shown>>
    BY <1>1, <1>2, <1>7 DEF ScrollUp, ScrollDown, EditOnly
  <2>2. QED
    BY <2>1, CoveredKeepsFaithful
<1>8. ASSUME NEW n \in Nat, InsertLines(n) \/ DeleteLines(n) PROVE DisplayFaithful'
  <2>1. Clipped(n, scrollBot - cursorRow) \in Nat
    <3>1. scrollBot - cursorRow \in Nat
      BY <1>8, StateFacts DEF InsertLines, DeleteLines, InScrollRegion
    <3>2. QED
      BY <3>1 DEF Clipped, Lesser
  <2>2. Covered(damage', grid') /\ UNCHANGED <<sizeVars, shown>>
    BY <1>1, <1>2, <1>8, <2>1 DEF InsertLines, DeleteLines, EditOnly
  <2>3. QED
    BY <2>2, CoveredKeepsFaithful
<1>9. QED
  BY <1>4, <1>5, <1>6, <1>7, <1>8, CountType DEF LineEdit

LEMMA MarkIsRect ==
    ASSUME NEW d \in Rect, NEW r0 \in Nat, NEW c0 \in Nat, NEW r1 \in Nat, NEW c1 \in Nat
    PROVE  Mark(d, r0, c0, r1, c1) \in Rect
BY DEF Mark, IsEmpty, Lesser, Greater, Rect

LEMMA AllMarked ==
    ASSUME TypeOK, NEW r \in Row, NEW c \in Col
    PROVE  InDamage(MarkAll(damage), r, c)
<1>1. /\ rows \in Nat /\ cols \in Nat /\ damage \in Rect /\ 0 \in Nat
      /\ r \in 0 .. rows - 1 /\ c \in 0 .. cols - 1
  BY StateFacts, DamageIsRect DEF Row, Col
<1>2. QED
  BY <1>1, MarkCovers DEF MarkAll

\* Erase(mode, line) changes what its mode names.
LEMMA EraseLocal ==
    ASSUME TypeOK, NEW mode \in 0 .. 2, NEW line \in BOOLEAN, Erase(mode, line),
           NEW r \in Row, NEW c \in Col, grid'[r][c] # grid[r][c]
    PROVE  /\ line => r = cursorRow
           /\ mode = 0 => r > cursorRow \/ (r = cursorRow /\ c >= cursorCol)
           /\ mode = 1 => r < cursorRow \/ (r = cursorRow /\ c <= cursorCol)
<1>1. /\ r \in Nat /\ c \in Nat /\ cursorRow \in Nat /\ cursorCol \in Nat
  BY StateFacts DEF Row, Col
<1> DEFINE before == r < cursorRow \/ (r = cursorRow /\ c < cursorCol)
           after  == r > cursorRow \/ (r = cursorRow /\ c > cursorCol)
<1>2. /\ line => r = cursorRow
      /\ mode = 0 => ~ before
      /\ mode = 1 => ~ after
  BY DEF Erase
<1>3. QED
  BY <1>1, <1>2

LEMMA EraseFaithful ==
    ASSUME TypeOK, DisplayFaithful, NEW mode \in 0 .. 2,
           EraseLine(mode) \/ EraseDisplay(mode)
    PROVE  DisplayFaithful'
<1>0. /\ damage \in Rect
      /\ cursorCol \in Nat /\ cols \in Nat /\ cursorRow \in Nat /\ rows \in Nat
      /\ cursorCol < cols /\ cursorRow < rows
      /\ \A r \in Row : r \in Nat /\ r < rows
      /\ \A c \in Col : c \in Nat /\ c < cols
  BY StateFacts, DamageIsRect DEF Row, Col
<1>1. UNCHANGED <<sizeVars, shown>>
  BY DEF EraseLine, EraseDisplay, EditOnly
<1>2. SUFFICES Covered(damage', grid')
  BY <1>1, CoveredKeepsFaithful
<1>3. CASE EraseLine(mode)
  <2> DEFINE c0 == IF mode = 0 THEN cursorCol ELSE 0
             c1 == IF mode = 1 THEN cursorCol + 1 ELSE cols
  <2>1. c0 \in Nat /\ c1 \in Nat /\ cursorRow + 1 \in Nat
    BY <1>0
  <2>2. Within(grid, grid', cursorRow, c0, cursorRow + 1, c1)
    <3>1. ASSUME NEW r \in Row, NEW c \in Col, grid'[r][c] # grid[r][c]
          PROVE  /\ r = cursorRow
                 /\ mode = 0 => c >= cursorCol
                 /\ mode = 1 => c <= cursorCol
      <4>1. Erase(mode, TRUE) /\ TRUE \in BOOLEAN
        BY <1>3 DEF EraseLine
      <4>2. /\ r = cursorRow
            /\ mode = 0 => r > cursorRow \/ (r = cursorRow /\ c >= cursorCol)
            /\ mode = 1 => r < cursorRow \/ (r = cursorRow /\ c <= cursorCol)
        BY <3>1, <4>1, EraseLocal
      <4>3. QED
        BY <1>0, <4>2
    <3>2. QED
      BY <1>0, <3>1 DEF Within
  <2>3. damage' = Mark(damage, cursorRow, c0, cursorRow + 1, c1)
    BY <1>3 DEF EraseLine
  <2> HIDE DEF c0, c1
  <2>4. QED
    BY <1>0, <2>1, <2>2, <2>3, NowCovered, MarkedIsCovered
<1>4. CASE EraseDisplay(mode)
  <2>1. ASSUME NEW r \in Row, NEW c \in Col, grid'[r][c] # grid[r][c]
        PROVE  /\ mode = 0 => r > cursorRow \/ (r = cursorRow /\ c >= cursorCol)
               /\ mode = 1 => r < cursorRow \/ (r = cursorRow /\ c <= cursorCol)
    BY <1>4, <2>1, EraseLocal DEF EraseDisplay
  <2>2. SUFFICES ASSUME NEW r \in Row, NEW c \in Col,
                        grid'[r][c] # grid[r][c] \/ InDamage(damage, r, c)
                 PROVE  InDamage(damage', r, c)
    BY DEF Covered
  <2>3. /\ r \in Nat /\ c \in Nat /\ r < rows /\ c < cols
        /\ cursorRow + 1 \in Nat /\ cursorCol + 1 \in Nat /\ 0 \in Nat
    BY <1>0
  <2>4. CASE mode = 0
    <3> DEFINE d == Mark(damage, cursorRow, cursorCol, cursorRow + 1, cols)
    <3>1. d \in Rect /\ damage' = Mark(d, cursorRow + 1, 0, rows, cols)
      BY <1>0, <1>4, <2>4, MarkIsRect, <2>3 DEF EraseDisplay
    <3>2. InDamage(damage, r, c) => InDamage(d, r, c)
      BY <1>0, <2>3, MarkKeeps
    <3>3. r = cursorRow /\ c >= cursorCol => InDamage(d, r, c)
      <4>1. SUFFICES ASSUME r = cursorRow, c >= cursorCol
                     PROVE  r \in cursorRow .. (cursorRow + 1) - 1 /\ c \in cursorCol .. cols - 1
        BY <1>0, <2>3, MarkCovers
      <4>2. QED
        BY <1>0, <2>3, <4>1
    <3> HIDE DEF d
    <3>4. InDamage(d, r, c) => InDamage(damage', r, c)
      BY <1>0, <2>3, <3>1, MarkKeeps
    <3>5. r > cursorRow => InDamage(damage', r, c)
      <4>1. SUFFICES ASSUME r > cursorRow
                     PROVE  r \in cursorRow + 1 .. rows - 1 /\ c \in 0 .. cols - 1
        BY <1>0, <2>3, <3>1, MarkCovers
      <4>2. QED
        BY <1>0, <2>3, <4>1
    <3>6. QED
      BY <2>1, <2>2, <2>4, <3>2, <3>3, <3>4, <3>5
  <2>5. CASE mode = 1
    <3> DEFINE d == Mark(damage, 0, 0, cursorRow, cols)
    <3>1. d \in Rect /\ damage' = Mark(d, cursorRow, 0, cursorRow + 1, cursorCol + 1)
      <4>1. d \in Rect
        BY <1>0, <2>3, MarkIsRect
      <4>2. damage' = Mark(d, cursorRow, 0, cursorRow + 1, cursorCol + 1)
        BY <1>4, <2>5 DEF EraseDisplay
      <4>3. QED
        BY <4>1, <4>2
    <3>2. InDamage(damage, r, c) => InDamage(d, r, c)
      BY <1>0, <2>3, MarkKeeps
    <3>3. r < cursorRow => InDamage(d, r, c)
      <4>1. SUFFICES ASSUME r < cursorRow
                     PROVE  r \in 0 .. cursorRow - 1 /\ c \in 0 .. cols - 1
        BY <1>0, <2>3, MarkCovers
      <4>2. QED
        BY <1>0, <2>3, <4>1
    <3> HIDE DEF d
    <3>4. InDamage(d, r, c) => InDamage(damage', r, c)
      BY <1>0, <2>3, <3>1, MarkKeeps
    <3>5. r = cursorRow /\ c <= cursorCol => InDamage(damage', r, c)
      <4>1. SUFFICES ASSUME r = cursorRow, c <= cursorCol
                     PROVE  /\ r \in cursorRow .. (cursorRow + 1) - 1
                            /\ c \in 0 .. (cursorCol + 1) - 1
        BY <1>0, <2>3, <3>1, MarkCovers
      <4>2. QED
        BY <1>0, <2>3, <4>1
    <3>6. QED
      BY <2>1, <2>2, <2>5, <3>2, <3>3, <3>4, <3>5
  <2>6. CASE mode = 2
    <3>1. damage' = MarkAll(damage)
      BY <1>4, <2>6 DEF EraseDisplay
    <3>2. QED
      BY <3>1, AllMarked
  <2>7. QED
    BY <2>4, <2>5, <2>6
<1>5. QED
  BY <1>3, <1>4

LEMMA CharEditFaithful ==
    ASSUME TypeOK, DisplayFaithful, CharEdit
    PROVE  DisplayFaithful'
<1>0. /\ damage \in Rect /\ grid \in [Row -> Lines]
      /\ cursorRow \in Row /\ cursorCol \in Col
      /\ cursorCol \in Nat /\ cols \in Nat /\ cursorRow \in Nat /\ rows \in Nat
  BY StateFacts, DamageIsRect DEF Row, Col
<1>1. Covered(Here.damage, Here.grid) /\ Here \in Stage
  BY NowCovered, HereType DEF Here
<1>2. ASSUME NEW line, NEW end \in Nat, EditLine(line, end),
             \A k \in Col : line[k] # grid[cursorRow][k] => k \in cursorCol .. end - 1
      PROVE  DisplayFaithful'
  <2>1. Covered(Mark(Here.damage, cursorRow, cursorCol, cursorRow + 1, end),
                [Here.grid EXCEPT ![cursorRow] = line])
    <3>1. \A k \in Col : line[k] # Here.grid[cursorRow][k] => k \in cursorCol .. end - 1
      BY <1>2 DEF Here
    <3>2. QED
      BY <1>0, <1>1, <3>1, LineWritten
  <2>2. Covered(damage', grid') /\ UNCHANGED <<sizeVars, shown>>
    BY <1>2, <2>1 DEF EditLine, EditOnly, Here
  <2>3. QED
    BY <2>2, CoveredKeepsFaithful
<1>3. ASSUME NEW n \in Nat, InsertChars(n) PROVE DisplayFaithful'
  <2> DEFINE k == Clipped(n, cols - cursorCol)
             line == grid[cursorRow]
             new == [c \in Col |-> IF c < cursorCol THEN line[c]
                                   ELSE IF c - k >= cursorCol THEN line[c - k] ELSE Blank]
  <2>1. EditLine(new, cols)
    BY <1>3 DEF InsertChars
  <2>2. \A c \in Col : new[c] # line[c] => c \in cursorCol .. cols - 1
    <3>1. \A c \in Col : c \in 0 .. cols - 1
      BY DEF Col
    <3>2. \A c \in Col : c < cursorCol => new[c] = line[c]
      OBVIOUS
    <3> HIDE DEF new, line
    <3>3. QED
      BY <1>0, <3>1, <3>2
  <2> HIDE DEF new
  <2>3. QED
    BY <1>0, <1>2, <2>1, <2>2
<1>4. ASSUME NEW n \in Nat, DeleteChars(n) PROVE DisplayFaithful'
  <2> DEFINE k == Clipped(n, cols - cursorCol)
             line == grid[cursorRow]
             new == [c \in Col |-> IF c < cursorCol THEN line[c]
                                   ELSE IF c + k < cols THEN line[c + k] ELSE Blank]
  <2>1. EditLine(new, cols)
    BY <1>4 DEF DeleteChars
  <2>2. \A c \in Col : new[c] # line[c] => c \in cursorCol .. cols - 1
    <3>1. \A c \in Col : c \in 0 .. cols - 1
      BY DEF Col
    <3>2. \A c \in Col : c < cursorCol => new[c] = line[c]
      OBVIOUS
    <3> HIDE DEF new, line
    <3>3. QED
      BY <1>0, <3>1, <3>2
  <2> HIDE DEF new
  <2>3. QED
    BY <1>0, <1>2, <2>1, <2>2
<1>5. ASSUME NEW n \in Nat, EraseChars(n) PROVE DisplayFaithful'
  <2> DEFINE end == Lesser(U16(cursorCol + (IF n = 0 THEN 1 ELSE n)), cols)
             line == grid[cursorRow]
             new == [c \in Col |-> IF cursorCol <= c /\ c < end THEN Blank ELSE line[c]]
  <2>1. EditLine(new, end)
    BY <1>5 DEF EraseChars
  <2>2. end \in Nat
    BY <1>0 DEF U16, Lesser
  <2>3. \A c \in Col : new[c] # line[c] => c \in cursorCol .. end - 1
    <3>1. \A c \in Col : c \in Nat
      BY <1>0 DEF Col
    <3>2. \A c \in Col : ~ (cursorCol <= c /\ c < end) => new[c] = line[c]
      OBVIOUS
    <3> HIDE DEF new, line, end
    <3>3. QED
      BY <1>0, <2>2, <3>1, <3>2
  <2> HIDE DEF new, end
  <2>4. QED
    BY <1>2, <2>1, <2>2, <2>3
<1>6. QED
  BY <1>3, <1>4, <1>5, CountType, EraseFaithful DEF CharEdit

LEMMA PageFaithful ==
    ASSUME TypeOK, DisplayFaithful, Page
    PROVE  DisplayFaithful'
<1>1. damage' = MarkAll(damage) /\ UNCHANGED <<sizeVars, shown>>
  BY DEF Page, Reset, EnterAltScreen, ExitAltScreen, StartPage
<1>2. Covered(damage', grid')
  BY <1>1, AllMarked DEF Covered
<1>3. QED
  BY <1>1, <1>2, CoveredKeepsFaithful

LEMMA ResizeFaithful ==
    ASSUME NEW c, NEW r, <<c, r>> \in Sizes, Resize(c, r)
    PROVE  DisplayFaithful'
<1>1. c \in Nat /\ r \in Nat /\ NoDamage \in Rect /\ 0 \in Nat
  BY SizesFitAPair DEF NoDamage, Rect
<1>2. Row' = 0 .. r - 1 /\ Col' = 0 .. c - 1 /\ damage' = Mark(NoDamage, 0, 0, r, c)
  BY DEF Resize, Row, Col
<1>3. QED
  BY <1>1, <1>2, MarkCovers DEF DisplayFaithful

\* Rendering shows what was damaged; marking a region damages what it blacks.
LEMMA PaintFaithful ==
    ASSUME TypeOK, DisplayFaithful, Paint
    PROVE  DisplayFaithful'
<1>1. Row' = Row /\ Col' = Col /\ grid' = grid
  BY RowCol DEF Paint, RenderDirty, MarkRegion
<1>2. CASE RenderDirty
  <2>1. \A r \in Row, c \in Col : shown'[r][c] =
            IF InDamage(damage, r, c) THEN grid[r][c] ELSE shown[r][c]
    BY <1>2 DEF RenderDirty
  <2>2. QED
    BY <1>1, <2>1 DEF DisplayFaithful
<1>3. ASSUME NEW r0 \in Row, NEW c0 \in Col, NEW r1 \in r0 .. rows, NEW c1 \in c0 .. cols,
             MarkRegion(r0, c0, r1, c1)
      PROVE  DisplayFaithful'
  <2>0. /\ rows \in Nat /\ cols \in Nat /\ damage \in Rect
        /\ \A r \in Row : r \in Nat
        /\ \A c \in Col : c \in Nat
    BY StateFacts, DamageIsRect DEF Row, Col
  <2>1. r0 \in Nat /\ c0 \in Nat /\ r1 \in Nat /\ c1 \in Nat
    BY <2>0
  <2>2. SUFFICES ASSUME NEW r \in Row, NEW c \in Col, shown'[r][c] # grid[r][c]
                 PROVE  InDamage(damage', r, c)
    BY <1>1 DEF DisplayFaithful
  <2>3. damage' = Mark(damage, r0, c0, r1, c1)
    BY <1>3 DEF MarkRegion
  <2>4. CASE r0 <= r /\ r < r1 /\ c0 <= c /\ c < c1
    <3>1. r \in r0 .. r1 - 1 /\ c \in c0 .. c1 - 1
      BY <2>0, <2>1, <2>4
    <3>2. QED
      BY <2>0, <2>1, <2>3, <3>1, MarkCovers
  <2>5. CASE ~ (r0 <= r /\ r < r1 /\ c0 <= c /\ c < c1)
    <3>1. shown'[r][c] = shown[r][c]
      BY <1>3, <2>5 DEF MarkRegion
    <3>2. InDamage(damage, r, c)
      BY <2>2, <3>1 DEF DisplayFaithful
    <3>3. QED
      BY <2>0, <2>1, <2>3, <3>2, MarkKeeps
  <2>6. QED
    BY <2>4, <2>5
<1>4. QED
  BY <1>2, <1>3 DEF Paint

\* For every sequence of control functions, page switches, resizes and
\* repaints of any region, the user sees the grid wherever no repaint is
\* pending: the single damage rectangle is enough.
THEOREM Faithful == Spec => []DisplayFaithful
<1>1. Init => DisplayFaithful
  BY DEF Init, DisplayFaithful
<1>2. TypeOK /\ DisplayFaithful /\ [Next]_vars => DisplayFaithful'
  <2> SUFFICES ASSUME TypeOK, DisplayFaithful, [Next]_vars PROVE DisplayFaithful'
    OBVIOUS
  <2>1. CASE PrintChar
    BY <2>1, PutNarrowFaithful, PutWideFaithful DEF PrintChar
  <2>2. CASE Move
    BY <2>2, MoveFaithful
  <2>3. CASE LineEdit
    BY <2>3, LineEditFaithful
  <2>4. CASE CharEdit
    BY <2>4, CharEditFaithful
  <2>5. CASE Page
    BY <2>5, PageFaithful
  <2>6. CASE Regrid
    <3>1. PICK z \in Sizes : Resize(z[1], z[2])
      BY <2>6 DEF Regrid
    <3>2. <<z[1], z[2]>> \in Sizes
      BY SizesFitAPair
    <3>3. QED
      BY <3>1, <3>2, ResizeFaithful
  <2>7. CASE Paint
    BY <2>7, PaintFaithful
  <2>8. CASE UNCHANGED vars
    <3>1. UNCHANGED <<sizeVars, paintVars, shown>>
      BY <2>8 DEF vars
    <3>2. QED
      BY <3>1, RowCol DEF DisplayFaithful, paintVars
  <2>9. QED
    BY <2>1, <2>2, <2>3, <2>4, <2>5, <2>6, <2>7, <2>8 DEF Next
<1>3. QED
  BY <1>1, <1>2, TypeCorrect, PTL DEF Spec

-----------------------------------------------------------------------------
(* The deferred wrap. *)

LEMMA PrintAtMargin ==
    ASSUME TypeOK, PrintChar
    PROVE  wrapPending' => cursorCol' = cols - 1
<1>1. cols \in Nat /\ Unwrapped \in Stage
  BY StateFacts, UnwrappedType
<1>2. ASSUME NEW ch \in Narrow, PutNarrow(ch), wrapPending'
      PROVE  cursorCol' = cols - 1
  <2> DEFINE c == Unwrapped.col
  <2>1. c \in Nat
    BY <1>1 DEF Stage, Col
  <2>2. c + 1 = cols /\ cursorCol' = Lesser(c + 1, cols - 1)
    BY <1>2 DEF PutNarrow
  <2> HIDE DEF c
  <2>3. QED
    BY <1>1, <2>1, <2>2 DEF Lesser
<1>3. ASSUME NEW ch \in Wide, PutWide(ch), wrapPending'
      PROVE  cursorCol' = cols - 1
  <2> DEFINE s == IF NoRoom(Unwrapped) THEN StartLine(Unwrapped) ELSE Unwrapped
             c == s.col
  <2>1. c \in Nat
    <3>1. s \in Stage
      BY <1>1, StartLineType
    <3>2. QED
      BY <1>1, <3>1 DEF Stage, Col
  <2>2. c + 2 >= cols /\ cursorCol' = Lesser(c + 2, cols - 1)
    BY <1>3 DEF PutWide
  <2> HIDE DEF c
  <2>3. QED
    BY <1>1, <2>1, <2>2 DEF Lesser
<1>4. QED
  BY <1>2, <1>3 DEF PrintChar

\* The cursor either stays, with its deferred wrap, or loses it.
CursorKept == wrapPending' = FALSE \/ UNCHANGED <<wrapPending, cursorCol>>

LEMMA CursorSteps ==
    ASSUME Move \/ LineEdit \/ CharEdit \/ Paint
    PROVE  CursorKept /\ UNCHANGED <<sizeVars, backup>>
<1>1. CASE Move
  BY <1>1 DEF Move, Backspace, Tab, CarriageReturn, MoveBy, MoveTo, SetScrollRegion,
     SaveCursor, RestoreCursor, SetPen, SetModes, NoEdit, PlaceCursor, CursorKept,
     cursorVars, altVars
<1>2. CASE LineEdit
  BY <1>2 DEF LineEdit, LineFeed, NextLine, ReverseIndex, ScrollUp, ScrollDown,
     InsertLines, DeleteLines, PlaceCursor, EditOnly, CursorKept, cursorVars, altVars
<1>3. CASE CharEdit
  BY <1>3 DEF CharEdit, InsertChars, DeleteChars, EraseChars, EditLine, EraseLine,
     EraseDisplay, EditOnly, CursorKept, cursorVars, altVars
<1>4. CASE Paint
  BY <1>4 DEF Paint, RenderDirty, MarkRegion, CursorKept, cursorVars, altVars
<1>5. QED
  BY <1>1, <1>2, <1>3, <1>4

\* Whatever the application sends, a deferred wrap is never carried to another
\* column, on either page: the next character cannot break a line half-way.
THEOREM WrapAtMargin == Spec => []WrapOnlyAtMargin
<1>1. Init => WrapOnlyAtMargin
  BY DEF Init, WrapOnlyAtMargin, FreshPage
<1>2. TypeOK /\ WrapOnlyAtMargin /\ [Next]_vars => WrapOnlyAtMargin'
  <2> SUFFICES ASSUME TypeOK, WrapOnlyAtMargin, [Next]_vars PROVE WrapOnlyAtMargin'
    OBVIOUS
  <2>1. CASE PrintChar
    <3>1. UNCHANGED <<sizeVars, backup>>
      BY <2>1 DEF PrintChar, PutNarrow, PutWide, altVars
    <3>2. QED
      BY <2>1, <3>1, PrintAtMargin DEF WrapOnlyAtMargin, sizeVars
  <2>2. CASE Move \/ LineEdit \/ CharEdit \/ Paint
    <3>1. cols' = cols /\ backup' = backup /\ CursorKept
      BY <2>2, CursorSteps DEF sizeVars
    <3>2. CASE wrapPending' = FALSE
      BY <3>1, <3>2 DEF WrapOnlyAtMargin
    <3>3. CASE UNCHANGED <<wrapPending, cursorCol>>
      BY <3>1, <3>3 DEF WrapOnlyAtMargin
    <3>4. QED
      BY <3>1, <3>2, <3>3 DEF CursorKept
  <2>3. CASE Reset
    BY <2>3 DEF Reset, StartPage, FreshPage, WrapOnlyAtMargin, sizeVars, altVars
  <2>4. CASE EnterAltScreen
    BY <2>4 DEF EnterAltScreen, StartPage, FreshPage, CurrentPage, WrapOnlyAtMargin, sizeVars
  <2>5. CASE ExitAltScreen
    BY <2>5 DEF ExitAltScreen, StartPage, CurrentPage, WrapOnlyAtMargin, sizeVars
  <2>6. CASE Regrid
    BY <2>6 DEF Regrid, Resize, FreshPage, WrapOnlyAtMargin
  <2>7. CASE UNCHANGED vars
    BY <2>7 DEF vars, sizeVars, cursorVars, altVars, WrapOnlyAtMargin
  <2>8. QED
    BY <2>1, <2>2, <2>3, <2>4, <2>5, <2>6, <2>7 DEF Next, Page
<1>3. QED
  BY <1>1, <1>2, TypeCorrect, PTL DEF Spec
-----------------------------------------------------------------------------
(* The page that is not in use. *)

\* Nothing but a page switch or a new size touches the page that waits: no
\* text, erasure, scroll or full reset of the alternate screen reaches it.
THEOREM MainPageWaits == Spec => MainPagePreserved
<1>1. Spec => [][Next]_vars
  BY DEF Spec
<1>2. [Next]_vars => (altActive /\ altActive' /\ UNCHANGED sizeVars => UNCHANGED backup)
  <2> SUFFICES ASSUME [Next]_vars, altActive, altActive', UNCHANGED sizeVars
               PROVE  UNCHANGED backup
    OBVIOUS
  <2>1. CASE PrintChar
    BY <2>1 DEF PrintChar, PutNarrow, PutWide, altVars
  <2>2. CASE Move \/ LineEdit \/ CharEdit \/ Paint
    BY <2>2, CursorSteps
  <2>3. CASE Page
    BY <2>3 DEF Page, Reset, EnterAltScreen, ExitAltScreen, altVars
  <2>4. CASE Regrid
    BY <2>4, SizesFitAPair DEF Regrid, Resize, sizeVars
  <2>5. CASE UNCHANGED vars
    BY <2>5 DEF vars, altVars
  <2> QED
    BY <2>1, <2>2, <2>3, <2>4, <2>5 DEF Next
<1> QED
  BY <1>1, <1>2, PTL DEF MainPagePreserved

-----------------------------------------------------------------------------
(* The scroll region. *)

Outside(r) == r \in Row /\ r \notin scrollTop .. scrollBot - 1

\* A shift that begins inside the region stays inside it.
LEMMA ShiftInside ==
  ASSUME TypeOK, NEW r, Outside(r), NEW g, NEW n, NEW top \in scrollTop .. scrollBot - 1
  PROVE  /\ ShiftedUp(g, top, scrollBot, n)[r] = g[r]
         /\ ShiftedDown(g, top, scrollBot, n)[r] = g[r]
<1>1. r < top \/ r >= scrollBot
  BY StateFacts DEF Outside, Row
<1> QED
  BY <1>1 DEF Outside, ShiftedUp, ShiftedDown

LEMMA LineFedInside ==
  ASSUME TypeOK, NEW s \in Stage, NEW r, Outside(r)
  PROVE  LineFed(s).grid[r] = s.grid[r] /\ StartLine(s).grid[r] = s.grid[r]
<1>1. scrollTop \in scrollTop .. scrollBot - 1
  BY StateFacts DEF TypeOK
<1>2. LineFed(s).grid[r] = s.grid[r]
  BY <1>1, ShiftInside DEF LineFed, Stage
<1>3. LineFed(s) \in Stage
  BY LineFedType
<1> QED
  BY <1>2, <1>3 DEF StartLine, Stage

LEMMA PrintInside ==
  ASSUME TypeOK, PrintChar, NEW r, Outside(r), r # cursorRow'
  PROVE  grid'[r] = grid[r]
<1>1. Unwrapped \in Stage /\ Unwrapped.grid[r] = grid[r]
  BY UnwrappedType, HereType, LineFedInside DEF Unwrapped, Here
<1>2. StartLine(Unwrapped) \in Stage /\ StartLine(Unwrapped).grid[r] = grid[r]
  BY <1>1, StartLineType, LineFedInside
<1>3. ASSUME NEW ch \in Narrow, PutNarrow(ch)
      PROVE  grid'[r] = grid[r]
  BY <1>1, <1>3 DEF PutNarrow, Stage, Outside
<1>4. ASSUME NEW ch \in Wide, PutWide(ch)
      PROVE  grid'[r] = grid[r]
  BY <1>1, <1>2, <1>4 DEF PutWide, Stage, Outside
<1> QED
  BY <1>3, <1>4 DEF PrintChar

LEMMA LineEditInside ==
  ASSUME TypeOK, LineEdit, NEW r, Outside(r)
  PROVE  grid'[r] = grid[r]
<1>1. scrollTop \in scrollTop .. scrollBot - 1
  BY StateFacts DEF TypeOK
<1>2. Here \in Stage /\ Here.grid = grid
  BY HereType DEF Here
<1>3. CASE LineFeed \/ NextLine
  BY <1>2, <1>3, LineFedInside DEF LineFeed, NextLine
<1>4. CASE ReverseIndex
  BY <1>1, <1>4, ShiftInside DEF ReverseIndex, paintVars
<1>5. ASSUME NEW n, ScrollUp(n) \/ ScrollDown(n)
      PROVE  grid'[r] = grid[r]
  BY <1>1, <1>5, ShiftInside DEF ScrollUp, ScrollDown
<1>6. ASSUME NEW n, InsertLines(n) \/ DeleteLines(n)
      PROVE  grid'[r] = grid[r]
  <2>1. cursorRow \in scrollTop .. scrollBot - 1
    BY <1>6, StateFacts DEF InsertLines, DeleteLines, InScrollRegion
  <2> QED
    BY <1>6, <2>1, ShiftInside DEF InsertLines, DeleteLines
<1> QED
  BY <1>3, <1>4, <1>5, <1>6 DEF LineEdit

\* Printing, line feeds, scrolling and the insertion of lines never reach over
\* a margin of the region, however high it is and whatever their counts are.
THEOREM Confined == Spec => ScrollConfined
<1> DEFINE Step ==
      (UNCHANGED sizeVars /\ \E r \in Row \ {cursorRow, cursorRow'} :
            r \notin scrollTop .. scrollBot - 1 /\ grid'[r] # grid[r])
        => CharEdit \/ Page
<1>1. TypeOK /\ [Next]_vars => Step
  <2> SUFFICES ASSUME TypeOK, [Next]_vars, UNCHANGED sizeVars, ~CharEdit, ~Page,
                      NEW r \in Row, r # cursorRow', r \notin scrollTop .. scrollBot - 1
               PROVE  grid'[r] = grid[r]
    OBVIOUS
  <2>1. Outside(r)
    BY DEF Outside
  <2>2. CASE PrintChar
    BY <2>1, <2>2, PrintInside
  <2>3. CASE LineEdit
    BY <2>1, <2>3, LineEditInside
  <2>4. CASE Move
    BY <2>4 DEF Move, Backspace, Tab, CarriageReturn, MoveBy, MoveTo, SetScrollRegion,
       SaveCursor, RestoreCursor, SetPen, SetModes, NoEdit, paintVars
  <2>5. CASE Paint
    BY <2>5 DEF Paint, RenderDirty, MarkRegion
  <2>6. CASE Regrid
    BY <2>6 DEF Regrid, Resize, sizeVars
  <2>7. CASE UNCHANGED vars
    BY <2>7 DEF vars, paintVars
  <2> QED
    BY <2>2, <2>3, <2>4, <2>5, <2>6, <2>7 DEF Next
<1> QED
  BY <1>1, TypeCorrect, PTL DEF Spec, ScrollConfined

-----------------------------------------------------------------------------
(* The halves of wide characters. *)

\* Outside S every half has its other half, and outside S.
PairedBut(line, S) ==
  \A k \in Col \ S :
    /\ line[k].half = "wide" => k + 1 \in Col \ S /\ line[k + 1].half = "cont"
    /\ line[k].half = "cont" => k - 1 \in Col \ S /\ line[k - 1].half = "wide"

LEMMA PairedIs ==
  ASSUME TypeOK, NEW line \in Lines
  PROVE  Paired(line) <=> PairedBut(line, {})
<1>1. DOMAIN line = Col
  BY DEF Lines
<1>2. /\ cols \in Nat
      /\ \A k \in Col : k \in Nat /\ (k + 1 \in Col <=> k + 1 < cols) /\ (k - 1 \in Col <=> k > 0)
  BY StateFacts DEF Col
<1> QED
  BY <1>1, <1>2 DEF Paired, PairedBut

\* clear_orphan_pair lets a column go without leaving half of a pair elsewhere.
LEMMA UnpairedLetsGo ==
  ASSUME TypeOK, NEW line \in Lines, NEW S, NEW c \in Col, PairedBut(line, S)
  PROVE  PairedBut(Unpaired(line, c), S \cup {c})
<1> DEFINE new == Unpaired(line, c)
<1> SUFFICES ASSUME NEW k \in Col, k \notin S, k # c
             PROVE  /\ new[k].half = "wide" => /\ k + 1 \in Col \ (S \cup {c})
                                               /\ new[k + 1].half = "cont"
                    /\ new[k].half = "cont" => /\ k - 1 \in Col \ (S \cup {c})
                                               /\ new[k - 1].half = "wide"
  BY DEF PairedBut
<1>1. /\ cols \in Nat /\ k \in 0 .. cols - 1 /\ c \in 0 .. cols - 1
  BY StateFacts DEF Col
<1>2. \A j \in Col : \/ new[j] = line[j]
                     \/ new[j] = Blank /\ j = c + 1 /\ OrphanRight(line, c)
                     \/ new[j] = Blank /\ j = c - 1 /\ OrphanLeft(line, c)
  BY DEF Unpaired
<1>3. Blank.half = "single"
  BY DEF Blank
<1>4. ASSUME new[k].half = "wide"
      PROVE  k + 1 \in Col \ (S \cup {c}) /\ new[k + 1].half = "cont"
  <2>1. new[k] = line[k]
    BY <1>2, <1>3, <1>4
  <2>2. k + 1 \in Col /\ k + 1 \notin S /\ line[k + 1].half = "cont" /\ line[k].half = "wide"
    BY <1>4, <2>1 DEF PairedBut
  <2>3. k + 1 # c
    <3> SUFFICES ASSUME k + 1 = c PROVE FALSE
      OBVIOUS
    <3>1. k = c - 1 /\ c > 0
      BY <1>1
    <3>2. OrphanLeft(line, c)
      BY <2>2, <3>1 DEF OrphanLeft
    <3>3. new[k] = Blank
      BY <3>1, <3>2 DEF Unpaired
    <3> QED
      BY <1>3, <1>4, <3>3
  <2>4. new[k + 1] = line[k + 1]
    <3>1. k + 1 # c + 1
      BY <1>1
    <3>2. ~(k + 1 = c - 1 /\ OrphanLeft(line, c))
      BY <2>2 DEF OrphanLeft
    <3> QED
      BY <1>2, <2>2, <3>1, <3>2
  <2> QED
    BY <2>2, <2>3, <2>4
<1>5. ASSUME new[k].half = "cont"
      PROVE  k - 1 \in Col \ (S \cup {c}) /\ new[k - 1].half = "wide"
  <2>1. new[k] = line[k]
    BY <1>2, <1>3, <1>5
  <2>2. k - 1 \in Col /\ k - 1 \notin S /\ line[k - 1].half = "wide" /\ line[k].half = "cont"
    BY <1>5, <2>1 DEF PairedBut
  <2>3. k - 1 # c
    <3> SUFFICES ASSUME k - 1 = c PROVE FALSE
      OBVIOUS
    <3>1. k = c + 1 /\ c + 1 < cols
      BY <1>1
    <3>2. OrphanRight(line, c)
      BY <2>2, <3>1 DEF OrphanRight
    <3>3. new[k] = Blank
      BY <3>1, <3>2 DEF Unpaired
    <3> QED
      BY <1>3, <1>5, <3>3
  <2>4. new[k - 1] = line[k - 1]
    <3>1. k - 1 # c - 1
      BY <1>1
    <3>2. ~(k - 1 = c + 1 /\ OrphanRight(line, c))
      BY <2>2 DEF OrphanRight
    <3> QED
      BY <1>2, <2>2, <3>1, <3>2
  <2> QED
    BY <2>2, <2>3, <2>4
<1> QED
  BY <1>4, <1>5

LEMMA NarrowPaired ==
  ASSUME TypeOK, NEW line \in Lines, Paired(line), NEW c \in Col, NEW ch \in Narrow
  PROVE  Paired(NarrowLine(line, c, ch))
<1> DEFINE loose == Unpaired(line, c)
<1>1. loose \in Lines /\ PairedBut(loose, {c})
  <2>1. PairedBut(loose, {} \cup {c})
    BY PairedIs, UnpairedLetsGo
  <2> QED
    BY <2>1, UnpairedType
<1>2. NarrowLine(line, c, ch) = [loose EXCEPT ![c] = [ch |-> ch, pen |-> pen, half |-> "single"]]
  BY DEF NarrowLine
<1>3. NarrowLine(line, c, ch) \in Lines
  BY WrittenLineType
<1> HIDE DEF loose
<1>4. PairedBut(NarrowLine(line, c, ch), {})
  BY <1>1, <1>2 DEF PairedBut, Lines
<1> QED
  BY <1>3, <1>4, PairedIs

LEMMA WidePaired ==
  ASSUME TypeOK, NEW line \in Lines, Paired(line), NEW c \in Col, c + 1 \in Col,
         NEW ch \in Wide
  PROVE  Paired(WideLine(line, c, ch))
<1> DEFINE first == Unpaired(line, c)
           loose == Unpaired(first, c + 1)
<1>1. first \in Lines /\ PairedBut(first, {c})
  <2>1. PairedBut(first, {} \cup {c})
    BY PairedIs, UnpairedLetsGo
  <2> QED
    BY <2>1, UnpairedType
<1>2. loose \in Lines /\ PairedBut(loose, {c} \cup {c + 1})
  <2> HIDE DEF first
  <2> QED
    BY <1>1, UnpairedLetsGo, UnpairedType
<1>3. WideLine(line, c, ch) =
        [loose EXCEPT ![c]     = [ch |-> ch, pen |-> pen, half |-> "wide"],
                      ![c + 1] = [ch |-> Space, pen |-> pen, half |-> "cont"]]
  BY DEF WideLine
<1>4. WideLine(line, c, ch) \in Lines
  BY WrittenLineType
<1>5. c \in Nat /\ c + 1 # c /\ (c + 1) - 1 = c
  BY StateFacts DEF Col
<1> HIDE DEF loose, first
<1>6. /\ WideLine(line, c, ch)[c].half = "wide" /\ WideLine(line, c, ch)[c + 1].half = "cont"
      /\ \A k \in Col \ {c, c + 1} : WideLine(line, c, ch)[k] = loose[k]
  BY <1>2, <1>3, <1>5 DEF Lines
<1>7. ASSUME NEW k \in Col
      PROVE  /\ WideLine(line, c, ch)[k].half = "wide"
                  => k + 1 \in Col /\ WideLine(line, c, ch)[k + 1].half = "cont"
             /\ WideLine(line, c, ch)[k].half = "cont"
                  => k - 1 \in Col /\ WideLine(line, c, ch)[k - 1].half = "wide"
  <2> DEFINE new == WideLine(line, c, ch)
  <2>1. /\ new[c].half = "wide" /\ new[c + 1].half = "cont"
        /\ \A j \in Col \ {c, c + 1} : new[j] = loose[j]
    BY <1>6
  <2> HIDE DEF new
  <2>2. CASE k = c \/ k = c + 1
    BY <1>5, <2>1, <2>2 DEF new
  <2>3. CASE k # c /\ k # c + 1
    <3>1. new[k] = loose[k] /\ k \in Col \ ({c} \cup {c + 1})
      BY <2>1, <2>3
    <3>2. /\ loose[k].half = "wide" => /\ k + 1 \in Col \ {c, c + 1}
                                       /\ loose[k + 1].half = "cont"
          /\ loose[k].half = "cont" => /\ k - 1 \in Col \ {c, c + 1}
                                       /\ loose[k - 1].half = "wide"
      BY <1>2, <3>1 DEF PairedBut
    <3> QED
      BY <2>1, <3>1, <3>2 DEF new
  <2> QED
    BY <2>2, <2>3
<1> QED
  BY <1>4, <1>7, PairedIs DEF PairedBut

AllPaired(g) == \A r \in Row : Paired(g[r])

LEMMA BlankPaired ==
  ASSUME TypeOK
  PROVE  Paired(BlankLine)
BY DEF Paired, BlankLine, Blank

LEMMA ShiftPaired ==
  ASSUME TypeOK, NEW g, AllPaired(g), NEW top \in Nat, NEW bot \in 0 .. rows, NEW n \in Nat
  PROVE  AllPaired(ShiftedUp(g, top, bot, n)) /\ AllPaired(ShiftedDown(g, top, bot, n))
<1>1. \A r \in Row : /\ r + n < bot => r + n \in Row
                     /\ r - n >= top => r - n \in Row
  BY StateFacts, SMTT(30) DEF Row
<1>2. Paired(BlankLine)
  BY BlankPaired
<1> QED
  BY <1>1, <1>2 DEF AllPaired, ShiftedUp, ShiftedDown

LEMMA StagePaired ==
  ASSUME TypeOK, NEW s \in Stage, AllPaired(s.grid)
  PROVE  AllPaired(LineFed(s).grid) /\ AllPaired(StartLine(s).grid)
<1>1. scrollTop \in Nat /\ scrollBot \in 0 .. rows /\ 1 \in Nat
  BY StateFacts
<1>2. AllPaired(LineFed(s).grid)
  BY <1>1, ShiftPaired DEF LineFed, Stage
<1>3. LineFed(s) \in Stage
  BY LineFedType
<1> QED
  BY <1>2, <1>3 DEF StartLine, Stage

LEMMA PrintPaired ==
  ASSUME TypeOK, PrintChar, AllPaired(grid)
  PROVE  AllPaired(grid')
<1>1. Unwrapped \in Stage /\ AllPaired(Unwrapped.grid)
  BY UnwrappedType, HereType, StagePaired DEF Unwrapped, Here
<1>2. StartLine(Unwrapped) \in Stage /\ AllPaired(StartLine(Unwrapped).grid)
  BY <1>1, StartLineType, StagePaired
<1>3. ASSUME NEW ch \in Narrow, PutNarrow(ch)
      PROVE  AllPaired(grid')
  <2> DEFINE s == Unwrapped
             line == NarrowLine(s.grid[s.row], s.col, ch)
  <2>1. s.grid[s.row] \in Lines /\ s.row \in Row /\ s.col \in Col /\ Paired(s.grid[s.row])
    BY <1>1 DEF Stage, AllPaired
  <2>2. Paired(line)
    BY <2>1, NarrowPaired
  <2>3. grid' = [s.grid EXCEPT ![s.row] = line] /\ s.grid \in [Row -> Lines]
    BY <1>1, <1>3 DEF PutNarrow, Stage
  <2> HIDE DEF line, s
  <2> QED
    BY <1>1, <2>2, <2>3 DEF AllPaired, s
<1>4. ASSUME NEW ch \in Wide, PutWide(ch)
      PROVE  AllPaired(grid')
  <2> DEFINE s == IF NoRoom(Unwrapped) THEN StartLine(Unwrapped) ELSE Unwrapped
             line == WideLine(s.grid[s.row], s.col, ch)
  <2>1. s \in Stage /\ s.row \in Row /\ s.col \in Col /\ s.col + 1 \in Col
    BY <1>4, WideStage DEF PutWide
  <2>2. AllPaired(s.grid)
    BY <1>1, <1>2
  <2>3. s.grid[s.row] \in Lines /\ Paired(s.grid[s.row])
    BY <2>1, <2>2 DEF Stage, AllPaired
  <2>4. Paired(line)
    BY <2>1, <2>3, WidePaired
  <2>5. grid' = [s.grid EXCEPT ![s.row] = line] /\ s.grid \in [Row -> Lines]
    BY <1>4, <2>1 DEF PutWide, Stage
  <2> HIDE DEF line, s
  <2> QED
    BY <2>2, <2>4, <2>5 DEF AllPaired
<1> QED
  BY <1>3, <1>4 DEF PrintChar

LEMMA LineEditPaired ==
  ASSUME TypeOK, LineEdit, AllPaired(grid)
  PROVE  AllPaired(grid')
<1>1. /\ scrollTop \in Nat /\ scrollBot \in 0 .. rows /\ 1 \in Nat /\ cursorRow \in Nat
      /\ scrollTop < scrollBot /\ scrollBot - cursorRow \in Int
  BY StateFacts
<1>2. Here \in Stage /\ Here.grid = grid
  BY HereType DEF Here
<1>3. CASE LineFeed \/ NextLine
  BY <1>2, <1>3, StagePaired DEF LineFeed, NextLine
<1>4. CASE ReverseIndex
  BY <1>1, <1>4, ShiftPaired DEF ReverseIndex, paintVars
<1>5. ASSUME NEW p \in Params, ScrollUp(Count(p)) \/ ScrollDown(Count(p))
      PROVE  AllPaired(grid')
  BY <1>1, <1>5, CountType, ShiftPaired DEF ScrollUp, ScrollDown
<1>6. ASSUME NEW p \in Params, InsertLines(Count(p)) \/ DeleteLines(Count(p))
      PROVE  AllPaired(grid')
  <2>1. Clipped(Count(p), scrollBot - cursorRow) \in Nat
    BY <1>1, <1>6, CountType, StateFacts
       DEF InsertLines, DeleteLines, InScrollRegion, Clipped, Lesser
  <2> QED
    BY <1>1, <1>6, <2>1, ShiftPaired DEF InsertLines, DeleteLines
<1> QED
  BY <1>3, <1>4, <1>5, <1>6 DEF LineEdit

\* Printing over half of a wide character, in any order with line feeds,
\* scrolls, page switches and the deferred wrap, blanks the other half: only
\* the edits inside a line and a new size part the two.
THEOREM PairsStay == Spec => PairsSurvive
<1> DEFINE Step == PagesPaired /\ ~ PagesPaired' => CharEdit \/ Regrid
<1>1. TypeOK /\ [Next]_vars => Step
  <2> SUFFICES ASSUME TypeOK, [Next]_vars, PagesPaired, ~CharEdit, ~Regrid
               PROVE  PagesPaired'
    OBVIOUS
  <2>1. AllPaired(grid) /\ AllPaired(backup.grid)
    BY DEF PagesPaired, NoDanglingPair, AllPaired
  <2>2. UNCHANGED sizeVars /\ AllPaired(grid') /\ AllPaired(backup'.grid)
    <3>1. CASE PrintChar
      <4>1. UNCHANGED <<sizeVars, backup>>
        BY <3>1 DEF PrintChar, PutNarrow, PutWide, altVars
      <4> QED
        BY <2>1, <3>1, <4>1, PrintPaired
    <3>2. CASE LineEdit
      BY <2>1, <3>2, CursorSteps, LineEditPaired
    <3>3. CASE Move
      <4>1. grid' = grid
        BY <3>3 DEF Move, Backspace, Tab, CarriageReturn, MoveBy, MoveTo, SetScrollRegion,
           SaveCursor, RestoreCursor, SetPen, SetModes, NoEdit, paintVars
      <4> QED
        BY <2>1, <3>3, <4>1, CursorSteps
    <3>4. CASE Paint
      <4>1. grid' = grid
        BY <3>4 DEF Paint, RenderDirty, MarkRegion
      <4> QED
        BY <2>1, <3>4, <4>1, CursorSteps
    <3>5. CASE Page
      <4>1. AllPaired(FreshPage(cols, rows).grid)
        <5>1. FreshPage(cols, rows).grid = [i \in Row |-> [j \in Col |-> DefaultCell]]
          BY DEF FreshPage, Filled, Row, Col
        <5> QED
          BY <5>1 DEF AllPaired, Paired, DefaultCell
      <4> QED
        BY <2>1, <3>5, <4>1 DEF Page, Reset, EnterAltScreen, ExitAltScreen, StartPage,
           CurrentPage, altVars
    <3>6. CASE UNCHANGED vars
      BY <2>1, <3>6 DEF vars, paintVars, altVars
    <3> QED
      BY <3>1, <3>2, <3>3, <3>4, <3>5, <3>6 DEF Next
  <2>3. Row' = Row /\ cols' = cols
    BY <2>2, RowCol DEF sizeVars
  <2> QED
    BY <2>2, <2>3 DEF PagesPaired, NoDanglingPair, AllPaired, Paired
<1> QED
  BY <1>1, TypeCorrect, PTL DEF Spec, PairsSurvive

-----------------------------------------------------------------------------
(* The parser. *)


LEMMA Empty == ASSUME NEW S PROVE <<>> \in Seq(S) /\ Len(<<>>) = 0
OBVIOUS

LEMMA StateNames == 
  {"Ground", "OscString", "Esc", "EscIntermediate", "CsiEntry", "CsiParam",
   "CsiIntermediate", "CsiIgnore"} = States
BY DEF States, CsiStates, EscStates

\* One field, or two that belong together, may be given any value that fits.
LEMMA StateWithin ==
  ASSUME NEW q, WithinArrays(q), NEW s \in States
  PROVE  WithinArrays([q EXCEPT !.state = s])
BY DEF WithinArrays, Records, Sized

LEMMA CpWithin ==
  ASSUME NEW q, WithinArrays(q), NEW cp \in Nat, NEW r \in 0 .. 3, cp < CpBound[r]
  PROVE  WithinArrays([q EXCEPT !.cp = cp, !.remaining = r])
BY DEF WithinArrays, Records, Sized

LEMMA ParamsWithin ==
  ASSUME NEW q, WithinArrays(q),
         NEW ps \in Seq(0 .. 10 * MaxParam + 9), Len(ps) <= MaxParams
  PROVE  WithinArrays([q EXCEPT !.params = ps])
BY DEF WithinArrays, Records, Sized

LEMMA OverflowWithin ==
  ASSUME NEW q, WithinArrays(q), NEW o \in BOOLEAN
  PROVE  WithinArrays([q EXCEPT !.csiOverflow = o])
BY DEF WithinArrays, Records, Sized

LEMMA PrivateWithin ==
  ASSUME NEW q, WithinArrays(q), NEW o \in BOOLEAN
  PROVE  WithinArrays([q EXCEPT !.private = o])
BY DEF WithinArrays, Records, Sized

LEMMA IntermediatesWithin ==
  ASSUME NEW q, WithinArrays(q), NEW s \in Seq(Byte), Len(s) <= MaxIntermediates
  PROVE  /\ WithinArrays([q EXCEPT !.intermediates = s])
         /\ WithinArrays([q EXCEPT !.escIntermediates = s])
<1>1. WithinArrays([q EXCEPT !.intermediates = s])
  BY DEF WithinArrays, Records, Sized
<1>2. WithinArrays([q EXCEPT !.escIntermediates = s])
  BY DEF WithinArrays, Records, Sized
<1> QED
  BY <1>1, <1>2

LEMMA OscFits ==
  ASSUME NEW q, WithinArrays(q), NEW s \in Seq(Byte), Len(s) <= MaxOscLen
  PROVE  WithinArrays([q EXCEPT !.osc = s])
BY DEF WithinArrays, Records, Sized

LEMMA OscOverflowWithin ==
  ASSUME NEW q, WithinArrays(q), NEW o \in BOOLEAN
  PROVE  WithinArrays([q EXCEPT !.oscOverflow = o])
BY DEF WithinArrays, Records, Sized

LEMMA Bounds == CpBound[0] = 1 /\ CpBound[1] = 32768 /\ CpBound[2] = 512 /\ CpBound[3] = 8
BY DEF CpBound

\* What a sequence begins with fits.
LEMMA EnterWithin ==
  ASSUME NEW q, WithinArrays(q)
  PROVE  /\ WithinArrays(EnterGround(q)) /\ WithinArrays(EnterEsc(q))
         /\ WithinArrays(EnterCsi(q)) /\ WithinArrays(EnterOsc(q))
<1>1. /\ <<>> \in Seq(Byte) /\ <<>> \in Seq(0 .. 10 * MaxParam + 9) /\ Len(<<>>) = 0
      /\ 0 <= MaxParams /\ 0 <= MaxIntermediates /\ 0 <= MaxOscLen
  BY Empty, ParserAssumption
<1> DEFINE e == <<>>
<1> HIDE DEF e
<1>2. /\ e \in Seq(Byte) /\ e \in Seq(0 .. 10 * MaxParam + 9)
      /\ Len(e) <= MaxParams /\ Len(e) <= MaxIntermediates /\ Len(e) <= MaxOscLen
  BY <1>1 DEF e
<1>3. \A s \in States : WithinArrays([q EXCEPT !.state = s])
  BY StateWithin
<1>4. WithinArrays(EnterGround(q))
  BY <1>3, StateNames DEF EnterGround
<1>5. WithinArrays([[q EXCEPT !.state = "Esc"] EXCEPT !.escIntermediates = e])
  BY <1>2, <1>3, StateNames, IntermediatesWithin
<1>6. WithinArrays([[[q EXCEPT !.state = "OscString"] EXCEPT !.osc = e]
                      EXCEPT !.oscOverflow = FALSE])
  BY <1>2, <1>3, StateNames, OscFits, OscOverflowWithin
<1>7. WithinArrays([[[[[q EXCEPT !.state = "CsiEntry"] EXCEPT !.params = e]
        EXCEPT !.intermediates = e] EXCEPT !.private = FALSE] EXCEPT !.csiOverflow = FALSE])
  BY <1>2, <1>3, StateNames, ParamsWithin, IntermediatesWithin, PrivateWithin, OverflowWithin
<1> QED
  BY <1>4, <1>5, <1>6, <1>7 DEF EnterEsc, EnterOsc, EnterCsi, e

-----------------------------------------------------------------------------
\* The handlers of feed() keep a parser within its arrays.
LEMMA DroppedWithin ==
  ASSUME NEW q, WithinArrays(q)
  PROVE  WithinArrays([q EXCEPT !.cp = 0, !.remaining = 0])
<1>1. 0 \in Nat /\ 0 \in 0 .. 3 /\ 0 < CpBound[0]
  BY Bounds
<1> QED
  BY <1>1, CpWithin

LEMMA ContinuationWithin ==
  ASSUME NEW q, WithinArrays(q), NEW b, IsContinuation(b), q.remaining > 0
  PROVE  WithinArrays(OnContinuation(q, b).parser)
<1> DEFINE cp == 64 * q.cp + (b - 128)
<1>1. b - 128 \in 0 .. 63
  BY DEF IsContinuation
<1>2. q.cp \in Nat /\ q.remaining \in 0 .. 3 /\ q.cp < CpBound[q.remaining]
  BY DEF WithinArrays, Records, Sized
<1>3. cp \in Nat
  BY <1>1, <1>2
<1>4. CASE q.remaining = 1
  <2>1. OnContinuation(q, b).parser = [q EXCEPT !.cp = 0, !.remaining = 0]
    BY <1>4 DEF OnContinuation, Makes
  <2> QED
    BY <2>1, DroppedWithin
<1>5. CASE q.remaining # 1
  <2> DEFINE r == q.remaining - 1
  <2>1. r \in 0 .. 3 /\ cp < CpBound[r]
    <3>1. (q.remaining = 2 /\ q.cp < 512) \/ (q.remaining = 3 /\ q.cp < 8)
      BY <1>2, <1>5, Bounds
    <3> QED
      BY <1>1, <1>2, <3>1, Bounds
  <2>2. OnContinuation(q, b).parser = [q EXCEPT !.cp = cp, !.remaining = r]
    BY <1>5 DEF OnContinuation, Quiet
  <2> HIDE DEF cp, r
  <2>3. WithinArrays([q EXCEPT !.cp = cp, !.remaining = r])
    BY <1>3, <2>1, CpWithin
  <2> QED
    BY <2>2, <2>3
<1> QED
  BY <1>4, <1>5

LEMMA LeadWithin ==
  ASSUME NEW q, WithinArrays(q), NEW b
  PROVE  WithinArrays(OnLead(q, b).parser)
<1>1. /\ Lead(b)[2] \in 0 .. 3 /\ Lead(b)[1] \in Nat
      /\ Lead(b)[1] < CpBound[Lead(b)[2]]
  <2>1. CASE b \in 192 .. 223
    BY <2>1, Bounds DEF Lead
  <2>2. CASE b \in 224 .. 239
    BY <2>2, Bounds DEF Lead
  <2>3. CASE b \in 240 .. 247
    BY <2>3, Bounds DEF Lead
  <2>4. CASE b \notin 192 .. 223 /\ b \notin 224 .. 239 /\ b \notin 240 .. 247
    BY <2>4, Bounds DEF Lead
  <2> QED
    BY <2>1, <2>2, <2>3, <2>4
<1> QED
  BY <1>1, CpWithin DEF OnLead, Quiet

LEMMA GroundWithin ==
  ASSUME NEW q, WithinArrays(q), NEW b
  PROVE  WithinArrays(OnGround(q, b).parser)
<1>1. WithinArrays(OnAscii(q, b).parser)
  <2>1. WithinArrays([q EXCEPT !.cp = 0, !.remaining = 0])
    BY DroppedWithin
  <2> QED
    BY <2>1 DEF OnAscii, Makes
<1> QED
  BY <1>1, EnterWithin, ContinuationWithin, LeadWithin DEF OnGround, Quiet, Makes

LEMMA KeptWithin ==
  ASSUME NEW s \in Seq(Byte), NEW b \in Byte, Len(s) <= MaxIntermediates
  PROVE  Kept(s, b) \in Seq(Byte) /\ Len(Kept(s, b)) <= MaxIntermediates
BY ParserAssumption DEF Kept

LEMMA InterWithin ==
  ASSUME NEW q, WithinArrays(q), NEW b \in Byte
  PROVE  WithinArrays(EscInter(q, b)) /\ WithinArrays(CsiInter(q, b))
<1>1. /\ q.intermediates \in Seq(Byte) /\ Len(q.intermediates) <= MaxIntermediates
      /\ q.escIntermediates \in Seq(Byte) /\ Len(q.escIntermediates) <= MaxIntermediates
  BY DEF WithinArrays, Records, Sized
<1> DEFINE s == Kept(q.intermediates, b)
           t == Kept(q.escIntermediates, b)
<1>2. /\ s \in Seq(Byte) /\ Len(s) <= MaxIntermediates
      /\ t \in Seq(Byte) /\ Len(t) <= MaxIntermediates
  BY <1>1, KeptWithin
<1> DEFINE p == [q EXCEPT !.state = "EscIntermediate"]
           r == [q EXCEPT !.state = "CsiIntermediate"]
<1>3. /\ EscInter(q, b) = [p EXCEPT !.escIntermediates = t]
      /\ CsiInter(q, b) = [r EXCEPT !.intermediates = s]
  BY DEF EscInter, CsiInter
<1>4. WithinArrays(p) /\ WithinArrays(r)
  BY StateWithin, StateNames
<1> HIDE DEF s, t, p, r
<1>5. /\ WithinArrays([p EXCEPT !.escIntermediates = t])
      /\ WithinArrays([r EXCEPT !.intermediates = s])
  BY <1>2, <1>4, IntermediatesWithin
<1> QED
  BY <1>3, <1>5

LEMMA EscWithin ==
  ASSUME NEW q, WithinArrays(q), NEW b \in Byte
  PROVE  WithinArrays(OnEsc(q, b).parser)
BY EnterWithin, InterWithin DEF OnEsc, Quiet, Makes, DispatchEsc

\* The parameters, once there is one, fit and end with a number.
LEMMA StartedWithin ==
  ASSUME NEW q, WithinArrays(q)
  PROVE  /\ Started(q) \in Seq(0 .. 10 * MaxParam + 9)
         /\ Len(Started(q)) \in 1 .. MaxParams
<1>1. q.params \in Seq(0 .. 10 * MaxParam + 9) /\ Len(q.params) <= MaxParams
  BY DEF WithinArrays, Records, Sized
<1>2. CASE q.params = <<>>
  BY <1>2, ParserAssumption DEF Started
<1>3. CASE q.params # <<>>
  BY <1>1, <1>3, ParserAssumption DEF Started
<1> QED
  BY <1>2, <1>3

LEMMA DigitWithin ==
  ASSUME NEW q, WithinArrays(q), NEW b, IsDigit(b)
  PROVE  WithinArrays(PushDigit(q, b))
<1> DEFINE ps == Started(q)
           x == ps[Len(ps)]
           ds == [ps EXCEPT ![Len(ps)] = 10 * @ + (b - 48)]
<1>1. /\ ps \in Seq(0 .. 10 * MaxParam + 9) /\ Len(ps) \in 1 .. MaxParams
      /\ Len(ps) <= MaxParams
  BY StartedWithin, ParserAssumption
<1>2. x \in 0 .. 10 * MaxParam + 9
  <2>1. ASSUME NEW S, NEW s \in Seq(S), Len(s) # 0
        PROVE  s[Len(s)] \in S
    BY <2>1
  <2>2. Len(ps) # 0
    BY <1>1
  <2> HIDE DEF ps
  <2> QED
    BY <1>1, <2>1, <2>2
<1>3. CASE x > MaxParam
  <2>1. PushDigit(q, b) = [[q EXCEPT !.params = ps] EXCEPT !.csiOverflow = TRUE]
    BY <1>3 DEF PushDigit
  <2> HIDE DEF ps
  <2> QED
    BY <1>1, <2>1, ParamsWithin, OverflowWithin
<1>4. CASE ~(x > MaxParam)
  <2>1. PushDigit(q, b) = [q EXCEPT !.params = ds]
    BY <1>4 DEF PushDigit
  <2>2. 10 * x + (b - 48) \in 0 .. 10 * MaxParam + 9
    BY <1>2, <1>4, ParserAssumption DEF IsDigit
  <2> HIDE DEF ps
  <2>3. ds \in Seq(0 .. 10 * MaxParam + 9) /\ Len(ds) <= MaxParams
    BY <1>1, <2>2
  <2> HIDE DEF ds
  <2> QED
    BY <2>1, <2>3, ParamsWithin
<1> QED
  BY <1>3, <1>4

LEMMA NextParamWithin ==
  ASSUME NEW q, WithinArrays(q)
  PROVE  WithinArrays(NextParam(q))
<1> DEFINE ps == Started(q)
<1>1. /\ ps \in Seq(0 .. 10 * MaxParam + 9) /\ Len(ps) \in 1 .. MaxParams
      /\ Len(ps) <= MaxParams
  BY StartedWithin, ParserAssumption
<1>2. CASE Len(ps) < MaxParams
  <2>1. NextParam(q) = [q EXCEPT !.params = Append(ps, 0)]
    BY <1>2 DEF NextParam
  <2> HIDE DEF ps
  <2>2. /\ Append(ps, 0) \in Seq(0 .. 10 * MaxParam + 9)
        /\ Len(Append(ps, 0)) <= MaxParams
    BY <1>1, <1>2, ParserAssumption
  <2> QED
    BY <2>1, <2>2, ParamsWithin
<1>3. CASE ~(Len(ps) < MaxParams)
  <2>1. NextParam(q) = [[q EXCEPT !.params = ps] EXCEPT !.csiOverflow = TRUE]
    BY <1>3 DEF NextParam
  <2> HIDE DEF ps
  <2> QED
    BY <1>1, <2>1, ParamsWithin, OverflowWithin
<1> QED
  BY <1>2, <1>3

LEMMA CsiWithin ==
  ASSUME NEW q, WithinArrays(q), NEW b \in Byte
  PROVE  WithinArrays(OnCsi(q, b).parser)
<1>1. /\ IsDigit(b) => WithinArrays([PushDigit(q, b) EXCEPT !.state = "CsiParam"])
      /\ WithinArrays([NextParam(q) EXCEPT !.state = "CsiParam"])
      /\ WithinArrays([q EXCEPT !.state = "CsiIgnore"])
  BY StateWithin, StateNames, DigitWithin, NextParamWithin
<1>2. WithinArrays([[q EXCEPT !.private = TRUE] EXCEPT !.state = "CsiParam"])
  BY PrivateWithin, StateWithin, StateNames
<1> QED
  BY <1>1, <1>2, EnterWithin, InterWithin DEF OnCsi, Quiet, Makes, DispatchCsi

LEMMA OscWithin ==
  ASSUME NEW q, WithinArrays(q), NEW b \in Byte
  PROVE  WithinArrays(OnOsc(q, b).parser)
<1>1. WithinArrays([q EXCEPT !.oscOverflow = TRUE])
  BY OscOverflowWithin
<1>2. q.osc \in Seq(Byte)
  BY DEF WithinArrays, Records
<1>3. Len(q.osc) < MaxOscLen => WithinArrays([q EXCEPT !.osc = Append(@, b)])
  BY <1>2, OscFits, ParserAssumption, SMTT(30)
<1> QED
  BY <1>1, <1>3, EnterWithin DEF OnOsc, Quiet, Makes

LEMMA FeedWithin ==
  ASSUME NEW q, WithinArrays(q), NEW b \in Byte
  PROVE  WithinArrays(Feed(q, b).parser)
BY EnterWithin, GroundWithin, EscWithin, CsiWithin, OscWithin DEF Feed, Quiet

LEMMA FreshWithin == WithinArrays(Fresh)
<1>1. Fresh \in Records
  BY Empty, StateNames DEF Records, Fresh
<1> DEFINE e == <<>>
<1>2. /\ Fresh.params = e /\ Fresh.intermediates = e /\ Fresh.escIntermediates = e
      /\ Fresh.osc = e /\ Fresh.cp = 0 /\ Fresh.remaining = 0
  BY DEF Fresh
<1>3. Len(e) = 0
  BY Empty
<1> HIDE DEF e
<1> QED
  BY <1>1, <1>2, <1>3, Bounds, ParserAssumption DEF WithinArrays, Sized

(* Whatever bytes come, feed() writes no array of the parser beyond its end  *)
(* and overflows no number.                                                 *)
THEOREM WithinItsArrays == ParserSpec => []ParserTypeOK
<1>1. ParserInit => ParserTypeOK
  BY FreshWithin DEF ParserInit, ParserTypeOK
<1>2. ParserTypeOK /\ [ParserNext]_parserVars => ParserTypeOK'
  <2>1. ASSUME ParserTypeOK, NEW b \in Byte, Read(b)
        PROVE  ParserTypeOK'
    BY <2>1, FreshWithin, FeedWithin DEF ParserTypeOK, Read
  <2> QED
    BY <2>1 DEF ParserNext, parserVars, ParserTypeOK
<1> QED
  BY <1>1, <1>2, PTL DEF ParserSpec

-----------------------------------------------------------------------------
\* Parsers that agree on what the state they are in has yet to use.
Alike(p, q) ==
  /\ p.state = q.state
  /\ p.remaining = q.remaining
  /\ p.remaining > 0 => p.cp = q.cp
  /\ p.state \in CsiStates =>
       /\ p.params = q.params /\ p.intermediates = q.intermediates
       /\ p.private = q.private /\ p.csiOverflow = q.csiOverflow
  /\ p.state \in EscStates => p.escIntermediates = q.escIntermediates
  /\ p.state = "OscString" => p.osc = q.osc /\ p.oscOverflow = q.oscOverflow

\* What feed() says of two parsers is the same, and leaves them alike.
SameFor(f, g) == f.call = g.call /\ Alike(f.parser, g.parser)

\* A parser that enters a state has set, or keeps, what that state uses.
LEMMA EnterAlike ==
  ASSUME NEW p \in Records, NEW q \in Records, Alike(p, q)
  PROVE  /\ Alike(EnterGround(p), EnterGround(q)) /\ Alike(EnterEsc(p), EnterEsc(q))
         /\ Alike(EnterCsi(p), EnterCsi(q)) /\ Alike(EnterOsc(p), EnterOsc(q))
<1> USE DEF Alike, Records, CsiStates, EscStates
<1>1. Alike(EnterGround(p), EnterGround(q))
  BY DEF EnterGround
<1>2. Alike(EnterEsc(p), EnterEsc(q))
  BY DEF EnterEsc
<1>3. Alike(EnterCsi(p), EnterCsi(q))
  BY DEF EnterCsi
<1>4. Alike(EnterOsc(p), EnterOsc(q))
  BY DEF EnterOsc
<1> QED
  BY <1>1, <1>2, <1>3, <1>4

LEMMA GroundAlike ==
  ASSUME NEW p \in Records, NEW q \in Records, Alike(p, q), p.state = "Ground", NEW b
  PROVE  SameFor(OnGround(p, b), OnGround(q, b))
<1>1. SameFor(Quiet(EnterEsc(p)), Quiet(EnterEsc(q)))
  BY EnterAlike DEF SameFor, Quiet
<1>2. SameFor(Quiet(p), Quiet(q)) /\ SameFor(Makes(p, <<"execute", b>>), Makes(q, <<"execute", b>>))
  BY DEF SameFor, Quiet, Makes
<1>3. Alike([p EXCEPT !.cp = 0, !.remaining = 0], [q EXCEPT !.cp = 0, !.remaining = 0])
  BY DEF Alike, Records, CsiStates, EscStates
<1>4. SameFor(OnAscii(p, b), OnAscii(q, b))
  BY <1>3 DEF SameFor, OnAscii, Makes, Alike
<1>5. q.remaining > 0 => SameFor(OnContinuation(p, b), OnContinuation(q, b))
  <2> SUFFICES ASSUME q.remaining > 0
               PROVE  SameFor(OnContinuation(p, b), OnContinuation(q, b))
    OBVIOUS
  <2>1. p.cp = q.cp /\ p.remaining = q.remaining
    BY DEF Alike
  <2>2. CASE q.remaining = 1
    BY <1>3, <2>1, <2>2 DEF SameFor, OnContinuation, Makes
  <2>3. CASE q.remaining # 1
    <3> DEFINE cp == 64 * q.cp + (b - 128)
               r == q.remaining - 1
    <3>1. /\ OnContinuation(p, b) = Quiet([p EXCEPT !.cp = cp, !.remaining = r])
          /\ OnContinuation(q, b) = Quiet([q EXCEPT !.cp = cp, !.remaining = r])
      BY <2>1, <2>3 DEF OnContinuation
    <3> HIDE DEF cp, r
    <3>2. Alike([p EXCEPT !.cp = cp, !.remaining = r], [q EXCEPT !.cp = cp, !.remaining = r])
      BY DEF Alike, Records, CsiStates, EscStates
    <3> QED
      BY <3>1, <3>2 DEF SameFor, Quiet
  <2> QED
    BY <2>2, <2>3
<1>6. SameFor(OnLead(p, b), OnLead(q, b))
  <2> DEFINE lead == Lead(b)
  <2> HIDE DEF lead
  <2>1. Alike([p EXCEPT !.cp = lead[1], !.remaining = lead[2]],
              [q EXCEPT !.cp = lead[1], !.remaining = lead[2]])
    BY DEF Alike, Records, CsiStates, EscStates
  <2> QED
    BY <2>1 DEF SameFor, OnLead, Quiet, lead
<1>7. p.remaining = q.remaining
  BY DEF Alike
<1> QED
  BY <1>1, <1>2, <1>4, <1>5, <1>6, <1>7 DEF OnGround

LEMMA EscAlike ==
  ASSUME NEW p \in Records, NEW q \in Records, Alike(p, q), p.state \in EscStates, NEW b
  PROVE  SameFor(OnEsc(p, b), OnEsc(q, b))
<1>1. p.state = q.state /\ p.escIntermediates = q.escIntermediates
  BY DEF Alike
<1>2. Alike(EscInter(p, b), EscInter(q, b))
  <2> DEFINE s == Kept(q.escIntermediates, b)
  <2>1. /\ EscInter(p, b) = [p EXCEPT !.state = "EscIntermediate", !.escIntermediates = s]
        /\ EscInter(q, b) = [q EXCEPT !.state = "EscIntermediate", !.escIntermediates = s]
    BY <1>1 DEF EscInter
  <2> HIDE DEF s
  <2> QED
    BY <2>1 DEF Alike, Records, CsiStates, EscStates
<1>3. SameFor(DispatchEsc(p, b), DispatchEsc(q, b))
  BY <1>1, EnterAlike DEF SameFor, DispatchEsc, Makes
<1>4. SameFor(Makes(p, <<"execute", b>>), Makes(q, <<"execute", b>>))
  BY DEF SameFor, Makes
<1>5. /\ SameFor(Quiet(EnterCsi(p)), Quiet(EnterCsi(q)))
      /\ SameFor(Quiet(EnterOsc(p)), Quiet(EnterOsc(q)))
      /\ SameFor(Quiet(EnterGround(p)), Quiet(EnterGround(q)))
      /\ SameFor(Quiet(EscInter(p, b)), Quiet(EscInter(q, b)))
  BY <1>2, EnterAlike DEF SameFor, Quiet
<1> QED
  BY <1>1, <1>3, <1>4, <1>5 DEF OnEsc

\* Changes inside a sequence, by values that are the same for both.
LEMMA ChangeAlike ==
  ASSUME NEW p \in Records, NEW q \in Records, Alike(p, q), p.state \in CsiStates
  PROVE  /\ \A s \in CsiStates : Alike([p EXCEPT !.state = s], [q EXCEPT !.state = s])
         /\ \A ps : Alike([p EXCEPT !.params = ps, !.state = "CsiParam"],
                          [q EXCEPT !.params = ps, !.state = "CsiParam"])
         /\ \A ps : Alike([p EXCEPT !.params = ps, !.csiOverflow = TRUE, !.state = "CsiParam"],
                          [q EXCEPT !.params = ps, !.csiOverflow = TRUE, !.state = "CsiParam"])
         /\ \A is : Alike([p EXCEPT !.state = "CsiIntermediate", !.intermediates = is],
                          [q EXCEPT !.state = "CsiIntermediate", !.intermediates = is])
         /\ Alike([p EXCEPT !.private = TRUE, !.state = "CsiParam"],
                  [q EXCEPT !.private = TRUE, !.state = "CsiParam"])
<1> USE DEF Alike, Records, CsiStates, EscStates
<1>1. \A s \in CsiStates : Alike([p EXCEPT !.state = s], [q EXCEPT !.state = s])
  OBVIOUS
<1>2. \A ps : Alike([p EXCEPT !.params = ps, !.state = "CsiParam"],
                    [q EXCEPT !.params = ps, !.state = "CsiParam"])
  OBVIOUS
<1>3. \A ps : Alike([p EXCEPT !.params = ps, !.csiOverflow = TRUE, !.state = "CsiParam"],
                    [q EXCEPT !.params = ps, !.csiOverflow = TRUE, !.state = "CsiParam"])
  OBVIOUS
<1>4. \A is : Alike([p EXCEPT !.state = "CsiIntermediate", !.intermediates = is],
                    [q EXCEPT !.state = "CsiIntermediate", !.intermediates = is])
  OBVIOUS
<1>5. Alike([p EXCEPT !.private = TRUE, !.state = "CsiParam"],
            [q EXCEPT !.private = TRUE, !.state = "CsiParam"])
  OBVIOUS
<1> HIDE DEF Alike, Records
<1> QED
  BY <1>1, <1>2, <1>3, <1>4, <1>5

LEMMA CsiAlike ==
  ASSUME NEW p \in Records, NEW q \in Records, Alike(p, q), p.state \in CsiStates, NEW b
  PROVE  SameFor(OnCsi(p, b), OnCsi(q, b))
<1>1. /\ p.state = q.state /\ p.params = q.params /\ p.intermediates = q.intermediates
      /\ p.private = q.private /\ p.csiOverflow = q.csiOverflow
  BY DEF Alike
<1> DEFINE ps == Started(q)
<1>2. Started(p) = ps
  BY <1>1 DEF Started
<1> HIDE DEF ps
<1>3. SameFor(Quiet([PushDigit(p, b) EXCEPT !.state = "CsiParam"]),
              Quiet([PushDigit(q, b) EXCEPT !.state = "CsiParam"]))
  <2>1. CASE ps[Len(ps)] > MaxParam
    <3>1. /\ PushDigit(p, b) = [p EXCEPT !.params = ps, !.csiOverflow = TRUE]
          /\ PushDigit(q, b) = [q EXCEPT !.params = ps, !.csiOverflow = TRUE]
      BY <1>2, <2>1 DEF PushDigit, ps
    <3>2. /\ [PushDigit(p, b) EXCEPT !.state = "CsiParam"] =
               [p EXCEPT !.params = ps, !.csiOverflow = TRUE, !.state = "CsiParam"]
          /\ [PushDigit(q, b) EXCEPT !.state = "CsiParam"] =
               [q EXCEPT !.params = ps, !.csiOverflow = TRUE, !.state = "CsiParam"]
      BY <3>1
    <3>3. Alike([p EXCEPT !.params = ps, !.csiOverflow = TRUE, !.state = "CsiParam"],
                [q EXCEPT !.params = ps, !.csiOverflow = TRUE, !.state = "CsiParam"])
      BY ChangeAlike
    <3> QED
      BY <3>2, <3>3 DEF SameFor, Quiet
  <2>2. CASE ~(ps[Len(ps)] > MaxParam)
    <3> DEFINE ds == [ps EXCEPT ![Len(ps)] = 10 * @ + (b - 48)]
    <3>1. /\ PushDigit(p, b) = [p EXCEPT !.params = ds]
          /\ PushDigit(q, b) = [q EXCEPT !.params = ds]
      BY <1>2, <2>2 DEF PushDigit, ps
    <3> HIDE DEF ds
    <3>2. /\ [PushDigit(p, b) EXCEPT !.state = "CsiParam"] =
               [p EXCEPT !.params = ds, !.state = "CsiParam"]
          /\ [PushDigit(q, b) EXCEPT !.state = "CsiParam"] =
               [q EXCEPT !.params = ds, !.state = "CsiParam"]
      BY <3>1
    <3>3. Alike([p EXCEPT !.params = ds, !.state = "CsiParam"],
                [q EXCEPT !.params = ds, !.state = "CsiParam"])
      BY ChangeAlike
    <3> QED
      BY <3>2, <3>3 DEF SameFor, Quiet
  <2> QED
    BY <2>1, <2>2
<1>4. SameFor(Quiet([NextParam(p) EXCEPT !.state = "CsiParam"]),
              Quiet([NextParam(q) EXCEPT !.state = "CsiParam"]))
  <2>1. CASE Len(ps) < MaxParams
    <3>1. /\ NextParam(p) = [p EXCEPT !.params = Append(ps, 0)]
          /\ NextParam(q) = [q EXCEPT !.params = Append(ps, 0)]
      BY <1>2, <2>1 DEF NextParam, ps
    <3>2. /\ [NextParam(p) EXCEPT !.state = "CsiParam"] =
               [p EXCEPT !.params = Append(ps, 0), !.state = "CsiParam"]
          /\ [NextParam(q) EXCEPT !.state = "CsiParam"] =
               [q EXCEPT !.params = Append(ps, 0), !.state = "CsiParam"]
      BY <3>1
    <3>3. Alike([p EXCEPT !.params = Append(ps, 0), !.state = "CsiParam"],
                [q EXCEPT !.params = Append(ps, 0), !.state = "CsiParam"])
      BY ChangeAlike
    <3> QED
      BY <3>2, <3>3 DEF SameFor, Quiet
  <2>2. CASE ~(Len(ps) < MaxParams)
    <3>1. /\ NextParam(p) = [p EXCEPT !.params = ps, !.csiOverflow = TRUE]
          /\ NextParam(q) = [q EXCEPT !.params = ps, !.csiOverflow = TRUE]
      BY <1>2, <2>2 DEF NextParam, ps
    <3>2. /\ [NextParam(p) EXCEPT !.state = "CsiParam"] =
               [p EXCEPT !.params = ps, !.csiOverflow = TRUE, !.state = "CsiParam"]
          /\ [NextParam(q) EXCEPT !.state = "CsiParam"] =
               [q EXCEPT !.params = ps, !.csiOverflow = TRUE, !.state = "CsiParam"]
      BY <3>1
    <3>3. Alike([p EXCEPT !.params = ps, !.csiOverflow = TRUE, !.state = "CsiParam"],
                [q EXCEPT !.params = ps, !.csiOverflow = TRUE, !.state = "CsiParam"])
      BY ChangeAlike
    <3> QED
      BY <3>2, <3>3 DEF SameFor, Quiet
  <2> QED
    BY <2>1, <2>2
<1>5. SameFor(Quiet(CsiInter(p, b)), Quiet(CsiInter(q, b)))
  BY <1>1, ChangeAlike DEF SameFor, Quiet, CsiInter
<1>6. SameFor(Quiet([p EXCEPT !.private = TRUE, !.state = "CsiParam"]),
              Quiet([q EXCEPT !.private = TRUE, !.state = "CsiParam"]))
  BY ChangeAlike DEF SameFor, Quiet
<1>7. SameFor(Quiet([p EXCEPT !.state = "CsiIgnore"]), Quiet([q EXCEPT !.state = "CsiIgnore"]))
  BY ChangeAlike DEF SameFor, Quiet, CsiStates
<1>8. /\ SameFor(DispatchCsi(p, b), DispatchCsi(q, b))
      /\ SameFor(Quiet(EnterGround(p)), Quiet(EnterGround(q)))
      /\ SameFor(Makes(p, <<"execute", b>>), Makes(q, <<"execute", b>>))
  BY <1>1, EnterAlike DEF SameFor, DispatchCsi, Quiet, Makes
<1> QED
  BY <1>1, <1>3, <1>4, <1>5, <1>6, <1>7, <1>8 DEF OnCsi, MayTakeParam

LEMMA OscAlike ==
  ASSUME NEW p \in Records, NEW q \in Records, Alike(p, q), p.state = "OscString", NEW b
  PROVE  SameFor(OnOsc(p, b), OnOsc(q, b))
<1>1. p.osc = q.osc /\ p.oscOverflow = q.oscOverflow
  BY DEF Alike
<1>2. OscCall(p) = OscCall(q)
  BY <1>1 DEF OscCall
<1>3. /\ SameFor(Makes(EnterGround(p), OscCall(p)), Makes(EnterGround(q), OscCall(q)))
      /\ SameFor(Makes(EnterEsc(p), OscCall(p)), Makes(EnterEsc(q), OscCall(q)))
  BY <1>2, EnterAlike DEF SameFor, Makes
<1> DEFINE s == Append(q.osc, b)
<1>4. /\ [p EXCEPT !.osc = Append(@, b)] = [p EXCEPT !.osc = s]
      /\ [q EXCEPT !.osc = Append(@, b)] = [q EXCEPT !.osc = s]
  BY <1>1
<1> HIDE DEF s
<1>5. /\ Alike([p EXCEPT !.osc = s], [q EXCEPT !.osc = s])
      /\ Alike([p EXCEPT !.oscOverflow = TRUE], [q EXCEPT !.oscOverflow = TRUE])
  BY DEF Alike, Records, CsiStates, EscStates
<1>6. /\ SameFor(Quiet([p EXCEPT !.osc = Append(@, b)]), Quiet([q EXCEPT !.osc = Append(@, b)]))
      /\ SameFor(Quiet([p EXCEPT !.oscOverflow = TRUE]), Quiet([q EXCEPT !.oscOverflow = TRUE]))
  BY <1>4, <1>5 DEF SameFor, Quiet
<1> QED
  BY <1>1, <1>3, <1>6 DEF OnOsc

LEMMA FeedAlike ==
  ASSUME NEW p \in Records, NEW q \in Records, Alike(p, q), NEW b
  PROVE  SameFor(Feed(p, b), Feed(q, b))
<1>1. p.state = q.state /\ p.state \in States
  BY DEF Alike, Records
<1>2. CASE b \in {CAN, SUB}
  BY <1>2, EnterAlike DEF Feed, SameFor, Quiet
<1>3. CASE b \notin {CAN, SUB} /\ p.state = "Ground"
  <2>1. Feed(p, b) = OnGround(p, b) /\ Feed(q, b) = OnGround(q, b)
    BY <1>1, <1>3 DEF Feed, EscStates, CsiStates
  <2> QED
    BY <1>3, <2>1, GroundAlike
<1>4. CASE b \notin {CAN, SUB} /\ p.state \in EscStates
  <2>1. p.state # "Ground" /\ p.state \notin CsiStates
    BY <1>4 DEF EscStates, CsiStates
  <2>2. Feed(p, b) = OnEsc(p, b) /\ Feed(q, b) = OnEsc(q, b)
    BY <1>1, <1>4, <2>1 DEF Feed
  <2> QED
    BY <1>4, <2>2, EscAlike
<1>5. CASE b \notin {CAN, SUB} /\ p.state \in CsiStates
  <2>1. p.state \notin EscStates /\ p.state # "Ground"
    BY <1>5 DEF EscStates, CsiStates
  <2>2. Feed(p, b) = OnCsi(p, b) /\ Feed(q, b) = OnCsi(q, b)
    BY <1>1, <1>5, <2>1 DEF Feed
  <2> QED
    BY <1>5, <2>2, CsiAlike
<1>6. CASE b \notin {CAN, SUB} /\ p.state = "OscString"
  <2>1. p.state \notin EscStates /\ p.state \notin CsiStates /\ p.state # "Ground"
    BY <1>6 DEF EscStates, CsiStates
  <2>2. Feed(p, b) = OnOsc(p, b) /\ Feed(q, b) = OnOsc(q, b)
    BY <1>1, <1>6, <2>1 DEF Feed
  <2> QED
    BY <1>6, <2>2, OscAlike
<1> QED
  BY <1>1, <1>2, <1>3, <1>4, <1>5, <1>6 DEF States

\* An idle parser is like a new one: its state uses none of what is left in it.
LEMMA IdleAlike ==
  ASSUME NEW p, Idle(p)
  PROVE  Alike(p, Fresh)
BY DEF Idle, Alike, Fresh, CsiStates, EscStates

(* Whatever the size of the arrays and the bytes before, a parser that is   *)
(* idle makes the calls a new one would: nothing of a sequence cut short,   *)
(* overlong or ignored is seen again.                                       *)
THEOREM Forgets == ParserSpec => []NoResidue
<1> DEFINE Inv == ParserTypeOK /\ Alike(parser, twin)
<1>1. ParserInit => Inv
  BY FreshWithin, IdleAlike DEF ParserInit, ParserTypeOK, Idle, Fresh
<1>2. Inv /\ [ParserNext]_parserVars => Inv'
  <2> SUFFICES ASSUME Inv, [ParserNext]_parserVars
               PROVE  Alike(parser, twin)' /\ ParserTypeOK'
    OBVIOUS
  <2>1. ASSUME NEW b \in Byte, Read(b)
        PROVE  Alike(parser, twin)' /\ ParserTypeOK'
    <3>1. SameFor(Feed(parser, b), Feed(twin, b))
      BY FeedAlike DEF ParserTypeOK, WithinArrays
    <3>2. ParserTypeOK'
      BY <2>1, FreshWithin, FeedWithin DEF ParserTypeOK, Read
    <3>3. CASE Idle(parser')
      BY <2>1, <3>2, <3>3, IdleAlike DEF Read
    <3>4. CASE ~Idle(parser')
      BY <2>1, <3>1, <3>2, <3>4 DEF Read, SameFor
    <3> QED
      BY <3>3, <3>4
  <2>2. CASE UNCHANGED parserVars
    BY <2>2 DEF parserVars, ParserTypeOK, Alike
  <2> QED
    BY <2>1, <2>2 DEF ParserNext
<1>3. Inv => NoResidue
  BY FeedAlike DEF ParserTypeOK, WithinArrays, SameFor, NoResidue
<1> QED
  BY <1>1, <1>2, <1>3, PTL DEF ParserSpec

-----------------------------------------------------------------------------
(* Sums and powers: what SumFunctionOnSet and Power compute.  They are      *)
(* recursive, and Induction, which is the principle of the least element,   *)
(* is all that is needed to unfold them: functions that obey the equation   *)
(* up to n exist for every n, and agree.                                    *)

\* A set of numbers with 0 and with every successor of its own has them all.
LEMMA Induction ==
  ASSUME NEW S, 0 \in S, \A n \in Nat : n \in S => n + 1 \in S
  PROVE  Nat \subseteq S
<1> DEFINE R == OpToRel(<, Nat)
           T == Nat \ S
<1>1. SUFFICES ASSUME T # {} PROVE FALSE
  OBVIOUS
<1>2. IsWellFoundedOn(R, Nat)
  BY NatLessThanWellFounded
<1>3. T \subseteq Nat
  OBVIOUS
<1>4. PICK x \in T : \A y \in T : ~ (<<y, x>> \in R)
  <2> HIDE DEF R, T
  <2> QED BY <1>1, <1>2, <1>3, WFMin
<1>5. x # 0 /\ x \in Nat
  OBVIOUS
<1>6. x - 1 \in T
  BY <1>5
<1>7. <<x - 1, x>> \in R
  BY <1>5, SMT DEF OpToRel
<1> QED
  BY <1>4, <1>6, <1>7

\* A finite set of n + 1 elements without one of them has n.
LEMMA OneLess ==
  ASSUME NEW S, IsFiniteSet(S), NEW x \in S, NEW n \in Nat, Cardinality(S) <= n + 1
  PROVE  IsFiniteSet(S \ {x}) /\ Cardinality(S \ {x}) <= n
<1>1. IsFiniteSet(S \ {x}) /\ Cardinality(S \ {x}) = Cardinality(S) - 1
  BY FS_RemoveElement
<1>2. Cardinality(S) \in Nat
  BY FS_CardinalityType
<1> QED
  BY <1>1, <1>2

\* g is a sum of the f[x], for every subset of S that has no more than n elements.
Some(s) == CHOOSE x \in s : TRUE
SumsTo(f, S, g, n) ==
  \A s \in SUBSET S : Cardinality(s) <= n =>
    g[s] = IF s = {} THEN 0 ELSE f[Some(s)] + g[s \ {Some(s)}]

\* There is such a g, however large n is.
LEMMA SumsExist ==
  ASSUME NEW f, NEW S, IsFiniteSet(S), \A x \in S : f[x] \in Nat, NEW n \in Nat
  PROVE  \E g \in [SUBSET S -> Nat] : SumsTo(f, S, g, n)
<1> DEFINE N == {m \in Nat : \E g \in [SUBSET S -> Nat] : SumsTo(f, S, g, m)}
<1>1. 0 \in N
  <2> DEFINE g == [s \in SUBSET S |-> 0]
  <2>1. ASSUME NEW s \in SUBSET S, Cardinality(s) <= 0 PROVE s = {}
    <3>1. IsFiniteSet(s)
      BY FS_Subset
    <3>2. Cardinality(s) \in Nat
      BY <3>1, FS_CardinalityType
    <3> QED
      BY <2>1, <3>1, <3>2, FS_EmptySet
  <2>2. SumsTo(f, S, g, 0)
    BY <2>1 DEF SumsTo
  <2>3. g \in [SUBSET S -> Nat]
    OBVIOUS
  <2> QED
    BY <2>2, <2>3
<1>2. ASSUME NEW m \in Nat, m \in N PROVE m + 1 \in N
  <2>1. PICK g \in [SUBSET S -> Nat] : SumsTo(f, S, g, m)
    BY <1>2
  <2> DEFINE h == [s \in SUBSET S |-> IF Cardinality(s) <= m THEN g[s]
                    ELSE f[Some(s)] + g[s \ {Some(s)}]]
  <2>2. \A s \in SUBSET S : s # {} => Some(s) \in s
    BY DEF Some
  <2>3. IsFiniteSet({}) /\ Cardinality({}) = 0
    BY FS_EmptySet
  <2>4. h \in [SUBSET S -> Nat]
    <3>1. ASSUME NEW s \in SUBSET S, ~(Cardinality(s) <= m)
          PROVE  f[Some(s)] + g[s \ {Some(s)}] \in Nat
      <4>1. s # {}
        <5>1. SUFFICES ASSUME s = {} PROVE FALSE
          OBVIOUS
        <5>2. Cardinality(s) = 0
          BY <2>3, <5>1
        <5> QED
          BY <3>1, <5>2
      <4>2. Some(s) \in S /\ s \ {Some(s)} \in SUBSET S
        BY <2>2, <4>1
      <4>3. f[Some(s)] \in Nat /\ g[s \ {Some(s)}] \in Nat
        BY <4>2
      <4> QED
        BY <4>3
    <3> QED
      BY <3>1
  <2>5. SumsTo(f, S, h, m + 1)
    <3>1. SUFFICES ASSUME NEW s \in SUBSET S, Cardinality(s) <= m + 1
          PROVE h[s] = IF s = {} THEN 0 ELSE f[Some(s)] + h[s \ {Some(s)}]
      BY DEF SumsTo
    <3>2. CASE s = {}
      BY <2>1, <2>3, <3>2 DEF SumsTo
    <3>3. CASE s # {}
      <4> DEFINE r == s \ {Some(s)}
      <4>1. Some(s) \in s /\ IsFiniteSet(s)
        BY <2>2, <3>3, FS_Subset
      <4>2. Cardinality(r) <= m
        BY <3>1, <4>1, OneLess
      <4>3. r \in SUBSET S /\ h[r] = g[r]
        BY <4>2
      <4>4. Cardinality(s) <= m => g[s] = f[Some(s)] + g[r]
        BY <2>1, <3>3 DEF SumsTo
      <4> QED
        BY <3>3, <4>3, <4>4
    <3> QED
      BY <3>2, <3>3
  <2> HIDE DEF h
  <2> QED
    BY <2>4, <2>5
<1>3. Nat \subseteq N
  <2> HIDE DEF N
  <2> QED
    BY <1>1, <1>2, Induction
<1> QED
  BY <1>3

\* And they agree.
LEMMA SumsAgree ==
  ASSUME NEW f, NEW S, IsFiniteSet(S), NEW T \in SUBSET S, NEW g, NEW h, NEW n \in Nat,
         SumsTo(f, S, g, n), SumsTo(f, T, h, n), Cardinality(T) <= n
  PROVE  g[T] = h[T]
<1> DEFINE N == {m \in Nat : \A s \in SUBSET T :
                   Cardinality(s) <= m /\ Cardinality(s) <= n => g[s] = h[s]}
<1>1. 0 \in N
  <2>1. ASSUME NEW s \in SUBSET T, Cardinality(s) <= 0 PROVE g[s] = h[s]
    <3>1. IsFiniteSet(s)
      BY FS_Subset
    <3>2. Cardinality(s) \in Nat
      BY <3>1, FS_CardinalityType
    <3>3. s = {}
      BY <2>1, <3>1, <3>2, FS_EmptySet
    <3>4. s \in SUBSET S /\ Cardinality(s) <= n
      BY <2>1, <3>2
    <3> QED
      BY <3>3, <3>4 DEF SumsTo
  <2> QED
    BY <2>1
<1>2. ASSUME NEW m \in Nat, m \in N PROVE m + 1 \in N
  <2>1. SUFFICES ASSUME NEW s \in SUBSET T, Cardinality(s) <= m + 1, Cardinality(s) <= n
        PROVE  g[s] = h[s]
    OBVIOUS
  <2>2. s \in SUBSET S /\ IsFiniteSet(s)
    BY FS_Subset
  <2>3. CASE s = {}
    BY <2>1, <2>2, <2>3 DEF SumsTo
  <2>4. CASE s # {}
    <3> DEFINE r == s \ {Some(s)}
    <3>1. Some(s) \in s
      BY <2>4 DEF Some
    <3>2. IsFiniteSet(r) /\ Cardinality(r) <= m
      BY <2>1, <2>2, <3>1, OneLess
    <3>3. Cardinality(r) <= Cardinality(s) /\ Cardinality(r) \in Nat /\ Cardinality(s) \in Nat
      BY <2>2, FS_Subset, FS_CardinalityType
    <3>4. g[r] = h[r]
      BY <1>2, <2>1, <3>2, <3>3
    <3>5. g[s] = f[Some(s)] + g[r] /\ h[s] = f[Some(s)] + h[r]
      BY <2>1, <2>2, <2>4 DEF SumsTo
    <3> QED
      BY <3>4, <3>5
  <2> QED
    BY <2>3, <2>4
<1>3. Nat \subseteq N
  <2> HIDE DEF N
  <2> QED
    BY <1>1, <1>2, Induction
<1>4. Cardinality(T) \in Nat
  BY FS_Subset, FS_CardinalityType
<1> QED
  BY <1>3, <1>4

\* The sum of the library is such a one.
LEMMA SumIs ==
  ASSUME NEW f, NEW S, IsFiniteSet(S), \A x \in S : f[x] \in Nat
  PROVE  \E g : /\ SumsTo(f, S, g, Cardinality(S))
                /\ SumFunctionOnSet(f, S) = g[S] /\ g[S] \in Nat
<1> DEFINE IsIter(g) == g = [s \in SUBSET S |->
                 IF s = {} THEN 0 ELSE f[Some(s)] + g[s \ {Some(s)}]]
           iter == CHOOSE g : IsIter(g)
           n == Cardinality(S)
<1>1. SumFunctionOnSet(f, S) = iter[S]
  BY Zenon DEF SumFunctionOnSet, FoldFunctionOnSet, MapThenFoldSet, Some
<1>2. n \in Nat
  BY FS_CardinalityType
<1>3. PICK g \in [SUBSET S -> Nat] : SumsTo(f, S, g, n)
  BY <1>2, SumsExist
<1>4. \A s \in SUBSET S : Cardinality(s) <= n
  BY FS_Subset
<1>5. IsIter(g)
  BY <1>3, <1>4 DEF SumsTo
<1>6. IsIter(iter)
  <2> HIDE DEF IsIter
  <2> QED
    BY <1>5
<1>7. SumsTo(f, S, iter, n)
  <2> HIDE DEF iter
  <2> QED
    BY <1>6 DEF SumsTo
<1>8. g[S] = iter[S]
  <2> HIDE DEF iter
  <2> QED
    BY <1>2, <1>3, <1>7, SumsAgree
<1>9. g[S] \in Nat
  BY <1>3
<1> HIDE DEF iter
<1> QED
  BY <1>1, <1>7, <1>8, <1>9

LEMMA SumOfNone == ASSUME NEW f PROVE SumFunctionOnSet(f, {}) = 0
<1>1. IsFiniteSet({}) /\ Cardinality({}) = 0
  BY FS_EmptySet
<1>2. PICK g : SumsTo(f, {}, g, 0) /\ SumFunctionOnSet(f, {}) = g[{}]
  BY <1>1, SumIs
<1>3. g[{}] = 0
  BY <1>1, <1>2 DEF SumsTo
<1> QED
  BY <1>2, <1>3

LEMMA SumOfSome ==
  ASSUME NEW f, NEW S, IsFiniteSet(S), S # {}, \A x \in S : f[x] \in Nat
  PROVE  /\ Some(S) \in S
         /\ SumFunctionOnSet(f, S) = f[Some(S)] + SumFunctionOnSet(f, S \ {Some(S)})
<1> DEFINE T == S \ {Some(S)}
<1>1. Some(S) \in S
  BY DEF Some
<1>2. IsFiniteSet(T) /\ Cardinality(T) <= Cardinality(S) /\ T \in SUBSET S
  BY FS_Subset
<1>3. Cardinality(T) \in Nat /\ Cardinality(S) \in Nat
  BY <1>2, FS_CardinalityType
<1>4. PICK g : SumsTo(f, S, g, Cardinality(S)) /\ SumFunctionOnSet(f, S) = g[S]
  BY SumIs
<1>5. PICK h : SumsTo(f, T, h, Cardinality(T)) /\ SumFunctionOnSet(f, T) = h[T]
  BY <1>2, SumIs
<1>6. g[S] = f[Some(S)] + g[T]
  BY <1>3, <1>4 DEF SumsTo
<1>7. g[T] = h[T]
  <2>1. SumsTo(f, S, g, Cardinality(T))
    BY <1>2, <1>3, <1>4, FS_Subset, FS_CardinalityType DEF SumsTo
  <2> QED
    BY <1>2, <1>3, <1>5, <2>1, SumsAgree
<1> QED
  BY <1>1, <1>4, <1>5, <1>6, <1>7

\* A sum of natural numbers is one, and one element more adds its number.
LEMMA SumType ==
  ASSUME NEW f, NEW S, IsFiniteSet(S), \A x \in S : f[x] \in Nat
  PROVE  SumFunctionOnSet(f, S) \in Nat
BY SumIs

LEMMA SumOfOneMore ==
  ASSUME NEW f, NEW U, IsFiniteSet(U), \A x \in U : f[x] \in Nat,
         NEW S, NEW e, e \notin S, S \cup {e} = U
  PROVE  SumFunctionOnSet(f, U) = f[e] + SumFunctionOnSet(f, S)
<1> DEFINE Sum(s) == SumFunctionOnSet(f, s)
           N == {n \in Nat : \A s \in SUBSET U : \A x \in U \ s :
                   Cardinality(s) <= n => Sum(s \cup {x}) = f[x] + Sum(s)}
<1>1. \A s \in SUBSET U : IsFiniteSet(s) /\ Cardinality(s) \in Nat /\ Sum(s) \in Nat
  BY FS_Subset, FS_CardinalityType, SumType
<1>2. \A s \in SUBSET U : s # {} =>
        Some(s) \in s /\ Sum(s) = f[Some(s)] + Sum(s \ {Some(s)})
  BY <1>1, SumOfSome
<1> HIDE DEF Sum
<1>3. ASSUME NEW s \in SUBSET U, NEW x \in U \ s, Some(s \cup {x}) = x
      PROVE  Sum(s \cup {x}) = f[x] + Sum(s)
  <2>1. (s \cup {x}) \ {x} = s /\ s \cup {x} \in SUBSET U /\ s \cup {x} # {}
    OBVIOUS
  <2> QED
    BY <1>2, <1>3, <2>1
<1>4. 0 \in N
  <2>1. ASSUME NEW s \in SUBSET U, NEW x \in U \ s, Cardinality(s) <= 0
        PROVE Sum(s \cup {x}) = f[x] + Sum(s)
    <3>1. s = {}
      BY <1>1, <2>1, FS_EmptySet
    <3>2. Some(s \cup {x}) = x
      <4>1. {x} \in SUBSET U /\ {x} # {} /\ s \cup {x} = {x}
        BY <3>1
      <4>2. Some({x}) \in {x}
        BY <1>2, <4>1
      <4> QED
        BY <4>1, <4>2
    <3> QED
      BY <1>3, <3>2
  <2> QED
    BY <2>1
<1>5. ASSUME NEW n \in Nat, n \in N PROVE n + 1 \in N
  <2>1. SUFFICES ASSUME NEW s \in SUBSET U, NEW x \in U \ s, Cardinality(s) <= n + 1,
                        Some(s \cup {x}) # x
        PROVE Sum(s \cup {x}) = f[x] + Sum(s)
    BY <1>3
  <2> DEFINE y == Some(s \cup {x})
             r == s \ {y}
  <2>2. s \cup {x} \in SUBSET U /\ s \cup {x} # {}
    OBVIOUS
  <2>3. y \in s
    BY <1>2, <2>1, <2>2
  <2>4. Cardinality(r) <= n
    BY <1>1, <2>1, <2>3, OneLess
  <2>5. (s \cup {x}) \ {y} = r \cup {x} /\ r \cup {y} = s
    BY <2>1, <2>3
  <2>6. Sum(s \cup {x}) = f[y] + Sum(r \cup {x})
    BY <1>2, <2>2, <2>5
  <2>7. Sum(r \cup {x}) = f[x] + Sum(r) /\ Sum(s) = f[y] + Sum(r)
    <3>1. r \in SUBSET U /\ x \in U \ r /\ y \in U \ r
      BY <2>3
    <3> HIDE DEF r, y
    <3> QED
      BY <1>5, <2>4, <2>5, <3>1
  <2>8. f[x] \in Nat /\ f[y] \in Nat /\ Sum(r) \in Nat
    BY <1>1, <2>3
  <2> QED
    BY <2>6, <2>7, <2>8
<1>6. Nat \subseteq N
  <2> HIDE DEF N
  <2> QED
    BY <1>4, <1>5, Induction
<1>7. S \in SUBSET U /\ e \in U \ S
  OBVIOUS
<1>8. Sum(S \cup {e}) = f[e] + Sum(S)
  BY <1>1, <1>6, <1>7
<1> QED
  BY <1>8 DEF Sum

\* Ten times every number makes ten times the sum.
LEMMA SumTenfold ==
  ASSUME NEW f, NEW h, NEW U, IsFiniteSet(U),
         \A x \in U : f[x] \in Nat /\ h[x] = 10 * f[x]
  PROVE  SumFunctionOnSet(h, U) = 10 * SumFunctionOnSet(f, U)
<1> DEFINE F(s) == SumFunctionOnSet(f, s)
           H(s) == SumFunctionOnSet(h, s)
           N == {n \in Nat : \A s \in SUBSET U : Cardinality(s) <= n => H(s) = 10 * F(s)}
<1>1. \A s \in SUBSET U : IsFiniteSet(s) /\ Cardinality(s) \in Nat
  BY FS_Subset, FS_CardinalityType
<1>2. \A x \in U : f[x] \in Nat /\ h[x] \in Nat
  OBVIOUS
<1>3. \A s \in SUBSET U : F(s) \in Nat /\ H(s) \in Nat
  BY <1>1, <1>2, SumType
<1>4. \A s \in SUBSET U : s # {} =>
        /\ Some(s) \in s
        /\ F(s) = f[Some(s)] + F(s \ {Some(s)}) /\ H(s) = h[Some(s)] + H(s \ {Some(s)})
  BY <1>1, <1>2, SumOfSome
<1>5. F({}) = 0 /\ H({}) = 0
  BY SumOfNone
<1> HIDE DEF F, H
<1>6. 0 \in N
  BY <1>1, <1>5, FS_EmptySet, SMTT(30)
<1>7. ASSUME NEW n \in Nat, n \in N PROVE n + 1 \in N
  <2>1. SUFFICES ASSUME NEW s \in SUBSET U, Cardinality(s) <= n + 1, s # {}
        PROVE H(s) = 10 * F(s)
    BY <1>5
  <2> DEFINE x == Some(s)
             r == s \ {x}
  <2>2. x \in s
    BY <1>4, <2>1
  <2>3. Cardinality(r) <= n /\ r \in SUBSET U
    BY <1>1, <2>1, <2>2, OneLess
  <2>4. H(r) = 10 * F(r)
    BY <1>7, <2>3
  <2>5. F(s) = f[x] + F(r) /\ H(s) = h[x] + H(r)
    BY <1>4, <2>1
  <2>6. f[x] \in Nat /\ h[x] = 10 * f[x] /\ F(r) \in Nat
    BY <1>3, <2>2
  <2> QED
    BY <2>4, <2>5, <2>6
<1>8. Nat \subseteq N
  <2> HIDE DEF N
  <2> QED
    BY <1>6, <1>7, Induction
<1>9. H(U) = 10 * F(U)
  BY <1>1, <1>8
<1> QED
  BY <1>9 DEF F, H

\* The powers of ten: how the function starts, up to m.
PowerUpTo(g, m) ==
  \A n \in Nat : n <= m => g[n] = IF n = 0 THEN 1 ELSE 10 * g[n - 1]

LEMMA PowersExist ==
  ASSUME NEW m \in Nat
  PROVE  \E g \in [Nat -> Nat] : PowerUpTo(g, m)
<1> DEFINE N == {k \in Nat : \E g \in [Nat -> Nat] : PowerUpTo(g, k)}
<1>1. 0 \in N
  <2>1. [n \in Nat |-> 1] \in [Nat -> Nat] /\ PowerUpTo([n \in Nat |-> 1], 0)
    BY DEF PowerUpTo
  <2> QED
    BY <2>1
<1>2. ASSUME NEW k \in Nat, k \in N PROVE k + 1 \in N
  <2>1. PICK g \in [Nat -> Nat] : PowerUpTo(g, k)
    BY <1>2
  <2> DEFINE h == [n \in Nat |-> IF n <= k THEN g[n] ELSE 10 * g[k]]
  <2>2. h \in [Nat -> Nat]
    OBVIOUS
  <2>3. PowerUpTo(h, k + 1)
    BY <2>1 DEF PowerUpTo
  <2> QED
    BY <2>2, <2>3
<1>3. Nat \subseteq N
  <2> HIDE DEF N
  <2> QED
    BY <1>1, <1>2, Induction
<1> QED
  BY <1>3

LEMMA PowersAgree ==
  ASSUME NEW g, NEW h, NEW m \in Nat, NEW k \in Nat, m <= k,
         PowerUpTo(g, m), PowerUpTo(h, k)
  PROVE  g[m] = h[m]
<1> DEFINE N == {n \in Nat : n <= m => g[n] = h[n]}
<1>1. 0 \in N
  BY DEF PowerUpTo
<1>2. ASSUME NEW n \in Nat, n \in N PROVE n + 1 \in N
  BY <1>2 DEF PowerUpTo
<1>3. Nat \subseteq N
  <2> HIDE DEF N
  <2> QED
    BY <1>1, <1>2, Induction
<1> QED
  BY <1>3

LEMMA PowerIs ==
  /\ Power[0] = 1
  /\ \A n \in Nat : Power[n] \in Nat /\ Power[n + 1] = 10 * Power[n]
<1> DEFINE IsPower(g) == g = [n \in Nat |-> IF n = 0 THEN 1 ELSE 10 * g[n - 1]]
           Upto(m) == CHOOSE g \in [Nat -> Nat] : PowerUpTo(g, m)
           G == [n \in Nat |-> Upto(n)[n]]
<1>1. \A m \in Nat : Upto(m) \in [Nat -> Nat] /\ PowerUpTo(Upto(m), m)
  BY PowersExist
<1> HIDE DEF Upto
<1>2. G[0] = 1
  <2>1. 0 \in Nat /\ 0 <= 0
    OBVIOUS
  <2>2. PowerUpTo(Upto(0), 0)
    BY <1>1, <2>1
  <2>3. Upto(0)[0] = 1
    BY <2>1, <2>2 DEF PowerUpTo
  <2> QED
    BY <2>1, <2>3
<1>3. ASSUME NEW n \in Nat PROVE G[n + 1] = 10 * G[n]
  <2>1. n + 1 \in Nat /\ n <= n + 1 /\ n + 1 <= n + 1 /\ n + 1 # 0 /\ (n + 1) - 1 = n
    OBVIOUS
  <2>2. Upto(n)[n] = Upto(n + 1)[n]
    BY <1>1, <2>1, PowersAgree
  <2>3. Upto(n + 1)[n + 1] = 10 * Upto(n + 1)[n]
    BY <1>1, <2>1 DEF PowerUpTo
  <2> QED
    BY <2>1, <2>2, <2>3
<1>4. \A n \in Nat : G[n] \in Nat
  BY <1>1
<1>5. IsPower(G)
  <2>1. ASSUME NEW n \in Nat, n # 0 PROVE G[n] = 10 * G[n - 1]
    <3>1. n - 1 \in Nat /\ (n - 1) + 1 = n
      BY <2>1
    <3> HIDE DEF G
    <3> QED
      BY <1>3, <3>1
  <2>2. G = [n \in Nat |-> G[n]]
    OBVIOUS
  <2> HIDE DEF G
  <2> QED
    BY <1>2, <2>1, <2>2
<1>6. Power = CHOOSE g : IsPower(g)
  BY Zenon DEF Power
<1>7. IsPower(Power)
  <2> HIDE DEF IsPower, G
  <2> QED
    BY <1>5, <1>6
<1>8. Power[0] = 1 /\ \A n \in Nat : Power[n + 1] = 10 * Power[n]
  BY <1>7
<1> DEFINE N == {n \in Nat : Power[n] \in Nat}
<1>9. Nat \subseteq N
  <2>1. 0 \in N
    BY <1>8
  <2>2. ASSUME NEW n \in Nat, n \in N PROVE n + 1 \in N
    BY <1>8, <2>2
  <2> HIDE DEF N
  <2> QED
    BY <2>1, <2>2, Induction
<1> QED
  BY <1>8, <1>9

-----------------------------------------------------------------------------
(* What is written in a sequence, and how one byte more changes it. *)

\* u is w with one byte more.
OneMore(w, b, u) == u = Append(w, b)

LEMMA OneByteMore ==
  ASSUME NEW w \in Seq(Byte), NEW b \in Byte, NEW u, OneMore(w, b, u)
  PROVE  /\ u \in Seq(Byte) /\ Len(u) = Len(w) + 1 /\ Len(w) \in Nat
         /\ u[Len(w) + 1] = b
         /\ \A i \in 1 .. Len(w) : u[i] = w[i]
         /\ DOMAIN w = 1 .. Len(w) /\ DOMAIN u = 1 .. Len(w) + 1
BY DEF OneMore

LEMMA BytesAre == \A b \in Byte : b \in 0 .. 255
BY ParserAssumption

\* The separators up to a byte: finitely many, more as one goes on.
LEMMA SeparatorsAre ==
  ASSUME NEW w, NEW m \in Nat, NEW i \in 0 .. m
  PROVE  /\ IsFiniteSet(Separators(w, i)) /\ Cardinality(Separators(w, i)) \in Nat
         /\ Cardinality(Separators(w, i)) <= Cardinality(Separators(w, m))
<1>1. IsFiniteSet(1 .. m)
  BY FS_Interval
<1>2. Separators(w, m) \in SUBSET (1 .. m) /\ Separators(w, i) \in SUBSET Separators(w, m)
  BY DEF Separators
<1>3. IsFiniteSet(Separators(w, m))
  BY <1>1, <1>2, FS_Subset
<1>4. IsFiniteSet(Separators(w, i)) /\ Cardinality(Separators(w, i)) <= Cardinality(Separators(w, m))
  BY <1>2, <1>3, FS_Subset
<1> QED
  BY <1>4, FS_CardinalityType

LEMMA SeparatorsKeep ==
  ASSUME NEW w \in Seq(Byte), NEW b \in Byte, NEW u, OneMore(w, b, u)
  PROVE  /\ \A i \in 0 .. Len(w) : Separators(u, i) = Separators(w, i)
         /\ IsSeparator(b) => Cardinality(Separators(u, Len(u))) =
                                Cardinality(Separators(w, Len(w))) + 1
         /\ ~IsSeparator(b) => Separators(u, Len(u)) = Separators(w, Len(w))
<1>1. /\ Len(u) = Len(w) + 1 /\ Len(w) \in Nat /\ u[Len(w) + 1] = b
      /\ \A i \in 1 .. Len(w) : u[i] = w[i]
  BY OneByteMore
<1>2. \A i \in 0 .. Len(w) : Separators(u, i) = Separators(w, i)
  BY <1>1 DEF Separators
<1>3. ~IsSeparator(b) => Separators(u, Len(u)) = Separators(w, Len(w))
  BY <1>1 DEF Separators
<1>4. ASSUME IsSeparator(b)
      PROVE  Cardinality(Separators(u, Len(u))) = Cardinality(Separators(w, Len(w))) + 1
  <2>1. Separators(u, Len(u)) = Separators(w, Len(w)) \cup {Len(w) + 1}
    BY <1>1, <1>4 DEF Separators
  <2>2. Len(w) + 1 \notin Separators(w, Len(w))
    BY <1>1 DEF Separators
  <2>3. IsFiniteSet(Separators(w, Len(w)))
    BY <1>1, SeparatorsAre
  <2> QED
    BY <2>1, <2>2, <2>3, FS_AddElement
<1> QED
  BY <1>2, <1>3, <1>4

\* The digits of a parameter: a digit more goes to the last one, a separator
\* begins one that has none.
LEMMA FieldKeeps ==
  ASSUME NEW w \in Seq(Byte), NEW b \in Byte, NEW u, OneMore(w, b, u), NEW k \in Nat,
         NEW n, n = Cardinality(Separators(w, Len(w))) + 1
  PROVE  /\ ~IsDigit(b) \/ k # n => Field(u, k) = Field(w, k)
         /\ IsDigit(b) => Field(u, n) = Field(w, n) \cup {Len(w) + 1}
         /\ k > n => Field(w, k) = {}
<1>1. /\ Len(u) = Len(w) + 1 /\ Len(w) \in Nat /\ u[Len(w) + 1] = b
      /\ \A i \in 1 .. Len(w) : u[i] = w[i]
      /\ DOMAIN w = 1 .. Len(w) /\ DOMAIN u = 1 .. Len(w) + 1
  BY OneByteMore
<1>2. /\ \A i \in 0 .. Len(w) : Separators(u, i) = Separators(w, i)
      /\ ~IsSeparator(b) => Separators(u, Len(w) + 1) = Separators(w, Len(w))
  <2>1. \A i \in 0 .. Len(w) : Separators(u, i) = Separators(w, i)
    BY SeparatorsKeep
  <2>2. ~IsSeparator(b) => Separators(u, Len(u)) = Separators(w, Len(w))
    BY SeparatorsKeep
  <2> QED
    BY <1>1, <2>1, <2>2
<1>3. ASSUME NEW i \in 0 .. Len(w)
      PROVE  Cardinality(Separators(w, i)) \in Nat /\ Cardinality(Separators(w, i)) < n
  <2>1. Len(w) \in 0 .. Len(w)
    BY <1>1
  <2>2. /\ Cardinality(Separators(w, i)) \in Nat
        /\ Cardinality(Separators(w, Len(w))) \in Nat
        /\ Cardinality(Separators(w, i)) <= Cardinality(Separators(w, Len(w)))
    BY <1>1, <2>1, SeparatorsAre
  <2> QED
    BY <2>2
<1>4. IsDigit(b) => ~IsSeparator(b)
  BY DEF IsDigit, IsSeparator
<1>5. ~IsDigit(b) \/ k # n => Field(u, k) = Field(w, k)
  <2>1. ASSUME ~IsDigit(b) \/ k # n, NEW i \in 1 .. Len(w) + 1
        PROVE  IsDigit(u[i]) /\ Cardinality(Separators(u, i)) = k - 1
          <=> i \in 1 .. Len(w) /\ IsDigit(w[i]) /\ Cardinality(Separators(w, i)) = k - 1
    <3>1. CASE i \in 1 .. Len(w)
      BY <1>1, <1>2, <3>1
    <3>2. CASE i = Len(w) + 1
      BY <1>1, <1>2, <1>3, <1>4, <2>1, <3>2
    <3> QED
      BY <1>1, <3>1, <3>2
  <2> QED
    BY <1>1, <2>1 DEF Field
<1>6. IsDigit(b) => Field(u, n) = Field(w, n) \cup {Len(w) + 1}
  <2>1. ASSUME IsDigit(b), NEW i \in 1 .. Len(w) + 1
        PROVE  IsDigit(u[i]) /\ Cardinality(Separators(u, i)) = n - 1
          <=> \/ i \in 1 .. Len(w) /\ IsDigit(w[i]) /\ Cardinality(Separators(w, i)) = n - 1
              \/ i = Len(w) + 1
    <3>1. CASE i \in 1 .. Len(w)
      BY <1>1, <1>2, <3>1
    <3>2. CASE i = Len(w) + 1
      BY <1>1, <1>2, <1>3, <1>4, <2>1, <3>2
    <3> QED
      BY <1>1, <3>1, <3>2
  <2> QED
    BY <1>1, <2>1 DEF Field
<1>7. k > n => Field(w, k) = {}
  BY <1>1, <1>3 DEF Field
<1> QED
  BY <1>5, <1>6, <1>7

\* The numbers of the digits, and what a further digit does to them.
LEMMA ProductType == \A a, c \in Nat : a * c \in Nat
OBVIOUS

LEMMA TenTimes == \A a, c \in Nat : a * (10 * c) = 10 * (a * c)
OBVIOUS

LEMMA FieldIs ==
  ASSUME NEW w \in Seq(Byte), NEW k
  PROVE  /\ Field(w, k) \in SUBSET (1 .. Len(w)) /\ IsFiniteSet(Field(w, k))
         /\ \A i \in Field(w, k) : w[i] - 48 \in 0 .. 9
<1>1. Field(w, k) \in SUBSET (1 .. Len(w))
  BY DEF Field
<1>2. IsFiniteSet(1 .. Len(w))
  BY FS_Interval
<1> QED
  BY <1>1, <1>2, FS_Subset DEF Field, IsDigit

LEMMA DigitsType ==
  ASSUME NEW w, NEW f, IsFiniteSet(f), \A i \in f : w[i] - 48 \in 0 .. 9
  PROVE  /\ \A i \in f : Digits(w, f)[i] \in Nat
         /\ \A i \in f : /\ IsFiniteSet({j \in f : j > i})
                         /\ Cardinality({j \in f : j > i}) \in Nat
<1>1. ASSUME NEW i \in f
      PROVE  IsFiniteSet({j \in f : j > i}) /\ Cardinality({j \in f : j > i}) \in Nat
  BY FS_Subset, FS_CardinalityType
<1>2. ASSUME NEW i \in f PROVE Digits(w, f)[i] \in Nat
  <2>1. Power[Cardinality({j \in f : j > i})] \in Nat
    BY <1>1, PowerIs
  <2>2. w[i] - 48 \in Nat
    OBVIOUS
  <2>3. (w[i] - 48) * Power[Cardinality({j \in f : j > i})] \in Nat
    BY ONLY <2>1, <2>2, ProductType
  <2> QED
    BY <2>3 DEF Digits
<1> QED
  BY <1>1, <1>2

LEMMA ValueType ==
  ASSUME NEW w \in Seq(Byte), NEW k
  PROVE  Value(w, Field(w, k)) \in Nat
BY FieldIs, DigitsType, SumType DEF Value

LEMMA ValueOfNone == ASSUME NEW w PROVE Value(w, {}) = 0
BY SumOfNone DEF Value

LEMMA ValueKeeps ==
  ASSUME NEW w, NEW u, NEW f, \A i \in f : u[i] = w[i]
  PROVE  Value(u, f) = Value(w, f)
<1>1. Digits(u, f) = Digits(w, f)
  BY DEF Digits
<1> QED
  BY <1>1 DEF Value

LEMMA ValueGrows ==
  ASSUME NEW w, NEW u, NEW m \in Nat, NEW f \in SUBSET (1 .. m), IsFiniteSet(f),
         \A i \in f : u[i] = w[i] /\ w[i] - 48 \in 0 .. 9,
         u[m + 1] - 48 \in 0 .. 9
  PROVE  Value(u, f \cup {m + 1}) = 10 * Value(w, f) + (u[m + 1] - 48)
<1> DEFINE g == f \cup {m + 1}
           old == Digits(w, f)
           new == Digits(u, g)
<1>1. IsFiniteSet(g) /\ m + 1 \notin f
  BY FS_AddElement
<1>2. \A i \in f : old[i] \in Nat
  BY DigitsType
<1>3. \A i \in g : new[i] \in Nat
  <2>1. ASSUME NEW i \in g PROVE u[i] - 48 \in 0 .. 9
    <3>1. CASE i \in f
      <4>1. u[i] = w[i] /\ w[i] - 48 \in 0 .. 9
        BY <3>1
      <4> QED
        BY <4>1
    <3>2. CASE i = m + 1
      BY <3>2
    <3> QED
      BY <3>1, <3>2
  <2> QED
    BY <1>1, <2>1, DigitsType
<1>4. ASSUME NEW i \in f PROVE new[i] = 10 * old[i]
  <2> DEFINE s == {j \in f : j > i}
             t == {j \in g : j > i}
  <2>1. t = s \cup {m + 1} /\ m + 1 \notin s
    BY <1>1
  <2>2. IsFiniteSet(s) /\ Cardinality(s) \in Nat
    BY DigitsType
  <2>3. Cardinality(t) = Cardinality(s) + 1
    BY <2>1, <2>2, FS_AddElement
  <2>4. Power[Cardinality(t)] = 10 * Power[Cardinality(s)] /\ Power[Cardinality(s)] \in Nat
    BY <2>2, <2>3, PowerIs
  <2>5. new[i] = (w[i] - 48) * Power[Cardinality(t)]
    BY DEF Digits
  <2>6. old[i] = (w[i] - 48) * Power[Cardinality(s)]
    BY DEF Digits
  <2>7. w[i] - 48 \in Nat
    OBVIOUS
  <2> HIDE DEF s, t, new, old, g
  <2> QED
    BY <2>4, <2>5, <2>6, <2>7, TenTimes
<1>5. new[m + 1] = u[m + 1] - 48
  <2>1. {j \in g : j > m + 1} = {}
    <3>1. ASSUME NEW j \in g PROVE ~(j > m + 1)
      <4>1. CASE j \in f
        <5>1. j \in 1 .. m
          BY <4>1
        <5> QED
          BY <5>1
      <4>2. CASE j = m + 1
        BY <4>2
      <4> QED
        BY <4>1, <4>2
    <3> HIDE DEF g
    <3> QED
      BY <3>1
  <2>2. Cardinality({j \in g : j > m + 1}) = 0
    BY <2>1, FS_EmptySet
  <2>3. new[m + 1] = (u[m + 1] - 48) * Power[0]
    BY <2>2 DEF Digits
  <2> QED
    BY <2>3, PowerIs
<1> HIDE DEF old, new
<1>6. SumFunctionOnSet(new, g) = new[m + 1] + SumFunctionOnSet(new, f)
  <2>1. f \cup {m + 1} = g
    OBVIOUS
  <2> HIDE DEF g
  <2> QED
    BY <1>1, <1>3, <2>1, SumOfOneMore
<1>7. SumFunctionOnSet(new, f) = 10 * SumFunctionOnSet(old, f)
  BY <1>2, <1>4, SumTenfold
<1>8. SumFunctionOnSet(old, f) \in Nat
  BY <1>2, SumType
<1> QED
  BY <1>5, <1>6, <1>7, <1>8 DEF Value, old, new

\* A list of numbers with the first one made explicit.
Opened(vs) == IF vs = <<>> THEN <<0>> ELSE vs

HasParameter(w) == \E i \in DOMAIN w : IsParameter(w[i])

\* Sequences are equal when their elements are.
LEMMA SameSequence ==
  ASSUME NEW S, NEW s \in Seq(S), NEW t \in Seq(S), Len(s) = Len(t),
         \A k \in 1 .. Len(s) : s[k] = t[k]
  PROVE  s = t
OBVIOUS

\* A piece of a sequence; the piece of one that is longer.
LEMMA PieceIs ==
  ASSUME NEW w \in Seq(Byte), NEW m \in Nat \ {0}, NEW n \in Nat, n <= Len(w)
  PROVE  /\ SubSeq(w, m, n) \in Seq(Byte)
         /\ Len(SubSeq(w, m, n)) = IF m <= n THEN n - m + 1 ELSE 0
         /\ \A i \in 1 .. n - m + 1 : SubSeq(w, m, n)[i] = w[m + i - 1]
<1>1. m \in Int /\ n \in Int
  OBVIOUS
<1>2. \A i \in m .. n : w[i] \in Byte
  OBVIOUS
<1> QED
  BY <1>1, <1>2, SubSeqProperties

LEMMA PieceKeeps ==
  ASSUME NEW w \in Seq(Byte), NEW b \in Byte, NEW u, OneMore(w, b, u),
         NEW m \in Nat \ {0}, NEW n \in Nat, n <= Len(w)
  PROVE  SubSeq(u, m, n) = SubSeq(w, m, n)
<1>1. u \in Seq(Byte) /\ n <= Len(u) /\ \A i \in 1 .. Len(w) : u[i] = w[i]
  BY OneByteMore
<1>2. /\ SubSeq(w, m, n) \in Seq(Byte)
      /\ Len(SubSeq(w, m, n)) = IF m <= n THEN n - m + 1 ELSE 0
      /\ \A i \in 1 .. n - m + 1 : SubSeq(w, m, n)[i] = w[m + i - 1]
  BY PieceIs
<1>3. /\ SubSeq(u, m, n) \in Seq(Byte)
      /\ Len(SubSeq(u, m, n)) = IF m <= n THEN n - m + 1 ELSE 0
      /\ \A i \in 1 .. n - m + 1 : SubSeq(u, m, n)[i] = u[m + i - 1]
  BY <1>1, PieceIs
<1>4. \A i \in 1 .. n - m + 1 : u[m + i - 1] = w[m + i - 1]
  BY <1>1
<1>5. \A i \in 1 .. Len(SubSeq(u, m, n)) : SubSeq(u, m, n)[i] = SubSeq(w, m, n)[i]
  BY <1>2, <1>3, <1>4
<1> QED
  BY <1>2, <1>3, <1>5, SameSequence

LEMMA PieceGrows ==
  ASSUME NEW w \in Seq(Byte), NEW b \in Byte, NEW u, OneMore(w, b, u),
         NEW m \in Nat \ {0}, m <= Len(w) + 1
  PROVE  OneMore(SubSeq(w, m, Len(w)), b, SubSeq(u, m, Len(w) + 1))
<1> DEFINE n == Len(w)
           p == SubSeq(w, m, n)
           q == SubSeq(u, m, n + 1)
<1>1. /\ u \in Seq(Byte) /\ Len(u) = n + 1 /\ n \in Nat /\ u[n + 1] = b
      /\ \A i \in 1 .. n : u[i] = w[i]
  BY OneByteMore
<1>2. /\ p \in Seq(Byte) /\ Len(p) = n - m + 1
      /\ \A i \in 1 .. n - m + 1 : p[i] = w[m + i - 1]
  BY <1>1, PieceIs
<1>3. /\ q \in Seq(Byte) /\ Len(q) = n - m + 2
      /\ \A i \in 1 .. n - m + 2 : q[i] = u[m + i - 1]
  <2>1. n + 1 \in Nat /\ n + 1 <= Len(u) /\ (n + 1) - m + 1 = n - m + 2
    BY <1>1
  <2> QED
    BY <1>1, <2>1, PieceIs
<1> DEFINE l == Len(p)
           r == Append(p, b)
<1>4. /\ r \in Seq(Byte) /\ Len(r) = l + 1 /\ l \in Nat /\ r[l + 1] = b
      /\ \A i \in 1 .. l : r[i] = p[i]
  <2>1. OneMore(p, b, r) /\ p \in Seq(Byte) /\ b \in Byte
    BY <1>2 DEF OneMore
  <2> HIDE DEF p, r
  <2>2. /\ r \in Seq(Byte) /\ Len(r) = Len(p) + 1 /\ Len(p) \in Nat
        /\ r[Len(p) + 1] = b
        /\ \A i \in 1 .. Len(p) : r[i] = p[i]
    BY ONLY <2>1, OneByteMore
  <2> QED
    BY <2>2
<1>7. l = n - m + 1
  BY <1>2
<1>8. Len(q) = l + 1 /\ \A i \in 1 .. l + 1 : q[i] = u[m + i - 1]
  BY <1>3, <1>7
<1> HIDE DEF p, q, r, l, n
<1>5. ASSUME NEW i \in 1 .. l + 1 PROVE q[i] = r[i]
  <2>1. CASE i \in 1 .. l
    <3>1. m + i - 1 \in 1 .. n
      BY <1>1, <1>4, <1>7, <2>1
    <3>2. i \in 1 .. n - m + 1
      BY <1>7, <2>1
    <3> QED
      BY <1>1, <1>2, <1>4, <1>8, <2>1, <3>1, <3>2
  <2>2. CASE i = l + 1
    <3>1. m + i - 1 = n + 1
      BY <1>1, <1>4, <1>7, <2>2, SMTT(30)
    <3> QED
      BY <1>1, <1>4, <1>8, <2>2, <3>1
  <2> QED
    BY <1>4, <2>1, <2>2
<1>6. q = r
  BY <1>3, <1>4, <1>5, <1>8, SameSequence
<1> QED
  BY <1>6 DEF OneMore, p, q, r, n

\* There is one number more than there are separators.
LEMMA NumbersType ==
  ASSUME NEW w \in Seq(Byte)
  PROVE  /\ Numbers(w) \in Seq(Nat)
         /\ Len(Numbers(w)) = Cardinality(Separators(w, Len(w))) + 1
         /\ Cardinality(Separators(w, Len(w))) \in Nat
         /\ Numbers(w) # <<>>
<1> DEFINE n == Cardinality(Separators(w, Len(w)))
<1>1. n \in Nat
  BY SeparatorsAre
<1>2. \A k : Value(w, Field(w, k)) \in Nat
  BY ValueType
<1>3. Numbers(w) = [k \in 1 .. n + 1 |-> Value(w, Field(w, k))]
  BY DEF Numbers
<1> HIDE DEF n
<1>4. Numbers(w) \in Seq(Nat) /\ Len(Numbers(w)) = n + 1
  BY <1>1, <1>2, <1>3
<1>5. Numbers(w) # <<>>
  BY <1>1, <1>4
<1> QED
  BY <1>1, <1>4, <1>5 DEF n

\* The first parameter need not be written.
LEMMA ValuesOpened ==
  ASSUME NEW w \in Seq(Byte)
  PROVE  /\ Opened(Values(w)) = Numbers(w)
         /\ Values(w) \in Seq(Nat)
         /\ HasParameter(w) => Values(w) = Numbers(w)
         /\ ~HasParameter(w) => Values(w) = <<>>
<1>1. HasParameter(w) => Values(w) = Numbers(w)
  BY DEF HasParameter, Values
<1>2. ~HasParameter(w) => Values(w) = <<>>
  BY DEF HasParameter, Values
<1>3. ASSUME ~HasParameter(w) PROVE Numbers(w) = <<0>>
  <2>1. Separators(w, Len(w)) = {} /\ Field(w, 1) = {}
    BY <1>3 DEF HasParameter, IsParameter, Separators, Field
  <2>2. Cardinality(Separators(w, Len(w))) = 0
    BY <2>1, FS_EmptySet
  <2>3. Value(w, Field(w, 1)) = 0
    BY <2>1, ValueOfNone
  <2>4. /\ Numbers(w) \in Seq(Nat)
        /\ Len(Numbers(w)) = Cardinality(Separators(w, Len(w))) + 1
    BY NumbersType
  <2>6. Len(Numbers(w)) = 1
    BY <2>2, <2>4
  <2>5. Numbers(w)[1] = 0
    BY <2>2, <2>3 DEF Numbers
  <2>7. <<0>> \in Seq(Nat) /\ Len(<<0>>) = 1 /\ <<0>>[1] = 0
    OBVIOUS
  <2>8. \A k \in 1 .. Len(Numbers(w)) : Numbers(w)[k] = <<0>>[k]
    BY <2>5, <2>6, <2>7
  <2> QED
    BY <2>4, <2>6, <2>7, <2>8, SameSequence
<1>4. Opened(Values(w)) = Numbers(w)
  <2>1. Numbers(w) # <<>>
    BY NumbersType
  <2> QED
    BY <1>1, <1>2, <1>3, <2>1, Zenon DEF Opened
<1>5. Values(w) \in Seq(Nat)
  <2>1. Numbers(w) \in Seq(Nat) /\ <<>> \in Seq(Nat)
    BY NumbersType
  <2> QED
    BY <1>1, <1>2, <2>1
<1> QED
  BY <1>1, <1>2, <1>4, <1>5

\* What a byte more makes of the numbers: nothing, one more, a digit more.
LEMMA NumbersKeep ==
  ASSUME NEW w \in Seq(Byte), NEW b \in Byte, NEW u, OneMore(w, b, u),
         NEW k \in 1 .. Len(Numbers(w)), ~IsDigit(b) \/ k # Len(Numbers(w))
  PROVE  Value(u, Field(u, k)) = Numbers(w)[k]
<1>1. Field(u, k) = Field(w, k)
  BY FieldKeeps, NumbersType
<1>2. \A i \in Field(w, k) : u[i] = w[i]
  BY FieldIs, OneByteMore
<1>3. Value(u, Field(u, k)) = Value(w, Field(w, k))
  BY <1>1, <1>2, ValueKeeps
<1>4. k \in 1 .. Cardinality(Separators(w, Len(w))) + 1
  BY NumbersType
<1> QED
  BY <1>3, <1>4 DEF Numbers

LEMMA NumbersStay ==
  ASSUME NEW w \in Seq(Byte), NEW b \in Byte, NEW u, OneMore(w, b, u), ~IsParameter(b)
  PROVE  Values(u) = Values(w)
<1>1. ~IsDigit(b) /\ ~IsSeparator(b)
  BY DEF IsParameter
<1>2. u \in Seq(Byte)
  BY OneByteMore
<1>3. Len(Numbers(u)) = Len(Numbers(w))
  BY <1>1, <1>2, SeparatorsKeep, NumbersType
<1>4. Numbers(u) \in Seq(Nat) /\ Numbers(w) \in Seq(Nat)
  BY <1>2, NumbersType
<1>5. ASSUME NEW k \in 1 .. Len(Numbers(w)) PROVE Numbers(u)[k] = Numbers(w)[k]
  <2>1. Value(u, Field(u, k)) = Numbers(w)[k]
    BY <1>1, NumbersKeep
  <2>2. k \in 1 .. Cardinality(Separators(u, Len(u))) + 1
    BY <1>2, <1>3, NumbersType
  <2> QED
    BY <2>1, <2>2 DEF Numbers
<1>6. Numbers(u) = Numbers(w)
  <2>1. \A k \in 1 .. Len(Numbers(u)) : Numbers(u)[k] = Numbers(w)[k]
    BY <1>3, <1>5
  <2> QED
    BY ONLY <1>3, <1>4, <2>1, SameSequence
<1>7. HasParameter(u) <=> HasParameter(w)
  BY OneByteMore DEF HasParameter
<1> QED
  BY <1>2, <1>6, <1>7, ValuesOpened

LEMMA SeparatorOpens ==
  ASSUME NEW w \in Seq(Byte), NEW b \in Byte, NEW u, OneMore(w, b, u), IsSeparator(b)
  PROVE  Values(u) = Append(Opened(Values(w)), 0)
<1> DEFINE n == Len(Numbers(w))
<1>1. ~IsDigit(b)
  BY DEF IsDigit, IsSeparator
<1>2. u \in Seq(Byte)
  BY OneByteMore
<1>3. Numbers(u) \in Seq(Nat) /\ Numbers(w) \in Seq(Nat) /\ n \in Nat
  BY <1>2, NumbersType
<1>4. n = Cardinality(Separators(w, Len(w))) + 1 /\ Cardinality(Separators(w, Len(w))) \in Nat
  BY NumbersType
<1>5. Cardinality(Separators(u, Len(u))) = n
  BY <1>4, SeparatorsKeep
<1>6. Len(Numbers(u)) = n + 1
  BY <1>2, <1>5, NumbersType
<1>7. ASSUME NEW k \in 1 .. n PROVE Numbers(u)[k] = Numbers(w)[k]
  <2>1. Value(u, Field(u, k)) = Numbers(w)[k]
    BY <1>1, NumbersKeep
  <2>2. k \in 1 .. Cardinality(Separators(u, Len(u))) + 1
    BY <1>3, <1>5
  <2> QED
    BY <2>1, <2>2 DEF Numbers
<1>8. Numbers(u)[n + 1] = 0
  <2>1. n + 1 \in Nat /\ n + 1 > n
    BY <1>3
  <2>2. Field(u, n + 1) = {}
    BY <1>1, <1>4, <2>1, FieldKeeps
  <2>3. n + 1 \in 1 .. Cardinality(Separators(u, Len(u))) + 1
    BY <1>3, <1>5
  <2>4. Numbers(u)[n + 1] = Value(u, Field(u, n + 1))
    BY <2>3 DEF Numbers
  <2> QED
    BY <2>2, <2>4, ValueOfNone
<1>9. Numbers(u) = Append(Numbers(w), 0)
  BY ONLY <1>3, <1>6, <1>7, <1>8
<1>10. HasParameter(u)
  BY OneByteMore DEF HasParameter, IsParameter
<1> QED
  BY <1>2, <1>9, <1>10, ValuesOpened

LEMMA DigitAdds ==
  ASSUME NEW w \in Seq(Byte), NEW b \in Byte, NEW u, OneMore(w, b, u), IsDigit(b)
  PROVE  Values(u) = [Opened(Values(w)) EXCEPT
                        ![Len(Opened(Values(w)))] = 10 * @ + (b - 48)]
<1> DEFINE n == Len(Numbers(w))
           m == Len(w) + 1
<1>1. ~IsSeparator(b) /\ b - 48 \in 0 .. 9
  BY BytesAre DEF IsDigit, IsSeparator
<1>2. u \in Seq(Byte) /\ u[m] = b /\ Len(w) \in Nat
  BY OneByteMore
<1>3. Numbers(u) \in Seq(Nat) /\ Numbers(w) \in Seq(Nat) /\ n \in Nat
  BY <1>2, NumbersType
<1>4. n = Cardinality(Separators(w, Len(w))) + 1 /\ Cardinality(Separators(w, Len(w))) \in Nat
  BY NumbersType
<1>5. Cardinality(Separators(u, Len(u))) + 1 = n
  BY <1>1, <1>4, SeparatorsKeep
<1>6. Len(Numbers(u)) = n
  BY <1>2, <1>5, NumbersType
<1>7. ASSUME NEW k \in 1 .. n, k # n PROVE Numbers(u)[k] = Numbers(w)[k]
  <2>1. Value(u, Field(u, k)) = Numbers(w)[k]
    BY <1>7, NumbersKeep
  <2> QED
    BY <1>5, <2>1 DEF Numbers
<1>8. Numbers(u)[n] = 10 * Numbers(w)[n] + (b - 48)
  <2>1. n \in 1 .. n
    BY <1>4
  <2>2. Field(u, n) = Field(w, n) \cup {m}
    BY <1>3, <1>4, FieldKeeps
  <2>3. Numbers(u)[n] = Value(u, Field(u, n)) /\ Numbers(w)[n] = Value(w, Field(w, n))
    BY <1>4, <1>5, <2>1 DEF Numbers
  <2>4. /\ Field(w, n) \in SUBSET (1 .. Len(w)) /\ IsFiniteSet(Field(w, n))
        /\ \A i \in Field(w, n) : w[i] - 48 \in 0 .. 9
    BY FieldIs
  <2>5. \A i \in Field(w, n) : u[i] = w[i]
    BY <2>4, OneByteMore
  <2>6. Value(u, Field(w, n) \cup {m}) = 10 * Value(w, Field(w, n)) + (u[m] - 48)
    BY <1>1, <1>2, <2>4, <2>5, ValueGrows
  <2> QED
    BY <1>2, <2>2, <2>3, <2>6
<1>9. Numbers(u) = [Numbers(w) EXCEPT ![n] = 10 * @ + (b - 48)]
  <2>1. n \in 1 .. n /\ b - 48 \in Nat
    BY <1>1, <1>4
  <2> DEFINE vs == Numbers(w)
             ds == [vs EXCEPT ![n] = 10 * @ + (b - 48)]
  <2>2. ds \in Seq(Nat) /\ Len(ds) = n
    <3>1. vs \in Seq(Nat) /\ n = Len(vs)
      BY <1>3
    <3>2. 10 * vs[n] + (b - 48) \in Nat
      BY <2>1, <3>1
    <3> HIDE DEF vs, n
    <3> QED
      BY <2>1, <3>1, <3>2
  <2>3. \A k \in 1 .. n : ds[k] = IF k = n THEN 10 * vs[n] + (b - 48) ELSE vs[k]
    <3>1. vs \in Seq(Nat) /\ n = Len(vs)
      BY <1>3
    <3> HIDE DEF vs, n
    <3> QED
      BY <2>1, <3>1
  <2>4. \A k \in 1 .. Len(Numbers(u)) : Numbers(u)[k] = ds[k]
    <3> HIDE DEF ds
    <3> QED
      BY <1>6, <1>7, <1>8, <2>3
  <2>5. Numbers(u) \in Seq(Nat) /\ Len(Numbers(u)) = Len(ds)
    BY <1>3, <1>6, <2>2
  <2>6. Numbers(u) = ds
    <3> HIDE DEF ds
    <3> QED
      BY ONLY <2>2, <2>4, <2>5, SameSequence
  <2> QED
    BY <2>6
<1>10. HasParameter(u)
  BY OneByteMore DEF HasParameter, IsParameter
<1> QED
  BY <1>2, <1>9, <1>10, ValuesOpened

\* A list that is too long for the parser, or a number that is, stays so.
LEMMA NeverFitsAgain ==
  ASSUME NEW w \in Seq(Byte), NEW b \in Byte, NEW u, OneMore(w, b, u), ~Fits(Values(w))
  PROVE  ~Fits(Values(u))
<1> DEFINE vs == Values(w)
<1>1. vs \in Seq(Nat)
  BY ValuesOpened
<1>2. vs # <<>>
  BY ParserAssumption DEF Fits
<1>3. Opened(vs) = vs
  BY <1>2 DEF Opened
<1>4. CASE ~IsParameter(b)
  BY <1>4, NumbersStay
<1>5. CASE IsSeparator(b)
  <2>1. Values(u) = Append(vs, 0)
    BY <1>3, <1>5, SeparatorOpens
  <2> HIDE DEF vs
  <2>2. /\ Len(Append(vs, 0)) = Len(vs) + 1 /\ Len(vs) \in Nat
        /\ \A k \in DOMAIN vs : k \in DOMAIN Append(vs, 0) /\ Append(vs, 0)[k] = vs[k]
    BY <1>1
  <2>3. ~Fits(vs)
    BY DEF vs
  <2> QED
    BY <2>1, <2>2, <2>3, ParserAssumption DEF Fits
<1>6. CASE IsDigit(b)
  <2>1. Values(u) = [vs EXCEPT ![Len(vs)] = 10 * @ + (b - 48)]
    BY <1>3, <1>6, DigitAdds
  <2>2. b - 48 \in Nat
    BY <1>6, BytesAre DEF IsDigit
  <2>3. ~Fits(vs)
    OBVIOUS
  <2> HIDE DEF vs
  <2>4. /\ Len(Values(u)) = Len(vs) /\ DOMAIN Values(u) = DOMAIN vs
        /\ \A k \in DOMAIN vs : vs[k] <= Values(u)[k] /\ vs[k] \in Nat /\ Values(u)[k] \in Nat
    BY <1>1, <2>1, <2>2
  <2> QED
    BY <2>3, <2>4, ParserAssumption DEF Fits
<1> QED
  BY <1>4, <1>5, <1>6 DEF IsParameter

-----------------------------------------------------------------------------
HasIntermediate(w) == \E i \in DOMAIN w : IsIntermediate(w[i])

\* What a well-formed body may go on with.
LEMMA WellFormedGrows ==
  ASSUME NEW w \in Seq(Byte), NEW b \in Byte, NEW u, OneMore(w, b, u)
  PROVE  WellFormed(u) <=>
           /\ WellFormed(w)
           /\ \/ w = <<>> /\ IsPrivateMarker(b)
              \/ IsParameter(b) /\ ~HasIntermediate(w)
              \/ IsIntermediate(b)
<1>1. /\ Len(u) = Len(w) + 1 /\ Len(w) \in Nat /\ u[Len(w) + 1] = b
      /\ \A i \in 1 .. Len(w) : u[i] = w[i]
      /\ DOMAIN w = 1 .. Len(w) /\ DOMAIN u = 1 .. Len(w) + 1
  BY OneByteMore
<1> DEFINE Good(s, i) ==
             \/ i = 1 /\ IsPrivateMarker(s[i])
             \/ IsParameter(s[i]) /\ \A j \in 1 .. i - 1 : ~IsIntermediate(s[j])
             \/ IsIntermediate(s[i])
<1>2. \A i \in 1 .. Len(w) : Good(u, i) <=> Good(w, i)
  <2>1. ASSUME NEW i \in 1 .. Len(w) PROVE u[i] = w[i] /\ \A j \in 1 .. i - 1 : u[j] = w[j]
    BY <1>1
  <2> QED
    BY <2>1
<1>3. Good(u, Len(w) + 1) <=>
        \/ w = <<>> /\ IsPrivateMarker(b)
        \/ IsParameter(b) /\ ~HasIntermediate(w)
        \/ IsIntermediate(b)
  <2>1. Len(w) + 1 = 1 <=> w = <<>>
    BY <1>1
  <2>2. (\A j \in 1 .. (Len(w) + 1) - 1 : ~IsIntermediate(u[j])) <=> ~HasIntermediate(w)
    BY <1>1 DEF HasIntermediate
  <2> QED
    BY <1>1, <2>1, <2>2
<1>4. WellFormed(u) <=> \A i \in DOMAIN u : Good(u, i)
  BY DEF WellFormed
<1>5. WellFormed(w) <=> \A i \in DOMAIN w : Good(w, i)
  BY DEF WellFormed
<1> HIDE DEF Good
<1>6. (\A i \in DOMAIN u : Good(u, i)) <=>
         (\A i \in 1 .. Len(w) : Good(u, i)) /\ Good(u, Len(w) + 1)
  BY <1>1
<1> QED
  BY <1>1, <1>2, <1>3, <1>4, <1>5, <1>6

\* What is kept of the intermediates is a prefix of them.
LEMMA AtMostGrows ==
  ASSUME NEW s \in Seq(Byte), NEW b \in Byte, NEW t, OneMore(s, b, t)
  PROVE  AtMost(MaxIntermediates, t) = Kept(AtMost(MaxIntermediates, s), b)
<1> DEFINE M == MaxIntermediates
           p == SubSeq(s, 1, M)
<1>1. M \in Nat
  BY ParserAssumption
<1>2. Len(t) = Len(s) + 1 /\ Len(s) \in Nat /\ t \in Seq(Byte) /\ t = Append(s, b)
  BY OneByteMore DEF OneMore
<1>3. CASE Len(s) < M
  BY <1>1, <1>2, <1>3 DEF AtMost, Kept
<1>4. CASE Len(s) = M
  <2>1. SubSeq(t, 1, M) = SubSeq(s, 1, M)
    BY <1>1, <1>2, <1>4, PieceKeeps
  <2>2. SubSeq(s, 1, M) = s
    BY <1>4, SubSeqFull
  <2>3. AtMost(M, t) = s /\ AtMost(M, s) = s
    BY <1>1, <1>2, <1>4, <2>1, <2>2 DEF AtMost
  <2> QED
    BY <1>1, <1>4, <2>3 DEF Kept
<1>5. CASE Len(s) > M
  <2>1. SubSeq(t, 1, M) = p
    BY <1>1, <1>2, <1>5, PieceKeeps
  <2>2. Len(p) = M
    BY <1>1, <1>5, PieceIs
  <2>3. AtMost(M, t) = p /\ AtMost(M, s) = p
    BY <1>1, <1>2, <1>5, <2>1 DEF AtMost
  <2> HIDE DEF p
  <2> QED
    BY <1>1, <2>2, <2>3 DEF Kept
<1> QED
  BY <1>1, <1>2, <1>3, <1>4, <1>5

LEMMA AtMostNone == AtMost(MaxIntermediates, <<>>) = <<>>
BY ParserAssumption DEF AtMost

\* The intermediates are what stands after all the rest.
LEMMA IntermediatesGrow ==
  ASSUME NEW w \in Seq(Byte), NEW b \in Byte, NEW u, OneMore(w, b, u)
  PROVE  /\ Intermediates(w) \in Seq(Byte)
         /\ IsIntermediate(b) => OneMore(Intermediates(w), b, Intermediates(u))
         /\ ~HasIntermediate(w) => Intermediates(w) = <<>>
<1> DEFINE c == Cardinality(Before(w))
<1>1. /\ Len(u) = Len(w) + 1 /\ Len(w) \in Nat /\ u[Len(w) + 1] = b
      /\ \A i \in 1 .. Len(w) : u[i] = w[i]
      /\ DOMAIN w = 1 .. Len(w) /\ DOMAIN u = 1 .. Len(w) + 1 /\ u \in Seq(Byte)
  BY OneByteMore
<1>2. IsFiniteSet(1 .. Len(w)) /\ Cardinality(1 .. Len(w)) = Len(w)
  <2>1. 1 \in Int /\ Len(w) \in Int /\ ~(1 > Len(w)) => (Len(w) - 1) + 1 = Len(w)
    BY <1>1
  <2>2. /\ IsFiniteSet(1 .. Len(w))
        /\ Cardinality(1 .. Len(w)) = IF 1 > Len(w) THEN 0 ELSE Len(w) - 1 + 1
    BY <2>1, FS_Interval
  <2> QED
    BY <1>1, <2>2
<1>3. Before(w) \in SUBSET (1 .. Len(w))
  BY <1>1 DEF Before
<1>4. c <= Len(w)
  BY <1>2, <1>3, FS_Subset
<1>5. c \in Nat
  BY <1>2, <1>3, FS_Subset, FS_CardinalityType
<1>6. Intermediates(w) = SubSeq(w, c + 1, Len(w))
  BY DEF Intermediates
<1>7. ASSUME IsIntermediate(b) PROVE OneMore(Intermediates(w), b, Intermediates(u))
  <2>1. Before(u) = Before(w)
    BY <1>1, <1>7 DEF Before
  <2>2. Intermediates(u) = SubSeq(u, c + 1, Len(u))
    BY <2>1 DEF Intermediates
  <2> HIDE DEF c
  <2>3. OneMore(SubSeq(w, c + 1, Len(w)), b, SubSeq(u, c + 1, Len(w) + 1))
    BY <1>1, <1>4, <1>5, PieceGrows
  <2> QED
    BY <1>1, <1>6, <2>2, <2>3
<1>8. ASSUME ~HasIntermediate(w) PROVE Intermediates(w) = <<>>
  <2>1. Before(w) = 1 .. Len(w)
    BY <1>1, <1>8 DEF Before, HasIntermediate
  <2>2. c = Len(w)
    BY <1>2, <2>1
  <2> HIDE DEF c
  <2>3. SubSeq(w, c + 1, Len(w)) = <<>>
    BY <1>1, <1>5, <2>2, SubSeqEmpty
  <2> QED
    BY <1>6, <2>3
<1>9. Intermediates(w) \in Seq(Byte)
  <2>1. c + 1 \in Nat \ {0}
    BY <1>5
  <2> HIDE DEF c
  <2> QED
    BY <1>1, <1>6, <2>1, PieceIs
<1> QED
  BY <1>7, <1>8, <1>9

-----------------------------------------------------------------------------
(* What the parser has seen of a sequence. *)

\* The parser q has seen the body w of a control sequence.
CsiSeen(q, w) ==
  /\ q.state \in CsiStates
  /\ q.state = "CsiIgnore" <=> ~WellFormed(w)
  /\ WellFormed(w) =>
       /\ q.state = "CsiEntry" <=> w = <<>>
       /\ q.state = "CsiIntermediate" <=> HasIntermediate(w)
       /\ q.csiOverflow <=> ~Fits(Values(w))
       /\ Fits(Values(w)) => q.params = Values(w)
       /\ q.intermediates = AtMost(MaxIntermediates, Intermediates(w))
       /\ q.private <=> HasMarker(w)

\* The fields of the parser after a digit or a separator.
LEMMA DigitFields ==
  ASSUME NEW q \in Records, NEW b, NEW ps, ps = Started(q),
         NEW p, p = [PushDigit(q, b) EXCEPT !.state = "CsiParam"]
  PROVE  /\ p.state = "CsiParam" /\ p.intermediates = q.intermediates
         /\ p.private <=> q.private
         /\ ps[Len(ps)] > MaxParam => p.csiOverflow
         /\ ~(ps[Len(ps)] > MaxParam) =>
              /\ p.csiOverflow <=> q.csiOverflow
              /\ p.params = [ps EXCEPT ![Len(ps)] = 10 * @ + (b - 48)]
         /\ q.csiOverflow => p.csiOverflow
<1>1. CASE ps[Len(ps)] > MaxParam
  <2>1. PushDigit(q, b) = [q EXCEPT !.params = ps, !.csiOverflow = TRUE]
    BY <1>1 DEF PushDigit
  <2> QED
    BY <1>1, <2>1 DEF Records
<1>2. CASE ~(ps[Len(ps)] > MaxParam)
  <2> DEFINE ds == [ps EXCEPT ![Len(ps)] = 10 * @ + (b - 48)]
  <2>1. PushDigit(q, b) = [q EXCEPT !.params = ds]
    BY <1>2 DEF PushDigit
  <2> HIDE DEF ds
  <2>2. /\ p.state = "CsiParam" /\ p.intermediates = q.intermediates
        /\ p.private <=> q.private
        /\ p.csiOverflow <=> q.csiOverflow
        /\ p.params = ds
    BY <2>1 DEF Records
  <2> QED
    BY <1>2, <2>2 DEF ds
<1> QED
  BY <1>1, <1>2

LEMMA SeparatorFields ==
  ASSUME NEW q \in Records, NEW ps, ps = Started(q),
         NEW p, p = [NextParam(q) EXCEPT !.state = "CsiParam"]
  PROVE  /\ p.state = "CsiParam" /\ p.intermediates = q.intermediates
         /\ p.private <=> q.private
         /\ ~(Len(ps) < MaxParams) => p.csiOverflow
         /\ Len(ps) < MaxParams =>
              (p.csiOverflow <=> q.csiOverflow) /\ p.params = Append(ps, 0)
         /\ q.csiOverflow => p.csiOverflow
<1>1. CASE Len(ps) < MaxParams
  <2> DEFINE ds == Append(ps, 0)
  <2>1. NextParam(q) = [q EXCEPT !.params = ds]
    BY <1>1 DEF NextParam
  <2> HIDE DEF ds
  <2>2. /\ p.state = "CsiParam" /\ p.intermediates = q.intermediates
        /\ p.private <=> q.private
        /\ p.csiOverflow <=> q.csiOverflow
        /\ p.params = ds
    BY <2>1 DEF Records
  <2> QED
    BY <1>1, <2>2 DEF ds
<1>2. CASE ~(Len(ps) < MaxParams)
  <2>1. NextParam(q) = [q EXCEPT !.params = ps, !.csiOverflow = TRUE]
    BY <1>2 DEF NextParam
  <2> QED
    BY <1>2, <2>1 DEF Records
<1> QED
  BY <1>1, <1>2

\* A number that is too large when a digit comes is too large with it.
LEMMA LastFits ==
  ASSUME NEW ds, NEW n \in 1 .. MaxParams, DOMAIN ds = 1 .. n, Len(ds) = n,
         \A k \in 1 .. n : k # n => ds[k] <= 10 * MaxParam + 9,
         NEW x \in Nat, NEW d \in 0 .. 9, ds[n] = 10 * x + d
  PROVE  Fits(ds) <=> ~(x > MaxParam)
<1>1. MaxParams \in Nat \ {0} /\ MaxParam \in Nat
  BY ParserAssumption
<1>2. n \in 1 .. n /\ n <= MaxParams
  BY <1>1
<1>3. 10 * x + d <= 10 * MaxParam + 9 <=> ~(x > MaxParam)
  BY <1>1
<1>4. ds[n] <= 10 * MaxParam + 9 <=> ~(x > MaxParam)
  BY <1>3
<1>5. ASSUME Fits(ds) PROVE ~(x > MaxParam)
  BY <1>2, <1>4, <1>5 DEF Fits
<1>6. ASSUME ~(x > MaxParam) PROVE Fits(ds)
  BY <1>2, <1>4, <1>6 DEF Fits
<1> QED
  BY <1>5, <1>6

\* A digit is added unless the number is too large for it; so with a separator.
LEMMA DigitFits ==
  ASSUME NEW vs \in Seq(Nat), Fits(vs), NEW d \in 0 .. 9,
         NEW ps, ps = Opened(vs), NEW ds, ds = [ps EXCEPT ![Len(ps)] = 10 * @ + d]
  PROVE  Fits(ds) <=> ~(ps[Len(ps)] > MaxParam)
<1>1. MaxParams \in Nat \ {0} /\ MaxParam \in Nat
  BY ParserAssumption
<1>2. /\ ps \in Seq(Nat) /\ Len(ps) \in 1 .. MaxParams
      /\ \A k \in 1 .. Len(ps) : ps[k] <= 10 * MaxParam + 9
  <2>1. CASE vs = <<>>
    BY <1>1, <2>1 DEF Opened
  <2>2. CASE vs # <<>>
    <3>1. ps = vs
      BY <2>2 DEF Opened
    <3>2. Len(vs) # 0 /\ Len(vs) \in Nat /\ DOMAIN vs = 1 .. Len(vs)
      BY <2>2
    <3> QED
      BY <1>1, <3>1, <3>2, SMTT(30) DEF Fits
  <2> QED
    BY <2>1, <2>2
<1>3. /\ DOMAIN ds = 1 .. Len(ps) /\ Len(ds) = Len(ps)
      /\ \A k \in 1 .. Len(ps) : ds[k] = IF k = Len(ps) THEN 10 * ps[k] + d ELSE ps[k]
      /\ Len(ps) \in 1 .. Len(ps) /\ ps[Len(ps)] \in Nat
  BY <1>2
<1> DEFINE n == Len(ps)
           x == ps[n]
<1>4. /\ n \in 1 .. MaxParams /\ DOMAIN ds = 1 .. n /\ Len(ds) = n
      /\ x \in Nat /\ ds[n] = 10 * x + d
  BY <1>2, <1>3
<1>5. ASSUME NEW k \in 1 .. n, k # n PROVE ds[k] <= 10 * MaxParam + 9
  BY <1>2, <1>3, <1>5
<1> HIDE DEF n, x
<1>6. Fits(ds) <=> ~(x > MaxParam)
  BY <1>4, <1>5, LastFits
<1> QED
  BY <1>6 DEF n, x

LEMMA SeparatorFits ==
  ASSUME NEW vs \in Seq(Nat), Fits(vs), NEW ps, ps = Opened(vs)
  PROVE  Fits(Append(ps, 0)) <=> Len(ps) < MaxParams
<1>1. MaxParams \in Nat \ {0} /\ MaxParam \in Nat
  BY ParserAssumption
<1>2. ps \in Seq(Nat) /\ Len(ps) \in Nat /\ \A k \in 1 .. Len(ps) : ps[k] <= 10 * MaxParam + 9
  <2>1. CASE vs = <<>>
    BY <1>1, <2>1 DEF Opened
  <2>2. CASE vs # <<>>
    <3>1. ps = vs
      BY <2>2 DEF Opened
    <3> QED
      BY <1>1, <3>1 DEF Fits
  <2> QED
    BY <2>1, <2>2
<1> DEFINE ds == Append(ps, 0)
<1>3. /\ DOMAIN ds = 1 .. Len(ps) + 1 /\ Len(ds) = Len(ps) + 1 /\ ds[Len(ps) + 1] = 0
      /\ \A k \in 1 .. Len(ps) : ds[k] = ps[k]
  BY <1>2
<1> HIDE DEF ds
<1>4. ASSUME NEW k \in DOMAIN ds PROVE ds[k] <= 10 * MaxParam + 9
  <2>1. CASE k \in 1 .. Len(ps)
    BY <1>2, <1>3, <2>1
  <2>2. CASE k = Len(ps) + 1
    BY <1>1, <1>3, <2>2
  <2> QED
    BY <1>2, <1>3, <2>1, <2>2
<1>5. Fits(ds) <=> Len(ps) < MaxParams
  BY <1>1, <1>2, <1>3, <1>4 DEF Fits
<1> QED
  BY <1>5 DEF ds

\* The parameters of the parser are opened as those that are written are.
LEMMA StartedIs ==
  ASSUME NEW q, NEW vs, q.params = vs
  PROVE  Started(q) = Opened(vs)
BY DEF Started, Opened

\* A marker that stands in front stays there.
LEMMA MarkerStays ==
  ASSUME NEW w \in Seq(Byte), NEW b \in Byte, NEW u, OneMore(w, b, u)
  PROVE  /\ u # <<>>
         /\ w # <<>> => (HasMarker(u) <=> HasMarker(w))
         /\ w = <<>> => (HasMarker(u) <=> IsPrivateMarker(b))
         /\ HasIntermediate(u) <=> HasIntermediate(w) \/ IsIntermediate(b)
         /\ ~HasMarker(<<>>)
<1>1. /\ u \in Seq(Byte) /\ Len(u) = Len(w) + 1 /\ Len(w) \in Nat /\ u[Len(w) + 1] = b
      /\ \A i \in 1 .. Len(w) : u[i] = w[i]
      /\ DOMAIN w = 1 .. Len(w) /\ DOMAIN u = 1 .. Len(w) + 1
  BY OneByteMore
<1>2. u # <<>>
  BY <1>1
<1>3. w # <<>> => u[1] = w[1]
  BY <1>1
<1>4. w = <<>> => u[1] = b
  BY <1>1
<1>5. HasIntermediate(u) <=> HasIntermediate(w) \/ IsIntermediate(b)
  BY <1>1 DEF HasIntermediate
<1> QED
  BY <1>2, <1>3, <1>4, <1>5 DEF HasMarker

\* The kinds of bytes in a control sequence exclude each other.
LEMMA Kinds ==
  ASSUME NEW b \in Byte
  PROVE  /\ IsDigit(b) => ~IsSeparator(b) /\ ~IsIntermediate(b) /\ ~IsPrivateMarker(b)
         /\ IsSeparator(b) => ~IsIntermediate(b) /\ ~IsPrivateMarker(b) /\ ~IsDigit(b)
         /\ IsPrivateMarker(b) => ~IsIntermediate(b) /\ ~IsParameter(b)
         /\ IsIntermediate(b) => ~IsParameter(b) /\ ~IsPrivateMarker(b)
         /\ IsC0(b) => ~IsParameter(b) /\ ~IsIntermediate(b) /\ ~IsPrivateMarker(b)
         /\ IsCsiFinal(b) => /\ ~IsParameter(b) /\ ~IsIntermediate(b) /\ ~IsPrivateMarker(b)
                             /\ ~IsC0(b)
BY BytesAre DEF IsDigit, IsSeparator, IsIntermediate, IsPrivateMarker, IsC0, IsCsiFinal,
                IsParameter

\* The states that may take a parameter are those of a body without intermediates.
LEMMA TakesParam ==
  ASSUME NEW q, NEW w, CsiSeen(q, w)
  PROVE  MayTakeParam(q) <=> WellFormed(w) /\ ~HasIntermediate(w)
BY DEF CsiSeen, MayTakeParam, CsiStates

\* A parameter in a body leaves the rest of it alone.
LEMMA EntersParam ==
  ASSUME NEW w \in Seq(Byte), NEW b \in Byte, NEW u, OneMore(w, b, u),
         WellFormed(w), ~HasIntermediate(w), IsParameter(b)
  PROVE  /\ WellFormed(u) /\ ~HasIntermediate(u) /\ u # <<>>
         /\ Intermediates(u) = Intermediates(w)
         /\ HasMarker(u) <=> HasMarker(w)
<1>1. ~IsIntermediate(b) /\ ~IsPrivateMarker(b)
  BY Kinds DEF IsParameter
<1>2. WellFormed(u)
  BY WellFormedGrows
<1>3. ~HasIntermediate(u) /\ u # <<>> /\ (HasMarker(u) <=> HasMarker(w))
  BY <1>1, MarkerStays
<1>4. u \in Seq(Byte)
  BY OneByteMore
<1>5. Intermediates(w) = <<>>
  BY IntermediatesGrow
<1>6. Intermediates(u) = <<>>
  <2>1. OneMore(u, b, Append(u, b))
    BY DEF OneMore
  <2> QED
    BY <1>3, <1>4, <2>1, IntermediatesGrow
<1> QED
  BY <1>2, <1>3, <1>5, <1>6

\* One lemma for each branch of OnCsi.
LEMMA CsiDigit ==
  ASSUME NEW q \in Records, NEW w \in Seq(Byte), NEW b \in Byte, NEW u, OneMore(w, b, u),
         CsiSeen(q, w), MayTakeParam(q), IsDigit(b)
  PROVE  CsiSeen([PushDigit(q, b) EXCEPT !.state = "CsiParam"], u)
<1> DEFINE p == [PushDigit(q, b) EXCEPT !.state = "CsiParam"]
           vs == Values(w)
           ps == Started(q)
<1>1. WellFormed(w) /\ ~HasIntermediate(w) /\ IsParameter(b)
  BY TakesParam DEF IsParameter
<1>2. /\ WellFormed(u) /\ ~HasIntermediate(u) /\ u # <<>>
      /\ Intermediates(u) = Intermediates(w)
      /\ HasMarker(u) <=> HasMarker(w)
  BY <1>1, EntersParam
<1>3. /\ p.state = "CsiParam" /\ p.intermediates = q.intermediates
      /\ p.private <=> q.private
      /\ ps[Len(ps)] > MaxParam => p.csiOverflow
      /\ ~(ps[Len(ps)] > MaxParam) =>
           /\ p.csiOverflow <=> q.csiOverflow
           /\ p.params = [ps EXCEPT ![Len(ps)] = 10 * @ + (b - 48)]
      /\ q.csiOverflow => p.csiOverflow
  BY DigitFields
<1>4. p.csiOverflow <=> ~Fits(Values(u))
  <2>1. CASE ~Fits(vs)
    <3>1. ~Fits(Values(u))
      BY <2>1, NeverFitsAgain
    <3>2. q.csiOverflow
      BY <1>1, <2>1 DEF CsiSeen
    <3> QED
      BY <1>3, <3>1, <3>2
  <2>2. CASE Fits(vs)
    <3>1. ~q.csiOverflow /\ q.params = vs
      BY <1>1, <2>2 DEF CsiSeen
    <3>2. ps = Opened(vs)
      BY <3>1, StartedIs
    <3>3. Values(u) = [ps EXCEPT ![Len(ps)] = 10 * @ + (b - 48)]
      BY <3>2, DigitAdds
    <3>4. vs \in Seq(Nat) /\ b - 48 \in 0 .. 9
      BY ValuesOpened, BytesAre DEF IsDigit
    <3> HIDE DEF p, ps, vs
    <3>5. Fits(Values(u)) <=> ~(ps[Len(ps)] > MaxParam)
      BY <2>2, <3>2, <3>3, <3>4, DigitFits
    <3> QED
      BY <1>3, <3>1, <3>5
  <2> QED
    BY <2>1, <2>2
<1>5. ASSUME Fits(Values(u)) PROVE p.params = Values(u)
  <2>1. Fits(vs)
    BY <1>5, NeverFitsAgain
  <2>2. q.params = vs
    BY <1>1, <2>1 DEF CsiSeen
  <2>3. ps = Opened(vs)
    BY <2>2, StartedIs
  <2>4. Values(u) = [ps EXCEPT ![Len(ps)] = 10 * @ + (b - 48)]
    BY <2>3, DigitAdds
  <2>5. ~(ps[Len(ps)] > MaxParam)
    BY <1>3, <1>4, <1>5
  <2> HIDE DEF p, ps
  <2> QED
    BY <1>3, <2>4, <2>5
<1>6. /\ q.intermediates = AtMost(MaxIntermediates, Intermediates(w))
      /\ q.private <=> HasMarker(w)
  BY <1>1 DEF CsiSeen
<1> HIDE DEF p, ps
<1>7. CsiSeen(p, u)
  BY <1>2, <1>3, <1>4, <1>5, <1>6 DEF CsiSeen, CsiStates
<1> QED
  BY <1>7 DEF p

LEMMA CsiSeparator ==
  ASSUME NEW q \in Records, NEW w \in Seq(Byte), NEW b \in Byte, NEW u, OneMore(w, b, u),
         CsiSeen(q, w), MayTakeParam(q), IsSeparator(b)
  PROVE  CsiSeen([NextParam(q) EXCEPT !.state = "CsiParam"], u)
<1> DEFINE p == [NextParam(q) EXCEPT !.state = "CsiParam"]
           vs == Values(w)
           ps == Started(q)
<1>1. WellFormed(w) /\ ~HasIntermediate(w) /\ IsParameter(b)
  BY TakesParam DEF IsParameter
<1>2. /\ WellFormed(u) /\ ~HasIntermediate(u) /\ u # <<>>
      /\ Intermediates(u) = Intermediates(w)
      /\ HasMarker(u) <=> HasMarker(w)
  BY <1>1, EntersParam
<1>3. /\ p.state = "CsiParam" /\ p.intermediates = q.intermediates
      /\ p.private <=> q.private
      /\ ~(Len(ps) < MaxParams) => p.csiOverflow
      /\ Len(ps) < MaxParams =>
           (p.csiOverflow <=> q.csiOverflow) /\ p.params = Append(ps, 0)
      /\ q.csiOverflow => p.csiOverflow
  BY SeparatorFields
<1>4. p.csiOverflow <=> ~Fits(Values(u))
  <2>1. CASE ~Fits(vs)
    <3>1. ~Fits(Values(u))
      BY <2>1, NeverFitsAgain
    <3>2. q.csiOverflow
      BY <1>1, <2>1 DEF CsiSeen
    <3> QED
      BY <1>3, <3>1, <3>2
  <2>2. CASE Fits(vs)
    <3>1. ~q.csiOverflow /\ q.params = vs
      BY <1>1, <2>2 DEF CsiSeen
    <3>2. ps = Opened(vs)
      BY <3>1, StartedIs
    <3>3. Values(u) = Append(ps, 0)
      BY <3>2, SeparatorOpens
    <3>4. vs \in Seq(Nat)
      BY ValuesOpened
    <3> HIDE DEF p, ps, vs
    <3>5. Fits(Values(u)) <=> Len(ps) < MaxParams
      BY <2>2, <3>2, <3>3, <3>4, SeparatorFits
    <3> QED
      BY <1>3, <3>1, <3>5
  <2> QED
    BY <2>1, <2>2
<1>5. ASSUME Fits(Values(u)) PROVE p.params = Values(u)
  <2>1. Fits(vs)
    BY <1>5, NeverFitsAgain
  <2>2. q.params = vs
    BY <1>1, <2>1 DEF CsiSeen
  <2>3. ps = Opened(vs)
    BY <2>2, StartedIs
  <2>4. Values(u) = Append(ps, 0)
    BY <2>3, SeparatorOpens
  <2>5. Len(ps) < MaxParams
    BY <1>3, <1>4, <1>5
  <2> HIDE DEF p, ps
  <2> QED
    BY <1>3, <2>4, <2>5
<1>6. /\ q.intermediates = AtMost(MaxIntermediates, Intermediates(w))
      /\ q.private <=> HasMarker(w)
  BY <1>1 DEF CsiSeen
<1> HIDE DEF p, ps
<1>7. CsiSeen(p, u)
  BY <1>2, <1>3, <1>4, <1>5, <1>6 DEF CsiSeen, CsiStates
<1> QED
  BY <1>7 DEF p

LEMMA CsiMarker ==
  ASSUME NEW q \in Records, NEW w \in Seq(Byte), NEW b \in Byte, NEW u, OneMore(w, b, u),
         CsiSeen(q, w), q.state = "CsiEntry", IsPrivateMarker(b)
  PROVE  CsiSeen([q EXCEPT !.private = TRUE, !.state = "CsiParam"], u)
<1> DEFINE p == [q EXCEPT !.private = TRUE, !.state = "CsiParam"]
<1>1. WellFormed(w) /\ w = <<>> /\ ~HasIntermediate(w)
  BY DEF CsiSeen
<1>2. ~IsParameter(b) /\ ~IsIntermediate(b)
  BY Kinds
<1>3. WellFormed(u)
  BY <1>1, WellFormedGrows
<1>4. HasMarker(u) /\ u # <<>> /\ ~HasIntermediate(u)
  BY <1>1, <1>2, MarkerStays
<1>5. Values(u) = Values(w)
  BY <1>2, NumbersStay
<1>6. Intermediates(u) = Intermediates(w)
  <2>1. Intermediates(w) = <<>> /\ u \in Seq(Byte)
    BY <1>1, IntermediatesGrow, OneByteMore
  <2>2. OneMore(u, b, Append(u, b))
    BY DEF OneMore
  <2> QED
    BY <1>4, <2>1, <2>2, IntermediatesGrow
<1>7. /\ p.state = "CsiParam" /\ p.intermediates = q.intermediates /\ p.private
      /\ p.params = q.params
      /\ p.csiOverflow <=> q.csiOverflow
  BY DEF Records
<1> HIDE DEF p
<1>8. CsiSeen(p, u)
  BY <1>1, <1>3, <1>4, <1>5, <1>6, <1>7 DEF CsiSeen, CsiStates
<1> QED
  BY <1>8 DEF p

LEMMA CsiIntermediateSeen ==
  ASSUME NEW q \in Records, NEW w \in Seq(Byte), NEW b \in Byte, NEW u, OneMore(w, b, u),
         CsiSeen(q, w), q.state # "CsiIgnore", IsIntermediate(b)
  PROVE  CsiSeen(CsiInter(q, b), u)
<1> DEFINE p == CsiInter(q, b)
<1>1. WellFormed(w)
  BY DEF CsiSeen
<1>2. ~IsParameter(b) /\ ~IsPrivateMarker(b)
  BY Kinds
<1>3. WellFormed(u)
  BY <1>1, WellFormedGrows
<1>4. u # <<>> /\ HasIntermediate(u) /\ (HasMarker(u) <=> HasMarker(w))
  BY <1>2, MarkerStays
<1>5. Values(u) = Values(w)
  BY <1>2, NumbersStay
<1>6. AtMost(MaxIntermediates, Intermediates(u)) =
        Kept(AtMost(MaxIntermediates, Intermediates(w)), b)
  BY IntermediatesGrow, AtMostGrows
<1>7. /\ p.state = "CsiIntermediate" /\ p.intermediates = Kept(q.intermediates, b)
      /\ p.private <=> q.private
      /\ p.params = q.params
      /\ p.csiOverflow <=> q.csiOverflow
  BY DEF Records, CsiInter
<1> HIDE DEF p
<1>8. CsiSeen(p, u)
  BY <1>1, <1>3, <1>4, <1>5, <1>6, <1>7 DEF CsiSeen, CsiStates
<1> QED
  BY <1>8 DEF p

\* What is out of order makes the sequence malformed for good.
LEMMA CsiMalformed ==
  ASSUME NEW q \in Records, NEW w \in Seq(Byte), NEW b \in Byte, NEW u, OneMore(w, b, u),
         CsiSeen(q, w),
         ~(IsDigit(b) /\ MayTakeParam(q)), ~(IsSeparator(b) /\ MayTakeParam(q)),
         ~(IsPrivateMarker(b) /\ q.state = "CsiEntry"),
         ~(IsIntermediate(b) /\ q.state # "CsiIgnore")
  PROVE  CsiSeen([q EXCEPT !.state = "CsiIgnore"], u)
<1>1. ~WellFormed(u)
  BY TakesParam, WellFormedGrows DEF CsiSeen, IsParameter
<1>2. [q EXCEPT !.state = "CsiIgnore"].state = "CsiIgnore"
  BY DEF Records
<1> QED
  BY <1>1, <1>2 DEF CsiSeen, CsiStates

\* The parser q has seen the sequence s, or none.
Content(s) == SubSeq(s, 3, Len(s))

EscSeen(q, s) ==
  /\ Len(s) = 1 => q.state = "Esc"
  /\ Len(s) # 1 => q.state = "EscIntermediate"
  /\ q.escIntermediates = AtMost(MaxIntermediates, SubSeq(s, 2, Len(s)))

OscSeen(q, w) ==
  /\ q.state = "OscString"
  /\ q.oscOverflow <=> Len(w) > MaxOscLen
  /\ Len(w) <= MaxOscLen => q.osc = w

SequenceSeen(q, s) ==
  /\ s \in Seq(Byte)
  /\ s = <<>> <=> q.state = "Ground"
  /\ InOsc(s) => OscSeen(q, Content(s))
  /\ InCsi(s) => CsiSeen(q, Content(s))
  /\ s # <<>> /\ ~InOsc(s) /\ ~InCsi(s) => EscSeen(q, s)

\* What stands in a sequence after its introducer grows with it.
LEMMA ContentIs ==
  ASSUME NEW s \in Seq(Byte), NEW b \in Byte, NEW t, OneMore(s, b, t), Len(s) >= 2
  PROVE  /\ Content(s) \in Seq(Byte)
         /\ OneMore(Content(s), b, Content(t))
         /\ Body(t) = Content(s)
         /\ t[2] = s[2] /\ t[Len(t)] = b /\ Len(t) >= 2 /\ Len(t) # 1
<1>1. /\ t \in Seq(Byte) /\ Len(t) = Len(s) + 1 /\ Len(s) \in Nat /\ t[Len(s) + 1] = b
      /\ \A i \in 1 .. Len(s) : t[i] = s[i]
  BY OneByteMore
<1>2. 3 \in Nat \ {0} /\ 3 <= Len(s) + 1 /\ Len(s) <= Len(s)
  BY <1>1
<1>3. Content(s) \in Seq(Byte)
  BY <1>1, <1>2, PieceIs DEF Content
<1>4. OneMore(SubSeq(s, 3, Len(s)), b, SubSeq(t, 3, Len(s) + 1))
  BY <1>2, PieceGrows
<1>5. SubSeq(t, 3, Len(s)) = SubSeq(s, 3, Len(s))
  BY <1>1, <1>2, PieceKeeps
<1>6. Len(t) - 1 = Len(s)
  BY <1>1
<1> QED
  BY <1>1, <1>3, <1>4, <1>5, <1>6 DEF Content, Body

LEMMA ModesDiffer == \A s : ~(InOsc(s) /\ InCsi(s))
BY DEF InOsc, InCsi

\* A control sequence goes on.
LEMMA CsiGoesOn ==
  ASSUME NEW q \in Records, NEW w \in Seq(Byte), NEW b \in Byte, NEW u, OneMore(w, b, u),
         CsiSeen(q, w), ~IsC0(b), ~IsCsiFinal(b)
  PROVE  CsiSeen(OnCsi(q, b).parser, u) /\ OnCsi(q, b).call = <<>>
<1>1. CASE IsDigit(b) /\ MayTakeParam(q)
  <2>1. OnCsi(q, b) = Quiet([PushDigit(q, b) EXCEPT !.state = "CsiParam"])
    BY <1>1, Kinds DEF OnCsi
  <2> QED
    BY <1>1, <2>1, CsiDigit DEF Quiet
<1>2. CASE IsSeparator(b) /\ MayTakeParam(q)
  <2>1. OnCsi(q, b) = Quiet([NextParam(q) EXCEPT !.state = "CsiParam"])
    BY <1>2, Kinds DEF OnCsi
  <2> QED
    BY <1>2, <2>1, CsiSeparator DEF Quiet
<1>3. CASE IsPrivateMarker(b) /\ q.state = "CsiEntry"
  <2> DEFINE p == [q EXCEPT !.private = TRUE, !.state = "CsiParam"]
  <2>1. OnCsi(q, b) = Quiet(p)
    BY <1>3, Kinds DEF OnCsi, IsParameter
  <2>2. CsiSeen(p, u)
    BY <1>3, CsiMarker
  <2> HIDE DEF p
  <2> QED
    BY <2>1, <2>2 DEF Quiet
<1>4. CASE IsIntermediate(b) /\ q.state # "CsiIgnore"
  <2>1. OnCsi(q, b) = Quiet(CsiInter(q, b))
    BY <1>4, Kinds DEF OnCsi, IsParameter
  <2> QED
    BY <1>4, <2>1, CsiIntermediateSeen DEF Quiet
<1>5. CASE /\ ~(IsDigit(b) /\ MayTakeParam(q)) /\ ~(IsSeparator(b) /\ MayTakeParam(q))
           /\ ~(IsPrivateMarker(b) /\ q.state = "CsiEntry")
           /\ ~(IsIntermediate(b) /\ q.state # "CsiIgnore")
  <2>1. OnCsi(q, b) = Quiet([q EXCEPT !.state = "CsiIgnore"])
    BY <1>5, Zenon DEF OnCsi
  <2> QED
    BY <1>5, <2>1, CsiMalformed DEF Quiet
<1> QED
  BY <1>1, <1>2, <1>3, <1>4, <1>5

\* It ends, and is reported as it is written.
LEMMA CsiEnds ==
  ASSUME NEW q \in Records, NEW s \in Seq(Byte), NEW b \in Byte, NEW t, OneMore(s, b, t),
         InCsi(s), CsiSeen(q, Content(s)), IsCsiFinal(b)
  PROVE  /\ OnCsi(q, b).parser.state = "Ground"
         /\ OnCsi(q, b).call = Written(t)
<1> DEFINE w == Content(s)
<1>1. /\ w \in Seq(Byte) /\ Body(t) = w /\ t[2] = s[2] /\ t[Len(t)] = b /\ Len(t) >= 2
  BY ContentIs DEF InCsi
<1>2. Written(t) = CsiWritten(t)
  BY <1>1 DEF Written, InOsc, InCsi
<1>3. q.state = "CsiIgnore" <=> ~WellFormed(w)
  BY DEF CsiSeen
<1>4. CASE ~WellFormed(w)
  <2>1. OnCsi(q, b) = Quiet(EnterGround(q))
    BY <1>3, <1>4, Kinds DEF OnCsi, IsParameter
  <2>2. Written(t) = <<>>
    BY <1>1, <1>2, <1>4 DEF CsiWritten
  <2> QED
    BY <2>1, <2>2 DEF Quiet, EnterGround, Records
<1>5. CASE WellFormed(w)
  <2>1. OnCsi(q, b) = DispatchCsi(q, b)
    BY <1>3, <1>5, Kinds DEF OnCsi, IsParameter
  <2>2. OnCsi(q, b).parser.state = "Ground"
    BY <2>1 DEF DispatchCsi, Makes, EnterGround, Records
  <2>3. CASE ~Fits(Values(w))
    <3>1. q.csiOverflow
      BY <1>5, <2>3 DEF CsiSeen
    <3>2. OnCsi(q, b).call = <<>>
      BY <2>1, <3>1 DEF DispatchCsi, Makes
    <3>3. Written(t) = <<>>
      BY <1>1, <1>2, <2>3 DEF CsiWritten
    <3> QED
      BY <2>2, <3>2, <3>3
  <2>4. CASE Fits(Values(w))
    <3>1. ~q.csiOverflow /\ q.params = Values(w)
      BY <1>5, <2>4 DEF CsiSeen
    <3>2. q.intermediates = AtMost(MaxIntermediates, Intermediates(w))
      BY <1>5 DEF CsiSeen
    <3>3. q.private = HasMarker(w)
      <4>1. q.private <=> HasMarker(w)
        BY <1>5 DEF CsiSeen
      <4>2. q.private \in BOOLEAN
        BY DEF Records
      <4>3. HasMarker(w) \in BOOLEAN
        BY DEF HasMarker
      <4> QED
        BY <4>1, <4>2, <4>3
    <3>4. OnCsi(q, b).call = <<"csi", b, q.params, q.intermediates, q.private>>
      BY <2>1, <3>1 DEF DispatchCsi, Makes
    <3>5. Written(t) = <<"csi", b, Values(w),
                         AtMost(MaxIntermediates, Intermediates(w)), HasMarker(w)>>
      BY <1>1, <1>2, <1>5, <2>4, Zenon DEF CsiWritten
    <3> QED
      BY <2>2, <3>1, <3>2, <3>3, <3>4, <3>5, Zenon
  <2> QED
    BY <2>3, <2>4
<1> QED
  BY <1>4, <1>5

\* A string goes on, and ends.
LEMMA OscGoesOn ==
  ASSUME NEW q \in Records, NEW w \in Seq(Byte), NEW b \in Byte, NEW u, OneMore(w, b, u),
         OscSeen(q, w), b \notin {BEL, ESC}
  PROVE  OscSeen(OnOsc(q, b).parser, u) /\ OnOsc(q, b).call = <<>>
<1>1. MaxOscLen \in Nat
  BY ParserAssumption
<1>2. Len(u) = Len(w) + 1 /\ Len(w) \in Nat /\ u = Append(w, b)
  BY OneByteMore DEF OneMore
<1> DEFINE p == OnOsc(q, b).parser
<1>3. /\ OnOsc(q, b).call = <<>> /\ p.state = q.state
      /\ Len(q.osc) < MaxOscLen => p.osc = Append(q.osc, b) /\ (p.oscOverflow <=> q.oscOverflow)
      /\ ~(Len(q.osc) < MaxOscLen) => p.oscOverflow
      /\ q.oscOverflow => p.oscOverflow
  BY DEF OnOsc, Quiet, Records
<1> HIDE DEF p
<1>4. CASE Len(w) < MaxOscLen
  <2>1. q.osc = w /\ ~q.oscOverflow
    BY <1>1, <1>2, <1>4 DEF OscSeen
  <2> QED
    BY <1>1, <1>2, <1>3, <1>4, <2>1 DEF OscSeen, p
<1>5. CASE Len(w) = MaxOscLen
  <2>1. q.osc = w
    BY <1>1, <1>2, <1>5 DEF OscSeen
  <2> QED
    BY <1>1, <1>2, <1>3, <1>5, <2>1 DEF OscSeen, p
<1>6. CASE Len(w) > MaxOscLen
  BY <1>1, <1>2, <1>3, <1>6 DEF OscSeen, p
<1> QED
  BY <1>1, <1>2, <1>4, <1>5, <1>6

LEMMA OscEnds ==
  ASSUME NEW q \in Records, NEW s \in Seq(Byte), NEW b \in Byte, NEW t, OneMore(s, b, t),
         InOsc(s), OscSeen(q, Content(s)), b \in {BEL, ESC}
  PROVE  /\ OnOsc(q, b).call = Written(t)
         /\ b = BEL => OnOsc(q, b).parser.state = "Ground"
         /\ b = ESC => OnOsc(q, b).parser = EnterEsc(q)
<1> DEFINE w == Content(s)
<1>1. /\ w \in Seq(Byte) /\ Body(t) = w /\ t[2] = s[2] /\ t[Len(t)] = b /\ Len(t) >= 2
  BY ContentIs DEF InOsc
<1>2. Written(t) = OscWritten(t)
  BY <1>1 DEF Written, InOsc, InCsi
<1>3. /\ OnOsc(q, b).call = OscCall(q)
      /\ b = BEL => OnOsc(q, b).parser.state = "Ground"
      /\ b = ESC => OnOsc(q, b).parser = EnterEsc(q)
  BY DEF OnOsc, Makes, EnterGround, Records, BEL, ESC
<1>4. OscCall(q) = OscWritten(t)
  <2>1. Len(w) \in Nat /\ MaxOscLen \in Nat
    BY <1>1, ParserAssumption
  <2> HIDE DEF w
  <2>2. CASE Len(w) <= MaxOscLen
    BY <1>1, <2>1, <2>2 DEF OscSeen, OscCall, OscWritten, w
  <2>3. CASE Len(w) > MaxOscLen
    BY <1>1, <2>1, <2>3 DEF OscSeen, OscCall, OscWritten, w
  <2> QED
    BY <2>1, <2>2, <2>3
<1> QED
  BY <1>2, <1>3, <1>4

\* What a sequence begins with.
LEMMA NothingWritten ==
  /\ WellFormed(<<>>) /\ ~HasIntermediate(<<>>) /\ ~HasMarker(<<>>)
  /\ Values(<<>>) = <<>> /\ Fits(<<>>)
  /\ AtMost(MaxIntermediates, Intermediates(<<>>)) = <<>>
<1> DEFINE e == <<>>
<1>1. e \in Seq(Byte) /\ DOMAIN e = {} /\ Len(e) = 0
  OBVIOUS
<1>2. WellFormed(e) /\ ~HasIntermediate(e) /\ ~HasMarker(e) /\ ~HasParameter(e)
  <2> HIDE DEF e
  <2>1. WellFormed(e) /\ ~HasIntermediate(e) /\ ~HasParameter(e)
    BY <1>1 DEF WellFormed, HasIntermediate, HasParameter
  <2>2. ~HasMarker(e)
    BY DEF HasMarker, e
  <2> QED
    BY <2>1, <2>2
<1>3. Values(e) = <<>>
  <2> HIDE DEF e
  <2> QED
    BY <1>1, <1>2, ValuesOpened
<1>4. Fits(e)
  BY ParserAssumption DEF Fits
<1>5. MaxParams \in Nat
  BY ParserAssumption
<1>6. Intermediates(e) = <<>>
  <2>2. Before(e) = {}
    <3> HIDE DEF e
    <3> QED
      BY <1>1 DEF Before
  <2>3. Cardinality(Before(e)) = 0
    BY <2>2, FS_EmptySet
  <2>4. Intermediates(e) = SubSeq(e, 1, 0)
    <3> HIDE DEF e
    <3> QED
      BY <1>1, <2>3 DEF Intermediates
  <2>5. SubSeq(e, 1, 0) = <<>>
    BY SubSeqEmpty
  <2> QED
    BY <2>4, <2>5
<1> QED
  BY <1>2, <1>3, <1>4, <1>6, AtMostNone DEF e

\* The states a sequence begins with.
LEMMA NoneSeen ==
  ASSUME NEW q, q.state = "Ground"
  PROVE  SequenceSeen(q, <<>>)
<1> DEFINE e == <<>>
<1>1. e \in Seq(Byte) /\ ~InOsc(e) /\ ~InCsi(e)
  BY DEF InOsc, InCsi
<1>2. e = <<>>
  OBVIOUS
<1> HIDE DEF e
<1>3. SequenceSeen(q, e)
  BY <1>1, <1>2 DEF SequenceSeen
<1> QED
  BY <1>2, <1>3

LEMMA EscapeSeen ==
  ASSUME NEW q \in Records, ESC \in Byte
  PROVE  SequenceSeen(EnterEsc(q), <<ESC>>)
<1> DEFINE s == <<ESC>>
           p == EnterEsc(q)
<1>1. s \in Seq(Byte) /\ Len(s) = 1 /\ s # <<>>
  OBVIOUS
<1>2. SubSeq(s, 2, Len(s)) = <<>>
  BY <1>1, SubSeqEmpty
<1>3. p.state = "Esc" /\ p.escIntermediates = <<>>
  BY DEF EnterEsc, Records
<1> HIDE DEF s, p
<1>4. EscSeen(p, s)
  BY <1>1, <1>2, <1>3, AtMostNone DEF EscSeen
<1>5. SequenceSeen(p, s)
  BY <1>1, <1>3, <1>4 DEF SequenceSeen, InOsc, InCsi
<1> QED
  BY <1>5 DEF s, p

LEMMA CsiBegun ==
  ASSUME NEW q \in Records PROVE CsiSeen(EnterCsi(q), <<>>)
<1> DEFINE e == <<>>
           p == EnterCsi(q)
<1>1. /\ p.state = "CsiEntry" /\ p.params = e /\ p.intermediates = e
      /\ ~p.private /\ ~p.csiOverflow
  BY DEF EnterCsi, Records
<1>2. /\ WellFormed(e) /\ ~HasIntermediate(e) /\ ~HasMarker(e)
      /\ Values(e) = e /\ Fits(Values(e))
      /\ AtMost(MaxIntermediates, Intermediates(e)) = e
  BY NothingWritten
<1>3. e = <<>>
  OBVIOUS
<1> HIDE DEF e, p
<1>4. CsiSeen(p, e)
  BY <1>1, <1>2, <1>3 DEF CsiSeen, CsiStates
<1> QED
  BY <1>4 DEF e, p

LEMMA OscBegun ==
  ASSUME NEW q \in Records PROVE OscSeen(EnterOsc(q), <<>>)
<1> DEFINE e == <<>>
           p == EnterOsc(q)
<1>1. p.state = "OscString" /\ p.osc = e /\ ~p.oscOverflow
  BY DEF EnterOsc, Records
<1>2. Len(e) = 0 /\ ~(Len(e) > MaxOscLen)
  BY ParserAssumption
<1> HIDE DEF e, p
<1>3. OscSeen(p, e)
  BY <1>1, <1>2 DEF OscSeen
<1> QED
  BY <1>3 DEF e, p

\* An escape sequence takes a byte.
LEMMA EscState ==
  ASSUME NEW q, NEW s \in Seq(Byte), s # <<>>, EscSeen(q, s)
  PROVE  q.state \in EscStates /\ (q.state = "Esc" <=> Len(s) = 1)
BY DEF EscSeen, EscStates

\* The kinds of bytes after ESC.
LEMMA EscKinds ==
  ASSUME NEW b \in Byte
  PROVE  /\ IsIntermediate(b) => b # 91 /\ b # 93 /\ ~IsC0(b) /\ ~IsEscFinal(b)
         /\ IsC0(b) => b # 91 /\ b # 93 /\ ~IsIntermediate(b) /\ ~IsEscFinal(b)
         /\ IsEscFinal(b) => ~IsIntermediate(b) /\ ~IsC0(b)
         /\ b \in {91, 93} => ~IsIntermediate(b) /\ ~IsC0(b)
BY BytesAre DEF IsIntermediate, IsC0, IsEscFinal

LEMMA EscInterIs ==
  ASSUME NEW q \in Records, NEW b
  PROVE  /\ EscInter(q, b).state = "EscIntermediate"
         /\ EscInter(q, b).escIntermediates = Kept(q.escIntermediates, b)
BY DEF EscInter, Records

\* The second byte of a sequence says what it is.
LEMMA SecondStays ==
  ASSUME NEW s \in Seq(Byte), NEW b \in Byte, NEW t, OneMore(s, b, t), s # <<>>, Len(s) # 1
  PROVE  (InOsc(t) <=> InOsc(s)) /\ (InCsi(t) <=> InCsi(s))
<1>1. /\ t \in Seq(Byte) /\ Len(t) = Len(s) + 1 /\ Len(s) \in Nat /\ t[Len(s) + 1] = b
      /\ \A i \in 1 .. Len(s) : t[i] = s[i]
  BY OneByteMore
<1>2. Len(s) # 0
  OBVIOUS
<1>3. Len(s) >= 2 /\ Len(t) >= 2 /\ 2 \in 1 .. Len(s)
  <2>1. Len(s) \in Nat /\ Len(s) # 0 /\ Len(s) # 1 /\ Len(t) = Len(s) + 1
    BY <1>1, <1>2
  <2> DEFINE n == Len(s)
             m == Len(t)
  <2>2. n \in Nat /\ n # 0 /\ n # 1 /\ m = n + 1
    BY <2>1
  <2> HIDE DEF n, m
  <2>3. n >= 2 /\ m >= 2 /\ 2 \in 1 .. n
    BY ONLY <2>2
  <2> QED
    BY <2>3 DEF n, m
<1>4. t[2] = s[2]
  BY <1>1, <1>3
<1> QED
  BY <1>3, <1>4 DEF InOsc, InCsi

\* An escape sequence goes on, and ends.
LEMMA EscGoesOn ==
  ASSUME NEW q \in Records, NEW s \in Seq(Byte), NEW b \in Byte, NEW t, OneMore(s, b, t),
         s # <<>>, ~InOsc(s), ~InCsi(s), EscSeen(q, s), ~Ends(s, b)
  PROVE  SequenceSeen(OnEsc(q, b).parser, t) /\ OnEsc(q, b).call = <<>>
<1> DEFINE p == OnEsc(q, b).parser
<1>1. /\ t \in Seq(Byte) /\ Len(t) = Len(s) + 1 /\ Len(s) \in Nat /\ t[Len(s) + 1] = b
      /\ \A i \in 1 .. Len(s) : t[i] = s[i]
  BY OneByteMore
<1>2. Len(s) >= 1 /\ Len(t) >= 2 /\ Len(t) # 1 /\ t # <<>>
  BY <1>1
<1>3. IsIntermediate(b) \/ (Len(s) = 1 /\ b \in {91, 93})
  BY DEF Ends
<1>4. CASE IsIntermediate(b)
  <2>1. OnEsc(q, b) = Quiet(EscInter(q, b))
    BY <1>4, EscKinds, Zenon DEF OnEsc
  <2>2. p.state = "EscIntermediate" /\ p.escIntermediates = Kept(q.escIntermediates, b)
    <3>1. p = EscInter(q, b)
      BY <2>1 DEF Quiet
    <3> HIDE DEF p
    <3> QED
      BY <3>1, EscInterIs
  <2>3. OneMore(SubSeq(s, 2, Len(s)), b, SubSeq(t, 2, Len(s) + 1))
    BY <1>1, <1>2, PieceGrows
  <2>4. SubSeq(s, 2, Len(s)) \in Seq(Byte)
    BY <1>1, PieceIs
  <2>5. AtMost(MaxIntermediates, SubSeq(t, 2, Len(t))) =
          Kept(AtMost(MaxIntermediates, SubSeq(s, 2, Len(s))), b)
    BY <1>1, <2>3, <2>4, AtMostGrows
  <2> HIDE DEF p
  <2>6. EscSeen(p, t)
    BY <1>2, <2>2, <2>5 DEF EscSeen
  <2>7. ~InOsc(t) /\ ~InCsi(t)
    <3>1. CASE Len(s) = 1
      BY <1>1, <1>4, <3>1 DEF InOsc, InCsi, IsIntermediate
    <3>2. CASE Len(s) # 1
      BY <3>2, SecondStays
    <3> QED
      BY <3>1, <3>2
  <2>8. SequenceSeen(p, t)
    BY <1>1, <1>2, <2>2, <2>6, <2>7 DEF SequenceSeen
  <2> QED
    BY <2>1, <2>8 DEF Quiet, p
<1>5. CASE Len(s) = 1 /\ b \in {91, 93}
  <2>1. q.state = "Esc"
    BY <1>5 DEF EscSeen
  <2>2. t[2] = b /\ Len(t) = 2 /\ SubSeq(t, 3, Len(t)) = <<>>
    BY <1>1, <1>5, SubSeqEmpty
  <2>3. Content(t) = <<>>
    BY <2>2 DEF Content
  <2>4. CASE b = 91
    <3>1. OnEsc(q, b) = Quiet(EnterCsi(q))
      <4>1. b = 91 /\ b # 93
        BY <2>4
      <4>2. ~IsIntermediate(b) /\ ~IsC0(b) /\ b \in {91, 93}
        BY <2>4, EscKinds
      <4> QED
        BY <2>1, <4>1, <4>2, Zenon DEF OnEsc
    <3>2. p.state = "CsiEntry"
      <4>1. p = EnterCsi(q)
        BY <3>1 DEF Quiet
      <4>2. EnterCsi(q).state = "CsiEntry"
        BY DEF EnterCsi, Records
      <4> QED
        BY <4>1, <4>2
    <3>3. CsiSeen(p, Content(t))
      BY <2>3, <3>1, CsiBegun DEF Quiet
    <3>4. InCsi(t) /\ ~InOsc(t)
      BY <2>2, <2>4 DEF InOsc, InCsi
    <3> HIDE DEF p
    <3>5. SequenceSeen(p, t)
      BY <1>1, <1>2, <3>2, <3>3, <3>4 DEF SequenceSeen
    <3> QED
      BY <3>1, <3>5 DEF Quiet, p
  <2>5. CASE b = 93
    <3>1. OnEsc(q, b) = Quiet(EnterOsc(q))
      <4>1. b = 93 /\ b # 91
        BY <2>5
      <4>2. ~IsIntermediate(b) /\ ~IsC0(b) /\ b \in {91, 93}
        BY <2>5, EscKinds
      <4> QED
        BY <2>1, <4>1, <4>2, Zenon DEF OnEsc
    <3>2. p.state = "OscString"
      <4>1. p = EnterOsc(q)
        BY <3>1 DEF Quiet
      <4>2. EnterOsc(q).state = "OscString"
        BY DEF EnterOsc, Records
      <4> QED
        BY <4>1, <4>2
    <3>3. OscSeen(p, Content(t))
      BY <2>3, <3>1, OscBegun DEF Quiet
    <3>4. InOsc(t) /\ ~InCsi(t)
      BY <2>2, <2>5 DEF InOsc, InCsi
    <3> HIDE DEF p
    <3>5. SequenceSeen(p, t)
      BY <1>1, <1>2, <3>2, <3>3, <3>4 DEF SequenceSeen
    <3> QED
      BY <3>1, <3>5 DEF Quiet, p
  <2> QED
    BY <1>5, <2>4, <2>5
<1> QED
  BY <1>3, <1>4, <1>5

LEMMA EscEnds ==
  ASSUME NEW q \in Records, NEW s \in Seq(Byte), NEW b \in Byte, NEW t, OneMore(s, b, t),
         s # <<>>, ~InOsc(s), ~InCsi(s), EscSeen(q, s), ~IsC0(b), Ends(s, b)
  PROVE  /\ OnEsc(q, b).parser.state = "Ground"
         /\ OnEsc(q, b).call = Written(t)
<1>1. /\ t \in Seq(Byte) /\ Len(t) = Len(s) + 1 /\ Len(s) \in Nat /\ t[Len(s) + 1] = b
      /\ \A i \in 1 .. Len(s) : t[i] = s[i]
  BY OneByteMore
<1>2. Len(s) >= 1
  BY <1>1
<1>3. ~IsIntermediate(b) /\ ~(q.state = "Esc" /\ b \in {91, 93})
  BY EscState DEF Ends
<1>4. ~InOsc(t) /\ ~InCsi(t)
  <2>1. CASE Len(s) = 1
    <3>1. t[2] = b /\ b \notin {91, 93}
      BY <1>1, <2>1 DEF Ends
    <3> QED
      BY <3>1 DEF InOsc, InCsi
  <2>2. CASE Len(s) # 1
    BY <2>2, SecondStays
  <2> QED
    BY <2>1, <2>2
<1>5. t[Len(t)] = b /\ Len(t) - 1 = Len(s)
  BY <1>1
<1>6. SubSeq(t, 2, Len(t) - 1) = SubSeq(s, 2, Len(s))
  BY <1>1, <1>5, PieceKeeps
<1>7. Written(t) = EscWritten(t)
  BY <1>4 DEF Written
<1>8. CASE IsEscFinal(b)
  <2>1. OnEsc(q, b) = DispatchEsc(q, b)
    BY <1>3, <1>8 DEF OnEsc
  <2>2. Written(t) = <<"esc", b, AtMost(MaxIntermediates, SubSeq(s, 2, Len(s)))>>
    BY <1>5, <1>6, <1>7, <1>8 DEF EscWritten
  <2>3. q.escIntermediates = AtMost(MaxIntermediates, SubSeq(s, 2, Len(s)))
    BY DEF EscSeen
  <2> QED
    BY <2>1, <2>2, <2>3 DEF DispatchEsc, Makes, EnterGround, Records
<1>9. CASE ~IsEscFinal(b)
  <2>1. OnEsc(q, b) = Quiet(EnterGround(q))
    BY <1>3, <1>9 DEF OnEsc, IsEscFinal
  <2>2. Written(t) = <<>>
    BY <1>5, <1>7, <1>9 DEF EscWritten
  <2> QED
    BY <2>1, <2>2 DEF Quiet, EnterGround, Records
<1> QED
  BY <1>8, <1>9

-----------------------------------------------------------------------------
\* A sequence that is begun takes a byte: it is executed, ends the sequence,
\* or belongs to it.
LEMMA SequenceStep ==
  ASSUME NEW q \in Records, NEW s \in Seq(Byte), NEW b \in Byte, NEW t, OneMore(s, b, t),
         s # <<>>, SequenceSeen(q, s), b \notin {CAN, SUB},
         InOsc(s) \/ b # ESC
  PROVE  /\ IsExecuted(s, b) => Feed(q, b) = Makes(q, <<"execute", b>>)
         /\ ~IsExecuted(s, b) /\ Ends(s, b) =>
              /\ Feed(q, b).call = Written(t)
              /\ b # ESC => Feed(q, b).parser.state = "Ground"
              /\ b = ESC => Feed(q, b).parser = EnterEsc(q)
         /\ ~IsExecuted(s, b) /\ ~Ends(s, b) =>
              SequenceSeen(Feed(q, b).parser, t) /\ Feed(q, b).call = <<>>
<1>1. q.state # "Ground"
  BY DEF SequenceSeen
<1>2. t \in Seq(Byte) /\ Len(t) = Len(s) + 1 /\ Len(s) \in Nat /\ t # <<>>
  BY OneByteMore
<1>3. CASE InOsc(s)
  <2>1. OscSeen(q, Content(s))
    BY <1>3 DEF SequenceSeen
  <2>2. Feed(q, b) = OnOsc(q, b)
    BY <2>1 DEF OscSeen, Feed, EscStates, CsiStates
  <2>3. ~IsExecuted(s, b) /\ (Ends(s, b) <=> b \in {BEL, ESC})
    <3>1. ~InCsi(s)
      BY <1>3, ModesDiffer
    <3> QED
      BY <1>3, <3>1, Zenon DEF IsExecuted, Ends
  <2>4. CASE b \in {BEL, ESC}
    BY <1>3, <2>1, <2>2, <2>3, <2>4, OscEnds DEF BEL, ESC
  <2>5. CASE b \notin {BEL, ESC}
    <3>1. /\ Content(s) \in Seq(Byte) /\ OneMore(Content(s), b, Content(t))
          /\ t[2] = s[2] /\ Len(t) >= 2
      BY <1>3, ContentIs DEF InOsc
    <3>2. OscSeen(OnOsc(q, b).parser, Content(t)) /\ OnOsc(q, b).call = <<>>
      BY <2>1, <2>5, <3>1, OscGoesOn
    <3>3. InOsc(t) /\ ~InCsi(t)
      BY <1>3, <3>1 DEF InOsc, InCsi
    <3>4. SequenceSeen(OnOsc(q, b).parser, t)
      BY <1>2, <3>2, <3>3 DEF SequenceSeen, OscSeen
    <3> QED
      BY <2>2, <2>3, <2>5, <3>2, <3>4
  <2> QED
    BY <2>4, <2>5
<1>4. CASE InCsi(s)
  <2>1. CsiSeen(q, Content(s)) /\ ~InOsc(s)
    BY <1>4, ModesDiffer DEF SequenceSeen
  <2>2. Feed(q, b) = OnCsi(q, b)
    BY <2>1 DEF CsiSeen, Feed, EscStates, CsiStates
  <2>3. (IsExecuted(s, b) <=> IsC0(b)) /\ (Ends(s, b) <=> IsCsiFinal(b))
    BY <1>4, <2>1 DEF IsExecuted, Ends
  <2>4. CASE IsC0(b)
    <3>1. OnCsi(q, b) = Makes(q, <<"execute", b>>)
      BY <2>4, Kinds, Zenon DEF OnCsi, IsParameter
    <3> QED
      BY <2>2, <2>3, <2>4, <3>1, Zenon
  <2>5. CASE IsCsiFinal(b)
    <3>1. b # ESC /\ ~IsC0(b)
      BY <2>5, Kinds DEF ESC, IsC0
    <3> QED
      BY <1>4, <2>1, <2>2, <2>3, <2>5, <3>1, CsiEnds
  <2>6. CASE ~IsC0(b) /\ ~IsCsiFinal(b)
    <3>1. /\ Content(s) \in Seq(Byte) /\ OneMore(Content(s), b, Content(t))
          /\ t[2] = s[2] /\ Len(t) >= 2
      BY <1>4, ContentIs DEF InCsi
    <3>2. CsiSeen(OnCsi(q, b).parser, Content(t)) /\ OnCsi(q, b).call = <<>>
      BY <2>1, <2>6, <3>1, CsiGoesOn
    <3>3. InCsi(t) /\ ~InOsc(t)
      BY <1>4, <3>1 DEF InOsc, InCsi
    <3>4. SequenceSeen(OnCsi(q, b).parser, t)
      BY <1>2, <3>2, <3>3 DEF SequenceSeen, CsiSeen, CsiStates
    <3> QED
      BY <2>2, <2>3, <2>6, <3>2, <3>4
  <2> QED
    BY <2>4, <2>5, <2>6
<1>5. CASE ~InOsc(s) /\ ~InCsi(s)
  <2>1. EscSeen(q, s)
    BY <1>5 DEF SequenceSeen
  <2>2. Feed(q, b) = OnEsc(q, b)
    <3>1. q.state \in EscStates
      BY <1>5, <2>1, EscState
    <3>2. q.state # "Ground" /\ q.state \notin CsiStates
      BY <3>1 DEF EscStates, CsiStates
    <3> QED
      BY <3>1, <3>2, Zenon DEF Feed
  <2>3. IsExecuted(s, b) <=> IsC0(b)
    BY <1>5 DEF IsExecuted
  <2>4. CASE IsC0(b)
    <3>1. OnEsc(q, b) = Makes(q, <<"execute", b>>)
      BY <2>4, EscKinds, Zenon DEF OnEsc
    <3> QED
      BY <2>2, <2>3, <2>4, <3>1, Zenon
  <2>5. CASE ~IsC0(b) /\ Ends(s, b)
    <3>1. b # ESC
      BY <2>5 DEF ESC, IsC0
    <3> QED
      BY <1>5, <2>1, <2>2, <2>3, <2>5, <3>1, EscEnds
  <2>6. CASE ~IsC0(b) /\ ~Ends(s, b)
    BY <1>5, <2>1, <2>2, <2>3, <2>6, EscGoesOn
  <2> QED
    BY <2>4, <2>5, <2>6
<1> QED
  BY <1>3, <1>4, <1>5

-----------------------------------------------------------------------------
(* What it has seen of a character. *)

\* What r does to the parser q it was called with leaves the character alone.
Aside(q, r) ==
  /\ r.parser.cp = q.cp /\ r.parser.remaining = q.remaining
  /\ r.call = <<>> \/ r.call[1] # "put"

\* A call is known by its first element.
LEMMA FirstOfCall ==
  ASSUME NEW a, NEW b, NEW c, NEW d, NEW e
  PROVE  /\ <<a, b>>[1] = a /\ <<a, b, c>>[1] = a /\ <<a, b, c, d, e>>[1] = a
OBVIOUS

LEMMA AsideQuiet ==
  ASSUME NEW q, NEW p, p.cp = q.cp, p.remaining = q.remaining
  PROVE  /\ Aside(q, Quiet(p))
         /\ \A c : c = <<>> \/ c[1] # "put" => Aside(q, Makes(p, c))
BY DEF Aside, Quiet, Makes

LEMMA AsideMakes ==
  ASSUME NEW q, NEW p, p.cp = q.cp, p.remaining = q.remaining,
         NEW c, c = <<>> \/ c[1] # "put"
  PROVE  Aside(q, Makes(p, c))
BY DEF Aside, Makes

\* What a sequence sets is not what a character uses.
LEMMA EntersKeep ==
  ASSUME NEW q \in Records, NEW b
  PROVE  /\ EnterGround(q).cp = q.cp /\ EnterGround(q).remaining = q.remaining
         /\ EnterEsc(q).cp = q.cp /\ EnterEsc(q).remaining = q.remaining
         /\ EnterCsi(q).cp = q.cp /\ EnterCsi(q).remaining = q.remaining
         /\ EnterOsc(q).cp = q.cp /\ EnterOsc(q).remaining = q.remaining
         /\ CsiInter(q, b).cp = q.cp /\ CsiInter(q, b).remaining = q.remaining
         /\ EscInter(q, b).cp = q.cp /\ EscInter(q, b).remaining = q.remaining
BY DEF EnterGround, EnterEsc, EnterCsi, EnterOsc, CsiInter, EscInter, Records

LEMMA ParamsKeep ==
  ASSUME NEW q \in Records, NEW b
  PROVE  /\ [PushDigit(q, b) EXCEPT !.state = "CsiParam"].cp = q.cp
         /\ [PushDigit(q, b) EXCEPT !.state = "CsiParam"].remaining = q.remaining
         /\ [NextParam(q) EXCEPT !.state = "CsiParam"].cp = q.cp
         /\ [NextParam(q) EXCEPT !.state = "CsiParam"].remaining = q.remaining
         /\ [q EXCEPT !.private = TRUE, !.state = "CsiParam"].cp = q.cp
         /\ [q EXCEPT !.private = TRUE, !.state = "CsiParam"].remaining = q.remaining
         /\ [q EXCEPT !.state = "CsiIgnore"].cp = q.cp
         /\ [q EXCEPT !.state = "CsiIgnore"].remaining = q.remaining
<1> DEFINE ps == Started(q)
<1>1. /\ [PushDigit(q, b) EXCEPT !.state = "CsiParam"].cp = q.cp
      /\ [PushDigit(q, b) EXCEPT !.state = "CsiParam"].remaining = q.remaining
  <2> DEFINE ds == [ps EXCEPT ![Len(ps)] = 10 * @ + (b - 48)]
  <2>1. PushDigit(q, b) = IF ps[Len(ps)] > MaxParam
                          THEN [q EXCEPT !.params = ps, !.csiOverflow = TRUE]
                          ELSE [q EXCEPT !.params = ds]
    BY DEF PushDigit
  <2> HIDE DEF ds, ps
  <2> QED
    BY <2>1 DEF Records
<1>2. /\ [NextParam(q) EXCEPT !.state = "CsiParam"].cp = q.cp
      /\ [NextParam(q) EXCEPT !.state = "CsiParam"].remaining = q.remaining
  <2> DEFINE ds == Append(ps, 0)
  <2>1. NextParam(q) = IF Len(ps) < MaxParams
                       THEN [q EXCEPT !.params = ds]
                       ELSE [q EXCEPT !.params = ps, !.csiOverflow = TRUE]
    BY DEF NextParam
  <2> HIDE DEF ds, ps
  <2> QED
    BY <2>1 DEF Records
<1> QED
  BY <1>1, <1>2 DEF Records

\* One lemma for each handler.
LEMMA GroundAside ==
  ASSUME NEW q \in Records, NEW b \in Byte, ~IsText(b)
  PROVE  Aside(q, OnGround(q, b))
<1>1. CASE b = ESC
  <2>1. OnGround(q, b) = Quiet(EnterEsc(q))
    BY <1>1 DEF OnGround, IsC0, IsContinuation, ESC
  <2> QED
    BY <2>1, EntersKeep, AsideQuiet
<1>2. CASE b # ESC /\ IsC0(b)
  <2>1. OnGround(q, b) = Makes(q, <<"execute", b>>)
    BY <1>2, BytesAre DEF OnGround, IsC0, IsContinuation, ESC
  <2> QED
    BY <2>1, FirstOfCall, AsideQuiet
<1>3. CASE b = 127
  <2>1. OnGround(q, b) = Quiet(q)
    BY <1>3 DEF OnGround, IsC0, IsContinuation, ESC
  <2> QED
    BY <2>1, AsideQuiet
<1> QED
  BY <1>1, <1>2, <1>3, BytesAre DEF IsText, IsC0

LEMMA EscAside ==
  ASSUME NEW q \in Records, NEW b \in Byte
  PROVE  Aside(q, OnEsc(q, b))
<1>1. \/ OnEsc(q, b) \in {Quiet(EnterCsi(q)), Quiet(EnterOsc(q)), Quiet(EscInter(q, b)),
                          Quiet(EnterGround(q))}
      \/ OnEsc(q, b) = Makes(q, <<"execute", b>>)
      \/ OnEsc(q, b) = Makes(EnterGround(q), <<"esc", b, q.escIntermediates>>)
  BY DEF OnEsc, DispatchEsc
<1>2. /\ Aside(q, Quiet(EnterCsi(q))) /\ Aside(q, Quiet(EnterOsc(q)))
      /\ Aside(q, Quiet(EscInter(q, b))) /\ Aside(q, Quiet(EnterGround(q)))
  BY EntersKeep, AsideQuiet
<1>3. Aside(q, Makes(q, <<"execute", b>>))
  BY FirstOfCall, AsideQuiet
<1>4. Aside(q, Makes(EnterGround(q), <<"esc", b, q.escIntermediates>>))
  BY EntersKeep, FirstOfCall, AsideQuiet
<1> QED
  BY <1>1, <1>2, <1>3, <1>4

LEMMA CsiAside ==
  ASSUME NEW q \in Records, NEW b \in Byte
  PROVE  Aside(q, OnCsi(q, b))
<1> DEFINE digit == Quiet([PushDigit(q, b) EXCEPT !.state = "CsiParam"])
           separator == Quiet([NextParam(q) EXCEPT !.state = "CsiParam"])
           marker == Quiet([q EXCEPT !.private = TRUE, !.state = "CsiParam"])
           ignored == Quiet([q EXCEPT !.state = "CsiIgnore"])
           executed == Makes(q, <<"execute", b>>)
<1>1. OnCsi(q, b) \in {executed, digit, separator, marker, Quiet(CsiInter(q, b)),
                       DispatchCsi(q, b), Quiet(EnterGround(q)), ignored}
  <2>1. OnCsi(q, b) =
          CASE IsC0(b) -> executed
            [] IsDigit(b) /\ MayTakeParam(q) -> digit
            [] IsSeparator(b) /\ MayTakeParam(q) -> separator
            [] IsPrivateMarker(b) /\ q.state = "CsiEntry" -> marker
            [] IsIntermediate(b) /\ q.state # "CsiIgnore" -> Quiet(CsiInter(q, b))
            [] IsCsiFinal(b) /\ q.state # "CsiIgnore" -> DispatchCsi(q, b)
            [] IsCsiFinal(b) /\ q.state = "CsiIgnore" -> Quiet(EnterGround(q))
            [] OTHER -> ignored
    BY Zenon DEF OnCsi
  <2> HIDE DEF digit, separator, marker, ignored, executed
  <2> QED
    BY <2>1
<1>2. Aside(q, executed)
  BY FirstOfCall, AsideQuiet
<1>3. Aside(q, digit) /\ Aside(q, separator) /\ Aside(q, marker) /\ Aside(q, ignored)
  BY ParamsKeep, AsideQuiet, Zenon
<1>4. Aside(q, Quiet(CsiInter(q, b))) /\ Aside(q, Quiet(EnterGround(q)))
  BY EntersKeep, AsideQuiet
<1>5. Aside(q, DispatchCsi(q, b))
  <2>1. DispatchCsi(q, b) = Makes(EnterGround(q), DispatchCsi(q, b).call)
    BY DEF DispatchCsi, Makes
  <2>2. DispatchCsi(q, b).call = <<>> \/ DispatchCsi(q, b).call[1] # "put"
    <3>1. \/ DispatchCsi(q, b).call = <<>>
          \/ DispatchCsi(q, b).call = <<"csi", b, q.params, q.intermediates, q.private>>
      BY Zenon DEF DispatchCsi, Makes
    <3>2. <<"csi", b, q.params, q.intermediates, q.private>>[1] = "csi"
      BY FirstOfCall, Zenon
    <3> DEFINE c == DispatchCsi(q, b).call
               d == <<"csi", b, q.params, q.intermediates, q.private>>
    <3>3. d[1] = "csi" /\ (c = <<>> \/ c = d)
      BY <3>1, <3>2, Zenon
    <3> HIDE DEF c, d
    <3>4. c = <<>> \/ c[1] # "put"
      BY <3>3
    <3> QED
      BY <3>4 DEF c
  <2> QED
    <3> DEFINE c == DispatchCsi(q, b).call
               p == EnterGround(q)
    <3>1. p.cp = q.cp /\ p.remaining = q.remaining
      BY EntersKeep
    <3>2. c = <<>> \/ c[1] # "put"
      BY <2>2
    <3>3. DispatchCsi(q, b) = Makes(p, c)
      BY <2>1
    <3> HIDE DEF c, p
    <3>4. Aside(q, Makes(p, c))
      BY <3>1, <3>2, AsideMakes
    <3> QED
      BY <3>3, <3>4
<1> HIDE DEF digit, separator, marker, ignored, executed
<1> QED
  BY <1>1, <1>2, <1>3, <1>4, <1>5

LEMMA OscAside ==
  ASSUME NEW q \in Records, NEW b \in Byte
  PROVE  Aside(q, OnOsc(q, b))
<1>1. OscCall(q) = <<>> \/ OscCall(q)[1] # "put"
  <2>1. <<"osc", q.osc>>[1] = "osc"
    BY FirstOfCall
  <2> QED
    BY <2>1 DEF OscCall
<1>2. Aside(q, Makes(EnterGround(q), OscCall(q))) /\ Aside(q, Makes(EnterEsc(q), OscCall(q)))
  BY <1>1, EntersKeep, AsideMakes
<1>3. CASE b = BEL
  <2>1. OnOsc(q, b) = Makes(EnterGround(q), OscCall(q))
    <3>1. b = BEL /\ b # ESC
      BY <1>3 DEF BEL, ESC
    <3> QED
      BY <3>1, Zenon DEF OnOsc
  <2> QED
    BY <1>2, <2>1
<1>4. CASE b = ESC
  <2>1. OnOsc(q, b) = Makes(EnterEsc(q), OscCall(q))
    <3>1. b = ESC /\ b # BEL
      BY <1>4 DEF BEL, ESC
    <3> QED
      BY <3>1, Zenon DEF OnOsc
  <2> QED
    BY <1>2, <2>1
<1>5. CASE b # BEL /\ b # ESC
  <2> DEFINE p == IF Len(q.osc) < MaxOscLen THEN [q EXCEPT !.osc = Append(@, b)]
                  ELSE [q EXCEPT !.oscOverflow = TRUE]
  <2>1. OnOsc(q, b) = Quiet(p)
    BY <1>5 DEF OnOsc
  <2>2. p.cp = q.cp /\ p.remaining = q.remaining
    BY DEF Records
  <2> HIDE DEF p
  <2> QED
    BY <2>1, <2>2, AsideQuiet
<1> QED
  BY <1>3, <1>4, <1>5

\* Whatever is no text, or stands in a sequence, leaves the character alone.
LEMMA FeedAside ==
  ASSUME NEW q \in Records, NEW b \in Byte, q.state # "Ground" \/ ~IsText(b)
  PROVE  Aside(q, Feed(q, b))
<1>1. CASE b \in {CAN, SUB}
  <2>1. Feed(q, b) = Quiet(EnterGround(q))
    BY <1>1 DEF Feed
  <2> QED
    BY <2>1, EntersKeep, AsideQuiet
<1>2. CASE b \notin {CAN, SUB}
  <2>1. q.state \in States
    BY DEF Records
  <2>2. \/ q.state = "Ground" /\ Feed(q, b) = OnGround(q, b)
        \/ Feed(q, b) \in {OnEsc(q, b), OnCsi(q, b), OnOsc(q, b)}
    BY <1>2 DEF Feed
  <2>3. Aside(q, OnEsc(q, b)) /\ Aside(q, OnCsi(q, b)) /\ Aside(q, OnOsc(q, b))
    BY EscAside, CsiAside, OscAside
  <2> QED
    BY <2>2, <2>3, GroundAside
<1> QED
  BY <1>1, <1>2

\* The bits of a character begun, as far as its bytes have come.
Partial(t) ==
  CASE Len(t) = 1 -> Lead(t[1])[1]
    [] Len(t) = 2 -> 64 * Lead(t[1])[1] + (t[2] % 64)
    [] OTHER -> 4096 * Lead(t[1])[1] + 64 * (t[2] % 64) + (t[3] % 64)

\* The parser q has seen the character t, begun or whole.
TextSeen(q, t) ==
  /\ t \in Seq(Byte)
  /\ t # <<>> => Size(t[1]) > 0 /\ Len(t) <= Size(t[1])
  /\ t = <<>> \/ IsChar(t) => q.remaining = 0
  /\ t # <<>> /\ ~IsChar(t) => q.remaining = Size(t[1]) - Len(t) /\ q.cp = Partial(t)

\* A lead byte is its mark and its bits.
LEMMA SizesAre ==
  ASSUME NEW b \in Byte
  PROVE  /\ b \in 32 .. 126 => Size(b) = 1
         /\ b \in 192 .. 223 => Size(b) = 2 /\ Lead(b) = <<b % 32, 1>>
         /\ b \in 224 .. 239 => Size(b) = 3 /\ Lead(b) = <<b % 16, 2>>
         /\ b \in 240 .. 247 => Size(b) = 4 /\ Lead(b) = <<b % 8, 3>>
         /\ b \notin (32 .. 126) \cup (192 .. 247) => Size(b) = 0 /\ Lead(b) = <<0, 0>>
         /\ Size(b) \in 0 .. 4
         /\ Lead(b) \in (0 .. 31) \X (0 .. 3)
         /\ Size(b) = 2 => Lead(b)[1] = b % 32
         /\ Size(b) = 3 => Lead(b)[1] = b % 16
         /\ Size(b) = 4 => Lead(b)[1] = b % 8
         /\ IsContinuation(b) => b - 128 = b % 64
         /\ b % 64 \in 0 .. 63
<1>0. b \in 0 .. 255
  BY BytesAre
<1>1. b \in 32 .. 126 => Size(b) = 1
  BY <1>0 DEF Size
<1>2. b \in 192 .. 223 => Size(b) = 2 /\ Lead(b) = <<b % 32, 1>>
  <2> SUFFICES ASSUME b \in 192 .. 223 PROVE Size(b) = 2 /\ Lead(b) = <<b % 32, 1>>
    OBVIOUS
  <2>1. b % 32 = b - 192
    OBVIOUS
  <2> QED
    BY <1>0, <2>1 DEF Size, Lead
<1>3. b \in 224 .. 239 => Size(b) = 3 /\ Lead(b) = <<b % 16, 2>>
  <2> SUFFICES ASSUME b \in 224 .. 239 PROVE Size(b) = 3 /\ Lead(b) = <<b % 16, 2>>
    OBVIOUS
  <2>1. b % 16 = b - 224
    OBVIOUS
  <2> QED
    BY <1>0, <2>1 DEF Size, Lead
<1>4. b \in 240 .. 247 => Size(b) = 4 /\ Lead(b) = <<b % 8, 3>>
  <2> SUFFICES ASSUME b \in 240 .. 247 PROVE Size(b) = 4 /\ Lead(b) = <<b % 8, 3>>
    OBVIOUS
  <2>1. b % 8 = b - 240
    OBVIOUS
  <2> QED
    BY <1>0, <2>1 DEF Size, Lead
<1>5. b \notin (32 .. 126) \cup (192 .. 247) => Size(b) = 0 /\ Lead(b) = <<0, 0>>
  BY <1>0 DEF Size, Lead
<1>6. Size(b) \in 0 .. 4
  BY <1>0 DEF Size
<1>7. Lead(b) \in (0 .. 31) \X (0 .. 3)
  BY <1>0 DEF Lead
<1>8. (IsContinuation(b) => b - 128 = b % 64) /\ b % 64 \in 0 .. 63
  BY <1>0 DEF IsContinuation
<1>9. /\ Size(b) = 2 => b \in 192 .. 223
      /\ Size(b) = 3 => b \in 224 .. 239
      /\ Size(b) = 4 => b \in 240 .. 247
  BY <1>0 DEF Size
<1> QED
  BY <1>1, <1>2, <1>3, <1>4, <1>5, <1>6, <1>7, <1>8, <1>9

LEMMA SixBits ==
  /\ \A x \in 0 .. 255 : x % 64 \in 0 .. 63
  /\ \A x \in 0 .. 63 : x \in Int
  /\ \A x \in 0 .. 31 : x \in Int
OBVIOUS

LEMMA CallFields ==
  ASSUME NEW p, NEW c
  PROVE  /\ Quiet(p).parser = p /\ Quiet(p).call = <<>>
         /\ Makes(p, c).parser = p /\ Makes(p, c).call = c
BY DEF Quiet, Makes

\* How many bytes there are before the last.
LEMMA Shorter ==
  ASSUME NEW n \in Nat, NEW z \in 0 .. 4, n # 0, n < z
  PROVE  \/ n = 1 /\ z \in {2, 3, 4}
         \/ n = 2 /\ z \in {3, 4}
         \/ n = 3 /\ z = 4
<1>1. z = 0 \/ z = 1 \/ z = 2 \/ z = 3 \/ z = 4
  OBVIOUS
<1> QED
  BY <1>1

LEMMA OneByte ==
  ASSUME NEW b \in Byte
  PROVE  <<b>> \in Seq(Byte) /\ <<b>> # <<>> /\ Len(<<b>>) = 1 /\ <<b>>[1] = b
OBVIOUS

\* A character that is one byte long is shown at once.
LEMMA AsciiShown ==
  ASSUME NEW q \in Records, NEW b \in 32 .. 126, b \in Byte
  PROVE  /\ TextSeen(OnAscii(q, b).parser, <<b>>) /\ IsChar(<<b>>)
         /\ OnAscii(q, b).call = <<"put", CodePoint(<<b>>)>>
<1> DEFINE t == <<b>>
           p == OnAscii(q, b).parser
<1>1. t \in Seq(Byte) /\ t # <<>> /\ Len(t) = 1 /\ t[1] = b /\ Size(b) = 1
  BY OneByte, SizesAre
<1>2. p.remaining = 0 /\ OnAscii(q, b).call = <<"put", b>>
  BY DEF OnAscii, Makes, Records
<1> HIDE DEF t, p
<1>3. IsChar(t) /\ CodePoint(t) = b
  BY <1>1 DEF IsChar, CodePoint
<1>4. TextSeen(p, t)
  BY <1>1, <1>2, <1>3 DEF TextSeen
<1> QED
  BY <1>2, <1>3, <1>4 DEF t, p

\* The first byte of a longer one waits for the others; other bytes begin none.
LEMMA LeadFields ==
  ASSUME NEW q \in Records, NEW b
  PROVE  /\ OnLead(q, b).parser.cp = Lead(b)[1]
         /\ OnLead(q, b).parser.remaining = Lead(b)[2]
         /\ OnLead(q, b).call = <<>>
BY DEF OnLead, Quiet, Records

LEMMA LeadBegins ==
  ASSUME NEW q \in Records, NEW b \in Byte, b \in 192 .. 247
  PROVE  /\ TextSeen(OnLead(q, b).parser, <<b>>) /\ ~IsChar(<<b>>)
         /\ Size(b) > 0
<1> DEFINE p == OnLead(q, b).parser
           t == <<b>>
<1>1. p.cp = Lead(b)[1] /\ p.remaining = Lead(b)[2]
  BY LeadFields
<1>2. t \in Seq(Byte) /\ t # <<>> /\ Len(t) = 1 /\ t[1] = b
  BY OneByte
<1> HIDE DEF p, t
<1>3. (Size(b) = 2 \/ Size(b) = 3 \/ Size(b) = 4) /\ Lead(b)[2] = Size(b) - 1
  BY SizesAre
<1>4. ~IsChar(t)
  BY <1>2, <1>3 DEF IsChar
<1>5. Partial(t) = Lead(b)[1]
  BY <1>2 DEF Partial
<1>6. TextSeen(p, t)
  BY <1>1, <1>2, <1>3, <1>4, <1>5 DEF TextSeen
<1> QED
  BY <1>3, <1>4, <1>6 DEF p, t

LEMMA LeadOfNone ==
  ASSUME NEW q \in Records, NEW b \in Byte, b \notin 32 .. 126, b \notin 192 .. 247
  PROVE  /\ TextSeen(OnLead(q, b).parser, <<>>) /\ ~IsChar(<<>>)
         /\ ~(Size(b) > 0)
<1> DEFINE p == OnLead(q, b).parser
           t == <<>>
<1>1. Size(b) = 0 /\ Lead(b) = <<0, 0>>
  BY SizesAre
<1>2. p.remaining = 0
  <2>1. p.remaining = Lead(b)[2]
    BY LeadFields
  <2>2. Lead(b)[2] = 0
    BY <1>1
  <2> QED
    BY <2>1, <2>2
<1>3. t \in Seq(Byte) /\ t = <<>>
  OBVIOUS
<1> HIDE DEF p, t
<1>4. TextSeen(p, t) /\ ~IsChar(t)
  BY <1>2, <1>3 DEF TextSeen, IsChar
<1> QED
  BY <1>1, <1>4 DEF p, t

\* Six bits more.
LEMMA BitsAdded ==
  ASSUME NEW s \in Seq(Byte), NEW b \in Byte, NEW t, OneMore(s, b, t), s # <<>>,
         Len(s) < Size(s[1]), IsContinuation(b)
  PROVE  /\ Len(t) = Size(t[1]) => CodePoint(t) = 64 * Partial(s) + (b % 64)
         /\ Len(t) # Size(t[1]) => Partial(t) = 64 * Partial(s) + (b % 64)
<1>1. /\ t \in Seq(Byte) /\ Len(t) = Len(s) + 1 /\ Len(s) \in Nat /\ t[Len(s) + 1] = b
      /\ \A i \in 1 .. Len(s) : t[i] = s[i]
  BY OneByteMore
<1>2. Len(s) # 0
  OBVIOUS
<1> DEFINE n == Len(s)
           z == Size(s[1])
           l == Lead(s[1])[1]
<1>3. n \in Nat \ {0} /\ Len(t) = n + 1 /\ t[n + 1] = b /\ 1 \in 1 .. n
  BY <1>1, <1>2
<1>4. s[1] \in Byte /\ t[1] = s[1]
  BY <1>1, <1>3
<1>5. z \in 0 .. 4 /\ l \in 0 .. 31 /\ b % 64 \in 0 .. 63
  BY <1>4, SizesAre
<1>6. /\ z = 2 => l = t[1] % 32
      /\ z = 3 => l = t[1] % 16
      /\ z = 4 => l = t[1] % 8
  <2> DEFINE a == s[1]
  <2>1. a \in Byte /\ t[1] = a
    BY <1>4
  <2> HIDE DEF a
  <2>2. /\ Size(a) = 2 => Lead(a)[1] = a % 32
        /\ Size(a) = 3 => Lead(a)[1] = a % 16
        /\ Size(a) = 4 => Lead(a)[1] = a % 8
    BY <2>1, SizesAre
  <2> QED
    BY <2>1, <2>2 DEF a
<1>7. n < z
  OBVIOUS
<1>8. /\ n >= 2 => t[2] = s[2] /\ s[2] \in 0 .. 255
      /\ n >= 3 => t[3] = s[3] /\ s[3] \in 0 .. 255
  <2>1. /\ n >= 2 => 2 \in 1 .. n
        /\ n >= 3 => 3 \in 1 .. n
    BY <1>3
  <2>2. \A i \in 1 .. n : t[i] = s[i] /\ s[i] \in Byte
    BY <1>1
  <2>3. /\ n >= 2 => t[2] = s[2] /\ s[2] \in Byte
        /\ n >= 3 => t[3] = s[3] /\ s[3] \in Byte
    BY <2>1, <2>2, Zenon
  <2> QED
    BY <2>3, BytesAre, Zenon
<1>9. \/ n = 1 /\ z \in {2, 3, 4}
      \/ n = 2 /\ z \in {3, 4}
      \/ n = 3 /\ z = 4
  <2>1. n \in Nat /\ n # 0 /\ z \in 0 .. 4 /\ n < z
    BY <1>3, <1>5, <1>7
  <2> HIDE DEF n, z
  <2> QED
    BY <2>1, Shorter
<1>10. Size(t[1]) = z /\ Lead(t[1])[1] = l
  BY <1>4
<1>11. CASE n = 1
  <2>1. Partial(s) = l /\ t[2] = b /\ Len(t) = 2
    BY <1>3, <1>11 DEF Partial
  <2>2. Partial(t) = 64 * l + (b % 64)
    BY <1>10, <2>1 DEF Partial
  <2>3. z = 2 => CodePoint(t) = 64 * l + (b % 64)
    BY <1>6, <2>1 DEF CodePoint
  <2> QED
    BY <1>10, <2>1, <2>2, <2>3
<1>12. CASE n = 2
  <2>1. Partial(s) = 64 * l + (s[2] % 64) /\ t[3] = b /\ Len(t) = 3 /\ t[2] = s[2]
    BY <1>3, <1>8, <1>12 DEF Partial
  <2>2. Partial(t) = 4096 * l + 64 * (s[2] % 64) + (b % 64)
    BY <1>10, <2>1 DEF Partial
  <2>3. z = 3 => CodePoint(t) = 4096 * l + 64 * (s[2] % 64) + (b % 64)
    BY <1>6, <2>1 DEF CodePoint
  <2>4. s[2] % 64 \in 0 .. 63
    <3>1. s[2] \in 0 .. 255
      BY <1>8, <1>12
    <3> QED
      BY <3>1, SixBits, Zenon
  <2>5. 64 * Partial(s) + (b % 64) = 4096 * l + 64 * (s[2] % 64) + (b % 64)
    <3> DEFINE x == s[2] % 64
               y == b % 64
    <3>1. x \in Int /\ y \in Int /\ l \in Int
      BY <1>5, <2>4, SixBits, Zenon
    <3>2. Partial(s) = 64 * l + x
      BY <2>1
    <3> HIDE DEF x, y, l
    <3>3. 64 * Partial(s) + y = 4096 * l + 64 * x + y
      BY ONLY <3>1, <3>2
    <3> QED
      BY <3>3 DEF x, y
  <2> QED
    BY <1>10, <2>1, <2>2, <2>3, <2>5
<1>13. CASE n = 3
  <2>1. /\ Partial(s) = 4096 * l + 64 * (s[2] % 64) + (s[3] % 64)
        /\ t[4] = b /\ Len(t) = 4 /\ t[2] = s[2] /\ t[3] = s[3]
    BY <1>3, <1>8, <1>13 DEF Partial
  <2>2. z = 4
    BY <1>9, <1>13
  <2>3. CodePoint(t) = 262144 * l + 4096 * (s[2] % 64) + 64 * (s[3] % 64) + (b % 64)
    BY <1>6, <2>1, <2>2 DEF CodePoint
  <2>4. s[2] % 64 \in 0 .. 63 /\ s[3] % 64 \in 0 .. 63
    <3>1. s[2] \in 0 .. 255 /\ s[3] \in 0 .. 255
      BY <1>8, <1>13
    <3> QED
      BY <3>1, SixBits, Zenon
  <2>5. 64 * Partial(s) + (b % 64) =
          262144 * l + 4096 * (s[2] % 64) + 64 * (s[3] % 64) + (b % 64)
    <3> DEFINE x == s[2] % 64
               v == s[3] % 64
               y == b % 64
    <3>1. x \in Int /\ v \in Int /\ y \in Int /\ l \in Int
      BY <1>5, <2>4, SixBits, Zenon
    <3>2. Partial(s) = 4096 * l + 64 * x + v
      BY <2>1
    <3> HIDE DEF x, v, y, l
    <3>3. 64 * Partial(s) + y = 262144 * l + 4096 * x + 64 * v + y
      BY ONLY <3>1, <3>2
    <3> QED
      BY <3>3 DEF x, v, y
  <2> QED
    BY <1>10, <2>1, <2>2, <2>3, <2>5
<1> QED
  BY <1>9, <1>11, <1>12, <1>13

\* A byte that continues the character begun; the last one shows it.
LEMMA ContinuationTaken ==
  ASSUME NEW q \in Records, NEW s \in Seq(Byte), NEW b \in Byte, NEW t, OneMore(s, b, t),
         TextSeen(q, s), s # <<>>, ~IsChar(s), IsContinuation(b)
  PROVE  /\ q.remaining > 0
         /\ TextSeen(OnContinuation(q, b).parser, t)
         /\ OnContinuation(q, b).call =
              IF IsChar(t) THEN <<"put", CodePoint(t)>> ELSE <<>>
<1>1. /\ t \in Seq(Byte) /\ Len(t) = Len(s) + 1 /\ Len(s) \in Nat /\ t[Len(s) + 1] = b
      /\ \A i \in 1 .. Len(s) : t[i] = s[i]
  BY OneByteMore
<1>2. Len(s) # 0 /\ t # <<>>
  BY <1>1
<1>3. s[1] \in Byte /\ t[1] = s[1]
  <2>1. 1 \in 1 .. Len(s)
    BY <1>1, <1>2
  <2> QED
    BY <1>1, <2>1
<1> DEFINE n == Len(s)
           z == Size(s[1])
           p == OnContinuation(q, b).parser
           cp == 64 * q.cp + (b - 128)
<1>4. /\ q.remaining = z - n /\ q.cp = Partial(s) /\ z > 0 /\ n <= z
  BY DEF TextSeen
<1>5. z \in 0 .. 4 /\ b - 128 = b % 64
  BY <1>3, SizesAre
<1>6. n # z
  BY DEF IsChar
<1>7. n < z /\ q.remaining > 0
  <2>1. n \in Nat
    BY <1>1
  <2> HIDE DEF n, z
  <2> QED
    BY <1>4, <1>5, <1>6, <2>1
<1>8. /\ Len(t) = z => CodePoint(t) = cp
      /\ Len(t) # z => Partial(t) = cp
  BY <1>3, <1>4, <1>5, <1>7, BitsAdded
<1>9. IsChar(t) <=> Len(t) = z
  BY <1>2, <1>3 DEF IsChar
<1>10. Len(t) = z <=> q.remaining = 1
  <2>1. n \in Nat /\ Len(t) = n + 1
    BY <1>1
  <2> HIDE DEF n, z
  <2> QED
    BY <1>4, <1>5, <2>1
<1>11. Size(t[1]) > 0 /\ Len(t) <= Size(t[1])
  <2>1. n \in Nat /\ Len(t) = n + 1 /\ Size(t[1]) = z
    BY <1>1, <1>3
  <2> HIDE DEF n, z
  <2> QED
    BY <1>4, <1>5, <1>7, <2>1
<1>12. CASE q.remaining = 1
  <2>1. OnContinuation(q, b) = Makes([q EXCEPT !.cp = 0, !.remaining = 0], <<"put", cp>>)
    BY <1>12 DEF OnContinuation
  <2> HIDE DEF cp
  <2>2. p.remaining = 0 /\ OnContinuation(q, b).call = <<"put", cp>>
    <3> DEFINE x == [q EXCEPT !.cp = 0, !.remaining = 0]
               c == <<"put", cp>>
    <3>1. x.remaining = 0
      BY DEF Records
    <3>2. OnContinuation(q, b) = Makes(x, c)
      BY <2>1
    <3> HIDE DEF x, c
    <3>3. p = x /\ OnContinuation(q, b).call = c
      BY <3>2, CallFields
    <3> QED
      BY <3>1, <3>3 DEF c
  <2> HIDE DEF p
  <2>3. IsChar(t) /\ CodePoint(t) = cp
    BY <1>8, <1>9, <1>10, <1>12
  <2>4. TextSeen(p, t)
    BY <1>1, <1>11, <2>2, <2>3 DEF TextSeen
  <2> QED
    BY <1>7, <2>2, <2>3, <2>4 DEF p
<1>13. CASE q.remaining # 1
  <2>1. OnContinuation(q, b) = Quiet([q EXCEPT !.cp = cp, !.remaining = @ - 1])
    BY <1>13 DEF OnContinuation
  <2> HIDE DEF cp
  <2>2. /\ p.remaining = q.remaining - 1 /\ p.cp = cp
        /\ OnContinuation(q, b).call = <<>>
    <3> DEFINE x == [q EXCEPT !.cp = cp, !.remaining = @ - 1]
    <3>1. x.remaining = q.remaining - 1 /\ x.cp = cp
      BY DEF Records
    <3>2. OnContinuation(q, b) = Quiet(x)
      BY <2>1
    <3> HIDE DEF x
    <3>3. p = x /\ OnContinuation(q, b).call = <<>>
      BY <3>2, CallFields
    <3> QED
      BY <3>1, <3>3
  <2> HIDE DEF p
  <2>3. ~IsChar(t) /\ Partial(t) = cp
    BY <1>8, <1>9, <1>10, <1>13
  <2>4. p.remaining = Size(t[1]) - Len(t)
    <3>1. n \in Nat /\ Len(t) = n + 1 /\ Size(t[1]) = z
      BY <1>1, <1>3
    <3> HIDE DEF n, z
    <3> QED
      BY <1>4, <1>5, <2>2, <3>1
  <2>5. TextSeen(p, t)
    BY <1>1, <1>2, <1>11, <2>2, <2>3, <2>4 DEF TextSeen
  <2> QED
    BY <1>7, <2>2, <2>3, <2>5 DEF p
<1> QED
  BY <1>12, <1>13

\* The bytes t of the character after b has come as a byte of text.
Follows(s, b, t) ==
  t = IF s # <<>> /\ ~IsChar(s) /\ IsContinuation(b) THEN Append(s, b)
      ELSE IF Size(b) > 0 THEN <<b>> ELSE <<>>

\* A byte of text, where no sequence is begun.
LEMMA TextTaken ==
  ASSUME NEW q \in Records, NEW s, NEW b \in Byte, TextSeen(q, s), IsText(b),
         NEW t, Follows(s, b, t)
  PROVE  /\ TextSeen(OnGround(q, b).parser, t)
         /\ OnGround(q, b).call = IF IsChar(t) THEN <<"put", CodePoint(t)>> ELSE <<>>
<1>1. b \in 32 .. 255 /\ b # 127 /\ b # ESC /\ ~IsC0(b)
  BY BytesAre DEF IsText, ESC, IsC0
<1>2. CASE b \in 32 .. 126
  <2>1. ~IsContinuation(b) /\ Size(b) = 1
    BY <1>2, SizesAre DEF IsContinuation
  <2>2. OnGround(q, b) = OnAscii(q, b)
    BY <1>1, <1>2, <2>1, Zenon DEF OnGround
  <2>3. t = <<b>>
    BY <2>1 DEF Follows
  <2> QED
    BY <1>2, <2>2, <2>3, AsciiShown
<1>3. CASE b \notin 32 .. 126 /\ s # <<>> /\ ~IsChar(s) /\ IsContinuation(b)
  <2>1. s \in Seq(Byte) /\ OneMore(s, b, t)
    BY <1>3 DEF TextSeen, OneMore, Follows
  <2>2. /\ q.remaining > 0
        /\ TextSeen(OnContinuation(q, b).parser, t)
        /\ OnContinuation(q, b).call =
             IF IsChar(t) THEN <<"put", CodePoint(t)>> ELSE <<>>
    BY <1>3, <2>1, ContinuationTaken
  <2>3. OnGround(q, b) = OnContinuation(q, b)
    <3>1. b \notin 32 .. 126 /\ IsContinuation(b)
      BY <1>3
    <3>2. b # ESC /\ ~IsC0(b) /\ b # 127
      BY <1>1
    <3> QED
      BY <2>2, <3>1, <3>2, Zenon DEF OnGround
  <2> QED
    BY <2>2, <2>3
<1>4. CASE b \notin 32 .. 126 /\ ~(s # <<>> /\ ~IsChar(s) /\ IsContinuation(b))
  <2>1. t = IF Size(b) > 0 THEN <<b>> ELSE <<>>
    BY <1>4 DEF Follows
  <2>2. ~(IsContinuation(b) /\ q.remaining > 0)
    <3>1. IsContinuation(b) => q.remaining = 0
      BY <1>4 DEF TextSeen
    <3> QED
      BY <3>1
  <2>3. OnGround(q, b) = OnLead(q, b)
    <3>1. b \notin 32 .. 126
      BY <1>4
    <3>2. b # ESC /\ ~IsC0(b) /\ b # 127
      BY <1>1
    <3> QED
      BY <2>2, <3>1, <3>2, Zenon DEF OnGround
  <2>4. OnLead(q, b).call = <<>>
    BY LeadFields
  <2>5. CASE b \in 192 .. 247
    <3>1. TextSeen(OnLead(q, b).parser, <<b>>) /\ ~IsChar(<<b>>) /\ Size(b) > 0
      BY <2>5, LeadBegins
    <3>2. t = <<b>>
      BY <2>1, <3>1
    <3> QED
      BY <2>3, <2>4, <3>1, <3>2, Zenon
  <2>6. CASE b \notin 192 .. 247
    <3>1. TextSeen(OnLead(q, b).parser, <<>>) /\ ~IsChar(<<>>) /\ ~(Size(b) > 0)
      BY <1>4, <2>6, LeadOfNone
    <3>2. t = <<>>
      BY <2>1, <3>1
    <3> QED
      BY <2>3, <2>4, <3>1, <3>2, Zenon
  <2> QED
    BY <2>5, <2>6
<1> QED
  BY <1>2, <1>3, <1>4

\* And so it is taken by feed().
LEMMA TextStep ==
  ASSUME NEW q \in Records, NEW s, NEW b \in Byte, TextSeen(q, s), IsText(b),
         q.state = "Ground", NEW t, Follows(s, b, t)
  PROVE  /\ TextSeen(Feed(q, b).parser, t)
         /\ Feed(q, b).call = IF IsChar(t) THEN <<"put", CodePoint(t)>> ELSE <<>>
<1>1. b \notin {CAN, SUB}
  BY BytesAre DEF IsText, CAN, SUB
<1>2. Feed(q, b) = OnGround(q, b)
  BY <1>1 DEF Feed, EscStates, CsiStates
<1> QED
  BY <1>2, TextTaken

\* Whatever is aside of the text leaves it as it is; a whole one is done with.
LEMMA TextAside ==
  ASSUME NEW q, NEW s, TextSeen(q, s), NEW p, p.cp = q.cp, p.remaining = q.remaining,
         NEW t, t = IF IsChar(s) THEN <<>> ELSE s
  PROVE  TextSeen(p, t) /\ ~IsChar(t)
<1>1. <<>> \in Seq(Byte) /\ ~IsChar(<<>>)
  BY DEF IsChar
<1> QED
  BY <1>1 DEF TextSeen

-----------------------------------------------------------------------------
(* After every byte it has seen all of it. *)

\* What is written, s2 and l2 after the byte b, as Watch(b) has it when b does
\* not lead astray.
Watched(s, b, s2, l2) ==
  CASE b \in {CAN, SUB} -> s2 = <<>> /\ l2 = <<>>
    [] b \notin {CAN, SUB} /\ s # <<>> ->
         IF IsExecuted(s, b) THEN s2 = s /\ l2 = <<>>
         ELSE IF Ends(s, b)
              THEN /\ l2 = Append(s, b)
                   /\ s2 = IF b = ESC THEN <<ESC>> ELSE <<>>
              ELSE l2 = <<>> /\ s2 = Append(s, b)
    [] OTHER -> s2 = (IF b = ESC THEN <<ESC>> ELSE <<>>) /\ l2 = <<>>

\* In the ground state a byte shows, is executed, or begins a sequence.
LEMMA GroundStays ==
  ASSUME NEW q \in Records, q.state = "Ground", NEW b \in Byte
  PROVE  /\ b = ESC => OnGround(q, b) = Quiet(EnterEsc(q))
         /\ b # ESC => OnGround(q, b).parser.state = "Ground"
         /\ \/ OnGround(q, b).call = <<>>
            \/ OnGround(q, b).call[1] \in {"put", "execute"}
<1>1. CASE b = ESC
  <2>1. OnGround(q, b) = Quiet(EnterEsc(q))
    BY <1>1 DEF OnGround, IsC0, IsContinuation, ESC
  <2> QED
    BY <1>1, <2>1, CallFields
<1>2. CASE b # ESC
  <2> DEFINE cp == 64 * q.cp + (b - 128)
             whole == [q EXCEPT !.cp = 0, !.remaining = 0]
             part == [q EXCEPT !.cp = cp, !.remaining = @ - 1]
             lead == [q EXCEPT !.cp = Lead(b)[1], !.remaining = Lead(b)[2]]
  <2>1. OnGround(q, b) \in {Makes(q, <<"execute", b>>), Quiet(q), OnAscii(q, b),
                            OnContinuation(q, b), OnLead(q, b)}
    BY <1>2 DEF OnGround
  <2>2. OnAscii(q, b) \in {Makes(whole, <<"put", b>>), Makes(q, <<"put", b>>)}
    BY DEF OnAscii
  <2>3. OnContinuation(q, b) \in {Makes(whole, <<"put", cp>>), Quiet(part)}
    BY DEF OnContinuation
  <2>4. OnLead(q, b) = Quiet(lead)
    BY DEF OnLead
  <2>5. whole.state = "Ground" /\ part.state = "Ground" /\ lead.state = "Ground"
    <3> HIDE DEF cp
    <3> QED
      BY DEF Records
  <2>6. /\ <<"execute", b>>[1] = "execute" /\ <<"put", b>>[1] = "put"
        /\ <<"put", cp>>[1] = "put"
    BY FirstOfCall
  <2> DEFINE Fine(r) == /\ r.parser.state = "Ground"
                        /\ r.call = <<>> \/ r.call[1] \in {"put", "execute"}
  <2> HIDE DEF cp, whole, part, lead
  <2>7. Fine(Makes(q, <<"execute", b>>)) /\ Fine(Quiet(q))
    BY <2>6, CallFields
  <2>8. Fine(Makes(whole, <<"put", b>>)) /\ Fine(Makes(q, <<"put", b>>))
    BY <2>5, <2>6, CallFields
  <2>9. Fine(Makes(whole, <<"put", cp>>)) /\ Fine(Quiet(part)) /\ Fine(Quiet(lead))
    BY <2>5, <2>6, CallFields
  <2> HIDE DEF Fine
  <2>10. Fine(OnGround(q, b))
    BY <2>1, <2>2, <2>3, <2>4, <2>7, <2>8, <2>9
  <2> QED
    BY <1>2, <2>10 DEF Fine
<1> QED
  BY <1>1, <1>2

\* What is said of the sequences is true of them after one more byte.
LEMMA SequencesWatched ==
  ASSUME NEW q \in Records, NEW b \in Byte, NEW s, SequenceSeen(q, s),
         NEW s2, NEW l2, Watched(s, b, s2, l2), s = <<>> \/ InOsc(s) \/ b # ESC
  PROVE  /\ SequenceSeen(Feed(q, b).parser, s2)
         /\ IF l2 # <<>> THEN Feed(q, b).call = Written(l2)
            ELSE \/ Feed(q, b).call = <<>>
                 \/ Feed(q, b).call[1] \in {"put", "execute"}
<1>1. CASE b \in {CAN, SUB}
  <2>1. s2 = <<>> /\ l2 = <<>>
    BY <1>1 DEF Watched
  <2>2. Feed(q, b) = Quiet(EnterGround(q))
    BY <1>1 DEF Feed
  <2>3. EnterGround(q).state = "Ground"
    BY DEF EnterGround, Records
  <2> QED
    BY <2>1, <2>2, <2>3, CallFields, NoneSeen
<1>2. CASE b \notin {CAN, SUB} /\ s = <<>>
  <2>1. s2 = (IF b = ESC THEN <<ESC>> ELSE <<>>) /\ l2 = <<>>
    BY <1>2 DEF Watched
  <2>2. q.state = "Ground"
    BY <1>2 DEF SequenceSeen
  <2>3. Feed(q, b) = OnGround(q, b)
    BY <1>2, <2>2 DEF Feed, EscStates, CsiStates
  <2>4. \/ Feed(q, b).call = <<>>
        \/ Feed(q, b).call[1] \in {"put", "execute"}
    BY <2>2, <2>3, GroundStays
  <2>5. SequenceSeen(Feed(q, b).parser, s2)
    <3>1. CASE b = ESC
      <4>1. Feed(q, b).parser = EnterEsc(q) /\ s2 = <<ESC>>
        BY <2>1, <2>2, <2>3, <3>1, GroundStays, CallFields
      <4>2. ESC \in Byte
        BY <3>1
      <4> QED
        BY <4>1, <4>2, EscapeSeen
    <3>2. CASE b # ESC
      <4>1. Feed(q, b).parser.state = "Ground" /\ s2 = <<>>
        BY <2>1, <2>2, <2>3, <3>2, GroundStays
      <4> QED
        BY <4>1, NoneSeen
    <3> QED
      BY <3>1, <3>2
  <2> QED
    BY <2>1, <2>4, <2>5
<1>3. CASE b \notin {CAN, SUB} /\ s # <<>>
  <2> DEFINE t == Append(s, b)
  <2>1. s \in Seq(Byte)
    BY DEF SequenceSeen
  <2>2. OneMore(s, b, t) /\ t # <<>>
    <3>1. OneMore(s, b, t)
      BY DEF OneMore
    <3> HIDE DEF t
    <3> QED
      BY <2>1, <3>1, MarkerStays
  <2>3. /\ IsExecuted(s, b) => s2 = s /\ l2 = <<>>
        /\ ~IsExecuted(s, b) /\ Ends(s, b) =>
             l2 = t /\ s2 = IF b = ESC THEN <<ESC>> ELSE <<>>
        /\ ~IsExecuted(s, b) /\ ~Ends(s, b) => l2 = <<>> /\ s2 = t
    BY <1>3, Zenon DEF Watched
  <2> HIDE DEF t
  <2>4. /\ IsExecuted(s, b) => Feed(q, b) = Makes(q, <<"execute", b>>)
        /\ ~IsExecuted(s, b) /\ Ends(s, b) =>
             /\ Feed(q, b).call = Written(t)
             /\ b # ESC => Feed(q, b).parser.state = "Ground"
             /\ b = ESC => Feed(q, b).parser = EnterEsc(q)
        /\ ~IsExecuted(s, b) /\ ~Ends(s, b) =>
             SequenceSeen(Feed(q, b).parser, t) /\ Feed(q, b).call = <<>>
    BY <1>3, <2>1, <2>2, SequenceStep
  <2>5. CASE IsExecuted(s, b)
    <3>1. Feed(q, b).parser = q /\ Feed(q, b).call = <<"execute", b>>
      BY <2>4, <2>5, CallFields
    <3>2. <<"execute", b>>[1] = "execute"
      BY FirstOfCall
    <3> QED
      BY <2>3, <2>5, <3>1, <3>2
  <2>6. CASE ~IsExecuted(s, b) /\ Ends(s, b)
    <3>1. l2 = t /\ Feed(q, b).call = Written(t)
      BY <2>3, <2>4, <2>6
    <3>2. CASE b = ESC
      <4>1. Feed(q, b).parser = EnterEsc(q) /\ s2 = <<ESC>> /\ ESC \in Byte
        BY <2>3, <2>4, <2>6, <3>2
      <4> QED
        BY <2>2, <3>1, <4>1, EscapeSeen
    <3>3. CASE b # ESC
      <4>1. Feed(q, b).parser.state = "Ground" /\ s2 = <<>>
        BY <2>3, <2>4, <2>6, <3>3
      <4> QED
        BY <2>2, <3>1, <4>1, NoneSeen
    <3> QED
      BY <3>2, <3>3
  <2>7. CASE ~IsExecuted(s, b) /\ ~Ends(s, b)
    BY <2>3, <2>4, <2>7
  <2> QED
    BY <2>5, <2>6, <2>7
<1> QED
  BY <1>1, <1>2, <1>3

\* The same for the characters.
LEMMA TextWatched ==
  ASSUME NEW q \in Records, NEW b \in Byte, NEW s, SequenceSeen(q, s),
         NEW c, TextSeen(q, c), NEW c2,
         IF s = <<>> /\ IsText(b) THEN Follows(c, b, c2)
         ELSE c2 = IF IsChar(c) THEN <<>> ELSE c
  PROVE  /\ TextSeen(Feed(q, b).parser, c2)
         /\ IF IsChar(c2) THEN Feed(q, b).call = <<"put", CodePoint(c2)>>
            ELSE Feed(q, b).call = <<>> \/ Feed(q, b).call[1] # "put"
<1>1. CASE s = <<>> /\ IsText(b)
  <2>1. q.state = "Ground"
    BY <1>1 DEF SequenceSeen
  <2>2. Follows(c, b, c2)
    BY <1>1
  <2>3. /\ TextSeen(Feed(q, b).parser, c2)
        /\ Feed(q, b).call = IF IsChar(c2) THEN <<"put", CodePoint(c2)>> ELSE <<>>
    BY <1>1, <2>1, <2>2, TextStep
  <2> QED
    BY <2>3
<1>2. CASE ~(s = <<>> /\ IsText(b))
  <2>1. q.state # "Ground" \/ ~IsText(b)
    BY <1>2 DEF SequenceSeen
  <2>2. Aside(q, Feed(q, b))
    BY <2>1, FeedAside
  <2>3. c2 = IF IsChar(c) THEN <<>> ELSE c
    BY <1>2
  <2> DEFINE p == Feed(q, b).parser
  <2>4. p.cp = q.cp /\ p.remaining = q.remaining
    BY <2>2 DEF Aside
  <2> HIDE DEF p
  <2>5. TextSeen(p, c2) /\ ~IsChar(c2)
    BY <2>3, <2>4, TextAside
  <2> QED
    BY <2>2, <2>5 DEF Aside, p
<1> QED
  BY <1>1, <1>2

\* Where both are at rest the parser has seen all there is.
LEMMA AtRestSeen ==
  ASSUME AtRest, text \in Seq(Byte)
  PROVE  SequenceSeen(parser, seq) /\ TextSeen(parser, text)
<1>1. seq = <<>> /\ parser.state = "Ground" /\ parser.remaining = 0
  BY DEF AtRest
<1>2. SequenceSeen(parser, seq)
  BY <1>1, NoneSeen
<1>3. text # <<>> => IsChar(text) /\ Len(text) = Size(text[1]) /\ Len(text) > 0
  BY DEF AtRest, IsChar
<1> QED
  BY <1>1, <1>2, <1>3 DEF TextSeen

(* The sink hears exactly what the stream says: after every byte the parser *)
(* has reported the control function or the character that this byte has    *)
(* completed, as the whole of its bytes writes it, and nothing else, for    *)
(* every set of bytes, every size of the arrays and sequences of any length, *)
(* until an ESC or a DEL comes within a sequence, and again from the first   *)
(* byte after a moment at which the parser and the stream are both at rest. *)
THEOREM SaysWhatIsWritten == HistSpec => []CallsAsWritten
<1> DEFINE Seen == SequenceSeen(parser, seq) /\ TextSeen(parser, text)
           Inv == /\ WithinArrays(parser) /\ text \in Seq(Byte)
                  /\ ~astray => Seen
                  /\ CallsAsWritten
<1>1. HistInit => Inv
  <2> SUFFICES ASSUME HistInit PROVE Inv
    OBVIOUS
  <2>1. parser = Fresh /\ seq = <<>> /\ last = <<>> /\ text = <<>> /\ call = <<>>
    BY DEF HistInit, ParserInit
  <2>2. Fresh.state = "Ground" /\ Fresh.remaining = 0
    BY DEF Fresh
  <2>3. WithinArrays(parser) /\ text \in Seq(Byte) /\ ~IsChar(text)
    BY <2>1, FreshWithin DEF IsChar
  <2>4. Seen
    BY <2>1, <2>2, <2>3, AtRestSeen DEF AtRest
  <2>5. CallsAsWritten
    BY <2>1, <2>3 DEF CallsAsWritten, EveryCallAsWritten, DispatchedAsWritten,
                      ShownAsEncoded, IsEncoding
  <2> QED
    BY <2>3, <2>4, <2>5
<1>2. Inv /\ [HistNext]_<<parserVars, histVars>> => Inv'
  <2>1. ASSUME Inv, NEW b \in Byte, Read(b), Watch(b)
        PROVE  Inv'
    <3>1. parser' = Feed(parser, b).parser /\ call' = Feed(parser, b).call
      BY <2>1 DEF Read, Watch
    <3>2. parser \in Records
      BY <2>1 DEF WithinArrays
    <3>3. WithinArrays(parser')
      BY <2>1, <3>1, FeedWithin
    <3>4. IF seq = <<>> /\ IsText(b) THEN Follows(text, b, text')
          ELSE text' = IF IsChar(text) THEN <<>> ELSE text
      BY <2>1 DEF Watch, InText, Follows
    <3>5. text' \in Seq(Byte)
      <4>1. text \in Seq(Byte) /\ <<b>> \in Seq(Byte) /\ <<>> \in Seq(Byte)
        BY <2>1
      <4>2. Append(text, b) \in Seq(Byte)
        BY <4>1
      <4>3. text' \in {Append(text, b), <<b>>, <<>>, text}
        BY <3>4 DEF Follows
      <4> QED
        BY <4>1, <4>2, <4>3
    <3>6. CASE astray'
      BY <3>3, <3>5, <3>6 DEF CallsAsWritten
    <3>7. CASE ~astray'
      <4>1. ~LeadsAstray(b) /\ (~astray \/ AtRest)
        BY <2>1, <3>7 DEF Watch
      <4>2. Seen
        BY <2>1, <4>1, AtRestSeen
      <4>3. Watched(seq, b, seq', last')
        <5>1. CASE b \in {CAN, SUB}
          BY <2>1, <5>1 DEF Watch, Watched
        <5>2. CASE b \notin {CAN, SUB} /\ seq # <<>>
          BY <2>1, <4>1, <5>2 DEF Watch, Watched, InSequence
        <5>3. CASE b \notin {CAN, SUB} /\ seq = <<>>
          BY <2>1, <5>3 DEF Watch, Watched
        <5> QED
          BY <5>1, <5>2, <5>3
      <4>4. seq = <<>> \/ InOsc(seq) \/ b # ESC
        BY <4>1 DEF LeadsAstray
      <4>5. /\ SequenceSeen(parser', seq')
            /\ IF last' # <<>> THEN call' = Written(last')
               ELSE call' = <<>> \/ call'[1] \in {"put", "execute"}
        BY <3>1, <3>2, <4>2, <4>3, <4>4, SequencesWatched
      <4>6. /\ TextSeen(parser', text')
            /\ IF IsChar(text') THEN call' = <<"put", CodePoint(text')>>
               ELSE call' = <<>> \/ call'[1] # "put"
        BY <3>1, <3>2, <3>4, <4>2, TextWatched
      <4>7. CallsAsWritten'
        BY <4>5, <4>6 DEF CallsAsWritten, EveryCallAsWritten, DispatchedAsWritten,
                          ShownAsEncoded, IsEncoding
      <4> QED
        BY <3>3, <3>5, <4>5, <4>6, <4>7
    <3> QED
      BY <3>6, <3>7
  <2>2. ASSUME Inv, UNCHANGED <<parserVars, histVars>>
        PROVE  Inv'
    BY <2>2 DEF parserVars, histVars, CallsAsWritten, EveryCallAsWritten,
                DispatchedAsWritten, ShownAsEncoded, IsEncoding
  <2> QED
    BY <2>1, <2>2 DEF HistNext
<1>3. Inv => CallsAsWritten
  OBVIOUS
<1> QED
  BY <1>1, <1>2, <1>3, PTL DEF HistSpec
=============================================================================
