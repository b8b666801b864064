------------------------------- MODULE CargoGrid -------------------------------
(***************************************************************************)
(* The cargo body of a Bill of Lading: one field of fixed size for the     *)
(* service mode and volume, a row per container, the totals of packages,   *)
(* weight and measurement, and the shipping mark with the description.     *)
(* What does not fit is left out; there is no second page.                 *)
(*                                                                         *)
(* One step per row; a row has as many lines as its longest cell.  Lengths *)
(* are tenths of a point, measured downwards from the field's top.         *)
(***************************************************************************)
EXTENDS Integers, Sequences

CONSTANTS
  MaxContainers,  \* bound: containers of a B/L (AN_CONTAINER_MAX_ROWS)
  CellLines,      \* lines a row's longest cell may need
  FieldHeight,    \* from the top of the marks to the freight terms
  MaxFieldLines,  \* lines the field is declared for
  LineStep,       \* from one line to the next
  RowPad,         \* between rows of one block
  UnderlineGap, TotalGap  \* above the rule and the text of the totals

ASSUME GridAssumption ==
  /\ {MaxContainers, FieldHeight, MaxFieldLines, LineStep, RowPad} \subseteq Nat
  /\ {UnderlineGap, TotalGap} \subseteq Nat /\ LineStep > 0
  /\ CellLines \subseteq Nat \ {0}

VARIABLES
  rows,     \* the kinds of the rows to draw
  figures,  \* whether some container has a number to sum
  at,       \* the row to draw next
  cursor,   \* how far down the field is filled
  offset,   \* lines counted so far
  shown,    \* history: [row -> whether all its lines were drawn]
  totals    \* whether the totals were drawn

gridVars == <<rows, figures, at, cursor, offset, shown, totals>>

\* buildBlCargoPdfRows: the header is left out when it has nothing to say, the
\* shipping mark never.
BlRows(header, containers) ==
  (IF header THEN <<"fclHeader">> ELSE <<>>)
    \o [i \in 1 .. containers |-> "container"] \o <<"shippingMark">>

GridInit ==
  /\ \E header \in BOOLEAN, n \in 0 .. MaxContainers :
       /\ rows = BlRows(header, n)
       /\ figures \in IF n = 0 THEN {FALSE} ELSE BOOLEAN
  /\ at = 1 /\ cursor = 0 /\ offset = 0
  /\ shown = <<>> /\ totals = FALSE

-----------------------------------------------------------------------------
FieldLines ==
  LET byHeight == FieldHeight \div LineStep IN
  IF byHeight < MaxFieldLines THEN byHeight ELSE MaxFieldLines

\* remainingByLines and remainingByHeight; one line is always allowed.
Remaining ==
  LET byLines  == FieldLines - offset
      byHeight == (FieldHeight - cursor) \div LineStep + 1
  IN  IF byLines < byHeight THEN byLines ELSE byHeight

Drawable == at <= Len(rows) /\ offset < FieldLines /\ cursor < FieldHeight

LastContainer(i) ==
  /\ rows[i] = "container"
  /\ i = Len(rows) \/ rows[i + 1] # "container"

\* isBlCargoBlockBoundary
BlockBoundary(i) == i < Len(rows) /\ rows[i] # rows[i + 1]

\* Mutant of TotalsFit: only the lines are counted.
TotalsFitLines(top, lines) == lines < FieldLines

TotalsFit(top, lines) == top < FieldHeight /\ lines < FieldLines

\* A row is wrapped into the lines that remain; then follow the totals, after
\* the last container, or the gap to the next block or row.
DrawRow(wanted) ==
  LET lines    == IF wanted < Remaining THEN wanted ELSE Remaining
      below    == cursor + lines * LineStep
      totalTop == below + UnderlineGap + TotalGap
      closes   == LastContainer(at) /\ figures
      fits     == TotalsFit(totalTop, offset + lines)
  IN
  /\ Drawable
  /\ shown' = Append(shown, /\ wanted <= Remaining
                            /\ cursor + (wanted - 1) * LineStep < FieldHeight)
  /\ totals' = (totals \/ (closes /\ fits))
  /\ IF closes
     THEN /\ cursor' = LineStep + IF fits THEN totalTop + LineStep
                                  ELSE below + UnderlineGap + 20
          /\ offset' = offset + lines + 1 + IF fits THEN 1 ELSE 0
     ELSE IF BlockBoundary(at)
     THEN cursor' = below + LineStep /\ offset' = offset + lines + 1
     ELSE cursor' = below + RowPad /\ offset' = offset + lines
  /\ at' = at + 1
  /\ UNCHANGED <<rows, figures>>

GridNext == \E wanted \in CellLines : DrawRow(wanted)

GridSpec == GridInit /\ [][GridNext]_gridVars

\* Totals stand under a complete list: when they are printed, every container
\* they sum was printed with all its lines, however much the rows above took.
TotalsCoverTheList ==
  totals => \A i \in 1 .. Len(rows) :
              rows[i] = "container" => i <= Len(shown) /\ shown[i]
=============================================================================
