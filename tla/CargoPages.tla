------------------------------ MODULE CargoPages ------------------------------
(***************************************************************************)
(* How an Arrival Notice or a Delivery Order is broken into pages: its     *)
(* cargo table starts on the first page, under the marks, and goes on over *)
(* continuation pages; the band "For customer's attention" (with the       *)
(* stamp, on a DO) follows the last row, on the same page if it fits.      *)
(*                                                                         *)
(* One step per row placed.  Lengths are points; a row is as high as its   *)
(* highest cell, and is never split.                                       *)
(***************************************************************************)
EXTENDS Integers, Sequences

CONSTANTS
  Contents,     \* heights of the text in a row's highest cell
  Bands,        \* heights of the attention band
  Rooms,        \* what the marks leave on the first page
  MaxCargoRows, \* bound: rows of the cargo table
  FirstHeader, FirstMin, FirstPad, FirstMost, \* table on the first page
  NextHeader, NextRoom, NextMin, NextPad, NextMost \* on a continuation page

ASSUME PagesAssumption ==
  /\ Contents \subseteq Nat /\ Bands \subseteq Nat /\ Rooms \subseteq Int
  /\ {MaxCargoRows, FirstHeader, FirstMin, FirstPad, FirstMost} \subseteq Nat
  /\ {NextHeader, NextRoom, NextMin, NextPad, NextMost} \subseteq Nat
  /\ NextMost > 0

VARIABLES
  cargo,   \* content heights of the rows
  band,    \* height of the attention band
  marks,   \* room under the marks of the first page
  pages,   \* pages so far: their rows, the space left, the attention band
  next,    \* the first row not placed yet
  phase

pageVars == <<cargo, band, marks, pages, next, phase>>

\* A page shows the rows from .. to - 1.
Page(from, space) == [from |-> from, to |-> from, space |-> space,
                      attention |-> FALSE]
Current == Len(pages)

PagesInit ==
  /\ cargo \in UNION {[1 .. n -> Contents] : n \in 0 .. MaxCargoRows}
  /\ band \in Bands /\ marks \in Rooms
  /\ pages = <<Page(1, marks)>>
  /\ next = 1 /\ phase = "first"

-----------------------------------------------------------------------------
Greater(a, b) == IF a > b THEN a ELSE b
FirstHeight(r) == Greater(FirstMin, cargo[r] + FirstPad)
NextHeight(r)  == Greater(NextMin, cargo[r] + NextPad)

AllPlaced == next = Len(cargo) + 1

Placed(height) ==
  /\ pages' = [pages EXCEPT ![Current].to = @ + 1, ![Current].space = @ - height]
  /\ next' = next + 1

Attention(space) ==
  pages' = [pages EXCEPT ![Current].attention = TRUE, ![Current].space = space]

OwnPageForAttention ==
  pages' = Append(pages, [Page(next, NextHeader + NextRoom - band)
                                  EXCEPT !.attention = TRUE])

-----------------------------------------------------------------------------
(* finishCargoAndAttentionPage and drawCargoRows                           *)

TableFits == marks >= FirstHeader + FirstMin

\* No cargo: the attention band under the marks, or on a page of its own.
AttentionOnly ==
  /\ phase = "first" /\ cargo = <<>>
  /\ IF marks >= band THEN Attention(marks - band) ELSE OwnPageForAttention
  /\ phase' = "done" /\ UNCHANGED <<cargo, band, marks, next>>

\* The table is tried with room for the band, or goes to the next page.
BeginTable ==
  /\ phase = "first" /\ cargo # <<>>
  /\ IF TableFits
     THEN /\ pages' = <<Page(1, marks - FirstHeader)>>
          /\ phase' = "together"
     ELSE phase' = "open" /\ UNCHANGED pages
  /\ UNCHANGED <<cargo, band, marks, next>>

\* Mutant of FitsFirst: the band is not reserved.
FitsUnreserved(reserve) ==
  /\ ~AllPlaced /\ next <= FirstMost
  /\ pages[Current].space - FirstHeight(next) >= 0

\* The loop of drawCargoRows stops at maxRows and at the first row that would
\* cross minBottom.
FitsFirst(reserve) ==
  /\ ~AllPlaced /\ next <= FirstMost
  /\ pages[Current].space - FirstHeight(next) >= reserve

PlaceTogether ==
  /\ phase = "together" /\ FitsFirst(band)
  /\ Placed(FirstHeight(next)) /\ UNCHANGED <<cargo, band, marks, phase>>

AttentionBelow ==
  /\ phase = "together" /\ AllPlaced
  /\ Attention(pages[Current].space - band)
  /\ phase' = "done" /\ UNCHANGED <<cargo, band, marks, next>>

\* Mutant of Restart: it goes on with the rows the first try left over.
RestartWithRest == next

\* All the rows, not those the first try left over.
Restart == 1

\* Something did not fit: the page is wiped and filled again without the band.
Wipe ==
  /\ phase = "together" /\ ~AllPlaced /\ ~FitsFirst(band)
  /\ next' = Restart
  /\ pages' = <<Page(next', marks - FirstHeader)>>
  /\ phase' = "refill" /\ UNCHANGED <<cargo, band, marks>>

PlaceAgain ==
  /\ phase = "refill" /\ FitsFirst(0)
  /\ Placed(FirstHeight(next)) /\ UNCHANGED <<cargo, band, marks, phase>>

EndFirstPage ==
  /\ phase = "refill" /\ ~FitsFirst(0)
  /\ phase' = "open" /\ UNCHANGED <<cargo, band, marks, pages, next>>

-----------------------------------------------------------------------------
(* addCargoContinuationPages                                               *)

OpenPage ==
  /\ phase = "open" /\ ~AllPlaced
  /\ pages' = Append(pages, Page(next, NextRoom))
  /\ phase' = "batch" /\ UNCHANGED <<cargo, band, marks, next>>

\* Mutant of AttentionPage: continuation pages are made for rows only.
NoAttentionPage == FALSE

\* The attention band is all that is left.
AttentionPage ==
  /\ phase = "open" /\ AllPlaced
  /\ OwnPageForAttention
  /\ phase' = "done" /\ UNCHANGED <<cargo, band, marks, next>>

BatchEmpty == pages[Current].from = next

\* A row higher than a page gets a page of its own and runs over its end.
FitsNext ==
  /\ ~AllPlaced /\ next - pages[Current].from < NextMost
  /\ pages[Current].space - NextHeight(next) >= 0 \/ BatchEmpty

PlaceNext ==
  /\ phase = "batch" /\ FitsNext
  /\ Placed(NextHeight(next)) /\ UNCHANGED <<cargo, band, marks, phase>>

EndPage ==
  /\ phase = "batch" /\ ~AllPlaced /\ ~FitsNext
  /\ phase' = "open" /\ UNCHANGED <<cargo, band, marks, pages, next>>

LastPage ==
  /\ phase = "batch" /\ AllPlaced
  /\ IF pages[Current].space >= band THEN Attention(pages[Current].space - band)
                                     ELSE OwnPageForAttention
  /\ phase' = "done" /\ UNCHANGED <<cargo, band, marks, next>>

-----------------------------------------------------------------------------
PagesNext ==
  \/ AttentionOnly \/ BeginTable \/ PlaceTogether \/ AttentionBelow \/ Wipe
  \/ PlaceAgain \/ EndFirstPage \/ OpenPage \/ AttentionPage \/ PlaceNext
  \/ EndPage \/ LastPage

PagesSpec == PagesInit /\ [][PagesNext]_pageVars

-----------------------------------------------------------------------------
(* Properties                                                              *)

\* Each page goes on where the one before it ended, from the first row to the
\* last: no row is lost or printed twice, also when the first page was wiped.
RowsInOrder ==
  /\ pages[1].from = 1
  /\ \A p \in 2 .. Len(pages) : pages[p].from = pages[p - 1].to
  /\ pages[Len(pages)].to = next
  /\ phase = "done" => AllPlaced

\* The band is printed once, on the last page, after all rows.
AttentionLast ==
  \A p \in 1 .. Len(pages) :
    pages[p].attention <=> phase = "done" /\ p = Len(pages)

\* Only a single row or the band alone, when higher than a page, crosses the
\* page's lower edge.
OnlyGiantsCross ==
  \A p \in 1 .. Len(pages) :
    pages[p].space < 0 =>
      \/ pages[p].to = pages[p].from
      \/ pages[p].to = pages[p].from + 1 /\ ~pages[p].attention

\* What a printed Arrival Notice or Delivery Order owes its reader.
PagesComplete == RowsInOrder /\ AttentionLast /\ OnlyGiantsCross
=============================================================================
