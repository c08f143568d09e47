-------------------------------- MODULE Stock --------------------------------
(***************************************************************************)
(* The stock movements of InventoryService on one row of the `inventory`   *)
(* table.  Each movement is a single UPDATE in the code, so each is a      *)
(* single operator here: the row before it to the row after it.            *)
(***************************************************************************)
EXTENDS Integers

Row == [quantity : Int, reserved : Int]

\* What the CHECK constraints of migration 0002 demand of the row.
LegalRow(row) == /\ 0 <= row.reserved
                 /\ row.reserved <= row.quantity

\* SQL GREATEST(0, x).
Greatest0(x) == IF x > 0 THEN x ELSE 0

Reserve(row, n) == [row EXCEPT !.reserved = @ + n]

\* Mutant of CanReserve: what others reserved is forgotten.
CanReserveOnHand(row, n, backorder) == row.quantity >= n

\* Without backorder the WHERE clause decides whether the UPDATE matches the
\* row.  With it the UPDATE always matches, and the CHECK constraint decides.
CanReserve(row, n, backorder) ==
  IF backorder THEN LegalRow(Reserve(row, n))
               ELSE row.quantity - row.reserved >= n

\* A reservation becomes a sale; with too little on hand the count is clamped.
Commit(row, n) ==
  [quantity |-> Greatest0(row.quantity - n),
   reserved |-> Greatest0(row.reserved - n)]

\* Mutant of Release: the subtraction is not clamped.
ReleaseUnclamped(row, n) == [row EXCEPT !.reserved = @ - n]

Release(row, n) == [row EXCEPT !.reserved = Greatest0(@ - n)]

Restock(row, n) == [row EXCEPT !.quantity = @ + n]
===============================================================================
