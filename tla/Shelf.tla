---------------------------------- MODULE Shelf ---------------------------------
(***************************************************************************)
(* The inventory of a store and its ledger: the movements of orders (Stock) *)
(* and what staff adjust by hand, InventoryService.adjust.                 *)
(*                                                                         *)
(* An expected version only refuses an adjustment when it is read, so      *)
(* every one here carried none or the right one.                           *)
(***************************************************************************)
EXTENDS Stock, FiniteSets

CONSTANTS
  Items,         \* variants
  Counters,      \* adjustments; each is made at most once
  OnHand,        \* quantity of each item at first
  MaxOnHand,     \* bound on what staff count
  Nothing

ASSUME ShelfAssumption ==
  /\ IsFiniteSet(Items) /\ IsFiniteSet(Counters)
  /\ OnHand \in [Items -> Nat] /\ MaxOnHand \in Nat
  /\ Nothing \notin Items

VARIABLES
  stock,         \* inventory
  ledger,        \* sum of quantity_change in inventory_transactions
  counting,      \* an adjustment between its read and its write
  \* History, for the properties:
  lost           \* items whose quantity an adjustment overwrote unread

shelfVars == <<stock, ledger, counting, lost>>

Counting == [pc: {"idle", "write", "done"}, item: Items \cup {Nothing}, read: Row, to: Nat]
NoCounting == [pc |-> "idle", item |-> Nothing, read |-> [quantity |-> 0, reserved |-> 0], to |-> 0]

\* The rows stay within the CHECK constraints, which no movement of an order tests.
ShelfTypeOK ==
  /\ \A i \in Items : stock[i] \in Row /\ LegalRow(stock[i])
  /\ ledger \in [Items -> Int]
  /\ counting \in [Counters -> Counting]
  /\ lost \subseteq Items

ShelfInit ==
  /\ stock = [i \in Items |-> [quantity |-> OnHand[i], reserved |-> 0]]
  /\ ledger = [i \in Items |-> 0]
  /\ counting = [c \in Counters |-> NoCounting]
  /\ lost = {}

Available == [i \in Items |-> Greatest0(stock[i].quantity - stock[i].reserved)]

\* The ledger rows of a movement; of an overwritten item they count no more.
Enters(change) ==
  ledger' = [i \in Items |-> IF i \in lost' THEN 0 ELSE ledger[i] + change[i]]

-------------------------------------------------------------------------------
\* adjust: a new quantity, given as such or as a change of the one read

AdjustRead(c, i, to) ==
  /\ counting[c].pc = "idle"
  /\ to >= stock[i].reserved
  /\ counting' = [counting EXCEPT ![c] = [pc |-> "write", item |-> i, read |-> stock[i], to |-> to]]
  /\ UNCHANGED <<stock, ledger, lost>>

\* Mutant of Counted: the UPDATE writes the whole row as it was read.
CountedRow(a) == [quantity |-> a.to, reserved |-> a.read.reserved]

Counted(a) == [quantity |-> a.to, reserved |-> stock[a.item].reserved]

\* Mutant of Delta: the count instead of the difference.
DeltaCount(a) == a.to

Delta(a) == a.to - a.read.quantity

\* The UPDATE waits for the row, and the CHECK constraint may refuse it.
AdjustWrite(c, free) ==
  LET a == counting[c] IN
  /\ a.pc = "write" /\ a.item \in free
  /\ counting' = [counting EXCEPT ![c] = [NoCounting EXCEPT !.pc = "done"]]
  /\ IF LegalRow(Counted(a))
     THEN /\ stock' = [stock EXCEPT ![a.item] = Counted(a)]
          /\ lost' = IF stock[a.item].quantity = a.read.quantity THEN lost ELSE lost \cup {a.item}
          /\ Enters([i \in Items |-> IF i = a.item THEN Delta(a) ELSE 0])
     ELSE UNCHANGED <<stock, ledger, lost>>

\* free: the rows that no transaction has locked.
ShelfStep(c, free) ==
  \/ \E i \in Items, to \in 0..MaxOnHand : AdjustRead(c, i, to)
  \/ AdjustWrite(c, free)

\* The ledger explains the quantity on hand: what was there at first and every
\* movement since, except where an adjustment overwrote a movement it had not read.
LedgerSums == \A i \in Items \ lost : stock[i].quantity = OnHand[i] + ledger[i]
=================================================================================
