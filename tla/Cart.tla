---------------------------------- MODULE Cart ----------------------------------
(***************************************************************************)
(* CartService: the carts of customers and of guest tokens, in one store's *)
(* database.                                                               *)
(*                                                                         *)
(* A transaction is its reads, a step each, and its writes with the commit *)
(* in one step: at READ COMMITTED an UPDATE waits for the row and writes   *)
(* what was computed from the reads.                                       *)
(***************************************************************************)
EXTENDS Naturals, FiniteSets, FiniteSetsExt

CONSTANTS
  Variants,
  Carts,         \* ids of carts
  Shoppers,      \* customers, each with one guest token
  CartCalls,     \* requests on carts; each is made at most once
  MaxLine,       \* bound on the quantity of a line
  None

ASSUME CartAssumption ==
  /\ IsFiniteSet(Variants) /\ IsFiniteSet(Carts) /\ IsFiniteSet(CartCalls)
  /\ MaxLine \in Nat
  /\ None \notin Shoppers /\ None \notin Carts /\ None \notin Variants

VARIABLES
  carts,         \* carts and cart_items
  asking,        \* a request under way: where it is, and what it has read
  \* History, for the properties:
  wanted,        \* units the shoppers' requests left in their carts
  torn           \* lines that were overwritten or deleted by a request that had not read them

cartVars == <<carts, asking, wanted, torn>>

Lines == [Variants -> Nat]
NoLines == [v \in Variants |-> 0]
Cart == [owner: Shoppers \cup {None}, guest: BOOLEAN, lines: Lines, coupon: BOOLEAN]
NoCart == [owner |-> None, guest |-> FALSE, lines |-> NoLines, coupon |-> FALSE]

\* seen: the quantities read; gone: the lines read that were deleted since;
\* from, taken: the guest cart of a merge.
Asking == [pc: {"idle", "create", "line", "write", "own", "merge", "done"}, who: Shoppers \cup {None},
           guest: BOOLEAN, cart: Carts \cup {None}, variant: Variants \cup {None}, quantity: Nat,
           seen: Lines, gone: SUBSET Variants,
           from: Carts \cup {None}, taken: Lines, coupon: BOOLEAN]
NoAsking == [pc |-> "idle", who |-> None, guest |-> FALSE, cart |-> None, variant |-> None,
             quantity |-> 0, seen |-> NoLines, gone |-> {},
             from |-> None, taken |-> NoLines, coupon |-> FALSE]
Answered == [NoAsking EXCEPT !.pc = "done"]

\* Every quantity is a natural number, in the carts and in what requests hold of them.
CartTypeOK ==
  /\ carts \in [Carts -> Cart]
  /\ asking \in [CartCalls -> Asking]
  /\ wanted \in [Shoppers -> Lines]
  /\ torn \subseteq Shoppers \X Variants

-------------------------------------------------------------------------------
\* Helpers

Owned(s, guest) == {k \in Carts : carts[k].owner = s /\ carts[k].guest = guest}
InCarts(s, v) == MapThenSumSet(LAMBDA k : carts[k].lines[v], {k \in Carts : carts[k].owner = s})
Empty(k) == carts[k].lines = NoLines

Idle(c) == asking[c].pc = "idle"
Ends(c) == asking' = [asking EXCEPT ![c] = Answered]
Fails(c) == Ends(c) /\ UNCHANGED <<carts, wanted, torn>>

\* What requests have read of these lines of k is gone.
Deleted(k, vs) == [d \in CartCalls |->
  IF asking[d].cart = k THEN [asking[d] EXCEPT !.gone = @ \cup vs] ELSE asking[d]]
EndsDeleting(c, k, vs) == asking' = [Deleted(k, vs) EXCEPT ![c] = Answered]

\* Lines of a cart that are not, or no longer, as they were read.
Unread(k, seen) == {v \in Variants : carts[k].owner # None /\ carts[k].lines[v] # seen[v]}

\* A request of s leaves so many units in its carts, and overwrites the lines vs
\* unread; these count no more.
Records(s, units, vs) ==
  /\ torn' = torn \cup ({s} \X vs)
  /\ wanted' = [wanted EXCEPT ![s] = [v \in Variants |-> IF <<s, v>> \in torn' THEN 0 ELSE units[v]]]

-------------------------------------------------------------------------------
\* resolveCart, addItem

\* The first query of addItem.
AddResolve(c, s, guest, v, n) ==
  /\ Idle(c)
  /\ LET call == [NoAsking EXCEPT !.who = s, !.guest = guest, !.variant = v, !.quantity = n] IN
     \/ \E k \in Owned(s, guest) : asking' = [asking EXCEPT ![c] = [call EXCEPT !.pc = "line", !.cart = k]]
     \/ Owned(s, guest) = {} /\ asking' = [asking EXCEPT ![c] = [call EXCEPT !.pc = "create"]]
  /\ UNCHANGED <<carts, wanted, torn>>

\* An id nothing refers to.
Fresh(k) == carts[k].owner = None /\ \A c \in CartCalls : k \notin {asking[c].cart, asking[c].from}

\* A customer and a guest token have one cart each: unique indexes refuse a second.
Create(c, k) ==
  LET a == asking[c] IN
  /\ a.pc = "create"
  /\ IF Owned(a.who, a.guest) # {}
     THEN Fails(c)
     ELSE /\ Fresh(k)
          /\ carts' = [carts EXCEPT ![k] = [NoCart EXCEPT !.owner = a.who, !.guest = a.guest]]
          /\ asking' = [asking EXCEPT ![c] = [a EXCEPT !.pc = "line", !.cart = k]]
          /\ UNCHANGED <<wanted, torn>>

\* The line as it is, and whether the shelf has that many.
AddRead(c, available) ==
  LET a == asking[c]
      here == carts[a.cart].lines[a.variant]
  IN  /\ a.pc = "line"
      /\ IF here + a.quantity > available[a.variant]
         THEN Fails(c)
         ELSE /\ asking' = [asking EXCEPT ![c] = [a EXCEPT !.pc = "write", !.quantity = @ + here,
                                                           !.seen[a.variant] = here]]
              /\ UNCHANGED <<carts, wanted, torn>>

\* Whether the statement that writes quantity n of a line fails: an UPDATE of a
\* line or an INSERT into a cart that is gone, a second INSERT of a line.
WriteFails(a, v) ==
  \/ carts[a.cart].owner = None /\ a.from = None
  \/ IF a.seen[v] > 0 THEN v \in a.gone ELSE carts[a.cart].lines[v] > 0

\* The write of addItem and of updateItem, which deletes the line of quantity 0.
Write(c) ==
  LET a == asking[c]
      k == a.cart
      v == a.variant
      n == a.quantity
  IN  /\ a.pc = "write"
      /\ IF WriteFails(a, v)
         THEN Fails(c)
         ELSE /\ carts' = [carts EXCEPT ![k].lines[v] = n]
              /\ IF n = 0 THEN EndsDeleting(c, k, {v}) ELSE Ends(c)
              /\ Records(a.who, [wanted[a.who] EXCEPT ![v] = @ + n - a.seen[v]], Unread(k, a.seen) \cap {v})

-------------------------------------------------------------------------------
\* updateItem, removeItem, clear, applyCoupon, removeCoupon

UpdateRead(c, s, guest, k, v, n, available) ==
  /\ Idle(c) /\ k \in Owned(s, guest) /\ carts[k].lines[v] > 0
  /\ n <= available
  /\ asking' = [asking EXCEPT ![c] = [NoAsking EXCEPT
       !.pc = "write", !.who = s, !.guest = guest, !.cart = k, !.variant = v, !.quantity = n,
       !.seen[v] = carts[k].lines[v]]]
  /\ UNCHANGED <<carts, wanted, torn>>

\* One DELETE, of a line or of all of them; clear takes the coupon too.
Delete(c, s, guest, k, vs) ==
  /\ Idle(c) /\ k \in Owned(s, guest)
  /\ carts' = [carts EXCEPT ![k].lines = [v \in Variants |-> IF v \in vs THEN 0 ELSE @[v]],
                            ![k].coupon = IF vs = Variants THEN FALSE ELSE @]
  /\ EndsDeleting(c, k, {v \in vs : carts[k].lines[v] > 0})
  /\ Records(s, [v \in Variants |-> wanted[s][v] - (IF v \in vs THEN carts[k].lines[v] ELSE 0)], {})

\* The cart can be emptied between the check and the write, so that an empty one
\* gets a coupon too.
Coupon(c, s, guest, k, applied) ==
  /\ Idle(c) /\ k \in Owned(s, guest)
  /\ carts' = [carts EXCEPT ![k].coupon = applied]
  /\ Ends(c)
  /\ UNCHANGED <<wanted, torn>>

-------------------------------------------------------------------------------
\* mergeGuestCart

MergeGuest(c, s) ==
  /\ Idle(c)
  /\ \E g \in Owned(s, TRUE) :
       /\ ~Empty(g)
       /\ asking' = [asking EXCEPT ![c] = [NoAsking EXCEPT
            !.pc = "own", !.who = s, !.from = g, !.taken = carts[g].lines, !.coupon = carts[g].coupon]]
  /\ UNCHANGED <<carts, wanted, torn>>

\* The customer's cart, or a new one that nobody sees before the commit.
MergeOwn(c, k) ==
  LET a == asking[c] IN
  /\ a.pc = "own"
  /\ IF Owned(a.who, FALSE) = {} THEN Fresh(k) ELSE k \in Owned(a.who, FALSE)
  /\ asking' = [asking EXCEPT ![c] = [a EXCEPT !.pc = "merge", !.cart = k, !.seen = carts[k].lines,
                                               !.coupon = @ /\ ~carts[k].coupon]]
  /\ UNCHANGED <<carts, wanted, torn>>

\* Mutant of GuestGone: the guest cart is deleted with deleteMany.
GuestGoneIgnored(a) == FALSE

\* The delete by id throws if another merge was first, and all is rolled back.
GuestGone(a) == carts[a.from].owner = None

\* A new cart is refused if the customer has got one since.
SecondCart(a) == carts[a.cart].owner = None /\ Owned(a.who, FALSE) # {}

\* The lines summed, the guest cart deleted with whatever is in it by now.
Merge(c) ==
  LET a == asking[c]
      moved == {v \in Variants : a.taken[v] > 0}
  IN  /\ a.pc = "merge"
      /\ IF GuestGone(a) \/ SecondCart(a) \/ \E v \in moved : WriteFails(a, v)
         THEN Fails(c)
         ELSE /\ carts' = [carts EXCEPT
                   ![a.cart].owner = a.who,
                   ![a.cart].lines =
                     [v \in Variants |-> IF v \in moved THEN a.seen[v] + a.taken[v] ELSE @[v]],
                   ![a.cart].coupon = @ \/ a.coupon,
                   ![a.from] = NoCart]
              /\ EndsDeleting(c, a.from, Variants)
              /\ Records(a.who, wanted[a.who],
                         Unread(a.from, a.taken) \cup (moved \cap Unread(a.cart, a.seen)))

-------------------------------------------------------------------------------

\* available: what the shelf has of each variant.
CartStep(c, available) ==
  \/ \E s \in Shoppers, guest \in BOOLEAN, v \in Variants, n \in 1..MaxLine : AddResolve(c, s, guest, v, n)
  \/ \E k \in Carts : Create(c, k) \/ MergeOwn(c, k)
  \/ AddRead(c, available)
  \/ Write(c)
  \/ \E s \in Shoppers, guest \in BOOLEAN, k \in Carts :
       \/ \E v \in Variants, n \in 0..MaxLine : UpdateRead(c, s, guest, k, v, n, available[v])
       \/ \E v \in Variants : carts[k].lines[v] > 0 /\ Delete(c, s, guest, k, {v})
       \/ Delete(c, s, guest, k, Variants)
       \/ \E applied \in BOOLEAN : Coupon(c, s, guest, k, applied)
  \/ \E s \in Shoppers : MergeGuest(c, s)
  \/ Merge(c)

\* What the shoppers' requests left in their carts is there, wherever it was
\* merged to and whatever was ordered meanwhile, except in lines that a request
\* overwrote or deleted without having read them.
CartKept ==
  \A s \in Shoppers, v \in Variants :
    <<s, v>> \notin torn => InCarts(s, v) = wanted[s][v]
=================================================================================
