---------------------------------- MODULE Shop ----------------------------------
(***************************************************************************)
(* Carts become orders: OrdersService.create with every line of a cart,    *)
(* the shelf it reserves on, and what it charges.  What happens to one     *)
(* order afterwards, and between two calls on one order, is Checkout's     *)
(* subject; here an order of several lines is sold, given back or put back *)
(* as a whole.                                                             *)
(*                                                                         *)
(* Each UPDATE of an inventory row is a step that waits for the row's lock *)
(* and keeps it; everything else a transaction writes is in its commit.    *)
(* The order in which a cart's lines are read is left open, as in the code. *)
(***************************************************************************)
EXTENDS Cart, Shelf, Pricing

CONSTANTS
  Orders,
  Clerks,        \* transactions on orders; each is made at most once
  Initially,     \* the carts there may be at first
  Catalog,       \* price and tax rate of a variant
  Store,         \* the store's pricing configuration
  Terms          \* of the coupon in the carts

ASSUME ShopAssumption ==
  /\ Items = Variants
  /\ IsFiniteSet(Orders) /\ None \notin Orders
  /\ \A start \in Initially :
       /\ start \in [Carts -> Cart]
       /\ \A k \in Carts : start[k].owner = None => start[k] = NoCart
       /\ \A k, l \in Carts : start[k].owner = start[l].owner /\ start[k].guest = start[l].guest
                               => k = l \/ start[k].owner = None
  /\ Catalog \in [Variants -> [price : Nat, rate : Nat]]
  /\ Store \in [inclusive : BOOLEAN, shippingFee : Nat, freeFrom : Nat]
  /\ Terms \in [type : {"NONE", "PERCENTAGE", "FIXED"}, value : Nat, max : Nat]

VARIABLES orders, trade

vars == <<cartVars, shelfVars, orders, trade>>

NoOrder == [status |-> "none", lines |-> NoLines, price |-> None]
Settlements == {"sell", "release", "restock"}
NoTrade == [pc |-> "idle", who |-> None, cart |-> None, order |-> None,
            lines |-> NoLines, coupon |-> FALSE, cash |-> FALSE, locked |-> <<>>]

Init ==
  /\ carts \in Initially
  /\ asking = [c \in CartCalls |-> NoAsking]
  /\ wanted = [s \in Shoppers |-> [v \in Variants |-> InCarts(s, v)]]
  /\ torn = {}
  /\ ShelfInit
  /\ orders = [o \in Orders |-> NoOrder]
  /\ trade = [c \in Clerks |-> NoTrade]

-------------------------------------------------------------------------------

Quits(c) == trade' = [trade EXCEPT ![c] = [NoTrade EXCEPT !.pc = "done"]]
Lots(lines) == {v \in Variants : lines[v] > 0}
Locked(c) == Range(trade[c].locked)
Free == Variants \ UNION {Locked(c) : c \in Clerks}
Ready(c, step) == trade[c].pc = step /\ Locked(c) = Lots(trade[c].lines)

\* The lines in the order they were read, at the live price.
PricingLines(a) ==
  [i \in DOMAIN a.locked |-> [price |-> Catalog[a.locked[i]].price, quantity |-> a.lines[a.locked[i]],
                              rate |-> Catalog[a.locked[i]].rate]]
Charge(a) == Price(PricingLines(a), Store, IF a.coupon THEN Terms ELSE NoCoupon)

\* create, until the stock is reserved
Checkout(c, s, k, cash) ==
  /\ trade[c].pc = "idle" /\ k \in Owned(s, FALSE) /\ ~Empty(k)
  /\ trade' = [trade EXCEPT ![c] = [NoTrade EXCEPT !.pc = "reserve", !.who = s, !.cart = k, !.cash = cash,
                                                   !.lines = carts[k].lines, !.coupon = carts[k].coupon]]
  /\ UNCHANGED <<cartVars, shelfVars, orders>>

\* The next row; without enough on it everything is rolled back.
Lock(c, v) ==
  LET a == trade[c] IN
  /\ v \in Lots(a.lines) \cap Free
  /\ IF a.pc = "reserve" /\ ~CanReserve(stock[v], a.lines[v], FALSE)
     THEN Quits(c)
     ELSE trade' = [trade EXCEPT ![c].locked = Append(@, v)]
  /\ UNCHANGED <<cartVars, shelfVars, orders>>

\* A deadlock that PostgreSQL breaks, a timeout, the death of the process.
Abort(c) ==
  /\ trade[c].pc \in {"reserve"} \cup Settlements
  /\ Quits(c)
  /\ UNCHANGED <<cartVars, shelfVars, orders>>

\* Every row of the lines moves, and a sale or a return is in the ledger.
Moves(lines, rows, sign) ==
  /\ stock' = [v \in Variants |-> IF lines[v] > 0 THEN rows[v] ELSE stock[v]]
  /\ lost' = lost
  /\ Enters([v \in Variants |-> sign * lines[v]])
  /\ UNCHANGED counting

\* deleteMany: also lines that were added since the cart was read.
Emptied(k) == [carts EXCEPT ![k].lines = NoLines, ![k].coupon = FALSE]

\* create, after the reservations; cash is sold in the same transaction.
Place(c, o) ==
  LET a == trade[c]
      price == Charge(a)
      reserved == [v \in Variants |-> Reserve(stock[v], a.lines[v])]
  IN  /\ Ready(c, "reserve") /\ orders[o].status = "none"
      /\ Quits(c)
      /\ IF ~Acceptable(price, Store)
         THEN UNCHANGED <<cartVars, shelfVars, orders>>
         ELSE /\ orders' = [orders EXCEPT ![o] = [status |-> IF a.cash THEN "CONFIRMED" ELSE "PENDING",
                                                  lines |-> a.lines, price |-> price]]
              /\ IF a.cash
                 THEN Moves(a.lines, [v \in Variants |-> Commit(reserved[v], a.lines[v])], -1)
                 ELSE Moves(a.lines, reserved, 0)
              /\ carts' = Emptied(a.cart)
              /\ asking' = Deleted(a.cart, Lots(carts[a.cart].lines))
              /\ Records(a.who, [v \in Variants |-> wanted[a.who][v] - a.lines[v]], Unread(a.cart, a.lines))

\* onPaymentSucceeded, onPaymentFailed, a cancellation or refund of a sold order.
From(step) == IF step = "restock" THEN "CONFIRMED" ELSE "PENDING"
To(step) == IF step = "sell" THEN "CONFIRMED" ELSE "CANCELLED"

Settle(c, o, step) ==
  /\ trade[c].pc = "idle" /\ orders[o].status = From(step)
  /\ \A d \in Clerks : trade[d].order # o
  /\ trade' = [trade EXCEPT ![c] = [NoTrade EXCEPT !.pc = step, !.order = o, !.lines = orders[o].lines]]
  /\ UNCHANGED <<cartVars, shelfVars, orders>>

Settled(c, step) ==
  LET a == trade[c] IN
  /\ Ready(c, step)
  /\ Quits(c)
  /\ orders' = [orders EXCEPT ![a.order].status = To(step)]
  /\ \/ step = "sell" /\ Moves(a.lines, [v \in Variants |-> Commit(stock[v], a.lines[v])], -1)
     \/ step = "release" /\ Moves(a.lines, [v \in Variants |-> Release(stock[v], a.lines[v])], 0)
     \/ step = "restock" /\ Moves(a.lines, [v \in Variants |-> Restock(stock[v], a.lines[v])], 1)
  /\ UNCHANGED cartVars

-------------------------------------------------------------------------------

Trades(c) ==
  \/ \E s \in Shoppers, k \in Carts, cash \in BOOLEAN : Checkout(c, s, k, cash)
  \/ \E v \in Variants : Lock(c, v)
  \/ \E o \in Orders : Place(c, o) \/ \E step \in Settlements : Settle(c, o, step)
  \/ \E step \in Settlements : Settled(c, step)
  \/ Abort(c)

Next ==
  \/ \E c \in CartCalls : CartStep(c, Available) /\ UNCHANGED <<shelfVars, orders, trade>>
  \/ \E c \in Counters : ShelfStep(c, Free) /\ UNCHANGED <<cartVars, orders, trade>>
  \/ \E c \in Clerks : Trades(c)

Spec == Init /\ [][Next]_vars

-------------------------------------------------------------------------------
\* Properties; with CartKept of Cart and LedgerSums of Shelf.

\* Types, and no transaction of several rows leaves an inventory row that its CHECK
\* constraints forbid.
TypeOK ==
  /\ CartTypeOK /\ ShelfTypeOK
  /\ \A o \in Orders :
       orders[o].status \in {"none", "PENDING", "CONFIRMED", "CANCELLED"} /\ orders[o].lines \in Lines
  /\ \A c \in Clerks : trade[c].lines \in Lines /\ Locked(c) \subseteq Lots(trade[c].lines)

\* What is reserved is what the unpaid orders hold, of every variant: an order that
\* fails at one of its lines, in its transaction, or against an adjustment by staff,
\* leaves nothing behind and loses nothing.
Pending == {o \in Orders : orders[o].status = "PENDING"}
ReservedIsOwed ==
  \A v \in Variants : stock[v].reserved = MapThenSumSet(LAMBDA o : orders[o].lines[v], Pending)

\* The amounts on the lines of an order add up to its discount and its total.
ChargedRight == \A o \in Orders : orders[o].status # "none" => Resums(orders[o].price)
=================================================================================
