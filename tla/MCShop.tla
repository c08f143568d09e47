--------------------------------- MODULE MCShop ---------------------------------
(***************************************************************************)
(* A shopper with a guest cart and a cart, for TLC.                        *)
(***************************************************************************)
EXTENDS Shop, TLC

CONSTANTS shoe, sock, amy, k1, k2, k3, p1, p2, w1, t1, t2, o1, o2

CartOf(s, guest, shoes, socks) ==
  [owner |-> s, guest |-> guest, lines |-> [v \in Variants |-> IF v = shoe THEN shoes ELSE socks], coupon |-> FALSE]

\* A guest cart; and the shopper's own as well, or none yet.
GuestOnly == [k \in Carts |-> IF k = k1 THEN CartOf(amy, TRUE, 1, 0) ELSE NoCart]
GuestAndOwn == [GuestOnly EXCEPT ![k2] = CartOf(amy, FALSE, 1, 1)]
AtFirst == {GuestOnly, GuestAndOwn}

OneShort == [v \in Variants |-> IF v = shoe THEN 2 ELSE 1]
Prices == [v \in Variants |-> [price |-> 1, rate |-> 1800]]
Inclusive == [inclusive |-> TRUE, shippingFee |-> 1, freeFrom |-> 0]
OneOff == [type |-> "FIXED", value |-> 1, max |-> 0]

ShopSymmetry == Permutations(CartCalls) \cup Permutations(Clerks) \cup Permutations(Orders) \cup Permutations(Counters)
=================================================================================
