------------------------------ MODULE MCCheckout ------------------------------
(***************************************************************************)
(* Small stores for TLC.  Request a1 is tapped twice (a2 carries the same  *)
(* key); b1 is another shopper's online order and c1 a third shopper's     *)
(* cash order.                                                             *)
(***************************************************************************)
EXTENDS Checkout, TLC

CONSTANTS a1, a2, b1, c1, w1, w2

MCKeyOf == [r \in Requests |-> IF r \in {a1, a2} THEN "ka" ELSE IF r = b1 THEN "kb" ELSE "kc"]
MCCustomerOf == [r \in Requests |-> IF r \in {a1, a2} THEN "alice" ELSE IF r = b1 THEN "bob" ELSE "carol"]
MCKeys == {"ka", "kb", "kc"}
MCCustomers == {"alice", "bob", "carol"}
MCMethod == [r \in Requests |-> IF r = c1 THEN "COD" ELSE "ONLINE"]
OneEach == [c \in Customers |-> 1]
BobTakesTwo == [c \in Customers |-> IF c = "bob" THEN 2 ELSE 1]

WorkerSymmetry == Permutations(Workers)
===============================================================================
