----------------------------- MODULE Reservation ------------------------------
(***************************************************************************)
(* What the stock of one variant promises, whatever the code around it     *)
(* does: a unit on hand is free or held for one order, a sale takes what   *)
(* was held for that order and nothing else, and what comes back is what   *)
(* was held or what was sold.                                              *)
(***************************************************************************)
EXTENDS Integers

CONSTANTS Orders, Initial

VARIABLES onHand,  \* units on the shelf, held ones included
          free,    \* units a shopper can still buy
          held,    \* units held for each order
          sold     \* units sold to each order and not returned

resVars == <<onHand, free, held, sold>>

Init == /\ onHand = Initial
        /\ free = Initial
        /\ held = [o \in Orders |-> 0]
        /\ sold = [o \in Orders |-> 0]

Hold(o) == \E n \in 1..free :
  /\ held[o] = 0 /\ sold[o] = 0
  /\ held' = [held EXCEPT ![o] = n]
  /\ free' = free - n
  /\ UNCHANGED <<onHand, sold>>

Sell(o) ==
  /\ held[o] > 0
  /\ sold' = [sold EXCEPT ![o] = held[o]]
  /\ held' = [held EXCEPT ![o] = 0]
  /\ onHand' = onHand - held[o]
  /\ UNCHANGED free

\* Cash on delivery: held and sold in the same step.
SellAtOnce(o) == \E n \in 1..free :
  /\ held[o] = 0 /\ sold[o] = 0
  /\ sold' = [sold EXCEPT ![o] = n]
  /\ free' = free - n
  /\ onHand' = onHand - n
  /\ UNCHANGED held

LetGo(o) ==
  /\ held[o] > 0
  /\ held' = [held EXCEPT ![o] = 0]
  /\ free' = free + held[o]
  /\ UNCHANGED <<onHand, sold>>

TakeBack(o) ==
  /\ sold[o] > 0
  /\ sold' = [sold EXCEPT ![o] = 0]
  /\ free' = free + sold[o]
  /\ onHand' = onHand + sold[o]
  /\ UNCHANGED held

Next == \E o \in Orders :
          Hold(o) \/ Sell(o) \/ SellAtOnce(o) \/ LetGo(o) \/ TakeBack(o)

Spec == Init /\ [][Next]_resVars
===============================================================================
