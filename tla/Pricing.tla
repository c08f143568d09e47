--------------------------------- MODULE Pricing --------------------------------
(***************************************************************************)
(* PricingService: what a list of lines costs in a store, in minor units.  *)
(* Divisions are exact here and floating point in the code.                *)
(***************************************************************************)
EXTENDS Integers, Sequences, Functions

NoCoupon == [type |-> "NONE", value |-> 0, max |-> 0]

\* Math.round(a / b), b > 0: half up.
RoundDiv(a, b) == (2 * a + b) \div (2 * b)
Smaller(a, b) == IF a <= b THEN a ELSE b
AtLeast0(a) == IF a >= 0 THEN a ELSE 0

\* computeDiscount, of a coupon that validate accepted.
Discount(subtotal, coupon) ==
  LET full == CASE coupon.type = "PERCENTAGE" -> RoundDiv(subtotal * coupon.value, 100)
                [] coupon.type = "FIXED" -> coupon.value
                [] OTHER -> 0
      capped == IF coupon.max > 0 THEN Smaller(full, coupon.max) ELSE full
  IN  Smaller(capped, subtotal)

InProportion(worth, subtotal, discount) ==
  [i \in DOMAIN worth |-> IF subtotal > 0 THEN RoundDiv(worth[i] * discount, subtotal) ELSE 0]

\* Mutant of Shares: every line is rounded on its own.
SharesRounded(worth, subtotal, discount) == InProportion(worth, subtotal, discount)

\* The last line absorbs what rounding left over, or took too much.
Shares(worth, subtotal, discount) ==
  LET rounded == InProportion(worth, subtotal, discount)
      last == Len(worth)
  IN  [rounded EXCEPT ![last] = discount - SumFunctionOnSet(rounded, 1..(last - 1))]

Tax(base, rate, inclusive) ==
  IF inclusive THEN RoundDiv(base * rate, 10000 + rate) ELSE RoundDiv(base * rate, 10000)

Shipping(net, store) ==
  IF net <= 0 \/ (store.freeFrom > 0 /\ net >= store.freeFrom) THEN 0 ELSE store.shippingFee

\* price; at least one line.
Price(lines, store, coupon) ==
  LET worth == [i \in DOMAIN lines |-> lines[i].price * lines[i].quantity]
      subtotal == SumFunction(worth)
      discount == Discount(subtotal, coupon)
      share == Shares(worth, subtotal, discount)
      base == [i \in DOMAIN lines |-> AtLeast0(worth[i] - share[i])]
      tax == [i \in DOMAIN lines |-> Tax(base[i], lines[i].rate, store.inclusive)]
      net == subtotal - discount
      shipping == Shipping(net, store)
  IN  [subtotal |-> subtotal, discount |-> discount, share |-> share, tax |-> SumFunction(tax),
       lineTotal |-> [i \in DOMAIN lines |-> IF store.inclusive THEN base[i] ELSE base[i] + tax[i]],
       shipping |-> shipping,
       total |-> AtLeast0(net + shipping + (IF store.inclusive THEN 0 ELSE SumFunction(tax)))]

\* The CHECK constraints of orders and order_items.
Acceptable(price, store) ==
  /\ \A i \in DOMAIN price.share : price.share[i] >= 0 /\ price.lineTotal[i] >= 0
  /\ price.total = price.subtotal - price.discount + price.shipping
                   + (IF store.inclusive THEN 0 ELSE price.tax)

\* What the lines of a price add up to: the discount exactly, and the total but
\* for what the last line's share exceeds the line by, at most half a unit for
\* every other line.
Resums(price) ==
  LET excess == SumFunction(price.lineTotal) + price.shipping - price.total
  IN  /\ SumFunction(price.share) = price.discount
      /\ 0 <= excess /\ 2 * excess <= Len(price.share) - 1
=================================================================================
