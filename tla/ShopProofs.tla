-------------------------------- MODULE ShopProofs ------------------------------
(***************************************************************************)
(* Every invariant of Shop, proved for any carts, orders, catalog, store   *)
(* configuration and coupon.                                               *)
(*                                                                         *)
(* Sums come first: a sum over a finite set satisfies what a smallest      *)
(* subset on which it fails would contradict.  Then ShopInv, what carts,   *)
(* requests and transactions on orders know of each other; on it rest      *)
(* Wanted (the carts hold what the shoppers' requests left there),         *)
(* StockInv (the rows of the shelf, their ledger, what the orders hold and *)
(* what a checkout has locked) and the arithmetic of a price.              *)
(***************************************************************************)
EXTENDS Shop, FiniteSetTheorems, TLAPS

-------------------------------------------------------------------------------
\* Sums over finite sets.

\* A set of natural numbers that is not empty has a least element.
LEMMA LeastOf ==
  ASSUME NEW T \in SUBSET Nat, T # {}
  PROVE  \E n \in T : \A m \in T : n <= m
<1> DEFINE R == StrictSubsetOrdering(Nat)
           B == {0..n : n \in T}
<1>1. B \subseteq FiniteSubsetsOf(Nat) /\ B # {}
  <2>1. \A n \in Nat : IsFiniteSet(0..n)
    <3> TAKE n \in Nat
    <3> QED
      BY FS_Interval
  <2>2. \A n \in Nat : 0..n \in SUBSET Nat
    OBVIOUS
  <2> QED
    BY <2>1, <2>2 DEF FiniteSubsetsOf
<1>2. PICK s \in B : \A r \in B : ~ (<<r, s>> \in R)
  <2>1. IsWellFoundedOn(R, FiniteSubsetsOf(Nat))
    BY FS_StrictSubsetOrderingWellFounded
  <2> HIDE DEF B, R
  <2>2. \E s \in B : \A r \in B : ~ (<<r, s>> \in R)
    BY <1>1, <2>1, WFMin
  <2> QED
    BY <2>2
<1>3. PICK n \in T : s = 0..n
  BY <1>2
<1> SUFFICES ASSUME NEW m \in T, m < n PROVE FALSE
  BY <1>3
<1>4. 0..m \in SUBSET Nat /\ 0..n \in SUBSET Nat /\ n \notin 0..m /\ n \in 0..n /\ 0..m \subseteq 0..n
  OBVIOUS
<1>5. <<0..m, 0..n>> \in R
  BY ONLY <1>4 DEF StrictSubsetOrdering
<1> QED
  BY <1>2, <1>3, <1>5

Picked(s) == CHOOSE x \in s : TRUE

\* g sums f over the sets of D, one element after the other.
SumsOver(f, D, g) ==
  g = [s \in D |-> IF s = {} THEN 0 ELSE f[Picked(s)] + g[s \ {Picked(s)}]]

UpTo(S, n) == {s \in SUBSET S : Cardinality(s) <= n}

LEMMA SumsUpTo ==
  ASSUME NEW S, IsFiniteSet(S), NEW f
  PROVE  \A n \in Nat : \E g : SumsOver(f, UpTo(S, n), g)
<1> DEFINE Bad == {n \in Nat : ~ \E g : SumsOver(f, UpTo(S, n), g)}
<1>0. SUFFICES ASSUME Bad # {} PROVE FALSE
  OBVIOUS
<1>1. PICK n \in Bad : \A m \in Bad : n <= m
  <2>1. Bad \in SUBSET Nat
    OBVIOUS
  <2> HIDE DEF Bad
  <2> QED
    BY <1>0, <2>1, LeastOf
<1>2. \A s \in SUBSET S : IsFiniteSet(s) /\ Cardinality(s) \in Nat
  BY FS_Subset, FS_CardinalityType
<1>3. CASE n = 0
  <2>1. UpTo(S, 0) = {{}}
    BY <1>2, FS_EmptySet DEF UpTo
  <2>2. SumsOver(f, {{}}, [s \in {{}} |-> 0])
    BY DEF SumsOver
  <2> QED
    BY <1>1, <1>3, <2>1, <2>2
<1>4. CASE n # 0
  <2>1. n - 1 \in Nat /\ n - 1 \notin Bad
    BY <1>1, <1>4
  <2>2. PICK h : SumsOver(f, UpTo(S, n - 1), h)
    BY <2>1
  <2> DEFINE D == UpTo(S, n)
             E == UpTo(S, n - 1)
             g == [s \in D |-> IF s = {} THEN 0 ELSE f[Picked(s)] + h[s \ {Picked(s)}]]
  <2>3. \A s \in E : s \in D
    BY <1>2, <1>1 DEF UpTo
  <2>4. \A s \in D : s # {} => s \ {Picked(s)} \in E
    <3> SUFFICES ASSUME NEW s \in D, s # {} PROVE s \ {Picked(s)} \in E
      OBVIOUS
    <3>1. Picked(s) \in s
      BY DEF Picked
    <3>2. s \in SUBSET S /\ Cardinality(s) <= n
      BY DEF UpTo
    <3>3. Cardinality(s \ {Picked(s)}) = Cardinality(s) - 1
      BY <3>1, <3>2, <1>2, FS_RemoveElement
    <3> QED
      BY <3>2, <3>3, <1>1, <1>2 DEF UpTo
  <2>5. \A s \in E : h[s] = g[s]
    BY <2>2, <2>3 DEF SumsOver
  <2>6. SumsOver(f, D, g)
    BY <2>4, <2>5 DEF SumsOver
  <2> QED
    BY <1>1, <2>6
<1> QED
  BY <1>3, <1>4

LEMMA SumExists ==
  ASSUME NEW S, IsFiniteSet(S), NEW f
  PROVE  \E g : SumsOver(f, SUBSET S, g)
<1>1. Cardinality(S) \in Nat
  BY FS_CardinalityType
<1>2. UpTo(S, Cardinality(S)) = SUBSET S
  BY FS_Subset DEF UpTo
<1>3. \E g : SumsOver(f, UpTo(S, Cardinality(S)), g)
  BY <1>1, SumsUpTo
<1> QED
  BY <1>2, <1>3

LEMMA SumIs ==
  ASSUME NEW S, IsFiniteSet(S), NEW f
  PROVE  \E g : SumsOver(f, SUBSET S, g) /\ SumFunctionOnSet(f, S) = g[S]
<1> DEFINE it == CHOOSE g : g = [s \in SUBSET S |-> IF s = {} THEN 0
                                   ELSE f[CHOOSE x \in s : TRUE] + g[s \ {CHOOSE x \in s : TRUE}]]
<1>1. SumFunctionOnSet(f, S) = it[S]
  BY DEF SumFunctionOnSet, FoldFunctionOnSet, MapThenFoldSet
<1>2. SumsOver(f, SUBSET S, it)
  <2>1. PICK g : SumsOver(f, SUBSET S, g)
    BY SumExists
  <2> QED
    BY <2>1 DEF SumsOver, Picked
<1> QED
  BY <1>1, <1>2

LEMMA LeastSet ==
  ASSUME NEW S, IsFiniteSet(S), NEW B, B \subseteq SUBSET S, B # {}
  PROVE  \E T \in B : \A U \in B : U \subseteq T => U = T
<1> DEFINE R == StrictSubsetOrdering(S)
<1>1. B \subseteq FiniteSubsetsOf(S)
  BY FS_FiniteSubsetsOfFinite
<1>2. IsWellFoundedOn(R, FiniteSubsetsOf(S))
  BY FS_StrictSubsetOrderingWellFounded
<1>3. \E T \in B : \A U \in B : ~ (<<U, T>> \in R)
  <2> HIDE DEF R
  <2> QED
    BY <1>1, <1>2, WFMin
<1>4. PICK T \in B : \A U \in B : ~ (<<U, T>> \in R)
  BY <1>3
<1>5. \A U \in B : U \subseteq T /\ U # T => <<U, T>> \in R
  BY DEF StrictSubsetOrdering
<1> HIDE DEF R
<1>6. \A U \in B : U \subseteq T => U = T
  BY <1>4, <1>5
<1> QED
  BY <1>6

LEMMA PickedIn ==
  ASSUME NEW S, S # {}
  PROVE  Picked(S) \in S /\ S \ {Picked(S)} \subseteq S /\ S \ {Picked(S)} # S
BY DEF Picked

\* On a subset the sum is what the sums over the whole say.
LEMMA SumOf ==
  ASSUME NEW S, IsFiniteSet(S), NEW f, NEW g, SumsOver(f, SUBSET S, g), NEW T \in SUBSET S
  PROVE  SumFunctionOnSet(f, T) = g[T]
<1>1. IsFiniteSet(T)
  BY FS_Subset
<1>2. PICK h : SumsOver(f, SUBSET T, h) /\ SumFunctionOnSet(f, T) = h[T]
  BY <1>1, SumIs
<1> DEFINE Bad == {s \in SUBSET T : h[s] # g[s]}
<1>3. SUFFICES ASSUME Bad # {} PROVE FALSE
  BY <1>2
<1>4. PICK s \in Bad : \A r \in Bad : r \subseteq s => r = s
  <2>1. Bad \subseteq SUBSET T
    OBVIOUS
  <2> HIDE DEF Bad
  <2> QED
    BY <1>1, <1>3, <2>1, LeastSet
<1>5. s # {}
  BY <1>2 DEF SumsOver
<1>6. h[s \ {Picked(s)}] = g[s \ {Picked(s)}]
  BY <1>4, <1>5, PickedIn
<1>7. h[s] = f[Picked(s)] + h[s \ {Picked(s)}]
  BY <1>2, <1>5 DEF SumsOver
<1>8. g[s] = f[Picked(s)] + g[s \ {Picked(s)}]
  BY <1>5 DEF SumsOver
<1> QED
  BY <1>6, <1>7, <1>8

LEMMA SumStep ==
  ASSUME NEW f
  PROVE  /\ SumFunctionOnSet(f, {}) = 0
         /\ \A S : IsFiniteSet(S) /\ S # {} =>
              SumFunctionOnSet(f, S) = f[Picked(S)] + SumFunctionOnSet(f, S \ {Picked(S)})
<1>1. SumFunctionOnSet(f, {}) = 0
  <2>1. PICK g : SumsOver(f, SUBSET {}, g) /\ SumFunctionOnSet(f, {}) = g[{}]
    BY SumIs, FS_EmptySet
  <2> QED
    BY <2>1 DEF SumsOver
<1>2. ASSUME NEW S, IsFiniteSet(S), S # {}
      PROVE  SumFunctionOnSet(f, S) = f[Picked(S)] + SumFunctionOnSet(f, S \ {Picked(S)})
  <2>1. PICK g : SumsOver(f, SUBSET S, g) /\ SumFunctionOnSet(f, S) = g[S]
    BY <1>2, SumIs
  <2>2. SumFunctionOnSet(f, S \ {Picked(S)}) = g[S \ {Picked(S)}]
    BY <1>2, <2>1, SumOf
  <2>3. g[S] = f[Picked(S)] + g[S \ {Picked(S)}]
    BY <1>2, <2>1 DEF SumsOver
  <2> QED
    BY <2>1, <2>2, <2>3
<1> QED
  BY <1>1, <1>2

\* Functions that are integers on S.
Ints(f, S) == \A x \in S : f[x] \in Int

LEMMA SumInt ==
  ASSUME NEW S, IsFiniteSet(S), NEW f, Ints(f, S)
  PROVE  SumFunctionOnSet(f, S) \in Int
<1> DEFINE Bad == {s \in SUBSET S : SumFunctionOnSet(f, s) \notin Int}
<1>1. SUFFICES ASSUME Bad # {} PROVE FALSE
  OBVIOUS
<1>2. PICK s \in Bad : \A r \in Bad : r \subseteq s => r = s
  <2>1. Bad \subseteq SUBSET S
    OBVIOUS
  <2> HIDE DEF Bad
  <2> QED
    BY <1>1, <2>1, LeastSet
<1>3. IsFiniteSet(s) /\ s # {}
  <2>1. SumFunctionOnSet(f, {}) = 0
    BY SumStep
  <2>2. s # {}
    BY <2>1
  <2>3. IsFiniteSet(s)
    BY FS_Subset
  <2> QED
    BY <2>2, <2>3
<1>4. SumFunctionOnSet(f, s \ {Picked(s)}) \in Int
  BY <1>2, <1>3, PickedIn
<1>5. f[Picked(s)] \in Int
  BY <1>3, PickedIn DEF Ints
<1> QED
  BY <1>3, <1>4, <1>5, SumStep

\* Any element may be taken out.
LEMMA SumWithout ==
  ASSUME NEW S, IsFiniteSet(S), NEW f, Ints(f, S), NEW x \in S
  PROVE  SumFunctionOnSet(f, S) = f[x] + SumFunctionOnSet(f, S \ {x})
<1> DEFINE Off(s) == \E y \in s : SumFunctionOnSet(f, s) # f[y] + SumFunctionOnSet(f, s \ {y})
           Bad == {s \in SUBSET S : Off(s)}
<1>1. SUFFICES ASSUME Bad # {} PROVE FALSE
  OBVIOUS
<1>2. PICK s \in Bad : \A r \in Bad : r \subseteq s => r = s
  <2>1. Bad \subseteq SUBSET S
    OBVIOUS
  <2> HIDE DEF Bad
  <2> QED
    BY <1>1, <2>1, LeastSet
<1>3. PICK y \in s : SumFunctionOnSet(f, s) # f[y] + SumFunctionOnSet(f, s \ {y})
  OBVIOUS
<1> DEFINE p == Picked(s)
           q == s \ {p}
           z == s \ {y}
<1>4. p \in s /\ q \in SUBSET S /\ q # s /\ z \in SUBSET S /\ z # s /\ q \subseteq s /\ z \subseteq s
  BY PickedIn
<1>5. SumFunctionOnSet(f, s) = f[p] + SumFunctionOnSet(f, q)
  BY <1>4, SumStep, FS_Subset
<1>6. y # p
  BY <1>3, <1>5
<1>7. q \notin Bad /\ z \notin Bad
  BY <1>2, <1>4
<1>8. SumFunctionOnSet(f, q) = f[y] + SumFunctionOnSet(f, q \ {y})
  <2>1. ~ Off(q)
    BY <1>4, <1>7
  <2> QED
    BY <2>1, <1>6
<1>9. SumFunctionOnSet(f, z) = f[p] + SumFunctionOnSet(f, z \ {p})
  <2>1. ~ Off(z)
    BY <1>4, <1>7
  <2> QED
    BY <2>1, <1>4, <1>6
<1>10. q \ {y} = z \ {p}
  OBVIOUS
<1>11. f[y] \in Int /\ f[p] \in Int /\ SumFunctionOnSet(f, z \ {p}) \in Int
  <2>1. IsFiniteSet(z \ {p}) /\ Ints(f, z \ {p})
    BY FS_Subset DEF Ints
  <2> QED
    BY <2>1, <1>4, SumInt DEF Ints
<1>12. SumFunctionOnSet(f, s) # f[y] + SumFunctionOnSet(f, z)
  BY <1>3
<1> HIDE DEF p, q, z, Bad
<1>13. SumFunctionOnSet(f, q) = f[y] + SumFunctionOnSet(f, z \ {p})
  BY <1>8, <1>10
<1> QED
  BY ONLY <1>5, <1>9, <1>11, <1>12, <1>13

\* What fails for some subset fails for one that is empty, or that does not
\* fail without the element picked from it.
LEMMA LeastFailing ==
  ASSUME NEW S, IsFiniteSet(S), NEW B, B \subseteq SUBSET S, B # {}
  PROVE  \E T \in B : /\ IsFiniteSet(T)
                      /\ T # {} => /\ Picked(T) \in T
                                   /\ T \ {Picked(T)} \in SUBSET S
                                   /\ T \ {Picked(T)} \notin B
                                   /\ IsFiniteSet(T \ {Picked(T)})
<1>1. PICK T \in B : \A U \in B : U \subseteq T => U = T
  BY LeastSet
<1>2. IsFiniteSet(T)
  BY FS_Subset
<1>3. ASSUME T # {}
      PROVE  /\ Picked(T) \in T
             /\ T \ {Picked(T)} \in SUBSET S
             /\ T \ {Picked(T)} \notin B
             /\ IsFiniteSet(T \ {Picked(T)})
  <2>1. Picked(T) \in T
    BY <1>3, PickedIn
  <2>2. T \ {Picked(T)} \in SUBSET S
    BY <2>1
  <2>3. T \ {Picked(T)} \notin B
    BY <1>1, <2>1
  <2> QED
    BY <2>1, <2>2, <2>3, FS_Subset
<1> QED
  BY <1>2, <1>3

LEMMA SumNat ==
  ASSUME NEW S, IsFiniteSet(S), NEW f, \A x \in S : f[x] \in Nat
  PROVE  /\ SumFunctionOnSet(f, S) \in Nat
         /\ \A x \in S : f[x] <= SumFunctionOnSet(f, S)
<1> DEFINE Bad == {s \in SUBSET S : SumFunctionOnSet(f, s) \notin Nat}
<1>1. Bad = {}
  <2> SUFFICES ASSUME Bad # {} PROVE FALSE
    OBVIOUS
  <2>1. PICK s \in Bad : /\ IsFiniteSet(s)
                         /\ s # {} => /\ Picked(s) \in s
                                      /\ s \ {Picked(s)} \in SUBSET S
                                      /\ s \ {Picked(s)} \notin Bad
    <3>1. Bad \subseteq SUBSET S
      OBVIOUS
    <3> HIDE DEF Bad
    <3> QED
      BY <3>1, LeastFailing
  <2>2. SumFunctionOnSet(f, {}) = 0
    BY SumStep
  <2>3. s # {}
    BY <2>2
  <2>4. SumFunctionOnSet(f, s) = f[Picked(s)] + SumFunctionOnSet(f, s \ {Picked(s)})
    BY <2>1, <2>3, SumStep
  <2> QED
    BY <2>1, <2>3, <2>4
<1>2. \A s \in SUBSET S : SumFunctionOnSet(f, s) \in Nat
  BY <1>1
<1>3. ASSUME NEW x \in S PROVE f[x] <= SumFunctionOnSet(f, S)
  <2>1. SumFunctionOnSet(f, S) = f[x] + SumFunctionOnSet(f, S \ {x})
    BY SumWithout DEF Ints
  <2>2. SumFunctionOnSet(f, S \ {x}) \in Nat
    BY <1>2
  <2> QED
    BY <2>1, <2>2
<1> QED
  BY <1>2, <1>3

LEMMA SumPlus ==
  ASSUME NEW S, IsFiniteSet(S), NEW f, NEW g, NEW h, Ints(f, S), Ints(g, S),
         \A x \in S : h[x] = f[x] + g[x]
  PROVE  SumFunctionOnSet(h, S) = SumFunctionOnSet(f, S) + SumFunctionOnSet(g, S)
<1> DEFINE Bad == {s \in SUBSET S :
             SumFunctionOnSet(h, s) # SumFunctionOnSet(f, s) + SumFunctionOnSet(g, s)}
<1> SUFFICES ASSUME Bad # {} PROVE FALSE
  OBVIOUS
<1>1. PICK s \in Bad : /\ IsFiniteSet(s)
                       /\ s # {} => /\ Picked(s) \in s
                                    /\ s \ {Picked(s)} \in SUBSET S
                                    /\ s \ {Picked(s)} \notin Bad
                                    /\ IsFiniteSet(s \ {Picked(s)})
  <2>1. Bad \subseteq SUBSET S
    OBVIOUS
  <2> HIDE DEF Bad
  <2> QED
    BY <2>1, LeastFailing
<1>2. s # {}
  <2>1. SumFunctionOnSet(f, {}) = 0 /\ SumFunctionOnSet(g, {}) = 0 /\ SumFunctionOnSet(h, {}) = 0
    BY SumStep
  <2> QED
    BY <2>1
<1> DEFINE p == Picked(s)
           r == s \ {p}
<1>3. p \in s /\ p \in S /\ r \in SUBSET S /\ IsFiniteSet(r)
  BY <1>1, <1>2
<1>4. /\ SumFunctionOnSet(f, s) = f[p] + SumFunctionOnSet(f, r)
      /\ SumFunctionOnSet(g, s) = g[p] + SumFunctionOnSet(g, r)
      /\ SumFunctionOnSet(h, s) = h[p] + SumFunctionOnSet(h, r)
  BY <1>1, <1>2, SumStep
<1>5. SumFunctionOnSet(h, r) = SumFunctionOnSet(f, r) + SumFunctionOnSet(g, r)
  BY <1>1, <1>2
<1>6. SumFunctionOnSet(f, r) \in Int /\ SumFunctionOnSet(g, r) \in Int
  BY <1>3, SumInt DEF Ints
<1>7. f[p] \in Int /\ g[p] \in Int /\ h[p] = f[p] + g[p]
  BY <1>3 DEF Ints
<1>8. SumFunctionOnSet(h, s) # SumFunctionOnSet(f, s) + SumFunctionOnSet(g, s)
  OBVIOUS
<1> HIDE DEF p, r, Bad
<1> QED
  BY ONLY <1>4, <1>5, <1>6, <1>7, <1>8

LEMMA SumSame ==
  ASSUME NEW S, IsFiniteSet(S), NEW f, NEW g, Ints(f, S), \A x \in S : g[x] = f[x]
  PROVE  SumFunctionOnSet(g, S) = SumFunctionOnSet(f, S)
<1> DEFINE Bad == {s \in SUBSET S : SumFunctionOnSet(g, s) # SumFunctionOnSet(f, s)}
<1> SUFFICES ASSUME Bad # {} PROVE FALSE
  OBVIOUS
<1>1. PICK s \in Bad : /\ IsFiniteSet(s)
                       /\ s # {} => /\ Picked(s) \in s
                                    /\ s \ {Picked(s)} \in SUBSET S
                                    /\ s \ {Picked(s)} \notin Bad
  <2>1. Bad \subseteq SUBSET S
    OBVIOUS
  <2> HIDE DEF Bad
  <2> QED
    BY <2>1, LeastFailing
<1>2. s # {}
  BY SumStep
<1>3. /\ SumFunctionOnSet(f, s) = f[Picked(s)] + SumFunctionOnSet(f, s \ {Picked(s)})
      /\ SumFunctionOnSet(g, s) = g[Picked(s)] + SumFunctionOnSet(g, s \ {Picked(s)})
  BY <1>1, <1>2, SumStep
<1>4. SumFunctionOnSet(f, s \ {Picked(s)}) = SumFunctionOnSet(g, s \ {Picked(s)})
  BY <1>1, <1>2
<1>5. g[Picked(s)] = f[Picked(s)]
  BY <1>1, <1>2
<1> QED
  BY <1>3, <1>4, <1>5

\* One element changes.
LEMMA SumUpdate ==
  ASSUME NEW S, IsFiniteSet(S), NEW f, NEW g, Ints(f, S), Ints(g, S), NEW x \in S,
         \A y \in S \ {x} : g[y] = f[y]
  PROVE  SumFunctionOnSet(g, S) = SumFunctionOnSet(f, S) - f[x] + g[x]
<1>1. IsFiniteSet(S \ {x}) /\ Ints(f, S \ {x})
  BY FS_Subset DEF Ints
<1>2. SumFunctionOnSet(g, S \ {x}) = SumFunctionOnSet(f, S \ {x})
  BY <1>1, SumSame
<1>3. SumFunctionOnSet(f, S) = f[x] + SumFunctionOnSet(f, S \ {x})
  BY SumWithout
<1>4. SumFunctionOnSet(g, S) = g[x] + SumFunctionOnSet(g, S \ {x})
  BY SumWithout
<1>5. SumFunctionOnSet(f, S \ {x}) \in Int /\ f[x] \in Int /\ g[x] \in Int
  BY <1>1, SumInt DEF Ints
<1> QED
  BY ONLY <1>2, <1>3, <1>4, <1>5

\* A sum over a part is the sum over the whole of what is 0 elsewhere.
LEMMA SumOfPart ==
  ASSUME NEW S, IsFiniteSet(S), NEW T \in SUBSET S, NEW f, NEW g, Ints(g, S),
         \A x \in S : g[x] = IF x \in T THEN f[x] ELSE 0
  PROVE  SumFunctionOnSet(f, T) = SumFunctionOnSet(g, S)
<1> DEFINE Bad == {s \in SUBSET S : SumFunctionOnSet(g, s) # SumFunctionOnSet(f, s \cap T)}
<1>0. SUFFICES ASSUME Bad # {} PROVE FALSE
  <2>1. S \cap T = T
    OBVIOUS
  <2> QED
    BY <2>1
<1>1. PICK s \in Bad : /\ IsFiniteSet(s)
                       /\ s # {} => /\ Picked(s) \in s
                                    /\ s \ {Picked(s)} \in SUBSET S
                                    /\ s \ {Picked(s)} \notin Bad
                                    /\ IsFiniteSet(s \ {Picked(s)})
  <2>1. Bad \subseteq SUBSET S
    OBVIOUS
  <2> HIDE DEF Bad
  <2> QED
    BY <1>0, <2>1, LeastFailing
<1>2. s # {}
  <2>1. {} \cap T = {}
    OBVIOUS
  <2>2. SumFunctionOnSet(f, {}) = 0 /\ SumFunctionOnSet(g, {}) = 0
    BY SumStep
  <2> QED
    BY <2>1, <2>2
<1> DEFINE p == Picked(s)
           r == s \ {p}
<1>3. p \in s /\ p \in S /\ r \in SUBSET S /\ IsFiniteSet(r)
  BY <1>1, <1>2
<1>4. SumFunctionOnSet(g, s) = g[p] + SumFunctionOnSet(g, r)
  BY <1>1, <1>2, SumStep
<1>5. SumFunctionOnSet(g, r) = SumFunctionOnSet(f, r \cap T)
  BY <1>1, <1>2
<1>6. Ints(f, s \cap T) /\ IsFiniteSet(s \cap T) /\ SumFunctionOnSet(g, r) \in Int
  <2>1. Ints(g, r)
    BY <1>3 DEF Ints
  <2>2. Ints(f, s \cap T)
    BY DEF Ints
  <2> QED
    BY <1>1, <1>3, <2>1, <2>2, FS_Subset, SumInt
<1>7. CASE p \in T
  <2>1. SumFunctionOnSet(f, s \cap T) = f[p] + SumFunctionOnSet(f, (s \cap T) \ {p})
    BY <1>3, <1>6, <1>7, SumWithout
  <2>2. (s \cap T) \ {p} = r \cap T
    OBVIOUS
  <2> QED
    BY <1>3, <1>4, <1>5, <1>7, <2>1, <2>2
<1>8. CASE p \notin T
  <2>1. s \cap T = r \cap T
    BY <1>8
  <2>2. g[p] = 0
    BY <1>3, <1>8
  <2>3. SumFunctionOnSet(g, s) = SumFunctionOnSet(g, r)
    BY ONLY <1>4, <1>6, <2>2
  <2>4. SumFunctionOnSet(f, s \cap T) = SumFunctionOnSet(f, r \cap T)
    BY <2>1
  <2>5. SumFunctionOnSet(g, s) # SumFunctionOnSet(f, s \cap T)
    OBVIOUS
  <2> QED
    BY ONLY <1>5, <2>3, <2>4, <2>5
<1> QED
  BY <1>7, <1>8

-------------------------------------------------------------------------------
\* Carts, and what the calls on them know.

\* A cart that is not there is empty.
Vacant == \A k \in Carts : carts[k].owner = None => carts[k] = NoCart

\* What a request knows of its carts at each of its steps: whose they are, as
\* long as they are there.  Only guest carts go away.
Asks(a) ==
  /\ a.pc \notin {"idle", "done"} => a.who \in Shoppers
  /\ a.pc \in {"create", "line", "write"} => a.variant \in Variants /\ a.from = None
  /\ a.pc \in {"line", "write"} => a.cart \in Carts /\ carts[a.cart].owner \in {a.who, None}
  /\ a.pc \in {"own", "merge"} =>
       /\ a.from \in Carts
       /\ carts[a.from].owner # None => carts[a.from].owner = a.who /\ carts[a.from].guest
  /\ a.pc = "merge" =>
       /\ a.cart \in Carts /\ a.cart # a.from
       /\ carts[a.cart].owner \in {a.who, None} /\ ~carts[a.cart].guest
       /\ carts[a.cart].owner = None => a.seen = NoLines

\* A cart that a merge will make is nobody else's meanwhile.
MakesAlone ==
  \A c, d \in CartCalls :
    asking[c].pc = "merge" /\ carts[asking[c].cart].owner = None /\ c # d =>
      asking[c].cart \notin {asking[d].cart, asking[d].from}

CartInv ==
  /\ carts \in [Carts -> Cart]
  /\ asking \in [CartCalls -> Asking]
  /\ torn \subseteq Shoppers \X Variants
  /\ Vacant
  /\ \A c \in CartCalls : Asks(asking[c])
  /\ MakesAlone

\* Transactions on orders.
Trade == [pc : {"idle", "reserve", "done"} \cup Settlements, who : Shoppers \cup {None},
          cart : Carts \cup {None}, order : Orders \cup {None}, lines : Lines,
          coupon : BOOLEAN, cash : BOOLEAN, locked : Seq(Variants)]
Statuses == {"none", "PENDING", "CONFIRMED", "CANCELLED"}

\* What a transaction knows: the customer's cart, which never goes away, and
\* lines that are not nothing; the order it settles, with its lines.
Deals(a) ==
  /\ Range(a.locked) \subseteq Lots(a.lines)
  /\ a.pc = "reserve" =>
       /\ a.who \in Shoppers /\ a.cart \in Carts
       /\ carts[a.cart].owner = a.who /\ ~carts[a.cart].guest
       /\ Lots(a.lines) # {}
  /\ a.pc \in Settlements =>
       /\ a.order \in Orders
       /\ orders[a.order].status = From(a.pc) /\ a.lines = orders[a.order].lines
  /\ a.pc \notin Settlements => a.order = None

TradeInv ==
  /\ trade \in [Clerks -> Trade]
  /\ \A o \in Orders : orders[o].status \in Statuses /\ orders[o].lines \in Lines
  /\ orders = [o \in Orders |-> [status |-> orders[o].status, lines |-> orders[o].lines,
                                 price |-> orders[o].price]]
  /\ \A c \in Clerks : Deals(trade[c])
  /\ \A c, d \in Clerks : c # d =>
       /\ Locked(c) \cap Locked(d) = {}
       /\ trade[c].order # None => trade[c].order # trade[d].order

ShopInv == CartInv /\ TradeInv

\* What the shoppers want is what is in their carts, but for torn lines.
Wanted ==
  wanted = [s \in Shoppers |-> [v \in Variants |-> IF <<s, v>> \in torn THEN 0 ELSE InCarts(s, v)]]

\* The shelf: legal rows, reservations owed to unpaid orders, a ledger that
\* explains the quantity, and enough left for what a checkout has locked.
ShelfInv ==
  /\ stock \in [Variants -> Row] /\ \A v \in Variants : LegalRow(stock[v])
  /\ ledger \in [Variants -> Int] /\ counting \in [Counters -> Counting] /\ lost \subseteq Variants
  /\ LedgerSums
  /\ \A c \in Clerks : trade[c].pc = "reserve" =>
       \A v \in Locked(c) : trade[c].lines[v] <= stock[v].quantity - stock[v].reserved

StockInv == ShelfInv /\ ReservedIsOwed

-------------------------------------------------------------------------------
\* The structure of the carts is kept by every step.

LEMMA RowTypes ==
  /\ NoLines \in Lines /\ NoCart \in Cart /\ NoAsking \in Asking /\ Answered \in Asking
  /\ Answered = [NoAsking EXCEPT !.pc = "done"]
BY DEF NoLines, Lines, NoCart, Cart, NoAsking, Asking, Answered

LEMMA OutOfCarts == None \notin Shoppers /\ None \notin Carts /\ None \notin Variants
BY CartAssumption

LEMMA AnsweredAsks == Asks(Answered) /\ Answered.cart = None /\ Answered.from = None /\ Answered.pc = "done"
BY DEF Asks, Answered, NoAsking

\* One call takes a step that changes no cart.
LEMMA CallMoves ==
  ASSUME CartInv, NEW c \in CartCalls, NEW a \in Asking,
         asking' = [asking EXCEPT ![c] = a], carts' = carts,
         torn' \subseteq Shoppers \X Variants,
         Asks(a),
         \A d \in CartCalls \ {c} :
           asking[d].pc = "merge" /\ carts[asking[d].cart].owner = None =>
             asking[d].cart \notin {a.cart, a.from},
         a.pc = "merge" /\ carts[a.cart].owner = None =>
           \A d \in CartCalls \ {c} : a.cart \notin {asking[d].cart, asking[d].from}
  PROVE  CartInv'
<1>1. asking' \in [CartCalls -> Asking] /\ carts' \in [Carts -> Cart]
  BY DEF CartInv
<1>2. Vacant'
  BY DEF CartInv, Vacant
<1>3. \A d \in CartCalls : asking'[d] = IF d = c THEN a ELSE asking[d]
  BY DEF CartInv
<1>4. \A d \in CartCalls : Asks(asking[d])'
  BY <1>3 DEF CartInv, Asks
<1>5. MakesAlone'
  BY <1>3 DEF CartInv, MakesAlone
<1> QED
  BY <1>1, <1>2, <1>4, <1>5 DEF CartInv

\* A call that gives up, or ends without a write.
LEMMA CallEnds ==
  ASSUME CartInv, NEW c \in CartCalls, Ends(c), carts' = carts, torn' \subseteq Shoppers \X Variants
  PROVE  CartInv'
<1>1. asking' = [asking EXCEPT ![c] = Answered]
  BY DEF Ends
<1>2. Answered \in Asking /\ Asks(Answered) /\ Answered.cart = None /\ Answered.from = None /\ Answered.pc # "merge"
  BY RowTypes, AnsweredAsks
<1>3. \A d \in CartCalls : asking[d].pc = "merge" => asking[d].cart # None
  BY OutOfCarts DEF CartInv, Asks
<1> QED
  BY <1>1, <1>2, <1>3, CallMoves

\* A write that leaves the carts to who they belong to; calls end, or learn
\* that lines are gone.
SameOwners == \A k \in Carts : carts'[k].owner = carts[k].owner /\ carts'[k].guest = carts[k].guest
SameCalls ==
  \A d \in CartCalls :
    \/ asking'[d] = Answered
    \/ asking'[d] = asking[d]
    \/ \E vs \in SUBSET Variants : asking'[d] = [asking[d] EXCEPT !.gone = @ \cup vs]

LEMMA CartsRewritten ==
  ASSUME CartInv, carts' \in [Carts -> Cart], asking' \in [CartCalls -> Asking],
         torn' \subseteq Shoppers \X Variants, SameOwners, SameCalls, Vacant'
  PROVE  CartInv'
<1>1. ASSUME NEW d \in CartCalls
      PROVE  \/ asking'[d] = Answered
             \/ /\ asking'[d].pc = asking[d].pc /\ asking'[d].who = asking[d].who
                /\ asking'[d].cart = asking[d].cart /\ asking'[d].from = asking[d].from
                /\ asking'[d].variant = asking[d].variant /\ asking'[d].seen = asking[d].seen
  <2>1. asking[d] \in Asking
    BY DEF CartInv
  <2> QED
    BY <1>1, <2>1 DEF SameCalls, Asking
<1>2. \A d \in CartCalls : Asks(asking[d])'
  <2> SUFFICES ASSUME NEW d \in CartCalls PROVE Asks(asking[d])'
    OBVIOUS
  <2>1. CASE asking'[d] = Answered
    BY <2>1, AnsweredAsks DEF Asks, Answered, NoAsking
  <2>2. CASE asking'[d] # Answered
    BY <2>2, <1>1 DEF CartInv, Asks, SameOwners
  <2> QED
    BY <2>1, <2>2
<1>3. MakesAlone'
  <2> SUFFICES ASSUME NEW c \in CartCalls, NEW d \in CartCalls, c # d,
                      asking'[c].pc = "merge", carts'[asking'[c].cart].owner = None
               PROVE  asking'[c].cart \notin {asking'[d].cart, asking'[d].from}
    BY DEF MakesAlone
  <2>1. asking'[c].pc = asking[c].pc /\ asking'[c].cart = asking[c].cart
    BY <1>1, AnsweredAsks
  <2>2. asking[c].cart \in Carts
    BY <2>1 DEF CartInv, Asks
  <2>3. asking[c].cart \notin {asking[d].cart, asking[d].from}
    BY <2>1, <2>2 DEF CartInv, MakesAlone, SameOwners
  <2> QED
    BY <1>1, <2>1, <2>2, <2>3, AnsweredAsks, OutOfCarts
<1> QED
  BY <1>2, <1>3 DEF CartInv

LEMMA DeletedIsSame ==
  ASSUME CartInv, NEW c \in CartCalls, NEW k \in Carts, NEW vs \in SUBSET Variants
  PROVE  /\ asking' = Deleted(k, vs) => SameCalls /\ asking' \in [CartCalls -> Asking]
         /\ EndsDeleting(c, k, vs) => SameCalls /\ asking' \in [CartCalls -> Asking]
         /\ Ends(c) => SameCalls /\ asking' \in [CartCalls -> Asking]
<1>1. \A d \in CartCalls : asking[d] \in Asking
  BY DEF CartInv
<1>2. \A d \in CartCalls : [asking[d] EXCEPT !.gone = @ \cup vs] \in Asking
  BY <1>1 DEF Asking
<1>3. CASE asking' = Deleted(k, vs)
  BY <1>1, <1>2, <1>3 DEF Deleted, SameCalls
<1>4. CASE EndsDeleting(c, k, vs)
  BY <1>1, <1>2, <1>4, RowTypes DEF EndsDeleting, Deleted, SameCalls
<1>5. CASE Ends(c)
  BY <1>1, <1>5, RowTypes DEF Ends, SameCalls, CartInv
<1> QED
  BY <1>3, <1>4, <1>5

LEMMA OwnedBy ==
  ASSUME CartInv, NEW s \in Shoppers, NEW guest \in BOOLEAN, NEW k \in Owned(s, guest)
  PROVE  /\ k \in Carts /\ carts[k] \in Cart /\ carts[k].owner = s /\ carts[k].guest = guest
         /\ carts[k].owner # None /\ carts[k].lines \in Lines
BY OutOfCarts DEF CartInv, Owned, Cart

LEMMA AddResolveKeeps ==
  ASSUME CartInv, NEW c \in CartCalls, NEW s \in Shoppers, NEW guest \in BOOLEAN,
         NEW v \in Variants, NEW n \in 1..MaxLine, AddResolve(c, s, guest, v, n)
  PROVE  CartInv'
<1>1. PICK call : call = [NoAsking EXCEPT !.who = s, !.guest = guest, !.variant = v, !.quantity = n]
  OBVIOUS
<1>2. /\ call \in Asking /\ call.who = s /\ call.variant = v /\ call.cart = None /\ call.from = None
  <2>1. n \in Nat
    BY CartAssumption
  <2> QED
    BY <1>1, <2>1, RowTypes DEF Asking, NoAsking
<1>3. /\ carts' = carts /\ torn' \subseteq Shoppers \X Variants
      /\ \/ \E k \in Owned(s, guest) : asking' = [asking EXCEPT ![c] = [call EXCEPT !.pc = "line", !.cart = k]]
         \/ asking' = [asking EXCEPT ![c] = [call EXCEPT !.pc = "create"]]
  BY <1>1 DEF AddResolve, CartInv
<1>4. \A d \in CartCalls : asking[d].pc = "merge" => asking[d].cart # None
  BY OutOfCarts DEF CartInv, Asks
<1>5. ASSUME NEW k \in Owned(s, guest), asking' = [asking EXCEPT ![c] = [call EXCEPT !.pc = "line", !.cart = k]]
      PROVE  CartInv'
  <2>1. PICK a : a = [call EXCEPT !.pc = "line", !.cart = k]
    OBVIOUS
  <2>2. k \in Carts /\ carts[k].owner = s /\ s # None
    BY OwnedBy, OutOfCarts
  <2>3. a \in Asking /\ a.pc = "line" /\ a.cart = k /\ a.from = None /\ a.who = s /\ a.variant = v
    BY <1>2, <2>1, <2>2 DEF Asking
  <2>4. Asks(a)
    BY <2>2, <2>3 DEF Asks
  <2>5. asking' = [asking EXCEPT ![c] = a]
    BY <1>5, <2>1
  <2>6. \A d \in CartCalls \ {c} :
           asking[d].pc = "merge" /\ carts[asking[d].cart].owner = None =>
             asking[d].cart \notin {a.cart, a.from}
    BY <1>4, <2>2, <2>3
  <2> QED
    BY <1>3, <2>3, <2>4, <2>5, <2>6, CallMoves
<1>6. ASSUME asking' = [asking EXCEPT ![c] = [call EXCEPT !.pc = "create"]]
      PROVE  CartInv'
  <2>1. PICK a : a = [call EXCEPT !.pc = "create"]
    OBVIOUS
  <2>3. a \in Asking /\ a.pc = "create" /\ a.cart = None /\ a.from = None /\ a.who = s /\ a.variant = v
    BY <1>2, <2>1 DEF Asking
  <2>4. Asks(a)
    BY <2>3 DEF Asks
  <2>5. asking' = [asking EXCEPT ![c] = a]
    BY <1>6, <2>1
  <2>6. \A d \in CartCalls \ {c} :
           asking[d].pc = "merge" /\ carts[asking[d].cart].owner = None =>
             asking[d].cart \notin {a.cart, a.from}
    BY <1>4, <2>3
  <2> QED
    BY <1>3, <2>3, <2>4, <2>5, <2>6, CallMoves
<1> QED
  BY <1>3, <1>5, <1>6

LEMMA CreateKeeps ==
  ASSUME CartInv, NEW c \in CartCalls, NEW k \in Carts, Create(c, k)
  PROVE  CartInv'
<1> DEFINE old == asking[c]
<1>1. CASE Fails(c)
  BY <1>1, CallEnds DEF Fails, CartInv
<1>2. CASE ~Fails(c)
  <2>1. /\ old.pc = "create" /\ Fresh(k)
        /\ carts' = [carts EXCEPT ![k] = [NoCart EXCEPT !.owner = old.who, !.guest = old.guest]]
        /\ asking' = [asking EXCEPT ![c] = [old EXCEPT !.pc = "line", !.cart = k]]
        /\ torn' = torn
    BY <1>2 DEF Create
  <2>2. old \in Asking /\ old.who \in Shoppers /\ old.variant \in Variants /\ old.from = None
    BY <2>1 DEF CartInv, Asks
  <2>3. PICK a : a = [old EXCEPT !.pc = "line", !.cart = k]
    OBVIOUS
  <2>4. a \in Asking /\ a.pc = "line" /\ a.cart = k /\ a.from = None /\ a.who = old.who /\ a.variant = old.variant
    BY <2>2, <2>3 DEF Asking
  <2>5. PICK new : new = [NoCart EXCEPT !.owner = old.who, !.guest = old.guest]
    OBVIOUS
  <2>6. new \in Cart /\ new.owner = old.who /\ new.owner # None
    BY <2>2, <2>5, RowTypes, OutOfCarts DEF Cart, NoCart, Asking
  <2>7. asking' = [asking EXCEPT ![c] = a] /\ carts' = [carts EXCEPT ![k] = new]
    BY <2>1, <2>3, <2>5
  <2>8. \A d \in CartCalls : k \notin {asking[d].cart, asking[d].from}
    BY <2>1 DEF Fresh
  <2>9. \A d \in CartCalls : asking'[d] = IF d = c THEN a ELSE asking[d]
    BY <2>7 DEF CartInv
  <2>10. \A j \in Carts : carts'[j] = IF j = k THEN new ELSE carts[j]
    BY <2>7 DEF CartInv
  <2> HIDE DEF old
  <2>11. asking' \in [CartCalls -> Asking] /\ carts' \in [Carts -> Cart] /\ torn' \subseteq Shoppers \X Variants
    BY <2>1, <2>4, <2>6, <2>7 DEF CartInv
  <2>12. Vacant'
    BY <2>6, <2>10 DEF CartInv, Vacant
  <2>13. ASSUME NEW d \in CartCalls PROVE Asks(asking[d])'
    <3>1. CASE d = c
      BY <2>2, <2>4, <2>6, <2>9, <2>10, <3>1 DEF Asks
    <3>2. CASE d # c
      <4>1. asking'[d] = asking[d] /\ Asks(asking[d])
        BY <2>9, <3>2 DEF CartInv
      <4>2. asking[d].cart \in Carts => carts'[asking[d].cart] = carts[asking[d].cart]
        BY <2>8, <2>10
      <4>3. asking[d].from \in Carts => carts'[asking[d].from] = carts[asking[d].from]
        BY <2>8, <2>10
      <4> QED
        BY <4>1, <4>2, <4>3 DEF Asks
    <3> QED
      BY <3>1, <3>2
  <2>14. MakesAlone'
    <3> SUFFICES ASSUME NEW d \in CartCalls, NEW e \in CartCalls, d # e,
                        asking'[d].pc = "merge", carts'[asking'[d].cart].owner = None
                 PROVE  asking'[d].cart \notin {asking'[e].cart, asking'[e].from}
      BY DEF MakesAlone
    <3>1. d # c /\ asking'[d] = asking[d]
      BY <2>4, <2>9
    <3>2. asking[d].cart \in Carts /\ asking[d].cart # k
      BY <2>8, <3>1 DEF CartInv, Asks
    <3>3. carts[asking[d].cart].owner = None
      BY <2>10, <3>1, <3>2
    <3>4. asking[d].cart \notin {asking[e].cart, asking[e].from}
      BY <3>1, <3>3 DEF CartInv, MakesAlone
    <3> QED
      BY <2>4, <2>9, <3>1, <3>2, <3>4, OutOfCarts
  <2> QED
    BY <2>11, <2>12, <2>13, <2>14 DEF CartInv
<1> QED
  BY <1>1, <1>2

LEMMA MergeOwnKeeps ==
  ASSUME CartInv, NEW c \in CartCalls, NEW k \in Carts, MergeOwn(c, k)
  PROVE  CartInv'
<1>1. PICK old : old = asking[c]
  OBVIOUS
<1>2. /\ old \in Asking /\ old.pc = "own" /\ old.who \in Shoppers /\ old.from \in Carts
      /\ carts[old.from].owner # None => carts[old.from].owner = old.who /\ carts[old.from].guest
  BY <1>1 DEF MergeOwn, CartInv, Asks
<1>3. PICK a : a = [old EXCEPT !.pc = "merge", !.cart = k, !.seen = carts[k].lines,
                                !.coupon = @ /\ ~carts[k].coupon]
  OBVIOUS
<1>4. asking' = [asking EXCEPT ![c] = a] /\ carts' = carts /\ torn' = torn
  BY <1>1, <1>3 DEF MergeOwn
<1>5. carts[k] \in Cart
  BY DEF CartInv
<1>6. a \in Asking /\ a.pc = "merge" /\ a.cart = k /\ a.from = old.from /\ a.who = old.who /\ a.seen = carts[k].lines
  BY <1>2, <1>3, <1>5 DEF Asking, Cart
<1>7. CASE k \in Owned(old.who, FALSE)
  <2>1. carts[k].owner = old.who /\ ~carts[k].guest /\ carts[k].owner # None
    BY <1>2, <1>7, OutOfCarts DEF Owned
  <2>2. Asks(a)
    BY <1>2, <1>6, <2>1 DEF Asks
  <2>3. \A d \in CartCalls \ {c} :
           asking[d].pc = "merge" /\ carts[asking[d].cart].owner = None =>
             asking[d].cart \notin {a.cart, a.from}
    BY <1>1, <1>6, <2>1 DEF CartInv, MakesAlone
  <2> QED
    BY <1>4, <1>6, <2>1, <2>2, <2>3, CallMoves DEF CartInv
<1>8. CASE Fresh(k)
  <2>1. /\ carts[k].owner = None /\ carts[k] = NoCart
        /\ \A d \in CartCalls : k \notin {asking[d].cart, asking[d].from}
    BY <1>8 DEF Fresh, CartInv, Vacant
  <2>2. carts[k].lines = NoLines /\ ~carts[k].guest
    BY <2>1 DEF NoCart
  <2>3. Asks(a)
    BY <1>1, <1>2, <1>6, <2>1, <2>2 DEF Asks
  <2>4. \A d \in CartCalls \ {c} :
           asking[d].pc = "merge" /\ carts[asking[d].cart].owner = None =>
             asking[d].cart \notin {a.cart, a.from}
    BY <1>1, <1>6, <2>1 DEF CartInv, MakesAlone
  <2> QED
    BY <1>4, <1>6, <2>1, <2>3, <2>4, CallMoves DEF CartInv
<1> QED
  BY <1>1, <1>7, <1>8 DEF MergeOwn

LEMMA AddReadKeeps ==
  ASSUME CartInv, NEW c \in CartCalls, NEW available, AddRead(c, available)
  PROVE  CartInv'
<1>1. PICK old : old = asking[c]
  OBVIOUS
<1>2. PICK here : here = carts[old.cart].lines[old.variant]
  OBVIOUS
<1>3. /\ old \in Asking /\ old.pc = "line" /\ old.who \in Shoppers /\ old.variant \in Variants
      /\ old.from = None /\ old.cart \in Carts /\ carts[old.cart].owner \in {old.who, None}
  BY <1>1 DEF AddRead, CartInv, Asks
<1>4. here \in Nat
  BY <1>2, <1>3 DEF CartInv, Cart, Lines
<1>5. CASE Fails(c)
  BY <1>5, CallEnds DEF Fails, CartInv
<1>6. CASE ~Fails(c)
  <2>1. PICK a : a = [old EXCEPT !.pc = "write", !.quantity = @ + here, !.seen[old.variant] = here]
    OBVIOUS
  <2>2. asking' = [asking EXCEPT ![c] = a] /\ carts' = carts /\ torn' = torn
    BY <1>1, <1>2, <1>6, <2>1 DEF AddRead
  <2>3. a \in Asking /\ a.pc = "write" /\ a.cart = old.cart /\ a.from = None /\ a.who = old.who /\ a.variant = old.variant
    <3>1. PICK seen : seen = [old.seen EXCEPT ![old.variant] = here]
      OBVIOUS
    <3>2. seen \in Lines
      BY <1>3, <1>4, <3>1 DEF Asking, Lines
    <3>3. PICK sum : sum = old.quantity + here
      OBVIOUS
    <3>4. sum \in Nat
      BY <1>3, <1>4, <3>3 DEF Asking
    <3>5. a = [old EXCEPT !.pc = "write", !.quantity = sum, !.seen = seen]
      BY <2>1, <3>1, <3>3
    <3> QED
      BY <1>3, <3>2, <3>4, <3>5 DEF Asking
  <2>4. Asks(a)
    BY <1>3, <2>3 DEF Asks
  <2>5. \A d \in CartCalls \ {c} :
           asking[d].pc = "merge" /\ carts[asking[d].cart].owner = None =>
             asking[d].cart \notin {a.cart, a.from}
    BY <1>1, <1>3, <2>3, OutOfCarts DEF CartInv, MakesAlone, Asks
  <2> QED
    BY <2>2, <2>3, <2>4, <2>5, CallMoves DEF CartInv
<1> QED
  BY <1>5, <1>6

LEMMA UpdateReadKeeps ==
  ASSUME CartInv, NEW c \in CartCalls, NEW s \in Shoppers, NEW guest \in BOOLEAN, NEW k \in Carts,
         NEW v \in Variants, NEW n \in 0..MaxLine, NEW available, UpdateRead(c, s, guest, k, v, n, available)
  PROVE  CartInv'
<1>1. k \in Owned(s, guest)
  BY DEF UpdateRead
<1>2. carts[k].owner = s /\ s # None /\ carts[k].lines \in Lines
  BY <1>1, OwnedBy, OutOfCarts
<1>3. PICK here : here = carts[k].lines[v]
  OBVIOUS
<1>4. n \in Nat /\ here \in Nat
  BY <1>2, <1>3, CartAssumption DEF Lines
<1>5. PICK a : a = [NoAsking EXCEPT !.pc = "write", !.who = s, !.guest = guest, !.cart = k,
                                    !.variant = v, !.quantity = n, !.seen[v] = here]
  OBVIOUS
<1>6. asking' = [asking EXCEPT ![c] = a] /\ carts' = carts /\ torn' = torn
  BY <1>3, <1>5 DEF UpdateRead
<1>7. a \in Asking /\ a.pc = "write" /\ a.cart = k /\ a.from = None /\ a.who = s /\ a.variant = v
  <2>1. PICK seen : seen = [NoLines EXCEPT ![v] = here]
    OBVIOUS
  <2>2. seen \in Lines
    BY <1>4, <2>1 DEF Lines, NoLines
  <2>3. a = [NoAsking EXCEPT !.pc = "write", !.who = s, !.guest = guest, !.cart = k,
                             !.variant = v, !.quantity = n, !.seen = seen]
    BY <1>5, <2>1 DEF NoAsking
  <2>4. NoAsking \in Asking /\ NoAsking.from = None
    BY RowTypes DEF NoAsking
  <2> QED
    BY <1>4, <2>2, <2>3, <2>4 DEF Asking
<1>8. Asks(a)
  BY <1>2, <1>7 DEF Asks
<1>9. \A d \in CartCalls \ {c} :
         asking[d].pc = "merge" /\ carts[asking[d].cart].owner = None =>
           asking[d].cart \notin {a.cart, a.from}
  BY <1>2, <1>7, OutOfCarts DEF CartInv, Asks
<1> QED
  BY <1>6, <1>7, <1>8, <1>9, CallMoves DEF CartInv

LEMMA MergeGuestKeeps ==
  ASSUME CartInv, NEW c \in CartCalls, NEW s \in Shoppers, MergeGuest(c, s)
  PROVE  CartInv'
<1>1. PICK g \in Owned(s, TRUE) :
        asking' = [asking EXCEPT ![c] = [NoAsking EXCEPT
          !.pc = "own", !.who = s, !.from = g, !.taken = carts[g].lines, !.coupon = carts[g].coupon]]
  BY DEF MergeGuest
<1>2. g \in Carts /\ carts[g].owner = s /\ carts[g].guest /\ s # None /\ carts[g] \in Cart
  BY OwnedBy, OutOfCarts
<1>3. PICK a : a = [NoAsking EXCEPT !.pc = "own", !.who = s, !.from = g, !.taken = carts[g].lines,
                                    !.coupon = carts[g].coupon]
  OBVIOUS
<1>4. asking' = [asking EXCEPT ![c] = a] /\ carts' = carts /\ torn' = torn
  BY <1>1, <1>3 DEF MergeGuest
<1>5. a \in Asking /\ a.pc = "own" /\ a.cart = None /\ a.from = g /\ a.who = s
  <2>1. PICK lines, coupon : lines = carts[g].lines /\ coupon = carts[g].coupon
    OBVIOUS
  <2>2. lines \in Lines /\ coupon \in BOOLEAN
    BY <1>2, <2>1 DEF Cart
  <2>3. a = [NoAsking EXCEPT !.pc = "own", !.who = s, !.from = g, !.taken = lines, !.coupon = coupon]
    BY <1>3, <2>1
  <2>4. NoAsking \in Asking /\ NoAsking.cart = None
    BY RowTypes DEF NoAsking
  <2> QED
    BY <1>2, <2>2, <2>3, <2>4 DEF Asking
<1>6. Asks(a)
  BY <1>2, <1>5 DEF Asks
<1>7. \A d \in CartCalls \ {c} :
         asking[d].pc = "merge" /\ carts[asking[d].cart].owner = None =>
           asking[d].cart \notin {a.cart, a.from}
  BY <1>2, <1>5, OutOfCarts DEF CartInv, Asks
<1> QED
  BY <1>4, <1>5, <1>6, <1>7, CallMoves DEF CartInv

LEMMA TornGrows ==
  ASSUME CartInv, NEW s \in Shoppers, NEW units, NEW vs \in SUBSET Variants, Records(s, units, vs)
  PROVE  torn' \subseteq Shoppers \X Variants
BY DEF CartInv, Records

LEMMA WriteKeeps ==
  ASSUME CartInv, NEW c \in CartCalls, Write(c)
  PROVE  CartInv'
<1>1. PICK a : a = asking[c]
  OBVIOUS
<1>2. /\ a \in Asking /\ a.pc = "write" /\ a.who \in Shoppers /\ a.variant \in Variants
      /\ a.from = None /\ a.cart \in Carts /\ carts[a.cart].owner \in {a.who, None}
  BY <1>1 DEF Write, CartInv, Asks
<1>3. CASE Fails(c)
  BY <1>3, CallEnds DEF Fails, CartInv
<1>4. CASE ~Fails(c)
  <2>1. /\ ~WriteFails(a, a.variant)
        /\ carts' = [carts EXCEPT ![a.cart].lines[a.variant] = a.quantity]
        /\ EndsDeleting(c, a.cart, {a.variant}) \/ Ends(c)
        /\ \E units : Records(a.who, units, Unread(a.cart, a.seen) \cap {a.variant})
    BY <1>1, <1>4 DEF Write
  <2>2. carts[a.cart].owner # None
    BY <1>2, <2>1 DEF WriteFails
  <2>3. a.quantity \in Nat
    BY <1>2 DEF Asking
  <2>4. PICK lines : lines = [carts[a.cart].lines EXCEPT ![a.variant] = a.quantity]
    OBVIOUS
  <2>5. PICK new : new = [carts[a.cart] EXCEPT !.lines = lines]
    OBVIOUS
  <2>6. lines \in Lines
    BY <1>2, <2>3, <2>4 DEF CartInv, Cart, Lines
  <2>7. new \in Cart /\ new.owner = carts[a.cart].owner /\ new.guest = carts[a.cart].guest
    BY <1>2, <2>5, <2>6 DEF CartInv, Cart
  <2>8. carts' = [carts EXCEPT ![a.cart] = new]
    BY <2>1, <2>4, <2>5
  <2>9. carts' \in [Carts -> Cart] /\ SameOwners
    BY <1>2, <2>7, <2>8 DEF CartInv, SameOwners
  <2>10. Vacant'
    BY <1>2, <2>2, <2>7, <2>8 DEF CartInv, Vacant
  <2>11. SameCalls /\ asking' \in [CartCalls -> Asking]
    BY <1>2, <2>1, DeletedIsSame
  <2>12. torn' \subseteq Shoppers \X Variants
    BY <1>2, <2>1, TornGrows DEF Unread
  <2> QED
    BY <2>9, <2>10, <2>11, <2>12, CartsRewritten
<1> QED
  BY <1>3, <1>4

LEMMA DeleteKeeps ==
  ASSUME CartInv, NEW c \in CartCalls, NEW s \in Shoppers, NEW guest \in BOOLEAN, NEW k \in Carts,
         NEW vs \in SUBSET Variants, Delete(c, s, guest, k, vs)
  PROVE  CartInv'
<1>1. k \in Owned(s, guest)
  BY DEF Delete
<1>2. carts[k].owner = s /\ s # None /\ carts[k] \in Cart /\ carts[k].lines \in Lines
  BY <1>1, OwnedBy, OutOfCarts
<1>3. PICK lines : lines = [v \in Variants |-> IF v \in vs THEN 0 ELSE carts[k].lines[v]]
  OBVIOUS
<1>4. PICK coupon : coupon = IF vs = Variants THEN FALSE ELSE carts[k].coupon
  OBVIOUS
<1>5. PICK new : new = [carts[k] EXCEPT !.lines = lines, !.coupon = coupon]
  OBVIOUS
<1>6. lines \in Lines /\ coupon \in BOOLEAN
  BY <1>2, <1>3, <1>4 DEF Lines, Cart
<1>7. new \in Cart /\ new.owner = carts[k].owner /\ new.guest = carts[k].guest
  BY <1>2, <1>5, <1>6 DEF Cart
<1>8. carts' = [carts EXCEPT ![k] = new]
  BY <1>2, <1>3, <1>4, <1>5 DEF Delete, CartInv
<1>9. carts' \in [Carts -> Cart] /\ SameOwners
  BY <1>7, <1>8 DEF CartInv, SameOwners
<1>10. Vacant'
  BY <1>2, <1>7, <1>8 DEF CartInv, Vacant
<1>11. SameCalls /\ asking' \in [CartCalls -> Asking]
  BY DeletedIsSame DEF Delete
<1>12. torn' \subseteq Shoppers \X Variants
  BY TornGrows DEF Delete
<1> QED
  BY <1>9, <1>10, <1>11, <1>12, CartsRewritten

LEMMA CouponKeeps ==
  ASSUME CartInv, NEW c \in CartCalls, NEW s \in Shoppers, NEW guest \in BOOLEAN, NEW k \in Carts,
         NEW applied \in BOOLEAN, Coupon(c, s, guest, k, applied)
  PROVE  CartInv'
<1>1. k \in Owned(s, guest)
  BY DEF Coupon
<1>2. carts[k].owner = s /\ s # None /\ carts[k] \in Cart
  BY <1>1, OwnedBy, OutOfCarts
<1>3. PICK new : new = [carts[k] EXCEPT !.coupon = applied]
  OBVIOUS
<1>4. new \in Cart /\ new.owner = carts[k].owner /\ new.guest = carts[k].guest
  BY <1>2, <1>3 DEF Cart
<1>5. carts' = [carts EXCEPT ![k] = new]
  BY <1>3 DEF Coupon
<1>6. carts' \in [Carts -> Cart] /\ SameOwners
  BY <1>4, <1>5 DEF CartInv, SameOwners
<1>7. Vacant'
  BY <1>2, <1>4, <1>5 DEF CartInv, Vacant
<1>8. SameCalls /\ asking' \in [CartCalls -> Asking]
  BY DeletedIsSame DEF Coupon
<1> QED
  BY <1>6, <1>7, <1>8, CartsRewritten DEF Coupon, CartInv

\* Placing an order empties the cart it was read from.
LEMMA EmptiedKeeps ==
  ASSUME CartInv, NEW k \in Carts, carts[k].owner # None, NEW vs \in SUBSET Variants,
         carts' = Emptied(k), asking' = Deleted(k, vs), torn' \subseteq Shoppers \X Variants
  PROVE  CartInv' /\ SameOwners
<1>1. carts[k] \in Cart
  BY DEF CartInv
<1>2. PICK new : new = [carts[k] EXCEPT !.lines = NoLines, !.coupon = FALSE]
  OBVIOUS
<1>3. new \in Cart /\ new.owner = carts[k].owner /\ new.guest = carts[k].guest
  BY <1>1, <1>2, RowTypes DEF Cart
<1>4. carts' = [carts EXCEPT ![k] = new]
  BY <1>2 DEF Emptied, CartInv
<1>5. carts' \in [Carts -> Cart] /\ SameOwners
  BY <1>3, <1>4 DEF CartInv, SameOwners
<1>6. Vacant'
  BY <1>3, <1>4 DEF CartInv, Vacant
<1>7. \A d \in CartCalls : asking[d] \in Asking /\ [asking[d] EXCEPT !.gone = @ \cup vs] \in Asking
  BY DEF CartInv, Asking
<1>8. SameCalls /\ asking' \in [CartCalls -> Asking]
  BY <1>7 DEF Deleted, SameCalls
<1> QED
  BY <1>5, <1>6, <1>8, CartsRewritten

\* What a merge does to the two carts.
Merged(a) == [v \in Variants |-> IF a.taken[v] > 0 THEN a.seen[v] + a.taken[v] ELSE carts[a.cart].lines[v]]
Torn(a) == Unread(a.from, a.taken) \cup ({v \in Variants : a.taken[v] > 0} \cap Unread(a.cart, a.seen))

LEMMA MergeDoes ==
  ASSUME CartInv, NEW c \in CartCalls, Merge(c), ~Fails(c), NEW a, a = asking[c]
  PROVE  /\ a \in Asking /\ a.who \in Shoppers /\ a.cart \in Carts /\ a.from \in Carts /\ a.cart # a.from
         /\ a.pc = "merge"
         /\ carts[a.from].owner = a.who /\ carts[a.from].guest
         /\ carts[a.cart].owner \in {a.who, None} /\ ~carts[a.cart].guest
         /\ carts[a.cart].owner = None => a.seen = NoLines
         /\ Merged(a) \in Lines
         /\ \E home \in Cart :
              /\ home.owner = a.who /\ ~home.guest /\ home.lines = Merged(a)
              /\ carts' = [carts EXCEPT ![a.cart] = home, ![a.from] = NoCart]
         /\ EndsDeleting(c, a.from, Variants)
         /\ Records(a.who, wanted[a.who], Torn(a))
<1>1. /\ a \in Asking /\ a.pc = "merge" /\ a.who \in Shoppers /\ a.cart \in Carts /\ a.from \in Carts
      /\ a.cart # a.from
      /\ carts[a.from].owner # None => carts[a.from].owner = a.who /\ carts[a.from].guest
      /\ carts[a.cart].owner \in {a.who, None} /\ ~carts[a.cart].guest
      /\ carts[a.cart].owner = None => a.seen = NoLines
  BY DEF Merge, CartInv, Asks
<1>2. /\ carts[a.from].owner # None
      /\ carts' = [carts EXCEPT
                   ![a.cart].owner = a.who,
                   ![a.cart].lines =
                     [v \in Variants |-> IF v \in {u \in Variants : a.taken[u] > 0} THEN a.seen[v] + a.taken[v] ELSE @[v]],
                   ![a.cart].coupon = @ \/ a.coupon,
                   ![a.from] = NoCart]
      /\ EndsDeleting(c, a.from, Variants)
      /\ Records(a.who, wanted[a.who], Torn(a))
  BY DEF Merge, GuestGone, Torn
<1>3. carts[a.cart] \in Cart /\ a.seen \in Lines /\ a.taken \in Lines /\ a.coupon \in BOOLEAN
  BY <1>1 DEF CartInv, Asking
<1>4. Merged(a) \in Lines
  BY <1>3 DEF Merged, Cart, Lines
<1>5. PICK coupon : coupon = (carts[a.cart].coupon \/ a.coupon)
  OBVIOUS
<1>6. coupon \in BOOLEAN
  BY <1>5
<1>7. PICK home : home = [carts[a.cart] EXCEPT !.owner = a.who, !.lines = Merged(a), !.coupon = coupon]
  OBVIOUS
<1>8. home \in Cart /\ home.owner = a.who /\ ~home.guest /\ home.lines = Merged(a)
  BY <1>1, <1>3, <1>4, <1>6, <1>7 DEF Cart
<1>9. Merged(a) = [v \in Variants |-> IF v \in {u \in Variants : a.taken[u] > 0} THEN a.seen[v] + a.taken[v]
                                      ELSE carts[a.cart].lines[v]]
  BY DEF Merged
<1>10. carts' = [carts EXCEPT ![a.cart] = home, ![a.from] = NoCart]
  <2>1. carts' = [carts EXCEPT ![a.cart].owner = a.who, ![a.cart].lines = Merged(a),
                               ![a.cart].coupon = coupon, ![a.from] = NoCart]
    BY ONLY <1>1, <1>2, <1>3, <1>5, <1>9, CartInv DEF CartInv
  <2> QED
    BY ONLY <2>1, <1>1, <1>3, <1>7, CartInv DEF CartInv, Cart
<1> QED
  BY <1>1, <1>2, <1>4, <1>8, <1>10

LEMMA MergeKeeps ==
  ASSUME CartInv, NEW c \in CartCalls, Merge(c)
  PROVE  CartInv'
<1>1. PICK a : a = asking[c]
  OBVIOUS
<1>2. CASE Fails(c)
  BY <1>2, CallEnds DEF Fails, CartInv
<1>3. CASE ~Fails(c)
  <2>1. /\ a \in Asking /\ a.who \in Shoppers /\ a.cart \in Carts /\ a.from \in Carts /\ a.cart # a.from
        /\ a.pc = "merge"
        /\ carts[a.from].owner = a.who /\ carts[a.from].guest
        /\ carts[a.cart].owner \in {a.who, None} /\ ~carts[a.cart].guest
    BY <1>1, <1>3, MergeDoes
  <2>2. PICK home \in Cart :
          /\ home.owner = a.who /\ ~home.guest
          /\ carts' = [carts EXCEPT ![a.cart] = home, ![a.from] = NoCart]
    BY <1>1, <1>3, MergeDoes
  <2>3. EndsDeleting(c, a.from, Variants) /\ torn' \subseteq Shoppers \X Variants
    <3>1. EndsDeleting(c, a.from, Variants) /\ Records(a.who, wanted[a.who], Torn(a))
      BY <1>1, <1>3, MergeDoes
    <3>2. Torn(a) \in SUBSET Variants
      BY DEF Torn, Unread
    <3> QED
      BY <2>1, <3>1, <3>2, TornGrows
  <2>4. asking' \in [CartCalls -> Asking] /\ SameCalls
    BY <2>1, <2>3, DeletedIsSame
  <2>5. asking'[c] = Answered
    BY <2>3 DEF EndsDeleting, Deleted
  <2>6. \A k \in Carts : carts'[k] = IF k = a.from THEN NoCart ELSE IF k = a.cart THEN home ELSE carts[k]
    BY <2>1, <2>2 DEF CartInv
  <2>7. carts' \in [Carts -> Cart]
    BY <2>1, <2>2, RowTypes DEF CartInv
  <2>8. NoCart.owner = None /\ ~NoCart.guest /\ a.who # None
    BY <2>1, OutOfCarts DEF NoCart
  <2>9. Vacant'
    BY <2>2, <2>6, <2>8 DEF CartInv, Vacant
  <2>10. \A d \in CartCalls : asking'[d] # Answered =>
           /\ d # c
           /\ asking'[d].pc = asking[d].pc /\ asking'[d].who = asking[d].who
           /\ asking'[d].cart = asking[d].cart /\ asking'[d].from = asking[d].from
           /\ asking'[d].variant = asking[d].variant /\ asking'[d].seen = asking[d].seen
    <3> SUFFICES ASSUME NEW d \in CartCalls, asking'[d] # Answered
                 PROVE  /\ d # c
                        /\ asking'[d].pc = asking[d].pc /\ asking'[d].who = asking[d].who
                        /\ asking'[d].cart = asking[d].cart /\ asking'[d].from = asking[d].from
                        /\ asking'[d].variant = asking[d].variant /\ asking'[d].seen = asking[d].seen
      OBVIOUS
    <3>1. asking[d] \in Asking
      BY DEF CartInv
    <3> QED
      BY <2>4, <2>5, <3>1 DEF SameCalls, Asking
  \* The cart the merge makes is nobody else's, and no other merge is into a guest cart.
  <2>11. \A d \in CartCalls : d # c /\ carts[a.cart].owner = None => a.cart \notin {asking[d].cart, asking[d].from}
    BY <1>1, <2>1 DEF CartInv, MakesAlone
  <2>12. ASSUME NEW d \in CartCalls PROVE Asks(asking[d])'
    <3>1. CASE asking'[d] = Answered
      BY <3>1, AnsweredAsks DEF Asks, Answered, NoAsking
    <3>2. CASE asking'[d] # Answered
      <4>1. /\ d # c /\ Asks(asking[d])
            /\ asking'[d].pc = asking[d].pc /\ asking'[d].who = asking[d].who
            /\ asking'[d].cart = asking[d].cart /\ asking'[d].from = asking[d].from
            /\ asking'[d].variant = asking[d].variant /\ asking'[d].seen = asking[d].seen
        BY <2>10, <3>2 DEF CartInv
      <4>2. /\ asking[d].pc \notin {"idle", "done"} => asking[d].who \in Shoppers
            /\ asking[d].pc \in {"create", "line", "write"} => asking[d].variant \in Variants /\ asking[d].from = None
        BY <4>1 DEF Asks
      <4>3. asking[d].pc \in {"line", "write"} =>
              asking[d].cart \in Carts /\ carts'[asking[d].cart].owner \in {asking[d].who, None}
        <5> SUFFICES ASSUME asking[d].pc \in {"line", "write"}
                     PROVE  asking[d].cart \in Carts /\ carts'[asking[d].cart].owner \in {asking[d].who, None}
          OBVIOUS
        <5>1. asking[d].cart \in Carts /\ carts[asking[d].cart].owner \in {asking[d].who, None}
          BY <4>1 DEF Asks
        <5>2. CASE asking[d].cart = a.from
          BY <2>6, <2>8, <5>1, <5>2
        <5>3. CASE asking[d].cart = a.cart
          BY <2>1, <2>2, <2>6, <2>11, <4>1, <5>1, <5>3
        <5>4. CASE asking[d].cart \notin {a.cart, a.from}
          BY <2>6, <5>1, <5>4
        <5> QED
          BY <5>1, <5>2, <5>3, <5>4
      <4>4. asking[d].pc \in {"own", "merge"} =>
              /\ asking[d].from \in Carts
              /\ carts'[asking[d].from].owner # None =>
                   carts'[asking[d].from].owner = asking[d].who /\ carts'[asking[d].from].guest
        BY <2>1, <2>6, <2>8, <2>11, <4>1 DEF Asks
      <4>5. asking[d].pc = "merge" =>
              /\ asking[d].cart \in Carts /\ asking[d].cart # asking[d].from
              /\ carts'[asking[d].cart].owner \in {asking[d].who, None} /\ ~carts'[asking[d].cart].guest
              /\ carts'[asking[d].cart].owner = None => asking[d].seen = NoLines
        <5> SUFFICES ASSUME asking[d].pc = "merge"
                     PROVE  /\ asking[d].cart \in Carts /\ asking[d].cart # asking[d].from
                            /\ carts'[asking[d].cart].owner \in {asking[d].who, None}
                            /\ ~carts'[asking[d].cart].guest
                            /\ carts'[asking[d].cart].owner = None => asking[d].seen = NoLines
          OBVIOUS
        <5>1. /\ asking[d].cart \in Carts /\ asking[d].cart # asking[d].from
              /\ carts[asking[d].cart].owner \in {asking[d].who, None} /\ ~carts[asking[d].cart].guest
              /\ carts[asking[d].cart].owner = None => asking[d].seen = NoLines
          BY <4>1 DEF Asks
        <5>2. asking[d].cart # a.from
          BY <2>1, <5>1
        <5>3. CASE asking[d].cart = a.cart
          BY <2>1, <2>2, <2>6, <2>8, <2>11, <4>1, <5>1, <5>3
        <5>4. CASE asking[d].cart # a.cart
          BY <2>6, <5>1, <5>2, <5>4
        <5> QED
          BY <5>3, <5>4
      <4> QED
        BY <4>1, <4>2, <4>3, <4>4, <4>5 DEF Asks
    <3> QED
      BY <3>1, <3>2
  <2>13. MakesAlone'
    <3> SUFFICES ASSUME NEW d \in CartCalls, NEW e \in CartCalls, d # e,
                        asking'[d].pc = "merge", carts'[asking'[d].cart].owner = None
                 PROVE  asking'[d].cart \notin {asking'[e].cart, asking'[e].from}
      BY DEF MakesAlone
    <3>1. d # c /\ asking'[d].cart = asking[d].cart /\ asking[d].pc = "merge"
      BY <2>10, AnsweredAsks
    <3>2. asking[d].cart \in Carts /\ ~carts[asking[d].cart].guest
      BY <3>1 DEF CartInv, Asks
    <3>3. carts[asking[d].cart].owner = None
      BY <2>1, <2>2, <2>6, <2>8, <3>1, <3>2
    <3>4. asking[d].cart \notin {asking[e].cart, asking[e].from}
      BY <3>1, <3>3 DEF CartInv, MakesAlone
    <3> QED
      BY <2>10, <3>1, <3>2, <3>4, AnsweredAsks, OutOfCarts
  <2> QED
    BY <2>3, <2>4, <2>7, <2>9, <2>12, <2>13 DEF CartInv
<1> QED
  BY <1>2, <1>3

LEMMA CartStepKeeps ==
  ASSUME CartInv, NEW c \in CartCalls, NEW available, CartStep(c, available)
  PROVE  CartInv'
<1>1. CASE \E s \in Shoppers, guest \in BOOLEAN, v \in Variants, n \in 1..MaxLine : AddResolve(c, s, guest, v, n)
  BY <1>1, AddResolveKeeps
<1>2. CASE \E k \in Carts : Create(c, k) \/ MergeOwn(c, k)
  BY <1>2, CreateKeeps, MergeOwnKeeps
<1>3. CASE AddRead(c, available)
  BY <1>3, AddReadKeeps
<1>4. CASE Write(c) \/ Merge(c)
  BY <1>4, WriteKeeps, MergeKeeps
<1>5. CASE \E s \in Shoppers, guest \in BOOLEAN, k \in Carts, v \in Variants, n \in 0..MaxLine :
             UpdateRead(c, s, guest, k, v, n, available[v])
  BY <1>5, UpdateReadKeeps
<1>6. CASE \E s \in Shoppers, guest \in BOOLEAN, k \in Carts, vs \in SUBSET Variants : Delete(c, s, guest, k, vs)
  BY <1>6, DeleteKeeps
<1>7. CASE \E s \in Shoppers, guest \in BOOLEAN, k \in Carts, applied \in BOOLEAN : Coupon(c, s, guest, k, applied)
  BY <1>7, CouponKeeps
<1>8. CASE \E s \in Shoppers : MergeGuest(c, s)
  BY <1>8, MergeGuestKeeps
<1> QED
  BY <1>1, <1>2, <1>3, <1>4, <1>5, <1>6, <1>7, <1>8 DEF CartStep

\* A customer's cart is never taken away.
Customers == \A k \in Carts :
  carts[k].owner # None /\ ~carts[k].guest => carts'[k].owner = carts[k].owner /\ ~carts'[k].guest

LEMMA CartStepCustomers ==
  ASSUME CartInv, NEW c \in CartCalls, NEW available, CartStep(c, available)
  PROVE  Customers
<1>1. CASE carts' = carts
  BY <1>1 DEF Customers
<1>2. CASE \E k \in Carts : Create(c, k) /\ ~Fails(c)
  <2>1. PICK k \in Carts : Create(c, k) /\ ~Fails(c)
    BY <1>2
  <2>2. /\ carts[k].owner = None
        /\ \E new : carts' = [carts EXCEPT ![k] = new]
    BY <2>1 DEF Create, Fresh
  <2> QED
    BY <2>2 DEF Customers, CartInv
<1>3. CASE Write(c) /\ ~Fails(c)
  <2>1. PICK a : a = asking[c]
    OBVIOUS
  <2>2. a.cart \in Carts /\ a.variant \in Variants
    BY <1>3, <2>1 DEF Write, CartInv, Asks
  <2>3. carts' = [carts EXCEPT ![a.cart].lines[a.variant] = a.quantity]
    BY <1>3, <2>1 DEF Write
  <2> QED
    BY <2>2, <2>3 DEF Customers, CartInv, Cart
<1>4. CASE \E s \in Shoppers, guest \in BOOLEAN, k \in Carts, vs \in SUBSET Variants : Delete(c, s, guest, k, vs)
  <2>1. \E k \in Carts : \E lines, coupon : carts' = [carts EXCEPT ![k].lines = lines, ![k].coupon = coupon]
    BY <1>4 DEF Delete, CartInv
  <2> QED
    BY <2>1 DEF Customers, CartInv, Cart
<1>5. CASE \E s \in Shoppers, guest \in BOOLEAN, k \in Carts, applied \in BOOLEAN : Coupon(c, s, guest, k, applied)
  BY <1>5 DEF Coupon, Customers, CartInv, Cart
<1>6. CASE Merge(c) /\ ~Fails(c)
  <2>1. PICK a : a = asking[c]
    OBVIOUS
  <2>2. /\ a.who \in Shoppers /\ a.cart \in Carts /\ a.from \in Carts /\ a.cart # a.from
        /\ carts[a.from].guest /\ carts[a.cart].owner \in {a.who, None}
    BY <1>6, <2>1, MergeDoes
  <2>3. PICK home \in Cart :
          /\ home.owner = a.who /\ ~home.guest
          /\ carts' = [carts EXCEPT ![a.cart] = home, ![a.from] = NoCart]
    BY <1>6, <2>1, MergeDoes
  <2>4. \A k \in Carts : carts'[k] = IF k = a.from THEN NoCart ELSE IF k = a.cart THEN home ELSE carts[k]
    BY <2>2, <2>3 DEF CartInv
  <2> QED
    BY <2>2, <2>3, <2>4 DEF Customers
<1>7. \/ carts' = carts
      \/ \E k \in Carts : Create(c, k) /\ ~Fails(c)
      \/ Write(c) /\ ~Fails(c)
      \/ \E s \in Shoppers, guest \in BOOLEAN, k \in Carts, vs \in SUBSET Variants : Delete(c, s, guest, k, vs)
      \/ \E s \in Shoppers, guest \in BOOLEAN, k \in Carts, applied \in BOOLEAN : Coupon(c, s, guest, k, applied)
      \/ Merge(c) /\ ~Fails(c)
  <2>1. Fails(c) => carts' = carts
    BY DEF Fails
  <2>2. ASSUME NEW s \in Shoppers, NEW guest \in BOOLEAN, NEW v \in Variants, NEW n \in 1..MaxLine,
               AddResolve(c, s, guest, v, n)
        PROVE  carts' = carts
    BY <2>2 DEF AddResolve
  <2>3. ASSUME NEW k \in Carts, MergeOwn(c, k) PROVE carts' = carts
    BY <2>3 DEF MergeOwn
  <2>4. AddRead(c, available) => carts' = carts
    BY DEF AddRead, Fails
  <2>5. ASSUME NEW s \in Shoppers, NEW guest \in BOOLEAN, NEW k \in Carts, NEW v \in Variants,
               NEW n \in 0..MaxLine, UpdateRead(c, s, guest, k, v, n, available[v])
        PROVE  carts' = carts
    BY <2>5 DEF UpdateRead
  <2>6. ASSUME NEW s \in Shoppers, MergeGuest(c, s) PROVE carts' = carts
    BY <2>6 DEF MergeGuest
  <2>7. \A v \in Variants : {v} \in SUBSET Variants
    OBVIOUS
  <2>8. Variants \in SUBSET Variants
    OBVIOUS
  <2> QED
    BY <2>1, <2>2, <2>3, <2>4, <2>5, <2>6, <2>7, <2>8 DEF CartStep
<1> QED
  BY <1>1, <1>2, <1>3, <1>4, <1>5, <1>6, <1>7

-------------------------------------------------------------------------------
\* What transactions know is kept by every step.

LEMMA RangeAppended ==
  ASSUME NEW s \in Seq(Variants), NEW v \in Variants
  PROVE  Append(s, v) \in Seq(Variants) /\ Range(Append(s, v)) = Range(s) \cup {v}
<1>1. Append(s, v) \in Seq(Variants)
  OBVIOUS
<1>2. Len(Append(s, v)) = Len(s) + 1 /\ Append(s, v)[Len(s) + 1] = v
      /\ \A i \in 1..Len(s) : Append(s, v)[i] = s[i]
  OBVIOUS
<1>3. DOMAIN s = 1..Len(s) /\ DOMAIN Append(s, v) = 1..(Len(s) + 1) /\ Len(s) \in Nat
  BY <1>2
<1>4. \A i \in 1..(Len(s) + 1) : i \in 1..Len(s) \/ i = Len(s) + 1
  BY <1>3
<1>5. \A i \in 1..Len(s) : i \in 1..(Len(s) + 1)
  BY <1>3
<1>6. Len(s) + 1 \in 1..(Len(s) + 1)
  BY <1>3
<1> QED
  BY <1>1, <1>2, <1>3, <1>4, <1>5, <1>6 DEF Range

LEMMA NoTradeIs ==
  /\ NoTrade \in Trade /\ [NoTrade EXCEPT !.pc = "done"] \in Trade
  /\ Range(NoTrade.locked) = {} /\ NoTrade.order = None /\ NoTrade.pc = "idle"
  /\ \A a : a = [NoTrade EXCEPT !.pc = "done"] =>
       a.pc = "done" /\ a.locked = <<>> /\ a.order = None /\ Range(a.locked) = {} /\ Deals(a)
<1>1. Range(<<>>) = {}
  BY DEF Range
<1>2. NoTrade \in Trade /\ [NoTrade EXCEPT !.pc = "done"] \in Trade
  <2>1. <<>> \in Seq(Variants) /\ NoLines \in Lines
    BY RowTypes
  <2>2. NoTrade \in Trade
    BY ONLY <2>1 DEF NoTrade, Trade
  <2> QED
    BY ONLY <2>2 DEF Trade
<1>3. NoTrade.locked = <<>> /\ NoTrade.order = None /\ NoTrade.pc = "idle"
  BY DEF NoTrade
<1>4. ASSUME NEW a, a = [NoTrade EXCEPT !.pc = "done"]
      PROVE  a.pc = "done" /\ a.locked = <<>> /\ a.order = None /\ Range(a.locked) = {} /\ Deals(a)
  <2>1. a.pc = "done" /\ a.locked = <<>> /\ a.order = None
    BY <1>4 DEF NoTrade
  <2> QED
    BY <1>1, <2>1 DEF Deals, Settlements
<1> QED
  BY <1>1, <1>2, <1>3, <1>4

\* One transaction takes a step that changes no order and no cart.
LEMMA TradeMoves ==
  ASSUME TradeInv, NEW c \in Clerks, NEW a \in Trade, trade' = [trade EXCEPT ![c] = a],
         orders' = orders, carts' = carts, Deals(a),
         \A d \in Clerks \ {c} : /\ Range(a.locked) \cap Locked(d) = {}
                                 /\ a.order # None => a.order # trade[d].order
  PROVE  TradeInv'
<1>1. trade' \in [Clerks -> Trade]
  BY DEF TradeInv
<1>2. \A d \in Clerks : trade'[d] = IF d = c THEN a ELSE trade[d]
  BY DEF TradeInv
<1>3. \A d \in Clerks : Deals(trade[d])'
  BY <1>2 DEF TradeInv, Deals, Lots
<1>4. \A d, e \in Clerks : d # e =>
        /\ Locked(d)' \cap Locked(e)' = {}
        /\ trade'[d].order # None => trade'[d].order # trade'[e].order
  <2>1. \A d \in Clerks : Locked(d)' = IF d = c THEN Range(a.locked) ELSE Locked(d)
    BY <1>2 DEF Locked
  <2> QED
    BY <1>2, <2>1 DEF TradeInv
<1> QED
  BY <1>1, <1>3, <1>4 DEF TradeInv

LEMMA TradeQuits ==
  ASSUME TradeInv, NEW c \in Clerks, Quits(c), orders' = orders, carts' = carts
  PROVE  TradeInv'
<1>1. PICK a : a = [NoTrade EXCEPT !.pc = "done"]
  OBVIOUS
<1>2. a \in Trade /\ Deals(a) /\ Range(a.locked) = {} /\ a.order = None
  BY <1>1, NoTradeIs
<1>3. trade' = [trade EXCEPT ![c] = a]
  BY <1>1 DEF Quits
<1> QED
  BY <1>2, <1>3, TradeMoves

LEMMA CheckoutKeeps ==
  ASSUME CartInv, TradeInv, NEW c \in Clerks, NEW s \in Shoppers, NEW k \in Carts, NEW cash \in BOOLEAN,
         Checkout(c, s, k, cash)
  PROVE  TradeInv'
<1>1. k \in Owned(s, FALSE) /\ carts[k].lines # NoLines
  BY DEF Checkout, Empty
<1>2. carts[k] \in Cart /\ carts[k].owner = s /\ ~carts[k].guest
  BY <1>1, OwnedBy
<1>3. PICK lines, coupon : lines = carts[k].lines /\ coupon = carts[k].coupon
  OBVIOUS
<1>4. lines \in Lines /\ coupon \in BOOLEAN /\ lines # NoLines
  BY <1>1, <1>2, <1>3 DEF Cart
<1>5. Lots(lines) # {}
  BY <1>4 DEF Lots, Lines, NoLines
<1>6. PICK a : a = [NoTrade EXCEPT !.pc = "reserve", !.who = s, !.cart = k, !.cash = cash,
                                   !.lines = lines, !.coupon = coupon]
  OBVIOUS
<1>7. a \in Trade
  <2>1. NoTrade \in Trade
    BY NoTradeIs
  <2> QED
    BY <1>4, <1>6, <2>1 DEF Trade
<1>8. a.pc = "reserve" /\ a.who = s /\ a.cart = k /\ a.lines = lines /\ a.order = None /\ a.locked = NoTrade.locked
  BY <1>6 DEF NoTrade
<1>9. Range(a.locked) = {}
  BY <1>8, NoTradeIs
<1>10. Deals(a)
  BY <1>2, <1>5, <1>8, <1>9 DEF Deals, Settlements
<1>11. trade' = [trade EXCEPT ![c] = a] /\ orders' = orders /\ carts' = carts
  BY <1>3, <1>6 DEF Checkout, cartVars
<1> QED
  BY <1>7, <1>8, <1>9, <1>10, <1>11, TradeMoves

LEMMA LockKeeps ==
  ASSUME TradeInv, NEW c \in Clerks, NEW v \in Variants, Lock(c, v)
  PROVE  TradeInv'
<1>1. CASE Quits(c)
  BY <1>1, TradeQuits DEF Lock, cartVars
<1>2. CASE ~Quits(c)
  <2>1. PICK old : old = trade[c]
    OBVIOUS
  <2>2. old \in Trade /\ Deals(old)
    BY <2>1 DEF TradeInv
  <2>3. PICK locked : locked = Append(old.locked, v)
    OBVIOUS
  <2>4. locked \in Seq(Variants) /\ Range(locked) = Range(old.locked) \cup {v}
    BY <2>2, <2>3, RangeAppended DEF Trade
  <2>5. PICK a : a = [old EXCEPT !.locked = locked]
    OBVIOUS
  <2>6. a \in Trade
    BY <2>2, <2>4, <2>5 DEF Trade
  <2>7. /\ a.locked = locked /\ a.pc = old.pc /\ a.who = old.who /\ a.cart = old.cart
        /\ a.order = old.order /\ a.lines = old.lines
    BY <2>2, <2>5 DEF Trade
  <2>8. /\ trade' = [trade EXCEPT ![c] = a] /\ orders' = orders /\ carts' = carts
        /\ v \in Lots(old.lines) /\ v \in Free
    BY <1>2, <2>1, <2>3, <2>5 DEF Lock, cartVars
  <2>9. Deals(a)
    BY <2>2, <2>4, <2>7, <2>8 DEF Deals
  <2>10. \A d \in Clerks \ {c} : /\ Range(a.locked) \cap Locked(d) = {}
                                 /\ a.order # None => a.order # trade[d].order
    <3>1. Locked(c) = Range(old.locked)
      BY <2>1 DEF Locked
    <3> QED
      BY <2>1, <2>4, <2>7, <2>8, <3>1 DEF TradeInv, Free
  <2> QED
    BY <2>6, <2>8, <2>9, <2>10, TradeMoves
<1> QED
  BY <1>1, <1>2

LEMMA SettleKeeps ==
  ASSUME TradeInv, NEW c \in Clerks, NEW o \in Orders, NEW step \in Settlements, Settle(c, o, step)
  PROVE  TradeInv'
<1>1. PICK lines : lines = orders[o].lines
  OBVIOUS
<1>2. lines \in Lines
  BY <1>1 DEF TradeInv
<1>3. PICK a : a = [NoTrade EXCEPT !.pc = step, !.order = o, !.lines = lines]
  OBVIOUS
<1>4. a \in Trade
  BY <1>2, <1>3, NoTradeIs DEF Trade
<1>5. a.pc = step /\ a.order = o /\ a.lines = lines /\ a.locked = NoTrade.locked
  BY <1>3 DEF NoTrade
<1>6. Range(a.locked) = {}
  BY <1>5, NoTradeIs
<1>7. /\ trade' = [trade EXCEPT ![c] = a] /\ orders' = orders /\ carts' = carts
      /\ orders[o].status = From(step) /\ \A d \in Clerks : trade[d].order # o
  BY <1>1, <1>3 DEF Settle, cartVars
<1>8. Deals(a)
  BY <1>1, <1>5, <1>6, <1>7 DEF Deals, Settlements
<1> QED
  BY <1>4, <1>5, <1>6, <1>7, <1>8, TradeMoves

\* One transaction ends; it changes one order, which no other settles.
LEMMA OrderMoves ==
  ASSUME TradeInv, NEW c \in Clerks, Quits(c), NEW o \in Orders, NEW row, orders' = [orders EXCEPT ![o] = row],
         row.status \in Statuses, row.lines \in Lines,
         row = [status |-> row.status, lines |-> row.lines, price |-> row.price],
         \A d \in Clerks \ {c} : trade[d].order # o,
         \A k \in Carts : carts[k].owner # None /\ ~carts[k].guest => carts'[k].owner = carts[k].owner /\ ~carts'[k].guest
  PROVE  TradeInv'
<1>1. PICK a : a = [NoTrade EXCEPT !.pc = "done"]
  OBVIOUS
<1>2. a \in Trade /\ a.pc = "done" /\ a.order = None /\ Range(a.locked) = {}
  BY <1>1, NoTradeIs
<1>3. trade' = [trade EXCEPT ![c] = a]
  BY <1>1 DEF Quits
<1>4. trade' \in [Clerks -> Trade]
  BY <1>2, <1>3 DEF TradeInv
<1>5. \A d \in Clerks : trade'[d] = IF d = c THEN a ELSE trade[d]
  BY <1>3 DEF TradeInv
<1>6. DOMAIN orders = Orders
  BY DEF TradeInv
<1>7. \A p \in Orders : orders'[p] = IF p = o THEN row ELSE orders[p]
  BY <1>6
<1>8. \A p \in Orders : orders'[p].status \in Statuses /\ orders'[p].lines \in Lines
  BY <1>7 DEF TradeInv
<1>9. \A p \in Orders : orders[p] = [status |-> orders[p].status, lines |-> orders[p].lines, price |-> orders[p].price]
  BY DEF TradeInv
<1>10. \A p \in Orders : orders'[p] = [status |-> orders'[p].status, lines |-> orders'[p].lines, price |-> orders'[p].price]
  BY <1>7, <1>9
<1>11. orders' = [p \in Orders |-> [status |-> orders'[p].status, lines |-> orders'[p].lines, price |-> orders'[p].price]]
  BY <1>6, <1>10
<1>12. ASSUME NEW d \in Clerks PROVE Deals(trade[d])'
  <2>1. CASE d = c
    BY <1>2, <1>5, <2>1 DEF Deals, Settlements
  <2>2. CASE d # c
    <3>1. trade'[d] = trade[d] /\ Deals(trade[d]) /\ trade[d].order # o /\ trade[d] \in Trade
      BY <1>5, <2>2 DEF TradeInv
    <3>2. trade[d].pc = "reserve" => trade[d].who # None
      BY <3>1, OutOfCarts DEF Deals
    <3> QED
      BY <1>7, <3>1, <3>2 DEF Deals, Lots
  <2> QED
    BY <2>1, <2>2
<1>13. \A d, e \in Clerks : d # e =>
        /\ Locked(d)' \cap Locked(e)' = {}
        /\ trade'[d].order # None => trade'[d].order # trade'[e].order
  <2>1. \A d \in Clerks : Locked(d)' = IF d = c THEN {} ELSE Locked(d)
    BY <1>2, <1>5 DEF Locked
  <2> QED
    BY <1>2, <1>5, <2>1 DEF TradeInv
<1> QED
  BY <1>4, <1>8, <1>11, <1>12, <1>13 DEF TradeInv

\* What an order that is placed, or settled, changes.
Placed(a, o) ==
  /\ a \in Trade /\ a.pc = "reserve" /\ Deals(a) /\ Range(a.locked) = Lots(a.lines)
  /\ o \in Orders /\ orders[o].status = "none"
  /\ Acceptable(Charge(a), Store)
  /\ orders' = [orders EXCEPT ![o] = [status |-> IF a.cash THEN "CONFIRMED" ELSE "PENDING",
                                      lines |-> a.lines, price |-> Charge(a)]]
  /\ \/ a.cash /\ Moves(a.lines, [v \in Variants |-> Commit(Reserve(stock[v], a.lines[v]), a.lines[v])], -1)
     \/ ~a.cash /\ Moves(a.lines, [v \in Variants |-> Reserve(stock[v], a.lines[v])], 0)
  /\ carts' = Emptied(a.cart)
  /\ asking' = Deleted(a.cart, Lots(carts[a.cart].lines))
  /\ Records(a.who, [v \in Variants |-> wanted[a.who][v] - a.lines[v]], Unread(a.cart, a.lines))

LEMMA PlaceDoes ==
  ASSUME TradeInv, NEW c \in Clerks, NEW o \in Orders, Place(c, o)
  PROVE  /\ Quits(c)
         /\ \/ UNCHANGED <<cartVars, shelfVars, orders>>
            \/ Placed(trade[c], o)
<1>1. trade[c] \in Trade /\ Deals(trade[c])
  BY DEF TradeInv
<1>2. trade[c].pc = "reserve" /\ Range(trade[c].locked) = Lots(trade[c].lines) /\ orders[o].status = "none"
  BY DEF Place, Ready, Locked
<1>3. Quits(c)
  BY DEF Place
<1>4. CASE ~Acceptable(Charge(trade[c]), Store)
  BY <1>3, <1>4 DEF Place
<1>5. CASE Acceptable(Charge(trade[c]), Store)
  <2>1. [v \in Variants |-> Commit([u \in Variants |-> Reserve(stock[u], trade[c].lines[u])][v], trade[c].lines[v])]
        = [v \in Variants |-> Commit(Reserve(stock[v], trade[c].lines[v]), trade[c].lines[v])]
    OBVIOUS
  <2>2. /\ orders' = [orders EXCEPT ![o] = [status |-> IF trade[c].cash THEN "CONFIRMED" ELSE "PENDING",
                                            lines |-> trade[c].lines, price |-> Charge(trade[c])]]
        /\ carts' = Emptied(trade[c].cart)
        /\ asking' = Deleted(trade[c].cart, Lots(carts[trade[c].cart].lines))
        /\ Records(trade[c].who, [v \in Variants |-> wanted[trade[c].who][v] - trade[c].lines[v]],
                   Unread(trade[c].cart, trade[c].lines))
    BY <1>5 DEF Place
  <2>3. \/ /\ trade[c].cash
           /\ Moves(trade[c].lines,
                    [v \in Variants |-> Commit(Reserve(stock[v], trade[c].lines[v]), trade[c].lines[v])], -1)
        \/ ~trade[c].cash /\ Moves(trade[c].lines, [v \in Variants |-> Reserve(stock[v], trade[c].lines[v])], 0)
    BY <1>5, <2>1 DEF Place
  <2> QED
    BY <1>1, <1>2, <1>3, <1>5, <2>2, <2>3 DEF Placed
<1> QED
  BY <1>4, <1>5

LEMMA PlacedKeeps ==
  ASSUME CartInv, TradeInv, NEW c \in Clerks, NEW o \in Orders, Quits(c), Placed(trade[c], o)
  PROVE  CartInv' /\ TradeInv'
<1>1. PICK a : a = trade[c]
  OBVIOUS
<1>2. /\ a \in Trade /\ a.who \in Shoppers /\ a.cart \in Carts /\ carts[a.cart].owner = a.who
      /\ a.who # None
  BY <1>1, OutOfCarts DEF Placed, Deals
<1>3. CartInv' /\ SameOwners
  <2>1. torn' \subseteq Shoppers \X Variants
    <3>1. Unread(a.cart, a.lines) \in SUBSET Variants
      BY DEF Unread
    <3> QED
      BY <1>1, <1>2, <3>1, TornGrows DEF Placed
  <2>2. Lots(carts[a.cart].lines) \in SUBSET Variants
    BY DEF Lots
  <2>3. carts' = Emptied(a.cart) /\ asking' = Deleted(a.cart, Lots(carts[a.cart].lines))
    BY <1>1 DEF Placed
  <2> QED
    BY <1>2, <2>1, <2>2, <2>3, EmptiedKeeps
<1>4. PICK row : row = [status |-> IF a.cash THEN "CONFIRMED" ELSE "PENDING",
                        lines |-> a.lines, price |-> Charge(a)]
  OBVIOUS
<1>5. /\ row.status \in Statuses /\ row.lines \in Lines
      /\ row = [status |-> row.status, lines |-> row.lines, price |-> row.price]
  BY <1>2, <1>4 DEF Statuses, Trade
<1>6. orders' = [orders EXCEPT ![o] = row]
  BY <1>1, <1>4 DEF Placed
<1>7. \A d \in Clerks \ {c} : trade[d].order # o
  <2> SUFFICES ASSUME NEW d \in Clerks, trade[d].order = o PROVE FALSE
    OBVIOUS
  <2>1. o # None /\ orders[o].status = "none"
    BY ShopAssumption DEF Placed
  <2>2. trade[d].pc \in Settlements /\ orders[o].status = From(trade[d].pc)
    BY <2>1 DEF TradeInv, Deals
  <2> QED
    BY <2>1, <2>2 DEF From
<1>8. \A k \in Carts : carts[k].owner # None /\ ~carts[k].guest => carts'[k].owner = carts[k].owner /\ ~carts'[k].guest
  BY <1>3 DEF SameOwners
<1>9. TradeInv'
  BY <1>5, <1>6, <1>7, <1>8, OrderMoves
<1> QED
  BY <1>3, <1>9

LEMMA SettledKeeps ==
  ASSUME CartInv, TradeInv, NEW c \in Clerks, NEW step \in Settlements, Settled(c, step)
  PROVE  CartInv' /\ TradeInv'
<1>1. PICK a : a = trade[c]
  OBVIOUS
<1>2. a \in Trade /\ Deals(a) /\ a.pc = step
  BY <1>1 DEF Settled, Ready, TradeInv
<1>3. a.order \in Orders
  BY <1>2 DEF Deals
<1>4. PICK row : row = [orders[a.order] EXCEPT !.status = To(step)]
  OBVIOUS
<1>5. orders[a.order] = [status |-> orders[a.order].status, lines |-> orders[a.order].lines,
                         price |-> orders[a.order].price] /\ orders[a.order].lines \in Lines
  BY <1>3 DEF TradeInv
<1>6. /\ row.status \in Statuses /\ row.lines \in Lines
      /\ row = [status |-> row.status, lines |-> row.lines, price |-> row.price]
  BY <1>4, <1>5 DEF Statuses, To
<1>7. Quits(c) /\ orders' = [orders EXCEPT ![a.order] = row] /\ carts' = carts /\ asking' = asking /\ torn' = torn
  BY <1>1, <1>4 DEF Settled, cartVars
<1>8. \A d \in Clerks \ {c} : trade[d].order # a.order
  BY <1>1, <1>3, ShopAssumption DEF TradeInv
<1>9. TradeInv'
  BY <1>3, <1>6, <1>7, <1>8, OrderMoves
<1>10. CartInv'
  BY <1>7 DEF CartInv, Vacant, Asks, MakesAlone
<1> QED
  BY <1>9, <1>10

LEMMA CartsStay ==
  ASSUME CartInv, UNCHANGED cartVars
  PROVE  CartInv'
BY DEF CartInv, Vacant, Asks, MakesAlone, cartVars

LEMMA TradesStay ==
  ASSUME TradeInv, Customers, UNCHANGED <<orders, trade>>
  PROVE  TradeInv'
<1>1. ASSUME NEW c \in Clerks PROVE Deals(trade[c])'
  <2>1. Deals(trade[c]) /\ trade'[c] = trade[c] /\ orders' = orders
    BY DEF TradeInv
  <2>2. trade[c].pc = "reserve" => trade[c].who # None
    BY <2>1, OutOfCarts DEF Deals
  <2> QED
    BY <2>1, <2>2 DEF Deals, Customers, Lots
<1>2. \A c \in Clerks : Locked(c)' = Locked(c)
  BY DEF Locked
<1> QED
  BY <1>1, <1>2 DEF TradeInv

LEMMA ShopInvInit ==
  ASSUME Init
  PROVE  ShopInv
<1>1. CartInv
  <2>1. carts \in [Carts -> Cart] /\ Vacant
    BY ShopAssumption DEF Init, Vacant
  <2>2. asking \in [CartCalls -> Asking] /\ torn \subseteq Shoppers \X Variants
    BY RowTypes DEF Init
  <2>3. \A c \in CartCalls : asking[c] = NoAsking /\ asking[c].pc = "idle"
    BY DEF Init, NoAsking
  <2> QED
    BY <2>1, <2>2, <2>3 DEF CartInv, Asks, MakesAlone
<1>2. TradeInv
  <2>1. trade \in [Clerks -> Trade] /\ \A c \in Clerks : trade[c] = NoTrade
    BY NoTradeIs DEF Init
  <2>2. \A c \in Clerks : Locked(c) = {} /\ Range(trade[c].locked) = {} /\ trade[c].order = None /\ trade[c].pc = "idle"
    BY <2>1, NoTradeIs DEF Locked
  <2>3. \A o \in Orders : orders[o] = [status |-> "none", lines |-> NoLines, price |-> None]
    BY DEF Init, NoOrder
  <2>4. orders = [o \in Orders |-> [status |-> orders[o].status, lines |-> orders[o].lines,
                                    price |-> orders[o].price]]
    BY <2>3 DEF Init
  <2>5. \A o \in Orders : orders[o].status \in Statuses /\ orders[o].lines \in Lines
    BY <2>3, RowTypes DEF Statuses
  <2>6. \A c \in Clerks : Deals(trade[c])
    BY <2>2 DEF Deals, Settlements
  <2> QED
    BY <2>1, <2>2, <2>4, <2>5, <2>6 DEF TradeInv
<1> QED
  BY <1>1, <1>2 DEF ShopInv

LEMMA ShopInvStep ==
  ASSUME ShopInv, [Next]_vars
  PROVE  ShopInv'
<1> USE DEF ShopInv
<1>1. CASE UNCHANGED vars
  <2>1. Customers
    BY <1>1 DEF Customers, vars, cartVars
  <2> QED
    BY <1>1, <2>1, CartsStay, TradesStay DEF vars
<1>2. CASE \E c \in CartCalls : CartStep(c, Available) /\ UNCHANGED <<shelfVars, orders, trade>>
  BY <1>2, CartStepKeeps, CartStepCustomers, TradesStay
<1>3. CASE \E c \in Counters : ShelfStep(c, Free) /\ UNCHANGED <<cartVars, orders, trade>>
  <2>1. UNCHANGED <<cartVars, orders, trade>>
    BY <1>3
  <2>2. Customers
    BY <2>1 DEF Customers, cartVars
  <2> QED
    BY <2>1, <2>2, CartsStay, TradesStay
<1>4. ASSUME NEW c \in Clerks, Trades(c) PROVE ShopInv'
  <2>1. ASSUME NEW s \in Shoppers, NEW k \in Carts, NEW cash \in BOOLEAN, Checkout(c, s, k, cash) PROVE ShopInv'
    BY <2>1, CheckoutKeeps, CartsStay DEF Checkout
  <2>2. ASSUME NEW v \in Variants, Lock(c, v) PROVE ShopInv'
    BY <2>2, LockKeeps, CartsStay DEF Lock
  <2>3. ASSUME NEW o \in Orders, Place(c, o) PROVE ShopInv'
    <3>1. CASE UNCHANGED <<cartVars, shelfVars, orders>>
      BY <2>3, <3>1, PlaceDoes, TradeQuits, CartsStay DEF cartVars
    <3>2. CASE Placed(trade[c], o)
      BY <2>3, <3>2, PlaceDoes, PlacedKeeps
    <3> QED
      BY <2>3, <3>1, <3>2, PlaceDoes
  <2>4. ASSUME NEW o \in Orders, NEW step \in Settlements, Settle(c, o, step) PROVE ShopInv'
    BY <2>4, SettleKeeps, CartsStay DEF Settle
  <2>5. ASSUME NEW step \in Settlements, Settled(c, step) PROVE ShopInv'
    BY <2>5, SettledKeeps
  <2>6. CASE Abort(c)
    BY <2>6, TradeQuits, CartsStay DEF Abort, cartVars
  <2> QED
    BY <1>4, <2>1, <2>2, <2>3, <2>4, <2>5, <2>6 DEF Trades
<1> QED
  BY <1>1, <1>2, <1>3, <1>4 DEF Next

-------------------------------------------------------------------------------
\* What the carts hold is what the shoppers' requests left in them.

\* What one cart has of a variant for a shopper, and what all carts have.
Of(cart, s, v) == IF cart.owner = s THEN cart.lines[v] ELSE 0
Kept(cs, s, v) == [k \in Carts |-> Of(cs[k], s, v)]
Held(cs, s, v) == SumFunctionOnSet(Kept(cs, s, v), Carts)

LEMMA KeptNat ==
  ASSUME NEW cs \in [Carts -> Cart], NEW s \in Shoppers, NEW v \in Variants
  PROVE  \A k \in Carts : Of(cs[k], s, v) \in Nat /\ Kept(cs, s, v)[k] = Of(cs[k], s, v)
<1> TAKE k \in Carts
<1>1. cs[k] \in Cart
  OBVIOUS
<1>2. cs[k].lines[v] \in Nat
  BY <1>1 DEF Cart, Lines
<1> QED
  BY <1>2 DEF Of, Kept

LEMMA HeldSum ==
  ASSUME NEW cs \in [Carts -> Cart], NEW s \in Shoppers, NEW v \in Variants
  PROVE  /\ Held(cs, s, v) \in Nat
         /\ SumFunctionOnSet([k \in Carts |-> cs[k].lines[v]], {k \in Carts : cs[k].owner = s}) = Held(cs, s, v)
<1> DEFINE T == {k \in Carts : cs[k].owner = s}
           f == [k \in Carts |-> cs[k].lines[v]]
           g == Kept(cs, s, v)
<1>1. IsFiniteSet(Carts) /\ T \in SUBSET Carts
  BY CartAssumption
<1>2. \A k \in Carts : g[k] \in Nat
  BY KeptNat
<1>3. \A k \in Carts : g[k] = IF k \in T THEN f[k] ELSE 0
  BY DEF Kept, Of
<1>4. Ints(g, Carts)
  BY <1>2 DEF Ints
<1> HIDE DEF T, f, g
<1>5. SumFunctionOnSet(f, T) = SumFunctionOnSet(g, Carts)
  BY <1>1, <1>3, <1>4, SumOfPart
<1>6. SumFunctionOnSet(g, Carts) \in Nat
  BY <1>1, <1>2, SumNat
<1> QED
  BY <1>5, <1>6 DEF Held, T, f, g

LEMMA InCartsIs ==
  ASSUME CartInv, NEW s \in Shoppers, NEW v \in Variants
  PROVE  InCarts(s, v) \in Nat /\ InCarts(s, v) = Held(carts, s, v)
<1>1. InCarts(s, v) = SumFunctionOnSet([k \in Carts |-> carts[k].lines[v]], {k \in Carts : carts[k].owner = s})
  BY DEF InCarts, SumFunctionOnSet, FoldFunctionOnSet, MapThenFoldSet, MapThenSumSet
<1> QED
  BY <1>1, HeldSum DEF CartInv

LEMMA InCartsWillBe ==
  ASSUME CartInv', NEW s \in Shoppers, NEW v \in Variants
  PROVE  InCarts(s, v)' \in Nat /\ InCarts(s, v)' = Held(carts', s, v)
<1>1. InCarts(s, v)' = SumFunctionOnSet([k \in Carts |-> carts'[k].lines[v]], {k \in Carts : carts'[k].owner = s})
  BY DEF InCarts, SumFunctionOnSet, FoldFunctionOnSet, MapThenFoldSet, MapThenSumSet
<1> QED
  BY <1>1, HeldSum DEF CartInv

\* One cart is replaced.
LEMMA OneCart ==
  ASSUME NEW cs \in [Carts -> Cart], NEW k \in Carts, NEW new \in Cart, NEW s \in Shoppers, NEW v \in Variants
  PROVE  Held([cs EXCEPT ![k] = new], s, v) = Held(cs, s, v) - Of(cs[k], s, v) + Of(new, s, v)
<1>1. PICK ds : ds = [cs EXCEPT ![k] = new]
  OBVIOUS
<1>2. ds \in [Carts -> Cart] /\ ds[k] = new /\ \A j \in Carts \ {k} : ds[j] = cs[j]
  BY <1>1
<1>3. Ints(Kept(cs, s, v), Carts) /\ Ints(Kept(ds, s, v), Carts)
  BY <1>2, KeptNat DEF Ints
<1>4. /\ \A j \in Carts \ {k} : Kept(ds, s, v)[j] = Kept(cs, s, v)[j]
      /\ Kept(ds, s, v)[k] = Of(new, s, v) /\ Kept(cs, s, v)[k] = Of(cs[k], s, v)
  BY <1>2, KeptNat
<1>5. SumFunctionOnSet(Kept(ds, s, v), Carts)
      = SumFunctionOnSet(Kept(cs, s, v), Carts) - Kept(cs, s, v)[k] + Kept(ds, s, v)[k]
  BY <1>3, <1>4, SumUpdate, CartAssumption
<1> QED
  BY <1>1, <1>4, <1>5 DEF Held

LEMMA OneRewritten ==
  ASSUME CartInv, CartInv', NEW k \in Carts, NEW new \in Cart, carts' = [carts EXCEPT ![k] = new],
         NEW s \in Shoppers, NEW v \in Variants
  PROVE  InCarts(s, v)' = InCarts(s, v) - Of(carts[k], s, v) + Of(new, s, v)
<1>1. carts \in [Carts -> Cart]
  BY DEF CartInv
<1>2. Held([carts EXCEPT ![k] = new], s, v) = Held(carts, s, v) - Of(carts[k], s, v) + Of(new, s, v)
  BY <1>1, OneCart
<1>3. InCarts(s, v) = Held(carts, s, v)
  BY InCartsIs
<1>4. InCarts(s, v)' = Held(carts', s, v)
  BY InCartsWillBe
<1> QED
  BY <1>2, <1>3, <1>4

\* A request of s leaves its shopper what it records, and the others what they had.
LEMMA RecordsKeep ==
  ASSUME Wanted, NEW s \in Shoppers, NEW units, NEW vs \in SUBSET Variants, Records(s, units, vs),
         \A v \in Variants : <<s, v>> \notin torn' => InCarts(s, v)' = units[v],
         \A t \in Shoppers \ {s}, v \in Variants : InCarts(t, v)' = InCarts(t, v)
  PROVE  Wanted'
<1>1. torn' = torn \cup ({s} \X vs)
      /\ wanted' = [wanted EXCEPT ![s] = [v \in Variants |-> IF <<s, v>> \in torn' THEN 0 ELSE units[v]]]
  BY DEF Records
<1>2. \A t \in Shoppers \ {s}, v \in Variants : <<t, v>> \in torn' <=> <<t, v>> \in torn
  BY <1>1
<1>3. ASSUME NEW t \in Shoppers
      PROVE  wanted'[t] = [v \in Variants |-> IF <<t, v>> \in torn' THEN 0 ELSE InCarts(t, v)']
  <2>1. CASE t = s
    BY <1>1, <2>1 DEF Wanted
  <2>2. CASE t # s
    BY <1>1, <1>2, <2>2 DEF Wanted
  <2> QED
    BY <2>1, <2>2
<1>4. wanted' = [t \in Shoppers |-> wanted'[t]]
  BY <1>1 DEF Wanted
<1> QED
  BY <1>3, <1>4 DEF Wanted

\* One cart of s, or of nobody, is written.
LEMMA OneWritten ==
  ASSUME CartInv, CartInv', Wanted, NEW k \in Carts, NEW new \in Cart, carts' = [carts EXCEPT ![k] = new],
         NEW s \in Shoppers, carts[k].owner \in {s, None}, new.owner \in {s, None},
         NEW units, NEW vs \in SUBSET Variants, Records(s, units, vs),
         \A v \in Variants : <<s, v>> \notin torn' =>
           units[v] = wanted[s][v] - Of(carts[k], s, v) + Of(new, s, v)
  PROVE  Wanted'
<1>1. carts \in [Carts -> Cart]
  BY DEF CartInv
<1>2. \A t \in Shoppers, v \in Variants :
        InCarts(t, v)' = InCarts(t, v) - Of(carts[k], t, v) + Of(new, t, v)
  BY <1>1, OneRewritten
<1>3. \A t \in Shoppers \ {s}, v \in Variants : Of(carts[k], t, v) = 0 /\ Of(new, t, v) = 0
  BY OutOfCarts DEF Of
<1>4. \A t \in Shoppers \ {s}, v \in Variants : InCarts(t, v)' = InCarts(t, v)
  <2> TAKE t \in Shoppers \ {s}, v \in Variants
  <2>1. InCarts(t, v) \in Nat
    BY InCartsIs
  <2> QED
    BY <1>2, <1>3, <2>1
<1>5. \A v \in Variants : <<s, v>> \notin torn' => wanted[s][v] = InCarts(s, v)
  BY DEF Records, Wanted
<1>6. \A v \in Variants : <<s, v>> \notin torn' => InCarts(s, v)' = units[v]
  BY <1>2, <1>5
<1> QED
  BY <1>4, <1>6, RecordsKeep

\* A cart is written, but what it has of each variant for whom.
LEMMA NoneWritten ==
  ASSUME CartInv, CartInv', Wanted, NEW k \in Carts, NEW new \in Cart, carts' = [carts EXCEPT ![k] = new],
         \A s \in Shoppers, v \in Variants : Of(new, s, v) = Of(carts[k], s, v), UNCHANGED <<wanted, torn>>
  PROVE  Wanted'
<1>1. carts \in [Carts -> Cart]
  BY DEF CartInv
<1>2. \A t \in Shoppers, v \in Variants : InCarts(t, v)' = InCarts(t, v)
  <2> TAKE t \in Shoppers, v \in Variants
  <2>1. InCarts(t, v)' = InCarts(t, v) - Of(carts[k], t, v) + Of(new, t, v)
    BY <1>1, OneRewritten
  <2>2. InCarts(t, v) \in Nat /\ Of(carts[k], t, v) \in Nat
    BY <1>1, InCartsIs, KeptNat
  <2> QED
    BY <2>1, <2>2
<1> QED
  BY <1>2 DEF Wanted

LEMMA WantedStays ==
  ASSUME CartInv, CartInv', Wanted, UNCHANGED <<carts, wanted, torn>>
  PROVE  Wanted'
<1>1. \A t \in Shoppers, v \in Variants : InCarts(t, v)' = InCarts(t, v)
  BY InCartsIs, InCartsWillBe
<1> QED
  BY <1>1 DEF Wanted

LEMMA CreateRecords ==
  ASSUME CartInv, CartInv', Wanted, NEW c \in CartCalls, NEW k \in Carts, Create(c, k)
  PROVE  Wanted'
<1>1. CASE Fails(c)
  BY <1>1, WantedStays DEF Fails
<1>2. CASE ~Fails(c)
  <2>1. PICK a : a = asking[c]
    OBVIOUS
  <2>2. a \in Asking /\ a.who \in Shoppers
    BY <2>1 DEF Create, CartInv, Asks
  <2>3. PICK new : new = [NoCart EXCEPT !.owner = a.who, !.guest = a.guest]
    OBVIOUS
  <2>4. new \in Cart /\ new.lines = NoLines
    BY <2>2, <2>3, RowTypes DEF Cart, Asking, NoCart
  <2>5. carts' = [carts EXCEPT ![k] = new] /\ carts[k].owner = None /\ UNCHANGED <<wanted, torn>>
    BY <1>2, <2>1, <2>3 DEF Create, Fresh
  <2>6. \A s \in Shoppers, v \in Variants : Of(new, s, v) = 0 /\ Of(carts[k], s, v) = 0
    BY <2>4, <2>5, OutOfCarts DEF Of, NoLines
  <2> QED
    BY <2>4, <2>5, <2>6, NoneWritten
<1> QED
  BY <1>1, <1>2

LEMMA WriteRecords ==
  ASSUME CartInv, CartInv', Wanted, NEW c \in CartCalls, Write(c)
  PROVE  Wanted'
<1>1. CASE Fails(c)
  BY <1>1, WantedStays DEF Fails
<1>2. CASE ~Fails(c)
  <2>1. PICK a : a = asking[c]
    OBVIOUS
  <2>2. /\ a \in Asking /\ a.pc = "write" /\ a.who \in Shoppers /\ a.variant \in Variants
        /\ a.from = None /\ a.cart \in Carts /\ carts[a.cart].owner \in {a.who, None}
    BY <2>1 DEF Write, CartInv, Asks
  <2>3. PICK units : units = [wanted[a.who] EXCEPT ![a.variant] = @ + a.quantity - a.seen[a.variant]]
    OBVIOUS
  <2>4. PICK vs : vs = Unread(a.cart, a.seen) \cap {a.variant}
    OBVIOUS
  <2>5. /\ ~WriteFails(a, a.variant)
        /\ carts' = [carts EXCEPT ![a.cart].lines[a.variant] = a.quantity]
        /\ Records(a.who, units, vs)
    BY <1>2, <2>1, <2>3, <2>4 DEF Write
  <2>6. carts[a.cart].owner = a.who
    BY <2>2, <2>5 DEF WriteFails
  <2>7. a.quantity \in Nat /\ a.seen \in Lines /\ carts[a.cart] \in Cart
    BY <2>2 DEF Asking, CartInv
  <2>8. PICK lines : lines = [carts[a.cart].lines EXCEPT ![a.variant] = a.quantity]
    OBVIOUS
  <2>9. PICK new : new = [carts[a.cart] EXCEPT !.lines = lines]
    OBVIOUS
  <2>10. lines \in Lines
    BY <2>2, <2>7, <2>8 DEF Cart, Lines
  <2>11. new \in Cart /\ new.owner = a.who /\ new.lines = lines
    BY <2>6, <2>7, <2>9, <2>10 DEF Cart
  <2>12. carts' = [carts EXCEPT ![a.cart] = new]
    BY <2>5, <2>8, <2>9
  <2>13. ASSUME NEW v \in Variants, <<a.who, v>> \notin torn'
         PROVE  units[v] = wanted[a.who][v] - Of(carts[a.cart], a.who, v) + Of(new, a.who, v)
    <3>1. <<a.who, v>> \notin torn /\ v \notin vs
      BY <2>5, <2>13 DEF Records
    <3>2. wanted[a.who][v] = InCarts(a.who, v) /\ wanted[a.who] = [u \in Variants |-> wanted[a.who][u]]
      BY <2>2, <3>1 DEF Wanted
    <3>3. wanted[a.who][v] \in Nat
      BY <2>2, <3>2, InCartsIs
    <3>4. /\ Of(carts[a.cart], a.who, v) = carts[a.cart].lines[v] /\ Of(new, a.who, v) = lines[v]
          /\ carts[a.cart].lines \in Lines
      BY <2>6, <2>7, <2>11 DEF Of, Cart
    <3>5. carts[a.cart].lines[v] \in Nat
      BY <3>4 DEF Lines
    <3>6. CASE v = a.variant
      <4>1. v \notin Unread(a.cart, a.seen)
        BY <2>4, <3>1, <3>6
      <4>2. carts[a.cart].lines[v] = a.seen[v]
        BY <2>2, <2>6, <4>1, OutOfCarts DEF Unread
      <4>3. units[v] = wanted[a.who][v] + a.quantity - a.seen[v]
        BY <2>3, <3>2, <3>6
      <4>4. lines[v] = a.quantity
        BY <2>8, <3>4, <3>6 DEF Lines
      <4> QED
        BY <2>7, <3>3, <3>4, <3>5, <4>2, <4>3, <4>4
    <3>7. CASE v # a.variant
      <4>1. units[v] = wanted[a.who][v]
        BY <2>3, <3>2, <3>7
      <4>2. lines[v] = carts[a.cart].lines[v]
        BY <2>8, <3>4, <3>7 DEF Lines
      <4> QED
        BY <3>3, <3>4, <3>5, <4>1, <4>2
    <3> QED
      BY <3>6, <3>7
  <2>14. vs \in SUBSET Variants
    BY <2>4 DEF Unread
  <2>15. carts[a.cart].owner \in {a.who, None} /\ new.owner \in {a.who, None}
    BY <2>6, <2>11
  <2> QED
    <3>1. PICK s, k : s = a.who /\ k = a.cart
      OBVIOUS
    <3>2. /\ s \in Shoppers /\ k \in Carts /\ carts' = [carts EXCEPT ![k] = new]
          /\ carts[k].owner \in {s, None} /\ new.owner \in {s, None} /\ Records(s, units, vs)
          /\ new \in Cart /\ vs \in SUBSET Variants
      BY ONLY <2>2, <2>5, <2>11, <2>12, <2>13, <2>14, <2>15, <3>1
    <3>3. \A v \in Variants : <<s, v>> \notin torn' =>
             units[v] = wanted[s][v] - Of(carts[k], s, v) + Of(new, s, v)
      BY ONLY <2>2, <2>5, <2>11, <2>12, <2>13, <2>14, <2>15, <3>1
    <3> QED
      BY ONLY CartInv, CartInv', Wanted, <3>2, <3>3, OneWritten
<1> QED
  BY <1>1, <1>2

LEMMA DeleteRecords ==
  ASSUME CartInv, CartInv', Wanted, NEW c \in CartCalls, NEW s \in Shoppers, NEW guest \in BOOLEAN, NEW k \in Carts,
         NEW vs \in SUBSET Variants, Delete(c, s, guest, k, vs)
  PROVE  Wanted'
<1>1. k \in Owned(s, guest)
  BY DEF Delete
<1>2. carts[k].owner = s /\ s # None /\ carts[k] \in Cart /\ carts[k].lines \in Lines
  BY <1>1, OwnedBy, OutOfCarts
<1>3. PICK lines : lines = [v \in Variants |-> IF v \in vs THEN 0 ELSE carts[k].lines[v]]
  OBVIOUS
<1>4. PICK coupon : coupon = IF vs = Variants THEN FALSE ELSE carts[k].coupon
  OBVIOUS
<1>5. PICK new : new = [carts[k] EXCEPT !.lines = lines, !.coupon = coupon]
  OBVIOUS
<1>6. lines \in Lines /\ coupon \in BOOLEAN
  BY <1>2, <1>3, <1>4 DEF Lines, Cart
<1>7. new \in Cart /\ new.owner = s /\ new.lines = lines
  BY <1>2, <1>5, <1>6 DEF Cart
<1>8. carts' = [carts EXCEPT ![k] = new]
  BY <1>2, <1>3, <1>4, <1>5 DEF Delete, CartInv
<1>9. PICK units : units = [v \in Variants |-> wanted[s][v] - (IF v \in vs THEN carts[k].lines[v] ELSE 0)]
  OBVIOUS
<1>10. Records(s, units, {}) /\ {} \in SUBSET Variants
  BY <1>9 DEF Delete
<1>11. ASSUME NEW v \in Variants, <<s, v>> \notin torn'
       PROVE  units[v] = wanted[s][v] - Of(carts[k], s, v) + Of(new, s, v)
  <2>1. wanted[s][v] \in Nat
    BY <1>10, <1>11, InCartsIs DEF Wanted, Records
  <2>2. Of(carts[k], s, v) = carts[k].lines[v] /\ Of(new, s, v) = lines[v] /\ carts[k].lines[v] \in Nat
    BY <1>2, <1>7 DEF Of, Lines
  <2>3. units[v] = wanted[s][v] - (IF v \in vs THEN carts[k].lines[v] ELSE 0)
    BY <1>9
  <2>4. lines[v] = IF v \in vs THEN 0 ELSE carts[k].lines[v]
    BY <1>3
  <2> QED
    BY ONLY <2>1, <2>2, <2>3, <2>4
<1> QED
  BY <1>2, <1>7, <1>8, <1>10, <1>11, OneWritten

LEMMA CouponRecords ==
  ASSUME CartInv, CartInv', Wanted, NEW c \in CartCalls, NEW s \in Shoppers, NEW guest \in BOOLEAN, NEW k \in Carts,
         NEW applied \in BOOLEAN, Coupon(c, s, guest, k, applied)
  PROVE  Wanted'
<1>1. PICK new : new = [carts[k] EXCEPT !.coupon = applied]
  OBVIOUS
<1>2. carts[k] \in Cart
  BY DEF CartInv
<1>3. new \in Cart /\ new.owner = carts[k].owner /\ new.lines = carts[k].lines
  BY <1>1, <1>2 DEF Cart
<1>4. carts' = [carts EXCEPT ![k] = new] /\ UNCHANGED <<wanted, torn>>
  BY <1>1 DEF Coupon
<1>5. \A t \in Shoppers, v \in Variants : Of(new, t, v) = Of(carts[k], t, v)
  BY <1>3 DEF Of
<1> QED
  BY <1>3, <1>4, <1>5, NoneWritten

\* Placing an order takes from the cart what the order has.
LEMMA PlacedRecords ==
  ASSUME CartInv, CartInv', Wanted, NEW a, NEW o, Placed(a, o)
  PROVE  Wanted'
<1>1. /\ a \in Trade /\ a.who \in Shoppers /\ a.cart \in Carts /\ carts[a.cart].owner = a.who
      /\ carts' = Emptied(a.cart)
  BY DEF Placed, Deals
<1>2. carts[a.cart] \in Cart /\ carts[a.cart].lines \in Lines /\ a.lines \in Lines
  BY <1>1 DEF CartInv, Cart, Trade
<1>3. PICK new : new = [carts[a.cart] EXCEPT !.lines = NoLines, !.coupon = FALSE]
  OBVIOUS
<1>4. new \in Cart /\ new.owner = a.who /\ new.lines = NoLines
  BY <1>1, <1>2, <1>3, RowTypes DEF Cart
<1>5. carts' = [carts EXCEPT ![a.cart] = new]
  BY <1>1, <1>3 DEF Emptied, CartInv
<1>6. PICK units : units = [v \in Variants |-> wanted[a.who][v] - a.lines[v]]
  OBVIOUS
<1>7. PICK vs : vs = Unread(a.cart, a.lines)
  OBVIOUS
<1>8. Records(a.who, units, vs) /\ vs \in SUBSET Variants
  BY <1>6, <1>7 DEF Placed, Unread
<1>9. ASSUME NEW v \in Variants, <<a.who, v>> \notin torn'
      PROVE  units[v] = wanted[a.who][v] - Of(carts[a.cart], a.who, v) + Of(new, a.who, v)
  <2>1. <<a.who, v>> \notin torn /\ v \notin vs
    BY <1>1, <1>8, <1>9 DEF Records
  <2>2. wanted[a.who][v] \in Nat
    BY <1>1, <2>1, InCartsIs DEF Wanted
  <2>3. a.lines[v] = carts[a.cart].lines[v] /\ carts[a.cart].lines[v] \in Nat
    BY <1>1, <1>2, <1>7, <2>1, OutOfCarts DEF Unread, Lines
  <2>4. Of(carts[a.cart], a.who, v) = carts[a.cart].lines[v] /\ Of(new, a.who, v) = 0
    BY <1>1, <1>4 DEF Of, NoLines
  <2>5. units[v] = wanted[a.who][v] - a.lines[v]
    BY <1>6
  <2> QED
    BY ONLY <2>2, <2>3, <2>4, <2>5
<1>10. carts[a.cart].owner \in {a.who, None} /\ new.owner \in {a.who, None}
  BY <1>1, <1>4
<1> QED
  <2>1. PICK s, k : s = a.who /\ k = a.cart
    OBVIOUS
  <2>2. /\ s \in Shoppers /\ k \in Carts /\ carts' = [carts EXCEPT ![k] = new]
        /\ carts[k].owner \in {s, None} /\ new.owner \in {s, None} /\ Records(s, units, vs)
        /\ new \in Cart /\ vs \in SUBSET Variants
    BY ONLY <1>1, <1>4, <1>5, <1>8, <1>9, <1>10, <2>1
  <2>3. \A v \in Variants : <<s, v>> \notin torn' =>
           units[v] = wanted[s][v] - Of(carts[k], s, v) + Of(new, s, v)
    BY ONLY <1>1, <1>4, <1>5, <1>8, <1>9, <1>10, <2>1
  <2> QED
    BY ONLY CartInv, CartInv', Wanted, <2>2, <2>3, OneWritten

\* A merge leaves the shopper what the two carts had.
LEMMA MergeRecords ==
  ASSUME CartInv, CartInv', Wanted, NEW c \in CartCalls, Merge(c)
  PROVE  Wanted'
<1>1. CASE Fails(c)
  BY <1>1, WantedStays DEF Fails
<1>2. CASE ~Fails(c)
  <2>1. PICK a : a = asking[c]
    OBVIOUS
  <2>2. PICK s, k, g : s = a.who /\ k = a.cart /\ g = a.from
    OBVIOUS
  <2>3. /\ a \in Asking /\ s \in Shoppers /\ k \in Carts /\ g \in Carts /\ k # g
        /\ carts[g].owner = s
        /\ carts[k].owner \in {s, None}
        /\ carts[k].owner = None => a.seen = NoLines
        /\ Merged(a) \in Lines
        /\ Records(s, wanted[s], Torn(a))
    BY <1>2, <2>1, <2>2, MergeDoes
  <2>4. PICK home \in Cart :
          /\ home.owner = s /\ home.lines = Merged(a)
          /\ carts' = [carts EXCEPT ![k] = home, ![g] = NoCart]
    BY <1>2, <2>1, <2>2, MergeDoes
  <2>5. PICK cs : cs = [carts EXCEPT ![k] = home]
    OBVIOUS
  <2>6. carts \in [Carts -> Cart] /\ cs \in [Carts -> Cart] /\ cs[g] = carts[g] /\ carts' = [cs EXCEPT ![g] = NoCart]
    BY <2>3, <2>4, <2>5 DEF CartInv
  <2>7. ASSUME NEW t \in Shoppers, NEW v \in Variants
        PROVE  /\ InCarts(t, v)' = InCarts(t, v) - Of(carts[k], t, v) + Of(home, t, v) - Of(carts[g], t, v)
               /\ InCarts(t, v) \in Nat /\ Of(carts[k], t, v) \in Nat /\ Of(carts[g], t, v) \in Nat
    <3>1. Held(cs, t, v) = Held(carts, t, v) - Of(carts[k], t, v) + Of(home, t, v)
      <4>1. Held([carts EXCEPT ![k] = home], t, v) = Held(carts, t, v) - Of(carts[k], t, v) + Of(home, t, v)
        <5>1. carts \in [Carts -> Cart] /\ k \in Carts
          BY <2>3, <2>6
        <5> QED
          BY ONLY <5>1, OneCart
      <4> QED
        BY <2>5, <4>1
    <3>2. Held([cs EXCEPT ![g] = NoCart], t, v) = Held(cs, t, v) - Of(cs[g], t, v) + Of(NoCart, t, v)
      BY <2>3, <2>6, OneCart, RowTypes
    <3>3. Of(NoCart, t, v) = 0
      BY DEF Of, NoCart, NoLines
    <3>4. Of(carts[k], t, v) \in Nat /\ Of(carts[g], t, v) \in Nat
      BY <2>3, <2>6, KeptNat
    <3>5. Of(home, t, v) \in Nat
      BY <2>4 DEF Of, Cart, Lines
    <3>6. InCarts(t, v) = Held(carts, t, v) /\ InCarts(t, v) \in Nat
      BY InCartsIs
    <3>7. InCarts(t, v)' = Held(carts', t, v)
      BY InCartsWillBe
    <3>8. InCarts(t, v)' = Held(cs, t, v) - Of(carts[g], t, v) + 0
      BY <2>6, <3>2, <3>3, <3>7
    <3> QED
      BY ONLY <3>1, <3>4, <3>5, <3>6, <3>8
  <2>8. \A t \in Shoppers \ {s}, v \in Variants : InCarts(t, v)' = InCarts(t, v)
    <3> TAKE t \in Shoppers \ {s}, v \in Variants
    <3>1. Of(carts[k], t, v) = 0 /\ Of(home, t, v) = 0 /\ Of(carts[g], t, v) = 0
      BY <2>3, <2>4, OutOfCarts DEF Of
    <3> QED
      BY <2>7, <3>1
  <2>9. ASSUME NEW v \in Variants, <<s, v>> \notin torn'
        PROVE  InCarts(s, v)' = wanted[s][v]
    <3>1. <<s, v>> \notin torn /\ v \notin Torn(a)
      BY <2>3, <2>9 DEF Records
    <3>2. wanted[s][v] = InCarts(s, v)
      BY <2>3, <3>1 DEF Wanted
    <3>3. Of(carts[g], s, v) = a.taken[v]
      <4>1. v \notin Unread(g, a.taken)
        BY <2>2, <3>1 DEF Torn
      <4> QED
        BY <2>3, <4>1, OutOfCarts DEF Unread, Of
    <3>4. a.taken[v] \in Nat /\ a.seen[v] \in Nat /\ carts[k].lines[v] \in Nat
      BY <2>3, <2>6 DEF Asking, Lines, Cart
    <3>5. Of(home, s, v) = IF a.taken[v] > 0 THEN a.seen[v] + a.taken[v] ELSE carts[k].lines[v]
      BY <2>2, <2>4 DEF Of, Merged
    <3>6. carts[k].owner = None => carts[k].lines[v] = 0 /\ a.seen[v] = 0 /\ Of(carts[k], s, v) = 0
      BY <2>3, OutOfCarts DEF CartInv, Vacant, NoCart, NoLines, Of
    <3>7. carts[k].owner = s => Of(carts[k], s, v) = carts[k].lines[v]
      BY DEF Of
    <3>8. Of(carts[k], s, v) = carts[k].lines[v]
      BY <2>3, <3>6, <3>7
    <3>9. a.taken[v] > 0 => a.seen[v] = carts[k].lines[v]
      <4> SUFFICES ASSUME a.taken[v] > 0 PROVE a.seen[v] = carts[k].lines[v]
        OBVIOUS
      <4>1. v \notin Unread(k, a.seen)
        BY <2>2, <3>1 DEF Torn
      <4> QED
        BY <2>3, <3>6, <4>1 DEF Unread
    <3>10. InCarts(s, v)' = InCarts(s, v) - Of(carts[k], s, v) + Of(home, s, v) - Of(carts[g], s, v)
           /\ InCarts(s, v) \in Nat
      BY <2>3, <2>7
    <3> QED
      BY ONLY <3>2, <3>3, <3>4, <3>5, <3>8, <3>9, <3>10
  <2>10. Torn(a) \in SUBSET Variants
    BY DEF Torn, Unread
  <2>11. PICK units : units = wanted[s]
    OBVIOUS
  <2>12. Records(s, units, Torn(a)) /\ \A v \in Variants : <<s, v>> \notin torn' => InCarts(s, v)' = units[v]
    BY <2>3, <2>9, <2>11
  <2>13. PICK vs : vs = Torn(a)
    OBVIOUS
  <2> QED
    BY ONLY Wanted, <2>3, <2>8, <2>10, <2>12, <2>13, RecordsKeep
<1> QED
  BY <1>1, <1>2

LEMMA WantedInit ==
  ASSUME Init
  PROVE  Wanted
BY DEF Init, Wanted

LEMMA CartStepRecords ==
  ASSUME CartInv, CartInv', Wanted, NEW c \in CartCalls, NEW available, CartStep(c, available)
  PROVE  Wanted'
<1>1. ASSUME NEW s \in Shoppers, NEW guest \in BOOLEAN, NEW v \in Variants, NEW n \in 1..MaxLine,
             AddResolve(c, s, guest, v, n)
      PROVE  Wanted'
  BY <1>1, WantedStays DEF AddResolve
<1>2. ASSUME NEW k \in Carts, Create(c, k) \/ MergeOwn(c, k) PROVE Wanted'
  BY <1>2, CreateRecords, WantedStays DEF MergeOwn
<1>3. CASE AddRead(c, available)
  BY <1>3, WantedStays DEF AddRead, Fails
<1>4. CASE Write(c) \/ Merge(c)
  BY <1>4, WriteRecords, MergeRecords
<1>5. ASSUME NEW s \in Shoppers, NEW guest \in BOOLEAN, NEW k \in Carts, NEW v \in Variants,
             NEW n \in 0..MaxLine, UpdateRead(c, s, guest, k, v, n, available[v])
      PROVE  Wanted'
  BY <1>5, WantedStays DEF UpdateRead
<1>6. ASSUME NEW s \in Shoppers, NEW guest \in BOOLEAN, NEW k \in Carts, NEW vs \in SUBSET Variants,
             Delete(c, s, guest, k, vs)
      PROVE  Wanted'
  BY <1>6, DeleteRecords
<1>7. ASSUME NEW s \in Shoppers, NEW guest \in BOOLEAN, NEW k \in Carts, NEW applied \in BOOLEAN,
             Coupon(c, s, guest, k, applied)
      PROVE  Wanted'
  BY <1>7, CouponRecords
<1>8. ASSUME NEW s \in Shoppers, MergeGuest(c, s) PROVE Wanted'
  BY <1>8, WantedStays DEF MergeGuest
<1>9. Variants \in SUBSET Variants /\ \A v \in Variants : {v} \in SUBSET Variants
  OBVIOUS
<1> QED
  BY <1>1, <1>2, <1>3, <1>4, <1>5, <1>6, <1>7, <1>8, <1>9 DEF CartStep

LEMMA WantedStep ==
  ASSUME ShopInv, ShopInv', Wanted, [Next]_vars
  PROVE  Wanted'
<1>0. CartInv /\ CartInv' /\ TradeInv
  BY DEF ShopInv
<1>1. CASE UNCHANGED cartVars
  BY <1>0, <1>1, WantedStays DEF cartVars
<1>2. CASE \E c \in CartCalls : CartStep(c, Available)
  BY <1>0, <1>2, CartStepRecords
<1>3. CASE \E c \in Clerks, o \in Orders : Place(c, o)
  <2>1. PICK c \in Clerks, o \in Orders : Place(c, o)
    BY <1>3
  <2>2. PICK a : a = trade[c]
    OBVIOUS
  <2>3. UNCHANGED cartVars \/ Placed(a, o)
    BY <1>0, <2>1, <2>2, PlaceDoes
  <2> QED
    BY <1>0, <1>1, <2>3, PlacedRecords
<1>4. ASSUME NEW c \in Clerks, Trades(c), ~ \E o \in Orders : Place(c, o)
      PROVE  UNCHANGED cartVars
  <2>1. ASSUME NEW s \in Shoppers, NEW k \in Carts, NEW cash \in BOOLEAN, Checkout(c, s, k, cash)
        PROVE  UNCHANGED cartVars
    BY <2>1 DEF Checkout
  <2>2. ASSUME NEW v \in Variants, Lock(c, v) PROVE UNCHANGED cartVars
    BY <2>2 DEF Lock
  <2>3. ASSUME NEW o \in Orders, NEW step \in Settlements, Settle(c, o, step) PROVE UNCHANGED cartVars
    BY <2>3 DEF Settle
  <2>4. ASSUME NEW step \in Settlements, Settled(c, step) PROVE UNCHANGED cartVars
    BY <2>4 DEF Settled
  <2>5. Abort(c) => UNCHANGED cartVars
    BY DEF Abort
  <2> QED
    BY <1>4, <2>1, <2>2, <2>3, <2>4, <2>5 DEF Trades
<1> QED
  BY <1>1, <1>2, <1>3, <1>4 DEF Next, vars

\* What the shoppers' requests left in their carts is there (CartService): no
\* interleaving of additions, updates, merges and orders loses or duplicates a
\* unit, but in lines a request overwrote or deleted unread.
THEOREM CartsKept == Spec => []CartKept
<1>1. Init => ShopInv /\ Wanted
  BY ShopInvInit, WantedInit
<1>2. ShopInv /\ Wanted /\ [Next]_vars => (ShopInv /\ Wanted)'
  BY ShopInvStep, WantedStep
<1>3. Wanted => CartKept
  BY DEF Wanted, CartKept
<1> QED
  BY <1>1, <1>2, <1>3, PTL DEF Spec

-------------------------------------------------------------------------------
\* The rows of the shelf.

\* What one order holds of a variant, and what all orders hold.
Owes(row, v) == IF row.status = "PENDING" THEN row.lines[v] ELSE 0
Owed(os, v) == SumFunctionOnSet([o \in Orders |-> Owes(os[o], v)], Orders)

\* The rows of orders as they are.
Booked(os) == DOMAIN os = Orders /\ \A o \in Orders : os[o].lines \in Lines

LEMMA OwesNat ==
  ASSUME NEW os, Booked(os), NEW v \in Variants
  PROVE  \A o \in Orders : Owes(os[o], v) \in Nat
BY DEF Owes, Booked, Lines

LEMMA OwedSum ==
  ASSUME NEW os, Booked(os), NEW v \in Variants
  PROVE  /\ Owed(os, v) \in Nat /\ \A o \in Orders : Owes(os[o], v) \in Nat /\ Owes(os[o], v) <= Owed(os, v)
         /\ SumFunctionOnSet([o \in Orders |-> os[o].lines[v]], {o \in Orders : os[o].status = "PENDING"}) = Owed(os, v)
<1> DEFINE T == {o \in Orders : os[o].status = "PENDING"}
           f == [o \in Orders |-> os[o].lines[v]]
           g == [o \in Orders |-> Owes(os[o], v)]
<1>1. IsFiniteSet(Orders) /\ T \in SUBSET Orders
  BY ShopAssumption
<1>2. \A o \in Orders : g[o] \in Nat /\ g[o] = Owes(os[o], v)
  BY DEF Owes, Booked, Lines
<1>3. \A o \in Orders : g[o] = IF o \in T THEN f[o] ELSE 0
  BY DEF Owes
<1>4. Ints(g, Orders)
  BY <1>2 DEF Ints
<1> HIDE DEF T, f, g
<1>5. SumFunctionOnSet(f, T) = SumFunctionOnSet(g, Orders)
  BY <1>1, <1>3, <1>4, SumOfPart
<1>6. SumFunctionOnSet(g, Orders) \in Nat /\ \A o \in Orders : g[o] <= SumFunctionOnSet(g, Orders)
  BY <1>1, <1>2, SumNat
<1>7. SumFunctionOnSet(g, Orders) = Owed(os, v)
  BY DEF Owed, g
<1> QED
  BY <1>2, <1>5, <1>6, <1>7 DEF T, f

LEMMA ReservedIs ==
  ASSUME TradeInv
  PROVE  Booked(orders) /\ (ReservedIsOwed <=> \A v \in Variants : stock[v].reserved = Owed(orders, v))
<1>1. Booked(orders)
  BY DEF TradeInv, Booked
<1>2. ASSUME NEW v \in Variants
      PROVE  MapThenSumSet(LAMBDA o : orders[o].lines[v], Pending) = Owed(orders, v)
  <2>1. MapThenSumSet(LAMBDA o : orders[o].lines[v], Pending)
        = SumFunctionOnSet([o \in Orders |-> orders[o].lines[v]], Pending)
    BY DEF SumFunctionOnSet, FoldFunctionOnSet, MapThenFoldSet, MapThenSumSet, Pending
  <2> QED
    BY <1>1, <2>1, OwedSum DEF Pending
<1> QED
  BY <1>1, <1>2 DEF ReservedIsOwed

LEMMA ReservedWillBe ==
  ASSUME TradeInv'
  PROVE  Booked(orders') /\ (ReservedIsOwed' <=> \A v \in Variants : stock'[v].reserved = Owed(orders', v))
<1>1. Booked(orders')
  BY DEF TradeInv, Booked
<1>2. ASSUME NEW v \in Variants
      PROVE  MapThenSumSet(LAMBDA o : orders[o].lines[v], Pending)' = Owed(orders', v)
  <2>1. MapThenSumSet(LAMBDA o : orders[o].lines[v], Pending)'
        = SumFunctionOnSet([o \in Orders |-> orders'[o].lines[v]], {o \in Orders : orders'[o].status = "PENDING"})
    BY DEF SumFunctionOnSet, FoldFunctionOnSet, MapThenFoldSet, MapThenSumSet, Pending
  <2> QED
    BY <1>1, <2>1, OwedSum
<1> QED
  BY <1>1, <1>2 DEF ReservedIsOwed

\* One order is replaced.
LEMMA OneOrder ==
  ASSUME NEW os, Booked(os), NEW o \in Orders, NEW row, row.lines \in Lines, NEW v \in Variants
  PROVE  Owed([os EXCEPT ![o] = row], v) = Owed(os, v) - Owes(os[o], v) + Owes(row, v)
<1>1. PICK ps : ps = [os EXCEPT ![o] = row]
  OBVIOUS
<1>2. Booked(ps) /\ ps[o] = row /\ \A p \in Orders \ {o} : ps[p] = os[p]
  BY <1>1 DEF Booked
<1> DEFINE f == [p \in Orders |-> Owes(os[p], v)]
           g == [p \in Orders |-> Owes(ps[p], v)]
<1>3. Ints(f, Orders) /\ Ints(g, Orders)
  <2>1. \A p \in Orders : f[p] = Owes(os[p], v) /\ g[p] = Owes(ps[p], v)
    OBVIOUS
  <2>2. \A p \in Orders : Owes(os[p], v) \in Int
    BY OwesNat
  <2>3. \A p \in Orders : Owes(ps[p], v) \in Int
    BY <1>2, OwesNat
  <2> HIDE DEF f, g
  <2> QED
    BY <2>1, <2>2, <2>3 DEF Ints
<1>4. (\A p \in Orders \ {o} : g[p] = f[p]) /\ f[o] = Owes(os[o], v) /\ g[o] = Owes(row, v)
  BY <1>2
<1>5. Owed(os, v) = SumFunctionOnSet(f, Orders) /\ Owed(ps, v) = SumFunctionOnSet(g, Orders)
  BY DEF Owed
<1> HIDE DEF f, g
<1>6. SumFunctionOnSet(g, Orders) = SumFunctionOnSet(f, Orders) - f[o] + g[o]
  BY <1>3, <1>4, SumUpdate, ShopAssumption
<1> QED
  BY <1>1, <1>4, <1>5, <1>6

\* A transaction moves the rows it has locked, and ends: they stay legal, the
\* ledger keeps explaining them, and what others have locked is not touched.
LEMMA RowsMove ==
  ASSUME TradeInv, TradeInv', ShelfInv, NEW c \in Clerks, Quits(c), NEW lines \in Lines, Locked(c) = Lots(lines),
         NEW rows, NEW sign \in {-1, 0, 1}, Moves(lines, rows, sign),
         \A v \in Variants : lines[v] > 0 =>
           rows[v] \in Row /\ LegalRow(rows[v]) /\ rows[v].quantity = stock[v].quantity + sign * lines[v]
  PROVE  ShelfInv'
<1>1. /\ stock' = [v \in Variants |-> IF lines[v] > 0 THEN rows[v] ELSE stock[v]]
      /\ lost' = lost /\ counting' = counting
      /\ ledger' = [v \in Variants |-> IF v \in lost THEN 0 ELSE ledger[v] + sign * lines[v]]
  BY ShopAssumption DEF Moves, Enters
<1>2. \A v \in Variants : lines[v] \in Nat /\ sign * lines[v] \in Int /\ (lines[v] = 0 => sign * lines[v] = 0)
  BY DEF Lines
<1>3. stock \in [Variants -> Row] /\ (\A v \in Variants : LegalRow(stock[v])) /\ ledger \in [Variants -> Int]
      /\ \A v \in Variants \ lost : stock[v].quantity = OnHand[v] + ledger[v]
  BY ShopAssumption DEF ShelfInv, LedgerSums
<1>4. stock' \in [Variants -> Row] /\ \A v \in Variants : LegalRow(stock[v])'
  BY <1>1, <1>3 DEF LegalRow
<1>5. ledger' \in [Variants -> Int]
  BY <1>1, <1>2, <1>3
<1>6. ASSUME NEW v \in Variants \ lost PROVE stock'[v].quantity = OnHand[v] + ledger'[v]
  <2>1. stock[v].quantity = OnHand[v] + ledger[v] /\ ledger[v] \in Int /\ OnHand[v] \in Int
        /\ stock[v].quantity \in Int
    BY <1>3, ShelfAssumption, ShopAssumption DEF Row
  <2>2. ledger'[v] = ledger[v] + sign * lines[v]
    BY <1>1
  <2>3. stock'[v].quantity = stock[v].quantity + sign * lines[v]
    BY <1>1, <1>2, <2>1
  <2>4. sign * lines[v] \in Int
    BY <1>2
  <2>5. PICK m : m = sign * lines[v]
    OBVIOUS
  <2> QED
    BY ONLY <2>1, <2>2, <2>3, <2>4, <2>5
<1>7. LedgerSums'
  BY <1>1, <1>6, ShopAssumption DEF LedgerSums
<1>8. ASSUME NEW d \in Clerks, trade'[d].pc = "reserve", NEW v \in Locked(d)'
      PROVE  trade'[d].lines[v] <= stock'[v].quantity - stock'[v].reserved
  <2>1. d # c /\ trade'[d] = trade[d]
    <3>1. d = c => trade'[d].pc = "done"
      BY NoTradeIs DEF Quits, TradeInv
    <3> QED
      BY <1>8, <3>1 DEF Quits, TradeInv
  <2>2. v \in Locked(d) /\ v \notin Locked(c)
    BY <1>8, <2>1 DEF Locked, TradeInv
  <2>3. v \in Variants
    BY <2>2 DEF TradeInv, Deals, Locked, Lots
  <2>4. stock'[v] = stock[v]
    BY <1>1, <1>2, <2>2, <2>3 DEF Lots
  <2> QED
    BY <1>8, <2>1, <2>2, <2>4 DEF ShelfInv
<1> QED
  BY <1>1, <1>4, <1>5, <1>7, <1>8 DEF ShelfInv

LEMMA OrderOwes ==
  ASSUME TradeInv, TradeInv', ReservedIsOwed, NEW o \in Orders, NEW row, row.lines \in Lines,
         orders' = [orders EXCEPT ![o] = row],
         \A v \in Variants : stock[v].reserved \in Int
                             /\ stock'[v].reserved = stock[v].reserved - Owes(orders[o], v) + Owes(row, v)
  PROVE  ReservedIsOwed'
<1>1. ASSUME NEW v \in Variants PROVE stock'[v].reserved = Owed(orders', v)
  <2>1. Owed([orders EXCEPT ![o] = row], v) = Owed(orders, v) - Owes(orders[o], v) + Owes(row, v)
    BY ReservedIs, OneOrder
  <2> QED
    BY <2>1, ReservedIs
<1> QED
  BY <1>1, ReservedWillBe

LEMMA PlacedStock ==
  ASSUME ShopInv, ShopInv', StockInv, NEW c \in Clerks, NEW o \in Orders, Quits(c), Placed(trade[c], o)
  PROVE  StockInv'
<1>1. PICK a : a = trade[c]
  OBVIOUS
<1>2. TradeInv /\ TradeInv' /\ ShelfInv /\ ReservedIsOwed
  BY DEF ShopInv, StockInv
<1>3. /\ a \in Trade /\ a.pc = "reserve" /\ Range(a.locked) = Lots(a.lines) /\ Locked(c) = Lots(a.lines)
      /\ orders[o].status = "none"
  BY <1>1 DEF Placed, Locked
<1>4. a.lines \in Lines /\ a.cash \in BOOLEAN
  BY <1>3 DEF Trade
<1>5. PICK lines : lines = a.lines
  OBVIOUS
<1>6. \A v \in Variants : /\ stock[v] \in Row /\ LegalRow(stock[v]) /\ lines[v] \in Nat
                          /\ lines[v] > 0 => lines[v] <= stock[v].quantity - stock[v].reserved
  BY <1>1, <1>2, <1>3, <1>4, <1>5 DEF ShelfInv, Lots, Lines
<1>7. PICK row : row = [status |-> IF a.cash THEN "CONFIRMED" ELSE "PENDING", lines |-> lines, price |-> Charge(a)]
  OBVIOUS
<1>8. row.lines \in Lines /\ orders' = [orders EXCEPT ![o] = row]
  BY <1>1, <1>4, <1>5, <1>7 DEF Placed
<1>9. \A v \in Variants : Owes(orders[o], v) = 0 /\ Owes(row, v) = IF a.cash THEN 0 ELSE lines[v]
  BY <1>3, <1>7 DEF Owes
<1>10. CASE a.cash
  <2>1. PICK rows : rows = [v \in Variants |-> Commit(Reserve(stock[v], lines[v]), lines[v])]
    OBVIOUS
  <2>2. Moves(lines, rows, -1)
    BY <1>1, <1>5, <1>10, <2>1 DEF Placed
  <2>3. ASSUME NEW v \in Variants, lines[v] > 0
        PROVE  /\ rows[v] \in Row /\ LegalRow(rows[v]) /\ rows[v].quantity = stock[v].quantity + (-1) * lines[v]
               /\ rows[v].reserved = stock[v].reserved
    <3>1. PICK q, r : q = stock[v].quantity /\ r = stock[v].reserved
      OBVIOUS
    <3>2. stock[v] = [quantity |-> q, reserved |-> r] /\ q \in Int /\ r \in Int
      BY <1>6, <3>1 DEF Row
    <3>3. 0 <= r /\ lines[v] <= q - r /\ lines[v] \in Nat
      BY <1>6, <2>3, <3>1, <3>2 DEF LegalRow
    <3>4. rows[v] = Commit(Reserve(stock[v], lines[v]), lines[v])
      BY <2>1
    <3>5. Reserve(stock[v], lines[v]) = [quantity |-> q, reserved |-> r + lines[v]]
      BY <3>2 DEF Reserve
    <3>6. rows[v] = [quantity |-> q - lines[v], reserved |-> r]
      <4>1. Greatest0(q - lines[v]) = q - lines[v] /\ Greatest0((r + lines[v]) - lines[v]) = r
        BY <3>2, <3>3 DEF Greatest0
      <4> QED
        BY <3>4, <3>5, <4>1 DEF Commit
    <3> QED
      BY <3>1, <3>2, <3>3, <3>6 DEF Row, LegalRow
  <2>4. ShelfInv'
    BY ONLY <1>2, <1>3, <1>4, <1>5, <2>2, <2>3, Quits(c), RowsMove
  <2>5. \A v \in Variants : stock[v].reserved \in Int
                            /\ stock'[v].reserved = stock[v].reserved - Owes(orders[o], v) + Owes(row, v)
    <3> TAKE v \in Variants
    <3>1. stock'[v] = IF lines[v] > 0 THEN rows[v] ELSE stock[v]
      BY <2>2 DEF Moves
    <3>2. stock[v].reserved \in Int
      BY <1>6 DEF Row
    <3> QED
      BY <1>9, <1>10, <2>3, <3>1, <3>2
  <2>6. ReservedIsOwed'
    BY ONLY <1>2, <1>8, <2>5, OrderOwes
  <2> QED
    BY <2>4, <2>6 DEF StockInv
<1>11. CASE ~a.cash
  <2>1. PICK rows : rows = [v \in Variants |-> Reserve(stock[v], lines[v])]
    OBVIOUS
  <2>2. Moves(lines, rows, 0)
    BY <1>1, <1>5, <1>11, <2>1 DEF Placed
  <2>3. ASSUME NEW v \in Variants, lines[v] > 0
        PROVE  /\ rows[v] \in Row /\ LegalRow(rows[v]) /\ rows[v].quantity = stock[v].quantity + 0 * lines[v]
               /\ rows[v].reserved = stock[v].reserved + lines[v]
    <3>1. PICK q, r : q = stock[v].quantity /\ r = stock[v].reserved
      OBVIOUS
    <3>2. stock[v] = [quantity |-> q, reserved |-> r] /\ q \in Int /\ r \in Int
      BY <1>6, <3>1 DEF Row
    <3>3. 0 <= r /\ lines[v] <= q - r /\ lines[v] \in Nat
      BY <1>6, <2>3, <3>1, <3>2 DEF LegalRow
    <3>4. rows[v] = [quantity |-> q, reserved |-> r + lines[v]]
      BY <2>1, <3>2 DEF Reserve
    <3> QED
      BY <3>1, <3>2, <3>3, <3>4 DEF Row, LegalRow
  <2>4. ShelfInv'
    BY ONLY <1>2, <1>3, <1>4, <1>5, <2>2, <2>3, Quits(c), RowsMove
  <2>5. \A v \in Variants : stock[v].reserved \in Int
                            /\ stock'[v].reserved = stock[v].reserved - Owes(orders[o], v) + Owes(row, v)
    <3> TAKE v \in Variants
    <3>1. stock'[v] = IF lines[v] > 0 THEN rows[v] ELSE stock[v]
      BY <2>2 DEF Moves
    <3>2. stock[v].reserved \in Int /\ lines[v] \in Nat
      BY <1>6 DEF Row
    <3> QED
      BY <1>9, <1>11, <2>3, <3>1, <3>2
  <2>6. ReservedIsOwed'
    BY ONLY <1>2, <1>8, <2>5, OrderOwes
  <2> QED
    BY <2>4, <2>6 DEF StockInv
<1> QED
  BY <1>4, <1>10, <1>11

LEMMA SettledStock ==
  ASSUME ShopInv, ShopInv', StockInv, NEW c \in Clerks, NEW step \in Settlements, Settled(c, step)
  PROVE  StockInv'
<1>1. PICK a : a = trade[c]
  OBVIOUS
<1>2. TradeInv /\ TradeInv' /\ ShelfInv /\ ReservedIsOwed
  BY DEF ShopInv, StockInv
<1>3. PICK o, lines : o = a.order /\ lines = a.lines
  OBVIOUS
<1>4. /\ a \in Trade /\ a.pc = step /\ Locked(c) = Lots(lines) /\ Quits(c)
      /\ o \in Orders /\ orders[o].status = From(step) /\ lines = orders[o].lines /\ lines \in Lines
  BY <1>1, <1>2, <1>3 DEF Settled, Ready, TradeInv, Deals, Trade
<1>5. PICK row : row = [orders[o] EXCEPT !.status = To(step)]
  OBVIOUS
<1>6. row.lines = lines /\ row.status = To(step) /\ orders' = [orders EXCEPT ![o] = row]
  <2>1. orders[o] = [status |-> orders[o].status, lines |-> orders[o].lines, price |-> orders[o].price]
    BY <1>2, <1>4 DEF TradeInv
  <2>2. orders' = [orders EXCEPT ![o] = row]
    BY <1>1, <1>3, <1>5 DEF Settled
  <2> QED
    BY <1>4, <1>5, <2>1, <2>2
<1>7. \A v \in Variants : /\ stock[v] \in Row /\ LegalRow(stock[v]) /\ lines[v] \in Nat
                          /\ step # "restock" => lines[v] <= stock[v].reserved
                          /\ Owes(row, v) = 0 /\ Owes(orders[o], v) = IF step = "restock" THEN 0 ELSE lines[v]
  <2> TAKE v \in Variants
  <2>1. stock[v] \in Row /\ LegalRow(stock[v]) /\ lines[v] \in Nat
    BY <1>2, <1>4 DEF ShelfInv, Lines
  <2>2. Owes(row, v) = 0 /\ Owes(orders[o], v) = IF step = "restock" THEN 0 ELSE lines[v]
    BY <1>4, <1>6 DEF Owes, To, From
  <2>3. Owes(orders[o], v) <= Owed(orders, v) /\ stock[v].reserved = Owed(orders, v)
    BY <1>2, <1>4, ReservedIs, OwedSum
  <2> QED
    BY <2>1, <2>2, <2>3
\* How much a row changes.
<1>8. ASSUME NEW rows, NEW sign \in {-1, 0, 1}, Moves(lines, rows, sign),
             \A v \in Variants : lines[v] > 0 =>
               rows[v] = [quantity |-> stock[v].quantity + sign * lines[v],
                          reserved |-> stock[v].reserved - Owes(orders[o], v)],
             sign = -1 => step # "restock"
      PROVE  StockInv'
  <2>1. ASSUME NEW v \in Variants, lines[v] > 0
        PROVE  /\ rows[v] \in Row /\ LegalRow(rows[v])
               /\ rows[v].quantity = stock[v].quantity + sign * lines[v]
               /\ rows[v].reserved = stock[v].reserved - Owes(orders[o], v)
    <3>1. PICK q, r, m, n : q = stock[v].quantity /\ r = stock[v].reserved /\ m = sign * lines[v] /\ n = Owes(orders[o], v)
      OBVIOUS
    <3>2. q \in Int /\ r \in Int /\ 0 <= r /\ r <= q
      BY <1>7, <3>1 DEF Row, LegalRow
    <3>3. m \in {-lines[v], 0, lines[v]} /\ lines[v] \in Nat /\ (m = -lines[v] => sign = -1)
      BY <1>7, <2>1, <3>1
    <3>4. n \in Int /\ n <= r /\ (sign = -1 => n = lines[v]) /\ 0 <= n
      BY <1>7, <1>8, <3>1, <3>2
    <3>5. rows[v] = [quantity |-> q + m, reserved |-> r - n]
      BY <1>8, <2>1, <3>1
    <3>6. q + m \in Int /\ r - n \in Int /\ 0 <= r - n /\ r - n <= q + m
      BY ONLY <3>2, <3>3, <3>4
    <3> QED
      BY <3>1, <3>5, <3>6 DEF Row, LegalRow
  <2>2. ShelfInv'
    BY ONLY <1>2, <1>4, <1>8, <2>1, RowsMove
  <2>3. \A v \in Variants : stock[v].reserved \in Int
                            /\ stock'[v].reserved = stock[v].reserved - Owes(orders[o], v) + Owes(row, v)
    <3> TAKE v \in Variants
    <3>1. stock'[v] = IF lines[v] > 0 THEN rows[v] ELSE stock[v]
      BY <1>8 DEF Moves
    <3>2. stock[v].reserved \in Int
      BY <1>7 DEF Row
    <3>3. lines[v] = 0 => Owes(orders[o], v) = 0
      BY <1>7
    <3> QED
      BY <1>7, <2>1, <3>1, <3>2, <3>3
  <2>4. ReservedIsOwed'
    BY ONLY <1>2, <1>4, <1>6, <2>3, OrderOwes
  <2> QED
    BY <2>2, <2>4 DEF StockInv
<1>9. CASE step = "sell"
  <2>1. PICK rows : rows = [v \in Variants |-> Commit(stock[v], lines[v])]
    OBVIOUS
  <2>2. Moves(lines, rows, -1)
    BY <1>1, <1>3, <1>9, <2>1 DEF Settled
  <2>3. ASSUME NEW v \in Variants
        PROVE  rows[v] = [quantity |-> stock[v].quantity + (-1) * lines[v],
                          reserved |-> stock[v].reserved - Owes(orders[o], v)]
    <3>1. PICK q, r, n : q = stock[v].quantity /\ r = stock[v].reserved /\ n = lines[v]
      OBVIOUS
    <3>2. q \in Int /\ r \in Int /\ n \in Nat /\ n <= r /\ r <= q /\ Owes(orders[o], v) = n
      BY <1>7, <1>9, <3>1 DEF Row, LegalRow
    <3>3. Greatest0(q - n) = q + (-1) * n /\ Greatest0(r - n) = r - n
      BY ONLY <3>2 DEF Greatest0
    <3> QED
      BY <2>1, <3>1, <3>2, <3>3 DEF Commit
  <2> QED
    BY <1>8, <1>9, <2>2, <2>3
<1>10. CASE step = "release"
  <2>1. PICK rows : rows = [v \in Variants |-> Release(stock[v], lines[v])]
    OBVIOUS
  <2>2. Moves(lines, rows, 0)
    BY <1>1, <1>3, <1>10, <2>1 DEF Settled
  <2>3. ASSUME NEW v \in Variants
        PROVE  rows[v] = [quantity |-> stock[v].quantity + 0 * lines[v],
                          reserved |-> stock[v].reserved - Owes(orders[o], v)]
    <3>1. PICK q, r, n : q = stock[v].quantity /\ r = stock[v].reserved /\ n = lines[v]
      OBVIOUS
    <3>2. q \in Int /\ r \in Int /\ n \in Nat /\ n <= r /\ r <= q /\ Owes(orders[o], v) = n
          /\ stock[v] = [quantity |-> q, reserved |-> r]
      BY <1>7, <1>10, <3>1 DEF Row, LegalRow
    <3>3. Greatest0(r - n) = r - n /\ q + 0 * n = q
      BY ONLY <3>2 DEF Greatest0
    <3> QED
      BY <2>1, <3>1, <3>2, <3>3 DEF Release
  <2> QED
    BY <1>8, <1>10, <2>2, <2>3
<1>11. CASE step = "restock"
  <2>1. PICK rows : rows = [v \in Variants |-> Restock(stock[v], lines[v])]
    OBVIOUS
  <2>2. Moves(lines, rows, 1)
    BY <1>1, <1>3, <1>11, <2>1 DEF Settled
  <2>3. ASSUME NEW v \in Variants
        PROVE  rows[v] = [quantity |-> stock[v].quantity + 1 * lines[v],
                          reserved |-> stock[v].reserved - Owes(orders[o], v)]
    <3>1. PICK q, r, n : q = stock[v].quantity /\ r = stock[v].reserved /\ n = lines[v]
      OBVIOUS
    <3>2. q \in Int /\ r \in Int /\ n \in Nat /\ Owes(orders[o], v) = 0 /\ stock[v] = [quantity |-> q, reserved |-> r]
      BY <1>7, <1>11, <3>1 DEF Row
    <3>3. r - 0 = r /\ q + 1 * n = q + n
      BY ONLY <3>2
    <3> QED
      BY <2>1, <3>1, <3>2, <3>3 DEF Restock
  <2> QED
    BY <1>8, <1>11, <2>2, <2>3
<1> QED
  BY <1>9, <1>10, <1>11 DEF Settlements

LEMMA CountingIs ==
  /\ NoCounting \in Counting /\ [NoCounting EXCEPT !.pc = "done"] \in Counting
BY DEF NoCounting, Counting, Row

\* A checkout reads what is there before it has the row.
LEMMA LockStock ==
  ASSUME TradeInv, TradeInv', StockInv, NEW c \in Clerks, NEW v \in Variants, Lock(c, v)
  PROVE  StockInv'
<1>1. ShelfInv /\ ReservedIsOwed /\ UNCHANGED <<shelfVars, orders>>
  BY DEF StockInv, Lock
<1>2. ASSUME NEW d \in Clerks, trade'[d].pc = "reserve", NEW u \in Locked(d)'
      PROVE  trade'[d].lines[u] <= stock'[u].quantity - stock'[u].reserved
  <2>1. CASE d # c
    <3>1. trade'[d] = trade[d]
      BY <2>1 DEF Lock, Quits, TradeInv
    <3>2. u \in Locked(d)
      BY <1>2, <3>1 DEF Locked
    <3> QED
      BY <1>1, <1>2, <3>1, <3>2 DEF ShelfInv, shelfVars
  <2>2. CASE d = c
    <3>1. ~Quits(c)
      BY <1>2, <2>2, NoTradeIs DEF Quits, TradeInv
    <3>2. trade[c] \in Trade /\ trade' = [trade EXCEPT ![c].locked = Append(@, v)]
          /\ (trade[c].pc = "reserve" => CanReserve(stock[v], trade[c].lines[v], FALSE))
      BY <3>1 DEF Lock, TradeInv
    <3>3. /\ trade'[c].pc = trade[c].pc /\ trade'[c].lines = trade[c].lines
          /\ trade'[c].locked = Append(trade[c].locked, v) /\ trade[c].locked \in Seq(Variants)
      BY <3>2 DEF TradeInv, Trade
    <3>4. u \in Range(trade[c].locked) \cup {v}
      BY <1>2, <2>2, <3>3, RangeAppended DEF Locked
    <3>5. CASE u = v
      <4>1. stock[v].quantity - stock[v].reserved >= trade[c].lines[v]
        BY <1>2, <2>2, <3>2, <3>3 DEF CanReserve
      <4>2. stock[v].quantity \in Int /\ stock[v].reserved \in Int /\ trade[c].lines[v] \in Int
        BY <1>1, <3>2 DEF ShelfInv, Row, Trade, Lines
      <4> QED
        BY <1>1, <2>2, <3>3, <3>5, <4>1, <4>2 DEF shelfVars
    <3>6. CASE u # v
      BY <1>1, <1>2, <2>2, <3>3, <3>4, <3>6 DEF ShelfInv, shelfVars, Locked
    <3> QED
      BY <3>5, <3>6
  <2> QED
    BY <2>1, <2>2
<1>3. ShelfInv'
  BY <1>1, <1>2 DEF ShelfInv, LegalRow, LedgerSums, shelfVars
<1>4. ReservedIsOwed'
  BY <1>1, ReservedIs, ReservedWillBe DEF shelfVars
<1> QED
  BY <1>3, <1>4 DEF StockInv

\* One transaction starts, or ends, without a write.
LEMMA ShelfStays ==
  ASSUME TradeInv, TradeInv', StockInv, UNCHANGED <<shelfVars, orders>>,
         \A d \in Clerks : trade'[d] = trade[d] \/ trade'[d].pc # "reserve" \/ Locked(d)' = {}
  PROVE  StockInv'
<1>1. ShelfInv /\ ReservedIsOwed
  BY DEF StockInv
<1>2. ASSUME NEW d \in Clerks, trade'[d].pc = "reserve", NEW u \in Locked(d)'
      PROVE  trade'[d].lines[u] <= stock'[u].quantity - stock'[u].reserved
  <2>1. trade'[d] = trade[d]
    BY <1>2
  <2>2. u \in Locked(d)
    BY <1>2, <2>1 DEF Locked
  <2> QED
    BY <1>1, <1>2, <2>1, <2>2 DEF ShelfInv, shelfVars
<1>3. ShelfInv'
  BY <1>1, <1>2 DEF ShelfInv, LegalRow, LedgerSums, shelfVars
<1>4. ReservedIsOwed'
  BY <1>1, ReservedIs, ReservedWillBe DEF shelfVars
<1> QED
  BY <1>3, <1>4 DEF StockInv

LEMMA ReadStock ==
  ASSUME TradeInv, TradeInv', StockInv, NEW c \in Counters, NEW i \in Items, NEW to \in 0..MaxOnHand,
         AdjustRead(c, i, to), UNCHANGED <<orders, trade>>
  PROVE  StockInv'
<1>1. ShelfInv /\ ReservedIsOwed
  BY DEF StockInv
<1>2. stock' = stock /\ ledger' = ledger /\ lost' = lost
      /\ counting' = [counting EXCEPT ![c] = [pc |-> "write", item |-> i, read |-> stock[i], to |-> to]]
  BY DEF AdjustRead
<1>3. [pc |-> "write", item |-> i, read |-> stock[i], to |-> to] \in Counting
  BY <1>1, ShelfAssumption, ShopAssumption DEF Counting, ShelfInv
<1>4. counting' \in [Counters -> Counting]
  BY <1>1, <1>2, <1>3 DEF ShelfInv
<1>5. ASSUME NEW d \in Clerks, trade'[d].pc = "reserve", NEW u \in Locked(d)'
      PROVE  trade'[d].lines[u] <= stock'[u].quantity - stock'[u].reserved
  BY <1>1, <1>2, <1>5 DEF ShelfInv, Locked
<1>6. ShelfInv'
  BY <1>1, <1>2, <1>4, <1>5 DEF ShelfInv, LegalRow, LedgerSums
<1>7. ReservedIsOwed'
  BY <1>1, <1>2, ReservedIs, ReservedWillBe
<1> QED
  BY <1>6, <1>7 DEF StockInv

\* An adjustment keeps what is reserved, and writes no row that is locked.
LEMMA AdjustStock ==
  ASSUME TradeInv, TradeInv', StockInv, NEW c \in Counters, AdjustWrite(c, Free), UNCHANGED <<orders, trade>>
  PROVE  StockInv'
<1>1. ShelfInv /\ ReservedIsOwed
  BY DEF StockInv
<1>2. PICK a, i, row : a = counting[c] /\ i = a.item /\ row = [quantity |-> a.to, reserved |-> stock[i].reserved]
  OBVIOUS
<1>3. /\ a \in Counting /\ i \in Free /\ i \in Variants /\ Counted(a) = row
  BY <1>1, <1>2 DEF AdjustWrite, ShelfInv, Free, Counted
<1>4. a.to \in Nat /\ a.read.quantity \in Int /\ stock[i].reserved \in Int
  BY <1>1, <1>3 DEF Counting, Row, ShelfInv
<1>5. counting' = [counting EXCEPT ![c] = [NoCounting EXCEPT !.pc = "done"]]
      /\ counting' \in [Counters -> Counting]
  BY <1>1, CountingIs DEF AdjustWrite, ShelfInv
<1>6. CASE ~LegalRow(row)
  <2>1. stock' = stock /\ ledger' = ledger /\ lost' = lost
    BY <1>2, <1>3, <1>6 DEF AdjustWrite
  <2>2. ASSUME NEW d \in Clerks, trade'[d].pc = "reserve", NEW u \in Locked(d)'
        PROVE  trade'[d].lines[u] <= stock'[u].quantity - stock'[u].reserved
    BY <1>1, <2>1, <2>2 DEF ShelfInv, Locked
  <2>3. ShelfInv'
    BY <1>1, <1>5, <2>1, <2>2 DEF ShelfInv, LegalRow, LedgerSums
  <2>4. ReservedIsOwed'
    BY <1>1, <2>1, ReservedIs, ReservedWillBe
  <2> QED
    BY <2>3, <2>4 DEF StockInv
<1>7. CASE LegalRow(row)
  <2>1. /\ stock' = [stock EXCEPT ![i] = row]
        /\ lost' = IF stock[i].quantity = a.read.quantity THEN lost ELSE lost \cup {i}
        /\ ledger' = [v \in Items |-> IF v \in lost' THEN 0 ELSE ledger[v] + (IF v = i THEN a.to - a.read.quantity ELSE 0)]
    BY <1>2, <1>3, <1>7 DEF AdjustWrite, Enters, Delta
  <2>2. row \in Row /\ row.reserved = stock[i].reserved /\ row.quantity = a.to
    BY <1>2, <1>4 DEF Row
  <2>3. \A v \in Variants : stock'[v] = IF v = i THEN row ELSE stock[v]
    BY <1>1, <2>1 DEF ShelfInv
  <2>4. stock' \in [Variants -> Row] /\ \A v \in Variants : LegalRow(stock[v])'
    BY <1>1, <1>7, <2>1, <2>2, <2>3 DEF ShelfInv, LegalRow
  <2>5. lost' \subseteq Variants /\ lost \subseteq lost'
    BY <1>1, <1>3, <2>1 DEF ShelfInv
  <2>6. ledger' \in [Variants -> Int]
    <3>1. \A v \in Variants : ledger[v] \in Int /\ a.to - a.read.quantity \in Int
      BY <1>1, <1>4 DEF ShelfInv
    <3> QED
      BY <2>1, <3>1, ShopAssumption
  <2>7. ASSUME NEW v \in Variants \ lost' PROVE stock'[v].quantity = OnHand[v] + ledger'[v]
    <3>1. stock[v].quantity = OnHand[v] + ledger[v] /\ ledger[v] \in Int /\ OnHand[v] \in Int
          /\ stock[v].quantity \in Int
      BY <1>1, <2>5, ShelfAssumption, ShopAssumption DEF ShelfInv, LedgerSums, Row
    <3>2. ledger'[v] = ledger[v] + (IF v = i THEN a.to - a.read.quantity ELSE 0)
      BY <2>1, ShopAssumption
    <3>3. v = i => stock[i].quantity = a.read.quantity
      BY <2>1
    <3>4. stock'[v].quantity = IF v = i THEN a.to ELSE stock[v].quantity
      BY <2>2, <2>3
    <3> QED
      BY <1>4, <3>1, <3>2, <3>3, <3>4
  <2>8. LedgerSums'
    BY <2>7, ShopAssumption DEF LedgerSums
  <2>9. ASSUME NEW d \in Clerks, trade'[d].pc = "reserve", NEW u \in Locked(d)'
        PROVE  trade'[d].lines[u] <= stock'[u].quantity - stock'[u].reserved
    <3>1. u \in Locked(d) /\ trade'[d] = trade[d]
      BY <2>9 DEF Locked
    <3>2. u # i
      BY <1>3, <3>1 DEF Free
    <3>3. u \in Variants
      BY <3>1 DEF TradeInv, Deals, Locked, Lots
    <3> QED
      BY <1>1, <2>3, <2>9, <3>1, <3>2, <3>3 DEF ShelfInv
  <2>10. ShelfInv'
    BY <1>5, <2>4, <2>5, <2>6, <2>8, <2>9 DEF ShelfInv
  <2>11. \A v \in Variants : stock'[v].reserved = stock[v].reserved
    BY <2>2, <2>3
  <2>12. ReservedIsOwed'
    BY <1>1, <2>11, ReservedIs, ReservedWillBe
  <2> QED
    BY <2>10, <2>12 DEF StockInv
<1> QED
  BY <1>6, <1>7

LEMMA StockInit ==
  ASSUME Init, ShopInv
  PROVE  StockInv
<1>1. TradeInv
  BY DEF ShopInv
<1>2. /\ stock = [i \in Variants |-> [quantity |-> OnHand[i], reserved |-> 0]] /\ ledger = [i \in Variants |-> 0]
      /\ counting = [c \in Counters |-> NoCounting] /\ lost = {} /\ OnHand \in [Variants -> Nat]
  BY ShelfAssumption, ShopAssumption DEF Init, ShelfInit
<1>3. stock \in [Variants -> Row] /\ \A v \in Variants : LegalRow(stock[v])
  BY <1>2 DEF Row, LegalRow
<1>4. LedgerSums
  BY <1>2, ShopAssumption DEF LedgerSums
<1>5. \A c \in Clerks : trade[c].pc # "reserve"
  BY NoTradeIs DEF Init
<1>6. ShelfInv
  BY <1>2, <1>3, <1>4, <1>5, CountingIs DEF ShelfInv
<1>7. ASSUME NEW v \in Variants PROVE stock[v].reserved = Owed(orders, v)
  <2>1. PICK f : f = [o \in Orders |-> Owes(orders[o], v)]
    OBVIOUS
  <2>2. \A o \in Orders : f[o] = 0
    BY <2>1 DEF Owes, Init, NoOrder
  <2>3. SumFunctionOnSet(f, {}) = SumFunctionOnSet(f, Orders)
    <3>1. {} \in SUBSET Orders /\ Ints(f, Orders) /\ \A o \in Orders : f[o] = IF o \in {} THEN f[o] ELSE 0
      BY <2>2 DEF Ints
    <3> QED
      BY <3>1, SumOfPart, ShopAssumption
  <2>4. Owed(orders, v) = 0
    BY <2>1, <2>3, SumStep DEF Owed
  <2> QED
    BY <1>2, <2>4
<1> QED
  BY <1>1, <1>6, <1>7, ReservedIs DEF StockInv

LEMMA StockStep ==
  ASSUME ShopInv, ShopInv', StockInv, [Next]_vars
  PROVE  StockInv'
<1>0. TradeInv /\ TradeInv'
  BY DEF ShopInv
<1>1. ASSUME UNCHANGED <<shelfVars, orders, trade>> PROVE StockInv'
  BY <1>0, <1>1, ShelfStays
<1>2. ASSUME NEW c \in Counters, ShelfStep(c, Free), UNCHANGED <<cartVars, orders, trade>> PROVE StockInv'
  BY <1>0, <1>2, ReadStock, AdjustStock DEF ShelfStep
<1>3. ASSUME NEW c \in Clerks, Quits(c), UNCHANGED <<shelfVars, orders>> PROVE StockInv'
  <2>1. \A d \in Clerks : trade'[d] = trade[d] \/ trade'[d].pc # "reserve"
    BY <1>0, <1>3, NoTradeIs DEF Quits, TradeInv
  <2> QED
    BY <1>0, <1>3, <2>1, ShelfStays
<1>4. ASSUME NEW c \in Clerks, Trades(c) PROVE StockInv'
  <2>1. ASSUME NEW s \in Shoppers, NEW k \in Carts, NEW cash \in BOOLEAN, Checkout(c, s, k, cash)
        PROVE  StockInv'
    <3>1. \A d \in Clerks \ {c} : trade'[d] = trade[d]
      BY <1>0, <2>1 DEF Checkout, TradeInv
    <3>2. trade'[c].locked = NoTrade.locked
      BY <1>0, <2>1 DEF Checkout, TradeInv, NoTrade
    <3>3. Locked(c)' = {}
      BY <3>2, NoTradeIs DEF Locked
    <3> QED
      BY <1>0, <2>1, <3>1, <3>3, ShelfStays DEF Checkout
  <2>2. ASSUME NEW v \in Variants, Lock(c, v) PROVE StockInv'
    BY <1>0, <2>2, LockStock
  <2>3. ASSUME NEW o \in Orders, Place(c, o) PROVE StockInv'
    BY <1>0, <1>3, <2>3, PlaceDoes, PlacedStock
  <2>4. ASSUME NEW o \in Orders, NEW step \in Settlements, Settle(c, o, step) PROVE StockInv'
    <3>1. \A d \in Clerks : trade'[d] = trade[d] \/ trade'[d].pc # "reserve"
      BY <1>0, <2>4 DEF Settle, TradeInv, NoTrade, Settlements
    <3> QED
      BY <1>0, <2>4, <3>1, ShelfStays DEF Settle
  <2>5. ASSUME NEW step \in Settlements, Settled(c, step) PROVE StockInv'
    BY <2>5, SettledStock
  <2>6. CASE Abort(c)
    BY <1>3, <2>6 DEF Abort
  <2> QED
    BY <1>4, <2>1, <2>2, <2>3, <2>4, <2>5, <2>6 DEF Trades
<1> QED
  BY <1>1, <1>2, <1>4 DEF Next, vars

-------------------------------------------------------------------------------
\* The arithmetic of a price.

LEMMA SumBound ==
  ASSUME NEW S, IsFiniteSet(S), NEW f, NEW g, Ints(f, S), Ints(g, S), NEW a \in Int, NEW b \in Int, NEW c \in Int,
         \A x \in S : a * f[x] >= b * g[x] - c
  PROVE  a * SumFunctionOnSet(f, S) >= b * SumFunctionOnSet(g, S) - c * Cardinality(S)
<1> DEFINE Bad == {s \in SUBSET S :
             ~ (a * SumFunctionOnSet(f, s) >= b * SumFunctionOnSet(g, s) - c * Cardinality(s))}
<1>0. SUFFICES ASSUME Bad # {} PROVE FALSE
  OBVIOUS
<1>1. PICK s \in Bad : /\ IsFiniteSet(s)
                       /\ s # {} => /\ Picked(s) \in s
                                    /\ s \ {Picked(s)} \in SUBSET S
                                    /\ s \ {Picked(s)} \notin Bad
                                    /\ IsFiniteSet(s \ {Picked(s)})
  <2>1. Bad \subseteq SUBSET S
    OBVIOUS
  <2> HIDE DEF Bad
  <2> QED
    BY <1>0, <2>1, LeastFailing
<1>2. s # {}
  <2>1. SumFunctionOnSet(f, {}) = 0 /\ SumFunctionOnSet(g, {}) = 0
    BY SumStep
  <2>2. Cardinality({}) = 0
    BY FS_EmptySet
  <2>3. a * 0 >= b * 0 - c * 0
    OBVIOUS
  <2>4. {} \notin Bad
    BY <2>1, <2>2, <2>3
  <2> HIDE DEF Bad
  <2> QED
    BY <2>4
<1> DEFINE p == Picked(s)
           r == s \ {p}
<1>3. p \in s /\ p \in S /\ r \in SUBSET S /\ IsFiniteSet(r)
  BY <1>1, <1>2
<1>4. /\ SumFunctionOnSet(f, s) = f[p] + SumFunctionOnSet(f, r)
      /\ SumFunctionOnSet(g, s) = g[p] + SumFunctionOnSet(g, r)
  BY <1>1, <1>2, SumStep
<1>5. a * SumFunctionOnSet(f, r) >= b * SumFunctionOnSet(g, r) - c * Cardinality(r)
  BY <1>1, <1>2
<1>6. SumFunctionOnSet(f, r) \in Int /\ SumFunctionOnSet(g, r) \in Int
  BY <1>3, SumInt DEF Ints
<1>7. f[p] \in Int /\ g[p] \in Int /\ a * f[p] >= b * g[p] - c
  BY <1>3 DEF Ints
<1>8. Cardinality(s) = Cardinality(r) + 1 /\ Cardinality(r) \in Int
  <2>1. Cardinality(s) \in Nat /\ Cardinality(r) = Cardinality(s) - 1 /\ Cardinality(r) \in Nat
    BY <1>1, <1>3, FS_RemoveElement, FS_CardinalityType
  <2> QED
    BY <2>1
<1>9. ~ (a * SumFunctionOnSet(f, s) >= b * SumFunctionOnSet(g, s) - c * Cardinality(s))
  OBVIOUS
<1> HIDE DEF p, r, Bad
<1>10. PICK F, G, n, x, y : F = SumFunctionOnSet(f, r) /\ G = SumFunctionOnSet(g, r) /\ n = Cardinality(r)
                            /\ x = f[p] /\ y = g[p]
  OBVIOUS
<1>11. F \in Int /\ G \in Int /\ n \in Int /\ x \in Int /\ y \in Int
  BY <1>6, <1>7, <1>8, <1>10
<1>12. a * (x + F) = a * x + a * F /\ b * (y + G) = b * y + b * G /\ c * (n + 1) = c * n + c
  BY ONLY <1>11, a \in Int, b \in Int, c \in Int
<1>13. a * F >= b * G - c * n /\ a * x >= b * y - c /\ ~ (a * (x + F) >= b * (y + G) - c * (n + 1))
  BY <1>4, <1>5, <1>7, <1>8, <1>9, <1>10
<1>14. a * F \in Int /\ b * G \in Int /\ c * n \in Int /\ a * x \in Int /\ b * y \in Int
  BY ONLY <1>11, a \in Int, b \in Int, c \in Int
<1>15. PICK aF, bG, cn, ax, by : aF = a * F /\ bG = b * G /\ cn = c * n /\ ax = a * x /\ by = b * y
  OBVIOUS
<1>16. aF >= bG - cn /\ ax >= by - c /\ ~ (ax + aF >= by + bG - (cn + c))
  BY ONLY <1>12, <1>13, <1>15
<1>17. aF \in Int /\ bG \in Int /\ cn \in Int /\ ax \in Int /\ by \in Int
  BY ONLY <1>14, <1>15
<1> QED
  BY ONLY <1>16, <1>17, c \in Int

LEMMA DivBetween ==
  ASSUME NEW a \in Int, NEW b \in Nat, b > 0
  PROVE  a \div b \in Int /\ b * (a \div b) <= a /\ a < b * (a \div b) + b
OBVIOUS

LEMMA Rounded ==
  ASSUME NEW a \in Int, NEW b \in Nat, b > 0
  PROVE  /\ RoundDiv(a, b) \in Int
         /\ 2 * (b * RoundDiv(a, b)) <= 2 * a + b
         /\ 2 * a - b < 2 * (b * RoundDiv(a, b))
<1>1. PICK x, y, q : x = 2 * a + b /\ y = 2 * b /\ q = x \div y
  OBVIOUS
<1>2. x \in Int /\ y \in Nat /\ y > 0
  BY <1>1
<1>3. q \in Int /\ y * q <= x /\ x < y * q + y
  BY <1>1, <1>2, DivBetween
<1>4. q = RoundDiv(a, b)
  BY <1>1 DEF RoundDiv
<1>5. y * q = 2 * (b * q) /\ b * q \in Int
  BY <1>1, <1>3
<1> QED
  BY <1>1, <1>3, <1>4, <1>5

LEMMA LenIs ==
  ASSUME NEW n \in Nat, NEW f, f = [i \in 1..n |-> f[i]], \A i \in 1..n : f[i] \in Int
  PROVE  Len(f) = n
<1>1. f \in [1..n -> Int]
  OBVIOUS
<1>2. f \in Seq(Int)
  BY <1>1
<1> QED
  BY <1>1, <1>2

LEMMA DiscountBetween ==
  ASSUME NEW subtotal \in Nat, NEW coupon \in [type : {"NONE", "PERCENTAGE", "FIXED"}, value : Nat, max : Nat]
  PROVE  Discount(subtotal, coupon) \in Nat /\ Discount(subtotal, coupon) <= subtotal
<1>1. PICK full : full = CASE coupon.type = "PERCENTAGE" -> RoundDiv(subtotal * coupon.value, 100)
                           [] coupon.type = "FIXED" -> coupon.value
                           [] OTHER -> 0
  OBVIOUS
<1>2. full \in Nat
  <2>1. subtotal * coupon.value \in Nat
    OBVIOUS
  <2>2. RoundDiv(subtotal * coupon.value, 100) \in Nat
    <3>1. PICK m : m = subtotal * coupon.value
      OBVIOUS
    <3>2. m \in Nat /\ RoundDiv(m, 100) \in Int /\ 2 * m - 100 < 2 * (100 * RoundDiv(m, 100))
      BY <2>1, <3>1, Rounded
    <3> QED
      BY <3>1, <3>2
  <2> QED
    BY <1>1, <2>2
<1>3. PICK capped : capped = IF coupon.max > 0 THEN Smaller(full, coupon.max) ELSE full
  OBVIOUS
<1>4. capped \in Nat
  BY <1>2, <1>3 DEF Smaller
<1>5. Discount(subtotal, coupon) = Smaller(capped, subtotal)
  BY <1>1, <1>3 DEF Discount
<1> QED
  BY <1>4, <1>5 DEF Smaller

\* What a price is made of.
Made(price, n, lines, store, coupon, worth, subtotal, discount, rounded, share, base, tax) ==
  /\ worth = [i \in 1..n |-> lines[i].price * lines[i].quantity]
  /\ subtotal = SumFunctionOnSet(worth, 1..n)
  /\ discount = Discount(subtotal, coupon)
  /\ rounded = [i \in 1..n |-> IF subtotal > 0 THEN RoundDiv(worth[i] * discount, subtotal) ELSE 0]
  /\ share = [rounded EXCEPT ![Len(worth)] = discount - SumFunctionOnSet(rounded, 1..(Len(worth) - 1))]
  /\ base = [i \in 1..n |-> AtLeast0(worth[i] - share[i])]
  /\ tax = [i \in 1..n |-> Tax(base[i], lines[i].rate, store.inclusive)]
  /\ price.subtotal = subtotal /\ price.discount = discount /\ price.share = share
  /\ price.tax = SumFunctionOnSet(tax, 1..n)
  /\ price.shipping = Shipping(subtotal - discount, store)
  /\ price.lineTotal = [i \in 1..n |-> IF store.inclusive THEN base[i] ELSE base[i] + tax[i]]

LEMMA PriceIs ==
  ASSUME NEW n \in Nat, NEW lines, DOMAIN lines = 1..n, NEW store, NEW coupon
  PROVE  \E worth, subtotal, discount, rounded, share, base, tax :
           Made(Price(lines, store, coupon), n, lines, store, coupon, worth, subtotal, discount, rounded,
                share, base, tax)
<1>1. PICK worth : worth = [i \in 1..n |-> lines[i].price * lines[i].quantity]
  OBVIOUS
<1>2. PICK subtotal : subtotal = SumFunctionOnSet(worth, 1..n)
  OBVIOUS
<1>3. PICK discount : discount = Discount(subtotal, coupon)
  OBVIOUS
<1>4. PICK rounded : rounded = [i \in 1..n |-> IF subtotal > 0 THEN RoundDiv(worth[i] * discount, subtotal) ELSE 0]
  OBVIOUS
<1>5. PICK share : share = [rounded EXCEPT ![Len(worth)] = discount - SumFunctionOnSet(rounded, 1..(Len(worth) - 1))]
  OBVIOUS
<1>6. PICK base : base = [i \in 1..n |-> AtLeast0(worth[i] - share[i])]
  OBVIOUS
<1>7. PICK tax : tax = [i \in 1..n |-> Tax(base[i], lines[i].rate, store.inclusive)]
  OBVIOUS
<1>8. PICK shipping : shipping = Shipping(subtotal - discount, store)
  OBVIOUS
<1>9. DOMAIN worth = 1..n /\ DOMAIN tax = 1..n
  BY <1>1, <1>7
<1>10. worth = [i \in DOMAIN lines |-> lines[i].price * lines[i].quantity]
  BY <1>1
<1>11. subtotal = SumFunction(worth)
  BY <1>2, <1>9 DEF SumFunction
<1>12. share = Shares(worth, subtotal, discount)
  BY <1>4, <1>5, <1>9 DEF Shares, InProportion
<1>13. base = [i \in DOMAIN lines |-> AtLeast0(worth[i] - share[i])]
       /\ tax = [i \in DOMAIN lines |-> Tax(base[i], lines[i].rate, store.inclusive)]
  BY <1>6, <1>7
<1>14. PICK price : price = Price(lines, store, coupon)
  OBVIOUS
<1>15. price = [subtotal |-> subtotal, discount |-> discount, share |-> share, tax |-> SumFunction(tax),
                lineTotal |-> [i \in DOMAIN lines |-> IF store.inclusive THEN base[i] ELSE base[i] + tax[i]],
                shipping |-> shipping,
                total |-> AtLeast0(subtotal - discount + shipping + (IF store.inclusive THEN 0 ELSE SumFunction(tax)))]
  BY <1>3, <1>8, <1>10, <1>11, <1>12, <1>13, <1>14 DEF Price
<1>16. /\ price.subtotal = subtotal /\ price.discount = discount /\ price.share = share
       /\ price.tax = SumFunctionOnSet(tax, 1..n) /\ price.shipping = shipping
       /\ price.lineTotal = [i \in 1..n |-> IF store.inclusive THEN base[i] ELSE base[i] + tax[i]]
  BY <1>9, <1>15 DEF SumFunction
<1>17. Made(price, n, lines, store, coupon, worth, subtotal, discount, rounded, share, base, tax)
  BY ONLY <1>1, <1>2, <1>3, <1>4, <1>5, <1>6, <1>7, <1>8, <1>16 DEF Made
<1> QED
  BY ONLY <1>14, <1>17

\* A share but the last one is at most what the line is worth, and short of its
\* proportion by less than half a unit.
LEMMA ShareOfOne ==
  ASSUME NEW w \in Nat, NEW d \in Nat, NEW s \in Nat, d <= s, s > 0
  PROVE  /\ RoundDiv(w * d, s) \in Int
         /\ RoundDiv(w * d, s) <= w
         /\ (2 * s) * RoundDiv(w * d, s) >= (2 * d) * w - s
<1>1. PICK m, q : m = w * d /\ q = RoundDiv(m, s)
  OBVIOUS
<1>2. m \in Int
  BY <1>1
<1>3. q \in Int /\ 2 * (s * q) <= 2 * m + s /\ 2 * m - s < 2 * (s * q)
  BY <1>1, <1>2, Rounded
<1>4. m <= w * s
  BY <1>1
<1>5. 2 * (s * q) <= 2 * (w * s) + s
  <2>1. PICK x, y : x = s * q /\ y = w * s
    OBVIOUS
  <2>2. x \in Int /\ y \in Int
    BY <1>3, <2>1
  <2>3. 2 * x <= 2 * m + s /\ m <= y
    BY <1>3, <1>4, <2>1
  <2>4. 2 * x <= 2 * y + s
    BY ONLY <1>2, <2>2, <2>3, s \in Nat
  <2> QED
    BY <2>1, <2>4
<1>6. q <= w
  <2> SUFFICES ASSUME q >= w + 1 PROVE FALSE
    BY <1>3
  <2>1. s * q >= s * (w + 1)
    BY <1>3
  <2>2. s * (w + 1) = w * s + s /\ w * s \in Int /\ s * q \in Int
    BY <1>3
  <2>3. PICK x, y : x = s * q /\ y = w * s
    OBVIOUS
  <2>4. x \in Int /\ y \in Int /\ x >= y + s /\ 2 * x <= 2 * y + s
    BY <1>5, <2>1, <2>2, <2>3
  <2> QED
    BY ONLY <2>4, s \in Nat, s > 0
<1>7. (2 * s) * q >= (2 * d) * w - s
  <2>1. (2 * s) * q = 2 * (s * q) /\ (2 * d) * w = 2 * m /\ s * q \in Int
    BY <1>1, <1>3
  <2> QED
    BY <1>2, <1>3, <2>1
<1> QED
  BY <1>1, <1>3, <1>6, <1>7

LEMMA Multiplied ==
  ASSUME NEW a \in Int, NEW b \in Int, NEW c \in Nat
  PROVE  /\ a <= b => c * a <= c * b
         /\ c > 0 /\ c * a <= c * b => a <= b
OBVIOUS

\* A discount d shared over lines worth s together.
Shared(n, worth, s, d, rounded, share) ==
  /\ n \in Nat /\ n > 0 /\ \A i \in 1..n : worth[i] \in Nat
  /\ s = SumFunctionOnSet(worth, 1..n) /\ d \in Nat /\ d <= s
  /\ \A i \in 1..n : rounded[i] = IF s > 0 THEN RoundDiv(worth[i] * d, s) ELSE 0
  /\ share[n] = d - SumFunctionOnSet(rounded, 1..(n - 1))
  /\ \A i \in 1..n : i # n => share[i] = rounded[i]

\* Shares: they add up to the discount; only the last exceeds what its line is
\* worth, by at most half a unit for every other line.
LEMMA SharesAddUp ==
  ASSUME NEW n, NEW worth, NEW s, NEW d, NEW rounded, NEW share, Shared(n, worth, s, d, rounded, share)
  PROVE  /\ s \in Nat
         /\ \A i \in 1..n : share[i] \in Int
         /\ SumFunctionOnSet(share, 1..n) = d
         /\ \A i \in 1..n : i # n => share[i] <= worth[i]
         /\ 2 * share[n] <= 2 * worth[n] + (n - 1)
<1>0. /\ n \in Nat /\ n > 0 /\ \A i \in 1..n : worth[i] \in Nat
      /\ s = SumFunctionOnSet(worth, 1..n) /\ d \in Nat /\ d <= s
      /\ \A i \in 1..n : rounded[i] = IF s > 0 THEN RoundDiv(worth[i] * d, s) ELSE 0
      /\ share[n] = d - SumFunctionOnSet(rounded, 1..(n - 1))
      /\ \A i \in 1..n : i # n => share[i] = rounded[i]
  BY DEF Shared
<1> USE <1>0
<1> DEFINE all == 1..n
           most == 1..(n - 1)
<1>1. /\ IsFiniteSet(all) /\ IsFiniteSet(most) /\ n \in all /\ all \ {n} = most /\ most \subseteq all
      /\ Cardinality(most) = n - 1
  <2>1. 1 \in Int /\ n \in Int /\ n - 1 \in Int
    OBVIOUS
  <2>2. IsFiniteSet(all) /\ IsFiniteSet(most) /\ Cardinality(most) = IF 1 > n - 1 THEN 0 ELSE (n - 1) - 1 + 1
    BY <2>1, FS_Interval
  <2>3. n \in all /\ all \ {n} = most /\ most \subseteq all
    OBVIOUS
  <2> QED
    BY <2>2, <2>3
<1> HIDE DEF all, most
<1>2. s \in Nat /\ Ints(worth, all) /\ Ints(worth, most)
  <2>1. \A i \in all : worth[i] \in Nat
    BY DEF all
  <2>2. s = SumFunctionOnSet(worth, all)
    BY DEF all
  <2>3. SumFunctionOnSet(worth, all) \in Nat
    BY ONLY <1>1, <2>1, SumNat
  <2>4. Ints(worth, all) /\ Ints(worth, most)
    BY <1>1, <2>1 DEF Ints
  <2> QED
    BY <2>2, <2>3, <2>4
<1>3. ASSUME NEW i \in all
      PROVE  /\ rounded[i] \in Int /\ rounded[i] <= worth[i]
             /\ (2 * s) * rounded[i] >= (2 * d) * worth[i] - s
  <2>1. worth[i] \in Nat /\ rounded[i] = IF s > 0 THEN RoundDiv(worth[i] * d, s) ELSE 0
    BY DEF all
  <2>2. CASE s > 0
    BY <1>2, <2>1, <2>2, ShareOfOne
  <2>3. CASE s = 0
    <3>1. d = 0 /\ rounded[i] = 0
      BY <1>2, <2>1, <2>3
    <3>2. (2 * s) * rounded[i] = 0 /\ (2 * d) * worth[i] = 0
      BY <2>1, <2>3, <3>1
    <3> QED
      BY <2>1, <2>3, <3>1, <3>2
  <2> QED
    BY <1>2, <2>2, <2>3
<1>4. Ints(rounded, all) /\ Ints(rounded, most)
  BY <1>1, <1>3 DEF Ints
<1>5. PICK R, W : R = SumFunctionOnSet(rounded, most) /\ W = SumFunctionOnSet(worth, most)
  OBVIOUS
<1>6. R \in Int /\ W \in Nat
  <2>1. SumFunctionOnSet(rounded, most) \in Int
    BY ONLY <1>1, <1>4, SumInt
  <2>2. \A i \in most : worth[i] \in Nat
    BY <1>1 DEF all
  <2>3. SumFunctionOnSet(worth, most) \in Nat
    BY ONLY <1>1, <2>2, SumNat
  <2> QED
    BY <1>5, <2>1, <2>3
<1>7. s = worth[n] + W /\ worth[n] \in Nat
  <2>1. SumFunctionOnSet(worth, all) = worth[n] + SumFunctionOnSet(worth, all \ {n})
    BY <1>1, <1>2, SumWithout
  <2> QED
    BY <1>1, <1>5, <2>1 DEF all
<1>8. (2 * s) * R >= (2 * d) * W - s * (n - 1)
  <2>1. 2 * s \in Int /\ 2 * d \in Int /\ s \in Int
    BY <1>2
  <2>2. \A i \in most : (2 * s) * rounded[i] >= (2 * d) * worth[i] - s
    BY <1>1, <1>3
  <2>3. PICK x, y : x = 2 * s /\ y = 2 * d
    OBVIOUS
  <2>4. x \in Int /\ y \in Int /\ s \in Int /\ \A i \in most : x * rounded[i] >= y * worth[i] - s
    BY <2>1, <2>2, <2>3
  <2>5. x * SumFunctionOnSet(rounded, most) >= y * SumFunctionOnSet(worth, most) - s * Cardinality(most)
    BY ONLY <1>1, <1>2, <1>4, <2>4, SumBound
  <2> QED
    BY <1>1, <1>5, <2>3, <2>5
<1>9. share[n] = d - R /\ \A i \in most : share[i] = rounded[i]
  BY <1>1, <1>5 DEF all, most
<1>10. \A i \in 1..n : share[i] \in Int
  <2>2. \A i \in all : i = n \/ i \in most
    BY <1>1
  <2>3. ASSUME NEW i \in all PROVE share[i] \in Int
    <3>1. CASE i = n
      BY ONLY <1>6, <1>9, <3>1, <1>0
    <3>2. CASE i \in most
      BY <1>3, <1>9, <3>2
    <3> QED
      BY <2>2, <3>1, <3>2
  <2> QED
    BY <2>3 DEF all
<1>11. SumFunctionOnSet(share, 1..n) = d
  <2>1. Ints(share, all)
    BY <1>10 DEF Ints, all
  <2>2. SumFunctionOnSet(share, all) = share[n] + SumFunctionOnSet(share, most)
    BY <1>1, <2>1, SumWithout
  <2>3. SumFunctionOnSet(share, most) = SumFunctionOnSet(rounded, most)
    BY ONLY <1>1, <1>4, <1>9, SumSame
  <2>4. SumFunctionOnSet(share, all) = d
    BY <1>5, <1>6, <1>9, <2>2, <2>3
  <2> QED
    BY <2>4 DEF all
<1>12. \A i \in 1..n : i # n => share[i] <= worth[i]
  <2>1. \A i \in all : i # n => i \in most
    BY <1>1
  <2>2. \A i \in all : i # n => share[i] <= worth[i]
    BY <1>1, <1>3, <1>9, <2>1
  <2> QED
    BY <2>2 DEF all
<1>13. 2 * share[n] <= 2 * worth[n] + (n - 1)
  <2>1. PICK w, x : w = worth[n] /\ x = share[n]
    OBVIOUS
  <2>2. w \in Nat /\ x \in Int /\ x = d - R /\ s = w + W
    BY <1>1, <1>6, <1>7, <1>9, <2>1
  <2>3. CASE s = 0
    <3>1. d = 0
      BY <1>2, <2>3
    <3>2. R >= 0 => 2 * x <= 2 * w + (n - 1)
      BY <1>6, <2>2, <3>1
    <3>3. \A i \in most : rounded[i] \in Nat
      BY <1>1, <2>3 DEF all
    <3>4. R >= 0
      <4>1. SumFunctionOnSet(rounded, most) \in Nat
        BY ONLY <1>1, <3>3, SumNat
      <4> QED
        BY <1>5, <4>1
    <3> QED
      BY <2>1, <3>2, <3>4
  <2>4. CASE s > 0
    <3>1. PICK dW, dw, sR, sx, sw, sd, sn :
            /\ dW = d * W /\ dw = d * w /\ sR = s * R /\ sx = s * x /\ sw = s * w /\ sd = s * d /\ sn = s * (n - 1)
      OBVIOUS
    <3>2. dW \in Int /\ dw \in Int /\ sR \in Int /\ sx \in Int /\ sw \in Int /\ sd \in Int /\ sn \in Int
      BY ONLY <1>2, <1>6, <2>2, <3>1, <1>0
    <3>3. 2 * sR >= 2 * dW - sn
      <4>1. (2 * s) * R = 2 * (s * R) /\ (2 * d) * W = 2 * (d * W)
        BY ONLY <1>2, <1>6, <1>0
      <4> QED
        BY <1>8, <3>1, <4>1
    <3>4. sx = sd - sR
      <4>1. s * (d - R) = s * d - s * R
        BY ONLY <1>2, <1>6, <1>0
      <4> QED
        BY <2>2, <3>1, <4>1
    <3>5. sd = dw + dW
      <4>1. (w + W) * d = d * w + d * W
        BY ONLY <1>6, <2>2, <1>0
      <4> QED
        BY <2>2, <3>1, <4>1
    <3>6. dw <= sw
      <4>1. w * d <= w * s
        BY ONLY <1>2, <2>2, <1>0, Multiplied
      <4>2. w * d = d * w /\ w * s = s * w
        BY ONLY <1>2, <2>2, <1>0
      <4> QED
        BY <3>1, <4>1, <4>2
    <3>7. 2 * sx <= 2 * sw + sn
      BY ONLY <3>2, <3>3, <3>4, <3>5, <3>6
    <3>8. s * (2 * x) <= s * (2 * w + (n - 1))
      <4>1. s * (2 * x) = 2 * (s * x) /\ s * (2 * w + (n - 1)) = 2 * (s * w) + s * (n - 1)
        BY ONLY <1>2, <2>2, <1>0
      <4> QED
        BY <3>1, <3>7, <4>1
    <3>9. 2 * x <= 2 * w + (n - 1)
      <4>1. 2 * x \in Int /\ 2 * w + (n - 1) \in Int
        BY <2>2
      <4> QED
        BY ONLY <1>2, <2>4, <3>8, <4>1, Multiplied
    <3> QED
      BY <2>1, <3>9
  <2> QED
    BY <1>2, <2>3, <2>4
<1> QED
  BY <1>2, <1>10, <1>11, <1>12, <1>13

LEMMA SumZero ==
  ASSUME NEW S, IsFiniteSet(S), NEW f, \A x \in S : f[x] = 0
  PROVE  SumFunctionOnSet(f, S) = 0
<1>1. {} \in SUBSET S /\ Ints(f, S) /\ \A x \in S : f[x] = IF x \in {} THEN f[x] ELSE 0
  BY DEF Ints
<1> QED
  BY <1>1, SumOfPart, SumStep

LEMMA PriceResums ==
  ASSUME NEW n \in Nat, n > 0, NEW lines, DOMAIN lines = 1..n,
         \A i \in 1..n : lines[i].price \in Nat /\ lines[i].quantity \in Nat /\ lines[i].rate \in Nat,
         NEW store \in [inclusive : BOOLEAN, shippingFee : Nat, freeFrom : Nat],
         NEW coupon \in [type : {"NONE", "PERCENTAGE", "FIXED"}, value : Nat, max : Nat],
         Acceptable(Price(lines, store, coupon), store)
  PROVE  Resums(Price(lines, store, coupon))
<1>1. PICK price : price = Price(lines, store, coupon)
  OBVIOUS
<1>2. PICK worth, s, d, rounded, share, base, tax :
        Made(price, n, lines, store, coupon, worth, s, d, rounded, share, base, tax)
  BY <1>1, PriceIs
<1>3. /\ worth = [i \in 1..n |-> worth[i]] /\ \A i \in 1..n : worth[i] \in Nat
      /\ s = SumFunctionOnSet(worth, 1..n)
  <2>1. worth = [i \in 1..n |-> lines[i].price * lines[i].quantity] /\ s = SumFunctionOnSet(worth, 1..n)
    BY <1>2 DEF Made
  <2>2. worth = [i \in 1..n |-> worth[i]] /\ \A i \in 1..n : worth[i] = lines[i].price * lines[i].quantity
    BY ONLY <2>1
  <2>3. \A a \in Nat, b \in Nat : a * b \in Nat
    OBVIOUS
  <2>4. \A i \in 1..n : lines[i].price * lines[i].quantity \in Nat
    BY <2>3
  <2> QED
    BY ONLY <2>1, <2>2, <2>4
<1>4. IsFiniteSet(1..n) /\ n \in 1..n /\ IsFiniteSet((1..n) \ {n})
  <2>1. 1 \in Int /\ n \in Int /\ n \in 1..n
    OBVIOUS
  <2>2. IsFiniteSet(1..n)
    BY ONLY <2>1, FS_Interval
  <2> QED
    BY ONLY <2>1, <2>2, FS_Subset, (1..n) \ {n} \subseteq 1..n
<1>5. s \in Nat
  BY ONLY <1>3, <1>4, SumNat
<1>6. d \in Nat /\ d <= s
  <2>1. d = Discount(s, coupon)
    BY ONLY <1>2 DEF Made
  <2> QED
    BY <1>5, <2>1, DiscountBetween
<1>7. Len(worth) = n
  BY ONLY <1>3, LenIs, n \in Nat
<1>8. /\ \A i \in 1..n : rounded[i] = IF s > 0 THEN RoundDiv(worth[i] * d, s) ELSE 0
      /\ share[n] = d - SumFunctionOnSet(rounded, 1..(n - 1))
      /\ \A i \in 1..n : i # n => share[i] = rounded[i]
      /\ share = [i \in 1..n |-> share[i]]
  <2>1. /\ rounded = [i \in 1..n |-> IF s > 0 THEN RoundDiv(worth[i] * d, s) ELSE 0]
        /\ share = [rounded EXCEPT ![n] = d - SumFunctionOnSet(rounded, 1..(n - 1))]
    BY ONLY <1>2, <1>7 DEF Made
  <2> QED
    BY ONLY <1>4, <2>1
<1>9. /\ \A i \in 1..n : share[i] \in Int
      /\ SumFunctionOnSet(share, 1..n) = d
      /\ \A i \in 1..n : i # n => share[i] <= worth[i]
      /\ 2 * share[n] <= 2 * worth[n] + (n - 1)
  <2>1. Shared(n, worth, s, d, rounded, share)
    BY ONLY <1>3, <1>6, <1>8, n \in Nat, n > 0 DEF Shared
  <2> QED
    BY ONLY <2>1, SharesAddUp
<1>10. Len(share) = n /\ DOMAIN share = 1..n
  BY ONLY <1>8, <1>9, LenIs, n \in Nat
<1>11. PICK over : over = [i \in 1..n |-> base[i] - (worth[i] - share[i])]
  OBVIOUS
<1>12. ASSUME NEW i \in 1..n
       PROVE  /\ base[i] \in Nat /\ over[i] \in Nat /\ base[i] + share[i] = worth[i] + over[i]
              /\ over[i] = IF share[i] <= worth[i] THEN 0 ELSE share[i] - worth[i]
  <2>1. base[i] = AtLeast0(worth[i] - share[i]) /\ over[i] = base[i] - (worth[i] - share[i])
    BY <1>2, <1>11 DEF Made
  <2>2. worth[i] \in Nat /\ share[i] \in Int
    BY <1>3, <1>9
  <2>3. PICK w, h : w = worth[i] /\ h = share[i]
    OBVIOUS
  <2>4. w \in Nat /\ h \in Int /\ base[i] = AtLeast0(w - h) /\ over[i] = base[i] - (w - h)
    BY ONLY <2>1, <2>2, <2>3
  <2>5. /\ base[i] \in Nat /\ over[i] \in Nat /\ base[i] + h = w + over[i]
        /\ over[i] = IF h <= w THEN 0 ELSE h - w
    BY ONLY <2>4 DEF AtLeast0
  <2> QED
    BY ONLY <2>3, <2>5
\* What is over is so in the last line.
<1>13. SumFunctionOnSet(over, 1..n) = over[n]
  <2>1. \A i \in (1..n) \ {n} : over[i] = 0
    BY <1>9, <1>12
  <2>2. SumFunctionOnSet(over, (1..n) \ {n}) = 0
    BY ONLY <1>4, <2>1, SumZero
  <2>3. Ints(over, 1..n)
    BY <1>12 DEF Ints
  <2>4. SumFunctionOnSet(over, 1..n) = over[n] + SumFunctionOnSet(over, (1..n) \ {n})
    BY ONLY <1>4, <2>3, SumWithout
  <2> QED
    BY <1>4, <1>12, <2>2, <2>4
<1>14. SumFunctionOnSet(base, 1..n) + d = s + over[n] /\ SumFunctionOnSet(base, 1..n) \in Int
  <2>1. PICK both : both = [i \in 1..n |-> base[i] + share[i]]
    OBVIOUS
  <2>2. \A i \in 1..n : both[i] = base[i] + share[i] /\ both[i] = worth[i] + over[i]
    BY <1>12, <2>1
  <2>3. Ints(base, 1..n) /\ Ints(share, 1..n) /\ Ints(worth, 1..n) /\ Ints(over, 1..n)
    BY <1>3, <1>9, <1>12 DEF Ints
  <2>4. SumFunctionOnSet(both, 1..n) = SumFunctionOnSet(base, 1..n) + SumFunctionOnSet(share, 1..n)
    BY ONLY <1>4, <2>2, <2>3, SumPlus
  <2>5. SumFunctionOnSet(both, 1..n) = SumFunctionOnSet(worth, 1..n) + SumFunctionOnSet(over, 1..n)
    BY ONLY <1>4, <2>2, <2>3, SumPlus
  <2>6. SumFunctionOnSet(base, 1..n) \in Int
    BY ONLY <1>4, <2>3, SumInt
  <2> QED
    BY <1>3, <1>9, <1>13, <2>4, <2>5, <2>6
<1>15. tax = [i \in 1..n |-> Tax(base[i], lines[i].rate, store.inclusive)] /\ Ints(tax, 1..n)
  <2>1. tax = [i \in 1..n |-> Tax(base[i], lines[i].rate, store.inclusive)]
    BY <1>2 DEF Made
  <2>2. ASSUME NEW i \in 1..n PROVE tax[i] \in Int
    <3>1. PICK m, r : m = base[i] * lines[i].rate /\ r = lines[i].rate
      OBVIOUS
    <3>2. m \in Int /\ r \in Nat
      BY <1>12, <3>1
    <3>3. RoundDiv(m, 10000 + r) \in Int /\ RoundDiv(m, 10000) \in Int
      <4>1. 10000 + r \in Nat /\ 10000 + r > 0 /\ 10000 \in Nat /\ 10000 > 0
        BY <3>2
      <4> QED
        BY ONLY <3>2, <4>1, Rounded
    <3> QED
      BY <2>1, <3>1, <3>3 DEF Tax
  <2> QED
    BY <2>1, <2>2 DEF Ints
<1>16. SumFunctionOnSet(tax, 1..n) \in Int
  BY ONLY <1>4, <1>15, SumInt
<1>17. PICK total : total = SumFunction(price.lineTotal)
  OBVIOUS
<1>18. total = SumFunctionOnSet(base, 1..n) + (IF store.inclusive THEN 0 ELSE SumFunctionOnSet(tax, 1..n))
  <2>1. price.lineTotal = [i \in 1..n |-> IF store.inclusive THEN base[i] ELSE base[i] + tax[i]]
    BY <1>2 DEF Made
  <2>2. total = SumFunctionOnSet(price.lineTotal, 1..n)
    BY <1>17, <2>1 DEF SumFunction
  <2>3. PICK f : f = price.lineTotal
    OBVIOUS
  <2>4. Ints(base, 1..n)
    BY <1>12 DEF Ints
  <2>5. CASE store.inclusive
    <3>1. \A i \in 1..n : f[i] = base[i]
      BY <2>1, <2>3, <2>5
    <3>2. SumFunctionOnSet(f, 1..n) = SumFunctionOnSet(base, 1..n)
      BY ONLY <1>4, <2>4, <3>1, SumSame
    <3> QED
      BY <1>14, <2>2, <2>3, <2>5, <3>2
  <2>6. CASE ~store.inclusive
    <3>1. \A i \in 1..n : f[i] = base[i] + tax[i]
      BY <2>1, <2>3, <2>6
    <3>2. SumFunctionOnSet(f, 1..n) = SumFunctionOnSet(base, 1..n) + SumFunctionOnSet(tax, 1..n)
      BY ONLY <1>4, <1>15, <2>4, <3>1, SumPlus
    <3> QED
      BY <2>2, <2>3, <2>6, <3>2
  <2> QED
    BY <2>5, <2>6
<1>19. price.total = s - d + price.shipping + (IF store.inclusive THEN 0 ELSE SumFunctionOnSet(tax, 1..n))
  BY <1>1, <1>2 DEF Acceptable, Made
<1>20. price.shipping \in Int
  <2>1. price.shipping = Shipping(s - d, store)
    BY ONLY <1>2 DEF Made
  <2>2. 0 \in Int /\ store.shippingFee \in Int
    OBVIOUS
  <2> QED
    BY ONLY <2>1, <2>2 DEF Shipping
<1>21. total + price.shipping - price.total = over[n]
  <2>1. PICK b, h, t, x : /\ b = SumFunctionOnSet(base, 1..n) /\ h = price.shipping /\ x = over[n]
                          /\ t = IF store.inclusive THEN 0 ELSE SumFunctionOnSet(tax, 1..n)
    OBVIOUS
  <2>2. b \in Int /\ h \in Int /\ t \in Int /\ x \in Int /\ b + d = s + x
    BY <1>4, <1>12, <1>14, <1>16, <1>20, <2>1
  <2>3. total = b + t /\ price.total = s - d + h + t
    BY <1>18, <1>19, <2>1
  <2>4. (b + t) + h - (s - d + h + t) = x
    BY ONLY <1>5, <1>6, <2>2
  <2> QED
    BY <2>1, <2>3, <2>4
<1>22. 0 <= over[n] /\ 2 * over[n] <= n - 1
  <2>1. PICK w, h, x : w = worth[n] /\ h = share[n] /\ x = over[n]
    OBVIOUS
  <2>2. w \in Nat /\ h \in Int /\ x = IF h <= w THEN 0 ELSE h - w
    BY ONLY <1>3, <1>4, <1>9, <1>12, <2>1
  <2>3. 2 * h <= 2 * w + (n - 1)
    BY ONLY <1>9, <2>1
  <2> QED
    BY ONLY <2>1, <2>2, <2>3, n \in Nat, n > 0
<1>23. SumFunction(price.share) = price.discount /\ Len(price.share) = n
  BY <1>2, <1>9, <1>10 DEF Made, SumFunction
<1> QED
  BY <1>1, <1>17, <1>21, <1>22, <1>23 DEF Resums

\* The price of an order of at least one line.
LEMMA ChargeResums ==
  ASSUME NEW a, a \in Trade, Lots(a.lines) # {}, Range(a.locked) = Lots(a.lines), Acceptable(Charge(a), Store)
  PROVE  Resums(Charge(a))
<1>1. PICK n, lines, coupon : /\ n = Len(a.locked) /\ lines = PricingLines(a)
                              /\ coupon = IF a.coupon THEN Terms ELSE NoCoupon
  OBVIOUS
<1>2. a.locked \in Seq(Variants) /\ a.lines \in [Variants -> Nat]
  BY DEF Trade, Lines
<1>3. n \in Nat /\ DOMAIN a.locked = 1..n /\ \A i \in 1..n : a.locked[i] \in Variants
  BY <1>1, <1>2
<1>4. n > 0
  <2> SUFFICES ASSUME n = 0 PROVE FALSE
    BY <1>3
  <2>1. DOMAIN a.locked = {}
    BY <1>3
  <2> QED
    BY <2>1 DEF Range
<1>5. DOMAIN lines = 1..n
  BY <1>1, <1>3 DEF PricingLines
<1>6. ASSUME NEW i \in 1..n
      PROVE  lines[i].price \in Nat /\ lines[i].quantity \in Nat /\ lines[i].rate \in Nat
  <2>1. PICK v : v = a.locked[i]
    OBVIOUS
  <2>2. lines[i] = [price |-> Catalog[v].price, quantity |-> a.lines[v], rate |-> Catalog[v].rate]
    BY <1>1, <1>3, <2>1 DEF PricingLines
  <2>3. v \in Variants
    BY <1>3, <2>1
  <2>4. Catalog[v] \in [price : Nat, rate : Nat]
    BY <2>3, ShopAssumption
  <2> QED
    BY <1>2, <2>2, <2>3, <2>4
<1>7. coupon \in [type : {"NONE", "PERCENTAGE", "FIXED"}, value : Nat, max : Nat]
  <2>1. NoCoupon \in [type : {"NONE", "PERCENTAGE", "FIXED"}, value : Nat, max : Nat]
    BY DEF NoCoupon
  <2> QED
    BY <1>1, <2>1, ShopAssumption
<1>8. Store \in [inclusive : BOOLEAN, shippingFee : Nat, freeFrom : Nat]
  BY ShopAssumption
<1>9. Charge(a) = Price(lines, Store, coupon)
  BY <1>1 DEF Charge
<1>10. Acceptable(Price(lines, Store, coupon), Store)
  BY <1>9
<1> QED
  BY ONLY <1>3, <1>4, <1>5, <1>6, <1>7, <1>8, <1>9, <1>10, PriceResums

LEMMA ChargedStep ==
  ASSUME TradeInv, ChargedRight, [Next]_vars
  PROVE  ChargedRight'
<1>1. CASE UNCHANGED orders
  BY <1>1 DEF ChargedRight
<1>2. ASSUME NEW c \in Clerks, NEW o \in Orders, Place(c, o) PROVE ChargedRight'
  <2>1. PICK a : a = trade[c]
    OBVIOUS
  <2>2. CASE UNCHANGED orders
    BY <1>1, <2>2
  <2>3. CASE Placed(a, o)
    <3>1. /\ a \in Trade /\ Lots(a.lines) # {} /\ Range(a.locked) = Lots(a.lines) /\ Acceptable(Charge(a), Store)
      BY <2>3 DEF Placed, Deals
    <3>2. Resums(Charge(a))
      BY ONLY <3>1, ChargeResums
    <3>3. PICK row : row = [status |-> IF a.cash THEN "CONFIRMED" ELSE "PENDING",
                            lines |-> a.lines, price |-> Charge(a)]
      OBVIOUS
    <3>4. orders' = [orders EXCEPT ![o] = row] /\ row.price = Charge(a)
      BY <2>3, <3>3 DEF Placed
    <3>5. ASSUME NEW p \in Orders, orders'[p].status # "none" PROVE Resums(orders'[p].price)
      <4>1. CASE p = o
        BY <3>2, <3>4, <4>1 DEF TradeInv
      <4>2. CASE p # o
        BY <3>4, <3>5, <4>2 DEF TradeInv, ChargedRight
      <4> QED
        BY <4>1, <4>2
    <3> QED
      BY <3>5 DEF ChargedRight
  <2> QED
    BY <1>2, <2>1, <2>2, <2>3, PlaceDoes
<1>3. ASSUME NEW c \in Clerks, NEW step \in Settlements, Settled(c, step) PROVE ChargedRight'
  <2>1. PICK o : o = trade[c].order
    OBVIOUS
  <2>2. o \in Orders /\ orders[o].status = From(step)
    BY <1>3, <2>1 DEF Settled, Ready, TradeInv, Deals
  <2>3. orders[o].status # "none"
    BY <2>2 DEF From
  <2>4. orders' = [orders EXCEPT ![o].status = To(step)]
    BY <1>3, <2>1 DEF Settled
  <2>5. \A p \in Orders : orders[p] = [status |-> orders[p].status, lines |-> orders[p].lines, price |-> orders[p].price]
    BY DEF TradeInv
  <2>6. \A p \in Orders : orders'[p].price = orders[p].price /\ (p # o => orders'[p].status = orders[p].status)
    BY <2>4, <2>5 DEF TradeInv
  <2> QED
    BY <2>2, <2>3, <2>6 DEF ChargedRight
<1>4. ASSUME NEW c \in Clerks, Trades(c) PROVE ChargedRight'
  <2>1. ASSUME NEW s \in Shoppers, NEW k \in Carts, NEW cash \in BOOLEAN, Checkout(c, s, k, cash)
        PROVE  ChargedRight'
    BY <1>1, <2>1 DEF Checkout
  <2>2. ASSUME NEW v \in Variants, Lock(c, v) PROVE ChargedRight'
    BY <1>1, <2>2 DEF Lock
  <2>3. ASSUME NEW o \in Orders, NEW step \in Settlements, Settle(c, o, step) PROVE ChargedRight'
    BY <1>1, <2>3 DEF Settle
  <2>4. Abort(c) => ChargedRight'
    BY <1>1 DEF Abort
  <2> QED
    BY <1>2, <1>3, <1>4, <2>1, <2>2, <2>3, <2>4 DEF Trades
<1> QED
  BY <1>1, <1>4 DEF Next, vars

-------------------------------------------------------------------------------
\* The theorems.

LEMMA ShopHolds == Spec => [](ShopInv /\ Wanted /\ StockInv)
<1>1. Init => ShopInv /\ Wanted /\ StockInv
  BY ShopInvInit, WantedInit, StockInit
<1>2. ShopInv /\ Wanted /\ StockInv /\ [Next]_vars => (ShopInv /\ Wanted /\ StockInv)'
  BY ShopInvStep, WantedStep, StockStep
<1> QED
  BY <1>1, <1>2, PTL DEF Spec

\* Types; and no movement of several rows leaves an inventory row that its CHECK
\* constraints forbid (0002_ops_hardening), though none of them tests it.
THEOREM ShopTyped == Spec => []TypeOK
<1>1. ASSUME ShopInv, Wanted, StockInv PROVE TypeOK
  <2>1. CartInv /\ TradeInv /\ ShelfInv
    BY <1>1 DEF ShopInv, StockInv
  <2>2. \A s \in Shoppers, v \in Variants : InCarts(s, v) \in Nat
    BY <2>1, InCartsIs
  <2>3. wanted \in [Shoppers -> Lines]
    BY <1>1, <2>2 DEF Wanted, Lines
  <2>4. CartTypeOK
    BY <2>1, <2>3 DEF CartTypeOK, CartInv
  <2>5. ShelfTypeOK
    BY <2>1, ShopAssumption DEF ShelfTypeOK, ShelfInv
  <2>6. \A c \in Clerks : trade[c].lines \in Lines /\ Locked(c) \subseteq Lots(trade[c].lines)
    BY <2>1 DEF TradeInv, Trade, Deals, Locked
  <2> QED
    BY <2>1, <2>4, <2>5, <2>6 DEF TypeOK, TradeInv, Statuses
<1> QED
  BY <1>1, ShopHolds, PTL

\* The ledger explains the quantity on hand of every item, but where staff
\* overwrote a movement they had not read (inventory_transactions, adjust).
THEOREM LedgerExplains == Spec => []LedgerSums
<1>1. StockInv => LedgerSums
  BY DEF StockInv, ShelfInv
<1> QED
  BY <1>1, ShopHolds, PTL

\* What is reserved of a variant is what the unpaid orders hold of it: no
\* checkout, settlement or adjustment leaves or loses a reservation.
THEOREM OwedIsReserved == Spec => []ReservedIsOwed
<1>1. StockInv => ReservedIsOwed
  BY DEF StockInv
<1> QED
  BY <1>1, ShopHolds, PTL

\* For any catalog, store and coupon, the lines of every order that was placed
\* add up to its discount exactly, and to its total but for at most
\* half a unit for every line after the first (PricingService.price).
THEOREM ChargedAddsUp == Spec => []ChargedRight
<1>1. Init => ChargedRight
  BY DEF Init, NoOrder, ChargedRight
<1>2. ShopInv /\ ChargedRight /\ [Next]_vars => ChargedRight'
  BY ChargedStep DEF ShopInv
<1> QED
  BY <1>1, <1>2, ShopHolds, PTL DEF Spec
=================================================================================
