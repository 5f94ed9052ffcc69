------------------------------- MODULE Spacing ------------------------------
(***************************************************************************)
(* How many seconds fit a window if any two of them are more than a given  *)
(* gap apart: the count behind the bound on the uses of a token.           *)
(***************************************************************************)
EXTENDS Integers, FiniteSets, FiniteSetTheorems, TLAPS

\* Numbers a distance d apart have different quotients by d.
LEMMA DivApart ==
  ASSUME NEW x \in Nat, NEW y \in Nat, NEW d \in Nat \ {0}, y - x >= d
  PROVE  x \div d # y \div d
OBVIOUS

\* Quotients keep the order.
LEMMA DivMonotone ==
  ASSUME NEW x \in Nat, NEW y \in Nat, NEW d \in Nat \ {0}, x <= y
  PROVE  x \div d \in Nat /\ x \div d <= y \div d
OBVIOUS

\* Of members of S whose seconds a[r] lie in a window of w seconds from f, any
\* two more than g seconds apart, there are at most 1 + w \div (g + 1).
LEMMA Packing ==
  ASSUME NEW S, NEW f \in Nat, NEW w \in Nat, NEW g \in Nat, NEW a,
         \A r \in S : a[r] \in Nat /\ f <= a[r] /\ a[r] <= f + w,
         \A r, s \in S : r # s => a[r] - a[s] > g \/ a[s] - a[r] > g
  PROVE  IsFiniteSet(S) /\ Cardinality(S) <= 1 + w \div (g + 1)
<1> DEFINE d == g + 1
           m == w \div d
           h == [r \in S |-> (a[r] - f) \div d]
<1>1. d \in Nat \ {0} /\ m \in Nat
  BY DivMonotone
<1>2. ASSUME NEW r \in S PROVE (a[r] - f) \div d \in 0..m
  <2>1. a[r] - f \in Nat /\ a[r] - f <= w
    OBVIOUS
  <2>2. (a[r] - f) \div d \in Nat /\ (a[r] - f) \div d <= m
    BY <1>1, <2>1, DivMonotone
  <2> HIDE DEF d, m
  <2>3. QED
    BY <1>1, <2>2
<1>3. ASSUME NEW r \in S, NEW s \in S, h[r] = h[s] PROVE r = s
  <2>1. a[r] - f \in Nat /\ a[s] - f \in Nat
    OBVIOUS
  <2>2. CASE (a[s] - f) - (a[r] - f) >= d
    BY <1>1, <1>3, <2>1, <2>2, DivApart
  <2>3. CASE (a[r] - f) - (a[s] - f) >= d
    BY <1>1, <1>3, <2>1, <2>3, DivApart
  <2>4. QED
    BY <2>2, <2>3
<1>4. h \in Injection(S, 0..m)
  BY <1>2, <1>3 DEF Injection, IsInjective
<1> HIDE DEF d, m, h
<1>5. IsFiniteSet(0..m) /\ Cardinality(0..m) = m + 1
  <2>1. IsFiniteSet(0..m) /\ Cardinality(0..m) = IF 0 > m THEN 0 ELSE m - 0 + 1
    <3>1. 0 \in Int /\ m \in Int
      BY <1>1
    <3>2. QED
      BY <3>1, FS_Interval, Zenon
  <2>2. QED
    BY <1>1, <2>1
<1>6. IsFiniteSet(S) /\ Cardinality(S) <= m + 1
  BY <1>4, <1>5, FS_Injection
<1>7. QED
  BY <1>1, <1>6 DEF d, m

=============================================================================
