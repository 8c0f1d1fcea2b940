------------------------- MODULE ModularArithmetic --------------------------
(***************************************************************************)
(* What the proofs about sequence numbers need to know of the remainder,   *)
(* and the least element of a set of naturals, by which a proof can argue  *)
(* about a first counterexample.                                           *)
(***************************************************************************)
EXTENDS Integers, WellFoundedInduction, TLAPS

\* A set of naturals that is not empty has a least element.
LEMMA LeastNat ==
    ASSUME NEW S, S \subseteq Nat, S # {}
    PROVE  \E x \in S : \A y \in S : x <= y
<1>1. PICK x \in S : \A y \in S : ~(<<y, x>> \in OpToRel(<, Nat))
  BY NatLessThanWellFounded, WFMin
<1>2. ASSUME NEW y \in S PROVE x <= y
  <2>1. <<y, x>> \in Nat \X Nat /\ <<y, x>>[1] = y /\ <<y, x>>[2] = x
    OBVIOUS
  <2>2. <<y, x>>[1] < <<y, x>>[2] => <<y, x>> \in OpToRel(<, Nat)
    BY <2>1, Zenon DEF OpToRel
  <2>3. ~(<<y, x>>[1] < <<y, x>>[2])
    BY <1>1, <2>2, Zenon
  <2> QED BY <2>1, <2>3
<1> QED BY <1>2

\* Division with remainder.
LEMMA DivMod ==
    ASSUME NEW a \in Int, NEW n \in Nat \ {0}
    PROVE  /\ a \div n \in Int /\ a % n \in 0 .. n - 1
           /\ a = n * (a \div n) + (a % n)
  OBVIOUS

\* Only the zeroth multiple of n lies within n of zero.
LEMMA NoMultiple ==
    ASSUME NEW n \in Nat \ {0}, NEW q \in Int, n * q < n, -n < n * q
    PROVE  q = 0
<1>1. CASE q >= 1
  <2>1. n * q >= n
    BY <1>1
  <2> QED BY <2>1
<1>2. CASE q <= -1
  <2>1. n * q <= -n
    BY <1>2
  <2> QED BY <2>1
<1> QED BY <1>1, <1>2

\* The remainder is unique.
LEMMA ModUnique ==
    ASSUME NEW n \in Nat \ {0}, NEW q \in Int, NEW r \in 0 .. n - 1
    PROVE  (n * q + r) % n = r
<1> DEFINE a == n * q + r
<1>1. a \in Int
  OBVIOUS
<1>2. /\ a \div n \in Int /\ a % n \in 0 .. n - 1
      /\ a = n * (a \div n) + (a % n)
  BY <1>1, DivMod
<1> DEFINE p == a \div n
           s == a % n
<1>3. n * (q - p) = s - r
  BY <1>2
<1>4. n * (q - p) < n /\ -n < n * (q - p)
  BY <1>2, <1>3
<1>5. q - p = 0
  BY <1>2, <1>4, NoMultiple
<1> HIDE DEF p, s
<1>6. s = r
  BY <1>2, <1>3, <1>5 DEF p, s
<1> QED BY <1>6 DEF s

\* Multiples of n vanish modulo n.
LEMMA ModMultiple ==
    ASSUME NEW n \in Nat \ {0}, NEW q \in Int, NEW a \in Int
    PROVE  (n * q + a) % n = a % n
<1> DEFINE p == a \div n
           r == a % n
<1>1. p \in Int /\ r \in 0 .. n - 1 /\ a = n * p + r
  BY DivMod
<1> HIDE DEF p, r
<1>2. n * q + a = n * (q + p) + r
  BY <1>1
<1>3. q + p \in Int
  BY <1>1
<1>4. (n * (q + p) + r) % n = r
  BY <1>1, <1>3, ModUnique
<1> QED BY <1>2, <1>4 DEF r

\* A remainder can be taken before or after an addition.
LEMMA ModAdd ==
    ASSUME NEW n \in Nat \ {0}, NEW a \in Int, NEW c \in Int
    PROVE  ((a % n) + c) % n = (a + c) % n
<1> DEFINE p == a \div n
           r == a % n
<1>1. p \in Int /\ r \in 0 .. n - 1 /\ a = n * p + r
  BY DivMod
<1> HIDE DEF p, r
<1>2. a + c = n * p + (r + c)
  BY <1>1
<1>3. (n * p + (r + c)) % n = (r + c) % n
  <2> DEFINE d == r + c
  <2>1. d \in Int
    BY <1>1
  <2> HIDE DEF d
  <2>2. (n * p + d) % n = d % n
    BY <1>1, <2>1, ModMultiple
  <2> QED BY <2>2 DEF d
<1>4. (r + c) % n = (a + c) % n
  BY <1>2, <1>3
<1> QED BY <1>4 DEF r

\* Numbers less than n apart differ modulo n.
LEMMA ModDistinct ==
    ASSUME NEW n \in Nat \ {0}, NEW a \in Int, NEW c \in Int,
           a % n = c % n, a - c < n, c - a < n
    PROVE  a = c
<1>1. /\ a \div n \in Int /\ a = n * (a \div n) + (a % n)
      /\ c \div n \in Int /\ c = n * (c \div n) + (c % n)
      /\ a % n \in Int /\ c % n \in Int
  BY DivMod
<1> DEFINE p == a \div n
           q == c \div n
           r == a % n
<1>2. p \in Int /\ q \in Int /\ r \in Int /\ a = n * p + r /\ c = n * q + r
  BY <1>1
<1> HIDE DEF p, q, r
<1>3. n * (p - q) = a - c
  BY <1>2
<1>4. p - q = 0
  BY <1>2, <1>3, NoMultiple
<1> QED BY <1>2, <1>4

\* A modulus that divides another one can be taken alone.
LEMMA ModMod ==
    ASSUME NEW n \in Nat \ {0}, NEW m \in Nat \ {0}, m % n = 0, NEW a \in Int
    PROVE  (a % m) % n = a % n
<1> DEFINE k == m \div n
           p == a \div m
           r == a % m
<1>1. k \in Int /\ m = n * k /\ p \in Int /\ r \in Int /\ a = m * p + r
  <2>1. k \in Int /\ m = n * k + (m % n)
    BY DivMod
  <2>2. p \in Int /\ r \in 0 .. m - 1 /\ a = m * p + r
    BY DivMod
  <2> HIDE DEF k, p, r
  <2> QED BY <2>1, <2>2
<1> HIDE DEF k, p, r
<1>2. a = n * (k * p) + r /\ k * p \in Int
  BY <1>1
<1>3. (n * (k * p) + r) % n = r % n
  BY <1>1, <1>2, ModMultiple
<1> QED BY <1>2, <1>3 DEF r
=============================================================================
