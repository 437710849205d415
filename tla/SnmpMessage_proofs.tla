------------------------- MODULE SnmpMessage_proofs -------------------------
(***************************************************************************)
(* What the client reads of a response is what was said in it: lemmas for  *)
(* the theorems about SnmpWalk, for any names, numbers, lengths and forms. *)
(***************************************************************************)
EXTENDS SnmpMessage, SequenceTheorems, WellFoundedInduction, TLAPS

(* Induction, by a set of numbers.                                         *)

\* A set that has 0, and with each number the next one, has them all.
LEMMA AllNumbers ==
    ASSUME NEW P, 0 \in P, \A n \in Nat : n \in P => n + 1 \in P
    PROVE  \A n \in Nat : n \in P
<1> DEFINE T == Nat \ P
<1> SUFFICES ASSUME T # {} PROVE FALSE
  OBVIOUS
<1>1. PICK x \in T : \A y \in T : ~(<<y, x>> \in OpToRel(<, Nat))
  BY NatLessThanWellFounded, WFMin
<1>2. x \in Nat /\ x # 0 /\ x - 1 \in Nat
  OBVIOUS
<1>3. x - 1 \in P
  <2>1. ASSUME x - 1 \notin P PROVE FALSE
    <3>1. x - 1 \in T
      BY <1>2, <2>1
    <3>2. <<x - 1, x>> \in OpToRel(<, Nat)
      BY <1>2 DEF OpToRel
    <3> QED
      BY <1>1, <3>1, <3>2
  <2> QED
    BY <2>1
<1>4. (x - 1) + 1 \in P
  BY <1>2, <1>3
<1> QED
  BY <1>2, <1>4

\* Values each made of the one before it.
Chained(f, first, k, step) ==
    f[0] = first /\ \A i \in 1..k : f[i] = step[<<i, f[i - 1]>>]

\* Any first value and any steps make a chain.
LEMMA Chain ==
    ASSUME NEW S, NEW first \in S, NEW k \in Nat,
           NEW step \in [(1..k) \X S -> S]
    PROVE  \E f \in [0..k -> S] : Chained(f, first, k, step)
<1> DEFINE Made(n, f) ==
              f[0] = first /\ \A i \in 1..n : f[i] = step[<<i, f[i - 1]>>]
           P == {n \in Nat : n <= k => \E f \in [0..n -> S] : Made(n, f)}
<1>1. 0 \in P
  <2> DEFINE f == [i \in 0..0 |-> first]
  <2>1. f \in [0..0 -> S] /\ f[0] = first /\ 1..0 = {}
    OBVIOUS
  <2>2. Made(0, f)
    BY <2>1
  <2> QED
    BY <2>1, <2>2
<1>2. ASSUME NEW n \in Nat, n \in P PROVE n + 1 \in P
  <2> SUFFICES ASSUME n + 1 <= k PROVE \E f \in [0..(n + 1) -> S] : Made(n + 1, f)
    OBVIOUS
  <2>1. PICK f \in [0..n -> S] : Made(n, f)
    BY <1>2
  <2> DEFINE g == [i \in 0..(n + 1) |->
                      IF i = n + 1 THEN step[<<n + 1, f[n]>>] ELSE f[i]]
  <2>2. step[<<n + 1, f[n]>>] \in S
    OBVIOUS
  <2>3. g \in [0..(n + 1) -> S]
    BY <2>2
  <2>4. g[0] = first
    BY <2>1
  <2>5. ASSUME NEW i \in 1..(n + 1) PROVE g[i] = step[<<i, g[i - 1]>>]
    <3>1. CASE i = n + 1
      BY <3>1, SMTT(60)
    <3>2. CASE i # n + 1
      <4>1. i \in 1..n /\ i \in 0..(n + 1) /\ i - 1 \in 0..(n + 1) /\ i - 1 # n + 1
        BY <3>2
      <4>2. f[i] = step[<<i, f[i - 1]>>]
        BY <2>1, <4>1
      <4> QED
        BY <3>2, <4>1, <4>2
    <3> QED
      BY <3>1, <3>2
  <2> QED
    BY <2>3, <2>4, <2>5
<1> HIDE DEF P
<1>3. k \in P
  BY <1>1, <1>2, AllNumbers
<1> QED
  BY <1>3 DEF P, Chained
----------------------------------------------------------------------------
(* Digits.                                                                 *)

Bases == {128, K}

\* A quotient and its remainder, of a negative number too.
LEMMA Division ==
    ASSUME NEW v \in Int, NEW base \in Bases
    PROVE  /\ v \div base \in Int /\ v % base \in 0..(base - 1)
           /\ (v \div base) * base + (v % base) = v
           /\ base \in Int
<1>1. CASE base = 128
  BY <1>1
<1>2. CASE base = 256
  BY <1>2
<1> QED
  BY <1>1, <1>2 DEF Bases, K

\* Quotients is the chain of quotients its definition speaks of.
LEMMA QuotientsAre ==
    ASSUME NEW n \in Int, NEW base \in Bases, NEW k \in Nat
    PROVE  /\ Quotients(n, base, k) \in [0..k -> Int]
           /\ Quotients(n, base, k)[0] = n
           /\ \A i \in 1..k : Quotients(n, base, k)[i] =
                                 Quotients(n, base, k)[i - 1] \div base
<1> DEFINE step == [p \in (1..k) \X Int |-> p[2] \div base]
           Eq(q) == q = [i \in 0..k |-> IF i = 0 THEN n ELSE q[i - 1] \div base]
<1>1. step \in [(1..k) \X Int -> Int]
  BY Division
<1>2. \A i \in 1..k, v \in Int : step[<<i, v>>] = v \div base
  OBVIOUS
<1> HIDE DEF step
<1>3. PICK f \in [0..k -> Int] : Chained(f, n, k, step)
  BY <1>1, Chain, Zenon
<1>4. \A i \in 1..k : i - 1 \in 0..k /\ f[i - 1] \in Int
  OBVIOUS
<1>5. \A i \in 1..k : f[i] = f[i - 1] \div base
  BY <1>2, <1>3, <1>4 DEF Chained
<1>6. Eq(f)
  BY <1>3, <1>5 DEF Chained
<1> DEFINE q == Quotients(n, base, k)
<1>7. q = CHOOSE x : Eq(x)
  BY Zenon DEF Quotients
<1>8. Eq(q)
  BY <1>6, <1>7, Zenon
<1> HIDE DEF q
<1>9. q[0] = n /\ \A i \in 1..k : q[i] = q[i - 1] \div base
  BY <1>8
<1>10. ASSUME NEW j \in 0..k PROVE q[j] \in Int
  <2> DEFINE P == {i \in Nat : i <= k => q[i] \in Int}
  <2>1. 0 \in P
    BY <1>9
  <2>2. ASSUME NEW i \in Nat, i \in P PROVE i + 1 \in P
    <3> SUFFICES ASSUME i + 1 <= k PROVE q[i + 1] \in Int
      OBVIOUS
    <3>1. q[i] \in Int /\ i + 1 \in 1..k /\ (i + 1) - 1 = i
      BY <2>2
    <3>2. q[i + 1] = q[i] \div base
      BY <1>9, <3>1
    <3> QED
      BY <3>1, <3>2, Division, Zenon
  <2> HIDE DEF P
  <2>3. j \in P
    <3>1. \A i \in Nat : i \in P
      BY <2>1, <2>2, AllNumbers
    <3> QED
      BY <3>1
  <2> QED
    BY <2>3 DEF P
<1>11. q \in [0..k -> Int]
  BY <1>8, <1>10
<1> QED
  BY <1>9, <1>11 DEF q

\* How far the division is taken does not change what is left on the way.
LEMMA QuotientsAgree ==
    ASSUME NEW n \in Int, NEW base \in Bases, NEW k \in Nat, NEW m \in Nat
    PROVE  \A i \in Nat : i <= k /\ i <= m =>
              Quotients(n, base, k)[i] = Quotients(n, base, m)[i]
<1> DEFINE q == Quotients(n, base, k)
           r == Quotients(n, base, m)
           P == {i \in Nat : i <= k /\ i <= m => q[i] = r[i]}
<1>1. /\ q[0] = n /\ \A i \in 1..k : q[i] = q[i - 1] \div base
      /\ r[0] = n /\ \A i \in 1..m : r[i] = r[i - 1] \div base
  BY QuotientsAre
<1> HIDE DEF q, r
<1>2. 0 \in P
  BY <1>1
<1>3. ASSUME NEW i \in Nat, i \in P PROVE i + 1 \in P
  <2> SUFFICES ASSUME i + 1 <= k, i + 1 <= m PROVE q[i + 1] = r[i + 1]
    OBVIOUS
  <2>1. /\ q[i] = r[i] /\ i + 1 \in 1..k /\ i + 1 \in 1..m /\ (i + 1) - 1 = i
    BY <1>3
  <2>2. q[i + 1] = q[i] \div base /\ r[i + 1] = r[i] \div base
    BY <1>1, <2>1
  <2> QED
    BY <2>1, <2>2
<1> HIDE DEF P
<1>4. \A i \in Nat : i \in P
  BY <1>2, <1>3, AllNumbers
<1> QED
  BY <1>4 DEF P, q, r

\* Dividing leaves a number between zero, or minus one, and what it was.
LEMMA Shrinks ==
    ASSUME NEW v \in Int, NEW base \in Bases
    PROVE  /\ v >= 0 => 0 <= v \div base /\ v \div base <= v
           /\ v >= 1 => v \div base <= v - 1
           /\ v < 0 => v <= v \div base /\ v \div base < 0
           /\ v < -1 => v + 1 <= v \div base
<1>1. CASE base = 128
  BY <1>1
<1>2. CASE base = 256
  BY <1>2
<1> QED
  BY <1>1, <1>2 DEF Bases, K

\* A quotient does not leave the bounds that the number is in.
LEMMA QuotientsWithin ==
    ASSUME NEW n \in Int, NEW base \in Bases, NEW k \in Nat,
           NEW low \in Int, NEW high \in Int, low <= 0, 0 <= high, n \in low..high
    PROVE  \A i \in 0..k : Quotients(n, base, k)[i] \in low..high
<1> DEFINE q == Quotients(n, base, k)
           P == {i \in Nat : i <= k => q[i] \in low..high}
<1>1. q[0] = n /\ \A i \in 1..k : q[i] = q[i - 1] \div base
  BY QuotientsAre
<1> HIDE DEF q
<1>2. 0 \in P
  BY <1>1
<1>3. ASSUME NEW i \in Nat, i \in P PROVE i + 1 \in P
  <2> SUFFICES ASSUME i + 1 <= k PROVE q[i + 1] \in low..high
    OBVIOUS
  <2>1. /\ q[i] \in low..high /\ i + 1 \in 1..k /\ (i + 1) - 1 = i
    BY <1>3
  <2>2. q[i + 1] = q[i] \div base /\ q[i] \in Int
    BY <1>1, <2>1
  <2>3. PICK v \in Int : v = q[i]
    BY <2>2
  <2>4. v \div base \in Int
    BY Division
  <2>5. v \div base \in low..high
    BY <2>1, <2>3, <2>4, Shrinks
  <2> QED
    BY <2>2, <2>3, <2>5
<1> HIDE DEF P
<1>4. \A i \in Nat : i \in P
  BY <1>2, <1>3, AllNumbers
<1>5. \A i \in 0..k : i \in Nat /\ i <= k
  OBVIOUS
<1> QED
  BY <1>4, <1>5 DEF P, q

\* There is a number of digits that tells a number, so the fewest do.
LEMMA FewestIs ==
    ASSUME NEW n \in Int, NEW base \in Bases, NEW low \in Int,
           \/ n >= 0 /\ low = 0
           \/ low = -128 /\ base = K
    PROVE  LET k == Fewest(n, base, low) IN
           /\ k \in Nat \ {0}
           /\ Quotients(n, base, k)[k - 1] \in low..(low + base - 1)
<1> DEFINE A == IF n < 0 THEN -n ELSE n
           Tells(k) == Quotients(n, base, k)[k - 1] \in low..(low + base - 1)
           q == Quotients(n, base, A + 1)
<1>1. A \in Nat /\ A + 1 \in Nat
  OBVIOUS
<1>2. q[0] = n /\ \A i \in 1..(A + 1) : q[i] = q[i - 1] \div base
  BY <1>1, QuotientsAre
<1>3. q \in [0..(A + 1) -> Int]
  BY <1>1, QuotientsAre
<1> HIDE DEF q
<1> DEFINE Near(v, i) == \/ v \in -1..0
                         \/ n >= 0 /\ v \in 0..(n - i)
                         \/ n < 0 /\ v \in (n + i)..(-1)
           P == {i \in Nat : i <= A => Near(q[i], i)}
<1>4. 0 \in P
  <2>1. n >= 0 => n \in 0..(n - 0)
    OBVIOUS
  <2>2. n < 0 => n \in (n + 0)..(-1)
    OBVIOUS
  <2> QED
    BY <1>2, <2>1, <2>2
<1>5. ASSUME NEW i \in Nat, i \in P PROVE i + 1 \in P
  <2> SUFFICES ASSUME i + 1 <= A PROVE Near(q[i + 1], i + 1)
    OBVIOUS
  <2>1. /\ Near(q[i], i) /\ i + 1 \in 1..(A + 1) /\ (i + 1) - 1 = i
        /\ i \in 0..(A + 1)
    BY <1>5
  <2>2. q[i + 1] = q[i] \div base /\ q[i] \in Int
    BY <1>2, <1>3, <2>1
  <2>3. PICK v \in Int : v = q[i]
    BY <2>2
  <2>4. v \div base \in Int
    BY Division
  <2>5. Near(v \div base, i + 1)
    BY <2>1, <2>3, <2>4, Shrinks
  <2> QED
    BY <2>2, <2>3, <2>5
<1> HIDE DEF P
<1>6. \A i \in Nat : i \in P
  BY <1>4, <1>5, AllNumbers
<1>7. Near(q[A], A)
  BY <1>1, <1>6 DEF P
<1>8. n >= 0 => q[A] >= 0
  <2>1. n >= 0 => n \in 0..n /\ \A i \in 0..(A + 1) : q[i] \in 0..n
    BY <1>1, QuotientsWithin DEF q
  <2> QED
    BY <1>1, <2>1
<1>9. Tells(A + 1)
  <2>1. q[A] \in -1..0 /\ (n >= 0 => q[A] = 0)
    BY <1>1, <1>7, <1>8
  <2>2. base \in {128, 256}
    BY DEF Bases, K
  <2>3. q[A] \in low..(low + base - 1)
    BY <2>1, <2>2 DEF K
  <2>4. (A + 1) - 1 = A
    BY <1>1
  <2> QED
    BY <2>3, <2>4 DEF q
<1> DEFINE T == {k \in 1..(A + 1) : Tells(k)}
<1>10. A + 1 \in T
  BY <1>1, <1>9
<1> HIDE DEF A, Tells
<1>11. PICK k \in T : \A j \in T : ~(<<j, k>> \in OpToRel(<, Nat))
  <2>1. T \subseteq Nat /\ T # {}
    BY <1>1, <1>10
  <2> HIDE DEF T
  <2> QED
    BY <2>1, NatLessThanWellFounded, WFMin
<1>12. \A i \in 1..(k - 1) : ~Tells(i)
  <2> SUFFICES ASSUME NEW i \in 1..(k - 1), Tells(i) PROVE FALSE
    OBVIOUS
  <2>1. k \in Nat /\ i \in Nat /\ i < k /\ i \in 1..(A + 1)
    <3>1. k \in 1..(A + 1)
      OBVIOUS
    <3> QED
      BY <1>1, <3>1
  <2>2. i \in T
    BY <2>1
  <2>3. <<i, k>> \in OpToRel(<, Nat)
    BY <2>1 DEF OpToRel
  <2> QED
    BY <1>11, <2>2, <2>3
<1>13. Fewest(n, base, low) =
          CHOOSE x \in 1..(A + 1) : Tells(x) /\ \A i \in 1..(x - 1) : ~Tells(i)
  BY Zenon DEF Fewest, A, Tells
<1>14. Fewest(n, base, low) \in 1..(A + 1) /\ Tells(Fewest(n, base, low))
  BY <1>11, <1>12, <1>13, Zenon
<1> QED
  BY <1>1, <1>14 DEF Tells

\* With digits enough nothing is left of a number.
LEMMA Vanish ==
    ASSUME NEW n \in Nat, NEW base \in Bases, NEW k \in Nat,
           k >= Fewest(n, base, 0)
    PROVE  Quotients(n, base, k)[k] = 0
<1> DEFINE m == Fewest(n, base, 0)
           q == Quotients(n, base, k)
<1>1. m \in Nat \ {0} /\ Quotients(n, base, m)[m - 1] \in 0..(base - 1)
  <2>1. n \in Int /\ n >= 0 /\ 0 \in Int
    OBVIOUS
  <2>2. 0 + base - 1 = base - 1
    BY DEF Bases, K
  <2> QED
    BY <2>1, <2>2, FewestIs
<1> HIDE DEF m
<1>2. q[m - 1] \in 0..(base - 1)
  <2>1. m - 1 \in Nat /\ m - 1 <= k /\ m - 1 <= m /\ m \in Nat
    BY <1>1 DEF m
  <2>2. Quotients(n, base, k)[m - 1] = Quotients(n, base, m)[m - 1]
    BY <2>1, QuotientsAgree
  <2> QED
    BY <1>1, <2>2
<1>3. \A i \in 1..k : q[i] = q[i - 1] \div base
  BY QuotientsAre
<1> HIDE DEF q
<1>4. \A v \in 0..(base - 1) : v \div base = 0
  <2>1. CASE base = 128
    BY <2>1
  <2>2. CASE base = 256
    BY <2>2
  <2> QED
    BY <2>1, <2>2 DEF Bases, K
<1>5. 0 \in 0..(base - 1)
  BY DEF Bases, K
<1> DEFINE P == {i \in Nat : m + i <= k => q[m + i] = 0}
<1>6. 0 \in P
  <2>1. m \in 1..k
    BY <1>1 DEF m
  <2> QED
    BY <1>1, <1>2, <1>3, <1>4, <2>1
<1>7. ASSUME NEW i \in Nat, i \in P PROVE i + 1 \in P
  <2> SUFFICES ASSUME m + (i + 1) <= k PROVE q[m + (i + 1)] = 0
    OBVIOUS
  <2>1. /\ q[m + i] = 0 /\ m + (i + 1) \in 1..k /\ (m + (i + 1)) - 1 = m + i
    BY <1>1, <1>7
  <2>2. q[m + (i + 1)] = q[m + i] \div base
    BY <1>3, <2>1
  <2> QED
    BY <1>4, <1>5, <2>1, <2>2
<1> HIDE DEF P
<1>8. \A i \in Nat : i \in P
  BY <1>6, <1>7, AllNumbers
<1>9. k - m \in Nat /\ m + (k - m) = k
  BY <1>1 DEF m
<1>10. m + (k - m) <= k => q[m + (k - m)] = 0
  BY <1>8, <1>9 DEF P
<1> QED
  BY <1>9, <1>10 DEF q

\* Digits are the remainders of the quotients, the last one first.
LEMMA FixedIs ==
    ASSUME NEW n \in Int, NEW base \in Bases, NEW k \in Nat
    PROVE  /\ Fixed(n, base, k) \in Seq(0..(base - 1))
           /\ Len(Fixed(n, base, k)) = k
           /\ \A i \in 1..k :
                 Fixed(n, base, k)[i] = Quotients(n, base, k)[k - i] % base
<1> DEFINE q == Quotients(n, base, k)
<1>1. \A i \in 1..k : k - i \in 0..k /\ q[k - i] \in Int
  <2>1. q \in [0..k -> Int]
    BY QuotientsAre
  <2> HIDE DEF q
  <2> QED
    BY <2>1
<1>2. \A i \in 1..k : q[k - i] % base \in 0..(base - 1)
  BY <1>1, Division
<1>3. Fixed(n, base, k) = [i \in 1..k |-> q[k - i] % base]
  BY DEF Fixed
<1> HIDE DEF q
<1> QED
  BY <1>2, <1>3 DEF q

\* Reading digits one after the other leads back to the number.
LEMMA Rebuilt ==
    ASSUME NEW j \in Nat, NEW acc, NEW q, acc[0] = q[j],
           \A i \in 1..j : acc[i - 1] = q[j - i + 1] => acc[i] = q[j - i]
    PROVE  acc[j] = q[0]
<1> DEFINE P == {i \in Nat : i <= j => acc[i] = q[j - i]}
<1>1. 0 \in P
  OBVIOUS
<1>2. ASSUME NEW i \in Nat, i \in P PROVE i + 1 \in P
  <2> SUFFICES ASSUME i + 1 <= j PROVE acc[i + 1] = q[j - (i + 1)]
    OBVIOUS
  <2>1. /\ acc[i] = q[j - i] /\ i + 1 \in 1..j /\ (i + 1) - 1 = i
        /\ j - (i + 1) + 1 = j - i
    BY <1>2
  <2> QED
    BY <2>1
<1> HIDE DEF P
<1>3. j \in P
  <2>1. \A i \in Nat : i \in P
    BY <1>1, <1>2, AllNumbers
  <2> QED
    BY <2>1
<1>4. j - j = 0
  OBVIOUS
<1> QED
  BY <1>3, <1>4 DEF P

\* One digit more: v was put together of the digits before it.
LEMMA OneDigit ==
    ASSUME NEW n \in Int, NEW base \in Bases, NEW k \in Nat, NEW i \in 1..k
    PROVE  LET q == Quotients(n, base, k) IN
           /\ q[i] \in Int /\ q[i - 1] \in Int
           /\ q[i] * base + (q[i - 1] % base) = q[i - 1]
<1> DEFINE q == Quotients(n, base, k)
<1>1. q \in [0..k -> Int] /\ q[i] = q[i - 1] \div base
  BY QuotientsAre
<1> HIDE DEF q
<1>2. i \in 0..k /\ i - 1 \in 0..k
  OBVIOUS
<1>3. q[i] \in Int /\ q[i - 1] \in Int
  BY <1>1, <1>2
<1>4. (q[i - 1] \div base) * base + (q[i - 1] % base) = q[i - 1]
  BY <1>3, Division, Zenon
<1> QED
  BY <1>1, <1>3, <1>4 DEF q
----------------------------------------------------------------------------
(* Folds over sequences: the fold is a function of sets of indices, of     *)
(* which only the initial ones matter.                                     *)

\* The greatest of a set that has its bound.
LEMMA GreatestOf ==
    ASSUME NEW k \in Nat, NEW s \in SUBSET (1..k), k \in s
    PROVE  Max(s) = k
<1>1. \A y \in s : k >= y
  OBVIOUS
<1>2. \A x \in s : (\A y \in s : x >= y) => x = k
  OBVIOUS
<1>3. Max(s) \in s /\ \A y \in s : Max(s) >= y
  BY <1>1, Zenon DEF Max
<1> QED
  BY <1>2, <1>3

\* Sets of numbers up to n have a greatest one.
LEMMA GreatestIn ==
    ASSUME NEW n \in Nat
    PROVE  \A s \in SUBSET (1..n) : s # {} => Max(s) \in 1..n
<1> SUFFICES ASSUME NEW s \in SUBSET (1..n), s # {} PROVE Max(s) \in 1..n
  OBVIOUS
<1> DEFINE U == {n - i : i \in s}
<1>1. \A i \in s : i \in 1..n /\ n - i \in Nat
  OBVIOUS
<1>2. U \subseteq Nat /\ U # {}
  BY <1>1
<1>3. PICK m \in U : \A k \in U : ~(<<k, m>> \in OpToRel(<, Nat))
  <2> HIDE DEF U
  <2> QED
    BY <1>2, NatLessThanWellFounded, WFMin
<1>4. PICK x \in s : m = n - x
  OBVIOUS
<1>5. ASSUME NEW y \in s PROVE x >= y
  <2>1. ASSUME y > x PROVE FALSE
    <3>1. n - y \in U /\ n - y \in Nat /\ m \in Nat /\ n - y < m
      BY <1>1, <1>4, <2>1
    <3>2. <<n - y, m>> \in OpToRel(<, Nat)
      BY <3>1 DEF OpToRel
    <3> QED
      BY <1>3, <3>1, <3>2
  <2> QED
    BY <1>1, <2>1
<1>6. Max(s) \in s
  BY <1>5, Zenon DEF Max
<1> QED
  BY <1>1, <1>6

Folding(f, n, q, first, step) ==
    \A s \in SUBSET (1..n) :
        f[s] = IF s = {} THEN first
               ELSE step[<<f[s \ {Max(s)}], q[Max(s)]>>]

\* There is a function that folds: over every set of indices.
LEMMA FoldExists ==
    ASSUME NEW S, NEW T, NEW n \in Nat, NEW q \in [1..n -> T],
           NEW first \in S, NEW step \in [S \X T -> S]
    PROVE  \E f \in [SUBSET (1..n) -> S] : Folding(f, n, q, first, step)
<1> DEFINE Has(m) == \E f \in [SUBSET (1..m) -> S] : Folding(f, m, q, first, step)
           P == {m \in Nat : m <= n => Has(m)}
<1> HIDE DEF Has
<1>1. 0 \in P
  <2> DEFINE f == [s \in SUBSET (1..0) |-> first]
  <2>1. \A s \in SUBSET (1..0) : s = {}
    OBVIOUS
  <2>2. f \in [SUBSET (1..0) -> S]
    OBVIOUS
  <2>3. Folding(f, 0, q, first, step)
    BY <2>1, Zenon DEF Folding
  <2>4. Has(0)
    BY <2>2, <2>3, Zenon DEF Has
  <2> QED
    BY <2>4
<1>2. ASSUME NEW m \in Nat, m \in P PROVE m + 1 \in P
  <2> SUFFICES ASSUME m + 1 <= n PROVE Has(m + 1)
    OBVIOUS
  <2>1. PICK f \in [SUBSET (1..m) -> S] : Folding(f, m, q, first, step)
    <3>1. Has(m)
      BY <1>2
    <3> QED
      BY <3>1, Zenon DEF Has
  <2> DEFINE k == m + 1
             g == [s \in SUBSET (1..k) |->
                      IF k \in s THEN step[<<f[s \ {k}], q[k]>>] ELSE f[s]]
  <2>2. k \in Nat /\ k \in 1..n /\ q[k] \in T
    OBVIOUS
  <2>3. \A s \in SUBSET (1..k) : s \ {k} \in SUBSET (1..m)
    OBVIOUS
  <2>4. \A s \in SUBSET (1..k) : k \notin s => s \in SUBSET (1..m)
    OBVIOUS
  <2> HIDE DEF k
  <2>5. \A s \in SUBSET (1..k) :
           (IF k \in s THEN step[<<f[s \ {k}], q[k]>>] ELSE f[s]) \in S
    BY <2>2, <2>3, <2>4
  <2>6. g \in [SUBSET (1..k) -> S]
    BY <2>5
  <2>7. ASSUME NEW s \in SUBSET (1..k)
        PROVE  g[s] = IF s = {} THEN first
                      ELSE step[<<g[s \ {Max(s)}], q[Max(s)]>>]
    <3>1. CASE k \in s
      <4>1. Max(s) = k
        BY <2>2, <3>1, GreatestOf
      <4>2. g[s \ {k}] = f[s \ {k}]
        <5>1. s \ {k} \in SUBSET (1..k) /\ k \notin s \ {k}
          OBVIOUS
        <5> QED
          BY <5>1, Zenon
      <4>3. g[s] = step[<<f[s \ {k}], q[k]>>]
        BY <3>1, Zenon
      <4>4. s # {}
        BY <3>1
      <4> QED
        BY <4>1, <4>2, <4>3, <4>4, Zenon
    <3>2. CASE k \notin s
      <4>1. s \in SUBSET (1..m) /\ s \ {Max(s)} \in SUBSET (1..k)
            /\ k \notin s \ {Max(s)}
        BY <2>4, <3>2
      <4>2. g[s] = f[s] /\ g[s \ {Max(s)}] = f[s \ {Max(s)}]
        BY <3>2, <4>1, Zenon
      <4>3. f[s] = IF s = {} THEN first
                   ELSE step[<<f[s \ {Max(s)}], q[Max(s)]>>]
        BY <2>1, <4>1, Zenon DEF Folding
      <4> QED
        BY <4>2, <4>3, Zenon
    <3> QED
      BY <3>1, <3>2
  <2> HIDE DEF g
  <2>8. Folding(g, k, q, first, step)
    BY <2>7, Zenon DEF Folding
  <2> QED
    BY <2>6, <2>8, Zenon DEF k, Has
<1> HIDE DEF P
<1>3. \A m \in Nat : m \in P
  BY <1>1, <1>2, AllNumbers
<1>4. Has(n)
  BY <1>3 DEF P
<1> QED
  BY <1>4, Zenon DEF Has

\* What a fold takes off the indices up to i is i.
LEMMA InitialSets ==
    ASSUME NEW n \in Nat
    PROVE  /\ \A i \in 1..n : /\ 1..i \in SUBSET (1..n) /\ 1..i # {}
                              /\ Max(1..i) = i /\ (1..i) \ {i} = 1..(i - 1)
           /\ 1..0 = {} /\ {} \in SUBSET (1..n)
<1>1. ASSUME NEW i \in 1..n
      PROVE  /\ 1..i \in SUBSET (1..n) /\ 1..i # {} /\ i \in Nat
             /\ i \in 1..i /\ 1..i \in SUBSET (1..i)
             /\ (1..i) \ {i} = 1..(i - 1)
  OBVIOUS
<1>2. \A i \in 1..n : Max(1..i) = i
  BY <1>1, GreatestOf
<1> QED
  BY <1>1, <1>2

\* A byte shifted in leaves an integer.
LEMMA ShiftTyped ==
    ASSUME NEW v \in Int, NEW b \in Int PROVE ShiftedIn(v, b) \in Int
<1>1. v % TopByte \in Int
  BY BerAssumption
<1> QED
  BY <1>1, BerAssumption DEF ShiftedIn, K

\* As long as a number fits, no bit of it is lost.
LEMMA ShiftIs ==
    ASSUME NEW v \in Int, NEW b \in 0..255,
           v * K + b \in (-128 * TopByte)..(128 * TopByte - 1)
    PROVE  ShiftedIn(v, b) = v * K + b
<1> DEFINE t == TopByte
<1>1. t \in Nat \ {0}
  BY BerAssumption
<1> HIDE DEF t
<1>2. v * 256 + b \in (-128 * t)..(128 * t - 1)
  BY DEF t, K
<1>3. v < t /\ -t <= v
  BY <1>1, <1>2
<1>4. v >= 0 => v % t = v
  BY <1>1, <1>3
<1>5. v < 0 => v % t = v + t
  BY <1>1, <1>3
<1>6. ShiftedIn(v, b) = IF (v % t) * 256 + b >= 128 * t
                        THEN (v % t) * 256 + b - 256 * t
                        ELSE (v % t) * 256 + b
  <2> DEFINE low == (v % t) * K + b
  <2>1. ShiftedIn(v, b) = IF low >= 128 * t THEN low - K * t ELSE low
    BY Zenon DEF ShiftedIn, t
  <2>2. PICK m \in Int : m = v % t
    BY <1>1
  <2> QED
    BY <1>1, <2>1, <2>2 DEF K
<1>7. CASE v >= 0
  BY <1>1, <1>2, <1>4, <1>6, <1>7 DEF K
<1>8. CASE v < 0
  <2>1. (v % t) * 256 + b = v * 256 + b + 256 * t
    BY <1>1, <1>5, <1>8
  <2>2. (v % t) * 256 + b >= 128 * t
    BY <1>1, <1>2, <2>1
  <2> QED
    BY <1>1, <1>6, <2>1, <2>2 DEF K
<1> QED
  BY <1>7, <1>8

\* The fold of decodeLength and decodeInteger, byte by byte.
LEMMA ShiftFold ==
    ASSUME NEW bytes \in Seq(Int), NEW first \in Int
    PROVE  \E acc : /\ acc[0] = first
                    /\ \A i \in 1..Len(bytes) :
                          acc[i] = ShiftedIn(acc[i - 1], bytes[i])
                    /\ FoldLeft(ShiftedIn, first, bytes) = acc[Len(bytes)]
<1> DEFINE n == Len(bytes)
           step == [p \in Int \X Int |-> ShiftedIn(p[1], p[2])]
           Eq(f) == f = [s \in SUBSET DOMAIN bytes |->
                            IF s = {} THEN first
                            ELSE ShiftedIn(f[s \ {Max(s)}], bytes[Max(s)])]
           fold == FoldLeft(ShiftedIn, first, bytes)
<1>1. n \in Nat /\ DOMAIN bytes = 1..n /\ bytes \in [1..n -> Int]
  BY LenProperties
<1>2. fold = (CHOOSE f : Eq(f))[DOMAIN bytes]
  BY Zenon DEF FoldLeft, MapThenFoldSet
<1>3. step \in [Int \X Int -> Int]
  BY ShiftTyped
<1>4. \A v, b \in Int : step[<<v, b>>] = ShiftedIn(v, b)
  OBVIOUS
<1> HIDE DEF n, fold, step
<1>5. PICK g \in [SUBSET (1..n) -> Int] : Folding(g, n, bytes, first, step)
  BY <1>1, <1>3, FoldExists, Zenon
<1>6. \A s \in SUBSET (1..n) : s # {} => Max(s) \in 1..n
  BY <1>1, GreatestIn
<1>7. \A s \in SUBSET (1..n) : s # {} =>
         step[<<g[s \ {Max(s)}], bytes[Max(s)]>>]
            = ShiftedIn(g[s \ {Max(s)}], bytes[Max(s)])
  BY <1>1, <1>4, <1>6
<1>8. Eq(g)
  BY <1>1, <1>5, <1>7 DEF Folding
<1> DEFINE f == CHOOSE x : Eq(x)
<1>9. Eq(f)
  BY <1>8, Zenon
<1> HIDE DEF f
<1> DEFINE acc == [i \in 0..n |-> f[1..i]]
<1>10. acc[0] = first
  BY <1>1, <1>9, InitialSets
<1>11. \A i \in 1..n : acc[i] = ShiftedIn(acc[i - 1], bytes[i])
  <2> TAKE i \in 1..n
  <2>1. /\ 1..i \in SUBSET (1..n) /\ 1..i # {} /\ Max(1..i) = i
        /\ (1..i) \ {i} = 1..(i - 1) /\ i \in 0..n /\ i - 1 \in 0..n
    BY <1>1, InitialSets
  <2>2. f[1..i] = ShiftedIn(f[(1..i) \ {i}], bytes[i])
    BY <1>1, <1>9, <2>1
  <2> QED
    BY <2>1, <2>2
<1>12. fold = acc[n]
  BY <1>1, <1>2 DEF f
<1> QED
  BY <1>10, <1>11, <1>12, Zenon DEF n, fold

\* The arcs read so far, and the digits of the next.
Accumulators == [arcs : Seq(Nat), current : Nat]

\* A byte of an OID leaves arcs and an arc under way.
LEMMA ByteTyped ==
    ASSUME NEW acc \in Accumulators, NEW b \in Nat
    PROVE  WithByte(acc, b) \in Accumulators
<1> DEFINE current == (acc.current * 128 + (b % 128)) % (K * TopByte)
<1>1. current \in Nat
  <2>1. PICK w \in Nat \ {0} : w = K * TopByte
    BY BerAssumption DEF K
  <2>2. PICK x \in Nat : x = acc.current * 128 + (b % 128)
    BY DEF Accumulators
  <2>3. x % w \in Nat
    OBVIOUS
  <2> QED
    BY <2>1, <2>2, <2>3, Zenon
<1>2. WithByte(acc, b) = IF b < 128
                         THEN [arcs |-> Append(acc.arcs, current), current |-> 0]
                         ELSE [arcs |-> acc.arcs, current |-> current]
  BY Zenon DEF WithByte
<1> HIDE DEF current
<1>3. Append(acc.arcs, current) \in Seq(Nat)
  BY <1>1 DEF Accumulators
<1> QED
  BY <1>1, <1>2, <1>3 DEF Accumulators

\* The fold of decodeOID, byte by byte.
LEMMA ByteFold ==
    ASSUME NEW bytes \in Seq(Nat), NEW first \in Accumulators
    PROVE  \E acc : /\ acc[0] = first
                    /\ \A i \in 1..Len(bytes) :
                          acc[i] = WithByte(acc[i - 1], bytes[i])
                    /\ FoldLeft(WithByte, first, bytes) = acc[Len(bytes)]
<1> DEFINE n == Len(bytes)
           step == [p \in Accumulators \X Nat |-> WithByte(p[1], p[2])]
           Eq(f) == f = [s \in SUBSET DOMAIN bytes |->
                            IF s = {} THEN first
                            ELSE WithByte(f[s \ {Max(s)}], bytes[Max(s)])]
           fold == FoldLeft(WithByte, first, bytes)
<1>1. n \in Nat /\ DOMAIN bytes = 1..n /\ bytes \in [1..n -> Nat]
  BY LenProperties
<1>2. fold = (CHOOSE f : Eq(f))[DOMAIN bytes]
  BY Zenon DEF FoldLeft, MapThenFoldSet
<1>3. step \in [Accumulators \X Nat -> Accumulators]
  BY ByteTyped
<1>4. \A v \in Accumulators, b \in Nat : step[<<v, b>>] = WithByte(v, b)
  OBVIOUS
<1> HIDE DEF n, fold, step
<1>5. PICK g \in [SUBSET (1..n) -> Accumulators] :
              Folding(g, n, bytes, first, step)
  BY <1>1, <1>3, FoldExists, Zenon
<1>6. \A s \in SUBSET (1..n) : s # {} => Max(s) \in 1..n
  BY <1>1, GreatestIn
<1>7. \A s \in SUBSET (1..n) : s # {} =>
         step[<<g[s \ {Max(s)}], bytes[Max(s)]>>]
            = WithByte(g[s \ {Max(s)}], bytes[Max(s)])
  BY <1>1, <1>4, <1>6
<1>8. Eq(g)
  BY <1>1, <1>5, <1>7 DEF Folding
<1> DEFINE f == CHOOSE x : Eq(x)
<1>9. Eq(f)
  BY <1>8, Zenon
<1> HIDE DEF f
<1> DEFINE acc == [i \in 0..n |-> f[1..i]]
<1>10. acc[0] = first
  BY <1>1, <1>9, InitialSets
<1>11. \A i \in 1..n : acc[i] = WithByte(acc[i - 1], bytes[i])
  <2> TAKE i \in 1..n
  <2>1. /\ 1..i \in SUBSET (1..n) /\ 1..i # {} /\ Max(1..i) = i
        /\ (1..i) \ {i} = 1..(i - 1) /\ i \in 0..n /\ i - 1 \in 0..n
    BY <1>1, InitialSets
  <2>2. f[1..i] = WithByte(f[(1..i) \ {i}], bytes[i])
    BY <1>1, <1>9, <2>1
  <2> QED
    BY <2>1, <2>2
<1>12. fold = acc[n]
  BY <1>1, <1>2 DEF f
<1> QED
  BY <1>10, <1>11, <1>12, Zenon DEF n, fold
----------------------------------------------------------------------------
(* Numbers and lengths are read as they were written.                      *)

\* The two bases there are.
LEMMA KIsBase == K \in Bases /\ 128 \in Bases /\ K = 256 /\ K \in Int
BY DEF Bases, K

\* Every number of an int64 is read back from the fewest bytes of its two's
\* complement: the first byte has the sign, and no byte is shifted out.
LEMMA IntegerRead ==
    ASSUME NEW n \in (-128 * TopByte)..(128 * TopByte - 1)
    PROVE  /\ decodeInteger(Fixed(n, K, Fewest(n, K, -128))) = n
           /\ Fixed(n, K, Fewest(n, K, -128)) \in Seq(Nat)
<1> DEFINE k == Fewest(n, K, -128)
           q == Quotients(n, K, k)
           content == Fixed(n, K, k)
           low == -128 * TopByte
           high == 128 * TopByte - 1
<1>1. n \in Int /\ low \in Int /\ high \in Int /\ low <= 0 /\ 0 <= high
      /\ n \in low..high
  BY BerAssumption
<1> HIDE DEF low, high
<1>2. k \in Nat \ {0} /\ k \in Nat /\ q[k - 1] \in -128..127
  <2>1. -128 \in Int /\ -128 + K - 1 = 127
    BY DEF K
  <2>2. n \in Int /\ K \in Bases
    BY <1>1, KIsBase
  <2>3. k \in Nat \ {0} /\ q[k - 1] \in -128..(-128 + K - 1)
    BY <2>1, <2>2, FewestIs
  <2> QED
    BY <2>1, <2>3
<1> HIDE DEF k
<1>3. q[0] = n /\ q \in [0..k -> Int]
  <2>1. n \in Int /\ K \in Bases /\ k \in Nat
    BY <1>1, <1>2, KIsBase
  <2> QED
    BY <2>1, QuotientsAre
<1>4. \A i \in 0..k : q[i] \in low..high
  BY <1>1, <1>2, KIsBase, QuotientsWithin
<1>5. /\ content \in Seq(0..(K - 1)) /\ Len(content) = k
      /\ \A i \in 1..k : content[i] = q[k - i] % K
  <2>1. n \in Int /\ K \in Bases /\ k \in Nat
    BY <1>1, <1>2, KIsBase
  <2> QED
    BY <2>1, FixedIs
<1>6. \A i \in 1..k : q[i] * K + (q[i - 1] % K) = q[i - 1]
  BY <1>1, <1>2, KIsBase, OneDigit
<1> HIDE DEF q, content
<1>7. content \in Seq(0..255) /\ content # << >> /\ content \in Seq(Nat)
  <2>1. content \in Seq(0..255)
    BY <1>5 DEF K
  <2>2. 0..255 \subseteq Nat
    OBVIOUS
  <2>3. content \in Seq(Nat)
    BY <2>1, <2>2, SeqMonotonic
  <2> QED
    BY <1>2, <1>5, <2>1, <2>3
<1>8. Signed(content[1]) = q[k - 1]
  <2>1. content[1] = q[k - 1] % 256
    BY <1>2, <1>5 DEF K
  <2> QED
    BY <1>2, <2>1 DEF Signed, K
<1> DEFINE rest == Tail(content)
<1>9. /\ rest \in Seq(Int) /\ Len(rest) = k - 1
      /\ \A i \in 1..(k - 1) : rest[i] = content[i + 1]
  BY <1>2, <1>5, <1>7
<1> HIDE DEF rest
<1>10. q[k - 1] \in Int
  BY <1>2
<1>11. PICK acc : /\ acc[0] = q[k - 1]
                  /\ \A i \in 1..Len(rest) :
                        acc[i] = ShiftedIn(acc[i - 1], rest[i])
                  /\ FoldLeft(ShiftedIn, q[k - 1], rest) = acc[Len(rest)]
  BY <1>9, <1>10, ShiftFold
<1>12. ASSUME NEW i \in 1..(k - 1), acc[i - 1] = q[(k - 1) - i + 1]
       PROVE  acc[i] = q[(k - 1) - i]
  <2> DEFINE j == k - i
  <2>1. /\ j \in 1..k /\ j \in 0..k /\ j - 1 \in 0..k /\ (k - 1) - i + 1 = j
        /\ (k - 1) - i = j - 1 /\ i + 1 \in 1..k /\ k - (i + 1) = j - 1
    BY <1>2
  <2>2. acc[i] = ShiftedIn(q[j], rest[i])
    BY <1>9, <1>11, <1>12, <2>1
  <2>3. rest[i] = q[j - 1] % K
    BY <1>5, <1>9, <2>1
  <2>4. q[j] * K + rest[i] = q[j - 1] /\ q[j - 1] \in low..high
    BY <1>4, <1>6, <2>1, <2>3
  <2>5. q[j] \in Int /\ rest[i] \in 0..255
    <3>1. content[i + 1] \in 0..255
      BY <1>5, <1>7, <2>1, ElementOfSeq
    <3> QED
      BY <1>3, <1>9, <2>1, <3>1
  <2>6. ShiftedIn(q[j], rest[i]) = q[j - 1]
    BY <2>4, <2>5, ShiftIs DEF low, high
  <2> QED
    BY <2>1, <2>2, <2>6
<1>13. acc[k - 1] = q[0]
  <2> DEFINE r == k - 1
  <2>1. r \in Nat
    BY <1>2
  <2>2. acc[0] = q[r]
    BY <1>11, Zenon DEF r
  <2>3. \A i \in 1..r : acc[i - 1] = q[r - i + 1] => acc[i] = q[r - i]
    BY <1>12, Zenon DEF r
  <2> HIDE DEF r
  <2>4. acc[r] = q[0]
    BY <2>1, <2>2, <2>3, Rebuilt
  <2> QED
    BY <2>4 DEF r
<1>14. decodeInteger(content) = FoldLeft(ShiftedIn, Signed(content[1]), rest)
  BY <1>7, Zenon DEF decodeInteger, rest
<1> QED
  BY <1>3, <1>7, <1>8, <1>9, <1>11, <1>13, <1>14 DEF content, k

\* Two sequences in a row, element by element.
LEMMA Concatenated ==
    ASSUME NEW S, NEW s \in Seq(S), NEW t \in Seq(S)
    PROVE  /\ s \o t \in Seq(S) /\ Len(s \o t) = Len(s) + Len(t)
           /\ \A i \in 1..Len(s) : (s \o t)[i] = s[i]
           /\ \A i \in (Len(s) + 1)..(Len(s) + Len(t)) :
                 (s \o t)[i] = t[i - Len(s)]
BY ConcatProperties, LenProperties

\* What is put behind a sequence leaves its first element.
LEMMA FirstOf ==
    ASSUME NEW s \in Seq(Nat), NEW t \in Seq(Nat), Len(s) # 0
    PROVE  /\ s \o t \in Seq(Nat) /\ Len(s \o t) = Len(s) + Len(t)
           /\ (s \o t)[1] = s[1] /\ s \o t # << >>
           /\ Len(s) \in Nat /\ Len(t) \in Nat
<1>1. Len(s) \in Nat /\ Len(t) \in Nat
  BY LenProperties
<1>2. /\ s \o t \in Seq(Nat) /\ Len(s \o t) = Len(s) + Len(t)
      /\ \A i \in 1..Len(s) : (s \o t)[i] = s[i]
  BY Concatenated
<1>3. 1 \in 1..Len(s) /\ Len(s) + Len(t) # 0
  BY <1>1
<1>4. s \o t # << >>
  BY <1>2, <1>3
<1> QED
  BY <1>1, <1>2, <1>3, <1>4

\* Sequences may be put together in either order.
LEMMA Associative ==
    ASSUME NEW s \in Seq(Nat), NEW t \in Seq(Nat), NEW u \in Seq(Nat)
    PROVE  (s \o t) \o u = s \o (t \o u)
BY ConcatAssociative, SMTT(60)

\* What stands before something else, and what comes after it.
LEMMA Parts ==
    ASSUME NEW S, NEW s \in Seq(S), NEW t \in Seq(S), NEW u \in Seq(S)
    PROVE  /\ SubSeq(s \o t \o u, Len(s) + 1, Len(s) + Len(t)) = t
           /\ From(s \o t, Len(s) + 1) = t
           /\ From(s, Len(s) + 1) = << >>
<1> DEFINE a == Len(s)
           b == Len(t)
           all == s \o t \o u
<1>1. a \in Nat /\ b \in Nat /\ Len(u) \in Nat
  BY LenProperties
<1>2. s \o t \in Seq(S) /\ Len(s \o t) = a + b
      /\ \A i \in (a + 1)..(a + b) : (s \o t)[i] = t[i - a]
  BY Concatenated
<1>3. /\ all \in Seq(S) /\ Len(all) = a + b + Len(u)
      /\ \A i \in 1..(a + b) : all[i] = (s \o t)[i]
  BY <1>2, Concatenated
<1> HIDE DEF a, b
<1>4. \A i \in (a + 1)..(a + b) : all[i] = t[i - a] /\ t[i - a] \in S
  <2> TAKE i \in (a + 1)..(a + b)
  <2>1. i \in 1..(a + b) /\ i - a \in 1..b
    BY <1>1
  <2>2. t[i - a] \in S
    BY <2>1, ElementOfSeq DEF b
  <2> QED
    BY <1>2, <1>3, <2>1, <2>2
<1> HIDE DEF all
<1>5. SubSeq(all, a + 1, a + b) = t
  <2>1. /\ SubSeq(all, a + 1, a + b) \in Seq(S)
        /\ Len(SubSeq(all, a + 1, a + b)) = b
        /\ \A i \in 1..b : SubSeq(all, a + 1, a + b)[i] = all[a + i]
    BY <1>1, <1>4, SubSeqProperties
  <2>2. \A i \in 1..b : all[a + i] = t[i]
    BY <1>1, <1>4
  <2> QED
    BY <2>1, <2>2, SeqEqual DEF b
<1>6. From(s \o t, a + 1) = t
  <2>1. \A i \in (a + 1)..(a + b) : (s \o t)[i] \in S
    BY <1>2, <1>4
  <2>2. /\ SubSeq(s \o t, a + 1, a + b) \in Seq(S)
        /\ Len(SubSeq(s \o t, a + 1, a + b)) = b
        /\ \A i \in 1..b : SubSeq(s \o t, a + 1, a + b)[i] = (s \o t)[a + i]
    <3> DEFINE st == s \o t
    <3>1. \A i \in (a + 1)..(a + b) : st[i] \in S
      BY <2>1
    <3> HIDE DEF st
    <3>2. /\ SubSeq(st, a + 1, a + b) \in Seq(S)
          /\ Len(SubSeq(st, a + 1, a + b)) = b
          /\ \A i \in 1..b : SubSeq(st, a + 1, a + b)[i] = st[a + i]
      BY <1>1, <3>1, SubSeqProperties
    <3> QED
      BY <3>2 DEF st
  <2>3. \A i \in 1..b : (s \o t)[a + i] = t[i]
    BY <1>1, <1>2, SMTT(60)
  <2> QED
    BY <1>2, <2>2, <2>3, SeqEqual DEF b, From
<1>7. From(s, a + 1) = << >>
  BY <1>1, SubSeqEmpty DEF From, a
<1> QED
  BY <1>5, <1>6, <1>7 DEF a, b, all

\* Max of two numbers.
LEMMA GreaterOfTwo ==
    ASSUME NEW a \in Nat, NEW b \in Nat
    PROVE  Max({a, b}) \in Nat /\ Max({a, b}) >= a /\ Max({a, b}) >= b
<1>1. \E x \in {a, b} : \A y \in {a, b} : x >= y
  <2>1. CASE a >= b
    BY <2>1
  <2>2. CASE b >= a
    BY <2>2
  <2> QED
    BY <2>1, <2>2
<1>2. Max({a, b}) \in {a, b} /\ \A y \in {a, b} : Max({a, b}) >= y
  BY <1>1, Zenon DEF Max
<1> QED
  BY <1>2

\* Sequences of one element.
LEMMA OneElement ==
    ASSUME NEW S, NEW x \in S
    PROVE  <<x>> \in Seq(S) /\ Len(<<x>>) = 1 /\ <<x>>[1] = x
OBVIOUS

\* What is behind the first element.
LEMMA AfterFirst ==
    ASSUME NEW x \in Nat, NEW u \in Seq(Nat) PROVE Tail(<<x>> \o u) = u
OBVIOUS

\* A length in each form is a sequence of bytes.
LEMMA LengthWritten ==
    ASSUME NEW form \in Nat, NEW n \in Nat
    PROVE  LengthAs(form, n) \in Seq(Nat) /\ Len(LengthAs(form, n)) \in Nat \ {0}
<1> DEFINE L == LengthAs(form, n)
<1>1. CASE form = 0 /\ n < 128
  <2>1. L = <<n>>
    BY <1>1, Zenon DEF LengthAs
  <2> QED
    BY <2>1, OneElement
<1>2. CASE ~(form = 0 /\ n < 128)
  <2> DEFINE m == Fewest(n, K, 0)
             k == Max({form, m})
             digits == Fixed(n, K, k)
             first == 128 + k
  <2>1. m \in Nat \ {0}
    <3>1. n \in Int /\ n >= 0 /\ 0 \in Int
      OBVIOUS
    <3> QED
      BY <3>1, KIsBase, FewestIs
  <2>2. k \in Nat
    BY <2>1, GreaterOfTwo
  <2>3. L = <<first>> \o digits
    BY <1>2, Zenon DEF LengthAs
  <2> HIDE DEF L, k, m
  <2>4. digits \in Seq(0..(K - 1)) /\ Len(digits) = k
    <3>1. n \in Int /\ K \in Bases /\ k \in Nat
      BY <2>2, KIsBase
    <3> QED
      BY <3>1, FixedIs
  <2> HIDE DEF digits
  <2>5. digits \in Seq(Nat)
    <3>1. 0..(K - 1) \subseteq Nat
      BY DEF K
    <3> QED
      BY <2>4, <3>1, SeqMonotonic
  <2>6. <<first>> \in Seq(Nat) /\ Len(<<first>>) = 1
    BY <2>2, OneElement
  <2>7. L \in Seq(Nat) /\ Len(L) = 1 + k
    BY <2>3, <2>4, <2>5, <2>6, Concatenated
  <2> QED
    BY <2>2, <2>7 DEF L
<1> QED
  BY <1>1, <1>2

\* A length that an int holds is read as it was written, in each form, and all
\* of it is taken.
LEMMA LengthRead ==
    ASSUME NEW form \in Nat, NEW n \in Nat, NEW rest \in Seq(Nat),
           n < 128 * TopByte
    PROVE  /\ LengthAs(form, n) \in Seq(Nat) /\ Len(LengthAs(form, n)) \in Nat \ {0}
           /\ decodeLength(LengthAs(form, n) \o rest) =
                 [ok |-> TRUE, length |-> n, consumed |-> Len(LengthAs(form, n))]
<1> DEFINE L == LengthAs(form, n)
           data == L \o rest
<1>1. CASE form = 0 /\ n < 128
  <2>1. L = <<n>>
    BY <1>1, Zenon DEF LengthAs
  <2>2. L \in Seq(Nat) /\ Len(L) = 1 /\ L[1] = n
    BY <2>1, OneElement
  <2> HIDE DEF L
  <2>3. data \in Seq(Nat) /\ Len(data) = 1 + Len(rest) /\ data[1] = n
    <3>1. Len(L) # 0
      BY <2>2
    <3>2. /\ L \o rest \in Seq(Nat) /\ Len(L \o rest) = Len(L) + Len(rest)
          /\ (L \o rest)[1] = L[1]
      BY <2>2, <3>1, FirstOf
    <3> QED
      BY <2>2, <3>2
  <2>4. data # << >>
    BY <2>3, LenProperties
  <2> HIDE DEF data
  <2>5. decodeLength(data) = [ok |-> TRUE, length |-> n, consumed |-> 1]
    BY <1>1, <2>3, <2>4, Zenon DEF decodeLength
  <2> QED
    BY <2>2, <2>5 DEF L, data
<1>2. CASE ~(form = 0 /\ n < 128)
  <2> DEFINE m == Fewest(n, K, 0)
             k == Max({form, m})
             digits == Fixed(n, K, k)
             q == Quotients(n, K, k)
             first == 128 + k
  <2>1. m \in Nat \ {0}
    <3>1. n \in Int /\ n >= 0 /\ 0 \in Int
      OBVIOUS
    <3> QED
      BY <3>1, KIsBase, FewestIs
  <2>2. k \in Nat /\ k >= m
    BY <2>1, GreaterOfTwo
  <2>3. L = <<first>> \o digits
    BY <1>2, Zenon DEF LengthAs
  <2> HIDE DEF L
  <2>4. q[k] = 0
    <3>1. k \in Nat /\ k >= Fewest(n, K, 0) /\ K \in Bases
      BY <2>2, KIsBase
    <3> HIDE DEF k
    <3> QED
      BY <3>1, Vanish
  <2> HIDE DEF k, m
  <2>5. /\ digits \in Seq(0..(K - 1)) /\ Len(digits) = k
        /\ \A i \in 1..k : digits[i] = q[k - i] % K
    <3>1. n \in Int /\ K \in Bases /\ k \in Nat
      BY <2>2, KIsBase
    <3> QED
      BY <3>1, FixedIs
  <2>6. /\ q[0] = n /\ \A i \in 1..k : q[i] * K + (q[i - 1] % K) = q[i - 1]
        /\ \A i \in 0..k : /\ q[i] \in Int
                           /\ q[i] \in (-128 * TopByte)..(128 * TopByte - 1)
    <3>1. n \in Int /\ K \in Bases /\ k \in Nat
      BY <2>2, KIsBase
    <3>2. q[0] = n
      BY <3>1, QuotientsAre
    <3>3. \A i \in 1..k : q[i] * K + (q[i - 1] % K) = q[i - 1]
      BY <3>1, OneDigit
    <3>4. /\ -128 * TopByte \in Int /\ 128 * TopByte - 1 \in Int
          /\ -128 * TopByte <= 0 /\ 0 <= 128 * TopByte - 1
          /\ n \in (-128 * TopByte)..(128 * TopByte - 1)
      BY BerAssumption
    <3>5. \A i \in 0..k : q[i] \in (-128 * TopByte)..(128 * TopByte - 1)
      BY <3>1, <3>4, QuotientsWithin
    <3>6. \A i \in 0..k : q[i] \in Int
      BY <3>4, <3>5
    <3> QED
      BY <3>2, <3>3, <3>5, <3>6
  <2> HIDE DEF digits, q
  <2>7. digits \in Seq(Nat) /\ digits \in Seq(Int)
    <3>1. 0..(K - 1) \subseteq Nat /\ Nat \subseteq Int
      BY DEF K
    <3> QED
      BY <2>5, <3>1, SeqMonotonic
  <2>8. first \in Nat /\ first >= 128 /\ first - 128 = k /\ k # 0
    BY <2>1, <2>2
  <2> HIDE DEF first
  <2>9. <<first>> \in Seq(Nat) /\ Len(<<first>>) = 1 /\ <<first>>[1] = first
    BY <2>8, OneElement
  <2>10. /\ L \in Seq(Nat) /\ Len(L) = 1 + k /\ L[1] = first
    BY <2>3, <2>5, <2>7, <2>9, Concatenated
  <2>11. /\ data \in Seq(Nat) /\ Len(data) = 1 + k + Len(rest)
         /\ data[1] = first /\ Len(rest) \in Nat
    <3>1. Len(L) # 0
      BY <2>2, <2>10
    <3>2. /\ L \o rest \in Seq(Nat) /\ Len(L \o rest) = Len(L) + Len(rest)
          /\ (L \o rest)[1] = L[1] /\ Len(rest) \in Nat
      BY <2>10, <3>1, FirstOf
    <3> QED
      BY <2>10, <3>2
  <2>12. SubSeq(data, 2, 1 + k) = digits
    <3>1. SubSeq(<<first>> \o digits \o rest, Len(<<first>>) + 1,
                 Len(<<first>>) + Len(digits)) = digits
      BY <2>7, <2>9, Parts
    <3>2. Len(<<first>>) + 1 = 2 /\ Len(<<first>>) + Len(digits) = 1 + k
      BY <2>5, <2>9
    <3> QED
      BY <2>3, <3>1, <3>2
  <2>13. PICK acc : /\ acc[0] = 0
                    /\ \A i \in 1..Len(digits) :
                          acc[i] = ShiftedIn(acc[i - 1], digits[i])
                    /\ FoldLeft(ShiftedIn, 0, digits) = acc[Len(digits)]
    <3>1. 0 \in Int
      OBVIOUS
    <3> QED
      BY <2>7, <3>1, ShiftFold
  <2>14. ASSUME NEW i \in 1..k, acc[i - 1] = q[k - i + 1] PROVE acc[i] = q[k - i]
    <3> DEFINE j == k - i + 1
    <3>1. j \in 1..k /\ j - 1 = k - i /\ j \in 0..k /\ k - i \in 0..k
      BY <2>2
    <3>2. q[j] * K + (q[k - i] % K) = q[k - i]
      BY <2>6, <3>1
    <3>3. acc[i] = ShiftedIn(q[j], digits[i]) /\ digits[i] = q[k - i] % K
      BY <2>5, <2>13, <2>14
    <3>4. digits[i] \in 0..255
      <4>1. digits \in Seq(0..255) /\ i \in 1..Len(digits)
        BY <2>5 DEF K
      <4> QED
        BY <4>1, ElementOfSeq
    <3>5. q[j] \in Int /\ q[k - i] \in (-128 * TopByte)..(128 * TopByte - 1)
      BY <2>6, <3>1
    <3> HIDE DEF j
    <3>6. q[j] * K + digits[i] = q[k - i]
      BY <3>2, <3>3
    <3>7. ShiftedIn(q[j], digits[i]) = q[k - i]
      BY <3>4, <3>5, <3>6, ShiftIs
    <3> QED
      BY <3>3, <3>7
  <2>15. acc[k] = q[0]
    <3>1. acc[0] = q[k]
      BY <2>4, <2>13
    <3> QED
      BY <2>2, <2>14, <3>1, Rebuilt
  <2>16. FoldLeft(ShiftedIn, 0, digits) = n
    BY <2>5, <2>6, <2>13, <2>15
  <2>17. data # << >> /\ ~(data[1] < 128)
         /\ ~(data[1] - 128 = 0 \/ Len(data) < 1 + (data[1] - 128))
    BY <2>2, <2>8, <2>11, LenProperties
  <2> HIDE DEF data
  <2>18. decodeLength(data) =
            [ok |-> TRUE, consumed |-> 1 + (data[1] - 128),
             length |-> FoldLeft(ShiftedIn, 0,
                                 SubSeq(data, 2, 1 + (data[1] - 128)))]
    BY <2>17, Zenon DEF decodeLength
  <2>19. data[1] - 128 = k
    BY <2>8, <2>11
  <2>20. decodeLength(data) = [ok |-> TRUE, consumed |-> 1 + k, length |-> n]
    BY <2>12, <2>16, <2>18, <2>19, Zenon
  <2> QED
    BY <2>2, <2>10, <2>20 DEF L, data
<1> QED
  BY <1>1, <1>2

\* A triple is read as it was written, and what follows is what is left.
Triple(tag, content, consumed) ==
    [ok |-> TRUE, tag |-> tag, consumed |-> consumed, content |-> content]

\* Whatever follows it, a triple in any form is read as its tag and content,
\* and all of it, and no more, is taken, if an int holds its length.
LEMMA TripleRead ==
    ASSUME NEW form \in Nat, NEW tag \in Nat, NEW content \in Seq(Nat),
           NEW rest \in Seq(Nat), Len(content) < 128 * TopByte
    PROVE  LET t == TripleAs(form, tag, content) IN
           /\ t \in Seq(Nat) /\ Len(t) \in Nat \ {0}
           /\ t \o rest \in Seq(Nat) /\ t \o rest # << >>
           /\ decodeTLV(t \o rest) = Triple(tag, content, Len(t))
           /\ From(t \o rest, Len(t) + 1) = rest
<1> DEFINE n == Len(content)
           L == LengthAs(form, n)
           t == TripleAs(form, tag, content)
           data == t \o rest
<1>1. n \in Nat /\ n < 128 * TopByte
  BY LenProperties
<1> HIDE DEF n
<1>2. L \in Seq(Nat) /\ Len(L) \in Nat \ {0}
  BY <1>1, LengthWritten
<1>3. content \o rest \in Seq(Nat)
  BY Concatenated
<1>4. decodeLength(L \o (content \o rest)) =
         [ok |-> TRUE, length |-> n, consumed |-> Len(L)]
  BY <1>1, <1>3, LengthRead
<1>5. t = <<tag>> \o L \o content
  BY Zenon DEF TripleAs, n
<1> HIDE DEF L, t
<1>6. <<tag>> \in Seq(Nat) /\ Len(<<tag>>) = 1 /\ <<tag>>[1] = tag
  BY OneElement
<1>7. <<tag>> \o L \in Seq(Nat) /\ Len(<<tag>> \o L) = 1 + Len(L)
      /\ (<<tag>> \o L)[1] = tag
  BY <1>2, <1>6, Concatenated
<1>8. t \in Seq(Nat) /\ Len(t) = 1 + Len(L) + n /\ t[1] = tag
  BY <1>2, <1>5, <1>7, Concatenated DEF n
<1>9. data \in Seq(Nat) /\ Len(data) = Len(t) + Len(rest) /\ data[1] = tag
      /\ Len(rest) \in Nat
  <2>1. Len(t) # 0
    BY <1>1, <1>2, <1>8
  <2>2. /\ t \o rest \in Seq(Nat) /\ Len(t \o rest) = Len(t) + Len(rest)
        /\ (t \o rest)[1] = t[1] /\ Len(rest) \in Nat
    BY <1>8, <2>1, FirstOf
  <2> QED
    BY <1>8, <2>2
<1>10. Tail(data) = L \o (content \o rest)
  <2>1. data = <<tag>> \o (L \o (content \o rest))
    <3>1. (<<tag>> \o L) \o content \o rest = (<<tag>> \o L) \o (content \o rest)
      BY <1>7, Associative, Zenon
    <3>2. (<<tag>> \o L) \o (content \o rest) = <<tag>> \o (L \o (content \o rest))
      BY <1>2, <1>3, <1>6, Associative, Zenon
    <3> QED
      BY <1>5, <3>1, <3>2
  <2> DEFINE u == L \o (content \o rest)
  <2>2. u \in Seq(Nat)
    BY <1>2, <1>3, Concatenated
  <2> HIDE DEF u, data
  <2>3. data = <<tag>> \o u
    BY <2>1 DEF u
  <2>4. Tail(<<tag>> \o u) = u
    BY <2>2, AfterFirst
  <2> QED
    BY <2>3, <2>4 DEF u
<1>11. SubSeq(data, (1 + Len(L)) + 1, (1 + Len(L)) + n) = content
  <2>1. data = (<<tag>> \o L) \o content \o rest
    BY <1>5
  <2> QED
    BY <1>7, <2>1, Parts DEF n
<1>12. From(data, Len(t) + 1) = rest
  BY <1>8, Parts
<1> HIDE DEF data
<1>13. /\ ~(Len(data) < 2) /\ ~(n < 0) /\ ~(Len(data) < (1 + Len(L)) + n)
       /\ data # << >>
  BY <1>1, <1>2, <1>8, <1>9, SMTT(60)
<1>14. decodeTLV(data) =
          [ok |-> TRUE, tag |-> data[1], consumed |-> (1 + Len(L)) + n,
           content |-> SubSeq(data, (1 + Len(L)) + 1, (1 + Len(L)) + n)]
  <2> DEFINE size == decodeLength(Tail(data))
  <2>1. size.ok /\ size.length = n /\ size.consumed = Len(L)
    <3>1. size = [ok |-> TRUE, length |-> n, consumed |-> Len(L)]
      BY <1>4, <1>10, Zenon
    <3> HIDE DEF size
    <3> QED
      BY <3>1
  <2>2. decodeTLV(data) =
           IF Len(data) < 2 THEN Malformed
           ELSE IF \/ ~size.ok \/ size.length < 0
                   \/ Len(data) < (1 + size.consumed) + size.length
           THEN Malformed
           ELSE [ok |-> TRUE, tag |-> data[1],
                 consumed |-> (1 + size.consumed) + size.length,
                 content |-> SubSeq(data, (1 + size.consumed) + 1,
                                    (1 + size.consumed) + size.length)]
    BY Zenon DEF decodeTLV
  <2> HIDE DEF size
  <2> QED
    BY <1>13, <2>1, <2>2, Zenon
<1>15. decodeTLV(data) = Triple(tag, content, Len(t))
  BY <1>8, <1>9, <1>11, <1>14 DEF Triple
<1> QED
  BY <1>1, <1>2, <1>8, <1>9, <1>12, <1>13, <1>15 DEF data, t
----------------------------------------------------------------------------
(* Object identifiers are read as they were written.                       *)

\* The bytes of s lead from one state of the reader of arcs to another.
ReadsTo(s, a, b) ==
    \E acc : /\ acc[0] = a
             /\ \A i \in 1..Len(s) : acc[i] = WithByte(acc[i - 1], s[i])
             /\ acc[Len(s)] = b

\* No bytes change nothing.
LEMMA ReadsNothing == ASSUME NEW a PROVE ReadsTo(<< >>, a, a)
<1> DEFINE acc == [i \in 0..0 |-> a]
<1>1. acc[0] = a /\ Len(<< >>) = 0 /\ 1..0 = {}
  OBVIOUS
<1> QED
  BY <1>1 DEF ReadsTo

\* Bytes behind bytes are read one after the other.
LEMMA ReadsOn ==
    ASSUME NEW s \in Seq(Nat), NEW t \in Seq(Nat), NEW a, NEW b, NEW c,
           ReadsTo(s, a, b), ReadsTo(t, b, c)
    PROVE  ReadsTo(s \o t, a, c)
<1> DEFINE m == Len(s)
           n == Len(t)
<1>1. /\ m \in Nat /\ n \in Nat /\ Len(s \o t) = m + n
      /\ \A i \in 1..m : (s \o t)[i] = s[i]
      /\ \A i \in (m + 1)..(m + n) : (s \o t)[i] = t[i - m]
  BY Concatenated, LenProperties
<1>2. PICK f : /\ f[0] = a
               /\ \A i \in 1..m : f[i] = WithByte(f[i - 1], s[i])
               /\ f[m] = b
  BY DEF ReadsTo
<1>3. PICK g : /\ g[0] = b
               /\ \A i \in 1..n : g[i] = WithByte(g[i - 1], t[i])
               /\ g[n] = c
  BY DEF ReadsTo
<1> HIDE DEF m, n
<1> DEFINE u == s \o t
           h == [i \in 0..(m + n) |-> IF i <= m THEN f[i] ELSE g[i - m]]
<1> HIDE DEF u
<1>4. h[0] = a
  BY <1>1, <1>2
<1>5. h[m + n] = c
  <2>1. CASE n = 0
    BY <1>1, <1>2, <1>3, <2>1
  <2>2. CASE n # 0
    BY <1>1, <1>3, <2>2
  <2> QED
    BY <2>1, <2>2
<1>6. ASSUME NEW i \in 1..(m + n) PROVE h[i] = WithByte(h[i - 1], u[i])
  <2>1. CASE i <= m
    <3>1. i \in 1..m /\ i \in 0..(m + n) /\ i - 1 \in 0..(m + n) /\ i - 1 <= m
      BY <1>1, <2>1
    <3>2. h[i] = f[i] /\ h[i - 1] = f[i - 1] /\ u[i] = s[i]
      BY <1>1, <2>1, <3>1 DEF u
    <3> QED
      BY <1>2, <3>1, <3>2
  <2>2. CASE i = m + 1
    <3>1. /\ i \in 0..(m + n) /\ i - 1 \in 0..(m + n) /\ ~(i <= m) /\ i - 1 = m
          /\ i - m = 1 /\ 1 \in 1..n /\ 1 - 1 = 0 /\ i \in (m + 1)..(m + n)
      BY <1>1, <2>2
    <3>2. h[i] = g[1] /\ h[i - 1] = f[m]
      BY <1>1, <3>1
    <3>3. u[i] = t[1]
      BY <1>1, <3>1 DEF u
    <3>4. g[1] = WithByte(g[0], t[1])
      BY <1>3, <3>1
    <3> QED
      BY <1>2, <1>3, <3>2, <3>3, <3>4, Zenon
  <2>3. CASE i > m + 1
    <3>1. /\ i \in 0..(m + n) /\ i - 1 \in 0..(m + n) /\ ~(i <= m) /\ ~(i - 1 <= m)
          /\ i - m \in 1..n /\ (i - m) - 1 = (i - 1) - m /\ i \in (m + 1)..(m + n)
      BY <1>1, <2>3
    <3>2. h[i] = g[i - m] /\ h[i - 1] = g[(i - 1) - m] /\ u[i] = t[i - m]
      BY <1>1, <3>1 DEF u
    <3> QED
      BY <1>3, <3>1, <3>2
  <2> QED
    BY <1>1, <2>1, <2>2, <2>3
<1> HIDE DEF h
<1>7. Len(u) = m + n
  BY <1>1 DEF u
<1> QED
  BY <1>4, <1>5, <1>6, <1>7 DEF ReadsTo, u

\* What bytes are read to is what the fold comes to.
LEMMA ReadsFold ==
    ASSUME NEW s \in Seq(Nat), NEW a \in Accumulators, NEW b, ReadsTo(s, a, b)
    PROVE  FoldLeft(WithByte, a, s) = b
<1> DEFINE n == Len(s)
           fold == FoldLeft(WithByte, a, s)
<1>1. n \in Nat
  BY LenProperties
<1>2. PICK f : /\ f[0] = a
               /\ \A i \in 1..n : f[i] = WithByte(f[i - 1], s[i])
               /\ f[n] = b
  BY DEF ReadsTo
<1>3. PICK g : /\ g[0] = a
               /\ \A i \in 1..n : g[i] = WithByte(g[i - 1], s[i])
               /\ fold = g[n]
  BY ByteFold
<1> HIDE DEF n, fold
<1> DEFINE P == {i \in Nat : i <= n => f[i] = g[i]}
<1>4. 0 \in P
  BY <1>2, <1>3
<1>5. ASSUME NEW i \in Nat, i \in P PROVE i + 1 \in P
  <2> SUFFICES ASSUME i + 1 <= n PROVE f[i + 1] = g[i + 1]
    OBVIOUS
  <2>1. f[i] = g[i] /\ i + 1 \in 1..n /\ (i + 1) - 1 = i
    BY <1>1, <1>5
  <2>2. f[i + 1] = WithByte(f[i], s[i + 1]) /\ g[i + 1] = WithByte(g[i], s[i + 1])
    BY <1>2, <1>3, <2>1
  <2> QED
    BY <2>1, <2>2
<1> HIDE DEF P
<1>6. \A i \in Nat : i \in P
  BY <1>4, <1>5, AllNumbers
<1>7. f[n] = g[n]
  BY <1>1, <1>6 DEF P
<1> QED
  BY <1>2, <1>3, <1>7 DEF fold

Reader(arcs, current) == [arcs |-> arcs, current |-> current]

\* The bytes of an arc: it is put together, and added by its last one.
LEMMA ArcRead ==
    ASSUME NEW arc \in Arc, NEW arcs \in Seq(Nat)
    PROVE  /\ ArcAs(arc) \in Seq(Nat)
           /\ ReadsTo(ArcAs(arc), Reader(arcs, 0), Reader(Append(arcs, arc), 0))
<1> DEFINE k == Fewest(arc, 128, 0)
           digits == Fixed(arc, 128, k)
           q == Quotients(arc, 128, k)
           s == ArcAs(arc)
           w == K * TopByte
<1>0. w \in Nat \ {0} /\ arc \in 0..(w - 1)
  BY BerAssumption DEF Arc, K
<1> HIDE DEF w
<1>1. arc \in Nat /\ arc \in Int /\ 128 \in Bases
  BY <1>0, KIsBase
<1>2. k \in Nat \ {0} /\ k \in Nat
  <2>1. arc >= 0 /\ 0 \in Int
    BY <1>1
  <2> QED
    BY <1>1, <2>1, FewestIs
<1>3. s = [i \in 1..k |-> digits[i] + (IF i < k THEN 128 ELSE 0)]
  BY Zenon DEF ArcAs
<1>4. q[k] = 0
  <2>1. k >= Fewest(arc, 128, 0)
    BY <1>2
  <2> QED
    BY <1>1, <1>2, <2>1, Vanish
<1> HIDE DEF k
<1>5. /\ digits \in Seq(0..(128 - 1)) /\ Len(digits) = k
      /\ \A i \in 1..k : digits[i] = q[k - i] % 128
  <2>1. arc \in Int /\ 128 \in Bases /\ k \in Nat
    BY <1>1, <1>2
  <2> HIDE DEF digits, q
  <2>2. /\ Fixed(arc, 128, k) \in Seq(0..(128 - 1))
        /\ Len(Fixed(arc, 128, k)) = k
        /\ \A i \in 1..k :
              Fixed(arc, 128, k)[i] = Quotients(arc, 128, k)[k - i] % 128
    BY <2>1, FixedIs, ZenonT(60)
  <2> QED
    BY <2>2, Zenon DEF digits, q
<1>6. /\ q[0] = arc /\ q \in [0..k -> Int]
  BY <1>1, <1>2, QuotientsAre, ZenonT(60)
<1>7. \A i \in 1..k : q[i] * 128 + (q[i - 1] % 128) = q[i - 1]
  BY <1>1, <1>2, OneDigit
<1>13. \A i \in 0..k : q[i] \in 0..(w - 1)
  <2>1. 0 \in Int /\ w - 1 \in Int /\ 0 <= 0 /\ 0 <= w - 1 /\ arc \in 0..(w - 1)
    BY <1>0
  <2> QED
    BY <1>1, <1>2, <2>1, QuotientsWithin
<1> HIDE DEF q, digits, s
<1>8. \A i \in 1..k : digits[i] \in 0..127
  <2>1. digits \in [1..k -> 0..(128 - 1)]
    BY <1>2, <1>5, SeqDef, LenProperties
  <2>2. 0..(128 - 1) = 0..127
    OBVIOUS
  <2>3. digits \in [1..k -> 0..127]
    BY <2>1, <2>2, Zenon
  <2> QED
    BY <2>3, Zenon
<1>9. /\ s \in Seq(Nat) /\ Len(s) = k
      /\ \A i \in 1..k : /\ s[i] = digits[i] + (IF i < k THEN 128 ELSE 0)
                         /\ s[i] % 128 = digits[i] /\ (s[i] < 128 <=> i = k)
  <2>1. ASSUME NEW i \in 1..k
        PROVE  digits[i] + (IF i < k THEN 128 ELSE 0) \in Nat
    <3>1. digits[i] \in 0..127
      BY <1>8
    <3>2. PICK d \in 0..127 : d = digits[i]
      BY <3>1
    <3>3. d + (IF i < k THEN 128 ELSE 0) \in Nat
      OBVIOUS
    <3> QED
      BY <3>2, <3>3, Zenon
  <2>2. s \in Seq(Nat) /\ Len(s) = k
    BY <1>2, <1>3, <2>1
  <2>3. \A i \in 1..k : s[i] = digits[i] + (IF i < k THEN 128 ELSE 0)
    BY <1>3
  <2>4. ASSUME NEW i \in 1..k
        PROVE  s[i] % 128 = digits[i] /\ (s[i] < 128 <=> i = k)
    <3>1. digits[i] \in 0..127 /\ s[i] = digits[i] + (IF i < k THEN 128 ELSE 0)
      BY <1>8, <2>3
    <3>2. PICK d \in 0..127 : d = digits[i]
      BY <3>1
    <3>3. s[i] = d + (IF i < k THEN 128 ELSE 0)
      BY <3>1, <3>2, Zenon
    <3>4. PICK b \in Int : b = s[i] /\ b = d + (IF i < k THEN 128 ELSE 0)
      BY <3>3
    <3>5. b % 128 = d /\ (b < 128 <=> i = k)
      BY <1>2, <3>4
    <3> QED
      BY <3>2, <3>4, <3>5, Zenon
  <2> QED
    BY <2>2, <2>3, <2>4, Zenon
<1> DEFINE acc == [i \in 0..k |-> IF i < k THEN Reader(arcs, q[k - i])
                                  ELSE Reader(Append(arcs, arc), 0)]
<1>10. acc[0] = Reader(arcs, 0) /\ acc[k] = Reader(Append(arcs, arc), 0)
  BY <1>2, <1>4
<1>11. ASSUME NEW i \in 1..k PROVE acc[i] = WithByte(acc[i - 1], s[i])
  <2> DEFINE j == k - i
             all == q[j + 1] * 128 + (s[i] % 128)
             now == all % (K * TopByte)
  <2>1. /\ j \in 0..k /\ j + 1 \in 1..k /\ (j + 1) - 1 = j /\ k - (i - 1) = j + 1
        /\ i \in 0..k /\ i - 1 \in 0..k /\ i - 1 < k
    BY <1>2
  <2>7. all = q[j]
    BY <1>5, <1>7, <1>9, <2>1, SMTT(60)
  <2>2. now = q[j]
    <3>1. PICK x \in 0..(w - 1) : x = q[j]
      BY <1>13, <2>1
    <3>2. x % w = x
      BY <1>0
    <3> HIDE DEF all
    <3> QED
      BY <2>7, <3>1, <3>2, Zenon DEF w
  <2>3. acc[i - 1] = Reader(arcs, q[j + 1])
    BY <2>1
  <2>4. WithByte(acc[i - 1], s[i]) =
           IF s[i] < 128 THEN Reader(Append(arcs, now), 0)
           ELSE Reader(arcs, now)
    <3>1. WithByte(Reader(arcs, q[j + 1]), s[i]) =
             IF s[i] < 128 THEN Reader(Append(arcs, now), 0)
             ELSE Reader(arcs, now)
      BY Zenon DEF WithByte, Reader
    <3> HIDE DEF acc, all, now, j
    <3> QED
      BY <2>3, <3>1, Zenon
  <2>5. CASE i = k
    <3>1. j = 0 /\ s[i] < 128 /\ ~(i < k)
      BY <1>9, <2>5
    <3> QED
      BY <1>6, <2>1, <2>2, <2>4, <3>1
  <2>6. CASE i # k
    <3>1. ~(s[i] < 128) /\ i < k
      BY <1>9, <2>6
    <3> QED
      BY <2>1, <2>2, <2>4, <3>1
  <2> QED
    BY <2>5, <2>6
<1> HIDE DEF acc
<1>12. ReadsTo(s, Reader(arcs, 0), Reader(Append(arcs, arc), 0))
  BY <1>9, <1>10, <1>11 DEF ReadsTo
<1> QED
  BY <1>9, <1>12 DEF s

\* Sequences one after the other, up to each of them.
Joining(seqs, h) ==
    /\ h[0] = << >>
    /\ \A i \in 1..Len(seqs) : h[i] = h[i - 1] \o seqs[i]

\* FlattenSeq joins sequences one by one.
LEMMA FlattenIs ==
    ASSUME NEW seqs \in Seq(Seq(Nat))
    PROVE  \E h \in [0..Len(seqs) -> Seq(Nat)] :
               Joining(seqs, h) /\ FlattenSeq(seqs) = h[Len(seqs)]
<1> DEFINE n == Len(seqs)
           step == [p \in (1..n) \X Seq(Nat) |-> p[2] \o seqs[p[1]]]
           Eq(f) == f = [i \in 1..n |-> IF i = 1 THEN seqs[i]
                                        ELSE f[i - 1] \o seqs[i]]
           flat == FlattenSeq(seqs)
<1>1. n \in Nat /\ \A i \in 1..n : seqs[i] \in Seq(Nat)
  BY LenProperties, ElementOfSeq
<1>2. << >> \in Seq(Nat) /\ (n = 0 => seqs = << >>)
  BY EmptySeq
<1>3. flat = IF n = 0 THEN seqs ELSE (CHOOSE x : Eq(x))[n]
  BY Zenon DEF FlattenSeq
<1> HIDE DEF n, flat
<1>4. step \in [(1..n) \X Seq(Nat) -> Seq(Nat)]
  <2>1. ASSUME NEW p \in (1..n) \X Seq(Nat) PROVE p[2] \o seqs[p[1]] \in Seq(Nat)
    <3>1. p[2] \in Seq(Nat) /\ seqs[p[1]] \in Seq(Nat)
      BY <1>1
    <3> QED
      BY <3>1, Concatenated
  <2> QED
    BY <2>1, Zenon
<1>5. \A i \in 1..n, v \in Seq(Nat) : step[<<i, v>>] = v \o seqs[i]
  OBVIOUS
<1> HIDE DEF step
<1>6. PICK h \in [0..n -> Seq(Nat)] : Chained(h, << >>, n, step)
  BY <1>1, <1>2, <1>4, Chain, Zenon
<1>7. \A i \in 1..n : i - 1 \in 0..n /\ i \in 0..n /\ h[i - 1] \in Seq(Nat)
  BY <1>1
<1>8. h[0] = << >> /\ \A i \in 1..n : h[i] = h[i - 1] \o seqs[i]
  BY <1>5, <1>6, <1>7 DEF Chained
<1>9. Joining(seqs, h)
  BY <1>8 DEF Joining, n
<1>10. flat = h[n]
  <2>1. CASE n = 0
    BY <1>2, <1>3, <1>8, <2>1
  <2>2. CASE n # 0
    <3> DEFINE g == [i \in 1..n |-> h[i]]
    <3>1. ASSUME NEW i \in 1..n
          PROVE  g[i] = IF i = 1 THEN seqs[i] ELSE g[i - 1] \o seqs[i]
      <4>1. CASE i = 1
        <5>0. 1 \in 1..n /\ 1 - 1 = 0
          BY <4>1
        <5>1. h[1] = << >> \o seqs[1] /\ seqs[1] \in Seq(Nat)
          BY <1>1, <1>8, <5>0
        <5>2. h[1] = seqs[1]
          BY <5>1, ConcatEmptySeq
        <5> QED
          BY <4>1, <5>2
      <4>2. CASE i # 1
        <5>1. i - 1 \in 1..n
          BY <1>1, <4>2
        <5> QED
          BY <1>8, <4>2, <5>1
      <4> QED
        BY <4>1, <4>2
    <3>2. Eq(g)
      BY <3>1
    <3> HIDE DEF g
    <3> DEFINE q == CHOOSE x : Eq(x)
    <3>3. Eq(q)
      BY <3>2, Zenon
    <3> HIDE DEF q
    <3>4. \A i \in 1..n : q[i] = IF i = 1 THEN seqs[i] ELSE q[i - 1] \o seqs[i]
      BY <3>3
    <3>5. \A i \in 1..n : g[i] = IF i = 1 THEN seqs[i] ELSE g[i - 1] \o seqs[i]
      BY <3>1
    <3> DEFINE P == {i \in Nat : (1 <= i /\ i <= n) => q[i] = g[i]}
    <3>6. 0 \in P
      OBVIOUS
    <3>7. ASSUME NEW i \in Nat, i \in P PROVE i + 1 \in P
      <4> SUFFICES ASSUME i + 1 <= n PROVE q[i + 1] = g[i + 1]
        OBVIOUS
      <4>1. i + 1 \in 1..n /\ (i + 1) - 1 = i
        BY <1>1
      <4>2. CASE i = 0
        <5>1. i + 1 = 1
          BY <4>2
        <5>2. q[i + 1] = seqs[i + 1] /\ g[i + 1] = seqs[i + 1]
          BY <3>4, <3>5, <4>1, <5>1, Zenon
        <5> QED
          BY <5>2
      <4>3. CASE i # 0
        <5>1. i + 1 # 1 /\ q[i] = g[i]
          BY <1>1, <3>7, <4>3
        <5>2. q[i + 1] = q[i] \o seqs[i + 1] /\ g[i + 1] = g[i] \o seqs[i + 1]
          BY <3>4, <3>5, <4>1, <5>1, Zenon
        <5> QED
          BY <5>1, <5>2
      <4> QED
        BY <4>2, <4>3
    <3> HIDE DEF P
    <3>8. \A i \in Nat : i \in P
      BY <3>6, <3>7, AllNumbers
    <3>9. q[n] = g[n]
      <4>1. n \in P /\ 1 <= n /\ n <= n
        BY <1>1, <2>2, <3>8
      <4> QED
        BY <4>1 DEF P
    <3>10. g[n] = h[n]
      BY <1>1, <2>2 DEF g
    <3>11. flat = q[n]
      BY <1>3, <2>2, Zenon DEF q
    <3> QED
      BY <3>9, <3>10, <3>11
  <2> QED
    BY <2>1, <2>2
<1> QED
  BY <1>9, <1>10 DEF flat, n

\* FlattenSeq of one sequence.
LEMMA FlattenOne ==
    ASSUME NEW s \in Seq(Nat) PROVE FlattenSeq(<<s>>) = s
<1>1. <<s>> \in Seq(Seq(Nat)) /\ Len(<<s>>) = 1 /\ <<s>>[1] = s
  OBVIOUS
<1>2. PICK h : Joining(<<s>>, h) /\ FlattenSeq(<<s>>) = h[1]
  BY <1>1, FlattenIs
<1>3. h[1] = << >> \o s
  <2>1. 1 \in 1..1 /\ 1 - 1 = 0
    OBVIOUS
  <2>2. h[0] = << >> /\ \A i \in 1..1 : h[i] = h[i - 1] \o <<s>>[i]
    BY <1>1, <1>2, Zenon DEF Joining
  <2>3. h[1] = h[1 - 1] \o <<s>>[1]
    BY <2>1, <2>2, Zenon
  <2> QED
    BY <1>1, <2>1, <2>2, <2>3
<1> QED
  BY <1>2, <1>3, ConcatEmptySeq

\* FlattenSeq of two sequences.
LEMMA FlattenTwo ==
    ASSUME NEW s \in Seq(Nat), NEW t \in Seq(Nat)
    PROVE  FlattenSeq(<<s, t>>) = s \o t
<1> DEFINE u == <<s, t>>
<1>1. u \in Seq(Seq(Nat)) /\ Len(u) = 2 /\ u[1] = s /\ u[2] = t
  OBVIOUS
<1> HIDE DEF u
<1>2. PICK h : Joining(u, h) /\ FlattenSeq(u) = h[2]
  BY <1>1, FlattenIs
<1>3. h[0] = << >> /\ \A i \in 1..2 : h[i] = h[i - 1] \o u[i]
  BY <1>1, <1>2 DEF Joining
<1>4. h[1] = << >> \o s /\ h[2] = h[1] \o t
  <2>1. 1 \in 1..2 /\ 1 - 1 = 0 /\ 2 \in 1..2 /\ 2 - 1 = 1
    OBVIOUS
  <2>2. h[1] = h[1 - 1] \o u[1] /\ h[2] = h[2 - 1] \o u[2]
    BY <1>3, <2>1, Zenon
  <2> QED
    BY <1>1, <1>3, <2>1, <2>2
<1> QED
  BY <1>2, <1>4, ConcatEmptySeq DEF u

\* The beginning of a sequence, one longer.
LEMMA LongerBeginning ==
    ASSUME NEW s \in Seq(Nat), NEW i \in Nat, i + 1 <= Len(s)
    PROVE  /\ SubSeq(s, 1, i) \in Seq(Nat)
           /\ Append(SubSeq(s, 1, i), s[i + 1]) = SubSeq(s, 1, i + 1)
<1>1. Len(s) \in Nat /\ i + 1 \in 1..Len(s) /\ s[i + 1] \in Nat
  BY LenProperties, ElementOfSeq
<1> DEFINE a == SubSeq(s, 1, i)
           b == SubSeq(s, 1, i + 1)
           c == Append(a, s[i + 1])
<1>2. /\ a \in Seq(Nat) /\ Len(a) = i
      /\ \A j \in 1..i : a[j] = s[j]
  BY <1>1, SubSeqProperties
<1>3. /\ b \in Seq(Nat) /\ Len(b) = i + 1
      /\ \A j \in 1..(i + 1) : b[j] = s[j]
  BY <1>1, SubSeqProperties
<1> HIDE DEF a, b
<1>4. c \in Seq(Nat) /\ Len(c) = i + 1 /\ c[i + 1] = s[i + 1]
      /\ \A j \in 1..i : c[j] = a[j]
  BY <1>1, <1>2, AppendProperties
<1> HIDE DEF c
<1>5. \A j \in 1..(i + 1) : c[j] = b[j]
  <2>1. ASSUME NEW j \in 1..(i + 1) PROVE c[j] = b[j]
    <3>1. CASE j = i + 1
      BY <1>3, <1>4, <3>1
    <3>2. CASE j # i + 1
      <4>1. j \in 1..i
        BY <3>2
      <4> QED
        BY <1>2, <1>3, <1>4, <4>1
    <3> QED
      BY <3>1, <3>2
  <2> QED
    BY <2>1
<1>6. c = b
  BY <1>3, <1>4, <1>5, SeqEqual
<1> QED
  BY <1>2, <1>6 DEF a, b, c

\* The content of the OID that an agent writes.
Arcs(oid) == [i \in 1..(Len(oid) - 2) |-> ArcAs(oid[i + 2])]
OIDContent(oid) == <<oid[1] * 40 + oid[2]>> \o FlattenSeq(Arcs(oid))

\* Every OID whose second arc is below 40 is read back.
LEMMA OIDRead ==
    ASSUME NEW oid \in Seq(Arc), Len(oid) >= 2, oid[2] < 40
    PROVE  OIDContent(oid) \in Seq(Nat) /\ decodeOID(OIDContent(oid)) = oid
<1> DEFINE m == Len(oid) - 2
           seqs == Arcs(oid)
           flat == FlattenSeq(seqs)
           two == SubSeq(oid, 1, 2)
           head == oid[1] * 40 + oid[2]
           content == OIDContent(oid)
<1>0. Arc \subseteq Nat /\ oid \in Seq(Nat)
  <2>1. Arc \subseteq Nat
    BY DEF Arc
  <2> QED
    BY <2>1, SeqMonotonic
<1>1. /\ m \in Nat /\ Len(oid) = m + 2
      /\ \A i \in 1..(m + 2) : oid[i] \in Arc /\ oid[i] \in Nat
  BY <1>0, LenProperties, ElementOfSeq
<1>2. oid[1] \in Nat /\ oid[2] \in Nat
  BY <1>1
<1>3. seqs = [i \in 1..m |-> ArcAs(oid[i + 2])]
  BY DEF Arcs
<1>4. content = <<head>> \o flat
  BY Zenon DEF OIDContent
<1> HIDE DEF m, seqs, content
<1>5. ASSUME NEW i \in 1..m
      PROVE  /\ oid[i + 2] \in Arc /\ seqs[i] = ArcAs(oid[i + 2])
             /\ seqs[i] \in Seq(Nat)
  <2>1. oid[i + 2] \in Arc
    BY <1>1
  <2>2. ArcAs(oid[i + 2]) \in Seq(Nat)
    BY <2>1, ArcRead, EmptySeq
  <2> QED
    BY <1>3, <2>1, <2>2
<1>6. seqs \in Seq(Seq(Nat)) /\ Len(seqs) = m
  <2>1. \A i \in 1..m : ArcAs(oid[i + 2]) \in Seq(Nat)
    BY <1>5
  <2> QED
    BY <1>1, <1>3, <2>1
<1>7. PICK h \in [0..m -> Seq(Nat)] : Joining(seqs, h) /\ flat = h[m]
  BY <1>6, FlattenIs
<1>8. h[0] = << >> /\ \A i \in 1..m : h[i] = h[i - 1] \o seqs[i]
  BY <1>6, <1>7, Zenon DEF Joining
<1> HIDE DEF flat
<1>9. two \in Seq(Nat) /\ two = <<oid[1], oid[2]>>
  <2>1. 2 <= Len(oid)
    BY <1>1
  <2>2. two \in Seq(Nat) /\ Len(two) = 2 /\ two[1] = oid[1] /\ two[2] = oid[2]
    BY <2>1, <1>0, <1>1, SubSeqProperties
  <2> HIDE DEF two
  <2> DEFINE w == <<oid[1], oid[2]>>
  <2>3. w \in Seq(Nat) /\ Len(w) = 2 /\ w[1] = oid[1] /\ w[2] = oid[2]
    BY <1>2
  <2> HIDE DEF w
  <2>4. \A i \in 1..2 : two[i] = w[i]
    <3>1. \A i \in 1..2 : i = 1 \/ i = 2
      OBVIOUS
    <3> QED
      BY <2>2, <2>3, <3>1
  <2>5. two = w
    BY <2>2, <2>3, <2>4, SeqEqual
  <2> QED
    BY <2>2, <2>5 DEF w
<1> DEFINE first == Reader(two, 0)
           Done(i) == ReadsTo(h[i], first, Reader(SubSeq(oid, 1, 2 + i), 0))
           P == {i \in Nat : i <= m => Done(i)}
<1> HIDE DEF first
<1>10. Done(0)
  <2>1. ReadsTo(<< >>, first, first)
    BY ReadsNothing
  <2>2. 2 + 0 = 2
    OBVIOUS
  <2> QED
    BY <1>8, <2>1, <2>2, Zenon DEF first
<1>11. ASSUME NEW i \in Nat, i + 1 <= m, Done(i) PROVE Done(i + 1)
  <2> DEFINE arc == oid[(2 + i) + 1]
             arcs == SubSeq(oid, 1, 2 + i)
  <2>1. /\ i + 1 \in 1..m /\ (i + 1) - 1 = i /\ (i + 1) + 2 = (2 + i) + 1
        /\ 2 + i \in Nat /\ (2 + i) + 1 <= Len(oid) /\ 2 + (i + 1) = (2 + i) + 1
        /\ i \in 0..m
    BY <1>1, <1>11
  <2>2. arc \in Arc /\ seqs[i + 1] = ArcAs(arc) /\ seqs[i + 1] \in Seq(Nat)
    BY <1>5, <2>1
  <2>3. h[i + 1] = h[i] \o seqs[i + 1] /\ h[i] \in Seq(Nat)
    BY <1>7, <1>8, <2>1
  <2>4. arcs \in Seq(Nat) /\ Append(arcs, arc) = SubSeq(oid, 1, (2 + i) + 1)
    BY <1>0, <2>1, LongerBeginning
  <2> HIDE DEF arc, arcs
  <2>5. ReadsTo(ArcAs(arc), Reader(arcs, 0), Reader(Append(arcs, arc), 0))
    BY <2>2, <2>4, ArcRead
  <2>6. ReadsTo(h[i], first, Reader(arcs, 0))
    BY <1>11, Zenon DEF arcs
  <2>7. ReadsTo(seqs[i + 1], Reader(arcs, 0), Reader(Append(arcs, arc), 0))
    BY <2>2, <2>5, Zenon
  <2>8. ReadsTo(h[i] \o seqs[i + 1], first, Reader(Append(arcs, arc), 0))
    BY <2>2, <2>3, <2>6, <2>7, ReadsOn
  <2> QED
    BY <2>1, <2>3, <2>4, <2>8, Zenon
<1> HIDE DEF Done
<1>12. 0 \in P
  BY <1>10
<1>13. ASSUME NEW i \in Nat, i \in P PROVE i + 1 \in P
  BY <1>1, <1>11, <1>13
<1> HIDE DEF P
<1>14. \A i \in Nat : i \in P
  BY <1>12, <1>13, AllNumbers
<1>15. Done(m)
  BY <1>1, <1>14 DEF P
<1>16. SubSeq(oid, 1, 2 + m) = oid
  <2> DEFINE b == SubSeq(oid, 1, 2 + m)
  <2>1. b \in Seq(Nat) /\ Len(b) = m + 2 /\ \A j \in 1..(m + 2) : b[j] = oid[j]
    BY <1>0, <1>1, SubSeqProperties
  <2> HIDE DEF b
  <2>2. b = oid
    BY <1>0, <1>1, <2>1, SeqEqual
  <2> QED
    BY <2>2 DEF b
<1>17. flat \in Seq(Nat) /\ ReadsTo(flat, first, Reader(oid, 0))
  <2>1. h[m] \in Seq(Nat)
    BY <1>1, <1>7
  <2> QED
    BY <1>7, <1>15, <1>16, <2>1, Zenon DEF Done
<1>18. first \in Accumulators
  <2>1. Reader(two, 0) \in Accumulators
    BY <1>9 DEF Reader, Accumulators
  <2> QED
    BY <2>1 DEF first
<1>19. FoldLeft(WithByte, first, flat) = Reader(oid, 0)
  BY <1>17, <1>18, ReadsFold
<1>20. /\ head \in Nat /\ head \div 40 = oid[1] /\ head % 40 = oid[2]
  <2>1. PICK x \in Nat : x = oid[1]
    BY <1>2
  <2>2. PICK y \in 0..39 : y = oid[2]
    <3>1. PICK y \in Nat : y = oid[2]
      BY <1>2
    <3>2. y < 40
      BY <3>1
    <3>3. y \in 0..39
      BY <3>2
    <3> QED
      BY <3>1, <3>3
  <2>3. /\ x * 40 + y \in Nat /\ (x * 40 + y) \div 40 = x
        /\ (x * 40 + y) % 40 = y
    OBVIOUS
  <2> QED
    BY <2>1, <2>2, <2>3
<1> HIDE DEF head
<1>21. /\ content \in Seq(Nat) /\ content # << >> /\ content[1] = head
       /\ Tail(content) = flat
  <2>1. /\ <<head>> \in Seq(Nat) /\ Len(<<head>>) = 1 /\ Len(<<head>>) # 0
        /\ <<head>>[1] = head
    BY <1>20, OneElement
  <2>2. /\ content \in Seq(Nat) /\ content # << >> /\ content[1] = head
    BY <1>4, <1>17, <2>1, FirstOf
  <2>3. Tail(<<head>> \o flat) = flat
    BY <1>17, <1>20, AfterFirst
  <2> QED
    BY <1>4, <2>2, <2>3
<1>22. decodeOID(content) =
          FoldLeft(WithByte, [arcs |-> <<content[1] \div 40, content[1] % 40>>,
                              current |-> 0], Tail(content)).arcs
  BY <1>21, Zenon DEF decodeOID
<1>23. [arcs |-> <<content[1] \div 40, content[1] % 40>>, current |-> 0] = first
  BY <1>9, <1>20, <1>21, Zenon DEF first, Reader
<1>24. decodeOID(content) = Reader(oid, 0).arcs
  BY <1>19, <1>21, <1>22, <1>23, Zenon
<1>25. Reader(oid, 0).arcs = oid
  BY DEF Reader
<1> QED
  BY <1>21, <1>24, <1>25 DEF content
----------------------------------------------------------------------------
(* Triples one after the other.                                            *)

\* The bytes s are a tag and a content, whatever follows them.
Holds(s, tag, content) ==
    /\ s \in Seq(Nat)
    /\ \A rest \in Seq(Nat) :
          /\ s \o rest \in Seq(Nat) /\ s \o rest # << >>
          /\ decodeTLV(s \o rest) = Triple(tag, content, Len(s))
          /\ From(s \o rest, Len(s) + 1) = rest

\* Bytes whose number an int holds.
Countable(s) == s \in Seq(Nat) /\ Len(s) < 128 * TopByte

\* If an int holds the length of a triple, it holds that of its content.
LEMMA InTriple ==
    ASSUME NEW form \in Nat, NEW tag \in Nat, NEW content \in Seq(Nat)
    PROVE  /\ TripleAs(form, tag, content) \in Seq(Nat)
           /\ Countable(TripleAs(form, tag, content)) => Countable(content)
<1> DEFINE n == Len(content)
           L == LengthAs(form, n)
           t == TripleAs(form, tag, content)
<1>1. n \in Nat
  BY LenProperties
<1>2. t = <<tag>> \o L \o content
  BY Zenon DEF TripleAs
<1> HIDE DEF n, t
<1>3. L \in Seq(Nat) /\ Len(L) \in Nat \ {0}
  BY <1>1, LengthWritten
<1> HIDE DEF L
<1>4. <<tag>> \in Seq(Nat) /\ Len(<<tag>>) = 1
  BY OneElement
<1>5. <<tag>> \o L \in Seq(Nat) /\ Len(<<tag>> \o L) = 1 + Len(L)
  BY <1>3, <1>4, Concatenated
<1>6. t \in Seq(Nat) /\ Len(t) = 1 + Len(L) + n
  BY <1>2, <1>5, Concatenated DEF n
<1>7. Countable(t) => Countable(content)
  BY <1>1, <1>3, <1>6, BerAssumption DEF Countable, n
<1> QED
  BY <1>6, <1>7 DEF t

\* And of what it is put together from.
LEMMA InBoth ==
    ASSUME NEW s \in Seq(Nat), NEW t \in Seq(Nat)
    PROVE  /\ s \o t \in Seq(Nat)
           /\ Countable(s \o t) => Countable(s) /\ Countable(t)
<1>1. Len(s) \in Nat /\ Len(t) \in Nat
  BY LenProperties
<1>2. s \o t \in Seq(Nat) /\ Len(s \o t) = Len(s) + Len(t)
  BY Concatenated
<1>3. Countable(s \o t) => Countable(s) /\ Countable(t)
  BY <1>1, <1>2, BerAssumption DEF Countable
<1> QED
  BY <1>2, <1>3

\* A triple holds its tag and content, if an int holds its length.
LEMMA TripleHolds ==
    ASSUME NEW form \in Nat, NEW tag \in Nat, NEW content \in Seq(Nat),
           Countable(TripleAs(form, tag, content))
    PROVE  Holds(TripleAs(form, tag, content), tag, content)
<1> DEFINE t == TripleAs(form, tag, content)
<1>0. Len(content) < 128 * TopByte
  BY InTriple DEF Countable
<1>1. t \in Seq(Nat)
  BY InTriple
<1>2. ASSUME NEW rest \in Seq(Nat)
      PROVE  /\ t \o rest \in Seq(Nat) /\ t \o rest # << >>
             /\ decodeTLV(t \o rest) = Triple(tag, content, Len(t))
             /\ From(t \o rest, Len(t) + 1) = rest
  BY <1>0, TripleRead
<1> HIDE DEF t
<1>3. Holds(t, tag, content)
  BY <1>1, <1>2 DEF Holds
<1> QED
  BY <1>3 DEF t

\* No bytes behind a sequence.
LEMMA NothingAfter ==
    ASSUME NEW s \in Seq(Nat) PROVE s \o << >> = s /\ << >> \in Seq(Nat)
OBVIOUS

\* The triples read so far, and what is left to read.
ReadOk(got, rest) == [ok |-> TRUE, got |-> got, rest |-> rest]

NextTriple(before) ==
    LET t == decodeTLV(before.rest) IN
    IF ~before.ok \/ ~t.ok THEN Malformed
    ELSE ReadOk(Append(before.got, t), From(before.rest, t.consumed + 1))

\* A triple is taken off the front, and the rest is left.
LEMMA TripleTaken ==
    ASSUME NEW s, NEW tag, NEW content, Holds(s, tag, content),
           NEW got, NEW rest \in Seq(Nat)
    PROVE  NextTriple(ReadOk(got, s \o rest)) =
              ReadOk(Append(got, Triple(tag, content, Len(s))), rest)
<1> DEFINE data == s \o rest
           t == Triple(tag, content, Len(s))
           before == ReadOk(got, data)
<1>1. decodeTLV(data) = t /\ From(data, Len(s) + 1) = rest
  BY Zenon DEF Holds
<1>2. t.ok = TRUE /\ t.consumed = Len(s)
  BY DEF Triple
<1>3. before.ok = TRUE /\ before.got = got /\ before.rest = data
  BY DEF ReadOk
<1> HIDE DEF data, t, before
<1>4. NextTriple(before) =
         IF ~before.ok \/ ~decodeTLV(before.rest).ok THEN Malformed
         ELSE ReadOk(Append(before.got, decodeTLV(before.rest)),
                     From(before.rest, decodeTLV(before.rest).consumed + 1))
  BY Zenon DEF NextTriple
<1>5. NextTriple(before) = ReadOk(Append(got, t), rest)
  BY <1>1, <1>2, <1>3, <1>4, Zenon
<1> QED
  BY <1>5 DEF before, data, t

\* Triples is the chain its definition speaks of.
LEMMA TriplesAre ==
    ASSUME NEW data, NEW n \in Nat
    PROVE  \E f : /\ f[0] = ReadOk(<< >>, data)
                  /\ \A i \in 1..n : f[i] = NextTriple(f[i - 1])
                  /\ Triples(data, n) = f[n]
<1> DEFINE first == ReadOk(<< >>, data)
           Eq(q) == q = [i \in 0..n |->
                           IF i = 0
                           THEN [ok |-> TRUE, got |-> << >>, rest |-> data]
                           ELSE LET before == q[i - 1]
                                    t == decodeTLV(before.rest) IN
                                IF ~before.ok \/ ~t.ok THEN Malformed
                                ELSE [ok |-> TRUE, got |-> Append(before.got, t),
                                      rest |-> From(before.rest, t.consumed + 1)]]
           Upto(q) == q = [i \in 0..n |-> IF i = 0 THEN first
                                          ELSE NextTriple(q[i - 1])]
           Made(m, f) == f[0] = first /\ \A i \in 1..m : f[i] = NextTriple(f[i - 1])
           P == {m \in Nat : \E f : Made(m, f)}
<1>1. ASSUME NEW q PROVE Eq(q) <=> Upto(q)
  BY Zenon DEF NextTriple, ReadOk
<1>2. Triples(data, n) = (CHOOSE q : Eq(q))[n]
  BY Zenon DEF Triples
<1> HIDE DEF Eq, first
<1>3. 0 \in P
  <2> DEFINE f == [i \in 0..0 |-> first]
  <2>1. f[0] = first /\ 1..0 = {}
    OBVIOUS
  <2> HIDE DEF f
  <2>2. Made(0, f)
    BY <2>1
  <2> QED
    BY <2>2
<1>4. ASSUME NEW m \in Nat, m \in P PROVE m + 1 \in P
  <2>1. PICK f : Made(m, f)
    BY <1>4
  <2> DEFINE g == [i \in 0..(m + 1) |-> IF i <= m THEN f[i] ELSE NextTriple(f[m])]
  <2>2. g[0] = first
    BY <2>1
  <2>3. ASSUME NEW i \in 1..(m + 1) PROVE g[i] = NextTriple(g[i - 1])
    <3>1. i \in 0..(m + 1) /\ i - 1 \in 0..(m + 1) /\ i - 1 <= m
      OBVIOUS
    <3>2. CASE i <= m
      <4>1. i \in 1..m
        BY <3>2
      <4> QED
        BY <2>1, <3>1, <3>2, <4>1
    <3>3. CASE ~(i <= m)
      <4>1. i - 1 = m
        BY <3>3
      <4> QED
        BY <3>1, <3>3, <4>1
    <3> QED
      BY <3>2, <3>3
  <2> HIDE DEF g
  <2>4. Made(m + 1, g)
    BY <2>2, <2>3
  <2> HIDE DEF Made
  <2> QED
    BY <2>4
<1> HIDE DEF P
<1>5. n \in P
  BY <1>3, <1>4, AllNumbers
<1>6. PICK f : Made(n, f)
  BY <1>5 DEF P
<1> DEFINE g == [i \in 0..n |-> f[i]]
<1>7. Upto(g)
  <2>1. ASSUME NEW i \in 0..n
        PROVE  g[i] = IF i = 0 THEN first ELSE NextTriple(g[i - 1])
    <3>1. CASE i = 0
      BY <1>6, <3>1
    <3>2. CASE i # 0
      <4>1. i \in 1..n /\ i - 1 \in 0..n
        BY <3>2
      <4> QED
        BY <1>6, <3>2, <4>1
    <3> QED
      BY <3>1, <3>2
  <2>2. g = [i \in 0..n |-> g[i]]
    OBVIOUS
  <2> QED
    BY <2>1, <2>2
<1> HIDE DEF g
<1> DEFINE q == CHOOSE x : Eq(x)
<1>8. Eq(q)
  BY <1>1, <1>7, Zenon
<1>9. Triples(data, n) = q[n]
  BY <1>2
<1> HIDE DEF q, Upto
<1>10. Upto(q)
  BY <1>1, <1>8
<1>11. q[0] = first /\ \A i \in 1..n : q[i] = NextTriple(q[i - 1])
  <2>1. \A i \in 0..n : q[i] = IF i = 0 THEN first ELSE NextTriple(q[i - 1])
    BY <1>10 DEF Upto
  <2>2. 0 \in 0..n /\ \A i \in 1..n : i \in 0..n /\ i # 0
    OBVIOUS
  <2> QED
    BY <2>1, <2>2, Zenon
<1> QED
  BY <1>9, <1>11 DEF first

\* A sequence with one element more.
LEMMA Added ==
    ASSUME NEW S, NEW s \in Seq(S), NEW x \in S, NEW t \in Seq(S),
           Len(t) = Len(s) + 1, t[Len(s) + 1] = x,
           \A i \in 1..Len(s) : t[i] = s[i]
    PROVE  Append(s, x) = t
<1> DEFINE a == Append(s, x)
<1>1. /\ a \in Seq(S) /\ Len(a) = Len(s) + 1 /\ a[Len(s) + 1] = x
      /\ \A i \in 1..Len(s) : a[i] = s[i]
  BY AppendProperties
<1> HIDE DEF a
<1>2. \A i \in 1..(Len(s) + 1) : a[i] = t[i]
  <2>1. \A i \in 1..(Len(s) + 1) : i \in 1..Len(s) \/ i = Len(s) + 1
    BY LenProperties
  <2> QED
    BY <1>1, <2>1
<1>3. a = t
  BY <1>1, <1>2, SeqEqual
<1> QED
  BY <1>3 DEF a

\* The tuples that the triples taken make, up to four.
LEMMA AddedFirst == ASSUME NEW a PROVE Append(<< >>, a) = <<a>>
OBVIOUS

LEMMA AddedSecond ==
    ASSUME NEW a, NEW b PROVE Append(<<a>>, b) = <<a, b>>
<1> DEFINE S == {a, b}
           s == <<a>>
           t == <<a, b>>
<1>1. s \in Seq(S) /\ b \in S /\ t \in Seq(S)
  OBVIOUS
<1>2. /\ Len(s) = 1 /\ Len(t) = 2 /\ t[2] = b
      /\ t[1] = s[1]
  OBVIOUS
<1> HIDE DEF S, s, t
<1>3. \A i \in 1..1 : t[i] = s[i]
  <2>1. \A i \in 1..1 : i = 1
    OBVIOUS
  <2> QED
    BY <1>2, <2>1
<1>4. 2 = 1 + 1
  OBVIOUS
<1>5. Append(s, b) = t
  BY <1>1, <1>2, <1>3, <1>4, Added
<1> QED
  BY <1>5 DEF s, t

LEMMA AddedThird ==
    ASSUME NEW a, NEW b, NEW c PROVE Append(<<a, b>>, c) = <<a, b, c>>
<1> DEFINE S == {a, b, c}
           s == <<a, b>>
           t == <<a, b, c>>
<1>1. s \in Seq(S) /\ c \in S /\ t \in Seq(S)
  OBVIOUS
<1>2. /\ Len(s) = 2 /\ Len(t) = 3 /\ t[3] = c
      /\ t[1] = s[1] /\ t[2] = s[2]
  OBVIOUS
<1> HIDE DEF S, s, t
<1>3. \A i \in 1..2 : t[i] = s[i]
  <2>1. \A i \in 1..2 : i = 1 \/ i = 2
    OBVIOUS
  <2> QED
    BY <1>2, <2>1
<1>4. 3 = 2 + 1
  OBVIOUS
<1>5. Append(s, c) = t
  BY <1>1, <1>2, <1>3, <1>4, Added
<1> QED
  BY <1>5 DEF s, t

LEMMA AddedFourth ==
    ASSUME NEW a, NEW b, NEW c, NEW d PROVE Append(<<a, b, c>>, d) = <<a, b, c, d>>
<1> DEFINE S == {a, b, c, d}
           s == <<a, b, c>>
           t == <<a, b, c, d>>
<1>1. s \in Seq(S) /\ d \in S /\ t \in Seq(S)
  OBVIOUS
<1>2. /\ Len(s) = 3 /\ Len(t) = 4 /\ t[4] = d
      /\ t[1] = s[1] /\ t[2] = s[2] /\ t[3] = s[3]
  OBVIOUS
<1> HIDE DEF S, s, t
<1>3. \A i \in 1..3 : t[i] = s[i]
  <2>1. \A i \in 1..3 : i = 1 \/ i = 2 \/ i = 3
    OBVIOUS
  <2> QED
    BY <1>2, <2>1
<1>4. 4 = 3 + 1
  OBVIOUS
<1>5. Append(s, d) = t
  BY <1>1, <1>2, <1>3, <1>4, Added
<1> QED
  BY <1>5 DEF s, t

\* Two triples one after the other are read as they are.
LEMMA TwoTriples ==
    ASSUME NEW s1, NEW tag1, NEW content1, Holds(s1, tag1, content1),
           NEW s2, NEW tag2, NEW content2, Holds(s2, tag2, content2)
    PROVE  /\ s1 \o s2 \in Seq(Nat)
           /\ \E n1, n2 : Triples(s1 \o s2, 2) =
                 ReadOk(<<Triple(tag1, content1, n1),
                          Triple(tag2, content2, n2)>>,
                        << >>)
<1> DEFINE data == s1 \o s2
           t1 == Triple(tag1, content1, Len(s1))
           t2 == Triple(tag2, content2, Len(s2))
<1>1. s1 \in Seq(Nat) /\ s2 \in Seq(Nat)
  BY DEF Holds
<1>2. data \in Seq(Nat) /\ data = s1 \o s2
  BY <1>1, Concatenated
<1>3. s2 \o << >> = s2 /\ << >> \in Seq(Nat)
  BY <1>1, NothingAfter
<1>4. PICK f : /\ f[0] = ReadOk(<< >>, data)
               /\ \A i \in 1..2 : f[i] = NextTriple(f[i - 1])
               /\ Triples(data, 2) = f[2]
  BY TriplesAre, ZenonT(60)
<1>5. /\ f[1] = NextTriple(f[0])
      /\ f[2] = NextTriple(f[1])
  <2>1. /\ 1 \in 1..2 /\ 1 - 1 = 0
        /\ 2 \in 1..2 /\ 2 - 1 = 1
    OBVIOUS
  <2> QED
    BY <1>4, <2>1
<1> HIDE DEF data, t1, t2
<1>6. f[1] = ReadOk(<<t1>>, s2)
  <2>1. f[0] = ReadOk(<< >>, s1 \o s2)
    BY <1>2, <1>3, <1>4, Zenon
  <2>2. NextTriple(ReadOk(<< >>, s1 \o s2)) =
           ReadOk(Append(<< >>, t1), s2)
    BY <1>1, TripleTaken, Zenon DEF t1
  <2> QED
    BY <1>5, <2>1, <2>2, AddedFirst, Zenon
<1>7. f[2] = ReadOk(<<t1, t2>>, << >>)
  <2>1. f[1] = ReadOk(<<t1>>, s2 \o << >>)
    BY <1>2, <1>3, <1>4, <1>6, Zenon
  <2>2. NextTriple(ReadOk(<<t1>>, s2 \o << >>)) =
           ReadOk(Append(<<t1>>, t2), << >>)
    BY <1>3, TripleTaken, Zenon DEF t2
  <2> QED
    BY <1>5, <2>1, <2>2, AddedSecond, Zenon
<1> QED
  BY <1>2, <1>4, <1>7, Zenon DEF data, t1, t2

\* The data is read as so many triples.
IsThree(data, tag1, content1, tag2, content2, tag3, content3) ==
    /\ data \in Seq(Nat)
    /\ \E n1, n2, n3 : Triples(data, 3) =
          ReadOk(<<Triple(tag1, content1, n1), Triple(tag2, content2, n2),
                   Triple(tag3, content3, n3)>>, << >>)
IsFour(data, tag1, content1, tag2, content2, tag3, content3, tag4, content4) ==
    /\ data \in Seq(Nat)
    /\ \E n1, n2, n3, n4 : Triples(data, 4) =
          ReadOk(<<Triple(tag1, content1, n1), Triple(tag2, content2, n2),
                   Triple(tag3, content3, n3), Triple(tag4, content4, n4)>>, << >>)

\* Three are, too.
LEMMA ThreeTriples ==
    ASSUME NEW s1, NEW tag1, NEW content1, Holds(s1, tag1, content1),
           NEW s2, NEW tag2, NEW content2, Holds(s2, tag2, content2),
           NEW s3, NEW tag3, NEW content3, Holds(s3, tag3, content3)
    PROVE  IsThree(s1 \o s2 \o s3, tag1, content1, tag2, content2,
                   tag3, content3)
<1> DEFINE data == s1 \o s2 \o s3
           t1 == Triple(tag1, content1, Len(s1))
           t2 == Triple(tag2, content2, Len(s2))
           t3 == Triple(tag3, content3, Len(s3))
<1>1. s1 \in Seq(Nat) /\ s2 \in Seq(Nat) /\ s3 \in Seq(Nat)
  BY DEF Holds
<1>2. s2 \o s3 \in Seq(Nat) /\ data \in Seq(Nat) /\ data = s1 \o (s2 \o s3)
  BY <1>1, Concatenated, Associative
<1>3. s3 \o << >> = s3 /\ << >> \in Seq(Nat)
  BY <1>1, NothingAfter
<1>4. PICK f : /\ f[0] = ReadOk(<< >>, data)
               /\ \A i \in 1..3 : f[i] = NextTriple(f[i - 1])
               /\ Triples(data, 3) = f[3]
  BY TriplesAre, ZenonT(60)
<1>5. /\ f[1] = NextTriple(f[0])
      /\ f[2] = NextTriple(f[1])
      /\ f[3] = NextTriple(f[2])
  <2>1. /\ 1 \in 1..3 /\ 1 - 1 = 0
        /\ 2 \in 1..3 /\ 2 - 1 = 1
        /\ 3 \in 1..3 /\ 3 - 1 = 2
    OBVIOUS
  <2> QED
    BY <1>4, <2>1
<1> HIDE DEF data, t1, t2, t3
<1>6. f[1] = ReadOk(<<t1>>, s2 \o s3)
  <2>1. f[0] = ReadOk(<< >>, s1 \o (s2 \o s3))
    BY <1>2, <1>3, <1>4, Zenon
  <2>2. NextTriple(ReadOk(<< >>, s1 \o (s2 \o s3))) =
           ReadOk(Append(<< >>, t1), s2 \o s3)
    BY <1>2, TripleTaken, Zenon DEF t1
  <2> QED
    BY <1>5, <2>1, <2>2, AddedFirst, Zenon
<1>7. f[2] = ReadOk(<<t1, t2>>, s3)
  <2>1. f[1] = ReadOk(<<t1>>, s2 \o s3)
    BY <1>2, <1>3, <1>4, <1>6, Zenon
  <2>2. NextTriple(ReadOk(<<t1>>, s2 \o s3)) =
           ReadOk(Append(<<t1>>, t2), s3)
    BY <1>1, TripleTaken, Zenon DEF t2
  <2> QED
    BY <1>5, <2>1, <2>2, AddedSecond, Zenon
<1>8. f[3] = ReadOk(<<t1, t2, t3>>, << >>)
  <2>1. f[2] = ReadOk(<<t1, t2>>, s3 \o << >>)
    BY <1>2, <1>3, <1>4, <1>7, Zenon
  <2>2. NextTriple(ReadOk(<<t1, t2>>, s3 \o << >>)) =
           ReadOk(Append(<<t1, t2>>, t3), << >>)
    BY <1>3, TripleTaken, Zenon DEF t3
  <2> QED
    BY <1>5, <2>1, <2>2, AddedThird, Zenon
<1>9. \E n1, n2, n3 : Triples(s1 \o s2 \o s3, 3) =
         ReadOk(<<Triple(tag1, content1, n1),
               Triple(tag2, content2, n2),
               Triple(tag3, content3, n3)>>, << >>)
  BY <1>2, <1>4, <1>8, Zenon DEF data, t1, t2, t3
<1> QED
  BY <1>2, <1>9, Zenon DEF IsThree, data

\* And four.
LEMMA FourTriples ==
    ASSUME NEW s1, NEW tag1, NEW content1, Holds(s1, tag1, content1),
           NEW s2, NEW tag2, NEW content2, Holds(s2, tag2, content2),
           NEW s3, NEW tag3, NEW content3, Holds(s3, tag3, content3),
           NEW s4, NEW tag4, NEW content4, Holds(s4, tag4, content4)
    PROVE  IsFour(s1 \o s2 \o s3 \o s4, tag1, content1, tag2, content2,
                  tag3, content3, tag4, content4)
<1> DEFINE data == s1 \o s2 \o s3 \o s4
           t1 == Triple(tag1, content1, Len(s1))
           t2 == Triple(tag2, content2, Len(s2))
           t3 == Triple(tag3, content3, Len(s3))
           t4 == Triple(tag4, content4, Len(s4))
<1>1. s1 \in Seq(Nat) /\ s2 \in Seq(Nat) /\ s3 \in Seq(Nat) /\ s4 \in Seq(Nat)
  BY DEF Holds
<1>2. /\ s3 \o s4 \in Seq(Nat) /\ s2 \o (s3 \o s4) \in Seq(Nat)
      /\ data \in Seq(Nat) /\ data = s1 \o (s2 \o (s3 \o s4))
  <2>1. s3 \o s4 \in Seq(Nat) /\ s1 \o s2 \in Seq(Nat)
    BY <1>1, Concatenated
  <2>2. s2 \o (s3 \o s4) \in Seq(Nat) /\ (s1 \o s2) \o s3 \in Seq(Nat)
    BY <1>1, <2>1, Concatenated
  <2>3. data \in Seq(Nat)
    BY <1>1, <2>2, Concatenated
  <2>4. data = (s1 \o s2) \o (s3 \o s4)
    BY <1>1, <2>1, Associative, ZenonT(60)
  <2>5. (s1 \o s2) \o (s3 \o s4) = s1 \o (s2 \o (s3 \o s4))
    BY <1>1, <2>1, Associative, ZenonT(60)
  <2> QED
    BY <2>1, <2>2, <2>3, <2>4, <2>5, Zenon
<1>3. s4 \o << >> = s4 /\ << >> \in Seq(Nat)
  BY <1>1, NothingAfter
<1>4. PICK f : /\ f[0] = ReadOk(<< >>, data)
               /\ \A i \in 1..4 : f[i] = NextTriple(f[i - 1])
               /\ Triples(data, 4) = f[4]
  BY TriplesAre, ZenonT(60)
<1>5. /\ f[1] = NextTriple(f[0])
      /\ f[2] = NextTriple(f[1])
      /\ f[3] = NextTriple(f[2])
      /\ f[4] = NextTriple(f[3])
  <2>1. /\ 1 \in 1..4 /\ 1 - 1 = 0
        /\ 2 \in 1..4 /\ 2 - 1 = 1
        /\ 3 \in 1..4 /\ 3 - 1 = 2
        /\ 4 \in 1..4 /\ 4 - 1 = 3
    OBVIOUS
  <2> QED
    BY <1>4, <2>1
<1> HIDE DEF data, t1, t2, t3, t4
<1>6. f[1] = ReadOk(<<t1>>, s2 \o (s3 \o s4))
  <2>1. f[0] = ReadOk(<< >>, s1 \o (s2 \o (s3 \o s4)))
    BY <1>2, <1>3, <1>4, Zenon
  <2>2. NextTriple(ReadOk(<< >>, s1 \o (s2 \o (s3 \o s4)))) =
           ReadOk(Append(<< >>, t1), s2 \o (s3 \o s4))
    BY <1>2, TripleTaken, Zenon DEF t1
  <2> QED
    BY <1>5, <2>1, <2>2, AddedFirst, Zenon
<1>7. f[2] = ReadOk(<<t1, t2>>, s3 \o s4)
  <2>1. f[1] = ReadOk(<<t1>>, s2 \o (s3 \o s4))
    BY <1>2, <1>3, <1>4, <1>6, Zenon
  <2>2. NextTriple(ReadOk(<<t1>>, s2 \o (s3 \o s4))) =
           ReadOk(Append(<<t1>>, t2), s3 \o s4)
    BY <1>2, TripleTaken, Zenon DEF t2
  <2> QED
    BY <1>5, <2>1, <2>2, AddedSecond, Zenon
<1>8. f[3] = ReadOk(<<t1, t2, t3>>, s4)
  <2>1. f[2] = ReadOk(<<t1, t2>>, s3 \o s4)
    BY <1>2, <1>3, <1>4, <1>7, Zenon
  <2>2. NextTriple(ReadOk(<<t1, t2>>, s3 \o s4)) =
           ReadOk(Append(<<t1, t2>>, t3), s4)
    BY <1>1, TripleTaken, Zenon DEF t3
  <2> QED
    BY <1>5, <2>1, <2>2, AddedThird, Zenon
<1>9. f[4] = ReadOk(<<t1, t2, t3, t4>>, << >>)
  <2>1. f[3] = ReadOk(<<t1, t2, t3>>, s4 \o << >>)
    BY <1>2, <1>3, <1>4, <1>8, Zenon
  <2>2. NextTriple(ReadOk(<<t1, t2, t3>>, s4 \o << >>)) =
           ReadOk(Append(<<t1, t2, t3>>, t4), << >>)
    BY <1>3, TripleTaken, Zenon DEF t4
  <2> QED
    BY <1>5, <2>1, <2>2, AddedFourth, Zenon
<1>10. \E n1, n2, n3, n4 : Triples(s1 \o s2 \o s3 \o s4, 4) =
         ReadOk(<<Triple(tag1, content1, n1),
               Triple(tag2, content2, n2),
               Triple(tag3, content3, n3),
               Triple(tag4, content4, n4)>>, << >>)
  BY <1>2, <1>4, <1>9, Zenon DEF data, t1, t2, t3, t4
<1> QED
  BY <1>2, <1>10, Zenon DEF IsFour, data

NumberTags == {tagInteger, tagCounter32, tagTimeTicks}
OtherTags == {tagOctetStr, tagNull, tagEndOfMibView}

\* What can be said in a varbind, and how it is to be read.
Sayable(vb) ==
    /\ vb.oid \in Seq(Arc) /\ Len(vb.oid) >= 2 /\ vb.oid[2] < 40
    /\ \/ vb.tag \in NumberTags /\ vb.n \in Numbers
       \/ vb.tag \in OtherTags /\ vb.n \in Nat
IsSaid(value, vb) ==
    /\ value.int = IF vb.tag \in NumberTags THEN vb.n ELSE 0
    /\ value.kind = "end-of-mib-view" <=> vb.tag = tagEndOfMibView

\* The tags as numbers.
LEMMA TagNumbers ==
    /\ tagInteger = 2 /\ tagOctetStr = 4 /\ tagNull = 5 /\ tagOID = 6
    /\ tagSequence = 48 /\ tagCounter32 = 65 /\ tagGauge32 = 66
    /\ tagTimeTicks = 67 /\ tagCounter64 = 70 /\ tagNoSuchObject = 128
    /\ tagNoSuchInstance = 129 /\ tagEndOfMibView = 130 /\ tagGetResponse = 162
BY DEF tagInteger, tagOctetStr, tagNull, tagOID, tagSequence, tagCounter32,
       tagGauge32, tagTimeTicks, tagCounter64, tagNoSuchObject,
       tagNoSuchInstance, tagEndOfMibView, tagGetResponse

\* The tags whose values are numbers.
LEMMA NumericTags ==
    /\ DOMAIN Numeric = {2, 65, 66, 67, 70}
    /\ Numeric[2] = "int" /\ Numeric[65] = "counter" /\ Numeric[67] = "ticks"
BY TagNumbers DEF Numeric

\* A number of any of its tags.
LEMMA NumberRead ==
    ASSUME NEW form \in Nat, NEW tag \in NumberTags, NEW n \in Numbers
    PROVE  /\ IntegerAs(form, tag, n) \in Seq(Nat)
           /\ Countable(IntegerAs(form, tag, n)) =>
                 \E content : /\ Holds(IntegerAs(form, tag, n), tag, content)
                              /\ decodeInteger(content) = n
<1> DEFINE content == Fixed(n, K, Fewest(n, K, -128))
<1>1. decodeInteger(content) = n /\ content \in Seq(Nat)
  BY IntegerRead DEF Numbers
<1>2. IntegerAs(form, tag, n) = TripleAs(form, tag, content)
  BY Zenon DEF IntegerAs
<1>3. tag \in Nat
  BY TagNumbers DEF NumberTags
<1> HIDE DEF content
<1>4. IntegerAs(form, tag, n) \in Seq(Nat)
  BY <1>1, <1>2, <1>3, InTriple
<1>5. Countable(IntegerAs(form, tag, n))
         => Holds(IntegerAs(form, tag, n), tag, content)
  BY <1>1, <1>2, <1>3, TripleHolds
<1> QED
  BY <1>1, <1>4, <1>5

\* A value in any form is read as the number it has, and its kind as that of
\* its tag.
LEMMA ValueRead ==
    ASSUME NEW form \in Nat, NEW vb, Sayable(vb)
    PROVE  /\ ValueAs(form, vb) \in Seq(Nat)
           /\ Countable(ValueAs(form, vb)) =>
                 \E content :
                    /\ Holds(ValueAs(form, vb), vb.tag, content)
                    /\ \A n : IsSaid(decodeValue(Triple(vb.tag, content, n)), vb)
<1> DEFINE tag == vb.tag
<1> HIDE DEF tag
<1>1. CASE tag \in NumberTags
  <2>1. vb.n \in Numbers
    BY <1>1, TagNumbers DEF Sayable, NumberTags, OtherTags, tag
  <2>2. ValueAs(form, vb) = IntegerAs(form, tag, vb.n)
    BY <1>1, Zenon DEF ValueAs, NumberTags, tag
  <2>3. ValueAs(form, vb) \in Seq(Nat)
    BY <1>1, <2>1, <2>2, NumberRead
  <2>4. ASSUME Countable(ValueAs(form, vb))
        PROVE  \E content :
                  /\ Holds(ValueAs(form, vb), vb.tag, content)
                  /\ \A n : IsSaid(decodeValue(Triple(vb.tag, content, n)), vb)
    <3>1. Countable(IntegerAs(form, tag, vb.n))
      BY <2>2, <2>4
    <3>2. PICK content : /\ Holds(IntegerAs(form, tag, vb.n), tag, content)
                         /\ decodeInteger(content) = vb.n
      BY <1>1, <2>1, <3>1, NumberRead
    <3>3. ASSUME NEW n PROVE IsSaid(decodeValue(Triple(tag, content, n)), vb)
      <4> DEFINE t == Triple(tag, content, n)
                 value == decodeValue(t)
      <4>1. t.tag = tag /\ t.content = content
        BY DEF Triple
      <4>2. tag \in {2, 65, 67} /\ tag # tagEndOfMibView
        BY <1>1, TagNumbers DEF NumberTags
      <4>3. tag \in DOMAIN Numeric /\ Numeric[tag] # "end-of-mib-view"
        BY <4>2, NumericTags
      <4> HIDE DEF t
      <4>4. value = [kind |-> Numeric[tag], int |-> decodeInteger(content)]
        BY <4>1, <4>3, Zenon DEF decodeValue
      <4> HIDE DEF value
      <4>5. value.int = vb.n /\ value.kind # "end-of-mib-view"
        BY <3>2, <4>3, <4>4
      <4>6. IsSaid(value, vb)
        BY <1>1, <4>2, <4>5, Zenon DEF IsSaid, tag
      <4> QED
        BY <4>6 DEF value, t
    <3> QED
      BY <2>2, <3>2, <3>3, Zenon DEF tag
  <2> QED
    BY <2>3, <2>4
<1>2. CASE tag \notin NumberTags
  <2>1. tag \in OtherTags /\ vb.n \in Nat
    BY <1>2 DEF Sayable, tag
  <2>2. tag \in {4, 5, 130} /\ tag \in Nat
    BY <2>1, TagNumbers DEF OtherTags
  <2> DEFINE content == [i \in 1..vb.n |-> 65]
  <2>3. content \in Seq(Nat)
    BY <2>1
  <2>4. ValueAs(form, vb) = TripleAs(form, tag, content)
    BY <1>2, Zenon DEF ValueAs, NumberTags, tag
  <2> HIDE DEF content
  <2>5. /\ ValueAs(form, vb) \in Seq(Nat)
        /\ Countable(ValueAs(form, vb)) => Holds(ValueAs(form, vb), tag, content)
    <3>1. ValueAs(form, vb) \in Seq(Nat)
      BY <2>2, <2>3, <2>4, InTriple
    <3>2. Countable(ValueAs(form, vb)) => Holds(ValueAs(form, vb), tag, content)
      BY <2>2, <2>3, <2>4, TripleHolds
    <3> QED
      BY <3>1, <3>2
  <2>6. ASSUME NEW n PROVE IsSaid(decodeValue(Triple(tag, content, n)), vb)
    <3> DEFINE t == Triple(tag, content, n)
               value == decodeValue(t)
               kind == CASE t.tag = tagOctetStr -> "string"
                         [] t.tag = tagOID -> "oid"
                         [] t.tag = tagNoSuchObject -> "no-such-object"
                         [] t.tag = tagNoSuchInstance -> "no-such-instance"
                         [] t.tag = tagEndOfMibView -> "end-of-mib-view"
                         [] OTHER -> "null"
    <3>1. t.tag = tag
      BY DEF Triple
    <3>2. tag \notin DOMAIN Numeric
      BY <2>2, NumericTags
    <3> HIDE DEF t
    <3>3. kind = "end-of-mib-view" <=> tag = 130
      BY <2>2, <3>1, TagNumbers
    <3> HIDE DEF kind
    <3>4. value = [int |-> 0, kind |-> kind]
      BY <3>1, <3>2, Zenon DEF decodeValue, kind
    <3> HIDE DEF value
    <3>5. value.int = 0 /\ value.kind = kind
      BY <3>4
    <3>6. IsSaid(value, vb)
      BY <1>2, <3>3, <3>5, TagNumbers, Zenon DEF IsSaid, tag
    <3> QED
      BY <3>6 DEF value, t
  <2> QED
    BY <2>5, <2>6, Zenon DEF tag
<1> QED
  BY <1>1, <1>2

\* The varbind of an agent.
VarBindAs(form, vb) ==
    TripleAs(form, tagSequence, OIDAs(form, vb.oid) \o ValueAs(form, vb))

\* A varbind is read as its name and value.
LEMMA VarBindRead ==
    ASSUME NEW form \in Nat, NEW vb, Sayable(vb)
    PROVE  /\ VarBindAs(form, vb) \in Seq(Nat)
           /\ Countable(VarBindAs(form, vb)) =>
                 \E content, t1, t2 :
                    /\ Holds(VarBindAs(form, vb), tagSequence, content)
                    /\ Triples(content, 2) = ReadOk(<<t1, t2>>, << >>)
                    /\ decodeOID(t1.content) = vb.oid
                    /\ IsSaid(decodeValue(t2), vb)
<1> DEFINE oid == OIDAs(form, vb.oid)
           said == ValueAs(form, vb)
           content == oid \o said
<1>1. OIDContent(vb.oid) \in Seq(Nat) /\ decodeOID(OIDContent(vb.oid)) = vb.oid
  BY OIDRead DEF Sayable
<1>2. oid = TripleAs(form, tagOID, OIDContent(vb.oid))
  BY Zenon DEF OIDAs, OIDContent, Arcs
<1>3. tagOID \in Nat /\ tagSequence \in Nat
  BY TagNumbers
<1>4. oid \in Seq(Nat) /\ said \in Seq(Nat)
  BY <1>1, <1>2, <1>3, InTriple, ValueRead
<1>5. VarBindAs(form, vb) = TripleAs(form, tagSequence, content)
  BY Zenon DEF VarBindAs
<1> HIDE DEF oid, said
<1>6. content \in Seq(Nat) /\ Countable(content) => Countable(oid) /\ Countable(said)
  BY <1>4, InBoth
<1>7. content \in Seq(Nat)
  BY <1>4, InBoth
<1> HIDE DEF content
<1>8. VarBindAs(form, vb) \in Seq(Nat)
  BY <1>3, <1>5, <1>7, InTriple
<1>9. ASSUME Countable(VarBindAs(form, vb))
      PROVE  \E c, t1, t2 :
                /\ Holds(VarBindAs(form, vb), tagSequence, c)
                /\ Triples(c, 2) = ReadOk(<<t1, t2>>, << >>)
                /\ decodeOID(t1.content) = vb.oid
                /\ IsSaid(decodeValue(t2), vb)
  <2>1. Countable(oid) /\ Countable(said)
    <3>1. Countable(content)
      BY <1>3, <1>5, <1>7, <1>9, InTriple
    <3> QED
      BY <1>6, <1>7, <3>1
  <2>2. Holds(oid, tagOID, OIDContent(vb.oid))
    BY <1>1, <1>2, <1>3, <2>1, TripleHolds
  <2>3. PICK c : /\ Holds(said, vb.tag, c)
                 /\ \A n : IsSaid(decodeValue(Triple(vb.tag, c, n)), vb)
    BY <2>1, ValueRead DEF said
  <2>4. \E n1, n2 : Triples(content, 2) =
            ReadOk(<<Triple(tagOID, OIDContent(vb.oid), n1), Triple(vb.tag, c, n2)>>,
                   << >>)
    BY <2>2, <2>3, TwoTriples DEF content
  <2>5. PICK n1, n2 : Triples(content, 2) =
            ReadOk(<<Triple(tagOID, OIDContent(vb.oid), n1), Triple(vb.tag, c, n2)>>,
                   << >>)
    BY <2>4
  <2>6. Holds(VarBindAs(form, vb), tagSequence, content)
    BY <1>3, <1>5, <1>7, <1>9, TripleHolds
  <2> DEFINE t1 == Triple(tagOID, OIDContent(vb.oid), n1)
             t2 == Triple(vb.tag, c, n2)
  <2>7. decodeOID(t1.content) = vb.oid
    <3>1. t1.content = OIDContent(vb.oid)
      BY DEF Triple
    <3> HIDE DEF t1
    <3> QED
      BY <1>1, <3>1, Zenon
  <2>8. IsSaid(decodeValue(t2), vb)
    BY <2>3, Zenon
  <2> HIDE DEF t1, t2
  <2>9. Triples(content, 2) = ReadOk(<<t1, t2>>, << >>)
    BY <2>5, Zenon DEF t1, t2
  <2> QED
    BY <2>6, <2>7, <2>8, <2>9, Zenon
<1> QED
  BY <1>8, <1>9, Zenon
----------------------------------------------------------------------------
(* All of the varbinds: each reading leaves less to read.                  *)

\* The length of a long form is a number, negative if it overflows.
LEMMA FoldTyped ==
    ASSUME NEW bytes \in Seq(Nat) PROVE FoldLeft(ShiftedIn, 0, bytes) \in Int
<1> DEFINE n == Len(bytes)
           fold == FoldLeft(ShiftedIn, 0, bytes)
<1>1. n \in Nat /\ \A i \in 1..n : bytes[i] \in Int
  BY LenProperties, ElementOfSeq
<1>2. bytes \in Seq(Int) /\ 0 \in Int
  BY SeqMonotonic
<1>3. PICK acc : /\ acc[0] = 0
                 /\ \A i \in 1..n : acc[i] = ShiftedIn(acc[i - 1], bytes[i])
                 /\ fold = acc[n]
  BY <1>2, ShiftFold
<1> HIDE DEF n, fold
<1> DEFINE P == {i \in Nat : i <= n => acc[i] \in Int}
<1>4. 0 \in P
  BY <1>3
<1>5. ASSUME NEW i \in Nat, i \in P PROVE i + 1 \in P
  <2> SUFFICES ASSUME i + 1 <= n PROVE acc[i + 1] \in Int
    OBVIOUS
  <2>1. acc[i] \in Int /\ i + 1 \in 1..n /\ (i + 1) - 1 = i
    BY <1>1, <1>5
  <2>2. acc[i + 1] = ShiftedIn(acc[i], bytes[i + 1]) /\ bytes[i + 1] \in Int
    BY <1>1, <1>3, <2>1
  <2> QED
    BY <2>1, <2>2, ShiftTyped
<1> HIDE DEF P
<1>6. \A i \in Nat : i \in P
  BY <1>4, <1>5, AllNumbers
<1>7. acc[n] \in Int
  BY <1>1, <1>6 DEF P
<1> QED
  BY <1>3, <1>7 DEF fold

\* A length that can be read is a number, from one byte or more.
LEMMA LengthTyped ==
    ASSUME NEW data \in Seq(Nat), decodeLength(data).ok
    PROVE  /\ decodeLength(data).length \in Int
           /\ decodeLength(data).consumed \in Nat \ {0}
<1> DEFINE size == decodeLength(data)
           n == data[1] - 128
           bytes == SubSeq(data, 2, 1 + n)
           fold == FoldLeft(ShiftedIn, 0, bytes)
<1>1. Len(data) \in Nat /\ \A i \in 1..Len(data) : data[i] \in Nat
  BY LenProperties, ElementOfSeq
<1>2. Malformed.ok = FALSE
  BY DEF Malformed
<1>3. data # << >> /\ data[1] \in Nat
  <2>1. data # << >>
    <3>1. data = << >> => size = Malformed
      BY Zenon DEF decodeLength
    <3> QED
      BY <1>2, <3>1
  <2>2. 1 \in 1..Len(data)
    BY <1>1, <2>1, EmptySeq
  <2> QED
    BY <1>1, <2>1, <2>2
<1>4. CASE data[1] < 128
  <2>1. size = [ok |-> TRUE, length |-> data[1], consumed |-> 1]
    BY <1>3, <1>4, Zenon DEF decodeLength
  <2> HIDE DEF size
  <2>2. size.length = data[1] /\ size.consumed = 1
    BY <2>1
  <2> QED
    BY <1>3, <2>2 DEF size
<1>5. CASE ~(data[1] < 128)
  <2>1. size = IF n = 0 \/ Len(data) < 1 + n THEN Malformed
               ELSE [ok |-> TRUE, consumed |-> 1 + n, length |-> fold]
    BY <1>3, <1>5, Zenon DEF decodeLength
  <2>2. n \in Nat
    BY <1>3, <1>5
  <2> HIDE DEF n
  <2>3. ~(n = 0 \/ Len(data) < 1 + n)
    BY <1>2, <2>1
  <2>4. bytes \in Seq(Nat)
    <3>1. \A i \in 2..(1 + n) : data[i] \in Nat
      BY <1>1, <2>2, <2>3
    <3> QED
      BY <2>2, <3>1, SubSeqProperties
  <2> HIDE DEF bytes
  <2>5. fold \in Int
    BY <2>4, FoldTyped
  <2> HIDE DEF fold, size
  <2>6. size.length = fold /\ size.consumed = 1 + n
    BY <2>1, <2>3
  <2> QED
    BY <2>2, <2>5, <2>6 DEF size
<1> QED
  BY <1>4, <1>5

\* What is left after a triple.
After(data) == From(data, decodeTLV(data).consumed + 1)

\* Behind a triple that can be read there is less than with it: parseVarbinds
\* ends.
LEMMA LessIsLeft ==
    ASSUME NEW data \in Seq(Nat), decodeTLV(data).ok
    PROVE  After(data) \in Seq(Nat) /\ Len(After(data)) < Len(data)
<1> DEFINE t == decodeTLV(data)
           size == decodeLength(Tail(data))
           start == 1 + size.consumed
           end == start + size.length
<1>1. Len(data) \in Nat /\ \A i \in 1..Len(data) : data[i] \in Nat
  BY LenProperties, ElementOfSeq
<1>2. Malformed.ok = FALSE
  BY DEF Malformed
<1>3. ~(Len(data) < 2)
  <2>1. Len(data) < 2 => t = Malformed
    BY Zenon DEF decodeTLV
  <2> QED
    BY <1>2, <2>1
<1>4. t = IF ~size.ok \/ size.length < 0 \/ Len(data) < end THEN Malformed
          ELSE [ok |-> TRUE, tag |-> data[1], consumed |-> end,
                content |-> SubSeq(data, start + 1, end)]
  BY <1>3, Zenon DEF decodeTLV
<1>5. Tail(data) \in Seq(Nat)
  <2>1. data # << >>
    BY <1>1, <1>3, EmptySeq
  <2> QED
    BY <2>1, HeadTailProperties
<1> HIDE DEF size, t
<1>6. size.ok /\ ~(size.length < 0) /\ ~(Len(data) < end)
  BY <1>2, <1>4 DEF t
<1>7. size.length \in Nat /\ size.consumed \in Nat \ {0}
  <2>1. size.length \in Int /\ size.consumed \in Nat \ {0}
    BY <1>5, <1>6, LengthTyped DEF size
  <2> QED
    BY <1>6, <2>1
<1>8. end \in Nat /\ end > 0 /\ end <= Len(data)
  BY <1>1, <1>6, <1>7
<1> HIDE DEF end
<1>9. t.consumed = end
  BY <1>4, <1>6
<1> DEFINE rest == SubSeq(data, end + 1, Len(data))
<1>10. rest \in Seq(Nat) /\ Len(rest) < Len(data)
  <2>1. \A i \in (end + 1)..Len(data) : data[i] \in Nat
    BY <1>1, <1>8
  <2>2. /\ rest \in Seq(Nat)
        /\ Len(rest) = IF end + 1 <= Len(data) THEN Len(data) - (end + 1) + 1 ELSE 0
    BY <1>1, <1>8, <2>1, SubSeqProperties
  <2> HIDE DEF rest
  <2> QED
    BY <1>1, <1>8, <2>2
<1>11. After(data) = rest
  BY <1>9, Zenon DEF After, From, t
<1> QED
  BY <1>10, <1>11

\* parseVarbinds' recursion, from what f makes of the rest.
ParseStep(f, rest) ==
    IF rest = << >> THEN [ok |-> TRUE, results |-> << >>]
    ELSE LET vb == decodeTLV(rest)
             pair == Triples(vb.content, 2)
             others == f[From(rest, vb.consumed + 1)] IN
         IF ~vb.ok \/ ~pair.ok \/ ~others.ok THEN Malformed
         ELSE LET oid == decodeOID(pair.got[1].content) IN
              [ok |-> TRUE,
               results |-> Unless(others.results, oid, decodeValue(pair.got[2]))]

\* A step of parseVarbinds asks only about less data than it has.
LEMMA StepLooksBelow ==
    ASSUME NEW f, NEW g, NEW rest \in Seq(Nat),
           \A t \in Seq(Nat) : Len(t) < Len(rest) => f[t] = g[t]
    PROVE  ParseStep(f, rest) = ParseStep(g, rest)
<1>1. CASE rest = << >>
  BY <1>1, Zenon DEF ParseStep
<1>2. CASE rest # << >> /\ ~decodeTLV(rest).ok
  <2>1. ParseStep(f, rest) = Malformed
    BY <1>2, Zenon DEF ParseStep
  <2>2. ParseStep(g, rest) = Malformed
    BY <1>2, Zenon DEF ParseStep
  <2> QED
    BY <2>1, <2>2
<1>3. CASE rest # << >> /\ decodeTLV(rest).ok
  <2>1. After(rest) \in Seq(Nat) /\ Len(After(rest)) < Len(rest)
    BY <1>3, LessIsLeft
  <2>2. f[After(rest)] = g[After(rest)]
    BY <2>1
  <2>3. f[From(rest, decodeTLV(rest).consumed + 1)]
           = g[From(rest, decodeTLV(rest).consumed + 1)]
    BY <2>2, Zenon DEF After
  <2> QED
    BY <2>3, Zenon DEF ParseStep
<1> QED
  BY <1>1, <1>2, <1>3

\* f parses what is shorter than n.
Parses(f, n) == \A s \in Seq(Nat) : Len(s) < n => f[s] = ParseStep(f, s)

\* There is a function that does its steps on all data below any length.
LEMMA ParsersExist == \A n \in Nat : \E f : Parses(f, n)
<1> DEFINE P == {n \in Nat : \E f : Parses(f, n)}
<1>1. 0 \in P
  <2> DEFINE f == [s \in Seq(Nat) |-> 0]
  <2>1. Parses(f, 0)
    BY LenProperties DEF Parses
  <2> QED
    BY <2>1
<1>2. ASSUME NEW n \in Nat, n \in P PROVE n + 1 \in P
  <2>1. PICK f : Parses(f, n)
    BY <1>2
  <2> DEFINE g == [s \in Seq(Nat) |-> IF Len(s) < n THEN f[s] ELSE ParseStep(f, s)]
  <2>2. ASSUME NEW s \in Seq(Nat), Len(s) < n + 1 PROVE g[s] = ParseStep(g, s)
    <3>1. Len(s) \in Nat
      BY LenProperties
    <3>2. ASSUME NEW t \in Seq(Nat), Len(t) < Len(s) PROVE f[t] = g[t]
      <4>1. Len(t) \in Nat
        BY LenProperties
      <4>2. Len(t) < n
        BY <2>2, <3>1, <3>2, <4>1
      <4> QED
        BY <4>2
    <3> HIDE DEF g
    <3>3. ParseStep(f, s) = ParseStep(g, s)
      BY <3>2, StepLooksBelow
    <3>4. CASE Len(s) < n
      <4>1. f[s] = ParseStep(f, s)
        BY <2>1, <3>4 DEF Parses
      <4>2. g[s] = f[s]
        BY <3>4 DEF g
      <4> QED
        BY <3>3, <4>1, <4>2
    <3>5. CASE ~(Len(s) < n)
      <4>1. g[s] = ParseStep(f, s)
        BY <3>5, Zenon DEF g
      <4> QED
        BY <3>3, <4>1
    <3> QED
      BY <3>4, <3>5
  <2> HIDE DEF g
  <2>3. Parses(g, n + 1)
    BY <2>2 DEF Parses
  <2> QED
    BY <2>3
<1> HIDE DEF P
<1>3. \A n \in Nat : n \in P
  BY <1>1, <1>2, AllNumbers
<1> QED
  BY <1>3 DEF P

\* And there is but one.
LEMMA ParsersAgree ==
    ASSUME NEW f, NEW g, NEW n \in Nat, Parses(f, n), Parses(g, n)
    PROVE  \A s \in Seq(Nat) : Len(s) < n => f[s] = g[s]
<1> DEFINE P == {m \in Nat : \A s \in Seq(Nat) : Len(s) < m /\ Len(s) < n
                                                   => f[s] = g[s]}
<1>1. 0 \in P
  BY LenProperties
<1>2. ASSUME NEW m \in Nat, m \in P PROVE m + 1 \in P
  <2>1. ASSUME NEW s \in Seq(Nat), Len(s) < m + 1, Len(s) < n PROVE f[s] = g[s]
    <3>1. Len(s) \in Nat
      BY LenProperties
    <3>2. ASSUME NEW t \in Seq(Nat), Len(t) < Len(s) PROVE f[t] = g[t]
      <4>1. Len(t) \in Nat
        BY LenProperties
      <4>2. Len(t) < m /\ Len(t) < n
        BY <2>1, <3>1, <3>2, <4>1
      <4> QED
        BY <1>2, <4>2
    <3>3. ParseStep(f, s) = ParseStep(g, s)
      BY <3>2, StepLooksBelow
    <3>4. f[s] = ParseStep(f, s) /\ g[s] = ParseStep(g, s)
      BY <2>1 DEF Parses
    <3> QED
      BY <3>3, <3>4
  <2> QED
    BY <2>1
<1> HIDE DEF P
<1>3. \A m \in Nat : m \in P
  BY <1>1, <1>2, AllNumbers
<1> QED
  BY <1>3 DEF P

\* So there is one for everything, and it is the code's.
LEMMA ParseIs ==
    \E f : /\ \A s \in Seq(Nat) : f[s] = ParseStep(f, s)
           /\ \A data : parseVarbinds(data) = f[data]
<1> DEFINE F(n) == CHOOSE f : Parses(f, n)
           all == [s \in Seq(Nat) |-> F(Len(s) + 1)[s]]
           Eq(f) == f = [rest \in Seq(Nat) |->
                           IF rest = << >> THEN [ok |-> TRUE, results |-> << >>]
                           ELSE LET vb == decodeTLV(rest)
                                    pair == Triples(vb.content, 2)
                                    others == f[From(rest, vb.consumed + 1)] IN
                                IF ~vb.ok \/ ~pair.ok \/ ~others.ok THEN Malformed
                                ELSE LET oid == decodeOID(pair.got[1].content) IN
                                     [ok |-> TRUE,
                                      results |-> Unless(others.results, oid,
                                                         decodeValue(pair.got[2]))]]
           Whole(f) == f = [rest \in Seq(Nat) |-> ParseStep(f, rest)]
           parse == CHOOSE f : Eq(f)
<1>1. ASSUME NEW f PROVE Eq(f) <=> Whole(f)
  BY Zenon DEF ParseStep
<1>2. \A data : parseVarbinds(data) = parse[data]
  BY Zenon DEF parseVarbinds
<1> HIDE DEF Eq
<1>3. \A n \in Nat : Parses(F(n), n)
  BY ParsersExist, Zenon
<1> HIDE DEF F
<1>4. ASSUME NEW s \in Seq(Nat) PROVE all[s] = ParseStep(all, s)
  <2> DEFINE n == Len(s)
             f == F(n + 1)
  <2>1. n \in Nat /\ n + 1 \in Nat /\ n < n + 1
    BY LenProperties
  <2>2. Parses(f, n + 1)
    BY <1>3, <2>1
  <2>3. ASSUME NEW t \in Seq(Nat), Len(t) < n PROVE f[t] = all[t]
    <3> DEFINE m == Len(t)
               g == F(m + 1)
    <3>1. m \in Nat /\ m + 1 \in Nat /\ m < m + 1
      BY LenProperties
    <3>2. Parses(g, m + 1)
      BY <1>3, <3>1
    <3>3. Parses(f, m + 1)
      <4>1. \A u \in Seq(Nat) : Len(u) < m + 1 => Len(u) < n + 1
        BY <2>1, <2>3, <3>1, LenProperties
      <4> HIDE DEF f, n, m
      <4> QED
        BY <2>2, <4>1 DEF Parses
    <3>4. all[t] = g[t]
      OBVIOUS
    <3> HIDE DEF f, g, all
    <3>5. f[t] = g[t]
      BY <3>1, <3>2, <3>3, ParsersAgree
    <3> QED
      BY <3>4, <3>5
  <2>4. all[s] = f[s]
    OBVIOUS
  <2>5. f[s] = ParseStep(f, s)
    BY <2>1, <2>2 DEF Parses
  <2> HIDE DEF f, all
  <2>6. ParseStep(f, s) = ParseStep(all, s)
    BY <2>3, StepLooksBelow
  <2> QED
    BY <2>4, <2>5, <2>6
<1>5. Whole(all)
  <2>1. all = [s \in Seq(Nat) |-> all[s]]
    OBVIOUS
  <2> QED
    BY <1>4, <2>1
<1> HIDE DEF all, Whole
<1>6. Eq(parse)
  <2>1. Eq(all)
    BY <1>1, <1>5
  <2> QED
    BY <2>1, Zenon
<1> HIDE DEF parse
<1>7. Whole(parse)
  BY <1>1, <1>6
<1>8. \A s \in Seq(Nat) : parse[s] = ParseStep(parse, s)
  BY <1>7, Zenon DEF Whole
<1> QED
  BY <1>2, <1>8, Zenon
----------------------------------------------------------------------------
(* The varbinds of a reply.                                                *)

Answer(results) == [ok |-> TRUE, results |-> results]

\* No varbinds.
LEMMA NothingParsed == parseVarbinds(<< >>) = Answer(<< >>)
<1>1. PICK f : /\ \A s \in Seq(Nat) : f[s] = ParseStep(f, s)
               /\ \A data : parseVarbinds(data) = f[data]
  BY ParseIs
<1>2. << >> \in Seq(Nat)
  BY EmptySeq
<1>3. ParseStep(f, << >>) = Answer(<< >>)
  BY Zenon DEF ParseStep, Answer
<1> QED
  BY <1>1, <1>2, <1>3, Zenon

\* A varbind before others.
LEMMA FirstParsed ==
    ASSUME NEW form \in Nat, NEW vb, Sayable(vb), NEW rest \in Seq(Nat),
           NEW others, parseVarbinds(rest) = Answer(others),
           Countable(VarBindAs(form, vb))
    PROVE  /\ VarBindAs(form, vb) \in Seq(Nat)
           /\ VarBindAs(form, vb) \o rest \in Seq(Nat)
           /\ \E value :
                 /\ IsSaid(value, vb)
                 /\ parseVarbinds(VarBindAs(form, vb) \o rest) =
                       Answer(Unless(others, vb.oid, value))
<1> DEFINE s == VarBindAs(form, vb)
           data == s \o rest
<1>1. PICK f : /\ \A d \in Seq(Nat) : f[d] = ParseStep(f, d)
               /\ \A d : parseVarbinds(d) = f[d]
  BY ParseIs
<1>2. PICK content, t1, t2 :
         /\ Holds(s, tagSequence, content)
         /\ Triples(content, 2) = ReadOk(<<t1, t2>>, << >>)
         /\ decodeOID(t1.content) = vb.oid
         /\ IsSaid(decodeValue(t2), vb)
  BY VarBindRead, Zenon
<1> HIDE DEF s
<1>3. /\ s \in Seq(Nat) /\ data \in Seq(Nat) /\ data # << >>
      /\ decodeTLV(data) = Triple(tagSequence, content, Len(s))
      /\ From(data, Len(s) + 1) = rest
  BY <1>2, Zenon DEF Holds
<1> HIDE DEF data
<1> DEFINE t == Triple(tagSequence, content, Len(s))
           pair == ReadOk(<<t1, t2>>, << >>)
<1>4. t.ok = TRUE /\ t.content = content /\ t.consumed = Len(s)
  BY DEF Triple
<1>5. pair.ok = TRUE /\ pair.got[1] = t1 /\ pair.got[2] = t2
  BY DEF ReadOk
<1>6. f[rest] = Answer(others)
  BY <1>1, Zenon
<1>7. Answer(others).ok = TRUE /\ Answer(others).results = others
  BY DEF Answer
<1> HIDE DEF t, pair
<1>8. /\ decodeTLV(data) = t /\ Triples(content, 2) = pair
      /\ From(data, t.consumed + 1) = rest
  BY <1>2, <1>3, <1>4, Zenon DEF t, pair
<1>9. ParseStep(f, data) =
         IF ~t.ok \/ ~pair.ok \/ ~f[rest].ok THEN Malformed
         ELSE Answer(Unless(f[rest].results, decodeOID(pair.got[1].content),
                            decodeValue(pair.got[2])))
  BY <1>3, <1>4, <1>8, Zenon DEF ParseStep, Answer
<1>10. ParseStep(f, data) = Answer(Unless(others, vb.oid, decodeValue(t2)))
  BY <1>2, <1>4, <1>5, <1>6, <1>7, <1>9, Zenon
<1>11. parseVarbinds(data) = Answer(Unless(others, vb.oid, decodeValue(t2)))
  BY <1>1, <1>3, <1>10, Zenon
<1> QED
  BY <1>2, <1>3, <1>11, Zenon DEF data, s

Tells(results, varbinds) ==
    /\ DOMAIN results = {varbinds[i].oid : i \in DOMAIN varbinds}
    /\ \A i \in DOMAIN varbinds : IsSaid(results[varbinds[i].oid], varbinds[i])

\* A varbind behind which there are none.
LEMMA LastParsed ==
    ASSUME NEW form \in Nat, NEW vb, Sayable(vb), Countable(VarBindAs(form, vb))
    PROVE  /\ VarBindAs(form, vb) \in Seq(Nat)
           /\ \E value : /\ IsSaid(value, vb)
                         /\ parseVarbinds(VarBindAs(form, vb)) =
                               Answer(Unless(<< >>, vb.oid, value))
<1> DEFINE none == << >>
           s == VarBindAs(form, vb)
<1>1. none \in Seq(Nat) /\ parseVarbinds(none) = Answer(none)
  BY EmptySeq, NothingParsed
<1> HIDE DEF none
<1>2. /\ s \in Seq(Nat)
      /\ \E value : /\ IsSaid(value, vb)
                    /\ parseVarbinds(s \o none) = Answer(Unless(none, vb.oid, value))
  BY <1>1, FirstParsed
<1> HIDE DEF s
<1>3. s \o none = s
  BY <1>2, NothingAfter DEF none
<1>4. \E value : /\ IsSaid(value, vb)
                 /\ parseVarbinds(s) = Answer(Unless(none, vb.oid, value))
  BY <1>2, <1>3
<1> QED
  BY <1>2, <1>4 DEF none, s

\* A message of one varbind, and of two with different names.
LEMMA OneParsed ==
    ASSUME NEW form \in Nat, NEW vb, Sayable(vb)
    PROVE  /\ VarBindsAs(form, <<vb>>) \in Seq(Nat)
           /\ Countable(VarBindsAs(form, <<vb>>)) =>
                 \E results :
                    /\ parseVarbinds(VarBindsAs(form, <<vb>>)) = Answer(results)
                    /\ Tells(results, <<vb>>)
<1> DEFINE s == VarBindAs(form, vb)
           varbinds == <<vb>>
<1>1. s \in Seq(Nat)
  BY VarBindRead, Zenon
<1>2. Countable(s) =>
         \E value : /\ IsSaid(value, vb)
                    /\ parseVarbinds(s) = Answer(Unless(<< >>, vb.oid, value))
  BY LastParsed, Zenon
<1>3. DOMAIN varbinds = {1} /\ varbinds[1] = vb
  OBVIOUS
<1>4. VarBindsAs(form, varbinds) = FlattenSeq([i \in DOMAIN varbinds |->
                                                  VarBindAs(form, varbinds[i])])
  BY Zenon DEF VarBindsAs, VarBindAs
<1>5. [i \in DOMAIN varbinds |-> VarBindAs(form, varbinds[i])] = <<s>>
  <2>1. ASSUME NEW F, NEW d, d = F[1], F = [i \in {1} |-> F[i]] PROVE F = <<d>>
    BY <2>1
  <2> DEFINE F == [i \in DOMAIN varbinds |-> VarBindAs(form, varbinds[i])]
  <2>2. F = [i \in {1} |-> VarBindAs(form, varbinds[i])]
    BY <1>3, Zenon
  <2>3. VarBindAs(form, varbinds[1]) = s
    BY <1>3, Zenon
  <2> HIDE DEF varbinds, s, F
  <2>4. F[1] = s /\ F = [i \in {1} |-> F[i]]
    BY <2>2, <2>3
  <2>5. F = <<s>>
    BY <2>1, <2>4
  <2> QED
    BY <2>5 DEF F
<1> HIDE DEF s, varbinds
<1>6. VarBindsAs(form, varbinds) = s
  BY <1>1, <1>4, <1>5, FlattenOne
<1>7. ASSUME Countable(VarBindsAs(form, varbinds))
      PROVE  \E results :
                /\ parseVarbinds(VarBindsAs(form, varbinds)) = Answer(results)
                /\ Tells(results, varbinds)
  <2>1. PICK value : /\ IsSaid(value, vb)
                     /\ parseVarbinds(s) = Answer(Unless(<< >>, vb.oid, value))
    BY <1>2, <1>6, <1>7, Zenon
  <2> DEFINE results == Unless(<< >>, vb.oid, value)
  <2>2. DOMAIN results = {vb.oid} /\ results[vb.oid] = value
    BY DEF Unless
  <2>3. parseVarbinds(VarBindsAs(form, varbinds)) = Answer(results)
    BY <1>6, <2>1
  <2> HIDE DEF results
  <2>4. Tells(results, varbinds)
    BY <1>3, <2>1, <2>2 DEF Tells
  <2> QED
    BY <2>3, <2>4, Zenon
<1>8. VarBindsAs(form, varbinds) \in Seq(Nat)
  BY <1>1, <1>6
<1> QED
  BY <1>7, <1>8, Zenon DEF varbinds

LEMMA TwoParsed ==
    ASSUME NEW form \in Nat, NEW v, NEW w, Sayable(v), Sayable(w), v.oid # w.oid
    PROVE  /\ VarBindsAs(form, <<v, w>>) \in Seq(Nat)
           /\ Countable(VarBindsAs(form, <<v, w>>)) =>
                 \E results :
                    /\ parseVarbinds(VarBindsAs(form, <<v, w>>)) = Answer(results)
                    /\ Tells(results, <<v, w>>)
<1> DEFINE s == VarBindAs(form, v)
           t == VarBindAs(form, w)
           varbinds == <<v, w>>
<1>1. s \in Seq(Nat) /\ t \in Seq(Nat)
  BY VarBindRead, Zenon
<1>2. Countable(t) =>
         \E y : /\ IsSaid(y, w)
                /\ parseVarbinds(t) = Answer(Unless(<< >>, w.oid, y))
  BY LastParsed, Zenon
<1>3. ASSUME NEW last, Countable(s), parseVarbinds(t) = Answer(last)
      PROVE  \E x : /\ IsSaid(x, v)
                    /\ parseVarbinds(s \o t) = Answer(Unless(last, v.oid, x))
  <2> HIDE DEF t
  <2> QED
    BY <1>1, <1>3, FirstParsed
<1>4. /\ s \o t \in Seq(Nat)
      /\ Countable(s \o t) => Countable(s) /\ Countable(t)
  <2> HIDE DEF s, t
  <2> QED
    BY <1>1, InBoth
<1>5. DOMAIN varbinds = {1, 2} /\ varbinds[1] = v /\ varbinds[2] = w
  OBVIOUS
<1>6. VarBindsAs(form, varbinds) = FlattenSeq([i \in DOMAIN varbinds |->
                                                  VarBindAs(form, varbinds[i])])
  BY Zenon DEF VarBindsAs, VarBindAs
<1>7. [i \in DOMAIN varbinds |-> VarBindAs(form, varbinds[i])] = <<s, t>>
  <2>1. ASSUME NEW F, NEW d, NEW e, d = F[1], e = F[2],
               F = [i \in {1, 2} |-> F[i]]
        PROVE  F = <<d, e>>
    BY <2>1
  <2> DEFINE F == [i \in DOMAIN varbinds |-> VarBindAs(form, varbinds[i])]
  <2>2. F = [i \in {1, 2} |-> VarBindAs(form, varbinds[i])]
    BY <1>5, Zenon
  <2>3. VarBindAs(form, varbinds[1]) = s /\ VarBindAs(form, varbinds[2]) = t
    BY <1>5, Zenon
  <2> HIDE DEF varbinds, s, t, F
  <2>4. F[1] = s /\ F[2] = t /\ F = [i \in {1, 2} |-> F[i]]
    BY <2>2, <2>3
  <2>5. F = <<s, t>>
    BY <2>1, <2>4
  <2> QED
    BY <2>5 DEF F
<1> HIDE DEF s, t, varbinds
<1>8. VarBindsAs(form, varbinds) = s \o t
  BY <1>1, <1>6, <1>7, FlattenTwo
<1>9. ASSUME Countable(VarBindsAs(form, varbinds))
      PROVE  \E results :
                /\ parseVarbinds(VarBindsAs(form, varbinds)) = Answer(results)
                /\ Tells(results, varbinds)
  <2>1. Countable(s) /\ Countable(t)
    BY <1>4, <1>8, <1>9
  <2>2. PICK y : /\ IsSaid(y, w)
                 /\ parseVarbinds(t) = Answer(Unless(<< >>, w.oid, y))
    BY <1>2, <2>1
  <2> DEFINE last == Unless(<< >>, w.oid, y)
  <2>3. DOMAIN last = {w.oid} /\ last[w.oid] = y
    BY DEF Unless
  <2>4. parseVarbinds(t) = Answer(last)
    BY <2>2
  <2> HIDE DEF last
  <2>5. PICK x : /\ IsSaid(x, v)
                 /\ parseVarbinds(s \o t) = Answer(Unless(last, v.oid, x))
    BY <1>3, <2>1, <2>4
  <2> DEFINE results == Unless(last, v.oid, x)
  <2>6. /\ DOMAIN results = {v.oid, w.oid}
        /\ results[v.oid] = x /\ results[w.oid] = y
    <3>1. v.oid \notin DOMAIN last /\ w.oid \in DOMAIN last
      BY <2>3
    <3> QED
      BY <2>3, <3>1 DEF Unless
  <2>7. parseVarbinds(VarBindsAs(form, varbinds)) = Answer(results)
    BY <1>8, <2>5
  <2> HIDE DEF results
  <2>8. Tells(results, varbinds)
    <3>1. {varbinds[i].oid : i \in {1, 2}} = {v.oid, w.oid}
      BY <1>5
    <3>2. \A i \in {1, 2} : IsSaid(results[varbinds[i].oid], varbinds[i])
      BY <1>5, <2>2, <2>5, <2>6
    <3> QED
      BY <1>5, <2>6, <3>1, <3>2 DEF Tells
  <2> QED
    BY <2>7, <2>8, Zenon
<1>10. VarBindsAs(form, varbinds) \in Seq(Nat)
  BY <1>4, <1>8
<1> QED
  BY <1>9, <1>10, Zenon DEF varbinds
----------------------------------------------------------------------------
(* A response.                                                             *)

\* The version, the error index and the statuses are numbers of an int64.
LEMMA SmallNumbers == 0 \in Numbers /\ 1 \in Numbers /\ 5 \in Numbers
<1>1. PICK t \in Nat \ {0} : t = TopByte
  BY BerAssumption
<1>2. /\ 0 \in (-128 * t)..(128 * t - 1) /\ 1 \in (-128 * t)..(128 * t - 1)
      /\ 5 \in (-128 * t)..(128 * t - 1)
  OBVIOUS
<1> QED
  BY <1>1, <1>2 DEF Numbers

\* The community is a sequence of numbers.
LEMMA CommunityTyped == Community \in Seq(Nat)
<1>1. Byte \subseteq Nat
  BY DEF Byte
<1> QED
  BY <1>1, MessageAssumption, SeqMonotonic

\* The client takes the varbinds out of a message, unless it says there was an
\* error.
LEMMA ResponseRead ==
    ASSUME NEW form \in Nat, NEW id \in Numbers, NEW status \in Numbers,
           NEW varbinds, VarBindsAs(form, varbinds) \in Seq(Nat),
           Len(MessageAs(form, tagGetResponse, id, status, varbinds))
              < 128 * TopByte
    PROVE  /\ Countable(VarBindsAs(form, varbinds))
           /\ parseResponse(MessageAs(form, tagGetResponse, id, status, varbinds)) =
                 IF status # 0 THEN Malformed
                 ELSE parseVarbinds(VarBindsAs(form, varbinds))
<1> DEFINE all == VarBindsAs(form, varbinds)
           a1 == IntegerAs(form, tagInteger, 1)
           a2 == TripleAs(form, tagOctetStr, Community)
           b1 == IntegerAs(form, tagInteger, id)
           b2 == IntegerAs(form, tagInteger, status)
           b3 == IntegerAs(form, tagInteger, 0)
           b4 == TripleAs(form, tagSequence, all)
           b == b1 \o b2 \o b3 \o b4
           a3 == TripleAs(form, tagGetResponse, b)
           a == a1 \o a2 \o a3
           data == MessageAs(form, tagGetResponse, id, status, varbinds)
<1>1. /\ tagInteger \in NumberTags /\ tagOctetStr \in Nat /\ tagSequence \in Nat
      /\ tagGetResponse \in Nat
  BY TagNumbers DEF NumberTags
<1>2. data = TripleAs(form, tagSequence, a)
  BY Zenon DEF MessageAs
<1> DEFINE b12 == b1 \o b2
           b123 == b12 \o b3
           a12 == a1 \o a2
<1>21. /\ a1 \in Seq(Nat) /\ b1 \in Seq(Nat) /\ b2 \in Seq(Nat)
       /\ b3 \in Seq(Nat)
  BY <1>1, SmallNumbers, NumberRead
<1>22. /\ a2 \in Seq(Nat) /\ b4 \in Seq(Nat)
       /\ Countable(b4) => Countable(all)
  BY <1>1, CommunityTyped, InTriple
<1>23. b = b123 \o b4 /\ a = a12 \o a3
  OBVIOUS
<1> HIDE DEF all, a1, a2, b1, b2, b3, b4, b, a
<1>24. b12 \in Seq(Nat) /\ (Countable(b12) => Countable(b1) /\ Countable(b2))
  BY <1>21, InBoth
<1> HIDE DEF b12
<1>25. b123 \in Seq(Nat) /\ (Countable(b123) => Countable(b12) /\ Countable(b3))
  BY <1>21, <1>24, InBoth
<1> HIDE DEF b123
<1>26. b \in Seq(Nat) /\ (Countable(b) => Countable(b123) /\ Countable(b4))
  BY <1>22, <1>23, <1>25, InBoth
<1>27. a3 \in Seq(Nat) /\ (Countable(a3) => Countable(b))
  BY <1>1, <1>26, InTriple
<1>28. a12 \in Seq(Nat) /\ (Countable(a12) => Countable(a1) /\ Countable(a2))
  BY <1>21, <1>22, InBoth
<1> HIDE DEF a3, a12
<1>29. a \in Seq(Nat) /\ (Countable(a) => Countable(a12) /\ Countable(a3))
  BY <1>23, <1>27, <1>28, InBoth
<1>30. data \in Seq(Nat) /\ (Countable(data) => Countable(a))
  <2> HIDE DEF data
  <2> QED
    BY <1>1, <1>2, <1>29, InTriple
<1>31. Countable(data)
  BY <1>30 DEF Countable
<1>32. /\ Countable(a) /\ Countable(a1) /\ Countable(a2) /\ Countable(a3)
       /\ Countable(b1) /\ Countable(b2) /\ Countable(b3) /\ Countable(b4)
       /\ Countable(all)
  BY <1>22, <1>24, <1>25, <1>26, <1>27, <1>28, <1>29, <1>30, <1>31, Zenon
<1> USE DEF all, a1, a2, b1, b2, b3, b4, b, a3, a
<1>3. /\ \E c : Holds(a1, tagInteger, c)
      /\ Holds(a2, tagOctetStr, Community)
  <2>1. 1 \in Numbers /\ Community \in Seq(Nat)
    BY SmallNumbers, CommunityTyped
  <2>2. \E c : Holds(a1, tagInteger, c) /\ decodeInteger(c) = 1
    BY <1>1, <1>32, <2>1, NumberRead
  <2> QED
    BY <1>1, <1>32, <2>1, <2>2, TripleHolds, Zenon
<1>4. /\ \E c : Holds(b1, tagInteger, c)
      /\ \E c : Holds(b2, tagInteger, c) /\ decodeInteger(c) = status
      /\ \E c : Holds(b3, tagInteger, c)
      /\ Holds(b4, tagSequence, all)
  <2>1. \E c : Holds(b1, tagInteger, c) /\ decodeInteger(c) = id
    BY <1>1, <1>32, NumberRead
  <2>2. \E c : Holds(b2, tagInteger, c) /\ decodeInteger(c) = status
    BY <1>1, <1>32, NumberRead
  <2>3. \E c : Holds(b3, tagInteger, c) /\ decodeInteger(c) = 0
    BY <1>1, <1>32, SmallNumbers, NumberRead
  <2>4. Holds(b4, tagSequence, all)
    BY <1>1, <1>32, TripleHolds
  <2> QED
    BY <2>1, <2>2, <2>3, <2>4, Zenon
<1> HIDE DEF all, a1, a2, b1, b2, b3, b4
<1>5. PICK c1 : Holds(a1, tagInteger, c1)
  BY <1>3
<1>6. PICK d1 : Holds(b1, tagInteger, d1)
  BY <1>4
<1>7. PICK d2 : Holds(b2, tagInteger, d2) /\ decodeInteger(d2) = status
  BY <1>4
<1>8. PICK d3 : Holds(b3, tagInteger, d3)
  BY <1>4
<1>9. /\ b \in Seq(Nat)
      /\ \E n1, n2, n3, n4 : Triples(b, 4) =
            ReadOk(<<Triple(tagInteger, d1, n1), Triple(tagInteger, d2, n2),
                     Triple(tagInteger, d3, n3), Triple(tagSequence, all, n4)>>,
                   << >>)
  <2>1. /\ Holds(b1, tagInteger, d1) /\ Holds(b2, tagInteger, d2)
        /\ Holds(b3, tagInteger, d3) /\ Holds(b4, tagSequence, all)
    BY <1>4, <1>6, <1>7, <1>8, Zenon
  <2>2. IsFour(b1 \o b2 \o b3 \o b4, tagInteger, d1, tagInteger, d2, tagInteger, d3,
               tagSequence, all)
    BY <2>1, FourTriples
  <2> QED
    BY <2>2, Zenon DEF IsFour
<1>10. PICK n1, n2, n3, n4 : Triples(b, 4) =
            ReadOk(<<Triple(tagInteger, d1, n1), Triple(tagInteger, d2, n2),
                     Triple(tagInteger, d3, n3), Triple(tagSequence, all, n4)>>,
                   << >>)
  BY <1>9, Zenon
<1> HIDE DEF b
<1>11. Holds(a3, tagGetResponse, b)
  BY <1>1, <1>9, <1>32, TripleHolds
<1> HIDE DEF a3
<1>12. /\ a \in Seq(Nat)
       /\ \E m1, m2, m3 : Triples(a, 3) =
             ReadOk(<<Triple(tagInteger, c1, m1), Triple(tagOctetStr, Community, m2),
                      Triple(tagGetResponse, b, m3)>>, << >>)
  <2>1. /\ Holds(a1, tagInteger, c1) /\ Holds(a2, tagOctetStr, Community)
        /\ Holds(a3, tagGetResponse, b)
    BY <1>3, <1>5, <1>11, Zenon
  <2>2. IsThree(a1 \o a2 \o a3, tagInteger, c1, tagOctetStr, Community,
                tagGetResponse, b)
    BY <2>1, ThreeTriples
  <2> QED
    BY <2>2, Zenon DEF IsThree
<1>13. PICK m1, m2, m3 : Triples(a, 3) =
             ReadOk(<<Triple(tagInteger, c1, m1), Triple(tagOctetStr, Community, m2),
                      Triple(tagGetResponse, b, m3)>>, << >>)
  BY <1>12, Zenon
<1> HIDE DEF a
<1> DEFINE envelope == decodeTLV(data)
           message == Triples(a, 3)
           pdu == Triples(b, 4)
<1>14. envelope.ok = TRUE /\ envelope.tag = tagSequence /\ envelope.content = a
  <2> DEFINE t == TripleAs(form, tagSequence, a)
  <2>1. Holds(t, tagSequence, a)
    <3>1. Countable(t)
      BY <1>2, <1>31
    <3> QED
      BY <1>1, <1>12, <3>1, TripleHolds
  <2> HIDE DEF t
  <2>2. t \in Seq(Nat) /\ t \o << >> = t /\ << >> \in Seq(Nat)
    BY <2>1, NothingAfter DEF Holds
  <2>3. decodeTLV(t \o << >>) = Triple(tagSequence, a, Len(t))
    BY <2>1, <2>2, Zenon DEF Holds
  <2>4. envelope = Triple(tagSequence, a, Len(t))
    BY <1>2, <2>2, <2>3, Zenon DEF t
  <2> HIDE DEF envelope
  <2> QED
    BY <2>4 DEF Triple
<1>15. /\ message.ok = TRUE /\ message.got[3].tag = tagGetResponse
       /\ message.got[3].content = b
  <2> DEFINE u1 == Triple(tagInteger, c1, m1)
             u2 == Triple(tagOctetStr, Community, m2)
             u3 == Triple(tagGetResponse, b, m3)
  <2>1. u3.tag = tagGetResponse /\ u3.content = b
    BY DEF Triple
  <2> HIDE DEF u1, u2, u3
  <2>2. message = ReadOk(<<u1, u2, u3>>, << >>)
    BY <1>13, Zenon DEF u1, u2, u3
  <2> HIDE DEF message
  <2>3. message.ok = TRUE /\ message.got = <<u1, u2, u3>>
    BY <2>2 DEF ReadOk
  <2>4. message.got[3] = u3
    BY <2>3
  <2> QED
    BY <2>1, <2>3, <2>4
<1>16. /\ pdu.ok = TRUE /\ pdu.got[2].content = d2 /\ pdu.got[4].content = all
  <2> DEFINE u1 == Triple(tagInteger, d1, n1)
             u2 == Triple(tagInteger, d2, n2)
             u3 == Triple(tagInteger, d3, n3)
             u4 == Triple(tagSequence, all, n4)
  <2>1. u2.content = d2 /\ u4.content = all
    BY DEF Triple
  <2> HIDE DEF u1, u2, u3, u4
  <2>2. pdu = ReadOk(<<u1, u2, u3, u4>>, << >>)
    BY <1>10, Zenon DEF u1, u2, u3, u4
  <2> HIDE DEF pdu
  <2>3. pdu.ok = TRUE /\ pdu.got = <<u1, u2, u3, u4>>
    BY <2>2 DEF ReadOk
  <2>4. pdu.got[2] = u2 /\ pdu.got[4] = u4
    BY <2>3
  <2> QED
    BY <2>1, <2>3, <2>4
<1> HIDE DEF data
<1>17. parseResponse(data) =
          IF \/ ~envelope.ok \/ envelope.tag # tagSequence
             \/ ~Triples(envelope.content, 3).ok
             \/ Triples(envelope.content, 3).got[3].tag # tagGetResponse
             \/ ~Triples(Triples(envelope.content, 3).got[3].content, 4).ok
             \/ decodeInteger(Triples(Triples(envelope.content, 3).got[3].content,
                                      4).got[2].content) # 0
          THEN Malformed
          ELSE parseVarbinds(Triples(Triples(envelope.content, 3).got[3].content,
                                     4).got[4].content)
  BY Zenon DEF parseResponse
<1> HIDE DEF envelope
<1>18. Triples(envelope.content, 3) = message
  BY <1>14, Zenon
<1> HIDE DEF message
<1>19. Triples(message.got[3].content, 4) = pdu
  BY <1>15, Zenon
<1> HIDE DEF pdu
<1>20. parseResponse(data) = IF status # 0 THEN Malformed ELSE parseVarbinds(all)
  <2>1. parseResponse(data) =
           IF \/ ~envelope.ok \/ envelope.tag # tagSequence \/ ~message.ok
              \/ message.got[3].tag # tagGetResponse \/ ~pdu.ok
              \/ decodeInteger(pdu.got[2].content) # 0
           THEN Malformed ELSE parseVarbinds(pdu.got[4].content)
    BY <1>17, <1>18, <1>19, Zenon
  <2> QED
    BY <1>7, <1>14, <1>15, <1>16, <2>1, Zenon
<1> QED
  BY <1>20, <1>32 DEF data, all
=============================================================================
