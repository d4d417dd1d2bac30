--------------------------- MODULE ByteArrayProofs ---------------------------
(***************************************************************************)
(* Proofs about the byte array, for any node size, any widths, any values  *)
(* and any bytes.  First numbers: division, powers, numbers in a radix.    *)
(* Then the codec, the node pointer, the refinement and the views.         *)
(***************************************************************************)
EXTENDS ByteArray, SequenceTheorems, WellFoundedInduction, TLAPS

-----------------------------------------------------------------------------
(* Induction.  The sets take the place of predicates.                      *)

\* A set of numbers has a least one.
LEMMA Least ==
  ASSUME NEW S, S \subseteq Nat, S # {}
  PROVE  \E n \in S : \A m \in S : n <= m
<1>1. PICK least \in S : \A y \in S : ~(<<y, least>> \in OpToRel(<, Nat))
  BY WFMin, NatLessThanWellFounded
<1>2. ASSUME NEW y \in S, y < least PROVE FALSE
  <2>1. <<y, least>> \in OpToRel(<, Nat)
    BY <1>2 DEF OpToRel
  <2> QED BY <2>1, <1>1
<1> QED BY <1>2

\* Course of values: a set that has n whenever it has all before n has all.
LEMMA Induction ==
  ASSUME NEW T, \A n \in Nat : (\A m \in 0 .. n - 1 : m \in T) => n \in T
  PROVE  \A n \in Nat : n \in T
<1>1. SUFFICES ASSUME Nat \ T # {} PROVE FALSE
  OBVIOUS
<1>2. PICK n \in Nat \ T : \A m \in Nat \ T : n <= m
  BY <1>1, Least
<1>3. \A m \in 0 .. n - 1 : m \in T
  BY <1>2
<1> QED BY <1>2, <1>3

\* The same for the numbers up to a bound.
LEMMA InductionUpTo ==
  ASSUME NEW T, NEW k \in Nat, 0 \in T, \A n \in 1 .. k : n - 1 \in T => n \in T
  PROVE  \A n \in 0 .. k : n \in T
<1> DEFINE U == {n \in Nat : n <= k => n \in T}
<1>1. ASSUME NEW n \in Nat, \A m \in 0 .. n - 1 : m \in U PROVE n \in U
  <2>1. CASE n = 0
    BY <2>1
  <2>2. CASE n > 0
    <3>1. n - 1 \in U
      BY <1>1, <2>2
    <3> QED BY <3>1, <2>2
  <2> QED BY <2>1, <2>2
<1> HIDE DEF U
<1>2. \A n \in Nat : n \in U
  BY <1>1, Induction
<1> QED BY <1>2 DEF U

\* F[i] makes the i-th value in S of the one before; g has these values.
Steps(F, k, S) == F \in [1 .. k -> [S -> S]]
Iterates(g, F, k, S, x) ==
  /\ g \in [0 .. k -> S]
  /\ g[0] = x
  /\ \A i \in 1 .. k : g[i] = F[i][g[i - 1]]

\* A function over the numbers up to a bound can be defined by recursion.
LEMMA Recursion ==
  ASSUME NEW S, NEW k \in Nat, NEW x \in S, NEW F, Steps(F, k, S)
  PROVE  \E g : Iterates(g, F, k, S, x)
<1> DEFINE T == {n \in 0 .. k : \E g \in [0 .. n -> S] :
                   g[0] = x /\ \A i \in 1 .. n : g[i] = F[i][g[i - 1]]}
<1>1. 0 \in T
  <2> DEFINE h == [i \in 0 .. 0 |-> x]
  <2>1. h \in [0 .. 0 -> S] /\ h[0] = x /\ 1 .. 0 = {}
    OBVIOUS
  <2> HIDE DEF h
  <2>2. \E g \in [0 .. 0 -> S] : g[0] = x /\ \A i \in 1 .. 0 : g[i] = F[i][g[i - 1]]
    BY <2>1
  <2> QED BY <2>2
<1>2. ASSUME NEW n \in 1 .. k, n - 1 \in T PROVE n \in T
  <2>1. PICK f \in [0 .. n - 1 -> S] :
          f[0] = x /\ \A i \in 1 .. n - 1 : f[i] = F[i][f[i - 1]]
    BY <1>2
  <2> DEFINE h == [i \in 0 .. n |-> IF i = n THEN F[n][f[n - 1]] ELSE f[i]]
  <2>2. F[n][f[n - 1]] \in S
    BY <2>1 DEF Steps
  <2>3. h \in [0 .. n -> S]
    BY <2>2
  <2>4. h[0] = x /\ \A i \in 1 .. n : h[i] = F[i][h[i - 1]]
    BY <2>1
  <2> HIDE DEF h
  <2>5. \E g \in [0 .. n -> S] : g[0] = x /\ \A i \in 1 .. n : g[i] = F[i][g[i - 1]]
    BY <2>3, <2>4
  <2>6. n \in 0 .. k
    OBVIOUS
  <2> QED BY <2>5, <2>6
<1> HIDE DEF T
<1>3. k \in T
  <2>1. \A n \in 0 .. k : n \in T
    BY <1>1, <1>2, InductionUpTo
  <2> QED BY <2>1
<1>4. PICK g \in [0 .. k -> S] : g[0] = x /\ \A i \in 1 .. k : g[i] = F[i][g[i - 1]]
  BY <1>3 DEF T
<1> QED BY <1>4 DEF Iterates

-----------------------------------------------------------------------------
(* Division.                                                               *)

LEMMA NextMultiple ==
  ASSUME NEW b \in Nat, NEW x \in Int, NEW y \in Int, x < y
  PROVE  b * x + b <= b * y
OBVIOUS

LEMMA DivMod ==
  ASSUME NEW b \in Nat \ {0}, NEW x \in Int
  PROVE  x = b * (x \div b) + (x % b) /\ x % b \in 0 .. b - 1 /\ x \div b \in Int
OBVIOUS

LEMMA DivUnique ==
  ASSUME NEW b \in Nat \ {0}, NEW x \in Int, NEW q \in Int, NEW r \in 0 .. b - 1,
         x = b * q + r
  PROVE  x % b = r /\ x \div b = q
<1> DEFINE p == x \div b  s == x % b
<1>1. x = b * p + s /\ s \in 0 .. b - 1 /\ p \in Int
  BY DivMod
<1> HIDE DEF p, s
<1>2. ~ q < p
  BY <1>1, NextMultiple
<1>3. ~ p < q
  BY <1>1, NextMultiple
<1>4. q = p
  BY <1>1, <1>2, <1>3
<1> QED BY <1>1, <1>4 DEF p, s

LEMMA DivNat ==
  ASSUME NEW b \in Nat \ {0}, NEW x \in Nat
  PROVE  /\ x \div b \in Nat /\ x \div b <= x
         /\ b > 1 /\ x > 0 => x \div b < x
         /\ x < b => x \div b = 0 /\ x % b = x
<1> DEFINE q == x \div b
<1>1. q \in Int /\ x = b * q + (x % b) /\ x % b \in 0 .. b - 1
  BY DivMod
<1> HIDE DEF q
<1>2. q >= 0
  <2>1. ASSUME q <= -1 PROVE FALSE
    <3>1. b * q + b <= b * 0
      BY NextMultiple, <2>1, <1>1
    <3> QED BY <3>1, <1>1
  <2> QED BY <2>1, <1>1
<1>3. b * q >= q
  BY <1>1, <1>2
<1>4. b > 1 => b * q >= 2 * q
  BY <1>1, <1>2
<1>5. x < b => q = 0
  <2>1. ASSUME q >= 1, x < b PROVE FALSE
    <3>1. b * 0 + b <= b * q
      BY NextMultiple, <2>1, <1>1
    <3> QED BY <3>1, <2>1, <1>1
  <2> QED BY <2>1, <1>1, <1>2
<1>6. x < b => x % b = x
  BY <1>5, <1>1
<1>7. q <= x
  BY <1>1, <1>3
<1>8. b > 1 /\ x > 0 => q < x
  BY <1>1, <1>4, <1>2
<1> QED BY <1>1, <1>2, <1>7, <1>8, <1>5, <1>6 DEF q

LEMMA Times ==
  ASSUME NEW a \in Nat \ {0}, NEW b \in Nat \ {0}
  PROVE  a * b \in Nat \ {0} /\ a <= a * b
<1>1. a * 0 + a <= a * b
  BY NextMultiple
<1> QED BY <1>1

\* Dividing by a product is dividing twice.
LEMMA DivTwice ==
  ASSUME NEW a \in Nat \ {0}, NEW b \in Nat \ {0}, NEW v \in Nat
  PROVE  /\ v \div (a * b) = (v \div a) \div b
         /\ v % (a * b) = a * ((v \div a) % b) + (v % a)
<1> DEFINE q == v \div a
<1>1. q \in Nat /\ v = a * q + (v % a) /\ v % a \in 0 .. a - 1
  BY DivMod, DivNat
<1> HIDE DEF q
<1> DEFINE p == q \div b
<1>2. p \in Nat /\ q = b * p + (q % b) /\ q % b \in 0 .. b - 1
  <2>1. p \in Nat
    BY <1>1, DivNat
  <2>2. q = b * p + (q % b) /\ q % b \in 0 .. b - 1
    BY <1>1, DivMod
  <2> QED BY <2>1, <2>2
<1> HIDE DEF p
<1> DEFINE t == q % b  u == v % a
<1>3. t \in 0 .. b - 1 /\ u \in 0 .. a - 1 /\ q = b * p + t /\ v = a * q + u
  BY <1>1, <1>2
<1> HIDE DEF t, u
<1>4. a * b \in Nat \ {0}
  BY Times
<1>5. a * t + a <= a * b
  BY <1>3, NextMultiple
<1>6. a * t \in Nat
  BY <1>3
<1>7. v = (a * b) * p + (a * t + u)
  BY <1>3, <1>2
<1>8. v % (a * b) = a * t + u /\ v \div (a * b) = p
  <2> DEFINE m == a * b  r == a * t + u
  <2>1. m \in Nat \ {0} /\ r \in 0 .. m - 1 /\ v = m * p + r
    BY <1>3, <1>4, <1>5, <1>6, <1>7
  <2> HIDE DEF m, r
  <2>2. v \in Int /\ p \in Int
    BY <1>2
  <2>3. v % m = r /\ v \div m = p
    BY <2>1, <2>2, DivUnique, Zenon
  <2> QED BY <2>3 DEF m, r
<1> QED BY <1>8 DEF p, q, t, u

-----------------------------------------------------------------------------
(* Powers and numbers in a radix.                                          *)

\* What Power counts through.
LEMMA PowerCounts ==
  ASSUME NEW b \in Nat, NEW n \in Nat
  PROVE  \E g \in [0 .. n -> Nat] :
           /\ g[0] = 1 /\ \A i \in 1 .. n : g[i] = b * g[i - 1]
           /\ Power(b, n) = g[n]
<1> DEFINE F == [i \in 1 .. n |-> [y \in Nat |-> b * y]]
           to == CHOOSE f : f = [i \in 0 .. n |-> IF i = 0 THEN 1 ELSE b * f[i - 1]]
<1>1. F \in [1 .. n -> [Nat -> Nat]] /\ \A i \in 1 .. n, y \in Nat : F[i][y] = b * y
  OBVIOUS
<1> HIDE DEF F
<1>2. PICK g \in [0 .. n -> Nat] :
        g[0] = 1 /\ \A i \in 1 .. n : g[i] = F[i][g[i - 1]]
  <2>1. 1 \in Nat /\ Steps(F, n, Nat)
    BY <1>1 DEF Steps
  <2>2. PICK g : Iterates(g, F, n, Nat, 1)
    BY <2>1, Recursion
  <2> QED BY <2>2 DEF Iterates
<1>3. g[0] = 1 /\ \A i \in 1 .. n : g[i] = b * g[i - 1]
  <2> SUFFICES ASSUME NEW i \in 1 .. n PROVE g[i] = b * g[i - 1]
    BY <1>2
  <2>1. g[i - 1] \in Nat
    OBVIOUS
  <2> QED BY <1>1, <1>2, <2>1
<1>4. g = [i \in 0 .. n |-> IF i = 0 THEN 1 ELSE b * g[i - 1]]
  BY <1>3
<1>5. to = [i \in 0 .. n |-> IF i = 0 THEN 1 ELSE b * to[i - 1]]
  BY <1>4
<1>6. Power(b, n) = to[n]
  BY DEF Power
<1> HIDE DEF to
<1>7. \A i \in 0 .. n : to[i] = g[i]
  <2> DEFINE T == {i \in 0 .. n : to[i] = g[i]}
  <2>1. 0 \in T
    BY <1>3, <1>5
  <2>2. ASSUME NEW i \in 1 .. n, i - 1 \in T PROVE i \in T
    BY <1>3, <1>5, <2>2
  <2> HIDE DEF T
  <2>3. \A i \in 0 .. n : i \in T
    BY <2>1, <2>2, InductionUpTo
  <2> QED BY <2>3 DEF T
<1>8. Power(b, n) = g[n]
  BY <1>6, <1>7
<1> QED BY <1>3, <1>8

LEMMA PowerStep ==
  ASSUME NEW b \in Nat
  PROVE  /\ Power(b, 0) = 1
         /\ \A n \in Nat : Power(b, n) \in Nat /\ Power(b, n + 1) = b * Power(b, n)
<1>1. Power(b, 0) = 1
  <2>1. 0 \in Nat
    OBVIOUS
  <2>2. PICK g \in [0 .. 0 -> Nat] : g[0] = 1 /\ Power(b, 0) = g[0]
    BY <2>1, PowerCounts
  <2> QED BY <2>2
<1>2. ASSUME NEW n \in Nat PROVE Power(b, n) \in Nat /\ Power(b, n + 1) = b * Power(b, n)
  <2>1. PICK g \in [0 .. n -> Nat] :
           /\ g[0] = 1 /\ \A i \in 1 .. n : g[i] = b * g[i - 1]
           /\ Power(b, n) = g[n]
    BY PowerCounts
  <2>2. PICK h \in [0 .. n + 1 -> Nat] :
           /\ h[0] = 1 /\ \A i \in 1 .. n + 1 : h[i] = b * h[i - 1]
           /\ Power(b, n + 1) = h[n + 1]
    <3>1. n + 1 \in Nat
      OBVIOUS
    <3> QED BY <3>1, PowerCounts
  <2> DEFINE T == {i \in 0 .. n : h[i] = g[i]}
  <2>3. 0 \in T
    BY <2>1, <2>2
  <2>4. ASSUME NEW i \in 1 .. n, i - 1 \in T PROVE i \in T
    BY <2>1, <2>2, <2>4
  <2> HIDE DEF T
  <2>5. \A i \in 0 .. n : i \in T
    BY <2>3, <2>4, InductionUpTo
  <2>6. h[n] = g[n]
    BY <2>5 DEF T
  <2>7. h[n + 1] = b * h[n]
    BY <2>2
  <2> QED BY <2>1, <2>2, <2>6, <2>7
<1> QED BY <1>1, <1>2

LEMMA PowerPositive ==
  ASSUME NEW b \in Nat \ {0}, NEW n \in Nat
  PROVE  Power(b, n) \in Nat \ {0}
<1> DEFINE T == {i \in Nat : Power(b, i) \in Nat \ {0}}
<1>1. ASSUME NEW i \in Nat, \A m \in 0 .. i - 1 : m \in T PROVE i \in T
  <2>1. CASE i = 0
    BY <2>1, PowerStep
  <2>2. CASE i > 0
    <3>1. i - 1 \in Nat /\ Power(b, i - 1) \in Nat \ {0}
      BY <1>1, <2>2
    <3>2. Power(b, (i - 1) + 1) = b * Power(b, i - 1)
      BY <3>1, PowerStep
    <3>3. b * Power(b, i - 1) \in Nat \ {0}
      BY <3>1, Times
    <3> QED BY <3>2, <3>3
  <2> QED BY <2>1, <2>2
<1> HIDE DEF T
<1>2. \A i \in Nat : i \in T
  BY <1>1, Induction
<1> QED BY <1>2 DEF T

\* Power(b, m + n) = Power(b, m) * Power(b, n), as far as it is needed: a power
\* of a power is a power, and powers grow with the exponent.
LEMMA PowerGrows ==
  ASSUME NEW b \in Nat \ {0}, NEW m \in Nat, NEW n \in Nat
  PROVE  Power(b, m) <= Power(b, m + n)
<1> DEFINE T == {i \in 0 .. n : Power(b, m) <= Power(b, m + i)}
<1>1. 0 \in T
  BY PowerPositive
<1>2. ASSUME NEW i \in 1 .. n, i - 1 \in T PROVE i \in T
  <2>1. m + (i - 1) \in Nat /\ (m + (i - 1)) + 1 = m + i /\ m + i \in Nat
    OBVIOUS
  <2>2. Power(b, m + i) = b * Power(b, m + (i - 1))
    BY <2>1, PowerStep
  <2>3. Power(b, m + (i - 1)) \in Nat \ {0} /\ Power(b, m) \in Nat
    BY <2>1, PowerPositive
  <2>4. Power(b, m + (i - 1)) <= b * Power(b, m + (i - 1))
    <3> DEFINE p == Power(b, m + (i - 1))
    <3>1. p \in Nat \ {0}
      BY <2>3
    <3> HIDE DEF p
    <3>2. p <= b * p
      <4>1. p * b = b * p
        BY <3>1
      <4> QED BY <3>1, <4>1, Times
    <3> QED BY <3>2 DEF p
  <2>5. Power(b, m) <= Power(b, m + i)
    <3>1. Power(b, m + i) \in Nat
      BY <2>1, PowerStep
    <3> QED BY <1>2, <2>2, <2>3, <2>4, <3>1
  <2> QED BY <2>5
<1> HIDE DEF T
<1>3. \A i \in 0 .. n : i \in T
  BY <1>1, <1>2, InductionUpTo
<1> QED BY <1>3 DEF T

LEMMA PowerSum ==
  ASSUME NEW b \in Nat \ {0}, NEW m \in Nat, NEW n \in Nat
  PROVE  Power(b, m + n) = Power(b, m) * Power(b, n)
<1> DEFINE T == {i \in 0 .. n : Power(b, m + i) = Power(b, m) * Power(b, i)}
<1>0. \A i \in Nat : Power(b, i) \in Nat \ {0}
  BY PowerPositive
<1>1. 0 \in T
  BY <1>0, PowerStep
<1>2. ASSUME NEW i \in 1 .. n, i - 1 \in T PROVE i \in T
  <2>1. m + (i - 1) \in Nat /\ (m + (i - 1)) + 1 = m + i /\ i - 1 \in Nat /\ (i - 1) + 1 = i
    OBVIOUS
  <2> DEFINE p == Power(b, m)  q == Power(b, i - 1)
  <2>2. Power(b, m + i) = b * Power(b, m + (i - 1)) /\ Power(b, i) = b * q
    BY <2>1, PowerStep
  <2>3. Power(b, m + (i - 1)) = p * q
    BY <1>2
  <2>4. p \in Nat /\ q \in Nat
    BY <2>1, <1>0
  <2> HIDE DEF p, q
  <2>5. Power(b, m + i) = p * Power(b, i)
    <3>1. b * (p * q) = p * (b * q)
      BY <2>4
    <3> QED BY <2>2, <2>3, <3>1
  <2> QED BY <2>5 DEF p
<1> HIDE DEF T
<1>3. \A i \in 0 .. n : i \in T
  BY <1>1, <1>2, InductionUpTo
<1> QED BY <1>3 DEF T

LEMMA PowerOfPower ==
  ASSUME NEW b \in Nat \ {0}, NEW m \in Nat, NEW n \in Nat
  PROVE  Power(Power(b, m), n) = Power(b, m * n)
<1> DEFINE T == {i \in 0 .. n : Power(Power(b, m), i) = Power(b, m * i)}
<1>0. Power(b, m) \in Nat \ {0}
  BY PowerPositive
<1>1. 0 \in T
  BY <1>0, PowerStep
<1>2. ASSUME NEW i \in 1 .. n, i - 1 \in T PROVE i \in T
  <2>1. i - 1 \in Nat /\ (i - 1) + 1 = i /\ m * (i - 1) \in Nat /\ m + m * (i - 1) = m * i
    OBVIOUS
  <2>2. Power(Power(b, m), i) = Power(b, m) * Power(Power(b, m), i - 1)
    BY <2>1, <1>0, PowerStep
  <2>3. Power(b, m + m * (i - 1)) = Power(b, m) * Power(b, m * (i - 1))
    BY <2>1, PowerSum
  <2> QED BY <1>2, <2>1, <2>2, <2>3
<1> HIDE DEF T
<1>3. \A i \in 0 .. n : i \in T
  BY <1>1, <1>2, InductionUpTo
<1> QED BY <1>3 DEF T

\* What Value adds up.
LEMMA ValueCounts ==
  ASSUME NEW r \in Nat, NEW d \in Seq(Nat)
  PROVE  \E g \in [0 .. Len(d) -> Nat] :
           /\ g[0] = 0
           /\ \A i \in 1 .. Len(d) : g[i] = g[i - 1] + d[i] * Power(r, i - 1)
           /\ Value(d, r) = g[Len(d)]
<1> DEFINE n == Len(d)
           e == [i \in 1 .. n |-> d[i] * Power(r, i - 1)]
           F == [i \in 1 .. n |-> [y \in Nat |-> y + e[i]]]
           upto == CHOOSE f : f = [i \in 0 .. n |->
                     IF i = 0 THEN 0 ELSE f[i - 1] + d[i] * Power(r, i - 1)]
<1>1. n \in Nat
  OBVIOUS
<1>2. \A i \in 1 .. n : e[i] \in Nat /\ e[i] = d[i] * Power(r, i - 1)
  <2> SUFFICES ASSUME NEW i \in 1 .. n PROVE e[i] \in Nat
    OBVIOUS
  <2>1. Power(r, i - 1) \in Nat
    <3>1. i - 1 \in Nat
      OBVIOUS
    <3> QED BY <3>1, PowerStep
  <2>2. d[i] \in Nat
    OBVIOUS
  <2> QED BY <2>1, <2>2
<1> HIDE DEF e
<1>3. F \in [1 .. n -> [Nat -> Nat]] /\ \A i \in 1 .. n, y \in Nat : F[i][y] = y + e[i]
  BY <1>2
<1> HIDE DEF F
<1>4. PICK g \in [0 .. n -> Nat] :
        g[0] = 0 /\ \A i \in 1 .. n : g[i] = F[i][g[i - 1]]
  <2>1. 0 \in Nat /\ Steps(F, n, Nat)
    BY <1>3 DEF Steps
  <2> HIDE DEF n
  <2>2. PICK g : Iterates(g, F, n, Nat, 0)
    BY <1>1, <2>1, Recursion
  <2> QED BY <2>2 DEF Iterates
<1>5. g[0] = 0 /\ \A i \in 1 .. n : g[i] = g[i - 1] + d[i] * Power(r, i - 1)
  <2>1. \A i \in 1 .. n : g[i] = g[i - 1] + e[i]
    <3> SUFFICES ASSUME NEW i \in 1 .. n PROVE g[i] = g[i - 1] + e[i]
      OBVIOUS
    <3>1. g[i - 1] \in Nat
      BY <1>1
    <3> QED BY <1>3, <1>4, <3>1
  <2> QED BY <1>2, <1>4, <2>1
<1>6. g = [i \in 0 .. n |-> IF i = 0 THEN 0 ELSE g[i - 1] + d[i] * Power(r, i - 1)]
  BY <1>1, <1>5
<1>7. upto = [i \in 0 .. n |-> IF i = 0 THEN 0 ELSE upto[i - 1] + d[i] * Power(r, i - 1)]
  BY <1>6
<1>8. Value(d, r) = upto[n]
  BY DEF Value
<1> HIDE DEF upto, n
<1>9. \A i \in 0 .. n : upto[i] = g[i]
  <2> DEFINE T == {i \in 0 .. n : upto[i] = g[i]}
  <2>1. 0 \in T
    BY <1>1, <1>5, <1>7
  <2>2. ASSUME NEW i \in 1 .. n, i - 1 \in T PROVE i \in T
    <3>1. upto[i] = upto[i - 1] + d[i] * Power(r, i - 1)
      BY <1>1, <1>7
    <3>2. g[i] = g[i - 1] + d[i] * Power(r, i - 1)
      BY <1>5
    <3>3. i \in 0 .. n /\ upto[i - 1] = g[i - 1]
      BY <2>2
    <3> QED BY <3>1, <3>2, <3>3
  <2> HIDE DEF T
  <2>3. \A i \in 0 .. n : i \in T
    BY <1>1, <2>1, <2>2, InductionUpTo
  <2> QED BY <2>3 DEF T
<1>10. Value(d, r) = g[n]
  BY <1>1, <1>8, <1>9
<1> QED BY <1>5, <1>10 DEF n

\* The digits of a number have the value of the number, if there are enough.
LEMMA DigitsValue ==
  ASSUME NEW r \in Nat \ {0}, NEW v \in Nat, NEW d \in Seq(Nat),
         \A i \in 1 .. Len(d) : d[i] = (v \div Power(r, i - 1)) % r
  PROVE  Value(d, r) = v % Power(r, Len(d))
<1> DEFINE n == Len(d)
<1>1. PICK g \in [0 .. n -> Nat] :
        /\ g[0] = 0 /\ \A i \in 1 .. n : g[i] = g[i - 1] + d[i] * Power(r, i - 1)
        /\ Value(d, r) = g[n]
  BY ValueCounts
<1>2. n \in Nat
  OBVIOUS
<1> DEFINE T == {i \in 0 .. n : g[i] = v % Power(r, i)}
<1>3. 0 \in T
  <2>1. v % 1 = 0
    OBVIOUS
  <2> QED BY <1>1, <1>2, <2>1, PowerStep
<1>4. ASSUME NEW i \in 1 .. n, i - 1 \in T PROVE i \in T
  <2> DEFINE p == Power(r, i - 1)  a == (v \div p) % r
  <2>1. i - 1 \in Nat /\ (i - 1) + 1 = i
    OBVIOUS
  <2>2. p \in Nat \ {0} /\ Power(r, i) = r * p
    <3>1. Power(r, (i - 1) + 1) = r * p
      BY <2>1, PowerStep
    <3> QED BY <2>1, <3>1, PowerPositive
  <2>3. d[i] = a /\ g[i] = g[i - 1] + d[i] * p /\ g[i - 1] = v % p
    BY <1>1, <1>4
  <2> HIDE DEF p
  <2>4. v % (p * r) = p * a + (v % p)
    BY <2>2, DivTwice
  <2>5. v \div p \in Int
    BY <2>2, DivMod
  <2>6. a \in Nat /\ v % p \in Nat
    BY <2>2, <2>5, DivMod
  <2> HIDE DEF a
  <2>7. p * r = r * p /\ p * a = a * p /\ p * a \in Nat
    BY <2>2, <2>6
  <2>8. g[i] = v % (r * p)
    BY <2>3, <2>4, <2>6, <2>7
  <2> QED BY <2>8, <2>2
<1> HIDE DEF T
<1>5. \A i \in 0 .. n : i \in T
  BY <1>2, <1>3, <1>4, InductionUpTo
<1>6. g[n] = v % Power(r, n)
  BY <1>2, <1>5 DEF T
<1> QED BY <1>1, <1>6

-----------------------------------------------------------------------------
(* Fixed-width integers.                                                   *)

LEMMA GroupFacts ==
  /\ Group \in Nat /\ Group >= 2 /\ Radix \in Nat /\ Radix = 2 * Group
  /\ Byte \subseteq Nat
<1>1. GroupBits \in Nat /\ GroupBits - 1 \in Nat /\ (GroupBits - 1) + 1 = GroupBits
  BY CodecAssumption
<1>2. Power(2, GroupBits) = 2 * Power(2, GroupBits - 1)
  BY <1>1, PowerStep
<1>3. Power(2, GroupBits - 1) \in Nat \ {0}
  BY <1>1, PowerPositive
<1> QED BY <1>2, <1>3 DEF Group, Radix, Byte

LEMMA DigitsType ==
  ASSUME NEW k \in DOMAIN Width, NEW v \in Nat
  PROVE  /\ LittleDigits(k, v) \in Seq(Byte)
         /\ Len(LittleDigits(k, v)) = Width[k]
         /\ \A i \in 1 .. Width[k] :
              LittleDigits(k, v)[i] = (v \div Power(Radix, i - 1)) % Radix
<1>1. Width[k] \in Nat
  BY CodecAssumption
<1>2. ASSUME NEW i \in 1 .. Width[k]
      PROVE  (v \div Power(Radix, i - 1)) % Radix \in Byte
  <2>1. i - 1 \in Nat
    BY <1>1
  <2>2. Power(Radix, i - 1) \in Nat \ {0}
    BY <2>1, PowerPositive, GroupFacts
  <2>3. v \div Power(Radix, i - 1) \in Int
    BY <2>2, DivNat
  <2>4. Radix \in Nat \ {0}
    BY GroupFacts
  <2>5. (v \div Power(Radix, i - 1)) % Radix \in 0 .. Radix - 1
    BY <2>3, <2>4, DivMod, Zenon
  <2> QED BY <2>5 DEF Byte
<1> QED BY <1>1, <1>2 DEF LittleDigits

LEMMA ReverseTwice ==
  ASSUME NEW A, NEW s \in Seq(A)
  PROVE  Reverse(s) \in Seq(A) /\ Len(Reverse(s)) = Len(s) /\ Reverse(Reverse(s)) = s
<1>1. Len(s) \in Nat /\ DOMAIN s = 1 .. Len(s) /\ \A i \in 1 .. Len(s) : s[i] \in A
  OBVIOUS
<1>2. Reverse(s) \in Seq(A) /\ Len(Reverse(s)) = Len(s)
  BY <1>1 DEF Reverse
<1>3. \A i \in 1 .. Len(s) : Reverse(s)[i] = s[Len(s) - i + 1]
  BY <1>1 DEF Reverse
<1>4. Reverse(Reverse(s)) \in Seq(A) /\ Len(Reverse(Reverse(s))) = Len(s)
  BY <1>1, <1>2, <1>3 DEF Reverse
<1>5. ASSUME NEW i \in 1 .. Len(s) PROVE Reverse(Reverse(s))[i] = s[i]
  <2>1. Reverse(Reverse(s))[i] = Reverse(s)[Len(s) - i + 1]
    BY <1>1, <1>2 DEF Reverse
  <2>2. Len(s) - i + 1 \in 1 .. Len(s) /\ Len(s) - (Len(s) - i + 1) + 1 = i
    BY <1>1
  <2> QED BY <2>1, <2>2, <1>3
<1> QED BY <1>2, <1>4, <1>5, SeqEqual

\* A fixed integer takes its width, whatever its value.
LEMMA FixedType ==
  ASSUME NEW k \in DOMAIN Width, NEW v \in Nat, NEW little \in BOOLEAN
  PROVE  /\ EncodeFixed(k, v, little) \in Seq(Byte)
         /\ Len(EncodeFixed(k, v, little)) = Width[k]
<1>1. FixedModulus(k) \in Nat \ {0}
  BY CodecAssumption, PowerPositive, GroupFacts DEF FixedModulus
<1>2. v % FixedModulus(k) \in Nat
  BY <1>1, DivMod
<1> QED BY <1>2, DigitsType, ReverseTwice DEF EncodeFixed, InOrder

LEMMA FixedRoundTrip ==
  ASSUME NEW k \in DOMAIN Width, NEW v \in 0 .. FixedModulus(k) - 1, NEW little \in BOOLEAN
  PROVE  DecodeFixed(k, EncodeFixed(k, v, little), little) = v
<1> DEFINE d == LittleDigits(k, v)
<1>1. FixedModulus(k) \in Nat \ {0} /\ Width[k] \in Nat
  BY CodecAssumption, PowerPositive, GroupFacts DEF FixedModulus
<1>2. v \in Nat /\ v % FixedModulus(k) = v
  BY <1>1, DivNat
<1>3. d \in Seq(Byte) /\ Len(d) = Width[k]
  BY <1>2, DigitsType
<1>4. \A i \in 1 .. Len(d) : d[i] = (v \div Power(Radix, i - 1)) % Radix
  BY <1>2, <1>3, DigitsType
<1>5. InOrder(InOrder(d, little), little) = d
  BY <1>3, ReverseTwice DEF InOrder
<1>6. DecodeFixed(k, EncodeFixed(k, v, little), little) = Value(d, Radix)
  BY <1>2, <1>5 DEF DecodeFixed, EncodeFixed
<1>7. d \in Seq(Nat)
  BY <1>3, GroupFacts, SeqMonotonic
<1> HIDE DEF d
<1>8. Value(d, Radix) = v % Power(Radix, Len(d))
  BY <1>2, <1>4, <1>7, DigitsValue, GroupFacts
<1> QED BY <1>2, <1>3, <1>6, <1>8 DEF FixedModulus

-----------------------------------------------------------------------------
(* Varints.                                                                *)

\* g has the varints of the numbers up to n.
VarintBody(rest, v) == IF v < Group THEN <<v>> ELSE <<(v % Group) + Group>> \o rest
VarintsUpTo(g, n) ==
  g \in [0 .. n -> Seq(Byte)] /\ \A v \in 0 .. n : g[v] = VarintBody(g[v \div Group], v)

LEMMA Quotient ==
  ASSUME NEW v \in Nat, v >= Group
  PROVE  v \div Group \in Nat /\ v \div Group < v /\ v % Group \in 0 .. Group - 1
BY GroupFacts, DivNat, DivMod

LEMMA BodyType ==
  ASSUME NEW v \in Nat, NEW rest, v >= Group => rest \in Seq(Byte)
  PROVE  VarintBody(rest, v) \in Seq(Byte)
<1>1. CASE v < Group
  BY <1>1, GroupFacts DEF VarintBody, Byte
<1>2. CASE v >= Group
  <2> DEFINE r == v % Group
  <2>0. r \in 0 .. Group - 1
    BY <1>2, Quotient
  <2> HIDE DEF r
  <2>a. r + Group \in Byte
    BY <2>0, GroupFacts DEF Byte
  <2>1. (v % Group) + Group \in Byte
    BY <2>a DEF r
  <2>2. <<(v % Group) + Group>> \in Seq(Byte)
    BY <2>1
  <2>3. <<(v % Group) + Group>> \o rest \in Seq(Byte)
    BY <2>2, <1>2, ConcatProperties
  <2>4. ~(v < Group)
    BY <1>2, GroupFacts
  <2> QED BY <2>3, <2>4 DEF VarintBody
<1> QED BY <1>1, <1>2, GroupFacts

LEMMA VarintsExist ==
  ASSUME NEW n \in Nat
  PROVE  \E g : VarintsUpTo(g, n)
<1> DEFINE T == {i \in Nat : \E g : VarintsUpTo(g, i)}
<1>1. ASSUME NEW i \in Nat, \A m \in 0 .. i - 1 : m \in T PROVE i \in T
  <2>1. CASE i = 0
    <3> DEFINE h == [v \in 0 .. 0 |-> <<v>>]
    <3>1. h \in [0 .. 0 -> Seq(Byte)]
      BY GroupFacts DEF Byte
    <3>2. \A v \in 0 .. 0 : h[v] = VarintBody(h[v \div Group], v)
      BY GroupFacts DEF VarintBody
    <3> HIDE DEF h
    <3>3. VarintsUpTo(h, i)
      BY <2>1, <3>1, <3>2 DEF VarintsUpTo
    <3> QED BY <3>3
  <2>2. CASE i > 0
    <3>1. i - 1 \in T
      BY <1>1, <2>2
    <3>2. PICK g : VarintsUpTo(g, i - 1)
      BY <3>1
    <3> DEFINE x == VarintBody(g[i \div Group], i)
               h == [v \in 0 .. i |-> IF v = i THEN x ELSE g[v]]
    <3>3. x \in Seq(Byte)
      <4>1. i >= Group => i \div Group \in 0 .. i - 1
        <5>1. SUFFICES ASSUME i >= Group PROVE i \div Group \in 0 .. i - 1
          OBVIOUS
        <5>2. i \div Group \in Nat /\ i \div Group < i
          BY <5>1, Quotient
        <5> QED BY <5>2
      <4>2. i >= Group => g[i \div Group] \in Seq(Byte)
        BY <4>1, <3>2 DEF VarintsUpTo
      <4> QED BY <4>2, BodyType
    <3>4. h \in [0 .. i -> Seq(Byte)]
      BY <3>2, <3>3 DEF VarintsUpTo
    <3>5. ASSUME NEW v \in 0 .. i PROVE h[v] = VarintBody(h[v \div Group], v)
      <4>1. v >= Group => v \div Group \in 0 .. i - 1
        <5>1. SUFFICES ASSUME v >= Group PROVE v \div Group \in 0 .. i - 1
          OBVIOUS
        <5>2. v \in Nat
          OBVIOUS
        <5>3. v \div Group \in Nat /\ v \div Group < v
          BY <5>1, <5>2, Quotient
        <5> QED BY <5>3
      <4>2. v >= Group => h[v \div Group] = g[v \div Group]
        BY <4>1
      <4>3. VarintBody(h[v \div Group], v) = VarintBody(g[v \div Group], v)
        BY <4>2, GroupFacts DEF VarintBody
      <4>4. h[v] = VarintBody(g[v \div Group], v)
        <5>1. CASE v = i
          BY <5>1
        <5>2. CASE v # i
          <6>1. v \in 0 .. i - 1 /\ h[v] = g[v]
            BY <5>2
          <6> QED BY <6>1, <3>2 DEF VarintsUpTo
        <5> QED BY <5>1, <5>2
      <4> QED BY <4>3, <4>4
    <3> HIDE DEF h
    <3>6. VarintsUpTo(h, i)
      BY <3>4, <3>5 DEF VarintsUpTo
    <3> QED BY <3>6
  <2> QED BY <2>1, <2>2
<1> HIDE DEF T
<1>2. \A i \in Nat : i \in T
  BY <1>1, Induction
<1> QED BY <1>2 DEF T

LEMMA VarintsAgree ==
  ASSUME NEW g, NEW m \in Nat, VarintsUpTo(g, m), NEW h, NEW n \in Nat, VarintsUpTo(h, n)
  PROVE  \A v \in Nat : v <= m /\ v <= n => g[v] = h[v]
<1> DEFINE T == {v \in Nat : v <= m /\ v <= n => g[v] = h[v]}
<1>1. ASSUME NEW v \in Nat, \A u \in 0 .. v - 1 : u \in T PROVE v \in T
  <2>1. SUFFICES ASSUME v <= m, v <= n PROVE g[v] = h[v]
    OBVIOUS
  <2>2. g[v] = VarintBody(g[v \div Group], v) /\ h[v] = VarintBody(h[v \div Group], v)
    BY <2>1 DEF VarintsUpTo
  <2>3. v >= Group => g[v \div Group] = h[v \div Group]
    BY <1>1, <2>1, Quotient, GroupFacts
  <2> QED BY <2>2, <2>3, GroupFacts DEF VarintBody
<1> HIDE DEF T
<1>2. \A v \in Nat : v \in T
  BY <1>1, Induction
<1> QED BY <1>2 DEF T

\* Varint is what its definition says.
LEMMA VarintUnfolds ==
  ASSUME NEW v \in Nat
  PROVE  Varint[v] = VarintBody(Varint[v \div Group], v)
<1> DEFINE upto(n) == CHOOSE g : VarintsUpTo(g, n)
           f == [n \in Nat |-> upto(n)[n]]
<1>1. \A n \in Nat : VarintsUpTo(upto(n), n)
  BY VarintsExist
<1> HIDE DEF upto
<1>2. ASSUME NEW n \in Nat PROVE f[n] = VarintBody(f[n \div Group], n)
  <2>1. upto(n)[n] = VarintBody(upto(n)[n \div Group], n)
    BY <1>1 DEF VarintsUpTo
  <2>2. ASSUME n >= Group PROVE upto(n)[n \div Group] = f[n \div Group]
    <3>1. n \div Group \in Nat /\ n \div Group < n
      BY <2>2, Quotient
    <3>2. upto(n)[n \div Group] = upto(n \div Group)[n \div Group]
      BY <3>1, <1>1, VarintsAgree
    <3> QED BY <3>1, <3>2
  <2>3. VarintBody(upto(n)[n \div Group], n) = VarintBody(f[n \div Group], n)
    BY <2>2, GroupFacts DEF VarintBody
  <2> QED BY <2>1, <2>3
<1> HIDE DEF f
<1>3. f = [n \in Nat |-> IF LastGroup(n) THEN <<n>>
                         ELSE <<(n % Group) + Group>> \o f[n \div Group]]
  <2>1. f = [n \in Nat |-> f[n]]
    BY DEF f
  <2>2. \A n \in Nat : f[n] = IF LastGroup(n) THEN <<n>>
                              ELSE <<(n % Group) + Group>> \o f[n \div Group]
    BY <1>2 DEF VarintBody, LastGroup
  <2> QED BY <2>1, <2>2
<1>4. Varint = [n \in Nat |-> IF LastGroup(n) THEN <<n>>
                              ELSE <<(n % Group) + Group>> \o Varint[n \div Group]]
  BY <1>3 DEF Varint
<1> QED BY <1>4 DEF VarintBody, LastGroup

\* What the varint of v looks like: the groups of v, as many as it takes, all
\* but the last flagged.
IsVarint(s, v) ==
  LET n == Len(s)
  IN  /\ s \in Seq(Byte) /\ n >= 1
      /\ v < Power(Group, n)
      /\ n > 1 => Power(Group, n - 1) <= v
      /\ \A i \in 1 .. n : s[i] % Group = (v \div Power(Group, i - 1)) % Group
      /\ \A i \in 1 .. n : i < n <=> s[i] >= Group

LEMMA VarintFacts ==
  \A v \in Nat : IsVarint(Varint[v], v)
<1> DEFINE T == {v \in Nat : IsVarint(Varint[v], v)}
<1>0. Group \in Nat \ {0} /\ Group \in Nat /\ Group >= 2
  BY GroupFacts
<1>p. Power(Group, 0) = 1 /\ \A n \in Nat : Power(Group, n) \in Nat /\ Power(Group, n + 1) = Group * Power(Group, n)
  BY <1>0, PowerStep
<1>q. Power(Group, 1) = Group
  <2>1. 0 \in Nat /\ Power(Group, 0 + 1) = Group * Power(Group, 0)
    BY <1>p
  <2> QED BY <2>1, <1>p, <1>0
<1>1. ASSUME NEW v \in Nat, \A m \in 0 .. v - 1 : m \in T PROVE v \in T
  <2>1. CASE v < Group
    <3>1. Varint[v] = <<v>>
      BY <2>1, VarintUnfolds DEF VarintBody
    <3>2. v \div 1 = v
      OBVIOUS
    <3>3. <<v>> \in Seq(Byte) /\ Len(<<v>>) = 1 /\ <<v>>[1] = v
      BY <2>1, GroupFacts DEF Byte
    <3>4. IsVarint(<<v>>, v)
      BY <3>2, <3>3, <2>1, <1>p, <1>q, <1>0 DEF IsVarint
    <3> QED BY <3>1, <3>4
  <2>2. CASE v >= Group
    <3> DEFINE q == v \div Group  r == v % Group  t == Varint[q]  m == Len(t)
               s == <<r + Group>> \o t
    <3>1. q \in Nat /\ q < v /\ r \in 0 .. Group - 1 /\ v = Group * q + r
      <4>1. q \in Nat /\ q < v /\ r \in 0 .. Group - 1
        BY <2>2, Quotient
      <4>2. v = Group * q + r
        BY <1>0, DivMod
      <4> QED BY <4>1, <4>2
    <3>2. Varint[v] = s
      <4>1. ~(v < Group)
        BY <2>2, <1>0
      <4> QED BY <4>1, VarintUnfolds DEF VarintBody
    <3>d. \A j \in Nat : v \div Power(Group, j + 1) = q \div Power(Group, j)
      <4> SUFFICES ASSUME NEW j \in Nat PROVE v \div Power(Group, j + 1) = q \div Power(Group, j)
        OBVIOUS
      <4>1. Power(Group, j) \in Nat \ {0}
        BY <1>0, PowerPositive
      <4>2. v \div (Group * Power(Group, j)) = (v \div Group) \div Power(Group, j)
        BY <4>1, <1>0, DivTwice, Zenon
      <4> QED BY <4>2, <1>p
    <3> HIDE DEF q, r
    <3>3. IsVarint(t, q)
      BY <1>1, <3>1
    <3> HIDE DEF t
    <3>4. t \in Seq(Byte) /\ m \in Nat /\ m >= 1
      BY <3>3 DEF IsVarint
    <3>5. r + Group \in Byte /\ r + Group >= Group
      BY <3>1, GroupFacts DEF Byte
    <3>6. s \in Seq(Byte) /\ Len(s) = m + 1 /\ s[1] = r + Group
          /\ \A i \in 1 .. m : s[i + 1] = t[i]
      BY <3>4, <3>5
    <3>7. v < Power(Group, m + 1)
      <4>1. q < Power(Group, m) /\ Power(Group, m) \in Nat
        BY <3>3, <3>4, <1>p DEF IsVarint
      <4>2. Group * q + Group <= Group * Power(Group, m)
        BY <4>1, <3>1, <1>0, NextMultiple
      <4> DEFINE x == Group * q
                 y == Group * Power(Group, m)
      <4>3. x \in Nat /\ y \in Nat
        BY <3>1, <4>1, <1>0
      <4>4. v = x + r /\ x + Group <= y /\ Power(Group, m + 1) = y
        BY <4>2, <3>1, <3>4, <1>p
      <4> HIDE DEF x, y
      <4> QED BY <4>3, <4>4, <3>1, <1>0
    <3>8. Power(Group, m) <= v
      <4>1. CASE m = 1
        BY <4>1, <2>2, <1>q
      <4>2. CASE m > 1
        <5> DEFINE w == Power(Group, m - 1)
        <5>1. w <= q /\ w \in Nat /\ Power(Group, m) = Group * w
          <6>1. m - 1 \in Nat /\ (m - 1) + 1 = m
            BY <4>2, <3>4
          <6>2. w <= q
            BY <4>2, <3>3 DEF IsVarint
          <6>3. w \in Nat /\ Power(Group, (m - 1) + 1) = Group * w
            BY <6>1, <1>p
          <6> QED BY <6>1, <6>2, <6>3
        <5> HIDE DEF w
        <5>2. Group * w <= Group * q
          <6>1. CASE w = q
            BY <6>1, <3>1, <1>0
          <6>2. CASE w < q
            <7>1. Group * w + Group <= Group * q
              BY <6>2, <5>1, <3>1, <1>0, NextMultiple
            <7>2. Group * w \in Nat /\ Group * q \in Nat
              BY <5>1, <3>1, <1>0
            <7> QED BY <7>1, <7>2, <1>0
          <6> QED BY <6>1, <6>2, <5>1, <3>1
        <5> DEFINE x == Group * q  y == Group * w
        <5>3. x \in Nat /\ y \in Nat /\ y <= x /\ v = x + r /\ Power(Group, m) = y
          BY <5>1, <5>2, <3>1, <1>0
        <5> HIDE DEF x, y
        <5> QED BY <5>3, <3>1
      <4> HIDE DEF m
      <4> QED BY <4>1, <4>2, <3>4
    <3>9. ASSUME NEW i \in 1 .. m + 1
          PROVE  s[i] % Group = (v \div Power(Group, i - 1)) % Group
      <4>1. CASE i = 1
        <5>1. (r + Group) % Group = r
          <6>1. r + Group = Group * 1 + r
            BY <3>1, <1>0
          <6>2. r + Group \in Int /\ 1 \in Int
            BY <3>1, <1>0
          <6> QED BY <6>1, <6>2, <3>1, <1>0, DivUnique, Zenon
        <5>2. v \div 1 = v
          OBVIOUS
        <5>3. v % Group = r
          BY DEF r
        <5> QED BY <4>1, <5>1, <5>2, <5>3, <3>6, <1>p
      <4>2. CASE i > 1
        <5>1. i - 1 \in 1 .. m /\ (i - 1) + 1 = i /\ (i - 1) - 1 \in Nat /\ ((i - 1) - 1) + 1 = i - 1
          BY <4>2, <3>4
        <5>2. s[i] = t[i - 1]
          BY <5>1, <3>6
        <5>3. t[i - 1] % Group = (q \div Power(Group, (i - 1) - 1)) % Group
          BY <5>1, <3>3 DEF IsVarint
        <5>4. v \div Power(Group, i - 1) = q \div Power(Group, (i - 1) - 1)
          BY <5>1, <3>d
        <5> QED BY <5>2, <5>3, <5>4
      <4> QED BY <4>1, <4>2, <3>4
    <3>10. ASSUME NEW i \in 1 .. m + 1
           PROVE  i < m + 1 <=> s[i] >= Group
      <4>1. CASE i = 1
        BY <4>1, <3>4, <3>5, <3>6
      <4>2. CASE i > 1
        <5>1. i - 1 \in 1 .. m /\ (i - 1) + 1 = i
          BY <4>2, <3>4
        <5>2. s[i] = t[i - 1]
          BY <5>1, <3>6
        <5>3. i - 1 < m <=> t[i - 1] >= Group
          BY <5>1, <3>3 DEF IsVarint
        <5> QED BY <5>1, <5>2, <5>3, <3>4
      <4> QED BY <4>1, <4>2, <3>4
    <3> HIDE DEF s, m
    <3>11. IsVarint(s, v)
      <4>1. (m + 1) - 1 = m
        BY <3>4
      <4> QED BY <4>1, <3>6, <3>7, <3>8, <3>9, <3>10, <3>4 DEF IsVarint
    <3> QED BY <3>2, <3>11
  <2> QED BY <2>1, <2>2, <1>0
<1> HIDE DEF T
<1>2. \A v \in Nat : v \in T
  BY <1>1, Induction
<1> QED BY <1>2 DEF T

\* The loop of a reader is long enough for every value of the type.
LEMMA EnoughGroups ==
  ASSUME NEW k \in DOMAIN WordBits, NEW v \in 0 .. Word(k) - 1, NEW s, IsVarint(s, v)
  PROVE  Groups(k) \in Nat /\ Len(s) <= Groups(k)
<1> DEFINE W == WordBits[k]  B == GroupBits  c == Groups(k)  n == Len(s)
<1>1. W \in Nat \ {0} /\ B \in Nat \ {0}
  BY CodecAssumption
<1>2. c \in Nat /\ W <= B * c /\ B * c \in Nat
  <2> DEFINE x == W + B - 1
  <2>1. x \in Nat
    BY <1>1
  <2>2. c = x \div B
    BY DEF Groups
  <2> HIDE DEF x
  <2>3. x = B * (x \div B) + (x % B) /\ x % B \in 0 .. B - 1 /\ x \div B \in Nat
    <3>1. x \in Int /\ B \in Nat \ {0}
      BY <2>1, <1>1
    <3> HIDE DEF B
    <3>2. x = B * (x \div B) + (x % B) /\ x % B \in 0 .. B - 1
      BY <3>1, DivMod
    <3>3. x \div B \in Nat
      BY <3>1, <2>1, DivNat
    <3> QED BY <3>2, <3>3
  <2> HIDE DEF c
  <2> DEFINE y == B * c  r == x % B
  <2>4. x = y + r /\ r \in 0 .. B - 1 /\ c \in Nat
    BY <2>2, <2>3
  <2>5. y \in Nat
    BY <2>4, <1>1
  <2>6. x = W + B - 1
    BY DEF x
  <2> HIDE DEF y, r, W, B
  <2>7. W <= y
    BY <2>4, <2>5, <2>6, <1>1
  <2> QED BY <2>4, <2>5, <2>7 DEF y
<1> HIDE DEF c
<1>3. n \in Nat /\ n >= 1 /\ (n > 1 => Power(Group, n - 1) <= v)
  BY DEF IsVarint
<1> HIDE DEF n
<1>4. c >= 1
  <2>1. ASSUME c = 0 PROVE FALSE
    <3>1. B * 0 = 0
      BY <1>1
    <3> QED BY <2>1, <3>1, <1>1, <1>2
  <2> QED BY <2>1, <1>2
<1>5. ASSUME n > c PROVE FALSE
  <2>1. n > 1 /\ n - 1 \in Nat /\ (n - 1) - c \in Nat /\ c + ((n - 1) - c) = n - 1
    BY <1>5, <1>4, <1>3, <1>2
  <2>2. Power(Group, c) <= Power(Group, n - 1)
    <3>1. Group \in Nat \ {0}
      BY GroupFacts
    <3>2. Power(Group, c) <= Power(Group, c + ((n - 1) - c))
      BY <2>1, <3>1, <1>2, PowerGrows
    <3> QED BY <3>2, <2>1
  <2>3. Power(Group, c) = Power(2, B * c)
    BY <1>1, <1>2, PowerOfPower DEF Group
  <2>4. Power(2, W) <= Power(2, B * c)
    <3> DEFINE y == B * c
    <3>1. y \in Nat /\ W \in Nat /\ W <= y
      BY <1>1, <1>2
    <3> HIDE DEF y, W
    <3>2. y - W \in Nat /\ W + (y - W) = y
      BY <3>1
    <3>3. Power(2, W) <= Power(2, W + (y - W))
      <4>1. 2 \in Nat \ {0}
        OBVIOUS
      <4> QED BY <3>1, <3>2, <4>1, PowerGrows
    <3> QED BY <3>2, <3>3 DEF y
  <2>5. Power(Group, n - 1) <= v /\ v < Word(k) /\ Word(k) = Power(2, W) /\ v \in Int
    <3>1. Word(k) = Power(2, W)
      BY DEF Word
    <3>2. Power(2, W) \in Nat
      BY <1>1, PowerStep
    <3> QED BY <3>1, <3>2, <1>3, <2>1
  <2>6. Power(2, W) \in Nat /\ Power(2, B * c) \in Nat /\ Power(Group, n - 1) \in Nat
    <3>1. Group \in Nat
      BY GroupFacts
    <3> QED BY <3>1, <1>1, <1>2, <2>1, PowerStep
  <2> HIDE DEF W, B
  <2> QED BY <2>2, <2>3, <2>4, <2>5, <2>6
<1>6. n <= c
  BY <1>2, <1>3, <1>5
<1> QED BY <1>2, <1>6 DEF n, c

\* A reader that finds a varint goes to its end, whatever comes after.
LEMMA VarintEnd ==
  ASSUME NEW k \in DOMAIN WordBits, NEW v \in 0 .. Word(k) - 1, NEW e, IsVarint(e, v),
         NEW s \in Seq(Byte), Len(e) <= Len(s), \A i \in 1 .. Len(e) : s[i] = e[i]
  PROVE  VarintLength(k, s) = Len(e)
<1> DEFINE n == Len(e)  last == {i \in DOMAIN s : s[i] < Group} \cup {Groups(k)}
<1>1. n \in Nat /\ n >= 1 /\ e \in Seq(Byte) /\ \A i \in 1 .. n : i < n <=> e[i] >= Group
  BY DEF IsVarint
<1>2. Groups(k) \in Nat /\ n <= Groups(k)
  BY EnoughGroups
<1>3. DOMAIN s = 1 .. Len(s) /\ Len(s) \in Nat /\ \A i \in 1 .. Len(s) : s[i] \in Nat
  <2>1. s \in Seq(Nat)
    BY GroupFacts, SeqMonotonic
  <2> QED BY <2>1
<1>4. n \in last
  <2>1. ~(e[n] >= Group) /\ s[n] = e[n] /\ n \in DOMAIN s
    BY <1>1, <1>3
  <2> QED BY <2>1, <1>3, GroupFacts
<1>5. \A m \in last : n <= m
  <2>1. SUFFICES ASSUME NEW m \in DOMAIN s, s[m] < Group, m < n PROVE FALSE
    BY <1>1, <1>2, <1>3
  <2>2. m \in 1 .. n /\ e[m] >= Group /\ s[m] = e[m]
    BY <2>1, <1>1, <1>3
  <2> QED BY <2>1, <2>2, <1>3, GroupFacts
<1>6. last \subseteq Nat
  BY <1>2, <1>3
<1>7. VarintLength(k, s) = CHOOSE i \in last : \A m \in last : i <= m
  BY DEF VarintLength
<1> HIDE DEF last
<1>8. \A i \in last : (\A m \in last : i <= m) => i = n
  BY <1>4, <1>5, <1>6, <1>1
<1> QED BY <1>4, <1>5, <1>7, <1>8

LEMMA VarintRoundTrip ==
  ASSUME NEW k \in DOMAIN WordBits, NEW v \in 0 .. Word(k) - 1, NEW e, IsVarint(e, v)
  PROVE  DecodeVarint(k, e) = v
<1> DEFINE n == Len(e)  d == [i \in 1 .. n |-> e[i] % Group]
<1>1. n \in Nat /\ v < Power(Group, n)
      /\ \A i \in 1 .. n : e[i] \in Nat /\ e[i] % Group = (v \div Power(Group, i - 1)) % Group
  <2>1. e \in Seq(Nat)
    BY GroupFacts, SeqMonotonic DEF IsVarint
  <2> QED BY <2>1 DEF IsVarint
<1>2. Group \in Nat \ {0}
  BY GroupFacts
<1>3. Word(k) \in Nat \ {0}
  <2>1. WordBits[k] \in Nat /\ 2 \in Nat \ {0}
    BY CodecAssumption
  <2> QED BY <2>1, PowerPositive DEF Word
<1>4. v \in Nat /\ v % Word(k) = v
  BY <1>3, DivNat
<1>5. \A i \in 1 .. n : e[i] % Group \in Nat
  <2> SUFFICES ASSUME NEW i \in 1 .. n PROVE e[i] % Group \in Nat
    OBVIOUS
  <2>1. e[i] \in Int
    BY <1>1
  <2>2. e[i] % Group \in 0 .. Group - 1
    BY <2>1, <1>2, DivMod
  <2> QED BY <2>2, <1>2
<1>6. d \in Seq(Nat) /\ Len(d) = n /\ \A i \in 1 .. n : d[i] = (v \div Power(Group, i - 1)) % Group
  BY <1>1, <1>5
<1>7. DecodeVarint(k, e) = Value(d, Group) % Word(k)
  BY DEF DecodeVarint
<1> HIDE DEF d
<1>8. Value(d, Group) = v % Power(Group, n)
  BY <1>2, <1>4, <1>6, DigitsValue
<1>9. v % Power(Group, n) = v
  <2>1. Power(Group, n) \in Nat \ {0}
    BY <1>1, <1>2, PowerPositive
  <2> QED BY <2>1, <1>1, <1>4, DivNat
<1> QED BY <1>4, <1>7, <1>8, <1>9

-----------------------------------------------------------------------------
(* Zigzag, numbers, fields.                                                *)

LEMMA WordFacts ==
  ASSUME NEW k \in DOMAIN WordBits
  PROVE  Word(k) \in Nat \ {0} /\ \E h \in Nat \ {0} : Word(k) = 2 * h /\ Word(k) \div 2 = h
<1>1. WordBits[k] - 1 \in Nat /\ (WordBits[k] - 1) + 1 = WordBits[k] /\ 2 \in Nat \ {0}
  BY CodecAssumption
<1> DEFINE h == Power(2, WordBits[k] - 1)
<1>2. h \in Nat \ {0} /\ Word(k) = 2 * h
  <2>1. h \in Nat \ {0}
    BY <1>1, PowerPositive
  <2>2. Power(2, (WordBits[k] - 1) + 1) = 2 * h
    BY <1>1, PowerStep
  <2> QED BY <1>1, <2>1, <2>2 DEF Word
<1> HIDE DEF h
<1>3. Word(k) \in Nat \ {0} /\ Word(k) \div 2 = h
  BY <1>2
<1> QED BY <1>2, <1>3

\* Zigzag is a bijection between the signed and the unsigned numbers of a word.
LEMMA ZigzagRoundTrip ==
  ASSUME NEW h \in Nat \ {0}, NEW v \in -h .. h - 1
  PROVE  EncodeZigzag(2 * h, v) \in 0 .. 2 * h - 1 /\ DecodeZigzag(EncodeZigzag(2 * h, v)) = v
<1>1. \A x \in 0 .. 2 * h - 1 : x % (2 * h) = x
  <2> SUFFICES ASSUME NEW x \in 0 .. 2 * h - 1 PROVE x % (2 * h) = x
    OBVIOUS
  <2>1. 2 * h \in Nat \ {0} /\ x \in Nat /\ x < 2 * h
    OBVIOUS
  <2> DEFINE m == 2 * h
  <2> HIDE DEF m
  <2>2. m \in Nat \ {0} /\ x \in Nat /\ x < m
    BY <2>1 DEF m
  <2>3. x % m = x
    BY <2>2, DivNat
  <2> QED BY <2>3 DEF m
<1>2. CASE v >= 0
  <2>1. 2 * v \in 0 .. 2 * h - 1 /\ ~(v < 0)
    BY <1>2
  <2>2. EncodeZigzag(2 * h, v) = 2 * v
    BY <2>1, <1>1 DEF EncodeZigzag
  <2>3. (2 * v) % 2 = 0 /\ (2 * v) \div 2 = v
    BY <1>2
  <2> QED BY <2>1, <2>2, <2>3 DEF DecodeZigzag
<1>3. CASE v < 0
  <2>1. 2 * (-v) - 1 \in 0 .. 2 * h - 1
    BY <1>3
  <2>2. EncodeZigzag(2 * h, v) = 2 * (-v) - 1
    BY <2>1, <1>1, <1>3 DEF EncodeZigzag
  <2>3. (2 * (-v) - 1) % 2 = 1 /\ (2 * (-v) - 1) \div 2 = -v - 1
    BY <1>3
  <2>4. -(-v - 1) - 1 = v
    OBVIOUS
  <2> QED BY <2>1, <2>2, <2>3, <2>4 DEF DecodeZigzag
<1> QED BY <1>2, <1>3

\* What is known of the encoding of a number: a reader that starts at it reads
\* all of it, and reads the number if its type holds it.
Starts(s, e) == Len(e) <= Len(s) /\ \A i \in 1 .. Len(e) : s[i] = e[i]

LEMMA NumberRoundTrip ==
  ASSUME NEW p, IsNumber(p), NEW u, NEW little \in BOOLEAN,
         IF p \in DOMAIN Width THEN u \in Nat ELSE u \in NumberRange(p)
  PROVE  LET e == EncodeNumber(p, u, little)
         IN  /\ e \in Seq(Byte)
             /\ \A s \in Seq(Byte) : Starts(s, e) => NumberLength(p, s) = Len(e)
             /\ u \in NumberRange(p) => DecodeNumber(p, e, little) = u
<1> DEFINE e == EncodeNumber(p, u, little)
<1>1. CASE p \in DOMAIN Width
  <2>1. e = EncodeFixed(p, u, little) /\ u \in Nat
    BY <1>1 DEF EncodeNumber
  <2>2. e \in Seq(Byte) /\ Len(e) = Width[p]
    BY <2>1, <1>1, FixedType
  <2>3. \A s \in Seq(Byte) : NumberLength(p, s) = Len(e)
    BY <2>2, <1>1 DEF NumberLength
  <2>4. ASSUME u \in NumberRange(p) PROVE DecodeNumber(p, e, little) = u
    <3>1. u \in 0 .. FixedModulus(p) - 1
      BY <2>4, <1>1 DEF NumberRange
    <3>2. DecodeFixed(p, EncodeFixed(p, u, little), little) = u
      BY <3>1, <1>1, FixedRoundTrip
    <3> QED BY <3>2, <2>1, <1>1 DEF DecodeNumber
  <2> QED BY <2>2, <2>3, <2>4
<1>2. CASE p \notin DOMAIN Width
  <2> DEFINE k == VarintOf[p]
             w == IF IsZigzag(p) THEN EncodeZigzag(Word(k), u) ELSE u
  <2>1. k \in DOMAIN WordBits
    BY <1>2 DEF IsNumber
  <2>2. e = Varint[w]
    BY <1>2 DEF EncodeNumber
  <2>r. u \in IF IsZigzag(p) THEN -(Word(k) \div 2) .. (Word(k) \div 2) - 1 ELSE 0 .. Word(k) - 1
    BY <1>2 DEF NumberRange
  <2> HIDE DEF k
  <2>3. w \in 0 .. Word(k) - 1 /\ (IF IsZigzag(p) THEN DecodeZigzag(w) ELSE w) = u
    <3>1. CASE IsZigzag(p)
      <4>1. PICK h \in Nat \ {0} : Word(k) = 2 * h /\ Word(k) \div 2 = h
        BY <2>1, WordFacts
      <4>2. u \in -h .. h - 1
        BY <4>1, <2>r, <3>1
      <4>3. EncodeZigzag(2 * h, u) \in 0 .. 2 * h - 1 /\ DecodeZigzag(EncodeZigzag(2 * h, u)) = u
        BY <4>2, ZigzagRoundTrip
      <4> QED BY <4>1, <4>3, <3>1
    <3>2. CASE ~IsZigzag(p)
      BY <3>2, <2>r
    <3> QED BY <3>1, <3>2
  <2> DEFINE z == w
  <2> HIDE DEF w
  <2>4. IsVarint(e, w)
    <3>1. w \in Nat
      BY <2>1, <2>3, WordFacts
    <3> QED BY <3>1, <2>2, VarintFacts
  <2> HIDE DEF e
  <2>5. e \in Seq(Byte)
    BY <2>4 DEF IsVarint
  <2>6. ASSUME NEW s \in Seq(Byte), Starts(s, e) PROVE NumberLength(p, s) = Len(e)
    <3>1. VarintLength(k, s) = Len(e)
      BY <2>1, <2>3, <2>4, <2>6, VarintEnd DEF Starts
    <3> QED BY <3>1, <1>2 DEF NumberLength, k
  <2>7. DecodeNumber(p, e, little) = u
    <3>1. DecodeVarint(k, e) = w
      BY <2>1, <2>3, <2>4, VarintRoundTrip
    <3> QED BY <3>1, <2>3, <1>2 DEF DecodeNumber, k
  <2> QED BY <2>5, <2>6, <2>7 DEF e
<1> QED BY <1>1, <1>2

\* What the loops of the readers assemble from any bytes is a natural number,
\* of as many bytes as the kind says or the flags.
LEMMA NumberRead ==
  ASSUME NEW p, IsNumber(p), NEW s \in Seq(Byte)
  PROVE  /\ NumberLength(p, s) \in Nat
         /\ \A b \in Seq(Byte), little \in BOOLEAN :
              ~IsZigzag(p) => DecodeNumber(p, b, little) \in Nat
<1>1. CASE p \in DOMAIN Width
  <2>1. NumberLength(p, s) \in Nat
    BY <1>1, CodecAssumption DEF NumberLength
  <2>2. ASSUME NEW b \in Seq(Byte), NEW little \in BOOLEAN
        PROVE  DecodeNumber(p, b, little) \in Nat
    <3> DEFINE d == InOrder(b, little)
    <3>1. d \in Seq(Nat)
      BY ReverseTwice, GroupFacts, SeqMonotonic DEF InOrder
    <3> HIDE DEF d
    <3>2. Value(d, Radix) \in Nat
      <4>1. PICK g \in [0 .. Len(d) -> Nat] : Value(d, Radix) = g[Len(d)]
        BY <3>1, GroupFacts, ValueCounts
      <4>2. Len(d) \in 0 .. Len(d)
        BY <3>1
      <4> QED BY <4>1, <4>2
    <3> QED BY <3>2, <1>1 DEF DecodeNumber, DecodeFixed, d
  <2> QED BY <2>1, <2>2
<1>2. CASE p \notin DOMAIN Width
  <2> DEFINE k == VarintOf[p]
  <2>1. k \in DOMAIN WordBits
    BY <1>2 DEF IsNumber
  <2>2. NumberLength(p, s) \in Nat
    <3> DEFINE last == {i \in DOMAIN s : s[i] < Group} \cup {Groups(k)}
    <3>0. Groups(k) \in Nat
      <4>1. WordBits[k] + GroupBits - 1 \in Nat /\ GroupBits \in Nat \ {0}
        BY <2>1, CodecAssumption
      <4> DEFINE x == WordBits[k] + GroupBits - 1
      <4> HIDE DEF x
      <4>2. x \div GroupBits \in Nat
        BY <4>1, DivNat DEF x
      <4> QED BY <4>2 DEF Groups, x
    <3>1. last \subseteq Nat /\ last # {}
      BY <3>0
    <3>2. NumberLength(p, s) = CHOOSE n \in last : \A m \in last : n <= m
      BY <1>2 DEF NumberLength, VarintLength
    <3> HIDE DEF last
    <3>3. \E n \in last : \A m \in last : n <= m
      BY <3>1, Least
    <3> QED BY <3>1, <3>2, <3>3
  <2>3. ASSUME NEW b \in Seq(Byte), NEW little \in BOOLEAN, ~IsZigzag(p)
        PROVE  DecodeNumber(p, b, little) \in Nat
    <3> DEFINE d == [i \in 1 .. Len(b) |-> b[i] % Group]
    <3>1. d \in Seq(Nat)
      <4>1. ASSUME NEW i \in 1 .. Len(b) PROVE b[i] % Group \in Nat
        <5>1. b \in Seq(Nat)
          BY GroupFacts, SeqMonotonic
        <5>2. b[i] \in Int /\ Group \in Nat \ {0}
          BY <5>1, GroupFacts
        <5>3. b[i] % Group \in 0 .. Group - 1
          BY <5>2, DivMod
        <5> QED BY <5>3, <5>2
      <4> QED BY <4>1
    <3> HIDE DEF d
    <3>2. Value(d, Group) \in Nat
      <4>1. PICK g \in [0 .. Len(d) -> Nat] : Value(d, Group) = g[Len(d)]
        BY <3>1, GroupFacts, ValueCounts
      <4>2. Len(d) \in 0 .. Len(d)
        BY <3>1
      <4> QED BY <4>1, <4>2
    <3>3. Value(d, Group) % Word(k) \in Nat
      <4>1. Word(k) \in Nat \ {0} /\ Value(d, Group) \in Int
        BY <2>1, <3>2, WordFacts
      <4>2. Value(d, Group) % Word(k) \in 0 .. Word(k) - 1
        BY <4>1, DivMod
      <4> QED BY <4>1, <4>2
    <3> QED BY <3>3, <2>3, <1>2 DEF DecodeNumber, DecodeVarint, d
  <2> QED BY <2>2, <2>3
<1> QED BY <1>1, <1>2

LEMMA PrefixNumber ==
  ASSUME NEW k, IsString(k)
  PROVE  ~IsZigzag(Prefix[k]) /\ ~IsString(Prefix[k])
BY DEF IsString, IsZigzag, Prefix

\* A read takes no more than there is.
LEMMA DecodeUses ==
  ASSUME NEW k \in DOMAIN Samples, NEW s \in Seq(Byte), NEW little \in BOOLEAN
  PROVE  Decode(k, s, little).used \in 0 .. Len(s)
<1> DEFINE p == IF IsString(k) THEN Prefix[k] ELSE k
           n == NumberLength(p, s)
           number == DecodeNumber(p, SubSeq(s, 1, n), little)
<1>1. IsNumber(p)
  BY SamplesAssumption
<1>2. n \in Nat
  BY <1>1, NumberRead
<1>3. n <= Len(s) /\ IsString(k) => number \in Nat
  <2>1. SUFFICES ASSUME n <= Len(s), IsString(k) PROVE number \in Nat
    OBVIOUS
  <2>2. SubSeq(s, 1, n) \in Seq(Byte)
    BY <1>2, <2>1, SubSeqProperties
  <2>3. ~IsZigzag(p)
    BY <2>1, PrefixNumber
  <2> QED BY <1>1, <2>2, <2>3, NumberRead
<1>4. Len(s) \in Nat
  OBVIOUS
<1>5. Decode(k, s, little).used =
        IF n > Len(s) THEN IF p \in DOMAIN Width THEN 0 ELSE Len(s)
        ELSE IF ~IsString(k) \/ n + number > Len(s) THEN n ELSE n + number
  BY DEF Decode
<1> HIDE DEF n, number, p
<1> QED BY <1>2, <1>3, <1>4, <1>5

LEMMA EncodeType ==
  ASSUME NEW k \in DOMAIN Samples, NEW v \in Samples[k], NEW little \in BOOLEAN
  PROVE  Encode(k, v, little) \in Seq(Byte)
<1>1. CASE IsString(k)
  <2>1. EncodeNumber(Prefix[k], Len(v), little) \in Seq(Byte)
    <3>1. IsNumber(Prefix[k]) /\ Len(v) \in Nat
          /\ (Prefix[k] \notin DOMAIN Width => Len(v) \in NumberRange(Prefix[k]))
      BY <1>1, SamplesAssumption
    <3> QED BY <3>1, NumberRoundTrip
  <2>2. v \in Seq(Byte)
    BY <1>1, SamplesAssumption
  <2> QED BY <1>1, <2>1, <2>2, ConcatProperties DEF Encode
<1>2. CASE ~IsString(k)
  <2>1. IsNumber(k) /\ v \in NumberRange(k)
    BY <1>2, SamplesAssumption
  <2>2. k \in DOMAIN Width => v \in Nat
    <3>1. SUFFICES ASSUME k \in DOMAIN Width PROVE v \in Nat
      OBVIOUS
    <3>2. v \in 0 .. FixedModulus(k) - 1 /\ FixedModulus(k) \in Nat
      BY <2>1, <3>1, CodecAssumption, PowerPositive, GroupFacts DEF NumberRange, FixedModulus
    <3> QED BY <3>2
  <2>3. EncodeNumber(k, v, little) \in Seq(Byte)
    BY <2>1, <2>2, NumberRoundTrip
  <2> QED BY <1>2, <2>3 DEF Encode
<1> QED BY <1>1, <1>2

\* A value that fits reads back from bytes that start with its encoding.
LEMMA DecodeEncode ==
  ASSUME NEW k \in DOMAIN Samples, NEW v \in Samples[k], NEW little \in BOOLEAN,
         Fits(k, v), NEW s \in Seq(Byte), Starts(s, Encode(k, v, little))
  PROVE  LET d == Decode(k, s, little)
         IN  d.used = Len(Encode(k, v, little)) /\ ~d.thrown /\ d.value = v
<1> DEFINE p == IF IsString(k) THEN Prefix[k] ELSE k
           u == IF IsString(k) THEN Len(v) ELSE v
           e == EncodeNumber(p, u, little)
           n == NumberLength(p, s)
           number == DecodeNumber(p, SubSeq(s, 1, n), little)
<1>1. IsNumber(p) /\ u \in NumberRange(p)
  <2>1. CASE ~IsString(k)
    BY <2>1, SamplesAssumption
  <2>2. CASE IsString(k)
    <3>1. IsNumber(p) /\ Len(v) \in Nat
      BY <2>2, SamplesAssumption
    <3>2. CASE p \in DOMAIN Width
      <4>0. FixedModulus(p) \in Nat
        <5> HIDE DEF p
        <5> QED BY <3>2, CodecAssumption, PowerPositive, GroupFacts DEF FixedModulus
      <4>1. Len(v) < FixedModulus(p) /\ FixedModulus(p) \in Nat
        BY <2>2, <3>2, <4>0 DEF Fits
      <4> QED BY <2>2, <3>1, <3>2, <4>1 DEF NumberRange
    <3>3. CASE p \notin DOMAIN Width
      BY <2>2, <3>1, <3>3, SamplesAssumption
    <3> QED BY <3>2, <3>3
  <2> QED BY <2>1, <2>2
<1>2. p \in DOMAIN Width => u \in Nat
  <2>1. SUFFICES ASSUME p \in DOMAIN Width PROVE u \in Nat
    OBVIOUS
  <2>2. u \in 0 .. FixedModulus(p) - 1
    BY <1>1, <2>1 DEF NumberRange
  <2>3. FixedModulus(p) \in Nat
    BY <2>1, CodecAssumption, PowerPositive, GroupFacts DEF FixedModulus
  <2> HIDE DEF u
  <2> QED BY <2>2, <2>3
<1> HIDE DEF p, u
<1>3. /\ e \in Seq(Byte)
      /\ Starts(s, e) => n = Len(e)
      /\ DecodeNumber(p, e, little) = u
  BY <1>1, <1>2, NumberRoundTrip
<1>4. Encode(k, v, little) = IF IsString(k) THEN e \o v ELSE e
  BY DEF Encode, p, u
<1> HIDE DEF e
<1>5. IsString(k) => v \in Seq(Byte) /\ u = Len(v)
  BY SamplesAssumption DEF u
<1>6. Starts(s, e)
  <2>1. CASE IsString(k)
    <3>1. Starts(s, e \o v)
      BY <1>4, <2>1
    <3>2. Len(e \o v) = Len(e) + Len(v) /\ Len(e) \in Nat /\ Len(v) \in Nat
          /\ \A i \in 1 .. Len(e) : (e \o v)[i] = e[i]
      BY <1>3, <1>5, <2>1, ConcatProperties
    <3> QED BY <3>1, <3>2 DEF Starts
  <2>2. CASE ~IsString(k)
    BY <1>4, <2>2
  <2> QED BY <2>1, <2>2
<1>7. n = Len(e) /\ n \in Nat /\ n <= Len(s) /\ Len(s) \in Nat
  BY <1>3, <1>6 DEF Starts
<1>8. SubSeq(s, 1, n) = e
  <2>1. SubSeq(s, 1, n) \in Seq(Byte) /\ Len(SubSeq(s, 1, n)) = n
        /\ \A i \in 1 .. n : SubSeq(s, 1, n)[i] = s[i]
    <3> HIDE DEF n
    <3>1. 1 + n - 1 = n
      BY <1>7
    <3> QED BY <1>7, <3>1, SubSeqProperties
  <2> HIDE DEF n
  <2> QED BY <2>1, <1>3, <1>6, <1>7, SeqEqual DEF Starts
<1>9. number = u
  BY <1>3, <1>8
<1>10. Decode(k, s, little) =
         IF n > Len(s)
         THEN [used |-> IF p \in DOMAIN Width THEN 0 ELSE Len(s), thrown |-> TRUE, value |-> <<>>]
         ELSE IF ~IsString(k) THEN [used |-> n, thrown |-> FALSE, value |-> number]
         ELSE IF n + number > Len(s) THEN [used |-> n, thrown |-> TRUE, value |-> <<>>]
         ELSE [used |-> n + number, thrown |-> FALSE, value |-> SubSeq(s, n + 1, n + number)]
  BY DEF Decode, p
<1> HIDE DEF n, number
<1>11. CASE ~IsString(k)
  <2>1. u = v
    BY <1>11 DEF u
  <2> QED BY <1>4, <1>7, <1>9, <1>10, <1>11, <2>1
<1>12. CASE IsString(k)
  <2>1. v \in Seq(Byte) /\ u = Len(v) /\ Len(v) \in Nat /\ Len(e \o v) = n + Len(v)
        /\ \A i \in 1 .. Len(v) : (e \o v)[n + i] = v[i]
    <3>1. v \in Seq(Byte) /\ u = Len(v)
      BY <1>12, <1>5
    <3>2. Len(e \o v) = n + Len(v)
      BY <3>1, <1>3, <1>7, ConcatProperties
    <3>3. ASSUME NEW i \in 1 .. Len(v) PROVE (e \o v)[n + i] = v[i]
      <4>1. n + i \in Nat /\ n + i > n /\ n + i \in 1 .. Len(e) + Len(v) /\ (n + i) - Len(e) = i
        BY <1>7, <3>1
      <4> QED BY <3>1, <1>3, <1>7, <4>1
    <3>4. Len(v) \in Nat
      BY <3>1
    <3> QED BY <3>1, <3>2, <3>3, <3>4
  <2>2. n + Len(v) <= Len(s) /\ \A i \in 1 .. n + Len(v) : s[i] = (e \o v)[i]
    BY <1>4, <1>12, <2>1 DEF Starts
  <2>3. SubSeq(s, n + 1, n + Len(v)) = v
    <3> DEFINE t == SubSeq(s, n + 1, n + Len(v))
    <3>1. t \in Seq(Byte) /\ Len(t) = Len(v) /\ \A i \in 1 .. Len(v) : t[i] = s[n + i]
      BY <1>7, <2>1, <2>2
    <3>2. \A i \in 1 .. Len(v) : t[i] = v[i]
      <4> SUFFICES ASSUME NEW i \in 1 .. Len(v) PROVE t[i] = v[i]
        OBVIOUS
      <4>1. n + i \in 1 .. n + Len(v)
        BY <1>7, <2>1
      <4> QED BY <3>1, <2>1, <2>2, <4>1
    <3> HIDE DEF t
    <3>3. t = v
      BY <3>1, <3>2, <2>1, SeqEqual
    <3> QED BY <3>3 DEF t
  <2>4. Decode(k, s, little) = [used |-> n + Len(v), thrown |-> FALSE, value |-> v]
    <3>1. number = Len(v)
      BY <1>9, <2>1
    <3>2. ~(n > Len(s)) /\ ~(n + Len(v) > Len(s))
      BY <1>7, <2>1, <2>2
    <3> QED BY <1>10, <1>12, <2>3, <3>1, <3>2, Zenon
  <2>5. Len(Encode(k, v, little)) = n + Len(v)
    BY <1>4, <1>12, <2>1
  <2> QED BY <2>4, <2>5
<1> QED BY <1>11, <1>12

-----------------------------------------------------------------------------
(* Sequences of bytes.                                                     *)

\* Overwriting changes the bytes it names, and lengthens as needed.
LEMMA OverwrittenIs ==
  ASSUME NEW s \in Seq(Byte), NEW p \in 0 .. Len(s), NEW b \in Seq(Byte)
  PROVE  LET o == Stream!Overwritten(s, p, b)
         IN  /\ o \in Seq(Byte)
             /\ Len(o) = IF p + Len(b) > Len(s) THEN p + Len(b) ELSE Len(s)
             /\ \A i \in 1 .. Len(o) :
                  o[i] = IF p < i /\ i <= p + Len(b) THEN b[i - p] ELSE s[i]
<1> DEFINE x == SubSeq(s, 1, p)  y == SubSeq(s, p + Len(b) + 1, Len(s))
           o == Stream!Overwritten(s, p, b)
<1>0. Len(s) \in Nat /\ Len(b) \in Nat /\ p \in Nat /\ p <= Len(s)
  OBVIOUS
<1>1. x \in Seq(Byte) /\ Len(x) = p /\ \A i \in 1 .. p : x[i] = s[i]
  <2>1. 1 + p - 1 = p /\ \A i \in 1 .. p : s[i] \in Byte
    BY <1>0
  <2> QED BY <1>0, <2>1, SubSeqProperties
<1>2. /\ y \in Seq(Byte)
      /\ Len(y) = IF p + Len(b) > Len(s) THEN 0 ELSE Len(s) - (p + Len(b))
      /\ \A i \in 1 .. Len(y) : y[i] = s[p + Len(b) + i]
  <2> DEFINE m == p + Len(b) + 1
  <2>1. m \in Int /\ Len(s) \in Int /\ \A i \in m .. Len(s) : s[i] \in Byte
    BY <1>0
  <2>2. /\ y \in Seq(Byte) /\ Len(y) = IF m <= Len(s) THEN Len(s) - m + 1 ELSE 0
        /\ \A i \in 1 .. Len(s) - m + 1 : y[i] = s[m + i - 1]
    <3> HIDE DEF m
    <3>1. /\ SubSeq(s, m, Len(s)) \in Seq(Byte)
          /\ Len(SubSeq(s, m, Len(s))) = IF m <= Len(s) THEN Len(s) - m + 1 ELSE 0
          /\ \A i \in 1 .. Len(s) - m + 1 : SubSeq(s, m, Len(s))[i] = s[m + i - 1]
      BY <2>1, SubSeqProperties
    <3> QED BY <3>1 DEF m
  <2> HIDE DEF y
  <2>3. \A i \in 1 .. Len(y) : i \in 1 .. Len(s) - m + 1 /\ m + i - 1 = p + Len(b) + i
    BY <2>2, <1>0
  <2> QED BY <2>2, <2>3, <1>0
<1>3. o = (x \o b) \o y
  BY DEF Stream!Overwritten
<1> HIDE DEF x, y, o
<1>4. /\ x \o b \in Seq(Byte) /\ Len(x \o b) = p + Len(b)
      /\ \A i \in 1 .. p + Len(b) : (x \o b)[i] = IF i <= p THEN x[i] ELSE b[i - p]
  BY <1>1, ConcatProperties
<1>5. /\ o \in Seq(Byte) /\ Len(o) = p + Len(b) + Len(y)
      /\ \A i \in 1 .. p + Len(b) + Len(y) :
           o[i] = IF i <= p + Len(b) THEN (x \o b)[i] ELSE y[i - (p + Len(b))]
  <2> DEFINE t == x \o b
  <2>1. t \in Seq(Byte) /\ Len(t) = p + Len(b)
    BY <1>4
  <2> HIDE DEF t
  <2>2. /\ t \o y \in Seq(Byte) /\ Len(t \o y) = Len(t) + Len(y)
        /\ \A i \in 1 .. Len(t) + Len(y) :
             (t \o y)[i] = IF i <= Len(t) THEN t[i] ELSE y[i - Len(t)]
    <3>1. y \in Seq(Byte) /\ t \in Seq(Byte)
      BY <1>2, <2>1
    <3> QED BY <3>1, ConcatProperties, Zenon
  <2>3. o = t \o y
    BY <1>3 DEF t
  <2>4. /\ o \in Seq(Byte) /\ Len(o) = p + Len(b) + Len(y)
        /\ \A i \in 1 .. p + Len(b) + Len(y) :
             o[i] = IF i <= p + Len(b) THEN t[i] ELSE y[i - (p + Len(b))]
    BY <2>1, <2>2, <2>3
  <2> QED BY <2>4 DEF t
<1>l. Len(y) \in Nat /\ Len(o) \in Nat
  <2>1. y \in Seq(Byte) /\ o \in Seq(Byte)
    BY <1>2, <1>5
  <2> QED BY <2>1, LenProperties
<1>6. Len(o) = IF p + Len(b) > Len(s) THEN p + Len(b) ELSE Len(s)
  <2>1. CASE p + Len(b) > Len(s)
    BY <2>1, <1>5, <1>2, <1>0
  <2>2. CASE ~(p + Len(b) > Len(s))
    <3>1. Len(y) = Len(s) - (p + Len(b))
      BY <2>2, <1>2
    <3>2. Len(o) = p + Len(b) + Len(y)
      BY <1>5
    <3> QED BY <2>2, <3>1, <3>2, <1>0
  <2> QED BY <2>1, <2>2
<1>7. ASSUME NEW i \in 1 .. Len(o)
      PROVE  o[i] = IF p < i /\ i <= p + Len(b) THEN b[i - p] ELSE s[i]
  <2>0. i \in 1 .. p + Len(b) + Len(y) /\ i \in Nat /\ i >= 1
    BY <1>5
  <2>1. CASE i <= p
    <3>1. i \in 1 .. p /\ i \in 1 .. p + Len(b) /\ i <= p + Len(b) /\ ~(p < i)
      BY <2>1, <1>0, <2>0
    <3> QED BY <2>0, <2>1, <3>1, <1>1, <1>4, <1>5
  <2>2. CASE p < i /\ i <= p + Len(b)
    <3>1. i \in 1 .. p + Len(b) /\ ~(i <= p)
      BY <2>2, <1>0, <2>0
    <3> QED BY <2>0, <2>2, <3>1, <1>4, <1>5
  <2>3. CASE i > p + Len(b)
    <3>1. i - (p + Len(b)) \in 1 .. Len(y) /\ p + Len(b) + (i - (p + Len(b))) = i
          /\ ~(i <= p + Len(b))
      BY <2>3, <1>0, <2>0, <1>l
    <3> QED BY <2>0, <3>1, <1>2, <1>5
  <2> QED BY <2>1, <2>2, <2>3, <2>0, <1>0
<1> QED BY <1>5, <1>6, <1>7 DEF o

\* A part of a sequence.
LEMMA PartIs ==
  ASSUME NEW s \in Seq(Byte), NEW from \in 0 .. Len(s), NEW n \in 0 .. Len(s) - from
  PROVE  /\ SubSeq(s, from + 1, from + n) \in Seq(Byte)
         /\ Len(SubSeq(s, from + 1, from + n)) = n
         /\ \A i \in 1 .. n : SubSeq(s, from + 1, from + n)[i] = s[from + i]
<1> DEFINE a == from + 1  z == from + n
<1>1. a \in Int /\ z \in Int /\ \A i \in a .. z : s[i] \in Byte
  OBVIOUS
<1>2. (IF a <= z THEN z - a + 1 ELSE 0) = n /\ z - a + 1 = n
  OBVIOUS
<1>3. \A i \in 1 .. n : a + i - 1 = from + i
  OBVIOUS
<1> HIDE DEF a, z
<1>4. /\ SubSeq(s, a, z) \in Seq(Byte)
      /\ Len(SubSeq(s, a, z)) = n
      /\ \A i \in 1 .. n : SubSeq(s, a, z)[i] = s[a + i - 1]
  BY <1>1, <1>2, SubSeqProperties
<1> QED BY <1>3, <1>4 DEF a, z

-----------------------------------------------------------------------------
(* The inductive invariant.                                                *)

\* The bytes of a field are where they were written.
FieldSound(f) ==
  /\ f.kind \in DOMAIN Samples /\ f.value \in Samples[f.kind] /\ f.little \in BOOLEAN
  /\ Fits(f.kind, f.value)
  /\ f.at \in Nat /\ f.len \in Nat /\ f.len = Len(Encode(f.kind, f.value, f.little))
  /\ f.at + f.len <= m_size
  /\ \A i \in 1 .. f.len : mem[f.at + i] = Encode(f.kind, f.value, f.little)[i]

FieldsSound == \A f \in fields : FieldSound(f)

\* What CursorSound leaves out: types, and that the first node is never freed.
Numbers ==
  /\ m_position \in Nat /\ m_size \in Nat /\ m_capacity \in Nat
  /\ m_capacity >= m_baseSize /\ m_little \in BOOLEAN

IInv == CursorSound /\ Numbers /\ FieldsSound

\* The capacity is the nodes.
LEMMA WholeNodes ==
  ASSUME IInv
  PROVE  /\ Nodes \in Nat \ {0} /\ Nodes * m_baseSize = m_capacity
         /\ mem \in Seq(Byte) /\ Len(mem) = m_capacity
         /\ m_baseSize \in Nat \ {0}
         /\ m_position <= m_size /\ m_size <= m_capacity
         /\ m_position \in Nat /\ m_size \in Nat /\ m_capacity \in Nat
         /\ Unread \in Nat
<1>1. m_baseSize \in Nat \ {0}
  BY BaseAssumption
<1>2. /\ mem \in Seq(Byte) /\ Len(mem) = m_capacity
      /\ m_position <= m_size /\ m_size <= m_capacity
      /\ m_position \in Nat /\ m_size \in Nat /\ m_capacity \in Nat
      /\ m_capacity >= m_baseSize /\ m_capacity % m_baseSize = 0
  BY DEF IInv, CursorSound, Numbers
<1>3. Nodes \in Nat /\ m_capacity = m_baseSize * Nodes + (m_capacity % m_baseSize)
  <2>1. m_capacity \in Int
    BY <1>2
  <2> QED BY <1>1, <1>2, <2>1, DivNat, DivMod DEF Nodes
<1>4. m_capacity = m_baseSize * Nodes
  <2> DEFINE y == m_baseSize * Nodes
  <2>1. y \in Nat
    BY <1>1, <1>3
  <2>2. m_capacity = y + 0
    BY <1>2, <1>3
  <2> HIDE DEF y
  <2>3. m_capacity = y
    BY <2>1, <2>2
  <2> QED BY <2>3 DEF y
<1>5. Nodes # 0
  <2>1. ASSUME Nodes = 0 PROVE FALSE
    <3>1. m_baseSize * 0 = 0
      BY <1>1
    <3> QED BY <3>1, <2>1, <1>1, <1>2, <1>4
  <2> QED BY <2>1
<1>6. Nodes * m_baseSize = m_baseSize * Nodes
  BY <1>1, <1>3
<1> QED BY <1>1, <1>2, <1>3, <1>4, <1>5, <1>6 DEF Unread

\* Through the pointer one gets to the position.
LEMMA PointerSound ==
  ASSUME IInv, m_position < m_capacity
  PROVE  /\ m_cur = m_position \div m_baseSize /\ m_cur # Null
         /\ AddressIn(m_cur, m_position) = m_position
<1>1. m_cur = m_position \div m_baseSize
  BY WholeNodes DEF IInv, CursorSound
<1>2. m_position \div m_baseSize \in Nat
      /\ m_position = m_baseSize * (m_position \div m_baseSize) + (m_position % m_baseSize)
  <2>1. m_position \in Int /\ m_position \in Nat /\ m_baseSize \in Nat \ {0}
    BY WholeNodes
  <2> QED BY <2>1, DivMod, DivNat
<1>3. m_baseSize * (m_position \div m_baseSize) = (m_position \div m_baseSize) * m_baseSize
  BY <1>2, WholeNodes
<1> QED BY <1>1, <1>2, <1>3 DEF AddressIn, Null

\* A read through the pointer copies the bytes after the position.
LEMMA AheadIs ==
  ASSUME IInv, NEW n \in 0 .. Unread
  PROVE  /\ Ahead(n) = SubSeq(mem, m_position + 1, m_position + n)
         /\ Ahead(n) \in Seq(Byte) /\ Len(Ahead(n)) = n
         /\ \A i \in 1 .. n : Ahead(n)[i] = mem[m_position + i]
<1>1. /\ m_position \in 0 .. Len(mem) /\ n \in 0 .. Len(mem) - m_position /\ mem \in Seq(Byte)
      /\ n \in Nat /\ m_position + n <= m_capacity /\ m_position \in Nat /\ m_capacity \in Nat
  BY WholeNodes DEF Unread
<1>2. Ahead(n) = SubSeq(mem, m_position + 1, m_position + n)
  <2>1. CASE n = 0
    <3>1. AddressIn(m_cur, m_position) \in Int
      <4>1. m_position % m_baseSize \in Int
        <5>1. m_position \in Int /\ m_baseSize \in Nat \ {0}
          BY WholeNodes
        <5>2. m_position % m_baseSize \in 0 .. m_baseSize - 1
          BY <5>1, DivMod
        <5> QED BY <5>1, <5>2
      <4>2. m_cur \in Int
        <5>1. m_position \in Nat /\ m_baseSize \in Nat \ {0}
          BY WholeNodes
        <5>2. m_position \div m_baseSize \in Nat
          BY <5>1, DivNat
        <5> QED BY <5>2 DEF IInv, CursorSound, Null
      <4>3. m_cur * m_baseSize \in Int
        BY <4>2, WholeNodes
      <4> QED BY <4>1, <4>3 DEF AddressIn
    <3> DEFINE a == AddressIn(m_cur, m_position)
    <3>2. SubSeq(mem, a + 1, a + 0) = <<>>
      <4> HIDE DEF a
      <4>1. a \in Int
        BY <3>1 DEF a
      <4>2. a + 1 \in Int /\ a + 0 \in Int /\ a + 0 < a + 1
        BY <4>1
      <4> QED BY <4>2, SubSeqEmpty
    <3>3. SubSeq(mem, m_position + 1, m_position + 0) = <<>>
      <4>1. m_position + 1 \in Int /\ m_position + 0 \in Int /\ m_position + 0 < m_position + 1
        BY <1>1
      <4> QED BY <4>1, SubSeqEmpty
    <3> QED BY <2>1, <3>2, <3>3 DEF Ahead
  <2>2. CASE n > 0
    <3>1. m_position < m_capacity
      BY <1>1, <2>2
    <3> QED BY <3>1, PointerSound DEF Ahead
  <2> QED BY <1>1, <2>1, <2>2
<1> QED BY <1>1, <1>2, PartIs

\* add_capacity makes enough room, in whole nodes.
LEMMA GrownIs ==
  ASSUME IInv, NEW n \in Nat \ {0}, NEW junk \in NewMemory
  PROVE  /\ Added(n) \in Nat /\ (m_capacity + Added(n)) % m_baseSize = 0
         /\ m_position + n <= m_capacity + Added(n)
         /\ Grown(n, junk) \in Seq(Byte) /\ Len(Grown(n, junk)) = m_capacity + Added(n)
         /\ \A i \in 1 .. m_capacity : Grown(n, junk)[i] = mem[i]
         /\ AddressIn(GrownCur(n), m_position) = m_position
         /\ Added(n) = 0 => m_position < m_capacity
<1> DEFINE B == m_baseSize
           short == n - (m_capacity - m_position)
           x == short + m_baseSize - 1
           q == x \div B
           N == Nodes
<1>1. /\ B \in Nat \ {0} /\ N \in Nat /\ N * B = m_capacity
      /\ mem \in Seq(Byte) /\ Len(mem) = m_capacity /\ m_position \in Nat
      /\ m_capacity \in Nat /\ m_position <= m_capacity
  BY WholeNodes
<1>2. Added(n) = IF short <= 0 THEN 0 ELSE q * B
  BY DEF Added
<1>3. short \in Int
  BY <1>1
<1>4. /\ Added(n) \in Nat /\ short <= Added(n)
      /\ \E m \in Nat : m_capacity + Added(n) = B * m
  <2>1. CASE short <= 0
    <3>1. m_capacity = B * N
      BY <1>1
    <3> QED BY <1>1, <1>2, <1>3, <2>1, <3>1
  <2>2. CASE short > 0
    <3>1. x \in Nat /\ x = short + B - 1
      BY <1>1, <1>3, <2>2
    <3> HIDE DEF x, B, short, N
    <3>2. q \in Nat /\ x = B * q + (x % B) /\ x % B \in 0 .. B - 1
      <4>1. x \in Int
        BY <3>1
      <4> QED BY <1>1, <3>1, <4>1, DivMod, DivNat
    <3> HIDE DEF q
    <3> DEFINE y == B * q  r == x % B
    <3>3. y \in Nat /\ x = y + r /\ r \in 0 .. B - 1
      BY <1>1, <3>2
    <3>4. q * B = y
      BY <1>1, <3>2
    <3>5. Added(n) = y
      BY <1>2, <1>3, <2>2, <3>4
    <3>6. m_capacity + y = B * (N + q) /\ N + q \in Nat
      BY <1>1, <3>2
    <3> HIDE DEF y, r
    <3>7. short <= y
      BY <3>1, <3>3, <1>1, <1>3
    <3> QED BY <3>3, <3>5, <3>6, <3>7
  <2> QED BY <1>3, <2>1, <2>2
<1>5. (m_capacity + Added(n)) % B = 0
  <2>1. PICK m \in Nat : m_capacity + Added(n) = B * m
    BY <1>4
  <2> DEFINE c == m_capacity + Added(n)
  <2>2. c \in Int /\ m \in Int /\ 0 \in 0 .. B - 1 /\ B * m \in Nat
    BY <1>1, <1>4
  <2>3. c = B * m + 0
    BY <2>1, <2>2
  <2> HIDE DEF c, B
  <2>4. c % B = 0
    BY <2>2, <2>3, <1>1, DivUnique, Zenon
  <2> QED BY <2>4 DEF c
<1>6. m_position + n <= m_capacity + Added(n)
  BY <1>1, <1>4
<1>7. /\ Grown(n, junk) \in Seq(Byte) /\ Len(Grown(n, junk)) = m_capacity + Added(n)
      /\ \A i \in 1 .. m_capacity : Grown(n, junk)[i] = mem[i]
  <2> DEFINE z == [i \in 1 .. Added(n) |-> junk]
  <2>1. z \in Seq(Byte) /\ Len(z) = Added(n)
    <3>1. junk \in Byte
      BY BaseAssumption
    <3> QED BY <3>1, <1>4
  <2>2. Grown(n, junk) = mem \o z
    BY DEF Grown
  <2> HIDE DEF z
  <2>3. /\ mem \o z \in Seq(Byte) /\ Len(mem \o z) = Len(mem) + Len(z)
        /\ \A i \in 1 .. Len(mem) + Len(z) :
             (mem \o z)[i] = IF i <= Len(mem) THEN mem[i] ELSE z[i - Len(mem)]
    BY <2>1, <1>1, ConcatProperties
  <2>4. \A i \in 1 .. m_capacity : i \in 1 .. Len(mem) + Len(z) /\ i <= Len(mem)
    BY <2>1, <1>1, <1>4
  <2> QED BY <2>1, <2>2, <2>3, <2>4, <1>1
<1>8. Added(n) = 0 => m_position < m_capacity
  BY <1>1, <1>4
<1>9. AddressIn(GrownCur(n), m_position) = m_position
  <2>1. CASE m_position < m_capacity
    <3>1. GrownCur(n) = m_cur
      BY <2>1, <1>1 DEF GrownCur
    <3> QED BY <3>1, <2>1, PointerSound
  <2>2. CASE m_position = m_capacity
    <3>1. GrownCur(n) = N
      BY <2>2, <1>4, <1>8, <1>1 DEF GrownCur
    <3>2. m_position % B = 0
      BY <2>2 DEF IInv, CursorSound
    <3> QED BY <3>1, <3>2, <1>1, <2>2 DEF AddressIn
  <2> QED BY <1>1, <2>1, <2>2
<1> QED BY <1>4, <1>5, <1>6, <1>7, <1>8, <1>9

-----------------------------------------------------------------------------
(* What the operations do to the bytes.                                    *)

\* The beginning of a sequence.
LEMMA FrontIs ==
  ASSUME NEW s \in Seq(Byte), NEW n \in 0 .. Len(s)
  PROVE  /\ SubSeq(s, 1, n) \in Seq(Byte) /\ Len(SubSeq(s, 1, n)) = n
         /\ \A i \in 1 .. n : SubSeq(s, 1, n)[i] = s[i]
<1>1. 0 \in 0 .. Len(s) /\ n \in 0 .. Len(s) - 0 /\ 0 + n = n /\ 0 + 1 = 1
      /\ \A i \in 1 .. n : 0 + i = i
  OBVIOUS
<1>2. /\ SubSeq(s, 0 + 1, 0 + n) \in Seq(Byte)
      /\ Len(SubSeq(s, 0 + 1, 0 + n)) = n
      /\ \A i \in 1 .. n : SubSeq(s, 0 + 1, 0 + n)[i] = s[0 + i]
  BY <1>1, PartIs
<1> QED BY <1>1, <1>2

\* The content is the beginning of the memory.
LEMMA ContentIs ==
  ASSUME IInv
  PROVE  /\ Content \in Seq(Byte) /\ Len(Content) = m_size
         /\ \A i \in 1 .. m_size : Content[i] = mem[i]
<1>1. mem \in Seq(Byte) /\ m_size \in 0 .. Len(mem)
  BY WholeNodes
<1> QED BY <1>1, FrontIs DEF Content

\* Bytes copied through the pointer, into grown memory, land at the position.
LEMMA CopiedIs ==
  ASSUME IInv, NEW b \in Seq(Byte), Len(b) # 0, NEW junk \in NewMemory
  PROVE  LET m == Stream!Overwritten(Grown(Len(b), junk),
                                     AddressIn(GrownCur(Len(b)), m_position), b)
         IN  /\ m \in Seq(Byte) /\ Len(m) = m_capacity + Added(Len(b))
             /\ \A i \in 1 .. m_capacity :
                  i <= m_position \/ i > m_position + Len(b) => m[i] = mem[i]
             /\ \A i \in 1 .. Len(b) : m[m_position + i] = b[i]
<1> DEFINE n == Len(b)  g == Grown(n, junk)  m == Stream!Overwritten(g, m_position, b)
<1>1. n \in Nat \ {0}
  OBVIOUS
<1>2. /\ Added(n) \in Nat /\ m_position + n <= m_capacity + Added(n)
      /\ g \in Seq(Byte) /\ Len(g) = m_capacity + Added(n)
      /\ \A i \in 1 .. m_capacity : g[i] = mem[i]
      /\ AddressIn(GrownCur(n), m_position) = m_position
  BY <1>1, GrownIs
<1>3. m_position \in Nat /\ m_capacity \in Nat /\ m_position <= m_capacity
  BY WholeNodes
<1> HIDE DEF g
<1>4. m_position \in 0 .. Len(g)
  BY <1>2, <1>3
<1>5. /\ m \in Seq(Byte)
      /\ Len(m) = IF m_position + n > Len(g) THEN m_position + n ELSE Len(g)
      /\ \A i \in 1 .. Len(m) :
           m[i] = IF m_position < i /\ i <= m_position + n THEN b[i - m_position] ELSE g[i]
  BY <1>2, <1>4, OverwrittenIs
<1> HIDE DEF m, n
<1>6. Len(m) = m_capacity + Added(n)
  BY <1>1, <1>2, <1>3, <1>5
<1>7. ASSUME NEW i \in 1 .. m_capacity, i <= m_position \/ i > m_position + n
      PROVE  m[i] = mem[i]
  <2>1. i \in 1 .. Len(m) /\ ~(m_position < i /\ i <= m_position + n)
    BY <1>1, <1>2, <1>3, <1>6, <1>7
  <2> QED BY <2>1, <1>2, <1>5
<1>8. ASSUME NEW i \in 1 .. n PROVE m[m_position + i] = b[i]
  <2>1. m_position + i \in 1 .. Len(m) /\ m_position < m_position + i
        /\ m_position + i <= m_position + n /\ (m_position + i) - m_position = i
    BY <1>1, <1>2, <1>3, <1>6
  <2> QED BY <2>1, <1>5
<1> QED BY <1>2, <1>5, <1>6, <1>7, <1>8 DEF g, m, n

\* Fields none of whose bytes change stay sound.
LEMMA FieldsKept ==
  ASSUME FieldsSound, NEW from \in Nat, NEW n \in Nat, m_size \in Nat, m_size' \in Nat,
         m_size <= m_size',
         \A i \in 1 .. m_size : i <= from \/ i > from + n => mem'[i] = mem[i],
         NEW f \in Untouched(from, n)
  PROVE  FieldSound(f)'
<1>1. FieldSound(f) /\ (f.at + f.len <= from \/ from + n <= f.at)
  BY DEF FieldsSound, Untouched
<1>2. f.at \in Nat /\ f.len \in Nat /\ f.at + f.len <= m_size
  BY <1>1 DEF FieldSound
<1>3. ASSUME NEW i \in 1 .. f.len PROVE mem'[f.at + i] = mem[f.at + i]
  <2>1. f.at + i \in 1 .. m_size /\ (f.at + i <= from \/ f.at + i > from + n)
    BY <1>1, <1>2
  <2> QED BY <2>1
<1>4. f.at + f.len <= m_size'
  BY <1>2
<1> QED BY <1>1, <1>3, <1>4 DEF FieldSound

\* Where the pointer is after a copy.
LEMMA AfterIs ==
  ASSUME NEW p \in Nat, NEW n \in Nat, NEW size \in Nat
  PROVE  After(p, n, size) = IF p + n = size THEN Null ELSE (p + n) \div m_baseSize
BY DEF After

\* Writing puts the bytes at the position of the content, and advances.
LEMMA WriteStep ==
  ASSUME IInv, NEW b \in Seq(Byte), Write(b), m_little' = m_little
  PROVE  /\ CursorSound' /\ Numbers'
         /\ m_position' = m_position + Len(b)
         /\ m_size <= m_size' /\ m_position + Len(b) <= m_size'
         /\ m_size' = IF m_position + Len(b) > m_size THEN m_position + Len(b) ELSE m_size
         /\ \A i \in 1 .. m_size :
              i <= m_position \/ i > m_position + Len(b) => mem'[i] = mem[i]
         /\ \A i \in 1 .. Len(b) : mem'[m_position + i] = b[i]
<1> DEFINE n == Len(b)
<1>0. /\ m_position \in Nat /\ m_size \in Nat /\ m_capacity \in Nat /\ n \in Nat
      /\ m_position <= m_size /\ m_size <= m_capacity
  BY WholeNodes
<1>1. CASE n = 0
  <2>1. UNCHANGED <<mem, m_capacity, m_size, m_position, m_cur>>
    BY <1>1 DEF Write, memVars
  <2>2. CursorSound' /\ Numbers'
    BY <2>1 DEF IInv, CursorSound, Numbers
  <2>3. m_position + n = m_position
    BY <1>0, <1>1
  <2>4. 1 .. n = {}
    BY <1>1
  <2> QED BY <1>0, <2>1, <2>2, <2>3, <2>4
<1>2. CASE n # 0
  <2> DEFINE a == AddressIn(GrownCur(n), m_position)
  <2>1. PICK junk \in NewMemory :
          /\ mem' = Stream!Overwritten(Grown(n, junk), a, b)
          /\ m_capacity' = m_capacity + Added(n)
          /\ m_cur' = After(a, n, Len(mem'))
          /\ m_position' = m_position + n
          /\ m_size' = IF m_position + n > m_size THEN m_position + n ELSE m_size
    BY <1>2 DEF Write
  <2>2. n \in Nat \ {0}
    BY <1>0, <1>2
  <2>3. /\ mem' \in Seq(Byte) /\ Len(mem') = m_capacity'
        /\ \A i \in 1 .. m_capacity : i <= m_position \/ i > m_position + n => mem'[i] = mem[i]
        /\ \A i \in 1 .. n : mem'[m_position + i] = b[i]
    BY <2>1, <1>2, CopiedIs
  <2>4. /\ Added(n) \in Nat /\ m_capacity' % m_baseSize = 0 /\ m_position + n <= m_capacity'
        /\ a = m_position
    BY <2>1, <2>2, GrownIs
  <2>5. m_capacity' \in Nat /\ m_capacity' >= m_capacity
    BY <2>1, <2>4, <1>0
  <2> HIDE DEF n, a
  <2>6. /\ m_position' \in Nat /\ m_size' \in Nat /\ m_position' <= m_size' /\ m_size' <= m_capacity'
        /\ m_size <= m_size' /\ m_position + n <= m_size'
    BY <2>1, <2>4, <2>5, <1>0
  <2>7. m_cur' = IF m_position' = m_capacity' THEN Null ELSE m_position' \div m_baseSize
    BY <2>1, <2>3, <2>4 DEF After
  <2>8. CursorSound'
    BY <2>3, <2>4, <2>6, <2>7 DEF CursorSound
  <2>9. Numbers'
    <3>1. m_capacity >= m_baseSize /\ m_little \in BOOLEAN /\ m_baseSize \in Nat
      BY BaseAssumption DEF IInv, Numbers
    <3> QED BY <3>1, <2>5, <2>6, <1>0 DEF Numbers
  <2>10. \A i \in 1 .. m_size : i \in 1 .. m_capacity
    BY <1>0
  <2> QED BY <2>1, <2>3, <2>6, <2>8, <2>9, <2>10 DEF n
<1> QED BY <1>1, <1>2

\* Two sequences of bytes that agree are the same.
LEMMA WriteContent ==
  ASSUME IInv, IInv', NEW b \in Seq(Byte), Write(b), m_little' = m_little
  PROVE  Content' = Stream!Overwritten(Content, m_position, b)
<1> DEFINE n == Len(b)  o == Stream!Overwritten(Content, m_position, b)
<1>0. /\ m_position \in Nat /\ m_size \in Nat /\ n \in Nat /\ m_position <= m_size
  BY WholeNodes
<1>1. /\ Content \in Seq(Byte) /\ Len(Content) = m_size
      /\ \A i \in 1 .. m_size : Content[i] = mem[i]
  BY ContentIs
<1>2. /\ Content' \in Seq(Byte) /\ Len(Content') = m_size'
      /\ \A i \in 1 .. m_size' : Content'[i] = mem'[i]
  <2>1. mem' \in Seq(Byte) /\ m_size' \in 0 .. Len(mem')
    BY DEF IInv, CursorSound, Numbers
  <2> QED BY <2>1, FrontIs DEF Content
<1>3. /\ m_size' = IF m_position + n > m_size THEN m_position + n ELSE m_size
      /\ \A i \in 1 .. m_size : i <= m_position \/ i > m_position + n => mem'[i] = mem[i]
      /\ \A i \in 1 .. n : mem'[m_position + i] = b[i]
  BY WriteStep
<1>4. m_position \in 0 .. Len(Content)
  BY <1>0, <1>1
<1>5. /\ o \in Seq(Byte)
      /\ Len(o) = IF m_position + n > Len(Content) THEN m_position + n ELSE Len(Content)
      /\ \A i \in 1 .. Len(o) :
           o[i] = IF m_position < i /\ i <= m_position + n THEN b[i - m_position] ELSE Content[i]
  BY <1>1, <1>4, OverwrittenIs
<1> HIDE DEF o, n
<1>6. Len(o) = m_size'
  BY <1>1, <1>3, <1>5
<1>7. ASSUME NEW i \in 1 .. m_size' PROVE Content'[i] = o[i]
  <2>1. CASE m_position < i /\ i <= m_position + n
    <3>1. i - m_position \in 1 .. n /\ m_position + (i - m_position) = i
      BY <2>1, <1>0
    <3>2. mem'[i] = b[i - m_position]
      BY <3>1, <1>3
    <3> QED BY <3>2, <2>1, <1>2, <1>5, <1>6
  <2>2. CASE ~(m_position < i /\ i <= m_position + n)
    <3>1. i \in 1 .. m_size /\ (i <= m_position \/ i > m_position + n)
      BY <2>2, <1>0, <1>3
    <3>2. mem'[i] = mem[i] /\ Content[i] = mem[i]
      BY <3>1, <1>1, <1>3
    <3> QED BY <3>2, <2>2, <1>2, <1>5, <1>6
  <2> QED BY <2>1, <2>2
<1>8. Content' = o
  BY <1>2, <1>5, <1>6, <1>7, SeqEqual
<1> QED BY <1>8 DEF o

\* Reading moves the position and the pointer, and nothing else.
LEMMA ReadStep ==
  ASSUME IInv, NEW n \in 0 .. Unread, Read(n), m_little' = m_little
  PROVE  CursorSound' /\ Numbers'
<1>0. /\ m_position \in Nat /\ m_size \in Nat /\ m_capacity \in Nat /\ n \in Nat
      /\ m_position + n <= m_size /\ m_size <= m_capacity
      /\ mem \in Seq(Byte) /\ Len(mem) = m_capacity
  BY WholeNodes DEF Unread
<1>1. m_position' = m_position + n /\ UNCHANGED <<mem, m_capacity, m_size>>
  BY DEF Read
<1>2. m_cur' = IF m_position' = m_capacity' THEN Null ELSE m_position' \div m_baseSize
  <2>1. CASE n = 0
    <3>1. m_cur' = m_cur /\ m_position' = m_position
      BY <2>1, <1>0, <1>1 DEF Read
    <3> QED BY <3>1, <1>1 DEF IInv, CursorSound
  <2>2. CASE n # 0
    <3>1. m_position < m_capacity
      BY <2>2, <1>0
    <3>2. AddressIn(m_cur, m_position) = m_position
      BY <3>1, PointerSound
    <3> QED BY <3>2, <2>2, <1>0, <1>1 DEF Read, After
  <2> QED BY <2>1, <2>2
<1>3. CursorSound'
  BY <1>0, <1>1, <1>2 DEF IInv, CursorSound
<1>4. Numbers'
  BY <1>0, <1>1 DEF IInv, Numbers
<1> QED BY <1>3, <1>4

\* A new position leaves the bytes alone and keeps the pointer sound.
LEMMA SeekStep ==
  ASSUME IInv, NEW v \in Nat, SetPosition(v)
  PROVE  CursorSound' /\ Numbers'
<1>0. /\ m_size \in Nat /\ m_capacity \in Nat /\ m_size <= m_capacity
      /\ Len(mem) = m_capacity /\ v <= m_capacity
  BY WholeNodes DEF SetPosition
<1>1. /\ m_position' = v /\ UNCHANGED <<mem, m_capacity, m_little>>
      /\ m_size' = IF v > m_size THEN v ELSE m_size
      /\ m_cur' = IF v = m_capacity THEN Null ELSE v \div m_baseSize
  BY <1>0 DEF SetPosition, NodeOf
<1>2. m_size' \in Nat /\ v <= m_size' /\ m_size' <= m_capacity
  BY <1>0, <1>1
<1>3. CursorSound'
  BY <1>0, <1>1, <1>2 DEF IInv, CursorSound
<1>4. Numbers'
  BY <1>0, <1>1, <1>2 DEF IInv, Numbers
<1> QED BY <1>3, <1>4

-----------------------------------------------------------------------------
(* The invariant is inductive.                                             *)

LEMMA Initially ==
  Init => IInv
<1> SUFFICES ASSUME Init PROVE IInv
  OBVIOUS
<1>1. PICK j \in NewMemory : mem = [i \in 1 .. m_baseSize |-> j]
  BY DEF Init
<1>2. m_baseSize \in Nat \ {0} /\ j \in Byte
  BY BaseAssumption
<1>3. mem \in Seq(Byte) /\ Len(mem) = m_baseSize
  BY <1>1, <1>2
<1>4. m_baseSize % m_baseSize = 0
  <2> DEFINE B == m_baseSize
  <2> HIDE DEF B
  <2>1. B \in Nat \ {0}
    BY <1>2 DEF B
  <2>2. B \in Int /\ 1 \in Int /\ 0 \in 0 .. B - 1 /\ B = B * 1 + 0
    BY <2>1
  <2>3. B % B = 0
    BY <2>1, <2>2, DivUnique, Zenon
  <2> QED BY <2>3 DEF B
<1>5. 0 \div m_baseSize = 0
  <2>1. 0 \in Nat /\ m_baseSize \in Nat \ {0} /\ 0 < m_baseSize
    BY <1>2
  <2> QED BY <2>1, DivNat
<1>6. CursorSound
  BY <1>2, <1>3, <1>4, <1>5 DEF Init, CursorSound
<1>7. Numbers
  <2>1. m_little \in BOOLEAN
    BY DEF Init
  <2>2. m_position = 0 /\ m_size = 0 /\ m_capacity = m_baseSize
    BY DEF Init
  <2> QED BY <1>2, <2>1, <2>2 DEF Numbers
<1>8. FieldsSound
  BY DEF Init, FieldsSound
<1> QED BY <1>6, <1>7, <1>8 DEF IInv

LEMMA WriteFieldStep ==
  ASSUME IInv, NEW k \in DOMAIN Samples, NEW v \in Samples[k], WriteField(k, v)
  PROVE  IInv'
<1> DEFINE b == Encode(k, v, m_little)
           f == [at |-> m_position, len |-> Len(b), kind |-> k, value |-> v,
                 little |-> m_little]
<1>1. m_little \in BOOLEAN /\ m_position \in Nat /\ m_size \in Nat
  BY DEF IInv, Numbers
<1>2. b \in Seq(Byte)
  BY <1>1, EncodeType
<1>3. /\ Write(b) /\ m_little' = m_little
      /\ fields' = Untouched(m_position, Len(b)) \cup {g \in {f} : Fits(k, v)}
  BY DEF WriteField
<1>4. /\ CursorSound' /\ Numbers'
      /\ m_size <= m_size' /\ m_position + Len(b) <= m_size'
      /\ \A i \in 1 .. m_size :
           i <= m_position \/ i > m_position + Len(b) => mem'[i] = mem[i]
      /\ \A i \in 1 .. Len(b) : mem'[m_position + i] = b[i]
  <2> HIDE DEF b
  <2> QED BY <1>2, <1>3, WriteStep
<1>5. m_size' \in Nat
  BY <1>4 DEF Numbers
<1>6. Len(b) \in Nat
  <2> HIDE DEF b
  <2> QED BY <1>2
<1>7. ASSUME NEW g \in fields' PROVE FieldSound(g)'
  <2>1. CASE g \in Untouched(m_position, Len(b))
    <3> HIDE DEF b
    <3>1. FieldsSound
      BY DEF IInv
    <3> QED BY <2>1, <3>1, <1>1, <1>4, <1>5, <1>6, FieldsKept
  <2>2. CASE g = f /\ Fits(k, v)
    <3>1. /\ g.at = m_position /\ g.len = Len(b) /\ g.kind = k /\ g.value = v
          /\ g.little = m_little
      BY <2>2
    <3>2. Encode(g.kind, g.value, g.little) = b
      BY <3>1
    <3> HIDE DEF b, f
    <3> QED BY <3>1, <3>2, <2>2, <1>1, <1>4, <1>6 DEF FieldSound
  <2> QED BY <1>3, <2>1, <2>2
<1>8. FieldsSound'
  BY <1>7 DEF FieldsSound
<1> QED BY <1>4, <1>8 DEF IInv

LEMMA WriteRawStep ==
  ASSUME IInv, NEW b \in Seq(Byte), WriteRaw(b)
  PROVE  IInv'
<1>1. m_position \in Nat /\ m_size \in Nat /\ Len(b) \in Nat /\ FieldsSound
  BY DEF IInv, Numbers
<1>2. Write(b) /\ m_little' = m_little /\ fields' = Untouched(m_position, Len(b))
  BY DEF WriteRaw
<1>3. /\ CursorSound' /\ Numbers' /\ m_size <= m_size'
      /\ \A i \in 1 .. m_size :
           i <= m_position \/ i > m_position + Len(b) => mem'[i] = mem[i]
  BY <1>2, WriteStep
<1>4. m_size' \in Nat
  BY <1>3 DEF Numbers
<1>5. ASSUME NEW f \in Untouched(m_position, Len(b)) PROVE FieldSound(f)'
  BY <1>1, <1>3, <1>4, FieldsKept
<1>6. FieldsSound'
  BY <1>2, <1>5 DEF FieldsSound
<1> QED BY <1>3, <1>6 DEF IInv

\* Fields are sound as long as neither they nor the bytes change.
LEMMA SameFields ==
  ASSUME FieldsSound, UNCHANGED <<mem, fields>>, m_size \in Nat, m_size' \in Nat,
         m_size <= m_size'
  PROVE  FieldsSound'
<1>1. ASSUME NEW f \in fields PROVE FieldSound(f)'
  <2>1. FieldSound(f)
    BY DEF FieldsSound
  <2>2. f.at + f.len <= m_size'
    BY <2>1 DEF FieldSound
  <2> QED BY <2>1, <2>2 DEF FieldSound
<1> QED BY <1>1 DEF FieldsSound

LEMMA ReadFieldStep ==
  ASSUME IInv, NEW k \in DOMAIN Samples, ReadField(k)
  PROVE  IInv'
<1> DEFINE d == Decode(k, Ahead(Unread), m_little)
<1>1. Unread \in 0 .. Unread /\ m_little \in BOOLEAN
  BY WholeNodes DEF IInv, Numbers
<1>2. Ahead(Unread) \in Seq(Byte) /\ Len(Ahead(Unread)) = Unread
  BY <1>1, AheadIs
<1>3. d.used \in 0 .. Unread
  BY <1>1, <1>2, DecodeUses
<1>4. Read(d.used) /\ UNCHANGED <<m_little, fields>>
  BY DEF ReadField
<1> HIDE DEF d
<1>5. CursorSound' /\ Numbers'
  BY <1>3, <1>4, ReadStep
<1>6. FieldsSound'
  BY <1>4, <1>5, SameFields DEF Read, IInv, Numbers
<1> QED BY <1>5, <1>6 DEF IInv

LEMMA ReadRawStep ==
  ASSUME IInv, NEW n \in Nat, ReadRaw(n)
  PROVE  IInv'
<1>1. n \in 0 .. Unread /\ m_little' = m_little /\ fields' = fields
  BY WholeNodes DEF ReadRaw
<1>2. CASE m_cur = Null
  <2>1. UNCHANGED <<mem, m_capacity, m_size, m_position, m_cur>>
    BY <1>2 DEF ReadRaw, memVars
  <2>2. CursorSound' /\ Numbers'
    BY <1>1, <2>1 DEF IInv, CursorSound, Numbers
  <2>3. FieldsSound'
    BY <1>1, <2>1, SameFields DEF IInv, Numbers
  <2> QED BY <2>2, <2>3 DEF IInv
<1>3. CASE m_cur # Null
  <2>1. Read(n)
    BY <1>3 DEF ReadRaw
  <2>2. CursorSound' /\ Numbers'
    BY <1>1, <2>1, ReadStep
  <2>3. FieldsSound'
    BY <1>1, <2>1, <2>2, SameFields DEF Read, IInv, Numbers
  <2> QED BY <2>2, <2>3 DEF IInv
<1> QED BY <1>2, <1>3

LEMMA SetPositionStep ==
  ASSUME IInv, NEW v \in Nat, SetPosition(v)
  PROVE  IInv'
<1>1. CursorSound' /\ Numbers'
  BY SeekStep
<1>2. m_size <= m_size' /\ UNCHANGED <<mem, fields>>
  BY DEF SetPosition, IInv, Numbers
<1>3. FieldsSound'
  BY <1>1, <1>2, SameFields DEF IInv, Numbers
<1> QED BY <1>1, <1>3 DEF IInv

LEMMA FillBuffersStep ==
  ASSUME IInv, NEW b \in Seq(Byte), FillBuffers(b)
  PROVE  IInv'
<1> DEFINE n == Len(b)  a == AddressIn(GrownCur(n), m_position)
<1>1. /\ n \in Nat \ {0} /\ FieldsSound /\ m_position \in Nat /\ m_size \in Nat
      /\ m_capacity \in Nat /\ m_position <= m_size /\ m_size <= m_capacity
  BY WholeNodes DEF FillBuffers, IInv
<1>2. PICK junk \in NewMemory : mem' = Stream!Overwritten(Grown(n, junk), a, b)
  BY DEF FillBuffers
<1>3. /\ m_capacity' = m_capacity + Added(n) /\ m_cur' = GrownCur(n)
      /\ fields' = Untouched(m_position, n)
      /\ UNCHANGED <<m_size, m_position, m_little>>
  BY DEF FillBuffers
<1>4. /\ mem' \in Seq(Byte) /\ Len(mem') = m_capacity'
      /\ \A i \in 1 .. m_capacity : i <= m_position \/ i > m_position + n => mem'[i] = mem[i]
  BY <1>1, <1>2, <1>3, CopiedIs
<1>5. /\ Added(n) \in Nat /\ m_capacity' % m_baseSize = 0 /\ m_position + n <= m_capacity'
  BY <1>1, <1>2, <1>3, GrownIs
<1> HIDE DEF n, a
<1>6. m_capacity' \in Nat /\ m_capacity <= m_capacity' /\ m_position < m_capacity'
  BY <1>1, <1>3, <1>5
<1>7. m_cur' = m_position \div m_baseSize
  <2>1. CASE m_position < m_capacity
    BY <2>1, <1>1, <1>3, PointerSound DEF GrownCur
  <2>2. CASE m_position = m_capacity
    BY <2>2, <1>1, <1>3, <1>5, <1>6 DEF GrownCur, Nodes, IInv, CursorSound
  <2> QED BY <1>1, <2>1, <2>2
<1>8. CursorSound'
  BY <1>1, <1>3, <1>4, <1>5, <1>6, <1>7 DEF CursorSound
<1>9. Numbers'
  <2>1. m_capacity >= m_baseSize /\ m_little \in BOOLEAN /\ m_baseSize \in Nat
    BY BaseAssumption DEF IInv, Numbers
  <2> QED BY <2>1, <1>1, <1>3, <1>6 DEF Numbers
<1>10. FieldsSound'
  <2>1. \A i \in 1 .. m_size : i <= m_position \/ i > m_position + n => mem'[i] = mem[i]
    BY <1>1, <1>4
  <2>2. ASSUME NEW f \in Untouched(m_position, n) PROVE FieldSound(f)'
    BY <2>1, <1>1, <1>3, FieldsKept
  <2> QED BY <2>2, <1>3 DEF FieldsSound
<1> QED BY <1>8, <1>9, <1>10 DEF IInv

LEMMA ClearStep ==
  ASSUME IInv, Clear
  PROVE  IInv'
<1>1. /\ m_baseSize \in Nat \ {0} /\ m_baseSize <= m_capacity /\ Len(mem) = m_capacity
      /\ mem \in Seq(Byte) /\ m_little \in BOOLEAN /\ m_capacity \in Nat
  BY WholeNodes DEF IInv, Numbers
<1>2. mem' \in Seq(Byte) /\ Len(mem') = m_baseSize
  <2>1. m_baseSize \in 0 .. Len(mem)
    BY <1>1
  <2> QED BY <2>1, <1>1, FrontIs DEF Clear
<1>3. m_baseSize % m_baseSize = 0
  <2> DEFINE B == m_baseSize
  <2> HIDE DEF B
  <2>1. B \in Nat \ {0}
    BY <1>1 DEF B
  <2>2. B \in Int /\ 1 \in Int /\ 0 \in 0 .. B - 1 /\ B = B * 1 + 0
    BY <2>1
  <2>3. B % B = 0
    BY <2>1, <2>2, DivUnique, Zenon
  <2> QED BY <2>3 DEF B
<1>4. 0 \div m_baseSize = 0
  <2>1. 0 \in Nat /\ m_baseSize \in Nat \ {0} /\ 0 < m_baseSize
    BY <1>1
  <2> QED BY <2>1, DivNat
<1>5. CursorSound'
  BY <1>1, <1>2, <1>3, <1>4 DEF Clear, CursorSound
<1>6. Numbers'
  BY <1>1 DEF Clear, Numbers
<1>7. FieldsSound'
  BY DEF Clear, FieldsSound
<1> QED BY <1>5, <1>6, <1>7 DEF IInv

\* What changes none of the array's variables keeps the invariant.
LEMMA SameArray ==
  ASSUME IInv, m_little' \in BOOLEAN, UNCHANGED <<memVars, fields>>
  PROVE  IInv'
<1>1. UNCHANGED <<mem, m_capacity, m_size, m_position, m_cur, fields>>
  BY DEF memVars
<1>2. CursorSound' /\ Numbers'
  BY <1>1 DEF IInv, CursorSound, Numbers
<1>3. FieldsSound'
  BY <1>1, SameFields DEF IInv, Numbers
<1> QED BY <1>2, <1>3 DEF IInv

LEMMA Inductive ==
  IInv /\ [Next]_vars => IInv'
<1> SUFFICES ASSUME IInv, [Next]_vars PROVE IInv'
  OBVIOUS
<1>0. m_little \in BOOLEAN
  BY DEF IInv, Numbers
<1>1. CASE \E k \in DOMAIN Samples : ReadField(k)
  BY <1>1, ReadFieldStep
<1>2. CASE \E k \in DOMAIN Samples : \E v \in Samples[k] : WriteField(k, v)
  BY <1>2, WriteFieldStep
<1>3. CASE \E b \in RawData : WriteRaw(b)
  BY <1>3, WriteRawStep, BaseAssumption
<1>4. CASE \E b \in RawData : FillBuffers(b)
  BY <1>4, FillBuffersStep, BaseAssumption
<1>5. CASE \E n \in {Len(b) : b \in RawData} : ReadRaw(n)
  <2>1. PICK n \in {Len(b) : b \in RawData} : ReadRaw(n)
    BY <1>5
  <2>2. n \in Nat
    BY BaseAssumption
  <2> QED BY <2>1, <2>2, ReadRawStep
<1>6. CASE \E v \in 0 .. MaxCapacity : SetPosition(v)
  <2>1. PICK v \in 0 .. MaxCapacity : SetPosition(v)
    BY <1>6
  <2>2. v \in Nat
    OBVIOUS
  <2> QED BY <2>1, <2>2, SetPositionStep
<1>7. CASE Clear
  BY <1>7, ClearStep
<1>8. CASE SetEndian
  BY <1>8, <1>0, SameArray DEF SetEndian
<1>9. CASE UNCHANGED vars
  BY <1>9, <1>0, SameArray DEF vars
<1> QED BY <1>1, <1>2, <1>3, <1>4, <1>5, <1>6, <1>7, <1>8, <1>9 DEF Next

LEMMA Always ==
  Spec => []IInv
BY Initially, Inductive, PTL DEF Spec

\* The numbers of the array fit together and the node pointer is the node of
\* the position, whatever is called in whatever order (byte_array.cpp 308-453).
THEOREM PointerFollowsPosition ==
  Spec => []CursorSound
BY Always, PTL DEF IInv

LEMMA SoundReadsBack ==
  IInv => FieldsReadBack
<1> SUFFICES ASSUME IInv, NEW f \in fields
             PROVE  LET d == Decode(f.kind, SubSeq(mem, f.at + 1, m_size), f.little)
                    IN  d.used = f.len /\ ~d.thrown /\ d.value = f.value
  BY DEF FieldsReadBack
<1> DEFINE e == Encode(f.kind, f.value, f.little)  s == SubSeq(mem, f.at + 1, m_size)
<1>1. FieldSound(f)
  BY DEF IInv, FieldsSound
<1>2. /\ f.kind \in DOMAIN Samples /\ f.value \in Samples[f.kind] /\ f.little \in BOOLEAN
      /\ Fits(f.kind, f.value) /\ f.at \in Nat /\ f.len \in Nat /\ f.len = Len(e)
      /\ f.at + f.len <= m_size /\ \A i \in 1 .. f.len : mem[f.at + i] = e[i]
  BY <1>1 DEF FieldSound
<1>3. m_size \in Nat /\ mem \in Seq(Byte) /\ m_size <= Len(mem)
  BY WholeNodes
<1> DEFINE at == f.at  n == m_size - at
<1>4. at \in 0 .. Len(mem) /\ n \in 0 .. Len(mem) - at /\ at + n = m_size
  BY <1>2, <1>3
<1>5. /\ SubSeq(mem, at + 1, at + n) \in Seq(Byte) /\ Len(SubSeq(mem, at + 1, at + n)) = n
      /\ \A i \in 1 .. n : SubSeq(mem, at + 1, at + n)[i] = mem[at + i]
  <2> HIDE DEF at, n
  <2> QED BY <1>3, <1>4, PartIs
<1>6. s \in Seq(Byte) /\ Len(s) = n /\ \A i \in 1 .. n : s[i] = mem[f.at + i]
  BY <1>4, <1>5
<1>s. s \in Seq(Byte)
  BY <1>6
<1>7. Starts(s, e)
  <2> HIDE DEF s, e
  <2> QED BY <1>2, <1>3, <1>6 DEF Starts
<1> HIDE DEF s
<1> DEFINE d == Decode(f.kind, s, f.little)
<1>8. d.used = Len(e) /\ ~d.thrown /\ d.value = f.value
  BY <1>2, <1>s, <1>7, DecodeEncode
<1> HIDE DEF d
<1>9. d.used = f.len /\ ~d.thrown /\ d.value = f.value
  BY <1>2, <1>8
<1> QED BY <1>9 DEF d, s

\* Every field not overwritten reads back as what was written, for any node
\* size, widths and values (the pairs write_xxx, read_xxx of byte_array.cpp).
THEOREM WrittenReadsBack ==
  Spec => []FieldsReadBack
BY Always, SoundReadsBack, PTL

-----------------------------------------------------------------------------
(* The nodes implement a sequence with a position.                         *)

LEMMA StreamInitially ==
  Init => Stream!Init
<1> SUFFICES ASSUME Init PROVE Stream!Init
  OBVIOUS
<1>1. Content = <<>>
  <2>1. m_size = 0 /\ 1 \in Int /\ 0 \in Int /\ 0 < 1
    BY DEF Init
  <2> QED BY <2>1, SubSeqEmpty DEF Content
<1> QED BY <1>1 DEF Init, Stream!Init

\* No byte less, no byte more: what leaves the memory's beginning alone and
\* the size as well leaves the content alone.
LEMMA SameContent ==
  ASSUME UNCHANGED <<mem, m_size>>
  PROVE  Content' = Content
BY DEF Content

LEMMA PutStep ==
  ASSUME IInv, IInv', NEW b \in Seq(Byte), Write(b), Call("write", b), m_little' = m_little
  PROVE  Stream!Put
<1>1. call'.op = "write" /\ call'.bytes = b
  BY DEF Call
<1>2. Content' = Stream!Overwritten(Content, m_position, b)
  BY WriteContent
<1>3. m_position' = m_position + Len(b)
  BY WriteStep
<1> QED BY <1>1, <1>2, <1>3 DEF Stream!Put

LEMMA TakeStep ==
  ASSUME IInv, NEW n \in 0 .. Unread, Read(n), Call("read", Ahead(n))
  PROVE  Stream!Take
<1>1. call'.op = "read" /\ call'.bytes = Ahead(n)
  BY DEF Call
<1>2. /\ Ahead(n) \in Seq(Byte) /\ Len(Ahead(n)) = n
      /\ \A i \in 1 .. n : Ahead(n)[i] = mem[m_position + i]
  BY AheadIs
<1>3. /\ Content \in Seq(Byte) /\ Len(Content) = m_size
      /\ \A i \in 1 .. m_size : Content[i] = mem[i]
  BY ContentIs
<1>4. m_position \in Nat /\ m_size \in Nat /\ n \in Nat /\ m_position + n <= m_size
  BY WholeNodes DEF Unread
<1>5. SubSeq(Content, m_position + 1, m_position + n) = Ahead(n)
  <2> DEFINE x == SubSeq(Content, m_position + 1, m_position + n)
  <2>1. m_position \in 0 .. Len(Content) /\ n \in 0 .. Len(Content) - m_position
    BY <1>3, <1>4
  <2>2. x \in Seq(Byte) /\ Len(x) = n /\ \A i \in 1 .. n : x[i] = Content[m_position + i]
    BY <1>3, <2>1, PartIs
  <2>3. \A i \in 1 .. n : m_position + i \in 1 .. m_size
    BY <1>4
  <2>4. \A i \in 1 .. n : x[i] = Ahead(n)[i]
    BY <1>2, <1>3, <2>2, <2>3
  <2> HIDE DEF x
  <2>5. x = Ahead(n)
    BY <1>2, <2>2, <2>4, SeqEqual
  <2> QED BY <2>5 DEF x
<1>6. m_position' = m_position + n /\ Content' = Content
  BY SameContent DEF Read
<1> QED BY <1>1, <1>2, <1>3, <1>4, <1>5, <1>6 DEF Stream!Take

LEMMA EmptyTakeStep ==
  ASSUME IInv, UNCHANGED memVars, Call("read", <<>>)
  PROVE  Stream!Take
<1>1. call'.op = "read" /\ call'.bytes = <<>> /\ Len(<<>>) = 0
  BY DEF Call
<1>2. /\ Content \in Seq(Byte) /\ Len(Content) = m_size
      /\ m_position \in Nat /\ m_size \in Nat /\ m_position <= m_size
  BY ContentIs, WholeNodes
<1>3. SubSeq(Content, m_position + 1, m_position + 0) = <<>>
  <2>1. m_position + 1 \in Int /\ m_position + 0 \in Int /\ m_position + 0 < m_position + 1
    BY <1>2
  <2> QED BY <2>1, SubSeqEmpty
<1>4. m_position' = m_position + 0 /\ Content' = Content
  BY <1>2, SameContent DEF memVars
<1>5. m_position + 0 <= Len(Content)
  BY <1>2
<1> QED BY <1>1, <1>3, <1>4, <1>5 DEF Stream!Take

LEMMA StreamSeekStep ==
  ASSUME IInv, IInv', NEW v \in Nat, SetPosition(v)
  PROVE  Stream!Seek
<1>1. call'.op = "seek" /\ m_position' = v /\ mem' = mem
      /\ m_size' = IF v > m_size THEN v ELSE m_size
  BY DEF SetPosition, Call
<1>2. /\ Content \in Seq(Byte) /\ Len(Content) = m_size
      /\ \A i \in 1 .. m_size : Content[i] = mem[i]
  BY ContentIs
<1>3. /\ Content' \in Seq(Byte) /\ Len(Content') = m_size'
      /\ \A i \in 1 .. m_size' : Content'[i] = mem'[i]
  <2>1. mem' \in Seq(Byte) /\ m_size' \in 0 .. Len(mem')
    BY DEF IInv, CursorSound, Numbers
  <2> QED BY <2>1, FrontIs DEF Content
<1>4. m_size \in Nat /\ m_size' \in Nat /\ m_size <= m_size'
  BY <1>1 DEF IInv, Numbers
<1>5. Stream!IsPrefix(Content, Content')
  <2> DEFINE x == SubSeq(Content, 1, m_size)  y == SubSeq(Content', 1, m_size)
  <2>1. x \in Seq(Byte) /\ Len(x) = m_size /\ \A i \in 1 .. m_size : x[i] = Content[i]
    <3>1. m_size \in 0 .. Len(Content)
      BY <1>2, <1>4
    <3> QED BY <1>2, <3>1, FrontIs
  <2>2. y \in Seq(Byte) /\ Len(y) = m_size /\ \A i \in 1 .. m_size : y[i] = Content'[i]
    <3>1. m_size \in 0 .. Len(Content')
      BY <1>3, <1>4
    <3> QED BY <1>3, <3>1, FrontIs
  <2>3. \A i \in 1 .. m_size : i \in 1 .. m_size'
    BY <1>4
  <2>4. \A i \in 1 .. m_size : x[i] = y[i]
    BY <2>1, <2>2, <2>3, <1>1, <1>2, <1>3
  <2> HIDE DEF x, y
  <2>5. x = y
    BY <2>1, <2>2, <2>4, SeqEqual
  <2> QED BY <2>5, <1>2, <1>3, <1>4 DEF Stream!IsPrefix, x, y
<1> QED BY <1>1, <1>2, <1>3, <1>5 DEF Stream!Seek

LEMMA StreamFillStep ==
  ASSUME IInv, IInv', NEW b \in Seq(Byte), FillBuffers(b)
  PROVE  Stream!Fill
<1> DEFINE n == Len(b)  a == AddressIn(GrownCur(n), m_position)
           o == Stream!Overwritten(Content, m_position, b)
<1>1. /\ n \in Nat \ {0} /\ m_position \in Nat /\ m_size \in Nat
      /\ m_capacity \in Nat /\ m_position <= m_size /\ m_size <= m_capacity
  BY WholeNodes DEF FillBuffers
<1>2. PICK junk \in NewMemory : mem' = Stream!Overwritten(Grown(n, junk), a, b)
  BY DEF FillBuffers
<1>3. call'.op = "fill" /\ call'.bytes = b /\ UNCHANGED <<m_size, m_position>>
  BY DEF FillBuffers, Call
<1>4. /\ mem' \in Seq(Byte)
      /\ \A i \in 1 .. m_capacity : i <= m_position \/ i > m_position + n => mem'[i] = mem[i]
      /\ \A i \in 1 .. n : mem'[m_position + i] = b[i]
  BY <1>1, <1>2, CopiedIs
<1>5. /\ Content \in Seq(Byte) /\ Len(Content) = m_size
      /\ \A i \in 1 .. m_size : Content[i] = mem[i]
  BY ContentIs
<1>6. /\ Content' \in Seq(Byte) /\ Len(Content') = m_size
      /\ \A i \in 1 .. m_size : Content'[i] = mem'[i]
  <2>1. mem' \in Seq(Byte) /\ m_size' \in 0 .. Len(mem')
    BY DEF IInv, CursorSound, Numbers
  <2>2. /\ Content' \in Seq(Byte) /\ Len(Content') = m_size'
        /\ \A i \in 1 .. m_size' : Content'[i] = mem'[i]
    BY <2>1, FrontIs DEF Content
  <2> QED BY <2>2, <1>3
<1>7. /\ o \in Seq(Byte)
      /\ Len(o) = IF m_position + n > m_size THEN m_position + n ELSE m_size
      /\ \A i \in 1 .. Len(o) :
           o[i] = IF m_position < i /\ i <= m_position + n THEN b[i - m_position] ELSE Content[i]
  <2>1. m_position \in 0 .. Len(Content)
    BY <1>1, <1>5
  <2> QED BY <2>1, <1>5, OverwrittenIs
<1> HIDE DEF o, n, a
<1>8. Len(o) \in Nat /\ m_size <= Len(o)
  BY <1>1, <1>7
<1> DEFINE x == SubSeq(o, 1, m_size)
<1>9. x \in Seq(Byte) /\ Len(x) = m_size /\ \A i \in 1 .. m_size : x[i] = o[i]
  <2>1. m_size \in 0 .. Len(o)
    BY <1>1, <1>8
  <2> QED BY <1>7, <2>1, FrontIs
<1> HIDE DEF x
<1>10. ASSUME NEW i \in 1 .. m_size PROVE Content'[i] = x[i]
  <2>0. i \in 1 .. m_capacity /\ i \in 1 .. Len(o)
    BY <1>1, <1>8
  <2>1. CASE m_position < i /\ i <= m_position + n
    <3>1. i - m_position \in 1 .. n /\ m_position + (i - m_position) = i
      BY <2>1, <1>1
    <3> QED BY <3>1, <2>0, <2>1, <1>4, <1>6, <1>7, <1>9
  <2>2. CASE ~(m_position < i /\ i <= m_position + n)
    <3>1. i <= m_position \/ i > m_position + n
      BY <2>2, <1>1
    <3> QED BY <3>1, <2>0, <2>2, <1>4, <1>5, <1>6, <1>7, <1>9
  <2> QED BY <2>1, <2>2
<1>11. Content' = x
  BY <1>6, <1>9, <1>10, SeqEqual
<1>12. Content' = SubSeq(Stream!Overwritten(Content, m_position, b), 1, Len(Content))
  BY <1>5, <1>11 DEF x, o
<1> QED BY <1>3, <1>12 DEF Stream!Fill

LEMMA StreamClearStep ==
  ASSUME Clear
  PROVE  Stream!Clear
<1>1. Content' = <<>>
  <2>1. m_size' = 0 /\ 1 \in Int /\ 0 \in Int /\ 0 < 1
    BY DEF Clear
  <2> QED BY <2>1, SubSeqEmpty DEF Content
<1> QED BY <1>1 DEF Clear, Call, Stream!Clear

LEMMA StreamStep ==
  IInv /\ IInv' /\ [Next]_vars => [Stream!Next]_Stream!vars
<1> SUFFICES ASSUME IInv, IInv', [Next]_vars PROVE Stream!Next \/ UNCHANGED Stream!vars
  BY DEF Stream!vars
<1>0. m_little \in BOOLEAN
  BY DEF IInv, Numbers
<1>1. CASE \E k \in DOMAIN Samples : ReadField(k)
  <2>1. PICK k \in DOMAIN Samples : ReadField(k)
    BY <1>1
  <2> DEFINE d == Decode(k, Ahead(Unread), m_little)
  <2>2. d.used \in 0 .. Unread
    <3>1. Unread \in 0 .. Unread
      BY WholeNodes
    <3>2. Ahead(Unread) \in Seq(Byte) /\ Len(Ahead(Unread)) = Unread
      BY <3>1, AheadIs
    <3> QED BY <1>0, <3>2, DecodeUses
  <2>3. Read(d.used) /\ Call("read", Ahead(d.used))
    BY <2>1 DEF ReadField
  <2> HIDE DEF d
  <2> QED BY <2>2, <2>3, TakeStep DEF Stream!Next
<1>2. CASE \E k \in DOMAIN Samples : \E v \in Samples[k] : WriteField(k, v)
  <2>k. PICK k \in DOMAIN Samples : \E v \in Samples[k] : WriteField(k, v)
    BY <1>2
  <2>1. PICK v \in Samples[k] : WriteField(k, v)
    BY <2>k
  <2> DEFINE b == Encode(k, v, m_little)
  <2>2. b \in Seq(Byte)
    BY <1>0, EncodeType
  <2>3. Write(b) /\ Call("write", b) /\ m_little' = m_little
    BY <2>1 DEF WriteField
  <2> HIDE DEF b
  <2> QED BY <2>2, <2>3, PutStep DEF Stream!Next
<1>3. CASE \E b \in RawData : WriteRaw(b)
  <2>1. PICK b \in RawData : WriteRaw(b)
    BY <1>3
  <2>2. b \in Seq(Byte) /\ Write(b) /\ Call("write", b) /\ m_little' = m_little
    BY <2>1, BaseAssumption DEF WriteRaw
  <2> QED BY <2>2, PutStep DEF Stream!Next
<1>4. CASE \E b \in RawData : FillBuffers(b)
  BY <1>4, StreamFillStep, BaseAssumption DEF Stream!Next
<1>5. CASE \E n \in {Len(b) : b \in RawData} : ReadRaw(n)
  <2>1. PICK n \in {Len(b) : b \in RawData} : ReadRaw(n)
    BY <1>5
  <2>2. n \in 0 .. Unread
    BY <2>1, BaseAssumption, WholeNodes DEF ReadRaw
  <2>3. CASE m_cur = Null
    <3>1. UNCHANGED memVars /\ Call("read", <<>>)
      BY <2>1, <2>3 DEF ReadRaw
    <3> QED BY <3>1, EmptyTakeStep DEF Stream!Next
  <2>4. CASE m_cur # Null
    <3>1. Read(n) /\ Call("read", Ahead(n))
      BY <2>1, <2>4 DEF ReadRaw
    <3> QED BY <3>1, <2>2, TakeStep DEF Stream!Next
  <2> QED BY <2>3, <2>4
<1>6. CASE \E v \in 0 .. MaxCapacity : SetPosition(v)
  <2>1. PICK v \in 0 .. MaxCapacity : SetPosition(v)
    BY <1>6
  <2>2. v \in Nat
    OBVIOUS
  <2> QED BY <2>1, <2>2, StreamSeekStep DEF Stream!Next
<1>7. CASE Clear
  BY <1>7, StreamClearStep DEF Stream!Next
<1>8. CASE SetEndian
  BY <1>8, SameContent DEF SetEndian, memVars, Stream!vars
<1>9. CASE UNCHANGED vars
  BY <1>9, SameContent DEF vars, memVars, Stream!vars
<1> QED BY <1>1, <1>2, <1>3, <1>4, <1>5, <1>6, <1>7, <1>8, <1>9 DEF Next

\* The list of nodes, its growth and its pointer implement a plain sequence of
\* bytes with a position (the interface of byte_array.h).
THEOREM NodesAreAStream ==
  Spec => ImplementsByteStream
<1>1. Init => Stream!Init
  BY StreamInitially
<1>2. IInv /\ IInv' /\ [Next]_vars => [Stream!Next]_Stream!vars
  BY StreamStep
<1> QED BY <1>1, <1>2, Always, PTL DEF Spec, ImplementsByteStream, Stream!Spec

-----------------------------------------------------------------------------
(* The other views of the unread bytes.                                    *)

\* The unread bytes.
Rest == SubSeq(Content, m_position + 1, m_size)

LEMMA RestIs ==
  ASSUME IInv
  PROVE  /\ Rest \in Seq(Byte) /\ Len(Rest) = Unread
         /\ \A i \in 1 .. Unread : Rest[i] = mem[m_position + i]
<1>1. /\ Content \in Seq(Byte) /\ Len(Content) = m_size
      /\ \A i \in 1 .. m_size : Content[i] = mem[i]
  BY ContentIs
<1> DEFINE n == Unread
<1>2. /\ m_position \in 0 .. Len(Content) /\ n \in 0 .. Len(Content) - m_position
      /\ m_position + n = m_size /\ m_position \in Nat /\ n \in Nat
  BY <1>1, WholeNodes DEF Unread
<1> HIDE DEF n
<1>3. /\ SubSeq(Content, m_position + 1, m_position + n) \in Seq(Byte)
      /\ Len(SubSeq(Content, m_position + 1, m_position + n)) = n
      /\ \A i \in 1 .. n : SubSeq(Content, m_position + 1, m_position + n)[i] = Content[m_position + i]
  BY <1>1, <1>2, PartIs
<1>4. Rest = SubSeq(Content, m_position + 1, m_position + n)
  BY <1>2 DEF Rest
<1>5. \A i \in 1 .. n : m_position + i \in 1 .. m_size
  BY <1>2
<1> QED BY <1>1, <1>3, <1>4, <1>5 DEF n

\* What a read would copy is the beginning of the unread bytes.
LEMMA AheadIsRest ==
  ASSUME IInv, NEW n \in 0 .. Unread
  PROVE  Ahead(n) = SubSeq(Rest, 1, n)
<1>1. Rest \in Seq(Byte) /\ Len(Rest) = Unread
      /\ \A i \in 1 .. Unread : Rest[i] = mem[m_position + i]
  BY RestIs
<1>2. Ahead(n) \in Seq(Byte) /\ Len(Ahead(n)) = n
      /\ \A i \in 1 .. n : Ahead(n)[i] = mem[m_position + i]
  BY AheadIs
<1> DEFINE x == SubSeq(Rest, 1, n)
<1>3. x \in Seq(Byte) /\ Len(x) = n /\ \A i \in 1 .. n : x[i] = Rest[i]
  BY <1>1, FrontIs
<1>4. \A i \in 1 .. n : i \in 1 .. Unread
  BY WholeNodes
<1>5. \A i \in 1 .. n : Ahead(n)[i] = x[i]
  BY <1>1, <1>2, <1>3, <1>4
<1> HIDE DEF x
<1>6. Ahead(n) = x
  BY <1>2, <1>3, <1>5, SeqEqual
<1> QED BY <1>6 DEF x

LEMMA CopiesAgree ==
  ASSUME IInv
  PROVE  /\ UnreadString = Rest
         /\ \A n \in 0 .. m_size + 1 :
              Buffers(n) = SubSeq(Rest, 1, IF n < Unread THEN n ELSE Unread)
<1>1. Rest \in Seq(Byte) /\ Len(Rest) = Unread /\ Unread \in Nat
  BY RestIs, WholeNodes
<1>2. \A n \in 0 .. Unread : (IF n = 0 THEN <<>> ELSE Ahead(n)) = SubSeq(Rest, 1, n)
  <2> SUFFICES ASSUME NEW n \in 0 .. Unread
               PROVE (IF n = 0 THEN <<>> ELSE Ahead(n)) = SubSeq(Rest, 1, n)
    OBVIOUS
  <2>1. CASE n = 0
    <3>1. 1 \in Int /\ 0 \in Int /\ 0 < 1
      OBVIOUS
    <3>2. SubSeq(Rest, 1, 0) = <<>>
      BY <3>1, SubSeqEmpty
    <3> QED BY <2>1, <3>2
  <2>2. CASE n # 0
    BY <2>2, AheadIsRest
  <2> QED BY <2>1, <2>2
<1>3. UnreadString = Rest
  <2>1. SubSeq(Rest, 1, Unread) = Rest
    BY <1>1, SubSeqFull
  <2>2. Unread \in 0 .. Unread
    BY <1>1
  <2> QED BY <1>2, <2>1, <2>2 DEF UnreadString
<1>4. ASSUME NEW n \in 0 .. m_size + 1
      PROVE  Buffers(n) = SubSeq(Rest, 1, IF n < Unread THEN n ELSE Unread)
  <2> DEFINE c == IF n > Unread THEN Unread ELSE n
  <2>1. c \in 0 .. Unread /\ c = IF n < Unread THEN n ELSE Unread
    BY <1>1, WholeNodes
  <2>2. Buffers(n) = IF c = 0 THEN <<>> ELSE Ahead(c)
    BY DEF Buffers
  <2> HIDE DEF c
  <2> QED BY <1>2, <2>1, <2>2
<1> QED BY <1>3, <1>4

LEMMA BuffersAtAgree ==
  ASSUME IInv, NEW p \in 0 .. m_position
  PROVE  IsPrefix(BuffersAt(Unread, p), SubSeq(Content, p + 1, m_size))
<1> DEFINE n == Unread  r == m_size - p
           x == BuffersAt(Unread, p)  y == SubSeq(Content, p + 1, m_size)
<1>1. /\ m_position \in Nat /\ m_size \in Nat /\ n \in Nat /\ p \in Nat /\ r \in Nat
      /\ p + n <= m_size /\ n <= r /\ m_size <= Len(mem) /\ mem \in Seq(Byte) /\ p + r = m_size
  BY WholeNodes DEF Unread
<1>2. /\ Content \in Seq(Byte) /\ Len(Content) = m_size
      /\ \A i \in 1 .. m_size : Content[i] = mem[i]
  BY ContentIs
<1>3. x = SubSeq(mem, p + 1, p + n)
  BY <1>1 DEF BuffersAt
<1>4. x \in Seq(Byte) /\ Len(x) = n /\ \A i \in 1 .. n : x[i] = mem[p + i]
  <2>1. p \in 0 .. Len(mem) /\ n \in 0 .. Len(mem) - p
    BY <1>1
  <2> QED BY <1>1, <1>3, <2>1, PartIs
<1>5. y \in Seq(Byte) /\ Len(y) = r /\ \A i \in 1 .. r : y[i] = Content[p + i]
  <2>1. p \in 0 .. Len(Content) /\ r \in 0 .. Len(Content) - p
    BY <1>1, <1>2
  <2> HIDE DEF r
  <2>2. /\ SubSeq(Content, p + 1, p + r) \in Seq(Byte)
        /\ Len(SubSeq(Content, p + 1, p + r)) = r
        /\ \A i \in 1 .. r : SubSeq(Content, p + 1, p + r)[i] = Content[p + i]
    BY <1>2, <2>1, PartIs
  <2> QED BY <2>2, <1>1
<1> HIDE DEF x, y, n, r
<1>6. SubSeq(x, 1, n) = x
  BY <1>4, SubSeqFull
<1>7. SubSeq(y, 1, n) = x
  <2> DEFINE z == SubSeq(y, 1, n)
  <2>1. z \in Seq(Byte) /\ Len(z) = n /\ \A i \in 1 .. n : z[i] = y[i]
    <3>1. n \in 0 .. Len(y)
      BY <1>1, <1>5
    <3> QED BY <1>5, <3>1, FrontIs
  <2>2. \A i \in 1 .. n : i \in 1 .. r /\ p + i \in 1 .. m_size
    BY <1>1
  <2>3. \A i \in 1 .. n : z[i] = x[i]
    BY <2>1, <2>2, <1>2, <1>4, <1>5
  <2> HIDE DEF z
  <2>4. z = x
    BY <2>1, <2>3, <1>4, SeqEqual
  <2> QED BY <2>4 DEF z
<1>8. Len(x) = n /\ Len(x) <= Len(y)
  BY <1>1, <1>4, <1>5
<1> QED BY <1>6, <1>7, <1>8 DEF IsPrefix, x, y

-----------------------------------------------------------------------------
(* write_to_file.                                                          *)

FileState == [cur : Int, pos : Nat, left : Nat, out : Seq(Int)]
FileStart == [cur |-> m_cur, pos |-> m_position, left |-> Unread, out |-> <<>>]

LEMMA PieceBounds ==
  ASSUME NEW p \in Nat, NEW r \in Nat
  PROVE  /\ Piece(p, r) \in Int /\ Piece(p, r) <= r
         /\ (p % m_baseSize) \in 0 .. m_baseSize - 1
         /\ Piece(p, r) + (p % m_baseSize) <= m_baseSize
<1> DEFINE o == p % m_baseSize
<1>1. m_baseSize \in Nat \ {0} /\ p \in Int
  BY BaseAssumption
<1>2. o \in 0 .. m_baseSize - 1
  BY <1>1, DivMod
<1>3. Piece(p, r) = (IF r > m_baseSize THEN m_baseSize ELSE r) - o
  BY DEF Piece
<1> HIDE DEF o
<1>4. Piece(p, r) \in Int /\ Piece(p, r) <= r /\ Piece(p, r) + o <= m_baseSize
  BY <1>1, <1>2, <1>3
<1> QED BY <1>2, <1>4 DEF o

\* A pass copies bytes of one node.
LEMMA PassType ==
  ASSUME IInv, NEW s \in FileState
  PROVE  WritePiece(s) \in FileState
<1> DEFINE n == Piece(s.pos, s.left)
           from == AddressIn(s.cur, s.pos)
<1>1. s.cur \in Int /\ s.pos \in Nat /\ s.left \in Nat /\ s.out \in Seq(Int)
  BY DEF FileState
<1>2. CASE s.left = 0
  BY <1>2 DEF WritePiece
<1>3. CASE s.left # 0 /\ (n <= 0 \/ s.cur \notin 0 .. Nodes - 1)
  <2>1. WritePiece(s) = [s EXCEPT !.left = 0, !.out = Append(@, -1)]
    BY <1>3 DEF WritePiece
  <2>2. Append(s.out, -1) \in Seq(Int)
    BY <1>1
  <2> DEFINE e == Append(s.out, -1)
  <2>3. WritePiece(s) = [[s EXCEPT !.left = 0] EXCEPT !.out = e]
    BY <2>1
  <2>4. [s EXCEPT !.left = 0] \in FileState
    BY DEF FileState
  <2> HIDE DEF e
  <2>5. [[s EXCEPT !.left = 0] EXCEPT !.out = e] \in FileState
    BY <2>2, <2>4 DEF FileState, e
  <2> QED BY <2>3, <2>5
<1>4. CASE s.left # 0 /\ ~(n <= 0 \/ s.cur \notin 0 .. Nodes - 1)
  <2>1. WritePiece(s) = [cur |-> s.cur + 1, pos |-> s.pos + n, left |-> s.left - n,
                         out |-> s.out \o SubSeq(mem, from + 1, from + n)]
    BY <1>4 DEF WritePiece
  <2>2. n \in Int /\ n <= s.left /\ s.pos % m_baseSize \in 0 .. m_baseSize - 1
        /\ n + (s.pos % m_baseSize) <= m_baseSize
    BY <1>1, PieceBounds
  <2> DEFINE o == s.pos % m_baseSize  B == m_baseSize  N == Nodes
  <2>3. /\ B \in Nat \ {0} /\ N \in Nat /\ B * N = Len(mem) /\ mem \in Seq(Byte)
        /\ Len(mem) \in Nat
    <3>1. /\ B \in Nat \ {0} /\ N \in Nat /\ N * B = Len(mem) /\ mem \in Seq(Byte)
          /\ Len(mem) \in Nat
      BY WholeNodes
    <3> QED BY <3>1
  <2>4. from = s.cur * B + o
    BY DEF AddressIn
  <2>5. o \in 0 .. B - 1 /\ n \in Nat /\ n + o <= B /\ s.cur \in Nat /\ s.cur < N
    BY <2>2, <2>3, <1>1, <1>4
  <2> HIDE DEF o, n, B, N, from
  <2>6. B * s.cur + B <= B * N
    <3>1. s.cur \in Int /\ N \in Int /\ B \in Nat
      BY <2>3, <2>5
    <3> QED BY <3>1, <2>5, NextMultiple
  <2> DEFINE y == B * s.cur
  <2>7. y \in Nat /\ from = y + o
    <3>1. s.cur * B = B * s.cur /\ B * s.cur \in Nat
      BY <2>3, <2>5
    <3> QED BY <2>4, <3>1
  <2>8. y + B <= Len(mem)
    BY <2>3, <2>6
  <2> HIDE DEF y
  <2>9. from \in 0 .. Len(mem) /\ n \in 0 .. Len(mem) - from
    BY <2>3, <2>5, <2>7, <2>8
  <2>10. SubSeq(mem, from + 1, from + n) \in Seq(Byte)
    BY <2>3, <2>9, PartIs
  <2>11. SubSeq(mem, from + 1, from + n) \in Seq(Int)
    <3>1. Byte \subseteq Int
      BY GroupFacts
    <3> QED BY <2>10, <3>1, SeqMonotonic
  <2>12. s.out \o SubSeq(mem, from + 1, from + n) \in Seq(Int)
    BY <1>1, <2>11, ConcatProperties
  <2>13. s.left - n \in Nat /\ s.pos + n \in Nat /\ s.cur + 1 \in Int
    BY <1>1, <2>2, <2>5
  <2> QED BY <2>1, <2>12, <2>13 DEF FileState
<1> QED BY <1>2, <1>3, <1>4

LEMMA FilePasses ==
  ASSUME IInv
  PROVE  \E g \in [0 .. Nodes + 1 -> FileState] :
           /\ g[0] = FileStart
           /\ \A i \in 1 .. Nodes + 1 : g[i] = WritePiece(g[i - 1])
           /\ File = g[Nodes + 1].out
<1> DEFINE K == Nodes + 1
           F == [i \in 1 .. K |-> [s \in FileState |-> WritePiece(s)]]
           pass == CHOOSE f : f = [i \in 0 .. K |->
                     IF i = 0 THEN FileStart ELSE WritePiece(f[i - 1])]
<1>1. K \in Nat
  BY WholeNodes
<1>2. FileStart \in FileState
  <2>1. m_cur \in Int
    <3>1. m_position \in Nat /\ m_baseSize \in Nat \ {0}
      BY WholeNodes
    <3>2. m_position \div m_baseSize \in Nat
      BY <3>1, DivNat
    <3> QED BY <3>2 DEF IInv, CursorSound, Null
  <2>2. m_position \in Nat /\ Unread \in Nat
    BY WholeNodes
  <2>3. <<>> \in Seq(Int)
    OBVIOUS
  <2> QED BY <2>1, <2>2, <2>3 DEF FileStart, FileState
<1>3. F \in [1 .. K -> [FileState -> FileState]]
      /\ \A i \in 1 .. K, s \in FileState : F[i][s] = WritePiece(s)
  BY PassType
<1>4. \E g : Iterates(g, F, K, FileState, FileStart)
  <2>1. Steps(F, K, FileState)
    BY <1>3 DEF Steps
  <2> HIDE DEF K, F
  <2> QED BY <1>1, <1>2, <2>1, Recursion
<1> HIDE DEF F, K
<1>5. PICK g \in [0 .. K -> FileState] :
        g[0] = FileStart /\ \A i \in 1 .. K : g[i] = WritePiece(g[i - 1])
  <2>1. PICK h : Iterates(h, F, K, FileState, FileStart)
    BY <1>4
  <2>2. h \in [0 .. K -> FileState] /\ h[0] = FileStart
        /\ \A i \in 1 .. K : h[i] = F[i][h[i - 1]]
    BY <2>1 DEF Iterates
  <2>3. ASSUME NEW i \in 1 .. K PROVE h[i] = WritePiece(h[i - 1])
    <3>1. h[i - 1] \in FileState
      BY <2>2, <1>1
    <3> QED BY <2>2, <3>1, <1>3
  <2> QED BY <2>2, <2>3
<1>6. g = [i \in 0 .. K |-> IF i = 0 THEN FileStart ELSE WritePiece(g[i - 1])]
  BY <1>1, <1>5
<1>7. pass = [i \in 0 .. K |-> IF i = 0 THEN FileStart ELSE WritePiece(pass[i - 1])]
  BY <1>6
<1>8. File = pass[K].out
  BY DEF File, FileStart, K
<1> HIDE DEF pass
<1>9. \A i \in 0 .. K : pass[i] = g[i]
  <2> DEFINE T == {i \in 0 .. K : pass[i] = g[i]}
  <2>1. 0 \in T
    BY <1>1, <1>5, <1>7
  <2>2. ASSUME NEW i \in 1 .. K, i - 1 \in T PROVE i \in T
    <3>1. pass[i] = WritePiece(pass[i - 1]) /\ g[i] = WritePiece(g[i - 1])
      BY <1>1, <1>5, <1>7
    <3>2. i \in 0 .. K /\ pass[i - 1] = g[i - 1]
      BY <2>2
    <3> QED BY <3>1, <3>2
  <2> HIDE DEF T
  <2>3. \A i \in 0 .. K : i \in T
    BY <1>1, <2>1, <2>2, InductionUpTo
  <2> QED BY <2>3 DEF T
<1>10. File = g[K].out
  BY <1>1, <1>8, <1>9
<1> QED BY <1>5, <1>10 DEF K

\* Once nothing is left a pass does nothing.
LEMMA PassesEnd ==
  ASSUME NEW k \in Nat, NEW g, \A i \in 1 .. k : g[i] = WritePiece(g[i - 1]),
         NEW m \in 0 .. k, g[m].left = 0
  PROVE  g[k] = g[m]
<1> DEFINE T == {i \in 0 .. k : i >= m => g[i] = g[m]}
<1>1. 0 \in T
  OBVIOUS
<1>2. ASSUME NEW i \in 1 .. k, i - 1 \in T PROVE i \in T
  <2>1. SUFFICES ASSUME i > m PROVE g[i] = g[m]
    OBVIOUS
  <2>2. g[i - 1] = g[m]
    BY <1>2, <2>1
  <2>3. g[i] = WritePiece(g[m])
    BY <2>2
  <2> QED BY <2>3 DEF WritePiece
<1> HIDE DEF T
<1>3. \A i \in 0 .. k : i \in T
  BY <1>1, <1>2, InductionUpTo
<1> QED BY <1>3 DEF T

\* Where a pass starts at the start of a node, or has a node's worth to write,
\* it copies to the end of the node or of the content.
Whole(s) ==
  /\ s.left \in Nat /\ s.pos \in Nat /\ s.pos + s.left = m_size /\ m_position <= s.pos
  /\ s.out = SubSeq(mem, m_position + 1, s.pos)
  /\ s.left > 0 => /\ s.cur = s.pos \div m_baseSize
                   /\ s.pos % m_baseSize = 0 \/ s.left >= m_baseSize

LEMMA WholePass ==
  ASSUME IInv, NEW s, Whole(s), s.left > 0
  PROVE  Whole(WritePiece(s)) /\ (WritePiece(s).left > 0 => WritePiece(s).cur = s.cur + 1)
<1> DEFINE B == m_baseSize  N == Nodes  p == s.pos  r == s.left  n == Piece(p, r)
           o == p % B  c == p \div B  from == AddressIn(s.cur, p)
           t == WritePiece(s)
<1>1. /\ r \in Nat /\ p \in Nat /\ p + r = m_size /\ m_position <= p
      /\ s.out = SubSeq(mem, m_position + 1, p)
      /\ s.cur = c /\ r > 0 /\ (o = 0 \/ r >= B)
  BY DEF Whole
<1>2. /\ B \in Nat \ {0} /\ N \in Nat /\ N * B = Len(mem) /\ mem \in Seq(Byte)
      /\ m_size <= Len(mem) /\ Len(mem) \in Nat /\ m_position \in Nat /\ m_size \in Nat
  BY WholeNodes
<1>3. c \in Nat /\ p = B * c + o /\ o \in 0 .. B - 1
  <2>1. p \in Int
    BY <1>1
  <2> QED BY <1>1, <1>2, <2>1, DivMod, DivNat
<1>4. n = (IF r > B THEN B ELSE r) - o
  BY DEF Piece
<1>5. s.left # 0
  BY <1>1
<1>6. from = c * B + o
  BY <1>1 DEF AddressIn
<1>7. t = IF n <= 0 \/ s.cur \notin 0 .. N - 1
          THEN [s EXCEPT !.left = 0, !.out = Append(@, -1)]
          ELSE [cur |-> s.cur + 1, pos |-> p + n, left |-> r - n,
                out |-> s.out \o SubSeq(mem, from + 1, from + n)]
  BY <1>5 DEF WritePiece
<1> HIDE DEF n, o, c, from, t, B, N
<1> DEFINE y == B * c
<1>8. y \in Nat /\ c * B = y /\ p = y + o
  BY <1>2, <1>3
<1>9. c < N
  <2>1. ASSUME N <= c PROVE FALSE
    <3>1. B * N <= B * c
      <4>1. CASE N = c
        BY <4>1, <1>2, <1>3
      <4>2. CASE N < c
        <5>1. N \in Int /\ c \in Int /\ B \in Nat
          BY <1>2, <1>3
        <5>2. B * N + B <= B * c
          BY <4>2, <5>1, NextMultiple
        <5>3. B * N \in Nat
          BY <1>2
        <5> QED BY <5>2, <5>3, <1>2, <1>8
      <4> QED BY <4>1, <4>2, <2>1, <1>2, <1>3
    <3>2. B * N = Len(mem)
      BY <1>2
    <3> HIDE DEF y
    <3>3. Len(mem) <= y
      BY <3>1, <3>2 DEF y
    <3> QED BY <3>3, <1>1, <1>2, <1>3, <1>8
  <2> QED BY <2>1, <1>2, <1>3
<1> HIDE DEF y
<1>10. n \in Nat \ {0} /\ n <= r /\ n + o <= B /\ (n < r => n + o = B) /\ from = p
  <2>1. from = p
    BY <1>6, <1>8
  <2>2. r \in Nat /\ r > 0 /\ (o = 0 \/ r >= B) /\ o \in 0 .. B - 1 /\ B \in Nat \ {0}
    BY <1>1, <1>2, <1>3
  <2> HIDE DEF r
  <2>3. CASE r > B
    BY <2>1, <2>2, <2>3, <1>4
  <2>4. CASE ~(r > B)
    <3>1. n = r - o
      BY <2>4, <1>4
    <3> QED BY <2>1, <2>2, <2>4, <3>1
  <2> QED BY <2>1, <2>3, <2>4
<1>11. t = [cur |-> c + 1, pos |-> p + n, left |-> r - n,
            out |-> s.out \o SubSeq(mem, p + 1, p + n)]
  <2>1. ~(n <= 0 \/ s.cur \notin 0 .. N - 1)
    BY <1>1, <1>2, <1>3, <1>9, <1>10
  <2> QED BY <2>1, <1>1, <1>7, <1>10
<1>12. s.out \o SubSeq(mem, p + 1, p + n) = SubSeq(mem, m_position + 1, p + n)
  <2> DEFINE a == m_position + 1  z == p + n
  <2>1. a \in 1 .. Len(mem) + 1 /\ p \in a - 1 .. Len(mem) /\ z \in p .. Len(mem)
    <3>1. p \in Nat /\ r \in Nat /\ p + r = m_size /\ m_position <= p
      BY <1>1
    <3> HIDE DEF p, r
    <3> QED BY <3>1, <1>2, <1>10
  <2>2. s.out = SubSeq(mem, a, p)
    BY <1>1
  <2> HIDE DEF a, z
  <2>3. SubSeq(mem, a, p) \o SubSeq(mem, p + 1, z) = SubSeq(mem, a, z)
    BY <1>2, <2>1, ConcatAdjacentSubSeq
  <2> QED BY <2>2, <2>3 DEF a, z
<1>13. r - n > 0 => (p + n) \div B = c + 1 /\ (p + n) % B = 0
  <2>1. SUFFICES ASSUME r - n > 0 PROVE (p + n) \div B = c + 1 /\ (p + n) % B = 0
    OBVIOUS
  <2> DEFINE x == p + n  d == c + 1
  <2>2. x \in Int /\ d \in Int /\ 0 \in 0 .. B - 1
    BY <1>1, <1>2, <1>3, <1>10
  <2>3. x = B * d + 0
    <3>1. n + o = B
      BY <2>1, <1>1, <1>10
    <3>2. B * (c + 1) = y + B
      BY <1>2, <1>3 DEF y
    <3> QED BY <3>1, <3>2, <1>1, <1>2, <1>3, <1>8, <1>10
  <2> HIDE DEF x, d
  <2>4. x % B = 0 /\ x \div B = d
    BY <2>2, <2>3, <1>2, DivUnique, Zenon
  <2> QED BY <2>4 DEF x, d
<1>14. /\ t.left = r - n /\ t.pos = p + n /\ t.cur = c + 1
       /\ t.out = SubSeq(mem, m_position + 1, p + n)
  BY <1>11, <1>12
<1>15. r - n \in Nat /\ p + n \in Nat /\ (p + n) + (r - n) = m_size /\ m_position <= p + n
  <2>1. p \in Nat /\ r \in Nat /\ p + r = m_size /\ m_position <= p
    BY <1>1
  <2> HIDE DEF p, r
  <2> QED BY <2>1, <1>2, <1>10
<1>16. Whole(t)
  BY <1>13, <1>14, <1>15 DEF Whole, B
<1>17. t.cur = s.cur + 1
  BY <1>14, <1>1
<1> QED BY <1>16, <1>17 DEF t

\* Then the file is all of it.
LEMMA FileWhole ==
  ASSUME IInv, Unread = 0 \/ Unread >= m_baseSize \/ m_position % m_baseSize = 0
  PROVE  File = Rest
<1> DEFINE K == Nodes + 1
<1>0. /\ Nodes \in Nat \ {0} /\ Nodes * m_baseSize = m_capacity /\ m_size <= m_capacity
      /\ m_position \in Nat /\ m_size \in Nat /\ m_position <= m_size /\ Unread \in Nat
      /\ m_baseSize \in Nat \ {0} /\ m_capacity \in Nat /\ m_position + Unread = m_size
      /\ mem \in Seq(Byte) /\ Len(mem) = m_capacity
  BY WholeNodes DEF Unread
<1>1. PICK g \in [0 .. K -> FileState] :
        /\ g[0] = FileStart /\ \A i \in 1 .. K : g[i] = WritePiece(g[i - 1])
        /\ File = g[K].out
  BY FilePasses
<1>2. K \in Nat
  BY <1>0
<1>3. Whole(g[0])
  <2>1. SubSeq(mem, m_position + 1, m_position) = <<>>
    <3>1. m_position + 1 \in Int /\ m_position \in Int /\ m_position < m_position + 1
      BY <1>0
    <3> QED BY <3>1, SubSeqEmpty
  <2>2. Unread > 0 => m_cur = m_position \div m_baseSize
    <3>1. Unread > 0 => m_position < m_capacity
      BY <1>0
    <3> QED BY <3>1, PointerSound
  <2>3. /\ g[0].left = Unread /\ g[0].pos = m_position /\ g[0].cur = m_cur
        /\ g[0].out = <<>>
    BY <1>1 DEF FileStart
  <2>4. Unread > 0 => Unread >= m_baseSize \/ m_position % m_baseSize = 0
    BY <1>0
  <2> QED BY <1>0, <2>1, <2>2, <2>3, <2>4 DEF Whole
<1> DEFINE T == {i \in 0 .. K : Whole(g[i]) /\ (g[i].left > 0 => g[i].cur >= i)}
<1>4. 0 \in T
  <2>1. g[0].left > 0 => g[0].cur >= 0
    <3>1. SUFFICES ASSUME g[0].left > 0 PROVE g[0].cur >= 0
      OBVIOUS
    <3>2. g[0].cur = g[0].pos \div m_baseSize /\ g[0].pos \in Nat
      BY <1>3, <3>1 DEF Whole
    <3>3. g[0].pos \div m_baseSize \in Nat
      BY <3>2, <1>0, DivNat
    <3> QED BY <3>2, <3>3
  <2> QED BY <1>2, <1>3, <2>1
<1>5. ASSUME NEW i \in 1 .. K, i - 1 \in T PROVE i \in T
  <2>1. /\ Whole(g[i - 1]) /\ (g[i - 1].left > 0 => g[i - 1].cur >= i - 1)
        /\ g[i] = WritePiece(g[i - 1]) /\ g[i - 1] \in FileState
    BY <1>1, <1>2, <1>5
  <2>2. g[i - 1].cur \in Int /\ g[i - 1].left \in Nat
    BY <2>1 DEF FileState
  <2>3. CASE g[i - 1].left = 0
    <3>1. g[i] = g[i - 1]
      BY <2>1, <2>3 DEF WritePiece
    <3> QED BY <3>1, <2>1, <2>3
  <2>4. CASE g[i - 1].left > 0
    <3>1. Whole(g[i]) /\ (g[i].left > 0 => g[i].cur = g[i - 1].cur + 1)
      BY <2>1, <2>4, WholePass
    <3>2. g[i].left > 0 => g[i].cur >= i
      BY <3>1, <2>1, <2>2, <2>4
    <3> QED BY <3>1, <3>2
  <2> QED BY <2>2, <2>3, <2>4
<1> HIDE DEF T
<1>6. Whole(g[K]) /\ (g[K].left > 0 => g[K].cur >= K)
  <2>1. \A i \in 0 .. K : i \in T
    BY <1>2, <1>4, <1>5, InductionUpTo
  <2>2. K \in T
    BY <1>2, <2>1
  <2> QED BY <2>2 DEF T
<1>7. g[K].left = 0
  <2>1. SUFFICES ASSUME g[K].left > 0 PROVE FALSE
    BY <1>6 DEF Whole
  <2> DEFINE p == g[K].pos  B == m_baseSize  N == Nodes  c == p \div B
  <2>2. c >= N + 1 /\ p \in Nat /\ p <= m_size
    <3>1. g[K].cur = c /\ g[K].cur >= K
      BY <1>6, <2>1 DEF Whole
    <3>2. p \in Nat /\ g[K].left \in Nat /\ p + g[K].left = m_size
      BY <1>6 DEF Whole
    <3> QED BY <3>1, <3>2, <1>0
  <2>3. p = B * c + (p % B) /\ p % B \in 0 .. B - 1 /\ c \in Nat
    <3>1. p \in Int /\ B \in Nat \ {0}
      BY <1>0, <2>2
    <3> QED BY <3>1, <2>2, DivMod, DivNat
  <2>4. /\ B \in Nat \ {0} /\ N \in Nat \ {0} /\ B * N = m_capacity
    BY <1>0
  <2> HIDE DEF c, p, B, N
  <2>5. B * N + B <= B * c
    <3>1. N < c /\ N \in Int /\ c \in Int /\ B \in Nat
      BY <2>2, <2>3, <2>4
    <3> QED BY <3>1, NextMultiple
  <2> DEFINE x == B * N  y == B * c  o == p % B
  <2>6. x \in Nat /\ y \in Nat /\ x + B <= y /\ p = y + o /\ o \in 0 .. B - 1 /\ x = m_capacity
    BY <2>3, <2>4, <2>5
  <2> HIDE DEF x, y, o
  <2> QED BY <2>2, <2>4, <2>6, <1>0
<1>8. g[K].pos = m_size /\ g[K].out = SubSeq(mem, m_position + 1, g[K].pos)
  <2>1. g[K].pos \in Nat /\ g[K].pos + g[K].left = m_size
        /\ g[K].out = SubSeq(mem, m_position + 1, g[K].pos)
    BY <1>6 DEF Whole
  <2> QED BY <2>1, <1>7
<1>9. SubSeq(mem, m_position + 1, m_size) = Rest
  <2> DEFINE x == SubSeq(mem, m_position + 1, m_position + Unread)
  <2>1. Rest \in Seq(Byte) /\ Len(Rest) = Unread
        /\ \A i \in 1 .. Unread : Rest[i] = mem[m_position + i]
    BY RestIs
  <2>2. x \in Seq(Byte) /\ Len(x) = Unread /\ \A i \in 1 .. Unread : x[i] = mem[m_position + i]
    <3> DEFINE n == Unread
    <3>1. m_position \in 0 .. Len(mem) /\ n \in 0 .. Len(mem) - m_position
      BY <1>0
    <3> HIDE DEF n
    <3>2. /\ SubSeq(mem, m_position + 1, m_position + n) \in Seq(Byte)
          /\ Len(SubSeq(mem, m_position + 1, m_position + n)) = n
          /\ \A i \in 1 .. n : SubSeq(mem, m_position + 1, m_position + n)[i] = mem[m_position + i]
      BY <1>0, <3>1, PartIs
    <3> QED BY <3>2 DEF n
  <2> HIDE DEF x
  <2>3. x = Rest
    BY <2>1, <2>2, SeqEqual
  <2> QED BY <2>3, <1>0 DEF x
<1> QED BY <1>1, <1>8, <1>9

\* Otherwise the second pass, at the latest, has nothing it could copy.
LEMMA FileShort ==
  ASSUME IInv, 0 < Unread, Unread < m_baseSize, m_position % m_baseSize # 0
  PROVE  File # Rest
<1> DEFINE K == Nodes + 1  B == m_baseSize  R == Unread  P == m_position
           o == P % B  c == P \div B  n == R - o
<1>0. /\ Nodes \in Nat \ {0} /\ B \in Nat \ {0} /\ P \in Nat /\ R \in Nat
      /\ K \in Nat /\ 2 <= K
  BY WholeNodes
<1>1. PICK g \in [0 .. K -> FileState] :
        /\ g[0] = FileStart /\ \A i \in 1 .. K : g[i] = WritePiece(g[i - 1])
        /\ File = g[K].out
  BY FilePasses
<1>2. P = B * c + o /\ o \in 0 .. B - 1 /\ c \in Nat /\ o # 0
  <2>1. P \in Int
    BY <1>0
  <2> QED BY <1>0, <2>1, DivMod, DivNat
<1>3. g[0].left = R /\ g[0].pos = P /\ g[0].cur = m_cur /\ g[0].out = <<>>
  BY <1>1 DEF FileStart
<1>4. g[1] = WritePiece(g[0]) /\ g[2] = WritePiece(g[1])
      /\ g[0] \in FileState /\ g[1] \in FileState /\ g[2] \in FileState
  <2>1. 1 \in 1 .. K /\ 2 \in 1 .. K /\ 0 \in 0 .. K /\ 1 \in 0 .. K /\ 2 \in 0 .. K
        /\ 1 - 1 = 0 /\ 2 - 1 = 1
    BY <1>0
  <2> QED BY <1>1, <2>1
<1>5. Piece(P, R) = n
  <2>1. ~(R > B)
    BY <1>0
  <2> QED BY <2>1 DEF Piece
\* A pass that copies nothing ends with a byte that is none.
<1>6. ASSUME NEW i \in 0 .. K - 1, g[i].left # 0, Piece(g[i].pos, g[i].left) <= 0
      PROVE  File # Rest
  <2>1. i + 1 \in 1 .. K /\ i + 1 \in 0 .. K /\ (i + 1) - 1 = i /\ i \in 0 .. K
    BY <1>0
  <2>2. g[i + 1] = [g[i] EXCEPT !.left = 0, !.out = Append(@, -1)]
    <3>1. g[i + 1] = WritePiece(g[i])
      BY <1>1, <2>1
    <3> QED BY <3>1, <1>6 DEF WritePiece
  <2>3. g[i] \in FileState
    BY <1>1, <2>1
  <2>4. g[i + 1].left = 0 /\ g[i + 1].out = Append(g[i].out, -1)
    BY <2>2, <2>3 DEF FileState
  <2>5. g[K] = g[i + 1]
    <3> HIDE DEF K
    <3>1. \A j \in 1 .. K : g[j] = WritePiece(g[j - 1])
      BY <1>1
    <3> DEFINE m == i + 1
    <3>2. m \in 0 .. K /\ g[m].left = 0
      BY <2>1, <2>4
    <3> HIDE DEF m
    <3>3. g[K] = g[m]
      BY <1>0, <3>1, <3>2, PassesEnd
    <3> QED BY <3>3 DEF m
  <2>6. File = Append(g[i].out, -1)
    BY <1>1, <2>4, <2>5
  <2>7. g[i].out \in Seq(Int)
    BY <2>3 DEF FileState
  <2> DEFINE z == g[i].out
  <2>8. File \in Seq(Int) /\ Len(z) \in Nat /\ Len(File) = Len(z) + 1 /\ File[Len(z) + 1] = -1
    BY <2>6, <2>7, AppendProperties
  <2>9. Rest \in Seq(Nat)
    BY RestIs, GroupFacts, SeqMonotonic
  <2>10. ASSUME File = Rest PROVE FALSE
    <3>1. Len(z) + 1 \in 1 .. Len(Rest) /\ Rest[Len(z) + 1] = -1
      BY <2>8, <2>10
    <3>2. Rest[Len(z) + 1] \in Nat
      BY <2>9, <3>1, ElementOfSeq
    <3> QED BY <3>1, <3>2
  <2> QED BY <2>10
<1>7. CASE n <= 0
  <2>1. 0 \in 0 .. K - 1 /\ g[0].left # 0 /\ Piece(g[0].pos, g[0].left) <= 0
    BY <1>0, <1>3, <1>5, <1>7
  <2> QED BY <2>1, <1>6
<1>8. CASE n > 0
  <2>1. m_cur = c
    <3>1. m_position < m_capacity
      BY WholeNodes DEF Unread
    <3> QED BY <3>1, PointerSound
  <2> DEFINE from == AddressIn(m_cur, P)
  <2>2. g[1] = IF m_cur \notin 0 .. Nodes - 1
               THEN [g[0] EXCEPT !.left = 0, !.out = Append(@, -1)]
               ELSE [cur |-> m_cur + 1, pos |-> P + n, left |-> R - n,
                     out |-> <<>> \o SubSeq(mem, from + 1, from + n)]
    <3>1. R # 0 /\ ~(n <= 0)
      BY <1>0, <1>8, <1>2
    <3> QED BY <1>3, <1>4, <1>5, <3>1 DEF WritePiece
  <2>3. c \in 0 .. Nodes - 1
    <3> DEFINE y == B * c  x == B * Nodes
    <3>1. y \in Nat /\ P = y + o
      BY <1>0, <1>2
    <3>2. x = m_capacity /\ m_capacity \in Nat /\ P < m_capacity
      BY WholeNodes DEF Unread
    <3>3. ASSUME Nodes <= c PROVE FALSE
      <4>1. x <= y
        <5>1. CASE Nodes = c
          BY <5>1, <3>1
        <5>2. CASE Nodes < c
          <6>1. Nodes \in Int /\ c \in Int /\ B \in Nat
            BY <1>0, <1>2
          <6>2. B * Nodes + B <= B * c
            BY <5>2, <6>1, NextMultiple
          <6> HIDE DEF B
          <6> QED BY <6>2, <3>1, <3>2, <1>0
        <5> QED BY <5>1, <5>2, <3>3, <1>0, <1>2
      <4> HIDE DEF x, y, o
      <4> QED BY <4>1, <3>1, <3>2, <1>2
    <3> QED BY <3>3, <1>0, <1>2
  <2>4. g[1].left = R - n /\ g[1].pos = P + n
    BY <2>1, <2>2, <2>3
  <2>5. R - n = o /\ o < R
    BY <1>0, <1>2, <1>8
  <2>6. Piece(P + n, o) = o - R
    <3> DEFINE x == P + n  y == B * c
    <3>1. x = B * c + R /\ x \in Int /\ R \in 0 .. B - 1 /\ c \in Int
      <4>1. y \in Nat /\ P = y + o /\ n = R - o /\ R < B
        BY <1>0, <1>2
      <4> HIDE DEF y, o, n
      <4>2. P + n = y + R
        BY <4>1, <1>0, <1>2
      <4> QED BY <4>1, <4>2, <1>0, <1>2 DEF y
    <3> HIDE DEF x, B, c, R
    <3>2. x % B = R
      BY <3>1, <1>0, DivUnique, Zenon
    <3>3. ~(o > B)
      BY <1>2, <1>0
    <3> HIDE DEF o
    <3>4. Piece(x, o) = o - R
      BY <3>2, <3>3 DEF Piece, B
    <3> QED BY <3>4 DEF x
  <2>7. 1 \in 0 .. K - 1 /\ g[1].left # 0 /\ Piece(g[1].pos, g[1].left) <= 0
    <3>1. o - R <= 0
      BY <2>5, <1>0, <1>2
    <3>2. 1 \in 0 .. K - 1
      BY <1>0
    <3>3. g[1].left = o /\ g[1].pos = P + n
      BY <2>4, <2>5
    <3> QED BY <3>1, <3>2, <3>3, <2>6, <1>2
  <2> QED BY <2>7, <1>6
<1> QED BY <1>0, <1>2, <1>7, <1>8

LEMMA SoundAgree ==
  IInv => ViewsAgree
<1> SUFFICES ASSUME IInv PROVE ViewsAgree
  OBVIOUS
<1>1. /\ UnreadString = Rest
      /\ \A n \in 0 .. m_size + 1 :
           Buffers(n) = SubSeq(Rest, 1, IF n < Unread THEN n ELSE Unread)
  BY CopiesAgree
<1>2. \A p \in 0 .. m_position : IsPrefix(BuffersAt(Unread, p), SubSeq(Content, p + 1, m_size))
  BY BuffersAtAgree
<1>3. (File = Rest) <=> (\/ Unread = 0 \/ Unread >= m_baseSize
                         \/ m_position % m_baseSize = 0)
  <2>1. Unread \in Nat /\ m_baseSize \in Nat
    BY WholeNodes
  <2>2. ASSUME ~(\/ Unread = 0 \/ Unread >= m_baseSize \/ m_position % m_baseSize = 0)
        PROVE  File # Rest
    <3>1. 0 < Unread /\ Unread < m_baseSize /\ m_position % m_baseSize # 0
      BY <2>1, <2>2
    <3> QED BY <3>1, FileShort
  <2> QED BY <2>2, FileWhole
<1> QED BY <1>1, <1>2, <1>3 DEF ViewsAgree, Rest

\* The views of the unread bytes agree, and write_to_file writes them all
\* exactly when less than a node is not left inside a node (byte_array.cpp
\* 443-526).
THEOREM ViewsShowTheContent ==
  Spec => []ViewsAgree
BY Always, SoundAgree, PTL
=============================================================================
