----------------------------- MODULE BitProofs -----------------------------
(***************************************************************************)
(* What the bit operators do to a word of any width, and from that, for    *)
(* every width: the updates of the read-write lock's state word are those  *)
(* of the record of module RwWord, and the two signals of the mutex keep   *)
(* what a signal has to keep.                                              *)
(*                                                                         *)
(* The operators recurse over the bits.  NatSetInduction is induction for  *)
(* a set of numbers, which needs no operator as a parameter; Recursion     *)
(* says that a function defined by recursion is what its equation says.    *)
(***************************************************************************)
EXTENDS RwBits, MutexSignal, WellFoundedInduction, TLAPS

\* A set that has zero, and with every number the next one, has them all.
LEMMA NatSetInduction ==
  ASSUME NEW S \in SUBSET Nat, 0 \in S, \A n \in S : n + 1 \in S
  PROVE  S = Nat
<1> SUFFICES ASSUME Nat \ S # {}
             PROVE  FALSE
  OBVIOUS
<1>1. PICK x \in Nat \ S : \A y \in Nat \ S : <<y, x>> \notin OpToRel(<, Nat)
  <2>1. Nat \ S \subseteq Nat
    OBVIOUS
  <2> QED
    BY <2>1, NatLessThanWellFounded, WFMin
<1>2. x - 1 \in Nat
  OBVIOUS
<1>3. x - 1 \notin S
  <2> SUFFICES ASSUME x - 1 \in S
               PROVE  FALSE
    OBVIOUS
  <2>1. (x - 1) + 1 = x
    OBVIOUS
  <2> QED
    BY <2>1
<1>4. <<x - 1, x>> \in OpToRel(<, Nat)
  BY <1>2 DEF OpToRel
<1> QED
  BY <1>1, <1>2, <1>3, <1>4

----------------------------------------------------------------------------

\* g lists the first n + 1 values of the sequence that begins with z and goes
\* on with next.
Lists(g, n, T, z, next) ==
  /\ g \in [0 .. n -> T]
  /\ g[0] = z
  /\ \A i \in 0 .. n - 1 : g[i + 1] = next[g[i]]

\* Two such lists have the same values as far as both go.
LEMMA ListsAgree ==
  ASSUME NEW T, NEW z, NEW next, NEW n \in Nat, NEW m \in Nat, NEW g, NEW h,
         Lists(g, n, T, z, next), Lists(h, m, T, z, next)
  PROVE  \A i \in Nat : i <= n /\ i <= m => g[i] = h[i]
<1> DEFINE S == {i \in Nat : i <= n /\ i <= m => g[i] = h[i]}
<1>1. 0 \in S
  BY DEF Lists
<1>2. ASSUME NEW i \in S
      PROVE  i + 1 \in S
  <2> SUFFICES ASSUME i + 1 <= n, i + 1 <= m
               PROVE  g[i + 1] = h[i + 1]
    OBVIOUS
  <2>1. i \in 0 .. n - 1 /\ i \in 0 .. m - 1
    OBVIOUS
  <2>2. g[i] = h[i]
    OBVIOUS
  <2> QED
    BY <2>1, <2>2 DEF Lists
<1>3. S \in SUBSET Nat
  OBVIOUS
<1> HIDE DEF S
<1>4. S = Nat
  BY <1>1, <1>2, <1>3, NatSetInduction
<1> QED
  BY <1>4 DEF S

\* There is such a list of any length.
LEMMA ListsExist ==
  ASSUME NEW T, NEW z \in T, NEW next \in [T -> T]
  PROVE  \A n \in Nat : \E g : Lists(g, n, T, z, next)
<1> DEFINE S == {n \in Nat : \E g : Lists(g, n, T, z, next)}
<1>1. 0 \in S
  <2>1. Lists([i \in 0 .. 0 |-> z], 0, T, z, next)
    BY DEF Lists
  <2> QED
    BY <2>1
<1>2. ASSUME NEW n \in S
      PROVE  n + 1 \in S
  <2>1. PICK g : Lists(g, n, T, z, next)
    OBVIOUS
  <2> DEFINE h == [i \in 0 .. n + 1 |-> IF i = n + 1 THEN next[g[n]] ELSE g[i]]
  <2>2. h \in [0 .. n + 1 -> T]
    BY <2>1 DEF Lists
  <2>3. \A i \in 0 .. n : h[i + 1] = next[h[i]]
    <3> TAKE i \in 0 .. n
    <3>1. h[i] = g[i]
      OBVIOUS
    <3>2. CASE i = n
      BY <3>1, <3>2
    <3>3. CASE i # n
      <4>1. h[i + 1] = g[i + 1] /\ i \in 0 .. n - 1
        BY <3>3
      <4> QED
        BY <2>1, <3>1, <4>1 DEF Lists
    <3> QED
      BY <3>2, <3>3
  <2>4. h[0] = z
    BY <2>1 DEF Lists
  <2>5. Lists(h, n + 1, T, z, next)
    <3> HIDE DEF h
    <3>1. (n + 1) - 1 = n
      OBVIOUS
    <3> QED
      BY <2>2, <2>3, <2>4, <3>1 DEF Lists
  <2> QED
    BY <2>5
<1>3. S \in SUBSET Nat
  OBVIOUS
<1> HIDE DEF S
<1>4. S = Nat
  BY <1>1, <1>2, <1>3, NatSetInduction
<1> QED
  BY <1>4 DEF S

\* So there is a function whose values are all of the sequence.
LEMMA Recursion ==
  ASSUME NEW T, NEW z \in T, NEW next \in [T -> T]
  PROVE  \E f \in [Nat -> T] :
           f[0] = z /\ \A n \in Nat : f[n + 1] = next[f[n]]
<1> DEFINE L(n) == CHOOSE g : Lists(g, n, T, z, next)
           f == [n \in Nat |-> L(n)[n]]
<1>1. ASSUME NEW n \in Nat
      PROVE  Lists(L(n), n, T, z, next)
  BY ListsExist
<1> HIDE DEF L
<1>2. ASSUME NEW n \in Nat
      PROVE  L(n)[n] \in T
  <2>1. n \in 0 .. n
    OBVIOUS
  <2> QED
    BY <1>1, <2>1 DEF Lists
<1>3. L(0)[0] = z
  BY <1>1 DEF Lists
<1>4. ASSUME NEW n \in Nat
      PROVE  L(n + 1)[n + 1] = next[L(n)[n]]
  <2>1. L(n + 1)[n + 1] = next[L(n + 1)[n]]
    <3>1. n \in 0 .. (n + 1) - 1 /\ n + 1 \in Nat
      OBVIOUS
    <3> QED
      BY <1>1, <3>1 DEF Lists
  <2>2. L(n + 1)[n] = L(n)[n]
    <3>1. n + 1 \in Nat /\ n <= n + 1 /\ n <= n
      OBVIOUS
    <3>2. Lists(L(n), n, T, z, next) /\ Lists(L(n + 1), n + 1, T, z, next)
      BY <1>1, <3>1
    <3> QED
      BY <3>1, <3>2, ListsAgree
  <2> QED
    BY <2>1, <2>2
<1>5. f \in [Nat -> T] /\ f[0] = z /\ \A n \in Nat : f[n + 1] = next[f[n]]
  BY <1>2, <1>3, <1>4
<1> QED
  BY <1>5

----------------------------------------------------------------------------

\* shl is what its equation says.
LEMMA ShlEquation == shl = [n \in Nat |-> IF n = 0 THEN 1 ELSE 2 * shl[n - 1]]
<1> DEFINE T == Nat
           z == 1
           next == [v \in T |-> 2 * v]
<1>1. z \in T /\ next \in [T -> T]
  OBVIOUS
<1> HIDE DEF T, z, next
<1>2. PICK f \in [Nat -> T] : f[0] = z /\ \A n \in Nat : f[n + 1] = next[f[n]]
  BY <1>1, Recursion
<1>3. ASSUME NEW n \in Nat
      PROVE  f[n] = IF n = 0 THEN 1 ELSE 2 * f[n - 1]
  <2>1. CASE n = 0
    BY <1>2, <2>1 DEF z
  <2>2. CASE n # 0
    <3>1. n - 1 \in Nat /\ (n - 1) + 1 = n
      BY <2>2
    <3>2. f[n] = next[f[n - 1]] /\ f[n - 1] \in T
      BY <1>2, <3>1
    <3> QED
      BY <2>2, <3>1, <3>2 DEF next
  <2> QED
    BY <2>1, <2>2
<1>4. f = [n \in Nat |-> IF n = 0 THEN 1 ELSE 2 * f[n - 1]]
  BY <1>3
<1> QED
  BY <1>4 DEF shl

\* The powers of two.
LEMMA ShlSteps ==
  /\ shl[0] = 1
  /\ \A n \in Nat : shl[n] \in Nat \ {0} /\ shl[n + 1] = 2 * shl[n]
<1>1. shl[0] = 1
  BY ShlEquation
<1>2. ASSUME NEW n \in Nat
      PROVE  shl[n + 1] = 2 * shl[n]
  <2>1. n + 1 \in Nat /\ n + 1 # 0 /\ (n + 1) - 1 = n
    OBVIOUS
  <2> QED
    BY <2>1, ShlEquation
<1> DEFINE S == {n \in Nat : shl[n] \in Nat \ {0}}
<1>3. S \in SUBSET Nat /\ 0 \in S
  BY <1>1
<1>4. \A n \in S : n + 1 \in S
  BY <1>2
<1> HIDE DEF S
<1>5. S = Nat
  BY <1>3, <1>4, NatSetInduction
<1> QED
  BY <1>1, <1>2, <1>5 DEF S

\* common is what its equation says.
LEMMA CommonEquation ==
  common = [n \in Nat |->
    [x \in Nat |-> [y \in Nat |->
      IF n = 0 THEN 0
      ELSE (x % 2) * (y % 2) + 2 * common[n - 1][x \div 2][y \div 2]]]]
<1> DEFINE T == [Nat -> [Nat -> Nat]]
           z == [x \in Nat |-> [y \in Nat |-> 0]]
           up(c) == [x \in Nat |-> [y \in Nat |->
                      (x % 2) * (y % 2) + 2 * c[x \div 2][y \div 2]]]
           next == [c \in T |-> up(c)]
<1>1. z \in T
  OBVIOUS
<1>2. ASSUME NEW c \in T
      PROVE  up(c) \in T
  <2>1. ASSUME NEW x \in Nat, NEW y \in Nat
        PROVE  (x % 2) * (y % 2) + 2 * c[x \div 2][y \div 2] \in Nat
    <3>1. x \div 2 \in Nat /\ y \div 2 \in Nat
      OBVIOUS
    <3>2. c[x \div 2][y \div 2] \in Nat
      BY <3>1
    <3>3. (x % 2) * (y % 2) \in Nat
      <4>1. x % 2 \in {0, 1} /\ y % 2 \in {0, 1}
        OBVIOUS
      <4> QED
        BY <4>1
    <3> HIDE DEF T
    <3> QED
      BY <3>2, <3>3
  <2> QED
    BY <2>1
<1>3. next \in [T -> T]
  BY <1>2
<1> HIDE DEF T, z, next
<1>4. PICK f \in [Nat -> T] : f[0] = z /\ \A n \in Nat : f[n + 1] = next[f[n]]
  BY <1>1, <1>3, Recursion
<1>5. ASSUME NEW n \in Nat
      PROVE  f[n] = [x \in Nat |-> [y \in Nat |->
                      IF n = 0 THEN 0
                      ELSE (x % 2) * (y % 2) + 2 * f[n - 1][x \div 2][y \div 2]]]
  <2>1. CASE n = 0
    BY <1>4, <2>1 DEF z
  <2>2. CASE n # 0
    <3>1. n - 1 \in Nat /\ (n - 1) + 1 = n
      BY <2>2
    <3>2. f[n] = next[f[n - 1]] /\ f[n - 1] \in T
      BY <1>4, <3>1
    <3>3. f[n] = up(f[n - 1])
      BY <3>2 DEF next
    <3> QED
      BY <2>2, <3>3
  <2> QED
    BY <2>1, <2>2
<1>6. f = [n \in Nat |->
            [x \in Nat |-> [y \in Nat |->
              IF n = 0 THEN 0
              ELSE (x % 2) * (y % 2) + 2 * f[n - 1][x \div 2][y \div 2]]]]
  BY <1>5
<1> QED
  BY <1>6 DEF common


----------------------------------------------------------------------------

\* A number that has been put together from quotient and remainder.
LEMMA DivIs ==
  ASSUME NEW d \in Nat \ {0}, NEW q \in Nat, NEW r \in 0 .. d - 1
  PROVE  /\ (q * d + r) \div d = q
         /\ (q * d + r) % d = r
OBVIOUS

\* Every number can be taken apart in that way.
LEMMA Division ==
  ASSUME NEW d \in Nat \ {0}, NEW x \in Nat
  PROVE  /\ x = (x \div d) * d + (x % d)
         /\ x % d \in 0 .. d - 1
         /\ x \div d \in Nat
OBVIOUS

\* Division by 2 * m is division by 2 and then by m.
LEMMA Halves ==
  ASSUME NEW x \in Nat, NEW m \in Nat \ {0}
  PROVE  /\ x \div (2 * m) = (x \div 2) \div m
         /\ x % (2 * m) = (x % 2) + 2 * ((x \div 2) % m)
<1> DEFINE h == x \div 2
           b == x % 2
           q == h \div m
           c == h % m
<1>1. x = h * 2 + b /\ b \in 0 .. 1 /\ h \in Nat
  OBVIOUS
<1> HIDE DEF h, b
<1>2. h = q * m + c /\ c \in 0 .. m - 1 /\ q \in Nat
  BY <1>1, Division
<1> HIDE DEF q, c
<1> DEFINE r == 2 * c + b
           d == 2 * m
<1>3. d \in Nat \ {0} /\ r \in 0 .. d - 1
  BY <1>1, <1>2
<1>4. q * d = 2 * (q * m)
  BY <1>2
<1>5. x = q * d + r
  BY <1>1, <1>2, <1>4
<1> HIDE DEF r, d
<1>6. x \div d = q /\ x % d = r
  BY <1>2, <1>3, <1>5, DivIs
<1> QED
  BY <1>6 DEF d, r, q, c, h, b

----------------------------------------------------------------------------

\* The bits in common, the lowest first.
LEMMA CommonSteps ==
  ASSUME NEW x \in Nat, NEW y \in Nat
  PROVE  /\ common[0][x][y] = 0
         /\ \A n \in Nat :
              common[n + 1][x][y] =
                (x % 2) * (y % 2) + 2 * common[n][x \div 2][y \div 2]
<1>1. common[0][x][y] = 0
  BY CommonEquation
<1>2. ASSUME NEW n \in Nat
      PROVE  common[n + 1][x][y] =
               (x % 2) * (y % 2) + 2 * common[n][x \div 2][y \div 2]
  <2>1. n + 1 \in Nat /\ n + 1 # 0 /\ (n + 1) - 1 = n
    OBVIOUS
  <2>2. common[n + 1] = [v \in Nat |-> [w \in Nat |->
          (v % 2) * (w % 2) + 2 * common[n][v \div 2][w \div 2]]]
    BY <2>1, CommonEquation
  <2> QED
    BY <2>2
<1> QED
  BY <1>1, <1>2

\* It is a number.
LEMMA CommonType == \A n \in Nat, x \in Nat, y \in Nat : common[n][x][y] \in Nat
<1> DEFINE S == {n \in Nat : \A x \in Nat, y \in Nat : common[n][x][y] \in Nat}
<1>1. S \in SUBSET Nat /\ 0 \in S
  <2>1. \A x \in Nat, y \in Nat : common[0][x][y] = 0
    BY CommonSteps
  <2> QED
    BY <2>1
<1>2. ASSUME NEW n \in S
      PROVE  n + 1 \in S
  <2> SUFFICES ASSUME NEW x \in Nat, NEW y \in Nat
               PROVE  common[n + 1][x][y] \in Nat
    OBVIOUS
  <2>1. x \div 2 \in Nat /\ y \div 2 \in Nat
    OBVIOUS
  <2>2. common[n][x \div 2][y \div 2] \in Nat
    BY <2>1
  <2>3. (x % 2) * (y % 2) \in Nat
    <3>1. x % 2 \in {0, 1} /\ y % 2 \in {0, 1}
      OBVIOUS
    <3> QED
      BY <3>1
  <2> DEFINE low == (x % 2) * (y % 2)
             high == common[n][x \div 2][y \div 2]
  <2>4. common[n + 1][x][y] = low + 2 * high
    BY CommonSteps
  <2>5. low \in Nat /\ high \in Nat
    BY <2>2, <2>3
  <2> HIDE DEF low, high
  <2> QED
    BY <2>4, <2>5
<1> HIDE DEF S
<1>3. S = Nat
  BY <1>1, <1>2, NatSetInduction
<1> QED
  BY <1>3 DEF S

\* Nothing is in common with zero.
LEMMA CommonWithZero == \A n \in Nat, x \in Nat : common[n][x][0] = 0
<1> DEFINE S == {n \in Nat : \A x \in Nat : common[n][x][0] = 0}
<1>1. S \in SUBSET Nat /\ 0 \in S
  BY CommonSteps
<1>2. ASSUME NEW n \in S
      PROVE  n + 1 \in S
  <2> SUFFICES ASSUME NEW x \in Nat
               PROVE  common[n + 1][x][0] = 0
    OBVIOUS
  <2>1. common[n + 1][x][0] = (x % 2) * (0 % 2) + 2 * common[n][x \div 2][0 \div 2]
    BY CommonSteps
  <2>2. 0 % 2 = 0 /\ 0 \div 2 = 0 /\ x \div 2 \in Nat /\ x % 2 \in Nat
    OBVIOUS
  <2>3. common[n][x \div 2][0] = 0
    BY <2>2
  <2> QED
    BY <2>1, <2>2, <2>3
<1> HIDE DEF S
<1>3. S = Nat
  BY <1>1, <1>2, NatSetInduction
<1> QED
  BY <1>3 DEF S

\* Bit k of x.
Bit(x, k) == (x \div shl[k]) % 2

\* x & (ONE << k): that bit, or nothing.
LEMMA CommonWithOneBit ==
  \A n \in Nat, k \in Nat, x \in Nat :
    k < n => common[n][x][shl[k]] = shl[k] * Bit(x, k)
<1> DEFINE S == {n \in Nat : \A k \in Nat, x \in Nat :
                   k < n => common[n][x][shl[k]] = shl[k] * Bit(x, k)}
<1>1. S \in SUBSET Nat /\ 0 \in S
  OBVIOUS
<1>2. ASSUME NEW n \in S
      PROVE  n + 1 \in S
  <2> SUFFICES ASSUME NEW k \in Nat, NEW x \in Nat, k < n + 1
               PROVE  common[n + 1][x][shl[k]] = shl[k] * Bit(x, k)
    OBVIOUS
  <2>1. shl[k] \in Nat /\ x \div 2 \in Nat /\ x % 2 \in Nat
    BY ShlSteps
  <2>2. common[n + 1][x][shl[k]] =
          (x % 2) * (shl[k] % 2) + 2 * common[n][x \div 2][shl[k] \div 2]
    BY <2>1, CommonSteps
  <2>3. CASE k = 0
    <3>1. shl[k] = 1 /\ 1 % 2 = 1 /\ 1 \div 2 = 0 /\ x \div 1 = x
      BY <2>3, ShlSteps
    <3>2. common[n][x \div 2][0] = 0
      BY <2>1, CommonWithZero
    <3> QED
      BY <2>1, <2>2, <3>1, <3>2 DEF Bit
  <2>4. CASE k # 0
    <3> DEFINE m == shl[k - 1]
    <3>1. k - 1 \in Nat /\ (k - 1) + 1 = k /\ k - 1 < n
      BY <2>4
    <3>2. m \in Nat \ {0} /\ shl[k] = 2 * m
      BY <3>1, ShlSteps
    <3>3. common[n][x \div 2][m] = m * Bit(x \div 2, k - 1)
      BY <2>1, <3>1
    <3>4. Bit(x, k) = Bit(x \div 2, k - 1)
      BY <3>2, Halves DEF Bit
    <3> DEFINE b == Bit(x, k)
    <3>5. b \in Nat
      BY <3>2 DEF Bit
    <3>6. common[n][x \div 2][m] = m * b
      BY <3>3, <3>4
    <3> HIDE DEF m, b
    <3>7. common[n + 1][x][shl[k]] = 2 * (m * b)
      <4>1. (2 * m) % 2 = 0 /\ (2 * m) \div 2 = m
        BY <3>2
      <4>2. (x % 2) * 0 = 0
        BY <2>1
      <4> QED
        BY <2>2, <3>2, <3>5, <3>6, <4>1, <4>2
    <3>8. 2 * (m * b) = (2 * m) * b
      BY <3>2, <3>5
    <3> QED
      BY <3>2, <3>7, <3>8 DEF b
  <2> QED
    BY <2>3, <2>4
<1> HIDE DEF S
<1>3. S = Nat
  BY <1>1, <1>2, NatSetInduction
<1> QED
  BY <1>3 DEF S

\* x & ((ONE << k) - 1): the bits below k.
LEMMA CommonWithLowBits ==
  \A n \in Nat, k \in Nat, x \in Nat :
    k <= n => common[n][x][shl[k] - 1] = x % shl[k]
<1> DEFINE S == {n \in Nat : \A k \in Nat, x \in Nat :
                   k <= n => common[n][x][shl[k] - 1] = x % shl[k]}
<1>1. ASSUME NEW n \in Nat, NEW x \in Nat
      PROVE  common[n][x][shl[0] - 1] = x % shl[0]
  <2>1. shl[0] = 1 /\ 1 - 1 = 0 /\ x % 1 = 0
    BY ShlSteps
  <2> QED
    BY <2>1, CommonWithZero
<1>2. S \in SUBSET Nat /\ 0 \in S
  BY <1>1
<1>3. ASSUME NEW n \in S
      PROVE  n + 1 \in S
  <2> SUFFICES ASSUME NEW k \in Nat, NEW x \in Nat, k <= n + 1
               PROVE  common[n + 1][x][shl[k] - 1] = x % shl[k]
    OBVIOUS
  <2>1. CASE k = 0
    BY <1>1, <2>1
  <2>2. CASE k # 0
    <3> DEFINE m == shl[k - 1]
               y == 2 * m - 1
    <3>1. k - 1 \in Nat /\ (k - 1) + 1 = k /\ k - 1 <= n
      BY <2>2
    <3>2. m \in Nat \ {0} /\ shl[k] = 2 * m
      BY <3>1, ShlSteps
    <3>3. x \div 2 \in Nat /\ x % 2 \in Nat
      OBVIOUS
    <3>4. common[n][x \div 2][m - 1] = (x \div 2) % m
      BY <3>1, <3>3
    <3> HIDE DEF m
    <3>5. y \in Nat /\ y % 2 = 1 /\ y \div 2 = m - 1
      BY <3>2
    <3>6. common[n + 1][x][y] = (x % 2) * (y % 2) + 2 * common[n][x \div 2][y \div 2]
      BY <3>5, CommonSteps
    <3>7. common[n + 1][x][y] = (x % 2) + 2 * ((x \div 2) % m)
      BY <3>3, <3>4, <3>5, <3>6
    <3>8. x % (2 * m) = (x % 2) + 2 * ((x \div 2) % m)
      BY <3>2, Halves
    <3> QED
      BY <3>2, <3>7, <3>8
  <2> QED
    BY <2>1, <2>2
<1> HIDE DEF S
<1>4. S = Nat
  BY <1>2, <1>3, NatSetInduction
<1> QED
  BY <1>4 DEF S

\* x & !y: what y leaves of x.
LEMMA CommonWithNot ==
  \A n \in Nat : \A x, y \in 0 .. shl[n] - 1 :
    common[n][x][shl[n] - 1 - y] = x - common[n][x][y]
<1> DEFINE S == {n \in Nat : \A x, y \in 0 .. shl[n] - 1 :
                   common[n][x][shl[n] - 1 - y] = x - common[n][x][y]}
<1>1. S \in SUBSET Nat /\ 0 \in S
  <2>1. shl[0] - 1 = 0
    BY ShlSteps
  <2>2. ASSUME NEW x \in 0 .. 0, NEW y \in 0 .. 0
        PROVE  common[0][x][0 - y] = x - common[0][x][y]
    <3>1. x = 0 /\ y = 0
      OBVIOUS
    <3>2. common[0][0][0] = 0
      BY CommonSteps
    <3> QED
      BY <3>1, <3>2
  <2> QED
    BY <2>1, <2>2
<1>2. ASSUME NEW n \in S
      PROVE  n + 1 \in S
  <2> DEFINE m == shl[n]
  <2>1. m \in Nat \ {0} /\ shl[n + 1] = 2 * m
    BY ShlSteps
  <2> SUFFICES ASSUME NEW x \in 0 .. 2 * m - 1, NEW y \in 0 .. 2 * m - 1
               PROVE  common[n + 1][x][2 * m - 1 - y] = x - common[n + 1][x][y]
    BY <2>1
  <2> DEFINE h == x \div 2
             k == y \div 2
  <2>2. h \in 0 .. m - 1 /\ k \in 0 .. m - 1
    BY <2>1
  <2>3. common[n][h][m - 1 - k] = h - common[n][h][k]
    BY <2>2
  <2> DEFINE z == 2 * m - 1 - y
             a == x % 2
             b == y % 2
  <2>4. x \in Nat /\ y \in Nat /\ x = 2 * h + a /\ y = 2 * k + b
    BY <2>1
  <2>5. a \in {0, 1} /\ b \in {0, 1}
    BY <2>4
  <2>6. z \in Nat /\ z \div 2 = m - 1 - k /\ z % 2 = 1 - b
    <3> HIDE DEF m, k, b
    <3> DEFINE j == m - 1 - k
    <3>1. j \in Nat
      BY <2>1, <2>2
    <3>2. z = 2 * j + (1 - b)
      BY <2>1, <2>2, <2>4, <2>5
    <3> HIDE DEF j, z
    <3>3. z \in Nat /\ z \div 2 = j /\ z % 2 = 1 - b
      <4>1. CASE b = 0
        BY <3>1, <3>2, <4>1
      <4>2. CASE b = 1
        BY <3>1, <3>2, <4>2
      <4> QED
        BY <2>5, <4>1, <4>2
    <3> QED
      BY <3>3 DEF j
  <2>7. common[n][h][k] \in Int
    <3>1. common[n][h][k] \in Nat
      BY <2>2, CommonType
    <3> QED
      BY <3>1
  <2>8. common[n + 1][x][z] = a * (1 - b) + 2 * (h - common[n][h][k])
    <3>1. common[n + 1][x][z] = a * (z % 2) + 2 * common[n][h][z \div 2]
      BY <2>4, <2>6, CommonSteps
    <3> QED
      BY <2>3, <2>6, <3>1
  <2>9. common[n + 1][x][y] = a * b + 2 * common[n][h][k]
    BY <2>4, CommonSteps
  <2> DEFINE c == common[n][h][k]
  <2> HIDE DEF m, h, k, z, a, b, c
  <2>10. a * (1 - b) + 2 * (h - c) = x - (a * b + 2 * c)
    <3>1. h \in Int /\ c \in Int
      BY <2>2, <2>7 DEF c
    <3>2. CASE a = 0
      BY <2>4, <2>5, <3>1, <3>2
    <3>3. CASE a = 1
      BY <2>4, <2>5, <3>1, <3>3
    <3> QED
      BY <2>5, <3>2, <3>3
  <2> QED
    BY <2>8, <2>9, <2>10 DEF z, c
<1> HIDE DEF S
<1>3. S = Nat
  BY <1>1, <1>2, NatSetInduction
<1> QED
  BY <1>3 DEF S

----------------------------------------------------------------------------

\* A flag of one bit: the test, the setting and the clearing of it.
LEMMA FlagOps ==
  ASSUME NEW x \in BitWord, NEW k \in Nat, k < BITS, shl[k] <= MAX
  PROVE  /\ Bit(x, k) \in {0, 1}
         /\ has(x, shl[k]) <=> Bit(x, k) = 1
         /\ with(x, shl[k]) = IF Bit(x, k) = 1 THEN x ELSE x + shl[k]
         /\ without(x, shl[k]) = IF Bit(x, k) = 1 THEN x - shl[k] ELSE x
<1> DEFINE f == shl[k]
           b == Bit(x, k)
<1>1. f \in Nat \ {0} /\ BITS \in Nat /\ shl[BITS] \in Nat
  BY ShlSteps, BitsAssumption
<1>2. x \in Nat /\ x \in 0 .. shl[BITS] - 1 /\ f \in 0 .. shl[BITS] - 1
  BY <1>1 DEF BitWord, MAX
<1>3. b \in {0, 1}
  <2>1. x \div f \in Nat
    BY <1>1, <1>2
  <2> QED
    BY <2>1 DEF Bit
<1>4. (x & f) = f * b
  BY <1>1, <1>2, CommonWithOneBit DEF &
<1>5. (x & not(f)) = x - (x & f)
  BY <1>1, <1>2, CommonWithNot DEF &, not, MAX
<1> HIDE DEF f, b
<1>6. CASE b = 1
  <2>1. (x & f) = f
    BY <1>1, <1>4, <1>6
  <2>2. has(x, f) /\ with(x, f) = x /\ without(x, f) = x - f
    BY <1>1, <1>2, <1>5, <2>1 DEF has, with, without, |
  <2> QED
    BY <1>6, <2>2 DEF b, f
<1>7. CASE b = 0
  <2>1. (x & f) = 0
    BY <1>1, <1>4, <1>7
  <2>2. ~has(x, f) /\ with(x, f) = x + f /\ without(x, f) = x
    BY <1>1, <1>2, <1>5, <2>1 DEF has, with, without, |
  <2> QED
    BY <1>7, <2>2 DEF b, f
<1> QED
  BY <1>3, <1>6, <1>7

\* One bit of the count, the unit that the constants are multiples of.
Unit == shl[BITS - 3]

\* The constants of RwLockState.
LEMMA Constants ==
  /\ Unit \in Nat /\ Unit > 1
  /\ K_UPGRADE_ACTIVE = Unit
  /\ K_WRITER_QUEUED = 2 * Unit
  /\ K_WRITER_ACTIVE = 4 * Unit
  /\ MAX = 8 * Unit - 1
  /\ K_MAX_READER_COUNT = Unit - 1
<1>1. /\ BITS - 4 \in Nat /\ BITS - 3 \in Nat /\ BITS - 2 \in Nat
      /\ BITS - 1 \in Nat /\ BITS \in Nat
      /\ (BITS - 4) + 1 = BITS - 3 /\ (BITS - 3) + 1 = BITS - 2
      /\ (BITS - 2) + 1 = BITS - 1 /\ (BITS - 1) + 1 = BITS
  BY BitsAssumption, FlagsFit
<1>2. shl[BITS - 4] \in Nat \ {0} /\ Unit = 2 * shl[BITS - 4]
  BY <1>1, ShlSteps DEF Unit
<1>3. Unit \in Nat /\ Unit > 1
  BY <1>2
<1>4. shl[BITS - 2] = 2 * Unit
  BY <1>1, ShlSteps DEF Unit
<1>5. shl[BITS - 1] = 2 * shl[BITS - 2]
  BY <1>1, ShlSteps
<1>6. shl[BITS] = 2 * shl[BITS - 1]
  BY <1>1, ShlSteps
<1>7. MAX = 8 * Unit - 1
  BY <1>3, <1>4, <1>5, <1>6 DEF MAX
<1>8. (8 * Unit - 1) \div 8 = Unit - 1
  BY <1>3
<1> QED
  BY <1>3, <1>4, <1>5, <1>7, <1>8
     DEF Unit, K_UPGRADE_ACTIVE, K_WRITER_QUEUED, K_WRITER_ACTIVE,
         K_MAX_READER_COUNT

\* x has the flags of the digit c above the count r.
Packs(x, c, r) ==
  /\ x \in BitWord
  /\ x = c * Unit + r
  /\ has(x, K_WRITER_ACTIVE) <=> c \in {4, 5, 6, 7}
  /\ has(x, K_WRITER_QUEUED) <=> c \in {2, 3, 6, 7}
  /\ has(x, K_UPGRADE_ACTIVE) <=> c \in {1, 3, 5, 7}
  /\ get_reader_count(x) = r

\* Any digit and any count make a word,
LEMMA Packing ==
  ASSUME NEW c \in 0 .. 7, NEW r \in 0 .. Unit - 1
  PROVE  Packs(c * Unit + r, c, r)
<1> DEFINE x == c * Unit + r
<1>1. Unit \in Nat \ {0} /\ Unit <= MAX /\ 2 * Unit <= MAX /\ 4 * Unit <= MAX
  BY Constants
<1>2. x \in BitWord /\ x \in Nat
  <2>1. c * Unit <= 7 * Unit /\ c * Unit \in Nat
    BY <1>1
  <2> QED
    BY <1>1, <2>1, Constants DEF BitWord
<1>3. x \div Unit = c /\ x % Unit = r
  BY <1>1, DivIs
<1>4. x \div (2 * Unit) = c \div 2
  <2> DEFINE d == 2 * Unit
             s == (c % 2) * Unit + r
  <2>1. x = (c \div 2) * d + s
    <3>1. c = 2 * (c \div 2) + (c % 2) /\ c \div 2 \in Nat /\ c % 2 \in Nat
      OBVIOUS
    <3> QED
      BY <1>1, <3>1
  <2>2. s \in 0 .. d - 1
    <3>1. c % 2 \in {0, 1}
      OBVIOUS
    <3> QED
      BY <1>1, <3>1
  <2>3. d \in Nat \ {0} /\ c \div 2 \in Nat
    BY <1>1
  <2> HIDE DEF x, d, s
  <2>4. x \div d = c \div 2
    BY <2>1, <2>2, <2>3, DivIs
  <2> QED
    BY <2>4 DEF d
<1>5. x \div (4 * Unit) = c \div 4
  <2> DEFINE d == 4 * Unit
             s == (c % 4) * Unit + r
  <2>1. x = (c \div 4) * d + s
    <3>1. c = 4 * (c \div 4) + (c % 4) /\ c \div 4 \in Nat /\ c % 4 \in Nat
      OBVIOUS
    <3> QED
      BY <1>1, <3>1
  <2>2. s \in 0 .. d - 1
    <3>1. c % 4 \in {0, 1, 2, 3}
      OBVIOUS
    <3> QED
      BY <1>1, <3>1
  <2>3. d \in Nat \ {0} /\ c \div 4 \in Nat
    BY <1>1
  <2> HIDE DEF x, d, s
  <2>4. x \div d = c \div 4
    BY <2>1, <2>2, <2>3, DivIs
  <2> QED
    BY <2>4 DEF d
<1> HIDE DEF x
<1>6. /\ Bit(x, BITS - 3) = c % 2
      /\ Bit(x, BITS - 2) = (c \div 2) % 2
      /\ Bit(x, BITS - 1) = (c \div 4) % 2
  BY <1>3, <1>4, <1>5, Constants
     DEF Bit, K_UPGRADE_ACTIVE, K_WRITER_QUEUED, K_WRITER_ACTIVE
<1>7. /\ has(x, K_UPGRADE_ACTIVE) <=> c % 2 = 1
      /\ has(x, K_WRITER_QUEUED) <=> (c \div 2) % 2 = 1
      /\ has(x, K_WRITER_ACTIVE) <=> (c \div 4) % 2 = 1
  <2>1. /\ BITS - 3 \in Nat /\ BITS - 2 \in Nat /\ BITS - 1 \in Nat
        /\ BITS - 3 < BITS /\ BITS - 2 < BITS /\ BITS - 1 < BITS
    BY BitsAssumption, FlagsFit
  <2>2. /\ shl[BITS - 3] <= MAX /\ shl[BITS - 2] <= MAX /\ shl[BITS - 1] <= MAX
    BY <1>1, Constants DEF K_UPGRADE_ACTIVE, K_WRITER_QUEUED, K_WRITER_ACTIVE
  <2> QED
    BY <1>2, <1>6, <2>1, <2>2, FlagOps
       DEF K_UPGRADE_ACTIVE, K_WRITER_QUEUED, K_WRITER_ACTIVE
<1>8. get_reader_count(x) = r
  <2>1. BITS - 3 \in Nat /\ BITS \in Nat /\ BITS - 3 <= BITS
    BY BitsAssumption, FlagsFit
  <2>2. common[BITS][x][Unit - 1] = x % Unit
    BY <1>2, <2>1, CommonWithLowBits DEF Unit
  <2> QED
    BY <1>3, <2>2, Constants DEF get_reader_count, &
<1>9. /\ c % 2 = 1 <=> c \in {1, 3, 5, 7}
      /\ (c \div 2) % 2 = 1 <=> c \in {2, 3, 6, 7}
      /\ (c \div 4) % 2 = 1 <=> c \in {4, 5, 6, 7}
  OBVIOUS
<1> QED
  BY <1>2, <1>7, <1>8, <1>9 DEF Packs, x

\* and every word is made so.
LEMMA Unpacking ==
  ASSUME NEW x \in BitWord
  PROVE  \E c \in 0 .. 7, r \in 0 .. Unit - 1 : Packs(x, c, r)
<1> DEFINE c == x \div Unit
           r == x % Unit
<1>1. Unit \in Nat \ {0} /\ x \in Nat /\ x < 8 * Unit
  BY Constants DEF BitWord
<1>2. x = c * Unit + r /\ r \in 0 .. Unit - 1 /\ c \in Nat
  BY <1>1, Division
<1> HIDE DEF c, r
<1>3. c \in 0 .. 7
  <2> SUFFICES ASSUME c >= 8
               PROVE  FALSE
    BY <1>2
  <2>1. c * Unit >= 8 * Unit
    BY <1>1, <1>2
  <2> QED
    BY <1>1, <1>2, <2>1
<1> QED
  BY <1>2, <1>3, Packing

\* The three flags, each as one bit of the word.
LEMMA FlagUpdates ==
  ASSUME NEW x \in BitWord,
         NEW K \in {K_UPGRADE_ACTIVE, K_WRITER_QUEUED, K_WRITER_ACTIVE}
  PROVE  /\ with(x, K) = IF has(x, K) THEN x ELSE x + K
         /\ without(x, K) = IF has(x, K) THEN x - K ELSE x
<1>1. PICK k \in {BITS - 3, BITS - 2, BITS - 1} : K = shl[k]
  BY DEF K_UPGRADE_ACTIVE, K_WRITER_QUEUED, K_WRITER_ACTIVE
<1>2. k \in Nat /\ k < BITS
  BY BitsAssumption, FlagsFit
<1>3. shl[k] <= MAX
  BY <1>1, Constants
<1> QED
  BY <1>1, <1>2, <1>3, FlagOps

\* The digit after the flag of value j, up in the digits of S, is set and
\* cleared.
LEMMA DigitUpdates ==
  ASSUME NEW x, NEW c \in 0 .. 7, NEW r \in 0 .. Unit - 1, Packs(x, c, r),
         NEW K \in {K_UPGRADE_ACTIVE, K_WRITER_QUEUED, K_WRITER_ACTIVE},
         NEW j \in {1, 2, 4}, K = j * Unit, NEW S, has(x, K) <=> c \in S,
         IF c \in S THEN c - j \in 0 .. 7 ELSE c + j \in 0 .. 7
  PROVE  /\ Packs(with(x, K), IF c \in S THEN c ELSE c + j, r)
         /\ Packs(without(x, K), IF c \in S THEN c - j ELSE c, r)
<1>1. x \in BitWord /\ Unit \in Nat /\ x = c * Unit + r
  BY Constants DEF Packs
<1>2. CASE c \in S
  <2>1. x - K = (c - j) * Unit + r
    BY <1>1
  <2> QED
    BY <1>1, <1>2, <2>1, FlagUpdates, Packing
<1>3. CASE c \notin S
  <2>1. x + K = (c + j) * Unit + r
    BY <1>1
  <2> QED
    BY <1>1, <1>3, <2>1, FlagUpdates, Packing
<1> QED
  BY <1>2, <1>3

\* The record of a word, by its fields.
LEMMA RecordOf ==
  ASSUME NEW x, NEW w \in BOOLEAN, NEW q \in BOOLEAN, NEW u \in BOOLEAN,
         has(x, K_WRITER_ACTIVE) <=> w, has(x, K_WRITER_QUEUED) <=> q,
         has(x, K_UPGRADE_ACTIVE) <=> u
  PROVE  Decode(x) = [w |-> w, q |-> q, u |-> u, r |-> get_reader_count(x)]
<1>1. /\ has(x, K_WRITER_ACTIVE) \in BOOLEAN
      /\ has(x, K_WRITER_QUEUED) \in BOOLEAN
      /\ has(x, K_UPGRADE_ACTIVE) \in BOOLEAN
  BY DEF has
<1>2. /\ has(x, K_WRITER_ACTIVE) = w
      /\ has(x, K_WRITER_QUEUED) = q
      /\ has(x, K_UPGRADE_ACTIVE) = u
  BY <1>1
<1> QED
  BY <1>2 DEF Decode

\* A record with one field replaced.
LEMMA RecordUpdates ==
  ASSUME NEW w, NEW q, NEW u, NEW r, NEW v,
         NEW s, s = [w |-> w, q |-> q, u |-> u, r |-> r]
  PROVE  /\ [s EXCEPT !.w = v] = [w |-> v, q |-> q, u |-> u, r |-> r]
         /\ [s EXCEPT !.q = v] = [w |-> w, q |-> v, u |-> u, r |-> r]
         /\ [s EXCEPT !.u = v] = [w |-> w, q |-> q, u |-> v, r |-> r]
         /\ [s EXCEPT !.r = v] = [w |-> w, q |-> q, u |-> u, r |-> v]
OBVIOUS

\* Setting and clearing a flag of the word sets and clears its field.
LEMMA FlagsAgree ==
  ASSUME NEW x \in BitWord
  PROVE  /\ with(x, K_WRITER_ACTIVE) \in BitWord
         /\ Decode(with(x, K_WRITER_ACTIVE)) = [Decode(x) EXCEPT !.w = TRUE]
         /\ with(x, K_WRITER_QUEUED) \in BitWord
         /\ Decode(with(x, K_WRITER_QUEUED)) = [Decode(x) EXCEPT !.q = TRUE]
         /\ with(x, K_UPGRADE_ACTIVE) \in BitWord
         /\ Decode(with(x, K_UPGRADE_ACTIVE)) = [Decode(x) EXCEPT !.u = TRUE]
         /\ without(x, K_WRITER_ACTIVE) \in BitWord
         /\ Decode(without(x, K_WRITER_ACTIVE)) = [Decode(x) EXCEPT !.w = FALSE]
         /\ without(x, K_WRITER_QUEUED) \in BitWord
         /\ Decode(without(x, K_WRITER_QUEUED)) = [Decode(x) EXCEPT !.q = FALSE]
         /\ without(x, K_UPGRADE_ACTIVE) \in BitWord
         /\ Decode(without(x, K_UPGRADE_ACTIVE)) = [Decode(x) EXCEPT !.u = FALSE]
<1>1. PICK c \in 0 .. 7, r \in 0 .. Unit - 1 : Packs(x, c, r)
  BY Unpacking
<1> DEFINE w == has(x, K_WRITER_ACTIVE)
           q == has(x, K_WRITER_QUEUED)
           u == has(x, K_UPGRADE_ACTIVE)
<1>2. w \in BOOLEAN /\ q \in BOOLEAN /\ u \in BOOLEAN
  BY DEF has
<1>3. Decode(x) = [w |-> w, q |-> q, u |-> u, r |-> r]
  BY <1>1 DEF Decode, Packs
<1>4. /\ K_WRITER_ACTIVE = 4 * Unit /\ K_WRITER_QUEUED = 2 * Unit
      /\ K_UPGRADE_ACTIVE = 1 * Unit
  BY Constants
<1>5. /\ w <=> c \in {4, 5, 6, 7}
      /\ q <=> c \in {2, 3, 6, 7}
      /\ u <=> c \in {1, 3, 5, 7}
  BY <1>1 DEF Packs
<1> HIDE DEF w, q, u
<1>6. /\ with(x, K_WRITER_ACTIVE) \in BitWord
      /\ Decode(with(x, K_WRITER_ACTIVE)) = [w |-> TRUE, q |-> q, u |-> u, r |-> r]
      /\ without(x, K_WRITER_ACTIVE) \in BitWord
      /\ Decode(without(x, K_WRITER_ACTIVE)) = [w |-> FALSE, q |-> q, u |-> u, r |-> r]
  <2> DEFINE y == with(x, K_WRITER_ACTIVE)
             z == without(x, K_WRITER_ACTIVE)
             S == {4, 5, 6, 7}
  <2>1. /\ has(x, K_WRITER_ACTIVE) <=> c \in S
        /\ IF c \in S THEN c - 4 \in 0 .. 7 ELSE c + 4 \in 0 .. 7
    BY <1>5 DEF w
  <2> HIDE DEF S
  <2>2. /\ Packs(y, IF c \in S THEN c ELSE c + 4, r)
        /\ Packs(z, IF c \in S THEN c - 4 ELSE c, r)
    BY <1>1, <1>4, <2>1, DigitUpdates
  <2> HIDE DEF y, z
  <2>3. /\ y \in BitWord /\ has(y, K_WRITER_ACTIVE)
        /\ has(y, K_WRITER_QUEUED) <=> q
        /\ has(y, K_UPGRADE_ACTIVE) <=> u
        /\ get_reader_count(y) = r
    BY <1>5, <2>2 DEF Packs, S
  <2>4. /\ z \in BitWord /\ ~has(z, K_WRITER_ACTIVE)
        /\ has(z, K_WRITER_QUEUED) <=> q
        /\ has(z, K_UPGRADE_ACTIVE) <=> u
        /\ get_reader_count(z) = r
    BY <1>5, <2>2 DEF Packs, S
  <2> QED
    BY <1>2, <2>3, <2>4, RecordOf DEF y, z
<1>7. /\ with(x, K_WRITER_QUEUED) \in BitWord
      /\ Decode(with(x, K_WRITER_QUEUED)) = [w |-> w, q |-> TRUE, u |-> u, r |-> r]
      /\ without(x, K_WRITER_QUEUED) \in BitWord
      /\ Decode(without(x, K_WRITER_QUEUED)) = [w |-> w, q |-> FALSE, u |-> u, r |-> r]
  <2> DEFINE y == with(x, K_WRITER_QUEUED)
             z == without(x, K_WRITER_QUEUED)
             S == {2, 3, 6, 7}
  <2>1. /\ has(x, K_WRITER_QUEUED) <=> c \in S
        /\ IF c \in S THEN c - 2 \in 0 .. 7 ELSE c + 2 \in 0 .. 7
    BY <1>5 DEF q
  <2> HIDE DEF S
  <2>2. /\ Packs(y, IF c \in S THEN c ELSE c + 2, r)
        /\ Packs(z, IF c \in S THEN c - 2 ELSE c, r)
    BY <1>1, <1>4, <2>1, DigitUpdates
  <2> HIDE DEF y, z
  <2>3. /\ y \in BitWord /\ has(y, K_WRITER_QUEUED)
        /\ has(y, K_WRITER_ACTIVE) <=> w
        /\ has(y, K_UPGRADE_ACTIVE) <=> u
        /\ get_reader_count(y) = r
    BY <1>5, <2>2 DEF Packs, S
  <2>4. /\ z \in BitWord /\ ~has(z, K_WRITER_QUEUED)
        /\ has(z, K_WRITER_ACTIVE) <=> w
        /\ has(z, K_UPGRADE_ACTIVE) <=> u
        /\ get_reader_count(z) = r
    BY <1>5, <2>2 DEF Packs, S
  <2> QED
    BY <1>2, <2>3, <2>4, RecordOf DEF y, z
<1>8. /\ with(x, K_UPGRADE_ACTIVE) \in BitWord
      /\ Decode(with(x, K_UPGRADE_ACTIVE)) = [w |-> w, q |-> q, u |-> TRUE, r |-> r]
      /\ without(x, K_UPGRADE_ACTIVE) \in BitWord
      /\ Decode(without(x, K_UPGRADE_ACTIVE)) = [w |-> w, q |-> q, u |-> FALSE, r |-> r]
  <2> DEFINE y == with(x, K_UPGRADE_ACTIVE)
             z == without(x, K_UPGRADE_ACTIVE)
             S == {1, 3, 5, 7}
  <2>1. /\ has(x, K_UPGRADE_ACTIVE) <=> c \in S
        /\ IF c \in S THEN c - 1 \in 0 .. 7 ELSE c + 1 \in 0 .. 7
    BY <1>5 DEF u
  <2> HIDE DEF S
  <2>2. /\ Packs(y, IF c \in S THEN c ELSE c + 1, r)
        /\ Packs(z, IF c \in S THEN c - 1 ELSE c, r)
    BY <1>1, <1>4, <2>1, DigitUpdates
  <2> HIDE DEF y, z
  <2>3. /\ y \in BitWord /\ has(y, K_UPGRADE_ACTIVE)
        /\ has(y, K_WRITER_ACTIVE) <=> w
        /\ has(y, K_WRITER_QUEUED) <=> q
        /\ get_reader_count(y) = r
    BY <1>5, <2>2 DEF Packs, S
  <2>4. /\ z \in BitWord /\ ~has(z, K_UPGRADE_ACTIVE)
        /\ has(z, K_WRITER_ACTIVE) <=> w
        /\ has(z, K_WRITER_QUEUED) <=> q
        /\ get_reader_count(z) = r
    BY <1>5, <2>2 DEF Packs, S
  <2> QED
    BY <1>2, <2>3, <2>4, RecordOf DEF y, z
<1>9. /\ [Decode(x) EXCEPT !.w = TRUE] = [w |-> TRUE, q |-> q, u |-> u, r |-> r]
      /\ [Decode(x) EXCEPT !.w = FALSE] = [w |-> FALSE, q |-> q, u |-> u, r |-> r]
      /\ [Decode(x) EXCEPT !.q = TRUE] = [w |-> w, q |-> TRUE, u |-> u, r |-> r]
      /\ [Decode(x) EXCEPT !.q = FALSE] = [w |-> w, q |-> FALSE, u |-> u, r |-> r]
      /\ [Decode(x) EXCEPT !.u = TRUE] = [w |-> w, q |-> q, u |-> TRUE, r |-> r]
      /\ [Decode(x) EXCEPT !.u = FALSE] = [w |-> w, q |-> q, u |-> FALSE, r |-> r]
  <2> DEFINE s == Decode(x)
  <2> HIDE DEF s
  <2>1. s = [w |-> w, q |-> q, u |-> u, r |-> r]
    BY <1>3 DEF s
  <2>2. ASSUME NEW v
        PROVE  /\ [s EXCEPT !.w = v] = [w |-> v, q |-> q, u |-> u, r |-> r]
               /\ [s EXCEPT !.q = v] = [w |-> w, q |-> v, u |-> u, r |-> r]
               /\ [s EXCEPT !.u = v] = [w |-> w, q |-> q, u |-> v, r |-> r]
    BY <2>1, RecordUpdates
  <2> QED
    BY <2>2 DEF s
<1> QED
  BY <1>6, <1>7, <1>8, <1>9

\* Adding one to the word adds one to the record, the carry of a full count
\* included.
LEMMA IncAgrees ==
  ASSUME NEW x \in BitWord
  PROVE  /\ desire_inc_reader(x) \in BitWord
         /\ Decode(desire_inc_reader(x)) = W!DesireIncReader(Decode(x))
<1> DEFINE y == desire_inc_reader(x)
           s == Decode(x)
<1>1. PICK c \in 0 .. 7, r \in 0 .. Unit - 1 : Packs(x, c, r)
  BY Unpacking
<1>2. Unit \in Nat /\ Unit > 1 /\ MAX + 1 = 8 * Unit /\ x = c * Unit + r
  BY <1>1, Constants DEF Packs
<1>3. s.w \in BOOLEAN /\ s.q \in BOOLEAN /\ s.u \in BOOLEAN
  BY DEF Decode, has
<1>4. /\ s.w <=> c \in {4, 5, 6, 7}
      /\ s.q <=> c \in {2, 3, 6, 7}
      /\ s.u <=> c \in {1, 3, 5, 7}
      /\ s.r = r
  BY <1>1 DEF Packs, Decode
<1>5. s = [w |-> s.w, q |-> s.q, u |-> s.u, r |-> s.r]
  BY DEF Decode
<1> HIDE DEF y, s
<1>6. CASE r < Unit - 1
  <2>1. y = c * Unit + (r + 1) /\ r + 1 \in 0 .. Unit - 1
    <3> DEFINE d == 8 * Unit
               v == c * Unit + (r + 1)
    <3>1. v \in 0 .. d - 1 /\ d \in Nat \ {0} /\ x + 1 = v
      <4>1. c * Unit <= 7 * Unit /\ c * Unit \in Nat
        BY <1>2
      <4> QED
        BY <1>2, <1>6, <4>1
    <3>2. y = (x + 1) % d
      BY <1>2 DEF y, desire_inc_reader
    <3> HIDE DEF d, v
    <3>3. y = v
      BY <3>1, <3>2
    <3> QED
      BY <1>2, <1>6, <3>3 DEF v
  <2>2. Packs(y, c, r + 1)
    BY <2>1, Packing
  <2>3. W!DesireIncReader(s) = [w |-> s.w, q |-> s.q, u |-> s.u, r |-> r + 1]
    <3>1. W!DesireIncReader(s) = [s EXCEPT !.r = r + 1]
      BY <1>2, <1>4, <1>6, Constants DEF W!DesireIncReader
    <3> QED
      BY <1>5, <3>1, RecordUpdates
  <2> QED
    BY <1>3, <1>4, <2>2, <2>3, RecordOf DEF Packs, y, s
<1>7. CASE r = Unit - 1
  <2> DEFINE e == IF c = 7 THEN 0 ELSE c + 1
  <2>1. y = e * Unit + 0 /\ e \in 0 .. 7 /\ 0 \in 0 .. Unit - 1
    <3>1. x + 1 = (c + 1) * Unit
      BY <1>2, <1>7
    <3>2. CASE c = 7
      <4>1. x + 1 = 1 * (8 * Unit) + 0
        BY <1>2, <3>1, <3>2
      <4> QED
        BY <1>2, <3>2, <4>1, DivIs DEF y, desire_inc_reader
    <3>3. CASE c # 7
      <4> DEFINE d == 8 * Unit
                 v == (c + 1) * Unit
      <4>1. v \in 0 .. d - 1 /\ d \in Nat \ {0}
        BY <1>2, <3>3
      <4>2. y = v % d
        BY <1>2, <3>1 DEF y, desire_inc_reader
      <4> HIDE DEF d, v
      <4>3. y = v
        BY <4>1, <4>2
      <4> QED
        BY <1>2, <3>3, <4>3 DEF v
    <3> QED
      BY <3>2, <3>3
  <2>2. Packs(y, e, 0)
    BY <2>1, Packing
  <2>3. W!DesireIncReader(s) =
          [w |-> s.w # (s.q /\ s.u), q |-> s.q # s.u, u |-> ~s.u, r |-> 0]
    BY <1>2, <1>4, <1>7, Constants DEF W!DesireIncReader
  <2>4. /\ has(y, K_WRITER_ACTIVE) <=> (s.w # (s.q /\ s.u))
        /\ has(y, K_WRITER_QUEUED) <=> (s.q # s.u)
        /\ has(y, K_UPGRADE_ACTIVE) <=> ~s.u
    BY <1>3, <1>4, <2>2 DEF Packs
  <2>5. y \in BitWord /\ get_reader_count(y) = 0
    BY <2>2 DEF Packs
  <2> QED
    BY <2>3, <2>4, <2>5, RecordOf DEF y, s
<1> QED
  BY <1>2, <1>6, <1>7

\* Taking one from the word takes one from the record, the borrow of an empty
\* count included.
LEMMA DecAgrees ==
  ASSUME NEW x \in BitWord
  PROVE  /\ desire_dec_reader(x) \in BitWord
         /\ Decode(desire_dec_reader(x)) = W!DesireDecReader(Decode(x))
<1> DEFINE y == desire_dec_reader(x)
           s == Decode(x)
<1>1. PICK c \in 0 .. 7, r \in 0 .. Unit - 1 : Packs(x, c, r)
  BY Unpacking
<1>2. Unit \in Nat /\ Unit > 1 /\ MAX + 1 = 8 * Unit /\ x = c * Unit + r
  BY <1>1, Constants DEF Packs
<1>3. s.w \in BOOLEAN /\ s.q \in BOOLEAN /\ s.u \in BOOLEAN
  BY DEF Decode, has
<1>4. /\ s.w <=> c \in {4, 5, 6, 7}
      /\ s.q <=> c \in {2, 3, 6, 7}
      /\ s.u <=> c \in {1, 3, 5, 7}
      /\ s.r = r
  BY <1>1 DEF Packs, Decode
<1>5. s = [w |-> s.w, q |-> s.q, u |-> s.u, r |-> s.r]
  BY DEF Decode
<1> HIDE DEF y, s
<1>6. CASE r > 0
  <2>1. y = c * Unit + (r - 1) /\ r - 1 \in 0 .. Unit - 1
    <3> DEFINE d == 8 * Unit
               v == c * Unit + (r - 1)
    <3>1. v \in 0 .. d - 1 /\ d \in Nat \ {0} /\ x - 1 = v
      <4>1. c * Unit <= 7 * Unit /\ c * Unit \in Nat
        BY <1>2
      <4> QED
        BY <1>2, <1>6, <4>1
    <3>2. y = (x - 1) % d
      BY <1>2 DEF y, desire_dec_reader
    <3> HIDE DEF d, v
    <3>3. y = v
      BY <3>1, <3>2
    <3> QED
      BY <1>2, <1>6, <3>3 DEF v
  <2>2. Packs(y, c, r - 1)
    BY <2>1, Packing
  <2>3. W!DesireDecReader(s) = [w |-> s.w, q |-> s.q, u |-> s.u, r |-> r - 1]
    <3>1. W!DesireDecReader(s) = [s EXCEPT !.r = r - 1]
      BY <1>4, <1>6 DEF W!DesireDecReader
    <3> QED
      BY <1>5, <3>1, RecordUpdates
  <2> QED
    BY <1>3, <1>4, <2>2, <2>3, RecordOf DEF Packs, y, s
<1>7. CASE r = 0
  <2> DEFINE e == IF c = 0 THEN 7 ELSE c - 1
  <2>1. y = e * Unit + (Unit - 1) /\ e \in 0 .. 7 /\ Unit - 1 \in 0 .. Unit - 1
    <3> DEFINE d == 8 * Unit
    <3>1. x - 1 = c * Unit - 1 /\ d \in Nat /\ d > 1
      BY <1>2, <1>7
    <3>2. y = (x - 1) % d
      BY <1>2 DEF y, desire_dec_reader
    <3>3. CASE c = 0
      <4>1. x - 1 = -1
        BY <1>2, <3>1, <3>3
      <4> HIDE DEF d
      <4>2. y = d - 1
        BY <3>1, <3>2, <4>1
      <4> QED
        BY <1>2, <3>3, <4>2 DEF d
    <3>4. CASE c # 0
      <4> DEFINE v == (c - 1) * Unit + (Unit - 1)
      <4>1. v \in 0 .. d - 1 /\ x - 1 = v
        BY <1>2, <3>1, <3>4
      <4> HIDE DEF d, v
      <4>2. y = v
        BY <3>1, <3>2, <4>1
      <4> QED
        BY <1>2, <3>4, <4>2 DEF v
    <3> QED
      BY <3>3, <3>4
  <2>2. Packs(y, e, Unit - 1)
    BY <2>1, Packing
  <2>3. W!DesireDecReader(s) =
          [w |-> s.w # (~s.q /\ ~s.u), q |-> s.q # ~s.u, u |-> ~s.u, r |-> Unit - 1]
    BY <1>4, <1>7, Constants DEF W!DesireDecReader
  <2>4. /\ has(y, K_WRITER_ACTIVE) <=> (s.w # (~s.q /\ ~s.u))
        /\ has(y, K_WRITER_QUEUED) <=> (s.q # ~s.u)
        /\ has(y, K_UPGRADE_ACTIVE) <=> ~s.u
    BY <1>3, <1>4, <2>2 DEF Packs
  <2>5. y \in BitWord /\ get_reader_count(y) = Unit - 1
    BY <2>2 DEF Packs
  <2> QED
    BY <2>3, <2>4, <2>5, RecordOf DEF y, s
<1> QED
  BY <1>6, <1>7

----------------------------------------------------------------------------

\* Every update of the code is the update of the record.
LEMMA DesiresAgree ==
  ASSUME NEW x \in BitWord, NEW m \in Methods
  PROVE  /\ desire(m, x) \in BitWord
         /\ Decode(desire(m, x)) = RecordDesires(m, Decode(x))
<1> DEFINE s == Decode(x)
<1>1. CASE m = "try_read"
  BY <1>1, IncAgrees DEF desire, RecordDesires
<1>2. CASE m \in {"try_write", "try_upgrade_upgradable_to_write"}
  BY <1>2, FlagsAgree DEF desire, RecordDesires, W!DesireWriterActive
<1>3. CASE m = "queue_writer"
  BY <1>3, FlagsAgree DEF desire, RecordDesires, W!DesireWriterQueued
<1>4. CASE m = "on_writer_guard_drop"
  <2> DEFINE y == without(x, K_WRITER_ACTIVE)
             z == without(y, K_WRITER_QUEUED)
  <2>1. y \in BitWord /\ Decode(y) = [s EXCEPT !.w = FALSE]
    BY FlagsAgree
  <2> HIDE DEF y
  <2>2. z \in BitWord /\ Decode(z) = [Decode(y) EXCEPT !.q = FALSE]
    BY <2>1, FlagsAgree
  <2>3. desire(m, x) = z
    BY <1>4 DEF desire, y
  <2>4. RecordDesires(m, s) = [[s EXCEPT !.w = FALSE] EXCEPT !.q = FALSE]
    BY <1>4 DEF RecordDesires, W!DesireWriterNotQueuedInactive
  <2> QED
    BY <2>1, <2>2, <2>3, <2>4
<1>5. CASE m = "try_upgradable_read"
  <2> DEFINE y == with(x, K_UPGRADE_ACTIVE)
  <2>1. y \in BitWord /\ Decode(y) = [s EXCEPT !.u = TRUE]
    BY FlagsAgree
  <2> HIDE DEF y
  <2>2. /\ desire_inc_reader(y) \in BitWord
        /\ Decode(desire_inc_reader(y)) = W!DesireIncReader([s EXCEPT !.u = TRUE])
    BY <2>1, IncAgrees
  <2>3. /\ desire(m, x) = desire_inc_reader(y)
        /\ RecordDesires(m, s) = W!DesireIncReader([s EXCEPT !.u = TRUE])
    BY <1>5 DEF desire, RecordDesires, W!DesireUpgradeActiveAndReaderInc, y
  <2> QED
    BY <2>2, <2>3
<1>6. CASE m = "on_upgradable_read_drop"
  <2> DEFINE y == without(x, K_UPGRADE_ACTIVE)
  <2>1. y \in BitWord /\ Decode(y) = [s EXCEPT !.u = FALSE]
    BY FlagsAgree
  <2> HIDE DEF y
  <2>2. /\ desire_dec_reader(y) \in BitWord
        /\ Decode(desire_dec_reader(y)) = W!DesireDecReader([s EXCEPT !.u = FALSE])
    BY <2>1, DecAgrees
  <2>3. /\ desire(m, x) = desire_dec_reader(y)
        /\ RecordDesires(m, s) = W!DesireDecReader([s EXCEPT !.u = FALSE])
    BY <1>6 DEF desire, RecordDesires, W!DesireUpgradeInactiveAndReaderDec, y
  <2> QED
    BY <2>2, <2>3
<1>7. CASE m = "decrease_reader_count"
  BY <1>7, DecAgrees DEF desire, RecordDesires
<1>8. CASE m = "try_downgrade_write_to_read"
  <2> DEFINE y == without(x, K_WRITER_ACTIVE)
  <2>1. y \in BitWord /\ Decode(y) = [s EXCEPT !.w = FALSE]
    BY FlagsAgree
  <2> HIDE DEF y
  <2>2. /\ desire_inc_reader(y) \in BitWord
        /\ Decode(desire_inc_reader(y)) = W!DesireIncReader([s EXCEPT !.w = FALSE])
    BY <2>1, IncAgrees
  <2>3. /\ desire(m, x) = desire_inc_reader(y)
        /\ RecordDesires(m, s) = W!DesireIncReader([s EXCEPT !.w = FALSE])
    BY <1>8 DEF desire, RecordDesires, W!DesireWriteToRead, y
  <2> QED
    BY <2>2, <2>3
<1>9. CASE m = "try_downgrade_write_to_upgradable"
  <2> DEFINE y == without(x, K_WRITER_ACTIVE)
             z == with(y, K_UPGRADE_ACTIVE)
  <2>1. y \in BitWord /\ Decode(y) = [s EXCEPT !.w = FALSE]
    BY FlagsAgree
  <2> HIDE DEF y
  <2>2. z \in BitWord /\ Decode(z) = [[s EXCEPT !.w = FALSE] EXCEPT !.u = TRUE]
    BY <2>1, FlagsAgree
  <2>3. desire(m, x) = desire_inc_reader(z)
    BY <1>9 DEF desire, y
  <2> HIDE DEF z
  <2>4. /\ desire_inc_reader(z) \in BitWord
        /\ Decode(desire_inc_reader(z)) = W!DesireIncReader(Decode(z))
    BY <2>2, IncAgrees
  <2>5. RecordDesires(m, s)
          = W!DesireIncReader([[s EXCEPT !.w = FALSE] EXCEPT !.u = TRUE])
    BY <1>9 DEF RecordDesires, W!DesireWriteToUpgradable
  <2> QED
    BY <2>2, <2>3, <2>4, <2>5
<1>10. CASE m = "try_downgrade_upgradable_to_read"
  BY <1>10, FlagsAgree DEF desire, RecordDesires, W!DesireUpgradeInactive
<1> QED
  BY <1>1, <1>2, <1>3, <1>4, <1>5, <1>6, <1>7, <1>8, <1>9, <1>10 DEF Methods

\* The cell always holds a word.
LEMMA WordsStay == Spec => [](cell \in BitWord)
<1>1. Init => cell \in BitWord
  BY DEF Init
<1>2. cell \in BitWord /\ [Next]_cell => (cell \in BitWord)'
  BY DesiresAgree DEF Next, try_spin_update_
<1> QED
  BY <1>1, <1>2, PTL DEF Spec

\* For every width and every value of the cell, carry and borrow included,
\* the update a method of RwLockState makes with its masks and its machine
\* addition is the update of the record.
THEOREM BitsUpdateTheRecord == Spec => []UpdatesAgree
<1>1. cell \in BitWord => UpdatesAgree
  BY DesiresAgree DEF UpdatesAgree
<1> QED
  BY <1>1, WordsStay, PTL

\* For every width and every value of the cell, a method of RwLockState is
\* granted by the bits exactly when it is granted by the record.
THEOREM BitsGrantTheRecord == Spec => []ExpectationsAgree
<1>1. ASSUME NEW m \in Methods
      PROVE  RecordExpects(m, Decode(cell)) <=> expect(m, cell)
  BY DEF Methods, RecordExpects, expect, Decode, W!ExpectCanRead, W!ExpectCanWrite,
         W!ExpectWriteNotQueuedAndUpgradeInactive, W!ExpectCanDowngradeToRead,
         W!ExpectCanUpgrade, expect_can_read, expect_can_write,
         expect_write_not_queued_and_upgrade_inactive,
         expect_can_downgrade_to_read_, expect_can_upgrade_
<1>2. ExpectationsAgree
  BY <1>1 DEF ExpectationsAgree
<1> QED
  BY <1>2, PTL

\* The records of module RwWord are the words, one for one: every word has
\* its record, every record is of a word, and no two words have the same.
THEOREM RecordsAreWords ==
  /\ K_MAX_READER_COUNT \in Nat \ {0}
  /\ \A x \in BitWord : Decode(x) \in W!Word
  /\ \A s \in W!Word : \E x \in BitWord : Decode(x) = s
  /\ \A x, y \in BitWord : Decode(x) = Decode(y) => x = y
<1>1. K_MAX_READER_COUNT = Unit - 1 /\ Unit \in Nat /\ Unit > 1
  BY Constants
<1>2. ASSUME NEW x \in BitWord
      PROVE  Decode(x) \in W!Word
  <2>1. PICK c \in 0 .. 7, r \in 0 .. Unit - 1 : Packs(x, c, r)
    BY Unpacking
  <2>2. get_reader_count(x) \in 0 .. K_MAX_READER_COUNT
    BY <1>1, <2>1 DEF Packs
  <2>3. /\ has(x, K_WRITER_ACTIVE) \in BOOLEAN
        /\ has(x, K_WRITER_QUEUED) \in BOOLEAN
        /\ has(x, K_UPGRADE_ACTIVE) \in BOOLEAN
    BY DEF has
  <2> QED
    BY <2>2, <2>3 DEF Decode, W!Word
<1>3. ASSUME NEW s \in W!Word
      PROVE  \E x \in BitWord : Decode(x) = s
  <2>1. /\ s.w \in BOOLEAN /\ s.q \in BOOLEAN /\ s.u \in BOOLEAN
        /\ s.r \in 0 .. Unit - 1
        /\ s = [w |-> s.w, q |-> s.q, u |-> s.u, r |-> s.r]
    BY <1>1 DEF W!Word
  <2> DEFINE c == (IF s.w THEN 4 ELSE 0) + (IF s.q THEN 2 ELSE 0)
                    + (IF s.u THEN 1 ELSE 0)
             x == c * Unit + s.r
  <2>2. /\ c \in 0 .. 7
        /\ s.w <=> c \in {4, 5, 6, 7}
        /\ s.q <=> c \in {2, 3, 6, 7}
        /\ s.u <=> c \in {1, 3, 5, 7}
    BY <2>1
  <2> HIDE DEF c
  <2>3. Packs(x, c, s.r)
    BY <2>1, <2>2, Packing
  <2> HIDE DEF x
  <2>4. /\ x \in BitWord /\ get_reader_count(x) = s.r
        /\ has(x, K_WRITER_ACTIVE) <=> s.w
        /\ has(x, K_WRITER_QUEUED) <=> s.q
        /\ has(x, K_UPGRADE_ACTIVE) <=> s.u
    BY <2>2, <2>3 DEF Packs
  <2>5. Decode(x) = [w |-> s.w, q |-> s.q, u |-> s.u, r |-> s.r]
    BY <2>1, <2>4, RecordOf
  <2> QED
    BY <2>1, <2>4, <2>5
<1>4. ASSUME NEW x \in BitWord, NEW y \in BitWord, Decode(x) = Decode(y)
      PROVE  x = y
  <2>1. PICK c \in 0 .. 7, r \in 0 .. Unit - 1 : Packs(x, c, r)
    BY Unpacking
  <2>2. PICK d \in 0 .. 7, t \in 0 .. Unit - 1 : Packs(y, d, t)
    BY Unpacking
  <2>3. /\ has(x, K_WRITER_ACTIVE) = has(y, K_WRITER_ACTIVE)
        /\ has(x, K_WRITER_QUEUED) = has(y, K_WRITER_QUEUED)
        /\ has(x, K_UPGRADE_ACTIVE) = has(y, K_UPGRADE_ACTIVE)
        /\ get_reader_count(x) = get_reader_count(y)
    BY <1>4 DEF Decode
  <2>4. r = t
    BY <2>1, <2>2, <2>3 DEF Packs
  <2>5. c = d
    BY <2>1, <2>2, <2>3 DEF Packs
  <2> QED
    BY <2>1, <2>2, <2>4, <2>5 DEF Packs
<1> QED
  BY <1>1, <1>2, <1>3, <1>4

----------------------------------------------------------------------------

\* What SpinMutex assumes of a signal (SignalAssumption), of given values.
IsSignal(Value, Acquired, MakeAcquired, MakeReleased) ==
  /\ Acquired \subseteq Value
  /\ MakeAcquired \in [Value \ Acquired -> Acquired]
  /\ MakeReleased \in [Acquired -> Value \ Acquired]
  /\ \A v \in Value \ Acquired : MakeReleased[MakeAcquired[v]] = v

\* MsbAsMutexSignal keeps it, for integers of every width.
THEOREM MsbIsSignal ==
  IsSignal(MsbValue, MsbAcquired, MsbMakeAcquired, MsbMakeReleased)
<1> DEFINE f == K_WRITER_ACTIVE
<1>1. K_MSB_FLAG = f /\ f \in Nat \ {0} /\ BitWord \subseteq Int
  BY Constants DEF K_MSB_FLAG, K_WRITER_ACTIVE, BitWord
<1>2. /\ MsbAcquired = {v \in BitWord : has(v, f)}
      /\ MsbMakeAcquired = [v \in BitWord \ MsbAcquired |-> with(v, f)]
      /\ MsbMakeReleased = [v \in MsbAcquired |-> without(v, f)]
  BY <1>1 DEF MsbAcquired, MsbMakeAcquired, MsbMakeReleased, MsbValue, has, with,
              without
<1>3. ASSUME NEW v \in BitWord
      PROVE  /\ with(v, f) \in BitWord /\ has(with(v, f), f)
             /\ without(v, f) \in BitWord /\ ~has(without(v, f), f)
  <2>1. Decode(with(v, f)).w = TRUE /\ Decode(without(v, f)).w = FALSE
    BY FlagsAgree DEF Decode
  <2> QED
    BY <2>1, FlagsAgree DEF Decode
<1>4. ASSUME NEW v \in BitWord, ~has(v, f)
      PROVE  without(with(v, f), f) = v
  <2>1. with(v, f) = v + f
    BY <1>4, FlagUpdates
  <2>2. without(with(v, f), f) = with(v, f) - f
    BY <1>3, FlagUpdates
  <2> QED
    BY <1>1, <2>1, <2>2
<1> HIDE DEF f
<1>5. MsbMakeAcquired \in [BitWord \ MsbAcquired -> MsbAcquired]
  BY <1>2, <1>3
<1>6. MsbMakeReleased \in [MsbAcquired -> BitWord \ MsbAcquired]
  BY <1>2, <1>3
<1>7. ASSUME NEW v \in BitWord \ MsbAcquired
      PROVE  MsbMakeReleased[MsbMakeAcquired[v]] = v
  <2>1. ~has(v, f) /\ with(v, f) \in MsbAcquired
    BY <1>2, <1>3
  <2> QED
    BY <1>2, <1>4, <2>1
<1> QED
  BY <1>2, <1>5, <1>6, <1>7 DEF IsSignal, MsbValue

\* PtrAsMutexSignal keeps it, for every set of aligned addresses.
THEOREM PtrIsSignal ==
  IsSignal(PtrValue, PtrAcquired, PtrMakeAcquired, PtrMakeReleased)
<1>1. /\ PtrValue = Cells \cup {p + 1 : p \in Cells}
      /\ PtrAcquired = {p \in PtrValue : p % 2 = 1}
      /\ PtrMakeAcquired = [p \in PtrValue \ PtrAcquired |-> p + 1]
      /\ PtrMakeReleased = [p \in PtrAcquired |-> p - 1]
  BY DEF PtrValue, PtrAcquired, PtrMakeAcquired, PtrMakeReleased, K_MOD, K_RES
<1>2. ASSUME NEW p \in Cells
      PROVE  p \in Nat /\ p % 2 # 1 /\ (p + 1) % 2 = 1 /\ (p + 1) - 1 = p
  BY CellsAssumption
<1>3. ASSUME NEW p \in PtrValue \ PtrAcquired
      PROVE  p \in Cells
  BY <1>1, <1>2
<1>4. ASSUME NEW p \in Cells
      PROVE  p \in PtrValue \ PtrAcquired /\ p + 1 \in PtrAcquired
  BY <1>1, <1>2
<1>5. ASSUME NEW v \in PtrAcquired
      PROVE  \E p \in Cells : v = p + 1 /\ v - 1 = p
  BY <1>1, <1>2
<1>6. PtrMakeAcquired \in [PtrValue \ PtrAcquired -> PtrAcquired]
  BY <1>1, <1>3, <1>4
<1>7. PtrMakeReleased \in [PtrAcquired -> PtrValue \ PtrAcquired]
  BY <1>1, <1>4, <1>5
<1>8. ASSUME NEW v \in PtrValue \ PtrAcquired
      PROVE  PtrMakeReleased[PtrMakeAcquired[v]] = v
  BY <1>1, <1>2, <1>3, <1>4
<1> QED
  BY <1>1, <1>6, <1>7, <1>8 DEF IsSignal
=============================================================================
