----------------------------- MODULE BasicFacts -----------------------------
(***************************************************************************)
(* Facts the proofs share.  About %, which the ring pointers rest on,      *)
(* because registers are a fixed number of bits wide and every distance    *)
(* and every slot is a remainder; about the least number of a set; and     *)
(* about folds, the loops of the viewer, which exist and keep what each of *)
(* their turns keeps.                                                      *)
(***************************************************************************)
EXTENDS Integers, FiniteSets, FiniteSetTheorems, WellFoundedInduction, TLAPS

(* Division with remainder.                                                *)
LEMMA ModDef == ASSUME NEW m \in Nat \ {0}, NEW x \in Int
                PROVE  /\ x % m \in 0 .. m - 1
                       /\ x \div m \in Int
                       /\ x = (m * (x \div m)) + (x % m)
  OBVIOUS

(* A number below the modulus is its own remainder.                        *)
LEMMA ModSmall == ASSUME NEW m \in Nat \ {0}, NEW x \in 0 .. m - 1
                  PROVE  x % m = x
  OBVIOUS

(* The only multiple of m strictly between -m and m is zero.               *)
LEMMA MulGap == ASSUME NEW m \in Nat \ {0}, NEW d \in Int,
                       m * d < m, 0 - m < m * d
                PROVE  d = 0
<1>1. CASE d <= -1
  <2>1. m * d <= 0 - m BY <1>1
  <2> QED BY <2>1
<1>2. CASE d >= 1
  <2>1. m * d >= m BY <1>2
  <2> QED BY <2>1
<1> QED BY <1>1, <1>2

(* Two numbers less than m apart have different remainders, unless they    *)
(* are equal: two bytes the ring holds never share a slot.                 *)
LEMMA ModDistinct == ASSUME NEW m \in Nat \ {0}, NEW a \in Int, NEW b \in Int,
                            a # b, a - b < m, b - a < m
                     PROVE  a % m # b % m
<1> SUFFICES ASSUME a % m = b % m PROVE FALSE OBVIOUS
<1> DEFINE qa == a \div m
           qb == b \div m
<1>1. qa \in Int /\ qb \in Int BY ModDef
<1>2. a = (m * qa) + (a % m) /\ b = (m * qb) + (b % m) BY ModDef
<1>3. a % m \in Int BY ModDef
<1>4. a - b = (m * qa) - (m * qb) BY <1>1, <1>2, <1>3
<1>5. (m * qa) - (m * qb) = m * (qa - qb) BY <1>1
<1>6. qa - qb = 0 BY <1>1, <1>4, <1>5, MulGap
<1> QED BY <1>1, <1>4, <1>6

(* A sum of a remainder and a number has the remainder of the sum: a       *)
(* counter that wraps after each addition follows the one that never does. *)
LEMMA ModAdd == ASSUME NEW m \in Nat \ {0}, NEW a \in Int, NEW b \in Int
                PROVE  ((a % m) + b) % m = (a + b) % m
<1> DEFINE x  == (a % m) + b
           qa == a \div m
           qx == x \div m
           qs == (a + b) \div m
           d  == qa + qx - qs
<1>1. /\ qa \in Int /\ x \in Int /\ qx \in Int /\ qs \in Int /\ d \in Int
      /\ x % m \in 0 .. m - 1 /\ (a + b) % m \in 0 .. m - 1
  BY ModDef
<1>2. a = (m * qa) + (a % m) BY ModDef
<1>3. a + b = (m * qa) + x BY <1>1, <1>2
<1>4. x = (m * qx) + (x % m) BY <1>1, ModDef
<1>5. a + b = (m * qs) + ((a + b) % m) BY ModDef
<1>6. ((a + b) % m) - (x % m) = (m * qa) + (m * qx) - (m * qs)
  BY <1>1, <1>3, <1>4, <1>5
<1>7. (m * qa) + (m * qx) - (m * qs) = m * d BY <1>1
<1>8. d = 0
  <2> HIDE DEF d, x
  <2>1. m * d < m /\ 0 - m < m * d BY <1>1, <1>6, <1>7
  <2> QED BY <2>1, <1>1, MulGap
<1>9. m * d = 0 BY <1>8
<1> HIDE DEF d
<1> QED BY <1>1, <1>6, <1>7, <1>9

(* A quotient and a remainder in its range are the ones.                   *)
LEMMA DivUnique == ASSUME NEW m \in Nat \ {0}, NEW q \in Int, NEW r \in 0 .. m - 1
                   PROVE  ((m * q) + r) \div m = q /\ ((m * q) + r) % m = r
<1> DEFINE x == (m * q) + r
           d == q - (x \div m)
<1>1. x \in Int
  OBVIOUS
<1>2. x \div m \in Int /\ x % m \in 0 .. m - 1 /\ x = (m * (x \div m)) + (x % m)
  BY <1>1, ModDef
<1>3. (m * q) - (m * (x \div m)) = (x % m) - r
  <2> DEFINE p == m * q
             k == m * (x \div m)
  <2>1. p \in Int /\ k \in Int /\ p + r = k + (x % m)
    BY <1>1, <1>2
  <2>2. x % m \in Int /\ r \in Int
    BY <1>2
  <2> HIDE DEF p, k, x
  <2>3. p - k = (x % m) - r
    BY <2>1, <2>2
  <2> QED BY <2>3 DEF p, k
<1>4. (m * q) - (m * (x \div m)) = m * d
  BY <1>2
<1>5. d \in Int
  BY <1>2
<1> HIDE DEF d
<1>6. m * d < m /\ 0 - m < m * d
  BY <1>2, <1>3, <1>4
<1>7. d = 0
  BY <1>5, <1>6, MulGap
<1>8. m * d = 0
  BY <1>7
<1>9. x \div m = q
  BY <1>2, <1>7 DEF d
<1>10. x % m = r
  BY <1>2, <1>3, <1>4, <1>8
<1> QED BY <1>9, <1>10

(* A difference of less than a turn is what the remainders tell of it.     *)
LEMMA ModBack == ASSUME NEW m \in Nat \ {0}, NEW a \in Nat, NEW b \in Nat,
                        a <= b, b - a < m
                 PROVE  ((b % m) - (a % m)) % m = b - a
<1> DEFINE d == b - a
           y == a % m
<1>1. d \in 0 .. m - 1 /\ d \in Int /\ a \in Int /\ a + d = b
  OBVIOUS
<1>2. y \in 0 .. m - 1
  BY <1>1, ModDef
<1>3. (y + d) % m = b % m
  BY <1>1, ModAdd
<1> HIDE DEF d, y
<1>4. CASE y + d < m
  <2>1. (y + d) % m = y + d
    BY <1>1, <1>2, <1>4, ModSmall
  <2>2. (b % m) - y = d
    BY <1>1, <1>2, <1>3, <2>1
  <2>3. d % m = d
    BY <1>1, ModSmall
  <2> QED BY <2>2, <2>3 DEF d, y
<1>5. CASE y + d >= m
  <2> DEFINE r == (y + d) - m
             q == -1
  <2>1. r \in 0 .. m - 1 /\ (m * 1) + r = y + d
    BY <1>1, <1>2, <1>5
  <2>2. ((m * 1) + r) % m = r
    <3> DEFINE one == 1
    <3>1. one \in Int
      OBVIOUS
    <3> HIDE DEF r, one
    <3>2. ((m * one) + r) % m = r
      BY <2>1, <3>1, DivUnique
    <3> QED BY <3>2 DEF one
  <2>3. (b % m) - y = (m * q) + d
    BY <1>1, <1>2, <1>3, <2>1, <2>2
  <2>4. q \in Int
    OBVIOUS
  <2> HIDE DEF q
  <2>5. ((m * q) + d) % m = d
    BY <1>1, <2>4, DivUnique
  <2> QED BY <2>3, <2>5 DEF d, y
<1> QED BY <1>1, <1>2, <1>4, <1>5

-----------------------------------------------------------------------------
(* A set of numbers that is not empty has a least one.                     *)
LEMMA LeastNumber == ASSUME NEW T \in SUBSET Nat, T # {}
                     PROVE  \E x \in T : \A y \in T : x <= y
<1> DEFINE R == {ss \in Nat \X Nat : ss[1] < ss[2]}
<1>1. IsWellFoundedOn(R, Nat)
  BY NatLessThanWellFounded DEF OpToRel
<1>2. PICK x \in T : \A y \in T : ~(<<y, x>> \in R)
  BY <1>1, WFMin
<1>3. ASSUME NEW y \in T PROVE x <= y
  <2>1. x \in Nat /\ y \in Nat
    OBVIOUS
  <2>2. ~(<<y, x>> \in R)
    BY <1>2
  <2>3. <<y, x>> \in Nat \X Nat /\ <<y, x>>[1] = y /\ <<y, x>>[2] = x
    BY <2>1
  <2>4. ~(y < x)
    BY <2>2, <2>3
  <2> QED BY <2>1, <2>4
<1> QED BY <1>3

-----------------------------------------------------------------------------
(* Counting up to n, where the provers cannot be given a property.         *)
LEMMA UpTo == ASSUME NEW n \in Nat, NEW P, 0 \in P,
                     \A k \in 1 .. n : k - 1 \in P => k \in P
              PROVE  0 .. n \subseteq P
<1> SUFFICES ASSUME NEW m \in 0 .. n, m \notin P PROVE FALSE
  OBVIOUS
<1> DEFINE T == {k \in 0 .. n : k \notin P}
<1>1. PICK k \in T : \A y \in T : k <= y
  <2>1. T \in SUBSET Nat /\ T # {}
    OBVIOUS
  <2> HIDE DEF T
  <2> QED BY <2>1, LeastNumber
<1>2. k \in 1 .. n /\ k \notin P
  BY <1>1
<1>3. k - 1 \notin P
  BY <1>2
<1>4. k - 1 \in T
  BY <1>2, <1>3
<1> QED BY <1>1, <1>2, <1>4

(* A fold over a finite set S, an element c[T] of what is left at a time:  *)
(* what a recursive definition says of the function it defines.            *)
Chooses(c, S) == \A T \in SUBSET S : T # {} => c[T] \in T

IsFold(it, S, base, g, c) ==
    it = [T \in SUBSET S |-> IF T = {} THEN base ELSE g[<<c[T], it[T \ {c[T]}]>>]]

(* There is such a function.                                               *)
LEMMA FoldExists ==
    ASSUME NEW S, IsFiniteSet(S), NEW A, NEW base \in A, NEW g \in [S \X A -> A],
           NEW c, Chooses(c, S)
    PROVE  \E it \in [SUBSET S -> A] : IsFold(it, S, base, g, c)
<1>0. \A T \in SUBSET S : T # {} => c[T] \in T
  BY DEF Chooses
<1> DEFINE Small(k) == {T \in SUBSET S : Cardinality(T) <= k}
           Is(f, k) == \A T \in Small(k) :
                          f[T] = IF T = {} THEN base ELSE g[<<c[T], f[T \ {c[T]}]>>]
           n == Cardinality(S)
           P == {k \in Nat : \E f \in [Small(k) -> A] : Is(f, k)}
<1>1. n \in Nat /\ \A T \in SUBSET S : IsFiniteSet(T) /\ Cardinality(T) \in Nat /\ Cardinality(T) <= n
  BY FS_Subset, FS_CardinalityType
<1>2. \A T \in SUBSET S : (Cardinality(T) = 0) <=> (T = {})
  BY <1>1, FS_EmptySet
<1>3. 0 \in P
  <2> DEFINE f == [T \in Small(0) |-> base]
  <2>1. \A T \in Small(0) : T = {}
    BY <1>1, <1>2
  <2>2. f \in [Small(0) -> A] /\ Is(f, 0)
    BY <2>1
  <2> QED BY <2>2
<1>4. ASSUME NEW k \in 1 .. n, k - 1 \in P PROVE k \in P
  <2>1. PICK f \in [Small(k - 1) -> A] : Is(f, k - 1)
    BY <1>4
  <2> DEFINE h == [T \in Small(k) |-> IF T = {} THEN base ELSE g[<<c[T], f[T \ {c[T]}]>>]]
  <2>2. ASSUME NEW T \in Small(k), T # {}
        PROVE  T \ {c[T]} \in Small(k - 1) /\ c[T] \in S
    <3>1. IsFiniteSet(T) /\ c[T] \in T /\ T \in SUBSET S /\ Cardinality(T) <= k /\ Cardinality(T) \in Nat
      BY <1>0, <1>1, <2>2
    <3>2. Cardinality(T \ {c[T]}) = Cardinality(T) - 1
      BY <3>1, FS_RemoveElement
    <3> QED BY <1>1, <3>1, <3>2
  <2>3. ASSUME NEW T \in Small(k - 1) PROVE T \in Small(k) /\ h[T] = f[T]
    <3>1. T \in Small(k)
      BY <1>1
    <3> QED BY <2>1, <3>1
  <2>4. h \in [Small(k) -> A]
    <3> SUFFICES ASSUME NEW T \in Small(k), T # {} PROVE g[<<c[T], f[T \ {c[T]}]>>] \in A
      OBVIOUS
    <3>1. f[T \ {c[T]}] \in A /\ c[T] \in S
      BY <2>1, <2>2
    <3> QED BY <3>1
  <2>5. Is(h, k)
    <3> SUFFICES ASSUME NEW T \in Small(k), T # {}
                 PROVE  h[T] = g[<<c[T], h[T \ {c[T]}]>>]
      OBVIOUS
    <3>1. h[T \ {c[T]}] = f[T \ {c[T]}]
      BY <2>2, <2>3
    <3> QED BY <3>1
  <2> HIDE DEF h, Is, Small
  <2> QED BY <2>4, <2>5
<1>5. n \in P
  <2> HIDE DEF P
  <2>1. 0 .. n \subseteq P
    BY <1>1, <1>3, <1>4, UpTo
  <2> QED BY <1>1, <2>1
<1>6. PICK it \in [Small(n) -> A] : Is(it, n)
  BY <1>5
<1>7. Small(n) = SUBSET S
  BY <1>1
<1>8. it \in [SUBSET S -> A]
  BY <1>6, <1>7
<1>9. ASSUME NEW T \in SUBSET S
      PROVE  it[T] = IF T = {} THEN base ELSE g[<<c[T], it[T \ {c[T]}]>>]
  <2>1. T \in Small(n)
    BY <1>7
  <2> QED BY <1>6, <2>1
<1>10. it = [T \in SUBSET S |-> it[T]]
  BY <1>8
<1>11. it = [T \in SUBSET S |-> IF T = {} THEN base ELSE g[<<c[T], it[T \ {c[T]}]>>]]
  BY <1>9, <1>10, Zenon
<1> QED BY <1>8, <1>11 DEF IsFold

(* The largest number of a set, as the folds over a sequence take them.    *)
Top(S) == CHOOSE x \in S : \A y \in S : x >= y

LEMMA TopOf == ASSUME NEW n \in Nat, NEW S \in SUBSET (1 .. n), S # {}
               PROVE  Top(S) \in S /\ \A y \in S : Top(S) >= y
<1> DEFINE T == {n - x : x \in S}
<1>1. PICK m \in T : \A y \in T : m <= y
  <2>1. \A x \in S : x \in 1 .. n /\ n - x \in Nat
    OBVIOUS
  <2>2. T \in SUBSET Nat /\ T # {}
    BY <2>1
  <2> HIDE DEF T
  <2> QED BY <2>2, LeastNumber
<1>2. PICK x \in S : m = n - x
  BY <1>1
<1>3. ASSUME NEW y \in S PROVE x >= y
  <2>1. x \in 1 .. n /\ y \in 1 .. n /\ n - y \in T
    OBVIOUS
  <2>2. n - x <= n - y
    BY <1>1, <1>2, <2>1
  <2> QED BY <2>1, <2>2
<1> QED BY <1>3 DEF Top

LEMMA TopInterval == ASSUME NEW n \in Nat, NEW k \in 1 .. n
                     PROVE  /\ 1 .. k # {} /\ (1 .. k) \in SUBSET (1 .. n)
                            /\ Top(1 .. k) = k /\ (1 .. k) \ {k} = 1 .. k - 1
<1>1. Top(1 .. k) \in 1 .. k /\ Top(1 .. k) >= k
  <2>1. k \in Nat /\ (1 .. k) \in SUBSET (1 .. k) /\ k \in 1 .. k /\ 1 .. k # {}
    OBVIOUS
  <2> QED BY <2>1, TopOf
<1> QED BY <1>1

(* A fold over a sequence of length n.                                     *)
IsLeftFold(it, n, base, g) ==
    it = [T \in SUBSET (1 .. n) |-> IF T = {} THEN base ELSE g[<<Top(T), it[T \ {Top(T)}]>>]]

LEMMA LeftFoldExists ==
    ASSUME NEW n \in Nat, NEW A, NEW base \in A, NEW g \in [(1 .. n) \X A -> A]
    PROVE  \E it \in [SUBSET (1 .. n) -> A] : IsLeftFold(it, n, base, g)
<1> DEFINE S == 1 .. n
           c == [T \in SUBSET S |-> Top(T)]
<1>1. IsFiniteSet(S) /\ g \in [S \X A -> A] /\ Chooses(c, S)
  <2>1. IsFiniteSet(S)
    BY FS_Interval
  <2>2. \A T \in SUBSET S : T # {} => Top(T) \in T
    BY TopOf
  <2> QED BY <2>1, <2>2 DEF Chooses
<1> HIDE DEF S, c
<1>2. PICK it \in [SUBSET S -> A] : IsFold(it, S, base, g, c)
  BY <1>1, FoldExists
<1>3. IsLeftFold(it, n, base, g)
  BY <1>2 DEF IsFold, IsLeftFold, S, c
<1> QED BY <1>2, <1>3 DEF S

(* A fold over the first n numbers, turn by turn.                          *)
FoldTurns(f, n, A, v, g) ==
    /\ f[{}] = v
    /\ \A k \in 1 .. n : f[1 .. k - 1] \in A => f[1 .. k] = g[<<k, f[1 .. k - 1]>>]

IsChain(h, n, A, v, g, e) ==
    /\ h \in [0 .. n -> A] /\ h[0] = v /\ h[n] = e
    /\ \A k \in 1 .. n : h[k] = g[<<k, h[k - 1]>>]

LEMMA ChainOfFold ==
    ASSUME NEW n \in Nat, NEW A, NEW v \in A, NEW g \in [(1 .. n) \X A -> A],
           NEW f, FoldTurns(f, n, A, v, g)
    PROVE  \E h : IsChain(h, n, A, v, g, f[1 .. n])
<1> USE DEF FoldTurns
<1> DEFINE h == [k \in 0 .. n |-> f[1 .. k]]
           P == {k \in 0 .. n : f[1 .. k] \in A}
<1>1. f[1 .. 0] = v
  <2>1. 1 .. 0 = {}
    OBVIOUS
  <2> QED BY <2>1
<1>2. 0 \in P
  BY <1>1
<1>3. ASSUME NEW k \in 1 .. n, k - 1 \in P PROVE k \in P
  <2>1. k \in 0 .. n /\ f[1 .. k - 1] \in A
    BY <1>3
  <2>2. f[1 .. k] = g[<<k, f[1 .. k - 1]>>]
    BY <2>1
  <2>3. g[<<k, f[1 .. k - 1]>>] \in A
    BY <2>1
  <2> QED BY <2>1, <2>2, <2>3
<1>4. 0 .. n \subseteq P
  <2> HIDE DEF P
  <2> QED BY <1>2, <1>3, UpTo
<1>5. \A k \in 0 .. n : f[1 .. k] \in A
  BY <1>4
<1>6. h \in [0 .. n -> A]
  BY <1>5
<1>7. 0 \in 0 .. n /\ n \in 0 .. n /\ \A k \in 1 .. n : k \in 0 .. n /\ k - 1 \in 0 .. n
  OBVIOUS
<1>8. h[0] = v /\ h[n] = f[1 .. n]
  BY <1>1, <1>7
<1>9. ASSUME NEW k \in 1 .. n PROVE h[k] = g[<<k, h[k - 1]>>]
  <2>1. h[k] = f[1 .. k] /\ h[k - 1] = f[1 .. k - 1]
    BY <1>7
  <2> HIDE DEF h, P
  <2> QED BY <1>5, <1>7, <2>1
<1> QED BY <1>6, <1>8, <1>9 DEF IsChain

(* What holds at the start of a fold and at every turn holds at its end.   *)
LEMMA FoldStays ==
    ASSUME NEW n \in Nat, NEW A, NEW f, f[{}] \in A,
           \A k \in 1 .. n : f[1 .. k - 1] \in A => f[1 .. k] \in A
    PROVE  f[1 .. n] \in A
<1> DEFINE P == {k \in 0 .. n : f[1 .. k] \in A}
<1>1. 0 \in P
  <2>1. 1 .. 0 = {}
    OBVIOUS
  <2> QED BY <2>1
<1>2. \A k \in 1 .. n : k - 1 \in P => k \in P
  OBVIOUS
<1>3. n \in P
  <2> HIDE DEF P
  <2>1. 0 .. n \subseteq P
    BY <1>1, <1>2, UpTo
  <2> QED BY <2>1
<1> QED BY <1>3
=============================================================================
