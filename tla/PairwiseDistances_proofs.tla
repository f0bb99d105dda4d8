----------------------- MODULE PairwiseDistances_proofs -----------------------
(***************************************************************************)
(* The arithmetic of the condensed vector for any number of embeddings and *)
(* any block: where a row starts is how many pairs come before it, so that *)
(* a block's slice is as long as what is written to it and every pair has  *)
(* its cell; and PdistInv, which the steps of the workers preserve.        *)
(***************************************************************************)
EXTENDS PairwiseDistances, FiniteSetTheorems, SequenceTheorems, TLAPS

-----------------------------------------------------------------------------
(* Induction, for sets of numbers: a set that lacks some m but has 0 and   *)
(* the successor of each of its members would map its part below m one to  *)
(* one to that part without 0.                                             *)
LEMMA SetInduction ==
  ASSUME NEW S, 0 \in S, \A k \in Nat : k \in S => k + 1 \in S
  PROVE  Nat \subseteq S
  <1> SUFFICES ASSUME NEW m \in Nat, m \notin S PROVE FALSE
    OBVIOUS
  <1> DEFINE A == S \cap (0..m)
             B == A \ {0}
             f == [k \in A |-> k + 1]
  <1>1. IsFiniteSet(A) /\ Cardinality(A) \in Nat
    <2>1. IsFiniteSet(0..m) /\ A \in SUBSET (0..m)
      BY FS_Interval
    <2> HIDE DEF A
    <2>2. QED
      BY <2>1, FS_Subset, FS_CardinalityType
  <1>2. IsFiniteSet(B) /\ Cardinality(B) = Cardinality(A) - 1
    <2>1. 0 \in A
      OBVIOUS
    <2>2. QED
      BY <1>1, <2>1, FS_RemoveElement
  <1>3. f \in Injection(A, B)
    <2>1. ASSUME NEW k \in A PROVE k + 1 \in B
      <3>1. k \in Nat /\ k <= m /\ k # m /\ k \in S
        OBVIOUS
      <3>2. k + 1 \in S /\ k + 1 \in 0..m /\ k + 1 # 0
        BY <3>1
      <3>3. QED
        BY <3>2
    <2>2. \A k, l \in A : k + 1 = l + 1 => k = l
      OBVIOUS
    <2>3. f \in [A -> B]
      BY <2>1
    <2>4. IsInjective(f)
      BY <2>2 DEF IsInjective
    <2>5. QED
      BY <2>3, <2>4 DEF Injection
  <1>4. Cardinality(A) <= Cardinality(B)
    BY <1>2, <1>3, FS_Injection
  <1>5. QED
    BY <1>1, <1>2, <1>4

-----------------------------------------------------------------------------
(* Rows and cells *)

(* Half of i * (i - 1) is a whole number.                                  *)
LEMMA EvenProduct ==
  ASSUME NEW i \in Nat
  PROVE  (i * (i - 1)) % 2 = 0
  <1> DEFINE S == {k \in Nat : (k * (k - 1)) % 2 = 0}
  <1>1. 0 \in S
    OBVIOUS
  <1>2. ASSUME NEW k \in Nat, k \in S PROVE k + 1 \in S
    <2>1. (k + 1) * (k + 1 - 1) = k * (k - 1) + 2 * k /\ k * (k - 1) \in Int
      OBVIOUS
    <2>2. QED
      BY <1>2, <2>1
  <1>3. Nat \subseteq S
    <2> HIDE DEF S
    <2>1. QED
      BY <1>1, <1>2, SetInduction
  <1>4. QED
    BY <1>3

(* The next row starts behind the cells of this one.                       *)
LEMMA NextRow ==
  ASSUME NEW n \in Nat, NEW i \in Nat
  PROVE  /\ SegStart(n, i) \in Int
         /\ SegStart(n, 0) = 0
         /\ SegStart(n, i + 1) = SegStart(n, i) + (n - 1 - i)
  <1>1. PICK u \in Int : u = i * (i - 1)
    OBVIOUS
  <1>2. SegStart(n, i) = i * (n - 1) - u \div 2
    BY <1>1 DEF SegStart
  <1>3. (i + 1) * i = u + 2 * i /\ (i + 1) * (n - 1) = i * (n - 1) + (n - 1)
    BY <1>1
  <1>4. SegStart(n, i + 1) = (i + 1) * (n - 1) - ((i + 1) * i) \div 2
    BY DEF SegStart
  <1>5. (u + 2 * i) \div 2 = u \div 2 + i
    OBVIOUS
  <1>6. SegStart(n, 0) = 0
    BY DEF SegStart
  <1>7. QED
    BY <1>2, <1>3, <1>4, <1>5, <1>6

(* There are as many pairs in some rows as cells from the start of the     *)
(* first to the start of the row behind the last.                          *)
LEMMA PairsCounted ==
  ASSUME NEW n \in Nat, NEW a \in Nat, NEW b \in Nat, a <= b, b <= n
  PROVE  /\ IsFiniteSet(PairsOf(n, a, b))
         /\ Cardinality(PairsOf(n, a, b)) = SegStart(n, b) - SegStart(n, a)
         /\ SegStart(n, a) <= SegStart(n, b)
  <1> DEFINE S == {k \in Nat : a + k <= n =>
                     /\ IsFiniteSet(PairsOf(n, a, a + k))
                     /\ Cardinality(PairsOf(n, a, a + k)) = SegStart(n, a + k) - SegStart(n, a)}
  <1>1. 0 \in S
    <2>1. PairsOf(n, a, a + 0) = {}
      BY DEF PairsOf
    <2>2. SegStart(n, a + 0) - SegStart(n, a) = 0
      BY NextRow
    <2>3. QED
      BY <2>1, <2>2, FS_EmptySet
  <1>2. ASSUME NEW k \in Nat, k \in S PROVE k + 1 \in S
    <2> SUFFICES ASSUME a + (k + 1) <= n
                 PROVE  /\ IsFiniteSet(PairsOf(n, a, a + (k + 1)))
                        /\ Cardinality(PairsOf(n, a, a + (k + 1)))
                             = SegStart(n, a + (k + 1)) - SegStart(n, a)
      OBVIOUS
    <2> DEFINE i == a + k
               P == PairsOf(n, a, i)
               R == {i} \X ((i + 1)..(n - 1))
    <2>1. i \in Nat /\ i < n /\ a <= i
      OBVIOUS
    <2>2. IsFiniteSet(P) /\ Cardinality(P) = SegStart(n, i) - SegStart(n, a)
      BY <1>2
    <2>3. IsFiniteSet(R) /\ Cardinality(R) = n - 1 - i
      <3>1. IsFiniteSet({i}) /\ Cardinality({i}) = 1
        BY FS_Singleton
      <3>2. IsFiniteSet((i + 1)..(n - 1)) /\ Cardinality((i + 1)..(n - 1)) = n - 1 - i
        BY <2>1, FS_Interval
      <3>3. /\ IsFiniteSet(R)
            /\ Cardinality(R) = Cardinality({i}) * Cardinality((i + 1)..(n - 1))
        BY ONLY <3>1, <3>2, FS_Product
      <3>4. QED
        BY <2>1, <3>1, <3>2, <3>3
    <2>4. PairsOf(n, a, i + 1) = P \cup R
      BY <2>1 DEF PairsOf
    <2>5. P \cap R = {}
      BY <2>1 DEF PairsOf
    <2>6. IsFiniteSet(P \cup R) /\ Cardinality(P \cup R) = Cardinality(P) + Cardinality(R)
      <3>1. Cardinality(P \cap R) = 0
        BY <2>5, FS_EmptySet
      <3>2. Cardinality(P) \in Nat /\ Cardinality(R) \in Nat
        BY <2>2, <2>3, FS_CardinalityType
      <3>3. /\ IsFiniteSet(P \cup R)
            /\ Cardinality(P \cup R) = Cardinality(P) + Cardinality(R) - Cardinality(P \cap R)
        <4> HIDE DEF P, R
        <4>1. QED
          BY <2>2, <2>3, FS_Union
      <3>4. QED
        BY <3>1, <3>2, <3>3
    <2>7. SegStart(n, i + 1) = SegStart(n, i) + (n - 1 - i) /\ SegStart(n, i) \in Int
          /\ SegStart(n, a) \in Int
      BY <2>1, NextRow
    <2>8. a + (k + 1) = i + 1
      OBVIOUS
    <2>9. Cardinality(PairsOf(n, a, i + 1)) = SegStart(n, i + 1) - SegStart(n, a)
      <3> HIDE DEF P, R, i
      <3>1. Cardinality(PairsOf(n, a, i + 1)) = SegStart(n, i) - SegStart(n, a) + (n - 1 - i)
        BY <2>2, <2>3, <2>4, <2>6
      <3>2. QED
        BY <2>1, <2>7, <3>1
    <2>10. QED
      BY <2>4, <2>6, <2>8, <2>9
  <1>3. b - a \in S
    <2> HIDE DEF S
    <2>1. Nat \subseteq S
      BY <1>1, <1>2, SetInduction
    <2>2. QED
      BY <2>1
  <1>4. a + (b - a) = b
    OBVIOUS
  <1>5. IsFiniteSet(PairsOf(n, a, b))
        /\ Cardinality(PairsOf(n, a, b)) = SegStart(n, b) - SegStart(n, a)
    BY <1>3, <1>4
  <1>6. Cardinality(PairsOf(n, a, b)) \in Nat /\ SegStart(n, a) \in Int /\ SegStart(n, b) \in Int
    BY <1>5, NextRow, FS_CardinalityType
  <1>7. QED
    BY <1>5, <1>6

(* The rows end where the vector does. *)
LEMMA LastRow ==
  ASSUME NEW n \in Nat, n > 0
  PROVE  Total(n) = SegStart(n, n - 1)
  <1>1. PICK m \in Nat : m = n - 1
    OBVIOUS
  <1>2. PICK u \in Int : u = m * (m - 1)
    OBVIOUS
  <1>3. u % 2 = 0
    BY <1>2, EvenProduct
  <1>4. m * m = u + m /\ n * m = u + 2 * m
    BY <1>1, <1>2
  <1>5. SegStart(n, m) = (u + m) - u \div 2
    BY <1>1, <1>2, <1>4 DEF SegStart
  <1>6. Total(n) = (u + 2 * m) \div 2
    <2>1. CASE n = 1
      BY <1>1, <1>2, <2>1 DEF Total
    <2>2. CASE n > 1
      BY <1>1, <1>4, <2>2 DEF Total
    <2>3. QED
      BY <2>1, <2>2
  <1>7. (u + 2 * m) \div 2 = (u + m) - u \div 2
    BY <1>3
  <1>8. QED
    BY <1>1, <1>5, <1>6, <1>7

(* Before a pair come the rows above it, and its own row up to it.         *)
LEMMA RankIs ==
  ASSUME NEW n \in Nat, NEW a \in Nat, NEW b \in Nat, a <= b, b <= n,
         NEW p \in PairsOf(n, a, b)
  PROVE  /\ p = <<p[1], p[2]>> /\ p[1] \in Nat /\ p[2] \in Nat
         /\ a <= p[1] /\ p[1] < b /\ p[1] < p[2] /\ p[2] < n
         /\ Rank(PairsOf(n, a, b), p) = SegStart(n, p[1]) - SegStart(n, a) + (p[2] - p[1] - 1)
  <1>1. PICK i \in Nat, j \in Nat : p = <<i, j>> /\ a <= i /\ i < b /\ i < j /\ j < n
    BY DEF PairsOf
  <1> DEFINE P == PairsOf(n, a, i)
             R == {i} \X ((i + 1)..(j - 1))
  <1>2. {q \in PairsOf(n, a, b) : q[1] < p[1] \/ (q[1] = p[1] /\ q[2] < p[2])} = P \cup R
    <2>1. ASSUME NEW q \in PairsOf(n, a, b), q[1] < i \/ (q[1] = i /\ q[2] < j)
          PROVE  q \in P \cup R
      BY <1>1, <2>1 DEF PairsOf
    <2>2. ASSUME NEW q \in P
          PROVE  q \in PairsOf(n, a, b) /\ q[1] < i
      BY <1>1 DEF PairsOf
    <2>3. ASSUME NEW q \in R
          PROVE  q \in PairsOf(n, a, b) /\ q[1] = i /\ q[2] < j
      BY <1>1 DEF PairsOf
    <2> HIDE DEF P, R
    <2>4. QED
      BY <1>1, <2>1, <2>2, <2>3
  <1>3. P \cap R = {}
    BY <1>1 DEF PairsOf
  <1>4. IsFiniteSet(P) /\ Cardinality(P) = SegStart(n, i) - SegStart(n, a)
    BY <1>1, PairsCounted
  <1>5. IsFiniteSet(R) /\ Cardinality(R) = j - i - 1
    <2>1. IsFiniteSet({i}) /\ Cardinality({i}) = 1
      BY FS_Singleton
    <2>2. IsFiniteSet((i + 1)..(j - 1)) /\ Cardinality((i + 1)..(j - 1)) = j - i - 1
      <3>1. PICK l \in Int, h \in Int : l = i + 1 /\ h = j - 1
        BY <1>1
      <3>2. IsFiniteSet(l..h) /\ Cardinality(l..h) = IF l > h THEN 0 ELSE h - l + 1
        BY FS_Interval
      <3>3. QED
        BY <1>1, <3>1, <3>2
    <2>3. /\ IsFiniteSet(R)
          /\ Cardinality(R) = Cardinality({i}) * Cardinality((i + 1)..(j - 1))
      BY ONLY <2>1, <2>2, FS_Product
    <2>4. QED
      BY <1>1, <2>1, <2>2, <2>3
  <1>6. Cardinality(P \cup R) = SegStart(n, i) - SegStart(n, a) + (j - i - 1)
    <2>1. Cardinality(P \cap R) = 0
      BY <1>3, FS_EmptySet
    <2>2. Cardinality(P) \in Nat /\ Cardinality(R) \in Nat
      BY <1>4, <1>5, FS_CardinalityType
    <2>3. Cardinality(P \cup R) = Cardinality(P) + Cardinality(R) - Cardinality(P \cap R)
      <3> HIDE DEF P, R
      <3>1. QED
        BY <1>4, <1>5, FS_Union
    <2>4. QED
      BY <1>4, <1>5, <2>1, <2>2, <2>3
  <1>7. Rank(PairsOf(n, a, b), p) = SegStart(n, i) - SegStart(n, a) + (j - i - 1)
    BY <1>2, <1>6 DEF Rank
  <1>8. QED
    BY <1>1, <1>7

(* So a pair's place is within its row, and no two pairs have the same.    *)
LEMMA RankInRow ==
  ASSUME NEW n \in Nat, NEW a \in Nat, NEW b \in Nat, a <= b, b <= n,
         NEW p \in PairsOf(n, a, b)
  PROVE  /\ Rank(PairsOf(n, a, b), p) \in Int
         /\ SegStart(n, p[1]) - SegStart(n, a) <= Rank(PairsOf(n, a, b), p)
         /\ Rank(PairsOf(n, a, b), p) < SegStart(n, p[1] + 1) - SegStart(n, a)
  <1>1. PICK i \in Nat, j \in Nat :
          /\ i = p[1] /\ j = p[2] /\ i < j /\ j < n
          /\ Rank(PairsOf(n, a, b), p) = SegStart(n, i) - SegStart(n, a) + (j - i - 1)
    BY RankIs
  <1>2. /\ SegStart(n, i) \in Int /\ SegStart(n, a) \in Int
        /\ SegStart(n, i + 1) = SegStart(n, i) + (n - 1 - i)
    BY NextRow
  <1>3. QED
    BY <1>1, <1>2

LEMMA RankInjective ==
  ASSUME NEW n \in Nat, NEW a \in Nat, NEW b \in Nat, a <= b, b <= n,
         NEW p \in PairsOf(n, a, b), NEW q \in PairsOf(n, a, b),
         Rank(PairsOf(n, a, b), p) = Rank(PairsOf(n, a, b), q)
  PROVE  p = q
  <1>1. ASSUME NEW x \in PairsOf(n, a, b), NEW y \in PairsOf(n, a, b),
               Rank(PairsOf(n, a, b), x) = Rank(PairsOf(n, a, b), y), x[1] < y[1]
        PROVE  FALSE
    <2>1. x[1] \in Nat /\ y[1] \in Nat /\ y[1] < n
      BY RankIs
    <2>2. x[1] + 1 \in Nat /\ x[1] + 1 <= y[1] /\ y[1] <= n
      BY <1>1, <2>1
    <2>3. SegStart(n, x[1] + 1) <= SegStart(n, y[1])
      BY <2>1, <2>2, PairsCounted
    <2>4. /\ SegStart(n, x[1] + 1) \in Int /\ SegStart(n, y[1]) \in Int /\ SegStart(n, a) \in Int
      BY <2>1, <2>2, NextRow
    <2>5. Rank(PairsOf(n, a, b), x) < SegStart(n, x[1] + 1) - SegStart(n, a)
          /\ Rank(PairsOf(n, a, b), x) \in Int
      BY RankInRow
    <2>6. SegStart(n, y[1]) - SegStart(n, a) <= Rank(PairsOf(n, a, b), y)
      BY RankInRow
    <2>7. QED
      BY <1>1, <2>3, <2>5, <2>6, <2>4
  <1>2. p[1] = q[1]
    <2>1. p[1] \in Nat /\ q[1] \in Nat
      BY RankIs
    <2>2. ~(p[1] < q[1]) /\ ~(q[1] < p[1])
      BY <1>1
    <2>3. QED
      BY <2>1, <2>2
  <1>3. PICK i \in Nat, j \in Nat, k \in Nat :
          /\ p = <<i, j>> /\ q = <<i, k>>
          /\ SegStart(n, i) - SegStart(n, a) + (j - i - 1)
               = SegStart(n, i) - SegStart(n, a) + (k - i - 1)
    BY <1>2, RankIs
  <1>4. SegStart(n, i) \in Int /\ SegStart(n, a) \in Int
    BY NextRow
  <1>5. j = k
    BY <1>3, <1>4
  <1>6. QED
    BY <1>3, <1>5

(* A block's pairs have the cells of its slice, in its own order, and      *)
(* nobody else's pairs have.                                               *)
LEMMA OwnSlice ==
  ASSUME NEW n \in Nat, NEW a \in Nat, NEW b \in Nat, a <= b, b < n,
         NEW p \in PairsOf(n, 0, n - 1)
  PROVE  /\ p \in PairsOf(n, a, b) <=> p[1] \in a..(b - 1)
         /\ p[1] \in a..(b - 1) <=>
              Rank(PairsOf(n, 0, n - 1), p) \in SegStart(n, a)..(SegStart(n, b) - 1)
         /\ p \in PairsOf(n, a, b) =>
              Rank(PairsOf(n, a, b), p) = Rank(PairsOf(n, 0, n - 1), p) - SegStart(n, a)
  <1> DEFINE r == Rank(PairsOf(n, 0, n - 1), p)
  <1>1. PICK i \in Nat, j \in Nat :
          /\ p = <<i, j>> /\ i < n - 1 /\ i < j /\ j < n
          /\ r = SegStart(n, i) - SegStart(n, 0) + (j - i - 1)
          /\ r \in Int
          /\ SegStart(n, i) - SegStart(n, 0) <= r /\ r < SegStart(n, i + 1) - SegStart(n, 0)
    <2>1. n - 1 \in Nat /\ 0 \in Nat /\ 0 <= n - 1 /\ n - 1 <= n
      OBVIOUS
    <2>2. /\ p = <<p[1], p[2]>> /\ p[1] \in Nat /\ p[2] \in Nat
          /\ p[1] < n - 1 /\ p[1] < p[2] /\ p[2] < n
          /\ r = SegStart(n, p[1]) - SegStart(n, 0) + (p[2] - p[1] - 1)
      BY <2>1, RankIs
    <2>3. /\ r \in Int /\ SegStart(n, p[1]) - SegStart(n, 0) <= r
          /\ r < SegStart(n, p[1] + 1) - SegStart(n, 0)
      BY <2>1, RankInRow
    <2>4. QED
      BY <2>2, <2>3
  <1>2. /\ SegStart(n, 0) = 0 /\ SegStart(n, a) \in Int /\ SegStart(n, b) \in Int
        /\ SegStart(n, i) \in Int /\ SegStart(n, i + 1) \in Int
    <2>1. i + 1 \in Nat
      OBVIOUS
    <2>2. QED
      BY <2>1, NextRow
  <1>3. p \in PairsOf(n, a, b) <=> i \in a..(b - 1)
    BY <1>1 DEF PairsOf
  <1>4. i \in a..(b - 1) => r \in SegStart(n, a)..(SegStart(n, b) - 1)
    <2>1. SUFFICES ASSUME i \in a..(b - 1) PROVE r \in SegStart(n, a)..(SegStart(n, b) - 1)
      OBVIOUS
    <2>2. SegStart(n, a) <= SegStart(n, i) /\ SegStart(n, i + 1) <= SegStart(n, b)
      BY <2>1, PairsCounted
    <2>3. QED
      BY <1>1, <1>2, <2>2
  <1>5. i < a => r < SegStart(n, a)
    <2>1. SUFFICES ASSUME i < a PROVE r < SegStart(n, a)
      OBVIOUS
    <2>2. SegStart(n, i + 1) <= SegStart(n, a)
      BY <2>1, PairsCounted
    <2>3. QED
      BY <1>1, <1>2, <2>2
  <1>6. i >= b => r >= SegStart(n, b)
    <2>1. SUFFICES ASSUME i >= b PROVE r >= SegStart(n, b)
      OBVIOUS
    <2>2. SegStart(n, b) <= SegStart(n, i)
      BY <1>1, <2>1, PairsCounted
    <2>3. QED
      BY <1>1, <1>2, <2>2
  <1>7. p \in PairsOf(n, a, b) => Rank(PairsOf(n, a, b), p) = r - SegStart(n, a)
    <2>1. SUFFICES ASSUME p \in PairsOf(n, a, b)
                   PROVE  Rank(PairsOf(n, a, b), p) = r - SegStart(n, a)
      OBVIOUS
    <2>2. Rank(PairsOf(n, a, b), p) = SegStart(n, i) - SegStart(n, a) + (j - i - 1)
      BY <1>1, <2>1, RankIs
    <2>3. QED
      BY <1>1, <1>2, <2>2
  <1>8. QED
    BY <1>1, <1>2, <1>3, <1>4, <1>5, <1>6, <1>7

(* Every pair has a cell.                                                  *)
LEMMA RankIsCell ==
  ASSUME NEW n \in Nat, NEW p \in PairsOf(n, 0, n - 1)
  PROVE  n > 1 /\ Rank(PairsOf(n, 0, n - 1), p) \in Cells(n)
  <1> DEFINE r == Rank(PairsOf(n, 0, n - 1), p)
  <1>1. PICK i \in Nat : i = p[1] /\ i < n - 1
    BY DEF PairsOf
  <1>2. i + 1 \in Nat /\ n - 1 \in Nat /\ i + 1 <= n - 1 /\ 0 <= i /\ n > 1
    BY <1>1
  <1>3. /\ r \in Int /\ SegStart(n, i) - SegStart(n, 0) <= r
        /\ r < SegStart(n, i + 1) - SegStart(n, 0)
    BY <1>1, <1>2, RankInRow
  <1>4. /\ SegStart(n, 0) <= SegStart(n, i) /\ SegStart(n, i + 1) <= SegStart(n, n - 1)
    BY <1>2, PairsCounted
  <1>5. /\ SegStart(n, 0) = 0 /\ SegStart(n, i) \in Int /\ SegStart(n, i + 1) \in Int
        /\ SegStart(n, n - 1) \in Int
    BY <1>2, NextRow
  <1>6. Total(n) = SegStart(n, n - 1)
    BY <1>2, LastRow
  <1>7. QED
    BY <1>2, <1>3, <1>4, <1>5, <1>6 DEF Cells

-----------------------------------------------------------------------------
(* Blocks *)

(* A block: some rows, and the cells from the start of the first of them   *)
(* to the start of the row behind them.                                    *)
Slices(n) ==
  {b \in [first : Nat, end : Nat, from : Int, to : Int] :
     /\ b.first < b.end /\ b.end < n
     /\ b.from = SegStart(n, b.first) /\ b.to = SegStart(n, b.end)}
InBlock(p, b) == p[1] \in b.first..(b.end - 1)

LEMMA IdleIsNoSlice ==
  ASSUME NEW n \in Nat
  PROVE  Idle \notin Slices(n)
  BY DEF Idle, Slices

(* How many blocks there are: the last one has a row at least, and the     *)
(* last row has a block.                                                   *)
LEMMA BlocksCounted ==
  ASSUME NEW m \in Nat \ {0}
  PROVE  \E c \in Nat : /\ c = (m + BLOCK - 1) \div BLOCK
                        /\ (c - 1) * BLOCK < m /\ c * BLOCK >= m
  <1>1. BLOCK \in Nat \ {0}
    BY PdistAssumption
  <1> DEFINE c == (m + BLOCK - 1) \div BLOCK
             r == (m + BLOCK - 1) % BLOCK
  <1>2. c \in Int /\ r \in 0..(BLOCK - 1) /\ m + BLOCK - 1 = BLOCK * c + r
    BY <1>1
  <1>3. BLOCK * c = c * BLOCK /\ (c - 1) * BLOCK = c * BLOCK - BLOCK
    BY <1>1, <1>2
  <1>4. c * BLOCK >= m /\ (c - 1) * BLOCK < m
    BY <1>1, <1>2, <1>3
  <1>5. c >= 0
    <2>1. SUFFICES ASSUME c <= -1 PROVE FALSE
      BY <1>2
    <2>2. c * BLOCK <= (-1) * BLOCK
      BY <1>1, <1>2, <2>1
    <2>3. QED
      BY <1>1, <1>4, <2>2
  <1>6. QED
    BY <1>2, <1>4, <1>5

(* Between them the blocks have every row that has a pair.                 *)
LEMMA BlocksCover ==
  ASSUME NEW n \in Nat
  PROVE  /\ BlocksOf(n) \in Seq(Slices(n))
         /\ \A p \in PairsOf(n, 0, n - 1) :
              \E k \in DOMAIN BlocksOf(n) : InBlock(p, BlocksOf(n)[k])
  <1>1. CASE n < 2
    <2>1. BlocksOf(n) = << >>
      BY <1>1 DEF BlocksOf
    <2>2. PairsOf(n, 0, n - 1) = {}
      BY <1>1 DEF PairsOf
    <2>3. QED
      BY <2>1, <2>2
  <1>2. CASE n >= 2
    <2>1. BLOCK \in Nat \ {0} /\ n - 1 \in Nat \ {0}
      BY <1>2, PdistAssumption
    <2>2. PICK c \in Nat : /\ c = (n - 1 + BLOCK - 1) \div BLOCK
                           /\ (c - 1) * BLOCK < n - 1 /\ c * BLOCK >= n - 1
      BY <2>1, BlocksCounted
    <2> DEFINE S(k) == [first |-> (k - 1) * BLOCK, end |-> BlockEnd(n, k),
                        from |-> SegStart(n, (k - 1) * BLOCK),
                        to |-> SegStart(n, BlockEnd(n, k))]
    <2>3. BlocksOf(n) = [k \in 1..c |-> S(k)]
      BY <1>2, <2>2 DEF BlocksOf
    <2>4. ASSUME NEW k \in 1..c
          PROVE  S(k) \in Slices(n)
      <3>1. (k - 1) * BLOCK \in Nat /\ k * BLOCK \in Nat /\ k * BLOCK = (k - 1) * BLOCK + BLOCK
        BY <2>1
      <3>2. (k - 1) * BLOCK <= (c - 1) * BLOCK
        <4>1. k - 1 \in Nat /\ c - 1 \in Nat /\ k - 1 <= c - 1
          OBVIOUS
        <4>2. QED
          BY <2>1, <4>1
      <3>3. (k - 1) * BLOCK < n - 1
        <4>1. (c - 1) * BLOCK \in Int
          BY <2>1, <2>2
        <4>2. QED
          BY <2>1, <2>2, <3>1, <3>2, <4>1
      <3>4. BlockEnd(n, k) \in Nat /\ (k - 1) * BLOCK < BlockEnd(n, k) /\ BlockEnd(n, k) < n
        BY <2>1, <3>1, <3>3 DEF BlockEnd
      <3>5. SegStart(n, (k - 1) * BLOCK) \in Int /\ SegStart(n, BlockEnd(n, k)) \in Int
        BY <3>1, <3>4, NextRow
      <3>6. QED
        BY <3>1, <3>4, <3>5 DEF Slices
    <2>5. BlocksOf(n) \in Seq(Slices(n))
      <3> HIDE DEF S
      <3>1. QED
        BY <2>2, <2>3, <2>4
    <2>6. ASSUME NEW p \in PairsOf(n, 0, n - 1)
          PROVE  \E k \in DOMAIN BlocksOf(n) : InBlock(p, BlocksOf(n)[k])
      <3>1. PICK i \in Nat : i = p[1] /\ i < n - 1
        BY DEF PairsOf
      <3>2. PICK q \in Int, r \in 0..(BLOCK - 1) : i = q * BLOCK + r
        <4>1. i = BLOCK * (i \div BLOCK) + (i % BLOCK) /\ i \div BLOCK \in Int
              /\ i % BLOCK \in 0..(BLOCK - 1)
          BY <2>1
        <4>2. BLOCK * (i \div BLOCK) = (i \div BLOCK) * BLOCK
          BY <2>1, <4>1
        <4>3. QED
          BY <4>1, <4>2
      <3>3. q >= 0
        <4>1. SUFFICES ASSUME q <= -1 PROVE FALSE
          OBVIOUS
        <4>2. q * BLOCK <= (-1) * BLOCK
          BY <2>1, <4>1
        <4>3. QED
          BY <2>1, <3>2, <4>2
      <3>4. q < c
        <4>1. SUFFICES ASSUME q >= c PROVE FALSE
          BY <2>2
        <4>2. q * BLOCK >= c * BLOCK
          BY <2>1, <2>2, <4>1
        <4>3. c * BLOCK \in Int /\ q * BLOCK \in Int
          BY <2>1, <2>2
        <4>4. QED
          BY <2>1, <2>2, <3>1, <3>2, <4>2, <4>3
      <3>5. PICK k \in 1..c : k = q + 1
        BY <3>3, <3>4
      <3>6. (k - 1) * BLOCK = q * BLOCK /\ k * BLOCK = q * BLOCK + BLOCK /\ q * BLOCK \in Int
        BY <2>1, <3>5
      <3>7. i \in (k - 1) * BLOCK..(BlockEnd(n, k) - 1)
        BY <2>1, <3>1, <3>2, <3>6 DEF BlockEnd
      <3>8. k \in DOMAIN BlocksOf(n) /\ BlocksOf(n)[k] = S(k)
        BY <2>3
      <3>9. InBlock(p, S(k))
        BY <3>1, <3>7 DEF InBlock
      <3>10. QED
        BY <3>8, <3>9
    <2>7. QED
      BY <2>5, <2>6
  <1>3. QED
    BY <1>1, <1>2

-----------------------------------------------------------------------------
(* The invariant: a pair is in its cell unless its block waits on the      *)
(* stack or is at some worker.                                             *)

AllPairs == PairsOf(embeddings, 0, embeddings - 1)
Waits(p) == \E k \in DOMAIN blocks : InBlock(p, blocks[k])
IsHeld(p) == \E w \in PdistWorkers : holding[w] # Idle /\ InBlock(p, holding[w])

PdistInv ==
  /\ embeddings \in 0..MaxEmbeddings
  /\ blocks \in Seq(Slices(embeddings))
  /\ DOMAIN holding = PdistWorkers
  /\ \A w \in PdistWorkers : holding[w] = Idle \/ holding[w] \in Slices(embeddings)
  /\ DOMAIN condensed = Cells(embeddings)
  /\ \A p \in AllPairs : condensed[Rank(AllPairs, p)] = p \/ Waits(p) \/ IsHeld(p)

LEMMA PdistInitInv == PdistInit => PdistInv
  <1> SUFFICES ASSUME PdistInit PROVE PdistInv
    OBVIOUS
  <1>1. AllPairs = {}
    BY DEF PdistInit, AllPairs, PairsOf
  <1>2. QED
    BY <1>1, PdistAssumption DEF PdistInit, PdistInv

LEMMA SplitInv ==
  ASSUME PdistInv, \A w \in PdistWorkers : holding[w] = Idle,
         NEW n \in 0..MaxEmbeddings, Split(n)
  PROVE  PdistInv'
  <1>1. n \in Nat /\ embeddings' = n /\ blocks' = BlocksOf(n) /\ holding' = holding
    BY PdistAssumption DEF Split
  <1>2. DOMAIN condensed' = Cells(n)
    BY DEF Split
  <1>3. blocks' \in Seq(Slices(n)) /\ \A p \in AllPairs' : Waits(p)'
    BY <1>1, BlocksCover DEF AllPairs, Waits
  <1>4. QED
    BY <1>1, <1>2, <1>3 DEF PdistInv

LEMMA PopInv ==
  ASSUME PdistInv, NEW w \in PdistWorkers, Pop(w)
  PROVE  PdistInv'
  <1>1. PICK n \in 0..MaxEmbeddings : n = embeddings
    BY DEF PdistInv
  <1>2. PICK s \in Seq(Slices(n)), m \in Nat \ {0} : s = blocks /\ m = Len(s)
    BY <1>1, EmptySeq DEF PdistInv, Pop
  <1>3. /\ embeddings' = n /\ condensed' = condensed
        /\ blocks' = SubSeq(s, 1, m - 1)
        /\ holding' = [holding EXCEPT ![w] = s[m]] /\ holding[w] = Idle
    BY <1>1, <1>2 DEF Pop
  <1>4. blocks' \in Seq(Slices(n)) /\ Len(blocks') = m - 1 /\ \A k \in 1..(m - 1) : blocks'[k] = s[k]
    BY <1>2, <1>3
  <1>5. s[m] \in Slices(n)
    BY <1>2
  <1>6. /\ DOMAIN holding' = PdistWorkers /\ holding'[w] = s[m]
        /\ \A v \in PdistWorkers : v # w => holding'[v] = holding[v]
    BY <1>3 DEF PdistInv
  <1>7. ASSUME NEW p \in AllPairs
        PROVE  condensed[Rank(AllPairs, p)] = p \/ Waits(p)' \/ IsHeld(p)'
    <2>1. CASE condensed[Rank(AllPairs, p)] = p
      BY <2>1
    <2>2. CASE IsHeld(p)
      BY <1>3, <1>6, <2>2 DEF IsHeld
    <2>3. CASE Waits(p)
      <3>1. PICK k \in 1..m : InBlock(p, s[k])
        BY <1>2, <2>3 DEF Waits
      <3>2. CASE k = m
        <4>1. holding'[w] # Idle
          BY <1>5, <1>6, IdleIsNoSlice
        <4>2. QED
          BY <1>6, <3>1, <3>2, <4>1 DEF IsHeld
      <3>3. CASE k # m
        <4>1. k \in 1..(m - 1) /\ k \in DOMAIN blocks'
          BY <1>4, <3>3
        <4>2. QED
          BY <1>4, <3>1, <4>1 DEF Waits
      <3>4. QED
        BY <3>2, <3>3
    <2>4. QED
      BY <2>1, <2>2, <2>3 DEF PdistInv
  <1>8. AllPairs' = AllPairs
    BY <1>1, <1>3 DEF AllPairs
  <1>9. \A v \in PdistWorkers : holding'[v] = Idle \/ holding'[v] \in Slices(n)
    BY <1>1, <1>5, <1>6 DEF PdistInv
  <1>10. QED
    BY <1>1, <1>3, <1>4, <1>6, <1>7, <1>8, <1>9 DEF PdistInv

LEMMA ComputeInv ==
  ASSUME PdistInv, NEW w \in PdistWorkers, Compute(w)
  PROVE  PdistInv'
  <1>1. PICK n \in 0..MaxEmbeddings, b \in Slices(embeddings) :
          n = embeddings /\ b = holding[w] /\ b \in Slices(n)
    BY DEF PdistInv, Compute
  <1>2. /\ n \in Nat /\ b.first \in Nat /\ b.end \in Nat /\ b.first <= b.end /\ b.end < n
        /\ b.end <= n /\ b.from = SegStart(n, b.first) /\ b.to = SegStart(n, b.end)
    <2>1. n \in Nat
      BY PdistAssumption
    <2>2. /\ b.first \in Nat /\ b.end \in Nat /\ b.first < b.end /\ b.end < n
          /\ b.from = SegStart(n, b.first) /\ b.to = SegStart(n, b.end)
      BY <1>1 DEF Slices
    <2>3. QED
      BY <2>1, <2>2
  <1> DEFINE mine == PairsOf(n, b.first, b.end)
  <1>3. /\ embeddings' = n /\ blocks' = blocks
        /\ holding' = [holding EXCEPT ![w] = Idle]
        /\ condensed' = [cell \in DOMAIN condensed |->
                           IF cell \in b.from..(b.to - 1)
                           THEN CHOOSE p \in mine : Rank(mine, p) = cell - b.from
                           ELSE condensed[cell]]
    BY <1>1 DEF Compute
  <1>4. /\ DOMAIN holding' = PdistWorkers /\ holding'[w] = Idle
        /\ \A v \in PdistWorkers : v # w => holding'[v] = holding[v]
    BY <1>3 DEF PdistInv
  <1>5. AllPairs = PairsOf(n, 0, n - 1) /\ AllPairs' = AllPairs
    BY <1>1, <1>3 DEF AllPairs
  <1>6. ASSUME NEW p \in AllPairs
        PROVE  condensed'[Rank(AllPairs, p)] = p \/ Waits(p)' \/ IsHeld(p)'
    <2> DEFINE r == Rank(AllPairs, p)
    <2>1. r \in DOMAIN condensed
      BY <1>1, <1>2, <1>5, RankIsCell DEF PdistInv
    <2>2. /\ p \in mine <=> InBlock(p, b)
          /\ InBlock(p, b) <=> r \in b.from..(b.to - 1)
          /\ p \in mine => Rank(mine, p) = r - b.from
      BY <1>2, <1>5, OwnSlice DEF InBlock
    <2>3. CASE InBlock(p, b)
      <3>1. p \in mine /\ Rank(mine, p) = r - b.from
        BY <2>2, <2>3
      <3>2. PICK q : q = CHOOSE x \in mine : Rank(mine, x) = r - b.from
        OBVIOUS
      <3>3. q \in mine /\ Rank(mine, q) = Rank(mine, p)
        <4> HIDE DEF mine, r
        <4>1. QED
          BY <3>1, <3>2
      <3>4. q = p
        BY <1>2, <3>1, <3>3, RankInjective
      <3>5. condensed'[r] = q
        BY <1>3, <2>1, <2>2, <2>3, <3>2
      <3>6. QED
        BY <3>4, <3>5
    <2>4. CASE ~InBlock(p, b)
      <3>1. condensed'[r] = condensed[r]
        BY <1>3, <2>1, <2>2, <2>4
      <3>2. condensed[r] = p \/ Waits(p) \/ IsHeld(p)
        BY DEF PdistInv
      <3>3. Waits(p) => Waits(p)'
        BY <1>3 DEF Waits
      <3>4. IsHeld(p) => IsHeld(p)'
        BY <1>1, <1>4, <2>4 DEF IsHeld
      <3>5. QED
        BY <3>1, <3>2, <3>3, <3>4
    <2>5. QED
      BY <2>3, <2>4
  <1>7. DOMAIN condensed' = Cells(n)
    BY <1>1, <1>3 DEF PdistInv
  <1>8. \A v \in PdistWorkers : holding'[v] = Idle \/ holding'[v] \in Slices(n)
    BY <1>1, <1>4 DEF PdistInv
  <1>9. blocks' \in Seq(Slices(n))
    BY <1>1, <1>3 DEF PdistInv
  <1>10. QED
    BY <1>3, <1>4, <1>5, <1>6, <1>7, <1>8, <1>9 DEF PdistInv

LEMMA PdistStepInv ==
  ASSUME PdistInv, PdistStep
  PROVE  PdistInv'
  BY PopInv, ComputeInv DEF PdistStep

LEMMA PdistStutterInv ==
  ASSUME PdistInv, UNCHANGED pdistVars
  PROVE  PdistInv'
  BY DEF PdistInv, pdistVars, AllPairs, Waits, IsHeld

(* What follows from it.                                                   *)
LEMMA PdistSafety ==
  ASSUME PdistInv
  PROVE  PdistTypeOK /\ SlicesFit /\ CondensedIsInOrder
  <1>1. PICK n \in 0..MaxEmbeddings : n = embeddings /\ n \in Nat
    BY PdistAssumption DEF PdistInv
  <1>2. ASSUME NEW w \in PdistWorkers, holding[w] # Idle
        PROVE  /\ holding[w].end \in 1..n
               /\ holding[w].to - holding[w].from
                    = Cardinality(PairsOf(n, holding[w].first, holding[w].end))
    <2>1. PICK b \in Slices(n) : b = holding[w]
      BY <1>1, <1>2 DEF PdistInv
    <2>2. /\ b.first \in Nat /\ b.end \in Nat /\ b.first < b.end /\ b.end < n
          /\ b.first <= b.end /\ b.end <= n
          /\ b.from = SegStart(n, b.first) /\ b.to = SegStart(n, b.end)
      BY <1>1 DEF Slices
    <2>3. Cardinality(PairsOf(n, b.first, b.end)) = SegStart(n, b.end) - SegStart(n, b.first)
      BY <1>1, <2>2, PairsCounted
    <2>4. b.end \in 1..n
      BY <1>1, <2>2
    <2>5. QED
      BY <2>1, <2>2, <2>3, <2>4
  <1>3. PdistTypeOK
    BY <1>1, <1>2 DEF PdistInv, PdistTypeOK
  <1>4. SlicesFit
    BY <1>1, <1>2 DEF SlicesFit
  <1>5. CondensedIsInOrder
    <2>1. SUFFICES ASSUME AllComputed, NEW p \in AllPairs
                   PROVE  condensed[Rank(AllPairs, p)] = p
      BY DEF CondensedIsInOrder, AllPairs
    <2>2. ~Waits(p) /\ ~IsHeld(p)
      BY <2>1 DEF AllComputed, Waits, IsHeld
    <2>3. QED
      BY <2>2 DEF PdistInv
  <1>6. QED
    BY <1>3, <1>4, <1>5
=============================================================================
