------------------------- MODULE BlockSearchProofs -------------------------
(***************************************************************************)
(* The index of searched blocks, the recheck plan and the choice of the    *)
(* next block, for every size of the search, every valid history and every *)
(* archive; that a part of a block counts only when the hash of each of    *)
(* its keys was compared; that the arithmetic of the search is right,      *)
(* which rests on ArithmeticProofs; and that an address says which public  *)
(* key it is of, down to the padding of the hashes and the digits of       *)
(* Base58.                                                                 *)
(***************************************************************************)
EXTENDS ArithmeticProofs

-----------------------------------------------------------------------------
(* Numbers, finite sets and folds *)

\* A set of numbers that goes down to 1 is an interval, and its size says which.
LEMMA PrefixCounts ==
    ASSUME NEW n \in Nat, NEW P \in SUBSET (1 .. n), \A i \in P : \A j \in 1 .. i : j \in P
    PROVE  Cardinality(P) \in 0 .. n /\ P = 1 .. Cardinality(P)
<1>. DEFINE T == {m \in 0 .. n : P \subseteq 1 .. m}
<1>1. PICK m \in T : \A k \in T : m <= k
  <2>1. n \in T
    OBVIOUS
  <2>2. T \subseteq Nat /\ T # {}
    BY <2>1
  <2>. HIDE DEF T
  <2>. QED
    BY <2>2, LeastExists
<1>2. P = 1 .. m
  <2>1. CASE m = 0
    BY <1>1, <2>1
  <2>2. CASE m # 0
    <3>1. m - 1 \notin T /\ m - 1 \in 0 .. n
      BY <1>1, <2>2
    <3>2. PICK i \in P : i \notin 1 .. m - 1
      BY <3>1
    <3>3. i = m
      BY <1>1, <3>2
    <3>. QED
      BY <1>1, <3>3
  <2>. QED
    BY <2>1, <2>2
<1>3. Cardinality(1 .. m) = m
  <2>1. Cardinality(1 .. m) = IF 1 > m THEN 0 ELSE m - 1 + 1
    BY FS_Interval
  <2>. QED
    BY <2>1
<1>. QED
  BY <1>1, <1>2, <1>3

\* A set of numbers that is not empty has a largest element.
LEMMA LargestExists ==
    ASSUME NEW n \in Nat, NEW s \in SUBSET (1 .. n), s # {}
    PROVE  \E m \in s : \A i \in s : i <= m
<1>. DEFINE T == {m \in 0 .. n : s \subseteq 1 .. m}
<1>1. PICK m \in T : \A k \in T : m <= k
  <2>1. n \in T
    OBVIOUS
  <2>2. T \subseteq Nat /\ T # {}
    BY <2>1
  <2>. HIDE DEF T
  <2>. QED
    BY <2>2, LeastExists
<1>2. m # 0
  <2>. SUFFICES ASSUME m = 0 PROVE FALSE
    OBVIOUS
  <2>1. PICK x \in s : TRUE
    OBVIOUS
  <2>2. x \in 1 .. 0
    BY <1>1, <2>1
  <2>. QED
    BY <2>2
<1>3. m - 1 \notin T /\ m - 1 \in 0 .. n
  BY <1>1, <1>2
<1>4. PICK i \in s : i \notin 1 .. m - 1
  BY <1>3
<1>5. i \in 1 .. m /\ s \subseteq 1 .. m
  BY <1>1, <1>4
<1>6. i = m
  BY <1>4, <1>5
<1>7. \A j \in s : j <= i
  BY <1>5, <1>6
<1>. QED
  BY <1>7

\* It is the one that Max chooses.
LEMMA LargestIsMax ==
    ASSUME NEW s \in SUBSET Nat, NEW m \in s, \A i \in s : i <= m
    PROVE  Max(s) = m
<1>. DEFINE P(x) == \A y \in s : x >= y
<1>1. P(m)
  OBVIOUS
<1>2. \A x \in s : P(x) => x = m
  <2>. TAKE x \in s
  <2>. HAVE P(x)
  <2>1. x >= m /\ x <= m /\ x \in Nat /\ m \in Nat
    OBVIOUS
  <2>. QED
    BY <2>1
<1>3. Max(s) = CHOOSE x \in s : P(x)
  BY Zenon DEF Max
<1>. HIDE DEF P
<1>. QED
  BY <1>1, <1>2, <1>3, Zenon

\* What a fold over the numbers up to n computes, for every set of them: the largest
\* number goes in last.
IsFoldOf(f, base, op, n) ==
    /\ f[{}] = base
    /\ \A s \in SUBSET (1 .. n) : \A m \in s :
         (\A i \in s : i <= m) => f[s] = op[<<f[s \ {m}], m>>]

\* There is such a function.
LEMMA FoldExists ==
    ASSUME NEW n \in Nat, NEW A, NEW base \in A, NEW op \in [A \X (1 .. n) -> A]
    PROVE  \E f \in [SUBSET (1 .. n) -> A] : IsFoldOf(f, base, op, n)
<1>. DEFINE Has(m) == \E f \in [SUBSET (1 .. m) -> A] : IsFoldOf(f, base, op, m)
            T == {m \in 0 .. n : ~ Has(m)}
<1>1. ASSUME NEW m \in T, \A k \in T : m <= k PROVE FALSE
  <2>. m \in 0 .. n /\ ~ Has(m)
    BY <1>1
  <2>1. m # 0
    <3>. SUFFICES ASSUME m = 0 PROVE FALSE
      OBVIOUS
    <3>. DEFINE f == [s \in SUBSET (1 .. 0) |-> base]
    <3>1. 1 .. 0 = {}
      OBVIOUS
    <3>2. f \in [SUBSET (1 .. 0) -> A] /\ f[{}] = base
      BY <3>1
    <3>3. IsFoldOf(f, base, op, 0)
      BY <3>1, <3>2 DEF IsFoldOf
    <3>. QED
      BY <3>2, <3>3
  <2>2. m \in 1 .. n /\ m - 1 \in 0 .. n /\ m \in Nat
    BY <2>1
  <2>3. Has(m - 1)
    <3>1. ~ (m <= m - 1)
      BY <2>2
    <3>2. m - 1 \notin T
      BY <1>1, <3>1
    <3>. HIDE DEF Has
    <3>. QED
      BY <2>2, <3>2
  <2>4. PICK f \in [SUBSET (1 .. m - 1) -> A] : IsFoldOf(f, base, op, m - 1)
    BY <2>3
  <2>. DEFINE g == [s \in SUBSET (1 .. m) |-> IF m \in s THEN op[<<f[s \ {m}], m>>] ELSE f[s]]
  <2>5. \A s \in SUBSET (1 .. m) : /\ s \ {m} \in SUBSET (1 .. m - 1)
                                   /\ m \notin s => s \in SUBSET (1 .. m - 1)
    BY <2>2
  <2>6. g \in [SUBSET (1 .. m) -> A]
    <3>. SUFFICES ASSUME NEW s \in SUBSET (1 .. m) PROVE g[s] \in A
      OBVIOUS
    <3>1. s \ {m} \in SUBSET (1 .. m - 1) /\ (m \notin s => s \in SUBSET (1 .. m - 1))
      BY <2>5
    <3>2. f[s \ {m}] \in A /\ (m \notin s => f[s] \in A)
      BY <2>4, <3>1
    <3>3. <<f[s \ {m}], m>> \in A \X (1 .. n)
      BY <2>2, <3>2
    <3>. QED
      BY <3>2, <3>3
  <2>7. g[{}] = base
    BY <2>4 DEF IsFoldOf
  <2>8. ASSUME NEW s \in SUBSET (1 .. m), NEW x \in s, \A i \in s : i <= x
        PROVE  g[s] = op[<<g[s \ {x}], x>>]
    <3>1. CASE m \in s
      <4>1. x = m
        BY <2>2, <2>8, <3>1
      <4>2. s \ {m} \in SUBSET (1 .. m) /\ m \notin s \ {m}
        OBVIOUS
      <4>3. g[s] = op[<<f[s \ {m}], m>>] /\ g[s \ {m}] = f[s \ {m}]
        BY <3>1, <4>2
      <4>. QED
        BY <4>1, <4>3
    <3>2. CASE m \notin s
      <4>1. s \in SUBSET (1 .. m - 1) /\ m \notin s \ {x} /\ s \ {x} \in SUBSET (1 .. m)
        BY <2>5, <3>2
      <4>2. f[s] = op[<<f[s \ {x}], x>>]
        BY <2>4, <2>8, <4>1 DEF IsFoldOf
      <4>3. g[s] = f[s] /\ g[s \ {x}] = f[s \ {x}]
        BY <3>2, <4>1
      <4>. QED
        BY <4>2, <4>3
    <3>. QED
      BY <3>1, <3>2
  <2>. HIDE DEF g
  <2>9. IsFoldOf(g, base, op, m)
    BY <2>7, <2>8 DEF IsFoldOf
  <2>. QED
    BY <2>6, <2>9
<1>2. T = {}
  <2>1. T \subseteq Nat
    OBVIOUS
  <2>. HIDE DEF T
  <2>2. T # {} => \E m \in T : \A k \in T : m <= k
    BY <2>1, LeastExists
  <2>. QED
    BY <1>1, <2>2
<1>3. Has(n)
  <2>. HIDE DEF Has
  <2>. QED
    BY <1>2
<1>. QED
  BY <1>3

-----------------------------------------------------------------------------
(* Lists of intervals *)

\* The lists of intervals, valid or not.
Lists == Seq(Blocks \X Blocks)

\* A block is a number.
LEMMA BlocksAreNumbers ==
    /\ \A b \in Blocks : b \in Nat /\ 0 <= b /\ b <= MaxBlock
    /\ \A v \in Blocks \X Blocks : Start(v) \in Blocks /\ End(v) \in Blocks
<1>1. \A b \in Blocks : b \in Nat /\ 0 <= b /\ b <= MaxBlock
  BY FilterAssumption DEF Blocks
<1>2. \A v \in Blocks \X Blocks : Start(v) \in Blocks /\ End(v) \in Blocks
  BY DEF Start, End
<1>. QED
  BY <1>1, <1>2

\* The ends of an interval are blocks.
LEMMA EndsAreBlocks ==
    ASSUME NEW list \in Lists
    PROVE  /\ Len(list) \in Nat /\ DOMAIN list = 1 .. Len(list)
           /\ \A i \in 1 .. Len(list) : /\ list[i] \in Blocks \X Blocks
                                        /\ Start(list[i]) \in Blocks /\ End(list[i]) \in Blocks
                                        /\ list[i] = <<Start(list[i]), End(list[i])>>
<1>1. Len(list) \in Nat /\ DOMAIN list = 1 .. Len(list)
  BY DEF Lists
<1>2. \A i \in 1 .. Len(list) : list[i] \in Blocks \X Blocks
  BY DEF Lists
<1>3. \A v \in Blocks \X Blocks : /\ Start(v) \in Blocks /\ End(v) \in Blocks
                                  /\ v = <<Start(v), End(v)>>
  BY DEF Start, End
<1>. QED
  BY <1>1, <1>2, <1>3

\* In a valid list every interval lies behind all that come before it.
LEMMA ValidOrder ==
    ASSUME NEW list \in Lists, IsValid(list)
    PROVE  \A j \in 1 .. Len(list) : \A i \in 1 .. j - 1 : End(list[i]) < Start(list[j])
<1>. DEFINE T == {j \in 1 .. Len(list) : ~ \A i \in 1 .. j - 1 : End(list[i]) < Start(list[j])}
<1>1. ASSUME NEW j \in T, \A k \in T : j <= k PROVE FALSE
  <2>1. j \in 1 .. Len(list)
    BY <1>1
  <2>2. PICK i \in 1 .. j - 1 : ~ (End(list[i]) < Start(list[j]))
    BY <1>1
  <2>3. Len(list) \in Nat /\ j \in 2 .. Len(list) /\ j - 1 \in 1 .. Len(list)
        /\ i \in 1 .. Len(list)
    BY <2>1, <2>2, EndsAreBlocks
  <2>4. Start(list[j]) > End(list[j - 1]) /\ Start(list[j - 1]) <= End(list[j - 1])
    BY <2>1, <2>3, EndsAreBlocks DEF IsValid
  <2>5. /\ Start(list[j]) \in Int /\ End(list[j - 1]) \in Int /\ End(list[i]) \in Int
        /\ Start(list[j - 1]) \in Int
    BY <2>1, <2>3, EndsAreBlocks, BlocksAreNumbers
  <2>6. ~ (j <= j - 1)
    BY <2>3
  <2>7. j - 1 \notin T
    BY <1>1, <2>6
  <2>8. \A m \in 1 .. (j - 1) - 1 : End(list[m]) < Start(list[j - 1])
    BY <2>3, <2>7
  <2>9. i = j - 1 \/ i \in 1 .. (j - 1) - 1
    BY <2>2, <2>3
  <2>10. CASE i = j - 1
    BY <2>2, <2>4, <2>5, <2>10
  <2>11. CASE i \in 1 .. (j - 1) - 1
    <3>1. End(list[i]) < Start(list[j - 1])
      BY <2>8, <2>11
    <3>. QED
      BY <2>2, <2>4, <2>5, <3>1
  <2>. QED
    BY <2>9, <2>10, <2>11
<1>2. T \subseteq Nat
  BY EndsAreBlocks
<1>3. T = {}
  <2>. HIDE DEF T
  <2>1. T # {} => \E n \in T : \A m \in T : n <= m
    BY <1>2, LeastExists
  <2>. QED
    BY <1>1, <2>1
<1>. QED
  BY <1>3

\* The blocks a list stands for are those that one of its intervals holds.
LEMMA CoverageHolds ==
    ASSUME NEW list \in Lists
    PROVE  /\ Coverage(list) \subseteq Int
           /\ \A c \in Int : c \in Coverage(list) <=> Holds(list, c)
           /\ IsValid(list) => Coverage(list) \subseteq Blocks
<1>1. \A i \in 1 .. Len(list) : Start(list[i]) \in Int /\ End(list[i]) \in Int
                                /\ 0 <= Start(list[i])
  BY EndsAreBlocks, BlocksAreNumbers
<1>2. DOMAIN list = 1 .. Len(list)
  BY EndsAreBlocks
<1>3. \A c : c \in Coverage(list) <=> \E i \in DOMAIN list : c \in Start(list[i]) .. End(list[i])
  BY DEF Coverage
<1>4. Coverage(list) \subseteq Int
  BY <1>1, <1>2, <1>3
<1>5. \A c \in Int : c \in Coverage(list) <=> Holds(list, c)
  BY <1>1, <1>2, <1>3 DEF Holds
<1>6. ASSUME IsValid(list), NEW c \in Coverage(list) PROVE c \in Blocks
  <2>1. PICK i \in 1 .. Len(list) : c \in Start(list[i]) .. End(list[i])
    BY <1>2, <1>3
  <2>2. End(list[i]) <= MaxBlock
    BY <1>2, <1>6 DEF IsValid
  <2>3. MaxBlock \in Nat
    BY FilterAssumption
  <2>. QED
    BY <1>1, <2>1, <2>2, <2>3 DEF Blocks
<1>. QED
  BY <1>4, <1>5, <1>6

\* The list whose intervals behind the p-th and before the q-th give way to one.
IsSplice(new, list, p, q, x) ==
    /\ new \in Lists
    /\ Len(new) = p + 1 + (Len(list) - q + 1)
    /\ \A i \in 1 .. p : new[i] = list[i]
    /\ new[p + 1] = x
    /\ \A i \in q .. Len(list) : new[i - q + p + 2] = list[i]

\* One of those holds the block.
HeldAround(list, p, q, x, c) ==
    \/ \E i \in 1 .. p : Start(list[i]) <= c /\ c <= End(list[i])
    \/ Start(x) <= c /\ c <= End(x)
    \/ \E i \in q .. Len(list) : Start(list[i]) <= c /\ c <= End(list[i])

\* Each interval of it is one of those, and each of those is in it.
LEMMA SpliceHolds ==
    ASSUME NEW list \in Lists, NEW new, NEW p \in 0 .. Len(list), NEW q \in p + 1 .. Len(list) + 1,
           NEW x \in Blocks \X Blocks, IsSplice(new, list, p, q, x), NEW c \in Int
    PROVE  Holds(new, c) <=> HeldAround(list, p, q, x, c)
<1>1. Len(list) \in Nat /\ p \in Nat /\ q \in Nat
  BY EndsAreBlocks
<1>2. DOMAIN new = 1 .. Len(new) /\ Len(new) \in Nat
  BY EndsAreBlocks DEF IsSplice
<1>3. Len(new) = p + 1 + (Len(list) - q + 1)
  BY DEF IsSplice
<1>4. ASSUME NEW j \in 1 .. Len(new)
      PROVE  \/ j \in 1 .. p /\ new[j] = list[j]
             \/ j = p + 1 /\ new[j] = x
             \/ j - p - 2 + q \in q .. Len(list) /\ new[j] = list[j - p - 2 + q]
  <2>1. CASE j \in 1 .. p
    BY <2>1 DEF IsSplice
  <2>2. CASE j = p + 1
    BY <2>2 DEF IsSplice
  <2>3. CASE j > p + 1
    <3>1. j - p - 2 + q \in q .. Len(list) /\ (j - p - 2 + q) - q + p + 2 = j
      BY <1>1, <1>3, <2>3
    <3>2. new[(j - p - 2 + q) - q + p + 2] = list[j - p - 2 + q]
      BY <3>1 DEF IsSplice
    <3>. QED
      BY <3>1, <3>2
  <2>. QED
    BY <1>1, <2>1, <2>2, <2>3
<1>5. \A i \in 1 .. p : i \in 1 .. Len(new) /\ new[i] = list[i]
  BY <1>1, <1>3 DEF IsSplice
<1>6. p + 1 \in 1 .. Len(new) /\ new[p + 1] = x
  BY <1>1, <1>3 DEF IsSplice
<1>7. \A i \in q .. Len(list) : i - q + p + 2 \in 1 .. Len(new) /\ new[i - q + p + 2] = list[i]
  BY <1>1, <1>3 DEF IsSplice
<1>. DEFINE At(v) == Start(v) <= c /\ c <= End(v)
<1>8. Holds(new, c) <=> \E j \in 1 .. Len(new) : At(new[j])
  BY <1>2 DEF Holds
<1>. HIDE DEF At
<1>9. Holds(new, c) <=> \/ \E i \in 1 .. p : At(list[i])
                        \/ At(x)
                        \/ \E i \in q .. Len(list) : At(list[i])
  BY <1>4, <1>5, <1>6, <1>7, <1>8
<1>. QED
  BY <1>9 DEF At, HeldAround

\* It is valid if the new interval lies between its neighbours.
LEMMA SpliceValid ==
    ASSUME NEW list \in Lists, IsValid(list), NEW new,
           NEW p \in 0 .. Len(list), NEW q \in p + 1 .. Len(list) + 1,
           NEW x \in Blocks \X Blocks, IsSplice(new, list, p, q, x), Start(x) <= End(x),
           p > 0 => End(list[p]) < Start(x),
           q <= Len(list) => End(x) < Start(list[q])
    PROVE  IsValid(new)
<1>1. Len(list) \in Nat /\ p \in Nat /\ q \in Nat
  BY EndsAreBlocks
<1>2. DOMAIN new = 1 .. Len(new) /\ Len(new) \in Nat
  BY EndsAreBlocks DEF IsSplice
<1>3. Len(new) = p + 1 + (Len(list) - q + 1)
  BY DEF IsSplice
<1>4. /\ \A i \in 1 .. p : new[i] = list[i]
      /\ new[p + 1] = x
      /\ \A i \in q .. Len(list) : new[i - q + p + 2] = list[i]
  BY DEF IsSplice
<1>5. \A i \in 1 .. Len(list) : Start(list[i]) <= End(list[i]) /\ End(list[i]) <= MaxBlock
  BY EndsAreBlocks DEF IsValid
<1>6. \A i \in 2 .. Len(list) : Start(list[i]) > End(list[i - 1])
  BY DEF IsValid
<1>7. End(x) <= MaxBlock
  BY BlocksAreNumbers
<1>8. ASSUME NEW j \in 1 .. Len(new)
      PROVE  Start(new[j]) <= End(new[j]) /\ End(new[j]) <= MaxBlock
  <2>1. CASE j \in 1 .. p
    BY <1>1, <1>4, <1>5, <2>1
  <2>2. CASE j = p + 1
    BY <1>4, <1>7, <2>2
  <2>3. CASE j > p + 1
    <3>. DEFINE i == j - p - 2 + q
    <3>1. i \in q .. Len(list) /\ i - q + p + 2 = j /\ i \in 1 .. Len(list)
      BY <1>1, <1>3, <2>3
    <3>. HIDE DEF i
    <3>2. new[j] = list[i]
      BY <1>4, <3>1
    <3>. QED
      BY <1>5, <3>1, <3>2
  <2>. QED
    BY <1>1, <2>1, <2>2, <2>3
<1>9. ASSUME NEW j \in 2 .. Len(new) PROVE Start(new[j]) > End(new[j - 1])
  <2>0. j \in Nat /\ j - 1 \in Nat
    OBVIOUS
  <2>1. CASE j \in 1 .. p
    <3>1. j \in 2 .. Len(list) /\ j - 1 \in 1 .. p
      BY <1>1, <2>1
    <3>. QED
      BY <1>4, <1>6, <2>1, <3>1
  <2>2. CASE j = p + 1
    <3>1. p > 0 /\ p \in 1 .. p /\ j - 1 = p
      BY <1>1, <2>2
    <3>2. new[j - 1] = list[p] /\ new[j] = x
      BY <1>4, <2>2, <3>1
    <3>3. Start(x) \in Int /\ End(list[p]) \in Int
      BY <1>1, <3>1, EndsAreBlocks, BlocksAreNumbers
    <3>. QED
      BY <3>1, <3>2, <3>3
  <2>3. CASE j = p + 2
    <3>1. q <= Len(list) /\ q \in q .. Len(list) /\ q - q + p + 2 = j /\ j - 1 = p + 1
          /\ q \in 1 .. Len(list)
      BY <1>1, <1>3, <2>3
    <3>2. new[j - 1] = x /\ new[j] = list[q]
      BY <1>4, <3>1
    <3>3. End(x) \in Int /\ Start(list[q]) \in Int
      BY <1>1, <3>1, EndsAreBlocks, BlocksAreNumbers
    <3>. QED
      BY <3>1, <3>2, <3>3
  <2>4. CASE j > p + 2
    <3>. DEFINE i == j - p - 2 + q
    <3>1. /\ i \in q .. Len(list) /\ i - q + p + 2 = j /\ i \in 2 .. Len(list)
          /\ i - 1 \in q .. Len(list) /\ (i - 1) - q + p + 2 = j - 1
      BY <1>1, <1>3, <2>4
    <3>. HIDE DEF i
    <3>2. new[j] = list[i] /\ new[j - 1] = list[i - 1]
      BY <1>4, <3>1
    <3>. QED
      BY <1>6, <3>1, <3>2
  <2>. QED
    BY <1>1, <2>0, <2>1, <2>2, <2>3, <2>4
<1>. QED
  BY <1>2, <1>8, <1>9 DEF IsValid

\* The place of a block is behind the intervals that begin with it or before it.
LEMMA PlaceSplits ==
    ASSUME NEW list \in Lists, IsValid(list), NEW b \in Blocks
    PROVE  /\ Place(list, b) \in 0 .. Len(list)
           /\ \A i \in 1 .. Len(list) : Start(list[i]) <= b <=> i <= Place(list, b)
<1>. DEFINE P == {i \in 1 .. Len(list) : Start(list[i]) <= b}
            n == Cardinality(P)
<1>1. Len(list) \in Nat /\ DOMAIN list = 1 .. Len(list)
  BY EndsAreBlocks
<1>2. Place(list, b) = n
  <2>1. Place(list, b) = Cardinality({i \in DOMAIN list : Start(list[i]) <= b})
    BY Zenon DEF Place, PartitionPoint
  <2>. QED
    BY <1>1, <2>1
<1>3. ASSUME NEW i \in P, NEW j \in 1 .. i PROVE j \in P
  <2>1. i \in 1 .. Len(list) /\ j \in 1 .. Len(list) /\ (j = i \/ j \in 1 .. i - 1)
    BY <1>1
  <2>2. Start(list[i]) \in Nat /\ Start(list[j]) \in Nat /\ End(list[j]) \in Nat /\ b \in Nat
    BY <2>1, EndsAreBlocks, BlocksAreNumbers
  <2>3. Start(list[j]) <= End(list[j])
    BY <1>1, <2>1 DEF IsValid
  <2>4. j \in 1 .. i - 1 => End(list[j]) < Start(list[i])
    BY <2>1, ValidOrder
  <2>5. Start(list[j]) <= b
    BY <2>1, <2>2, <2>3, <2>4
  <2>. QED
    BY <2>1, <2>5
<1>4. n \in 0 .. Len(list) /\ P = 1 .. n
  <2>1. P \in SUBSET (1 .. Len(list))
    OBVIOUS
  <2>. HIDE DEF P
  <2>. QED
    BY <1>1, <1>3, <2>1, PrefixCounts
<1>5. \A i \in 1 .. Len(list) : i \in P <=> i <= n
  <2>. HIDE DEF P, n
  <2>. QED
    BY <1>4
<1>. QED
  BY <1>2, <1>4, <1>5

\* Inserting an element is a splice.
LEMMA InsertIsSplice ==
    ASSUME NEW list \in Lists, NEW n \in 0 .. Len(list), NEW x \in Blocks \X Blocks
    PROVE  IsSplice(InsertAt(list, n + 1, x), list, n, n + 1, x)
<1>1. Len(list) \in Nat
  BY EndsAreBlocks
<1>. DEFINE front == SubSeq(list, 1, n)
            back == SubSeq(list, n + 1, Len(list))
            new == (front \o <<x>>) \o back
<1>2. /\ front \in Lists /\ Len(front) = n
      /\ \A i \in 1 .. n : front[i] = list[i]
  BY <1>1 DEF Lists
<1>3. /\ back \in Lists /\ Len(back) = Len(list) - n
      /\ \A i \in 1 .. Len(list) - n : back[i] = list[n + i]
  BY <1>1, SMTT(30) DEF Lists
<1>. HIDE DEF front, back
<1>4. /\ front \o <<x>> \in Lists /\ Len(front \o <<x>>) = n + 1
      /\ \A i \in 1 .. n : (front \o <<x>>)[i] = front[i]
      /\ (front \o <<x>>)[n + 1] = x
  BY <1>1, <1>2 DEF Lists
<1>. DEFINE two == front \o <<x>>
<1>. HIDE DEF two
<1>5. /\ two \o back \in Lists /\ Len(two \o back) = n + 1 + Len(back)
      /\ \A i \in 1 .. n + 1 : (two \o back)[i] = two[i]
      /\ \A i \in n + 2 .. n + 1 + Len(back) : (two \o back)[i] = back[i - (n + 1)]
  <2>1. two \in Lists /\ Len(two) = n + 1
    BY <1>4 DEF two
  <2>2. /\ two \o back \in Lists /\ Len(two \o back) = Len(two) + Len(back)
        /\ \A i \in 1 .. Len(two) + Len(back) :
             (two \o back)[i] = IF i <= Len(two) THEN two[i] ELSE back[i - Len(two)]
    BY <1>3, <2>1, ConcatProperties DEF Lists
  <2>3. Len(back) \in Nat
    BY <1>3, EndsAreBlocks
  <2>. QED
    BY <1>1, <2>1, <2>2, <2>3
<1>6. new = two \o back
  BY DEF two
<1>7. /\ new \in Lists /\ Len(new) = n + 1 + (Len(list) - (n + 1) + 1)
      /\ \A i \in 1 .. n : new[i] = list[i]
      /\ new[n + 1] = x
  BY <1>1, <1>2, <1>3, <1>4, <1>5, <1>6 DEF two
<1>8. ASSUME NEW i \in n + 1 .. Len(list) PROVE new[i - (n + 1) + n + 2] = list[i]
  <2>1. /\ i - n \in 1 .. Len(list) - n /\ n + (i - n) = i
        /\ i - (n + 1) + n + 2 = i + 1 /\ (i + 1) - (n + 1) = i - n
        /\ i + 1 \in n + 2 .. n + 1 + Len(back)
    BY <1>1, <1>3
  <2>2. new[i + 1] = back[i - n]
    BY <1>5, <1>6, <2>1
  <2>3. back[i - n] = list[i]
    BY <1>3, <2>1
  <2>. QED
    BY <2>1, <2>2, <2>3
<1>9. InsertAt(list, n + 1, x) = new
  <2>1. (n + 1) - 1 = n
    BY <1>1
  <2>. QED
    BY <2>1, Zenon DEF InsertAt, front, back
<1>. HIDE DEF new
<1>. QED
  BY <1>7, <1>8, <1>9 DEF IsSplice

\* So is replacing one.
LEMMA ReplaceIsSplice ==
    ASSUME NEW list \in Lists, NEW n \in 1 .. Len(list), NEW x \in Blocks \X Blocks
    PROVE  IsSplice([list EXCEPT ![n] = x], list, n - 1, n + 1, x)
<1>1. Len(list) \in Nat
  BY EndsAreBlocks
<1>. DEFINE new == [list EXCEPT ![n] = x]
<1>2. /\ new \in Lists /\ Len(new) = Len(list)
      /\ new[n] = x
      /\ \A i \in 1 .. Len(list) : i # n => new[i] = list[i]
  BY <1>1 DEF Lists
<1>. HIDE DEF new
<1>3. Len(new) = n - 1 + 1 + (Len(list) - (n + 1) + 1)
  BY <1>1, <1>2
<1>4. \A i \in 1 .. n - 1 : new[i] = list[i]
  BY <1>1, <1>2
<1>5. n - 1 + 1 = n
  BY <1>1
<1>6. ASSUME NEW i \in n + 1 .. Len(list) PROVE new[i - (n + 1) + (n - 1) + 2] = list[i]
  <2>1. i \in 1 .. Len(list) /\ i # n /\ i - (n + 1) + (n - 1) + 2 = i
    BY <1>1
  <2>. QED
    BY <1>2, <2>1
<1>. QED
  BY <1>2, <1>3, <1>4, <1>5, <1>6 DEF IsSplice, new

\* So is joining two.
LEMMA JoinIsSplice ==
    ASSUME NEW list \in Lists, NEW n \in 1 .. Len(list) - 1, NEW x \in Blocks \X Blocks
    PROVE  IsSplice(RemoveAt([list EXCEPT ![n] = x], n + 1), list, n - 1, n + 2, x)
<1>1. Len(list) \in Nat /\ n \in 1 .. Len(list)
  BY EndsAreBlocks
<1>. DEFINE old == [list EXCEPT ![n] = x]
<1>2. /\ old \in Lists /\ Len(old) = Len(list)
      /\ old[n] = x
      /\ \A i \in 1 .. Len(list) : i # n => old[i] = list[i]
  BY <1>1 DEF Lists
<1>. DEFINE front == SubSeq(old, 1, n)
            back == SubSeq(old, n + 2, Len(list))
            new == front \o back
<1>. HIDE DEF old
<1>3. /\ front \in Lists /\ Len(front) = n
      /\ \A i \in 1 .. n : front[i] = old[i]
  BY <1>1, <1>2 DEF Lists
<1>4. /\ back \in Lists /\ Len(back) = Len(list) - (n + 1)
      /\ \A i \in 1 .. Len(list) - (n + 1) : back[i] = old[n + 1 + i]
  BY <1>1, <1>2 DEF Lists
<1>. HIDE DEF front, back
<1>5. /\ new \in Lists /\ Len(new) = n + Len(back)
      /\ \A i \in 1 .. n : new[i] = front[i]
      /\ \A i \in n + 1 .. n + Len(back) : new[i] = back[i - n]
  <2>1. /\ new \in Lists /\ Len(new) = Len(front) + Len(back)
        /\ \A i \in 1 .. Len(front) + Len(back) :
             new[i] = IF i <= Len(front) THEN front[i] ELSE back[i - Len(front)]
    BY <1>3, <1>4, ConcatProperties DEF Lists
  <2>2. Len(back) \in Nat
    BY <1>4, EndsAreBlocks
  <2>. HIDE DEF new
  <2>. QED
    BY <1>1, <1>3, <2>1, <2>2
<1>. HIDE DEF new
<1>6. Len(new) = n - 1 + 1 + (Len(list) - (n + 2) + 1)
  BY <1>1, <1>4, <1>5
<1>7. ASSUME NEW i \in 1 .. n - 1 PROVE new[i] = list[i]
  <2>1. i \in 1 .. n /\ i \in 1 .. Len(list) /\ i # n
    BY <1>1
  <2>. QED
    BY <1>2, <1>3, <1>5, <2>1
<1>8. n - 1 + 1 = n /\ n \in 1 .. n
  BY <1>1
<1>9. new[n - 1 + 1] = x
  BY <1>2, <1>3, <1>5, <1>8
<1>10. ASSUME NEW i \in n + 2 .. Len(list) PROVE new[i - (n + 2) + (n - 1) + 2] = list[i]
  <2>1. /\ i - (n + 1) \in 1 .. Len(list) - (n + 1) /\ n + 1 + (i - (n + 1)) = i
        /\ i - (n + 2) + (n - 1) + 2 = i - 1 /\ (i - 1) - n = i - (n + 1)
    BY <1>1
  <2>2. i - 1 \in n + 1 .. n + Len(back)
    BY <1>1, <1>4
  <2>3. i \in 1 .. Len(list) /\ i # n
    BY <1>1
  <2>4. new[i - 1] = back[i - (n + 1)]
    BY <1>5, <2>1, <2>2
  <2>5. back[i - (n + 1)] = old[i]
    BY <1>4, <2>1
  <2>. QED
    BY <1>2, <2>1, <2>3, <2>4, <2>5
<1>11. RemoveAt(old, n + 1) = new
  <2>1. (n + 1) - 1 = n /\ (n + 1) + 1 = n + 2
    BY <1>1
  <2>. QED
    BY <1>2, <2>1, Zenon DEF RemoveAt, front, back, new
<1>12. IsSplice(new, list, n - 1, n + 2, x)
  BY <1>5, <1>6, <1>7, <1>9, <1>10 DEF IsSplice
<1>. QED
  BY <1>11, <1>12 DEF old

\* An interval with another end.
LEMMA EndChanges ==
    ASSUME NEW v \in Blocks \X Blocks, NEW b
    PROVE  /\ [v EXCEPT ![2] = b] = <<Start(v), b>>
           /\ [v EXCEPT ![1] = b] = <<b, End(v)>>
<1>1. PICK x \in Blocks, y \in Blocks : v = <<x, y>>
  OBVIOUS
<1>2. [<<x, y>> EXCEPT ![2] = b] = <<x, b>> /\ [<<x, y>> EXCEPT ![1] = b] = <<b, y>>
  OBVIOUS
<1>. QED
  BY <1>1, <1>2 DEF Start, End

\* A block that is inserted is added to the list, and the list stays valid.
LEMMA InsertBlockIsExact ==
    ASSUME NEW list \in Lists, IsValid(list), NEW b \in Blocks
    PROVE  /\ InsertBlock(list, b) \in Lists
           /\ IsValid(InsertBlock(list, b))
           /\ Coverage(InsertBlock(list, b)) = Coverage(list) \cup {b}
<1>. DEFINE new == InsertBlock(list, b)
            n == Place(list, b)
            L == Len(list)
            joinsLeft == n > 0 /\ End(list[n]) + 1 = b
            joinsRight == n < L /\ b + 1 = Start(list[n + 1])
            S(i) == Start(list[i])
            E(i) == End(list[i])
<1>1. L \in Nat /\ n \in 0 .. L
  BY EndsAreBlocks, PlaceSplits
<1>2. /\ \A i \in 1 .. L : S(i) \in Nat /\ E(i) \in Nat /\ S(i) \in Blocks /\ E(i) \in Blocks
                          /\ list[i] \in Blocks \X Blocks /\ list[i] = <<S(i), E(i)>>
      /\ b \in Nat
  BY EndsAreBlocks, BlocksAreNumbers
<1>3. \A i \in 1 .. L : S(i) <= b <=> i <= n
  BY PlaceSplits
<1>4. \A i \in 1 .. L : S(i) <= E(i)
  BY EndsAreBlocks DEF IsValid
<1>5. \A j \in 1 .. L : \A i \in 1 .. j - 1 : E(i) < S(j)
  BY ValidOrder
<1>6. new = IF n > 0 /\ E(n) >= b THEN list
            ELSE CASE joinsLeft /\ joinsRight ->
                        RemoveAt([list EXCEPT ![n][2] = E(n + 1)], n + 1)
                   [] joinsLeft /\ ~joinsRight -> [list EXCEPT ![n][2] = b]
                   [] ~joinsLeft /\ joinsRight -> [list EXCEPT ![n + 1][1] = b]
                   [] OTHER -> InsertAt(list, n + 1, <<b, b>>)
  BY Zenon DEF InsertBlock
<1>. DEFINE In(i, c) == S(i) <= c /\ c <= E(i)
<1>7. \A c \in Int : c \in Coverage(list) <=> \E i \in 1 .. L : In(i, c)
  <2>1. \A c \in Int : c \in Coverage(list) <=> Holds(list, c)
    BY CoverageHolds
  <2>2. \A c : Holds(list, c) <=> \E i \in 1 .. L : In(i, c)
    BY EndsAreBlocks DEF Holds
  <2>. QED
    BY <2>1, <2>2
<1>. DEFINE Fits(p, q, first, last) == /\ first <= last
                                       /\ p > 0 => E(p) < first
                                       /\ q <= L => last < S(q)
            Adds(p, q, first, last) ==
              \A c \in Int : (\E i \in p + 1 .. q - 1 : In(i, c)) \/ c = b
                               <=> first <= c /\ c <= last
            Good == new \in Lists /\ IsValid(new) /\ Coverage(new) = Coverage(list) \cup {b}
<1>8. ASSUME NEW p \in 0 .. L, NEW q \in p + 1 .. L + 1, NEW first \in Blocks, NEW last \in Blocks,
             IsSplice(new, list, p, q, <<first, last>>), Fits(p, q, first, last),
             Adds(p, q, first, last)
      PROVE  Good
  <2>. DEFINE x == <<first, last>>
  <2>1. x \in Blocks \X Blocks /\ Start(x) = first /\ End(x) = last
    BY DEF Start, End
  <2>. HIDE DEF x
  <2>2. IsSplice(new, list, p, q, x)
    BY <1>8 DEF x
  <2>. HIDE DEF new
  <2>3. new \in Lists
    BY <2>2 DEF IsSplice
  <2>4. IsValid(new)
    <3>1. Start(x) <= End(x) /\ (p > 0 => End(list[p]) < Start(x))
          /\ (q <= Len(list) => End(x) < Start(list[q]))
      BY <1>8, <2>1
    <3>. QED
      BY <2>1, <2>2, <3>1, SpliceValid
  <2>5. ASSUME NEW c \in Int PROVE c \in Coverage(new) <=> c \in Coverage(list) \/ c = b
    <3>0. Holds(new, c) <=> \/ \E i \in 1 .. p : Start(list[i]) <= c /\ c <= End(list[i])
                            \/ Start(x) <= c /\ c <= End(x)
                            \/ \E i \in q .. Len(list) : Start(list[i]) <= c /\ c <= End(list[i])
      <4>1. p \in 0 .. Len(list) /\ q \in p + 1 .. Len(list) + 1
        BY <1>1
      <4>2. x \in Blocks \X Blocks
        BY <2>1
      <4>3. Holds(new, c) <=> HeldAround(list, p, q, x, c)
        BY <2>2, <4>1, <4>2, SpliceHolds, Zenon
      <4>. QED
        BY <4>3 DEF HeldAround
    <3>1. Holds(new, c) <=> \/ \E i \in 1 .. p : In(i, c)
                            \/ first <= c /\ c <= last
                            \/ \E i \in q .. L : In(i, c)
      BY <2>1, <3>0
    <3>2. (\E i \in p + 1 .. q - 1 : In(i, c)) \/ c = b <=> first <= c /\ c <= last
      BY <1>8
    <3>3. \A i : i \in 1 .. L <=> i \in 1 .. p \/ i \in p + 1 .. q - 1 \/ i \in q .. L
      BY <1>1
    <3>4. c \in Coverage(new) <=> Holds(new, c)
      BY <2>3, CoverageHolds
    <3>. HIDE DEF In
    <3>. QED
      BY <1>7, <3>1, <3>2, <3>3, <3>4
  <2>6. Coverage(new) \subseteq Int /\ Coverage(list) \subseteq Int /\ b \in Int
    BY <1>2, <2>3, CoverageHolds
  <2>7. Coverage(new) = Coverage(list) \cup {b}
    BY <2>5, <2>6
  <2>. QED
    BY <2>3, <2>4, <2>7
<1>. SUFFICES Good
  OBVIOUS
<1>9. CASE n > 0 /\ E(n) >= b
  <2>1. new = list
    <3>. HIDE DEF new, n, E, joinsLeft, joinsRight
    <3>. QED
      BY <1>6, <1>9, Zenon
  <2>2. n \in 1 .. L /\ S(n) <= b /\ b <= E(n) /\ b \in Int
    BY <1>1, <1>2, <1>3, <1>9
  <2>3. b \in Coverage(list)
    BY <1>7, <2>2
  <2>. QED
    BY <2>1, <2>3
<1>10. CASE ~ (n > 0 /\ E(n) >= b)
  <2>. HIDE DEF new, n
  <2>1. n > 0 => n \in 1 .. L /\ E(n) < b /\ S(n) <= b
    BY <1>1, <1>2, <1>3, <1>10
  <2>2. n < L => n + 1 \in 1 .. L /\ b < S(n + 1)
    BY <1>1, <1>2, <1>3
  <2>3. n > 1 => n - 1 \in 1 .. L /\ E(n - 1) < S(n)
    BY <1>1, <1>5
  <2>4. n + 1 < L => n + 2 \in 1 .. L /\ E(n + 1) < S(n + 2)
    BY <1>1, <1>5
  <2>5. CASE joinsLeft /\ joinsRight
    <3>. n \in 1 .. L - 1 /\ n \in 1 .. L /\ n + 1 \in 1 .. L
      BY <1>1, <2>5
    <3>1. new = RemoveAt([list EXCEPT ![n][2] = E(n + 1)], n + 1)
      BY <1>6, <1>10, <2>5
    <3>2. [list EXCEPT ![n][2] = E(n + 1)] = [list EXCEPT ![n] = <<S(n), E(n + 1)>>]
      <4>1. list[n] \in Blocks \X Blocks
        BY <1>2
      <4>. QED
        BY <4>1, EndChanges, ZenonT(40)
    <3>3. <<S(n), E(n + 1)>> \in Blocks \X Blocks
      BY <1>2
    <3>4. IsSplice(new, list, n - 1, n + 2, <<S(n), E(n + 1)>>)
      BY <3>1, <3>2, <3>3, JoinIsSplice
    <3>5. n - 1 \in 0 .. L /\ n + 2 \in (n - 1) + 1 .. L + 1
      BY <1>1
    <3>6. Fits(n - 1, n + 2, S(n), E(n + 1))
      <4>1. S(n) \in Nat /\ S(n + 1) \in Nat /\ E(n + 1) \in Nat /\ S(n + 1) <= E(n + 1)
        BY <1>2, <1>4
      <4>2. S(n) <= E(n + 1)
        BY <1>1, <1>2, <2>1, <2>2, <4>1
      <4>3. n - 1 > 0 => E(n - 1) < S(n)
        BY <1>1, <2>3
      <4>4. n + 2 <= L => E(n + 1) < S(n + 2)
        BY <1>1, <2>4
      <4>. QED
        BY <4>2, <4>3, <4>4
    <3>7. ASSUME NEW c \in Int
          PROVE  (\E i \in (n - 1) + 1 .. (n + 2) - 1 : In(i, c)) \/ c = b
                   <=> S(n) <= c /\ c <= E(n + 1)
      <4>1. \A i : i \in (n - 1) + 1 .. (n + 2) - 1 <=> i = n \/ i = n + 1
        BY <1>1
      <4>2. (\E i \in (n - 1) + 1 .. (n + 2) - 1 : In(i, c)) <=> In(n, c) \/ In(n + 1, c)
        BY <4>1
      <4>3. E(n) + 1 = b /\ b + 1 = S(n + 1) /\ S(n) <= E(n) /\ S(n + 1) <= E(n + 1)
        BY <1>4, <2>5
      <4>4. S(n) \in Nat /\ E(n) \in Nat /\ S(n + 1) \in Nat /\ E(n + 1) \in Nat
        BY <1>2
      <4>. QED
        BY <1>2, <4>2, <4>3, <4>4, SMTT(30)
    <3>8. Adds(n - 1, n + 2, S(n), E(n + 1))
      BY <3>7
    <3>. HIDE DEF Fits, Adds, Good, In, S, E
    <3>. QED
      BY <1>2, <1>8, <3>4, <3>5, <3>6, <3>8
  <2>6. CASE joinsLeft /\ ~joinsRight
    <3>. n \in 1 .. L
      BY <1>1, <2>6
    <3>1. new = [list EXCEPT ![n][2] = b]
      BY <1>6, <1>10, <2>6
    <3>2. [list EXCEPT ![n][2] = b] = [list EXCEPT ![n] = <<S(n), b>>]
      <4>1. list[n] \in Blocks \X Blocks
        BY <1>2
      <4>. QED
        BY <4>1, EndChanges, ZenonT(30)
    <3>3. <<S(n), b>> \in Blocks \X Blocks
      BY <1>2
    <3>4. IsSplice(new, list, n - 1, n + 1, <<S(n), b>>)
      BY <3>1, <3>2, <3>3, ReplaceIsSplice
    <3>5. n - 1 \in 0 .. L /\ n + 1 \in (n - 1) + 1 .. L + 1
      BY <1>1
    <3>6. Fits(n - 1, n + 1, S(n), b)
      BY <1>1, <1>2, <2>1, <2>2, <2>3
    <3>7. ASSUME NEW c \in Int
          PROVE  (\E i \in (n - 1) + 1 .. (n + 1) - 1 : In(i, c)) \/ c = b
                   <=> S(n) <= c /\ c <= b
      <4>1. \A i : i \in (n - 1) + 1 .. (n + 1) - 1 <=> i = n
        BY <1>1
      <4>2. (\E i \in (n - 1) + 1 .. (n + 1) - 1 : In(i, c)) <=> In(n, c)
        BY <4>1
      <4>3. E(n) + 1 = b /\ S(n) <= E(n)
        BY <1>4, <2>6
      <4>4. S(n) \in Nat /\ E(n) \in Nat
        BY <1>2
      <4>. QED
        BY <1>2, <4>2, <4>3, <4>4
    <3>8. Adds(n - 1, n + 1, S(n), b)
      BY <3>7
    <3>. HIDE DEF Fits, Adds, Good, In, S, E
    <3>. QED
      BY <1>2, <1>8, <3>4, <3>5, <3>6, <3>8
  <2>7. CASE ~joinsLeft /\ joinsRight
    <3>. n + 1 \in 1 .. L
      BY <1>1, <2>7
    <3>1. new = [list EXCEPT ![n + 1][1] = b]
      BY <1>6, <1>10, <2>7
    <3>2. [list EXCEPT ![n + 1][1] = b] = [list EXCEPT ![n + 1] = <<b, E(n + 1)>>]
      <4>1. list[n + 1] \in Blocks \X Blocks
        BY <1>2
      <4>. QED
        BY <4>1, EndChanges
    <3>3. <<b, E(n + 1)>> \in Blocks \X Blocks
      BY <1>2
    <3>4. IsSplice(new, list, (n + 1) - 1, (n + 1) + 1, <<b, E(n + 1)>>)
      BY <3>1, <3>2, <3>3, ReplaceIsSplice
    <3>5. (n + 1) - 1 = n /\ (n + 1) + 1 = n + 2 /\ n \in 0 .. L /\ n + 2 \in n + 1 .. L + 1
      BY <1>1
    <3>6. Fits(n, n + 2, b, E(n + 1))
      BY <1>1, <1>2, <1>4, <2>1, <2>2, <2>4
    <3>7. ASSUME NEW c \in Int
          PROVE  (\E i \in n + 1 .. (n + 2) - 1 : In(i, c)) \/ c = b
                   <=> b <= c /\ c <= E(n + 1)
      <4>1. \A i : i \in n + 1 .. (n + 2) - 1 <=> i = n + 1
        BY <1>1
      <4>2. (\E i \in n + 1 .. (n + 2) - 1 : In(i, c)) <=> In(n + 1, c)
        BY <4>1
      <4>3. b + 1 = S(n + 1) /\ S(n + 1) <= E(n + 1)
        BY <1>4, <2>7
      <4>4. S(n + 1) \in Nat /\ E(n + 1) \in Nat
        BY <1>2
      <4>. QED
        BY <1>2, <4>2, <4>3, <4>4
    <3>8. IsSplice(new, list, n, n + 2, <<b, E(n + 1)>>)
      BY <3>4, <3>5
    <3>9. Adds(n, n + 2, b, E(n + 1))
      BY <3>7
    <3>. HIDE DEF Fits, Adds, Good, In, S, E
    <3>. QED
      BY <1>2, <1>8, <3>5, <3>6, <3>8, <3>9
  <2>8. CASE ~joinsLeft /\ ~joinsRight
    <3>1. new = InsertAt(list, n + 1, <<b, b>>)
      BY <1>6, <1>10, <2>8
    <3>2. IsSplice(new, list, n, n + 1, <<b, b>>)
      BY <1>1, <3>1, InsertIsSplice
    <3>3. n + 1 \in n + 1 .. L + 1
      BY <1>1
    <3>4. Fits(n, n + 1, b, b)
      BY <1>1, <1>2, <2>1, <2>2
    <3>5. ASSUME NEW c \in Int
          PROVE  (\E i \in n + 1 .. (n + 1) - 1 : In(i, c)) \/ c = b <=> b <= c /\ c <= b
      <4>1. \A i : i \notin n + 1 .. (n + 1) - 1
        BY <1>1
      <4>. HIDE DEF In
      <4>. QED
        BY <1>2, <4>1
    <3>6. Adds(n, n + 1, b, b)
      BY <3>5
    <3>. HIDE DEF Fits, Adds, Good, In, S, E
    <3>. QED
      BY <1>1, <1>8, <3>2, <3>3, <3>4, <3>6
  <2>. QED
    BY <2>5, <2>6, <2>7, <2>8
<1>. QED
  BY <1>9, <1>10

-----------------------------------------------------------------------------
(* Joining what overlaps *)

\* What the loop of consolidate does with the next interval.
Joined(merged, v) ==
    IF merged # <<>> /\ Start(v) <= End(Last(merged)) + 1
    THEN [merged EXCEPT ![Len(merged)] = <<Start(@), MergedEnd(@, v)>>]
    ELSE Append(merged, v)

\* The intervals run forward, and each begins no earlier than the one before it.
IsAscending(raw) ==
    /\ \A i \in 1 .. Len(raw) : Start(raw[i]) <= End(raw[i])
    /\ \A i \in 1 .. Len(raw) - 1 : Start(raw[i]) <= Start(raw[i + 1])

\* The loop goes through the list from the front.
LEMMA ConsolidateUnfolds ==
    ASSUME NEW raw \in Lists
    PROVE  \E h : /\ h[0] = <<>>
                  /\ \A k \in 1 .. Len(raw) : h[k] = Joined(h[k - 1], raw[k])
                  /\ Consolidate(raw) = h[Len(raw)]
<1>. DEFINE n == Len(raw)
            op == [p \in Lists \X (1 .. n) |-> Joined(p[1], raw[p[2]])]
<1>1. n \in Nat /\ DOMAIN raw = 1 .. n /\ \A i \in 1 .. n : raw[i] \in Blocks \X Blocks
  BY EndsAreBlocks
<1>2. ASSUME NEW merged \in Lists, NEW v \in Blocks \X Blocks PROVE Joined(merged, v) \in Lists
  <2>1. CASE merged # <<>> /\ Start(v) <= End(Last(merged)) + 1
    <3>1. Len(merged) \in 1 .. Len(merged) /\ Len(merged) \in Nat
      BY <2>1 DEF Lists
    <3>. DEFINE w == merged[Len(merged)]
    <3>2. w \in Blocks \X Blocks
      BY <3>1, EndsAreBlocks
    <3>3. Start(w) \in Blocks /\ MergedEnd(w, v) \in Blocks
      BY <3>2, BlocksAreNumbers DEF MergedEnd
    <3>4. Joined(merged, v) = [merged EXCEPT ![Len(merged)] = <<Start(w), MergedEnd(w, v)>>]
      BY <2>1 DEF Joined
    <3>. HIDE DEF w
    <3>5. <<Start(w), MergedEnd(w, v)>> \in Blocks \X Blocks
      BY <3>3
    <3>. QED
      BY <3>1, <3>4, <3>5, ExceptSeq DEF Lists
  <2>2. CASE ~ (merged # <<>> /\ Start(v) <= End(Last(merged)) + 1)
    <3>1. Joined(merged, v) = Append(merged, v)
      BY <2>2 DEF Joined
    <3>. QED
      BY <3>1 DEF Lists
  <2>. QED
    BY <2>1, <2>2
<1>3. op \in [Lists \X (1 .. n) -> Lists]
  BY <1>1, <1>2
<1>4. <<>> \in Lists
  BY DEF Lists
<1>5. PICK f \in [SUBSET (1 .. n) -> Lists] : IsFoldOf(f, <<>>, op, n)
  <2>. HIDE DEF op, n
  <2>. QED
    BY <1>1, <1>3, <1>4, FoldExists
<1>. DEFINE Loop(g, s) == IF s = {} THEN <<>> ELSE Joined(g[s \ {Max(s)}], raw[Max(s)])
            Loops(g) == g = [s \in SUBSET (1 .. n) |-> Loop(g, s)]
            g == CHOOSE g : Loops(g)
<1>6. Consolidate(raw) = g[1 .. n]
  <2>1. Consolidate(raw)
          = (CHOOSE it : it = [s \in SUBSET DOMAIN raw |-> Loop(it, s)])[DOMAIN raw]
    BY Zenon DEF Consolidate, FoldLeft, MapThenFoldSet, Joined
  <2>. HIDE DEF Loop
  <2>. QED
    BY <1>1, <2>1, Zenon
<1>7. ASSUME NEW s \in SUBSET (1 .. n) PROVE f[s] = Loop(f, s)
  <2>1. CASE s = {}
    BY <1>5, <2>1 DEF IsFoldOf
  <2>2. CASE s # {}
    <3>1. PICK m \in s : \A i \in s : i <= m
      BY <1>1, <2>2, LargestExists
    <3>2. Max(s) = m
      <4>1. s \in SUBSET Nat
        BY <1>1
      <4>. QED
        BY <3>1, <4>1, LargestIsMax
    <3>3. f[s] = op[<<f[s \ {m}], m>>]
      BY <1>5, <3>1 DEF IsFoldOf
    <3>4. f[s \ {m}] \in Lists /\ m \in 1 .. n
      BY <1>5, <3>1
    <3>5. op[<<f[s \ {m}], m>>] = Joined(f[s \ {m}], raw[m])
      <4>. HIDE DEF n
      <4>. QED
        BY <3>4
    <3>. QED
      BY <2>2, <3>2, <3>3, <3>5
  <2>. QED
    BY <2>1, <2>2
<1>. HIDE DEF Loop, n, op
<1>8. Loops(f)
  BY <1>5, <1>7
<1>9. Loops(g)
  <2>. HIDE DEF Loops
  <2>. QED
    BY <1>8, Zenon
<1>. HIDE DEF g
<1>10. \A s \in SUBSET (1 .. n) : g[s] = Loop(g, s)
  BY <1>9
<1>. DEFINE h == [k \in 0 .. n |-> g[1 .. k]]
<1>11. h[0] = <<>>
  <2>1. 1 .. 0 = {} /\ 0 \in 0 .. n
    BY <1>1 DEF n
  <2>. QED
    BY <1>10, <2>1 DEF Loop
<1>12. ASSUME NEW k \in 1 .. n PROVE h[k] = Joined(h[k - 1], raw[k])
  <2>0. n \in Nat
    BY <1>1 DEF n
  <2>1. 1 .. k \in SUBSET (1 .. n) /\ k \in 1 .. k /\ (1 .. k) \ {k} = 1 .. k - 1 /\ 1 .. k # {}
    BY <2>0
  <2>2. Max(1 .. k) = k
    <3>1. 1 .. k \in SUBSET Nat /\ \A i \in 1 .. k : i <= k
      BY <2>0
    <3>. QED
      BY <2>1, <3>1, LargestIsMax
  <2>3. g[1 .. k] = Joined(g[1 .. k - 1], raw[k])
    BY <1>10, <2>1, <2>2 DEF Loop
  <2>4. k \in 0 .. n /\ k - 1 \in 0 .. n
    BY <2>0
  <2>. QED
    BY <2>3, <2>4
<1>13. Consolidate(raw) = h[n]
  <2>1. n \in 0 .. n
    BY <1>1 DEF n
  <2>. QED
    BY <1>6, <2>1
<1>. HIDE DEF h
<1>. QED
  BY <1>11, <1>12, <1>13 DEF n

\* Appending an element is a splice.
LEMMA AppendIsSplice ==
    ASSUME NEW list \in Lists, NEW v \in Blocks \X Blocks
    PROVE  IsSplice(Append(list, v), list, Len(list), Len(list) + 1, v)
<1>1. Len(list) \in Nat
  BY EndsAreBlocks
<1>2. /\ Append(list, v) \in Lists /\ Len(Append(list, v)) = Len(list) + 1
      /\ \A i \in 1 .. Len(list) : Append(list, v)[i] = list[i]
      /\ Append(list, v)[Len(list) + 1] = v
  BY DEF Lists
<1>3. Len(Append(list, v)) = Len(list) + 1 + (Len(list) - (Len(list) + 1) + 1)
  BY <1>1, <1>2
<1>4. \A i : i \notin Len(list) + 1 .. Len(list)
  BY <1>1
<1>. QED
  BY <1>2, <1>3, <1>4 DEF IsSplice

\* One turn of the loop adds the interval to what was joined before.
LEMMA JoinedIsExact ==
    ASSUME NEW merged \in Lists, IsValid(merged), NEW v \in Blocks \X Blocks, Start(v) <= End(v),
           merged # <<>> => Start(Last(merged)) <= Start(v)
    PROVE  /\ Joined(merged, v) \in Lists
           /\ IsValid(Joined(merged, v))
           /\ Joined(merged, v) # <<>>
           /\ Start(Last(Joined(merged, v))) <= Start(v)
           /\ \A c \in Int : Holds(Joined(merged, v), c)
                               <=> Holds(merged, c) \/ (Start(v) <= c /\ c <= End(v))
<1>. DEFINE n == Len(merged)
            w == merged[n]
            new == Joined(merged, v)
            Holding(c) == Holds(merged, c) \/ (Start(v) <= c /\ c <= End(v))
<1>1. n \in Nat /\ DOMAIN merged = 1 .. n /\ (merged = <<>> <=> n = 0)
  BY EndsAreBlocks, EmptySeq DEF Lists
<1>2. Start(v) \in Nat /\ End(v) \in Nat
  BY BlocksAreNumbers
<1>3. ASSUME NEW p \in 0 .. n, NEW x \in Blocks \X Blocks, IsSplice(new, merged, p, n + 1, x)
      PROVE  new \in Lists /\ Len(new) = p + 1 /\ Last(new) = x /\ new # <<>>
  <2>1. new \in Lists /\ Len(new) = p + 1 + (n - (n + 1) + 1) /\ new[p + 1] = x
    BY <1>3 DEF IsSplice
  <2>2. Len(new) = p + 1 /\ Len(new) # 0
    BY <1>1, <2>1
  <2>. HIDE DEF new
  <2>. QED
    BY <2>1, <2>2, EmptySeq DEF Last, Lists
<1>4. \A i : i \notin n + 1 .. Len(merged)
  BY <1>1
<1>5. \A c : Holds(merged, c) <=> \E i \in 1 .. n : Start(merged[i]) <= c /\ c <= End(merged[i])
  BY <1>1 DEF Holds
<1>6. CASE merged # <<>> /\ Start(v) <= End(w) + 1
  <2>. DEFINE x == <<Start(w), MergedEnd(w, v)>>
  <2>1. n \in 1 .. n /\ w = Last(merged)
    BY <1>1, <1>6 DEF Last
  <2>2. w \in Blocks \X Blocks /\ Start(w) \in Nat /\ End(w) \in Nat
        /\ Start(w) \in Blocks /\ End(w) \in Blocks /\ End(v) \in Blocks
    BY <2>1, EndsAreBlocks, BlocksAreNumbers
  <2>3. Start(w) <= End(w) /\ Start(w) <= Start(v)
    BY <1>1, <1>6, <2>1 DEF IsValid
  <2>4. new = [merged EXCEPT ![n] = x]
    BY <1>6, <2>1 DEF Joined
  <2>. HIDE DEF w
  <2>5. /\ x \in Blocks \X Blocks /\ Start(x) = Start(w) /\ End(x) = MergedEnd(w, v)
        /\ MergedEnd(w, v) \in Nat
    BY <2>2, BlocksAreNumbers DEF Start, End, MergedEnd
  <2>. HIDE DEF new, x
  <2>6. IsSplice(new, merged, n - 1, n + 1, x)
    <3>1. n \in 1 .. Len(merged)
      BY <2>1
    <3>2. IsSplice([merged EXCEPT ![n] = x], merged, n - 1, n + 1, x)
      BY <2>5, <3>1, ReplaceIsSplice
    <3>. QED
      BY <2>4, <3>2
  <2>7. n - 1 \in 0 .. n /\ n + 1 \in (n - 1) + 1 .. n + 1
    BY <1>1, <2>1
  <2>8. new \in Lists /\ Last(new) = x /\ new # <<>>
    BY <1>3, <2>5, <2>6, <2>7
  <2>9. End(w) <= MergedEnd(w, v) /\ End(v) <= MergedEnd(w, v)
        /\ (MergedEnd(w, v) = End(w) \/ MergedEnd(w, v) = End(v))
    BY <1>2, <2>2 DEF MergedEnd
  <2>10. IsValid(new)
    <3>1. Start(x) <= End(x)
      BY <2>2, <2>3, <2>5, <2>9
    <3>2. ASSUME n - 1 > 0 PROVE End(merged[n - 1]) < Start(x)
      <4>1. n - 1 \in 1 .. n - 1 /\ n \in 1 .. n
        BY <1>1, <3>2
      <4>2. End(merged[n - 1]) < Start(w)
        BY <4>1, ValidOrder DEF w
      <4>. QED
        BY <2>5, <4>2
    <3>3. ~ (n + 1 <= n)
      BY <1>1
    <3>. QED
      BY <2>5, <2>6, <2>7, <3>1, <3>2, <3>3, SpliceValid
  <2>11. ASSUME NEW c \in Int PROVE Holds(new, c) <=> Holding(c)
    <3>1. Holds(new, c) <=> \/ \E i \in 1 .. n - 1 : Start(merged[i]) <= c /\ c <= End(merged[i])
                            \/ Start(x) <= c /\ c <= End(x)
                            \/ \E i \in n + 1 .. Len(merged) :
                                 Start(merged[i]) <= c /\ c <= End(merged[i])
      <4>1. Holds(new, c) <=> HeldAround(merged, n - 1, n + 1, x, c)
        BY <2>5, <2>6, <2>7, SpliceHolds, Zenon
      <4>. QED
        BY <4>1 DEF HeldAround
    <3>2. \A i : i \in 1 .. n <=> i \in 1 .. n - 1 \/ i = n
      BY <1>1, <2>1
    <3>3. Holds(merged, c) <=> \/ \E i \in 1 .. n - 1 : Start(merged[i]) <= c /\ c <= End(merged[i])
                               \/ Start(w) <= c /\ c <= End(w)
      BY <1>5, <3>2 DEF w
    <3>4. Start(x) <= c /\ c <= End(x)
            <=> (Start(w) <= c /\ c <= End(w)) \/ (Start(v) <= c /\ c <= End(v))
      BY <1>2, <1>6, <2>2, <2>3, <2>5, <2>9
    <3>. QED
      BY <1>4, <3>1, <3>3, <3>4
  <2>. QED
    BY <2>3, <2>5, <2>8, <2>10, <2>11 DEF new
<1>7. CASE ~ (merged # <<>> /\ Start(v) <= End(w) + 1)
  <2>1. new = Append(merged, v)
    BY <1>7 DEF Joined, Last
  <2>2. IsSplice(new, merged, n, n + 1, v)
    BY <2>1, AppendIsSplice
  <2>. HIDE DEF new
  <2>3. n \in 0 .. n /\ n + 1 \in n + 1 .. n + 1
    BY <1>1
  <2>4. new \in Lists /\ Last(new) = v /\ new # <<>>
    BY <1>3, <2>2, <2>3
  <2>5. IsValid(new)
    <3>1. ASSUME n > 0 PROVE End(merged[n]) < Start(v)
      <4>1. merged # <<>> /\ n \in 1 .. n
        BY <1>1, <3>1
      <4>2. End(w) \in Nat
        BY <4>1, EndsAreBlocks, BlocksAreNumbers
      <4>. QED
        BY <1>2, <1>7, <4>1, <4>2
    <3>2. ~ (n + 1 <= n)
      BY <1>1
    <3>. QED
      BY <2>2, <2>3, <3>1, <3>2, SpliceValid
  <2>6. ASSUME NEW c \in Int PROVE Holds(new, c) <=> Holding(c)
    <3>1. Holds(new, c) <=> \/ \E i \in 1 .. n : Start(merged[i]) <= c /\ c <= End(merged[i])
                            \/ Start(v) <= c /\ c <= End(v)
                            \/ \E i \in n + 1 .. Len(merged) :
                                 Start(merged[i]) <= c /\ c <= End(merged[i])
      <4>1. Holds(new, c) <=> HeldAround(merged, n, n + 1, v, c)
        BY <2>2, <2>3, SpliceHolds, Zenon
      <4>. QED
        BY <4>1 DEF HeldAround
    <3>. QED
      BY <1>4, <1>5, <3>1
  <2>7. Start(v) <= Start(v)
    BY <1>2
  <2>. QED
    BY <2>4, <2>5, <2>6, <2>7 DEF new
<1>. QED
  BY <1>6, <1>7

\* Joining changes no block of an ascending list, and makes it valid.
LEMMA ConsolidateIsExact ==
    ASSUME NEW raw \in Lists, IsAscending(raw)
    PROVE  /\ Consolidate(raw) \in Lists
           /\ IsValid(Consolidate(raw))
           /\ \A c \in Int : Holds(Consolidate(raw), c) <=> Holds(raw, c)
<1>. DEFINE n == Len(raw)
            In(i, c) == Start(raw[i]) <= c /\ c <= End(raw[i])
<1>1. n \in Nat /\ DOMAIN raw = 1 .. n
      /\ \A i \in 1 .. n : raw[i] \in Blocks \X Blocks /\ Start(raw[i]) \in Nat
  BY EndsAreBlocks, BlocksAreNumbers
<1>2. PICK h : /\ h[0] = <<>>
               /\ \A k \in 1 .. n : h[k] = Joined(h[k - 1], raw[k])
               /\ Consolidate(raw) = h[n]
  BY ConsolidateUnfolds
<1>. DEFINE Inv(k) == /\ h[k] \in Lists /\ IsValid(h[k])
                      /\ h[k] # <<>> => k > 0 /\ Start(Last(h[k])) <= Start(raw[k])
                      /\ \A c \in Int : Holds(h[k], c) <=> \E i \in 1 .. k : In(i, c)
<1>3. Inv(0)
  <2>1. <<>> \in Lists /\ DOMAIN <<>> = {} /\ Len(<<>>) = 0
    BY DEF Lists
  <2>2. IsValid(<<>>)
    BY <2>1 DEF IsValid
  <2>3. \A c : ~ Holds(<<>>, c)
    BY <2>1 DEF Holds
  <2>4. 1 .. 0 = {}
    OBVIOUS
  <2>. QED
    BY <1>2, <2>1, <2>2, <2>3, <2>4
<1>4. ASSUME NEW k \in 1 .. n, Inv(k - 1) PROVE Inv(k)
  <2>. DEFINE g == h[k - 1]
              v == raw[k]
  <2>0. k \in Nat /\ k > 0 /\ k - 1 \in 0 .. n /\ k - 1 \in Int
    BY <1>1
  <2>1. g \in Lists /\ IsValid(g) /\ v \in Blocks \X Blocks /\ h[k] = Joined(g, v)
    BY <1>1, <1>2, <1>4
  <2>2. Start(v) <= End(v)
    BY <1>1 DEF IsAscending
  <2>3. ASSUME g # <<>> PROVE Start(Last(g)) <= Start(v)
    <3>1. k - 1 > 0 /\ Start(Last(g)) <= Start(raw[k - 1])
      BY <1>4, <2>3
    <3>2. k - 1 \in 1 .. n - 1 /\ k - 1 \in 1 .. n /\ (k - 1) + 1 = k
      BY <1>1, <2>0, <3>1
    <3>3. Start(raw[k - 1]) <= Start(v)
      BY <3>2 DEF IsAscending
    <3>4. Start(Last(g)) \in Nat /\ Start(raw[k - 1]) \in Nat /\ Start(v) \in Nat
      <4>1. Len(g) \in 1 .. Len(g)
        <5>. HIDE DEF g
        <5>. QED
          BY <2>1, <2>3 DEF Lists
      <4>2. Start(g[Len(g)]) \in Blocks
        BY <2>1, <4>1, EndsAreBlocks
      <4>. QED
        BY <1>1, <3>2, <4>2, BlocksAreNumbers DEF Last
    <3>. QED
      BY <3>1, <3>3, <3>4
  <2>4. \A c \in Int : Holds(g, c) <=> \E i \in 1 .. k - 1 : In(i, c)
    BY <1>4
  <2>. HIDE DEF g
  <2>5. /\ h[k] \in Lists /\ IsValid(h[k])
        /\ Start(Last(h[k])) <= Start(v)
        /\ \A c \in Int : Holds(h[k], c) <=> Holds(g, c) \/ (Start(v) <= c /\ c <= End(v))
    BY <2>1, <2>2, <2>3, JoinedIsExact
  <2>6. ASSUME NEW c \in Int PROVE Holds(h[k], c) <=> \E i \in 1 .. k : In(i, c)
    <3>1. Holds(h[k], c) <=> Holds(g, c) \/ In(k, c)
      BY <2>5
    <3>2. \A i : i \in 1 .. k <=> i \in 1 .. k - 1 \/ i = k
      BY <2>0
    <3>. HIDE DEF In
    <3>. QED
      BY <2>4, <3>1, <3>2
  <2>. QED
    BY <2>0, <2>5, <2>6
<1>. HIDE DEF Inv
<1>5. \A k \in 0 .. n : Inv(k)
  <2>. DEFINE T == {k \in 0 .. n : ~ Inv(k)}
  <2>1. ASSUME NEW k \in T, \A m \in T : k <= m PROVE FALSE
    <3>1. k \in 1 .. n
      BY <1>1, <1>3, <2>1
    <3>2. k - 1 \in 0 .. n /\ ~ (k <= k - 1)
      BY <1>1, <3>1
    <3>3. Inv(k - 1)
      BY <2>1, <3>2
    <3>. QED
      BY <1>4, <2>1, <3>1, <3>3
  <2>2. T \subseteq Nat
    OBVIOUS
  <2>3. T = {}
    <3>. HIDE DEF T
    <3>1. T # {} => \E k \in T : \A m \in T : k <= m
      BY <2>2, LeastExists
    <3>. QED
      BY <2>1, <3>1
  <2>. QED
    BY <2>3
<1>6. Inv(n)
  BY <1>1, <1>5
<1>7. \A c : Holds(raw, c) <=> \E i \in 1 .. n : In(i, c)
  BY <1>1 DEF Holds
<1>. QED
  BY <1>2, <1>6, <1>7 DEF Inv

\* A range that is inserted adds exactly its blocks.
LEMMA InsertRangeIsExact ==
    ASSUME NEW list \in Lists, IsValid(list), NEW first \in Blocks, NEW last \in Blocks
    PROVE  /\ IsValid(InsertRange(list, first, last))
           /\ Coverage(InsertRange(list, first, last)) = Coverage(list) \cup (first .. last)
<1>1. first \in Nat /\ last \in Nat
  BY BlocksAreNumbers
<1>2. CASE first > last
  <2>1. InsertRange(list, first, last) = list /\ first .. last = {}
    BY <1>1, <1>2 DEF InsertRange
  <2>. QED
    BY <2>1
<1>3. CASE ~ (first > last)
  <2>. DEFINE n == Place(list, first)
              x == <<first, last>>
              raw == InsertAt(list, n + 1, x)
              S(i) == Start(list[i])
              E(i) == End(list[i])
  <2>1. InsertRange(list, first, last) = Consolidate(raw)
    BY <1>3 DEF InsertRange
  <2>2. x \in Blocks \X Blocks /\ Start(x) = first /\ End(x) = last /\ first <= last
    BY <1>1, <1>3 DEF Start, End
  <2>. HIDE DEF x
  <2>3. /\ n \in 0 .. Len(list) /\ Len(list) \in Nat
        /\ \A i \in 1 .. Len(list) : S(i) <= first <=> i <= n
    BY EndsAreBlocks, PlaceSplits
  <2>4. IsSplice(raw, list, n, n + 1, x)
    BY <2>2, <2>3, InsertIsSplice
  <2>. HIDE DEF n, raw
  <2>5. /\ raw \in Lists /\ Len(raw) = Len(list) + 1
        /\ \A i \in 1 .. n : raw[i] = list[i]
        /\ raw[n + 1] = x
        /\ \A i \in n + 1 .. Len(list) : raw[i + 1] = list[i]
    <3>1. Len(raw) = n + 1 + (Len(list) - (n + 1) + 1) /\ raw \in Lists
          /\ (\A i \in 1 .. n : raw[i] = list[i]) /\ raw[n + 1] = x
      BY <2>4 DEF IsSplice
    <3>2. ASSUME NEW i \in n + 1 .. Len(list) PROVE raw[i + 1] = list[i]
      <4>1. raw[i - (n + 1) + n + 2] = list[i]
        BY <2>4 DEF IsSplice
      <4>2. i - (n + 1) + n + 2 = i + 1
        BY <2>3
      <4>. QED
        BY <4>1, <4>2
    <3>. QED
      BY <2>3, <3>1, <3>2
  <2>6. \A i \in 1 .. Len(list) : S(i) \in Nat /\ E(i) \in Nat /\ S(i) <= E(i)
    BY EndsAreBlocks, BlocksAreNumbers DEF IsValid
  <2>7. \A i \in 1 .. Len(list) - 1 : S(i) <= S(i + 1)
    <3>. SUFFICES ASSUME NEW i \in 1 .. Len(list) - 1 PROVE S(i) <= S(i + 1)
      OBVIOUS
    <3>1. i + 1 \in 1 .. Len(list) /\ i \in 1 .. (i + 1) - 1 /\ i \in 1 .. Len(list)
      BY <2>3
    <3>2. E(i) < S(i + 1)
      BY <3>1, ValidOrder
    <3>. QED
      BY <2>6, <3>1, <3>2
  <2>8. ASSUME NEW j \in 1 .. Len(raw) PROVE Start(raw[j]) <= End(raw[j])
    <3>1. j \in 1 .. n \/ j = n + 1 \/ j - 1 \in n + 1 .. Len(list)
      BY <2>3, <2>5
    <3>2. CASE j \in 1 .. n
      BY <2>3, <2>5, <2>6, <3>2
    <3>3. CASE j = n + 1
      BY <2>2, <2>5, <3>3
    <3>4. CASE j - 1 \in n + 1 .. Len(list)
      <4>1. raw[(j - 1) + 1] = list[j - 1] /\ (j - 1) + 1 = j /\ j - 1 \in 1 .. Len(list)
        BY <2>3, <2>5, <3>4
      <4>. QED
        BY <2>6, <4>1
    <3>. QED
      BY <3>1, <3>2, <3>3, <3>4
  <2>9. ASSUME NEW j \in 1 .. Len(raw) - 1 PROVE Start(raw[j]) <= Start(raw[j + 1])
    <3>1. \/ j \in 1 .. n /\ j + 1 \in 1 .. n /\ j \in 1 .. Len(list) - 1
          \/ j = n /\ n \in 1 .. n /\ n \in 1 .. Len(list)
          \/ j = n + 1 /\ n + 1 \in n + 1 .. Len(list) /\ n + 1 \in 1 .. Len(list)
          \/ /\ j - 1 \in n + 1 .. Len(list) /\ j \in n + 1 .. Len(list)
             /\ j - 1 \in 1 .. Len(list) - 1
      BY <2>3, <2>5
    <3>2. CASE j \in 1 .. n /\ j + 1 \in 1 .. n /\ j \in 1 .. Len(list) - 1
      BY <2>5, <2>7, <3>2
    <3>3. CASE j = n /\ n \in 1 .. n /\ n \in 1 .. Len(list)
      <4>1. raw[j] = list[n] /\ raw[j + 1] = x /\ n <= n
        BY <2>3, <2>5, <3>3
      <4>. QED
        BY <2>2, <2>3, <3>3, <4>1
    <3>4. CASE j = n + 1 /\ n + 1 \in n + 1 .. Len(list) /\ n + 1 \in 1 .. Len(list)
      <4>1. raw[j] = x /\ raw[j + 1] = list[n + 1] /\ ~ (n + 1 <= n)
        BY <2>3, <2>5, <3>4
      <4>2. ~ (S(n + 1) <= first)
        BY <2>3, <3>4, <4>1
      <4>. QED
        BY <1>1, <2>2, <2>6, <3>4, <4>1, <4>2
    <3>5. CASE /\ j - 1 \in n + 1 .. Len(list) /\ j \in n + 1 .. Len(list)
               /\ j - 1 \in 1 .. Len(list) - 1
      <4>1. raw[(j - 1) + 1] = list[j - 1] /\ raw[j + 1] = list[j] /\ (j - 1) + 1 = j
        BY <2>5, <3>5
      <4>2. S(j - 1) <= S((j - 1) + 1)
        BY <2>7, <3>5
      <4>. QED
        BY <4>1, <4>2
    <3>. QED
      BY <3>1, <3>2, <3>3, <3>4, <3>5
  <2>10. IsAscending(raw)
    BY <2>8, <2>9 DEF IsAscending
  <2>11. /\ Consolidate(raw) \in Lists /\ IsValid(Consolidate(raw))
         /\ \A c \in Int : Holds(Consolidate(raw), c) <=> Holds(raw, c)
    BY <2>5, <2>10, ConsolidateIsExact
  <2>12. ASSUME NEW c \in Int
         PROVE  c \in Coverage(Consolidate(raw)) <=> c \in Coverage(list) \/ c \in first .. last
    <3>1. Holds(raw, c) <=> \/ \E i \in 1 .. n : Start(list[i]) <= c /\ c <= End(list[i])
                            \/ Start(x) <= c /\ c <= End(x)
                            \/ \E i \in n + 1 .. Len(list) : Start(list[i]) <= c /\ c <= End(list[i])
      <4>1. n + 1 \in n + 1 .. Len(list) + 1
        BY <2>3
      <4>. QED
        <5>1. Holds(raw, c) <=> HeldAround(list, n, n + 1, x, c)
          BY <2>2, <2>3, <2>4, <4>1, SpliceHolds, Zenon
        <5>. QED
          BY <5>1 DEF HeldAround
    <3>2. Holds(list, c) <=> \E i \in 1 .. Len(list) : Start(list[i]) <= c /\ c <= End(list[i])
      BY EndsAreBlocks DEF Holds
    <3>3. \A i : i \in 1 .. Len(list) <=> i \in 1 .. n \/ i \in n + 1 .. Len(list)
      BY <2>3
    <3>4. Holds(raw, c) <=> Holds(list, c) \/ c \in first .. last
      BY <1>1, <2>2, <3>1, <3>2, <3>3
    <3>5. /\ c \in Coverage(Consolidate(raw)) <=> Holds(Consolidate(raw), c)
          /\ c \in Coverage(list) <=> Holds(list, c)
      BY <2>11, CoverageHolds
    <3>. QED
      BY <2>11, <3>4, <3>5
  <2>13. Coverage(Consolidate(raw)) \subseteq Int /\ Coverage(list) \subseteq Int
         /\ first .. last \subseteq Int
    BY <1>1, <2>11, CoverageHolds
  <2>14. Coverage(Consolidate(raw)) = Coverage(list) \cup (first .. last)
    BY <2>12, <2>13
  <2>. QED
    BY <2>1, <2>11, <2>14
<1>. QED
  BY <1>2, <1>3

-----------------------------------------------------------------------------
(* The index while blocks are searched *)

\* A filter filled from a list knows each of its blocks, also when it is saturated.
LEMMA FilledKnows ==
    ASSUME NEW list, NEW b \in Coverage(list), b \in Blocks
    PROVE  Hashes[b] \subseteq Filled(list)
<1>1. Hashes[b] \subseteq Bits
  BY FilterAssumption
<1>2. Hashes[b] \subseteq UNION {Hashes[c] : c \in Coverage(list)}
  OBVIOUS
<1>. QED
  BY <1>1, <1>2 DEF Filled

\* A block in work is one of the blocks; the list stands for what has been searched,
\* the filter knows all of it, and the archive is one that was loaded.
IndexInv ==
    /\ phase \in {"block", "gpu"} => block \in Blocks
    /\ intervals \in Lists /\ IsValid(intervals)
    /\ Coverage(intervals) = scanned
    /\ \A b \in scanned : Hashes[b] \subseteq bloom
    /\ archive \in Histories

\* It holds when the process first starts, with whatever valid history.
LEMMA IndexInit == SearchInit => IndexInv
<1>. SUFFICES ASSUME SearchInit PROVE IndexInv
  OBVIOUS
<1>1. /\ intervals \in Histories /\ archive \in Histories
      /\ bloom = Filled(intervals) /\ scanned = Coverage(intervals)
  BY DEF SearchInit, Init
<1>2. phase = "boot"
  BY DEF SearchInit
<1>3. intervals \in Lists /\ IsValid(intervals)
  BY <1>1, FilterAssumption DEF Lists
<1>4. \A b \in scanned : Hashes[b] \subseteq bloom
  BY <1>1, <1>3, CoverageHolds, FilledKnows
<1>. QED
  BY <1>1, <1>2, <1>3, <1>4 DEF IndexInv

\* Marking a block, and starting again with the marked blocks only, keep it.
LEMMA IndexStep == IndexInv /\ [SearchNext]_allVars => IndexInv'
<1>. SUFFICES ASSUME IndexInv, [SearchNext]_allVars PROVE IndexInv'
  OBVIOUS
<1>. USE DEF IndexInv
<1>1. ASSUME UNCHANGED vars, phase' \in {"block", "gpu"} => block' \in Blocks
      PROVE  IndexInv'
  BY <1>1 DEF vars
<1>2. CASE TestCpu
  <2>1. UNCHANGED vars /\ phase' \notin {"block", "gpu"}
    BY <1>2 DEF TestCpu
  <2>. QED
    BY <1>1, <2>1
<1>3. CASE TestGpu
  <2>1. UNCHANGED vars /\ phase' \notin {"block", "gpu"}
    BY <1>3 DEF TestGpu
  <2>. QED
    BY <1>1, <2>1
<1>4. ASSUME NEW b \in Blocks, SelectBlock(b) PROVE IndexInv'
  <2>1. UNCHANGED vars /\ block' = b
    BY <1>4 DEF SelectBlock
  <2>. QED
    BY <1>1, <2>1
<1>5. ASSUME NEW p \in Profiles, Dispatch(p) PROVE IndexInv'
  <2>1. UNCHANGED vars /\ phase = "block" /\ block' = block
    BY <1>5 DEF Dispatch
  <2>. QED
    BY <1>1, <2>1
<1>6. ASSUME NEW t \in DOMAIN compared, Compare(t) PROVE IndexInv'
  <2>1. UNCHANGED vars /\ phase = "gpu" /\ block' = block
    BY <1>6 DEF Compare
  <2>. QED
    BY <1>1, <2>1
<1>7. CASE FindNothing
  <2>1. UNCHANGED vars /\ phase = "gpu" /\ block' = block
    BY <1>7 DEF FindNothing, EndDispatch
  <2>. QED
    BY <1>1, <2>1
<1>8. CASE FindKey
  <2>1. UNCHANGED vars /\ phase' \notin {"block", "gpu"}
    BY <1>8 DEF FindKey, EndDispatch
  <2>. QED
    BY <1>1, <2>1
<1>9. CASE DispatchFails
  <2>1. UNCHANGED vars /\ phase' \notin {"block", "gpu"}
    BY <1>9 DEF DispatchFails, EndDispatch
  <2>. QED
    BY <1>1, <2>1
<1>10. CASE Commit
  <2>1. /\ block \in Blocks /\ phase' = "idle"
        /\ intervals' = InsertBlock(intervals, block)
        /\ bloom' = bloom \cup Hashes[block]
        /\ scanned' = scanned \cup {block}
        /\ archive' = archive
    BY <1>10 DEF Commit, Mark
  <2>2. /\ intervals' \in Lists /\ IsValid(intervals)'
        /\ Coverage(intervals)' = Coverage(intervals) \cup {block}
    BY <2>1, InsertBlockIsExact
  <2>3. \A b \in scanned' : Hashes[b] \subseteq bloom'
    BY <2>1
  <2>. QED
    BY <2>1, <2>2, <2>3
<1>11. CASE Restart
  <2>1. /\ phase' = "boot" /\ bloom' = Filled(intervals)
        /\ UNCHANGED <<intervals, archive, scanned>>
    BY <1>11 DEF Restart, Reload
  <2>2. \A b \in scanned : b \in Blocks
    BY CoverageHolds
  <2>3. \A b \in scanned : Hashes[b] \subseteq Filled(intervals)
    BY <2>2, FilledKnows
  <2>. QED
    BY <2>1, <2>3
<1>12. CASE UNCHANGED allVars
  <2>1. UNCHANGED vars /\ phase' = phase /\ block' = block
    BY <1>12 DEF allVars, searchVars
  <2>. QED
    BY <1>1, <2>1
<1>. QED
  BY <1>2, <1>3, <1>4, <1>5, <1>6, <1>7, <1>8, <1>9, <1>10, <1>11, <1>12 DEF SearchNext

\* The invariant that the properties of the index rest on.
THEOREM IndexIsKept == SearchSpec => []IndexInv
BY IndexInit, IndexStep, PTL DEF SearchSpec

\* A block is skipped exactly if it has been searched, through merging, filling and
\* restarts, and inserting a range adds its blocks (IntervalSet, DuplicateFilter).
THEOREM IndexIsExactAlways == SearchSpec => []IndexIsExact
<1>1. IndexInv => IndexIsExact
  <2>. SUFFICES ASSUME IndexInv PROVE IndexIsExact
    OBVIOUS
  <2>1. intervals \in Lists /\ IsValid(intervals) /\ Coverage(intervals) = scanned
    BY DEF IndexInv
  <2>2. ASSUME NEW b \in Blocks PROVE IsScanned(b) <=> b \in scanned
    <3>1. b \in Int
      BY BlocksAreNumbers
    <3>2. b \in scanned <=> Holds(intervals, b)
      BY <2>1, <3>1, CoverageHolds
    <3>3. b \in scanned => MayContain(b)
      BY DEF IndexInv, MayContain
    <3>. QED
      BY <3>2, <3>3 DEF IsScanned
  <2>3. ASSUME NEW first \in Blocks, NEW last \in Blocks
        PROVE  LET list == InsertRange(intervals, first, last)
               IN  IsValid(list) /\ Coverage(list) = scanned \cup (first .. last)
    BY <2>1, InsertRangeIsExact
  <2>. QED
    BY <2>1, <2>2, <2>3 DEF IndexIsExact
<1>. QED
  BY <1>1, IndexIsKept, PTL

-----------------------------------------------------------------------------
(* The draw of a block *)

\* The numbers that are taken and leave the remainder n are those of the remainder 0,
\* shifted by n.
LEMMA DrawsShift ==
    ASSUME NEW range \in 1 .. Entropy, NEW n \in 0 .. range - 1
    PROVE  /\ \A v \in Draws(range, n) : v - n \in Draws(range, 0)
           /\ \A w \in Draws(range, 0) : w + n \in Draws(range, n)
           /\ n \in Draws(range, n)
<1>. DEFINE limit == Entropy - (Entropy % range)
            top == Entropy \div range
<1>1. /\ Entropy \in Nat /\ range \in Nat \ {0} /\ n \in Nat /\ top \in Nat
      /\ limit = top * range /\ Entropy % range \in 0 .. range - 1
  <2>1. Entropy \in Nat /\ range \in Nat \ {0}
    BY SearchAssumption
  <2>2. /\ top \in Nat /\ Entropy % range \in 0 .. range - 1
        /\ Entropy - (Entropy % range) = top * range
    BY <2>1, Divides
  <2>. QED
    BY <2>1, <2>2
<1>2. \A v, m : v \in Draws(range, m) <=> v \in 0 .. Entropy /\ v < limit /\ v % range = m
  BY Zenon DEF Draws, Accept
<1>. HIDE DEF limit, top
<1>3. limit <= Entropy /\ limit \in Nat
  <2>1. limit = Entropy - (Entropy % range)
    BY DEF limit
  <2>2. Entropy % range <= Entropy
    <3>1. Entropy \div range \in Nat /\ Entropy = (Entropy \div range) * range + (Entropy % range)
      BY <1>1, Divides
    <3>2. (Entropy \div range) * range \in Nat
      BY <1>1, <3>1
    <3>. QED
      BY <1>1, <3>1, <3>2
  <2>. QED
    BY <1>1, <2>1, <2>2
<1>4. ASSUME NEW v \in Draws(range, n) PROVE v - n \in Draws(range, 0)
  <2>. DEFINE q == v \div range
  <2>1. v \in Nat /\ v <= Entropy /\ v < limit /\ v % range = n
    BY <1>1, <1>2, <1>4
  <2>2. q \in Nat /\ v = q * range + n
    BY <1>1, <2>1, Divides
  <2>. HIDE DEF q
  <2>3. v - n = q * range + 0 /\ q * range \in Nat
    BY <1>1, <2>1, <2>2
  <2>4. (q * range + 0) % range = 0
    BY <1>1, <2>2, RemainderIs
  <2>5. (v - n) % range = 0
    BY <2>3, <2>4
  <2>6. v - n \in 0 .. Entropy /\ v - n < limit
    BY <1>1, <1>3, <2>1, <2>3
  <2>. QED
    BY <1>2, <2>5, <2>6
<1>5. ASSUME NEW w \in Draws(range, 0) PROVE w + n \in Draws(range, n)
  <2>. DEFINE q == w \div range
  <2>1. w \in Nat /\ w <= Entropy /\ w < limit /\ w % range = 0
    BY <1>1, <1>2, <1>5
  <2>2. q \in Nat /\ w = q * range + 0
    BY <1>1, <2>1, Divides
  <2>. HIDE DEF q
  <2>3. w = q * range
    BY <1>1, <2>2
  <2>4. (w + n) % range = n
    <3>1. (q * range + n) % range = n
      BY <1>1, <2>2, RemainderIs
    <3>. QED
      BY <2>3, <3>1
  <2>5. q * range + range <= top * range
    <3>1. q * range < top * range
      BY <1>1, <2>1, <2>3
    <3>. QED
      BY <1>1, <2>2, <3>1, MultiplesAreApart
  <2>6. w + n \in 0 .. Entropy /\ w + n < limit
    <3>1. w + range <= limit
      BY <1>1, <2>3, <2>5
    <3>. QED
      BY <1>1, <1>3, <2>1, <3>1
  <2>. QED
    BY <1>2, <2>4, <2>6
<1>6. 0 \in Draws(range, 0)
  <2>1. 0 % range = 0
    <3>1. (0 * range + 0) % range = 0 /\ 0 * range + 0 = 0
      BY <1>1, RemainderIs
    <3>. QED
      BY <3>1
  <2>2. limit # 0
    <3>1. limit = Entropy - (Entropy % range)
      BY DEF limit
    <3>2. Entropy >= range
      BY <1>1
    <3>. QED
      BY <1>1, <3>1, <3>2
  <2>3. 0 < limit /\ 0 \in 0 .. Entropy
    BY <1>1, <1>3, <2>2
  <2>. QED
    BY <1>2, <2>1, <2>3
<1>7. 0 + n = n
  BY <1>1
<1>. QED
  BY <1>4, <1>5, <1>6, <1>7

\* So each remainder has as many as any other, and one at least.
LEMMA DrawsMatch ==
    ASSUME NEW range \in 1 .. Entropy, NEW n \in 0 .. range - 1
    PROVE  Draws(range, n) # {} /\ Cardinality(Draws(range, n)) = Cardinality(Draws(range, 0))
<1>1. Entropy \in Nat /\ n \in Nat
  BY SearchAssumption
<1>2. Draws(range, n) \subseteq 0 .. Entropy /\ Draws(range, 0) \subseteq 0 .. Entropy
  BY Zenon DEF Draws
<1>3. IsFiniteSet(Draws(range, n)) /\ IsFiniteSet(Draws(range, 0))
  <2>1. IsFiniteSet(0 .. Entropy)
    BY <1>1, FS_Interval
  <2>. QED
    BY <1>2, <2>1, FS_Subset
<1>. DEFINE S == Draws(range, n)
            T == Draws(range, 0)
            f == [v \in S |-> v - n]
            g == [w \in T |-> w + n]
<1>4. \A v \in S : v \in Int
  BY <1>1, <1>2
<1>5. \A w \in T : w \in Int
  BY <1>1, <1>2
<1>6. \A v \in S : v - n \in T
  BY DrawsShift
<1>7. \A w \in T : w + n \in S
  BY DrawsShift
<1>8. S # {}
  BY DrawsShift
<1>. HIDE DEF S, T
<1>9. f \in Injection(S, T)
  <2>1. f \in [S -> T]
    BY <1>6
  <2>2. ASSUME NEW a \in S, NEW b \in S, f[a] = f[b] PROVE a = b
    <3>1. a - n = b - n /\ a \in Int /\ b \in Int
      BY <1>4, <2>2
    <3>. QED
      BY <1>1, <3>1
  <2>. HIDE DEF f
  <2>. QED
    BY <2>1, <2>2, Zenon DEF Injection, IsInjective
<1>10. g \in Injection(T, S)
  <2>1. g \in [T -> S]
    BY <1>7
  <2>2. ASSUME NEW a \in T, NEW b \in T, g[a] = g[b] PROVE a = b
    <3>1. a + n = b + n /\ a \in Int /\ b \in Int
      BY <1>5, <2>2
    <3>. QED
      BY <1>1, <3>1
  <2>. HIDE DEF g
  <2>. QED
    BY <2>1, <2>2, Zenon DEF Injection, IsInjective
<1>. HIDE DEF f, g
<1>11. IsFiniteSet(S) /\ IsFiniteSet(T)
  BY <1>3 DEF S, T
<1>12. Cardinality(S) <= Cardinality(T) /\ Cardinality(T) <= Cardinality(S)
  BY <1>9, <1>10, <1>11, FS_Injection
<1>13. Cardinality(S) \in Nat /\ Cardinality(T) \in Nat
  BY <1>11, FS_CardinalityType
<1>14. Cardinality(S) = Cardinality(T)
  BY <1>12, <1>13
<1>. QED
  BY <1>8, <1>14 DEF S, T

\* Every block that is left can be drawn, all with the same chance, and no other one
\* is taken (get_secure_uniform_u128 and the loop of the main thread).
THEOREM ChoiceIsFairAlways == SearchSpec => []ChoiceIsFair
<1>1. DrawsAreEqual
  <2>. SUFFICES ASSUME NEW range \in 1 .. Entropy, NEW n \in 0 .. Entropy - 1, n < range
                PROVE  /\ Draws(range, n) # {}
                       /\ Cardinality(Draws(range, n)) = Cardinality(Draws(range, 0))
    BY DEF DrawsAreEqual
  <2>1. n \in 0 .. range - 1
    BY SearchAssumption
  <2>. QED
    BY <2>1, DrawsMatch
<1>2. IndexInv => ChoiceIsFair
  <2>. SUFFICES ASSUME IndexInv, ~ PendingRecheck
                PROVE  {b \in Blocks : Selectable(b)} = Blocks \ scanned
    BY <1>1 DEF ChoiceIsFair
  <2>1. ASSUME NEW b \in Blocks PROVE Selectable(b) <=> b \notin scanned
    <3>1. Draws(TotalBlocks, b) # {}
      <4>1. TotalBlocks \in 1 .. Entropy /\ b \in 0 .. TotalBlocks - 1
        BY FilterAssumption, SearchAssumption DEF TotalBlocks, Blocks
      <4>. QED
        BY <4>1, DrawsMatch
    <3>2. b \in scanned <=> Holds(intervals, b)
      BY BlocksAreNumbers, CoverageHolds DEF IndexInv
    <3>3. b \in scanned => MayContain(b)
      BY DEF IndexInv, MayContain
    <3>. QED
      BY <3>1, <3>2, <3>3 DEF Selectable, IsScanned
  <2>. QED
    BY <2>1
<1>. QED
  BY <1>2, IndexIsKept, PTL

-----------------------------------------------------------------------------
(* The ordinals of a recheck plan *)

\* What is added up over a list is added from the front.
LEMMA CountUnfolds ==
    ASSUME NEW list \in Lists
    PROVE  \E h : /\ h[0] = 0
                  /\ \A k \in 1 .. Len(list) : h[k] = h[k - 1] + Length(list[k])
                  /\ BlockCount(list) = h[Len(list)]
<1>. DEFINE n == Len(list)
            op == [p \in Int \X (1 .. n) |-> p[1] + Length(list[p[2]])]
<1>1. n \in Nat /\ DOMAIN list = 1 .. n
  BY EndsAreBlocks
<1>2. \A i \in 1 .. n : Length(list[i]) \in Int
  <2>. SUFFICES ASSUME NEW i \in 1 .. n PROVE Length(list[i]) \in Int
    OBVIOUS
  <2>1. Start(list[i]) \in Nat /\ End(list[i]) \in Nat
    BY EndsAreBlocks, BlocksAreNumbers
  <2>. QED
    BY <2>1 DEF Length
<1>3. op \in [Int \X (1 .. n) -> Int]
  <2>. SUFFICES ASSUME NEW a \in Int, NEW i \in 1 .. n PROVE a + Length(list[i]) \in Int
    OBVIOUS
  <2>. QED
    BY <1>2
<1>4. PICK f \in [SUBSET (1 .. n) -> Int] : IsFoldOf(f, 0, op, n)
  <2>1. 0 \in Int
    OBVIOUS
  <2>. HIDE DEF op, n
  <2>. QED
    BY <1>1, <1>3, <2>1, FoldExists, Zenon
<1>. DEFINE Loop(g, s) == IF s = {} THEN 0 ELSE g[s \ {Max(s)}] + Length(list[Max(s)])
            Loops(g) == g = [s \in SUBSET (1 .. n) |-> Loop(g, s)]
            g == CHOOSE g : Loops(g)
<1>5. BlockCount(list) = g[1 .. n]
  <2>1. BlockCount(list)
          = (CHOOSE it : it = [s \in SUBSET DOMAIN list |-> Loop(it, s)])[DOMAIN list]
    BY Zenon DEF BlockCount, FoldLeft, MapThenFoldSet
  <2>. HIDE DEF Loop
  <2>. QED
    BY <1>1, <2>1, Zenon
<1>6. ASSUME NEW s \in SUBSET (1 .. n) PROVE f[s] = Loop(f, s)
  <2>1. CASE s = {}
    BY <1>4, <2>1 DEF IsFoldOf
  <2>2. CASE s # {}
    <3>1. PICK m \in s : \A i \in s : i <= m
      BY <1>1, <2>2, LargestExists
    <3>2. Max(s) = m
      <4>1. s \in SUBSET Nat
        BY <1>1
      <4>. QED
        BY <3>1, <4>1, LargestIsMax
    <3>3. f[s] = op[<<f[s \ {m}], m>>]
      BY <1>4, <3>1 DEF IsFoldOf
    <3>4. f[s \ {m}] \in Int /\ m \in 1 .. n
      BY <1>4, <3>1
    <3>5. op[<<f[s \ {m}], m>>] = f[s \ {m}] + Length(list[m])
      <4>. HIDE DEF n
      <4>. QED
        BY <3>4
    <3>. QED
      BY <2>2, <3>2, <3>3, <3>5
  <2>. QED
    BY <2>1, <2>2
<1>. HIDE DEF Loop, n, op
<1>7. Loops(f)
  BY <1>4, <1>6
<1>8. Loops(g)
  <2>. HIDE DEF Loops
  <2>. QED
    BY <1>7, Zenon
<1>. HIDE DEF g
<1>9. \A s \in SUBSET (1 .. n) : g[s] = Loop(g, s)
  BY <1>8
<1>. DEFINE h == [k \in 0 .. n |-> g[1 .. k]]
<1>10. h[0] = 0
  <2>1. 1 .. 0 = {} /\ 0 \in 0 .. n
    BY <1>1 DEF n
  <2>. QED
    BY <1>9, <2>1 DEF Loop
<1>11. ASSUME NEW k \in 1 .. n PROVE h[k] = h[k - 1] + Length(list[k])
  <2>0. n \in Nat
    BY <1>1 DEF n
  <2>1. 1 .. k \in SUBSET (1 .. n) /\ k \in 1 .. k /\ (1 .. k) \ {k} = 1 .. k - 1 /\ 1 .. k # {}
    BY <2>0
  <2>2. Max(1 .. k) = k
    <3>1. 1 .. k \in SUBSET Nat /\ \A i \in 1 .. k : i <= k
      BY <2>0
    <3>. QED
      BY <2>1, <3>1, LargestIsMax
  <2>3. g[1 .. k] = g[1 .. k - 1] + Length(list[k])
    BY <1>9, <2>1, <2>2 DEF Loop
  <2>4. k \in 0 .. n /\ k - 1 \in 0 .. n
    BY <2>0
  <2>. QED
    BY <2>3, <2>4
<1>12. BlockCount(list) = h[n]
  <2>1. n \in 0 .. n
    BY <1>1 DEF n
  <2>. QED
    BY <1>5, <2>1
<1>. HIDE DEF h
<1>. QED
  BY <1>10, <1>11, <1>12 DEF n

\* So there is only one way to count.
LEMMA CountIs ==
    ASSUME NEW list \in Lists, NEW h, h[0] = 0,
           \A k \in 1 .. Len(list) : h[k] = h[k - 1] + Length(list[k])
    PROVE  BlockCount(list) = h[Len(list)]
<1>. DEFINE n == Len(list)
<1>1. n \in Nat
  BY EndsAreBlocks
<1>2. PICK g : /\ g[0] = 0
               /\ \A k \in 1 .. n : g[k] = g[k - 1] + Length(list[k])
               /\ BlockCount(list) = g[n]
  BY CountUnfolds
<1>. DEFINE T == {k \in 0 .. n : g[k] # h[k]}
<1>3. ASSUME NEW k \in T, \A m \in T : k <= m PROVE FALSE
  <2>1. k \in 1 .. n
    BY <1>1, <1>2, <1>3
  <2>2. k - 1 \in 0 .. n /\ ~ (k <= k - 1)
    BY <1>1, <2>1
  <2>3. g[k - 1] = h[k - 1]
    BY <1>3, <2>2
  <2>. QED
    BY <1>2, <1>3, <2>1, <2>3
<1>4. T = {}
  <2>1. T \subseteq Nat
    OBVIOUS
  <2>. HIDE DEF T
  <2>2. T # {} => \E k \in T : \A m \in T : k <= m
    BY <2>1, LeastExists
  <2>. QED
    BY <1>3, <2>2
<1>5. g[n] = h[n]
  BY <1>1, <1>4
<1>. QED
  BY <1>2, <1>5

\* The ordinals behind the intervals of a valid list grow by their lengths.
LEMMA OrdinalEnds ==
    ASSUME NEW list \in Lists, IsValid(list)
    PROVE  /\ OrdinalEnd(list, 0) = 0 /\ OrdinalEnd(list, Len(list)) = BlockCount(list)
           /\ \A k \in 0 .. Len(list) : OrdinalEnd(list, k) \in Nat
           /\ \A k \in 1 .. Len(list) : OrdinalEnd(list, k) = OrdinalEnd(list, k - 1) + Length(list[k])
           /\ \A k \in 1 .. Len(list) : Length(list[k]) \in Nat \ {0}
           /\ \A k \in 0 .. Len(list) : \A j \in 0 .. k : OrdinalEnd(list, j) <= OrdinalEnd(list, k)
<1>. DEFINE n == Len(list)
            O(k) == OrdinalEnd(list, k)
<1>1. n \in Nat /\ DOMAIN list = 1 .. n
  BY EndsAreBlocks
<1>2. ASSUME NEW k \in 1 .. n PROVE Length(list[k]) \in Nat \ {0}
  <2>1. Start(list[k]) \in Nat /\ End(list[k]) \in Nat /\ Start(list[k]) <= End(list[k])
    BY <1>1, EndsAreBlocks, BlocksAreNumbers DEF IsValid
  <2>. QED
    BY <2>1 DEF Length
<1>3. PICK h : /\ h[0] = 0
               /\ \A k \in 1 .. n : h[k] = h[k - 1] + Length(list[k])
               /\ BlockCount(list) = h[n]
  BY CountUnfolds
<1>4. ASSUME NEW k \in 0 .. n PROVE O(k) = h[k]
  <2>. DEFINE part == SubSeq(list, 1, k)
  <2>1. part \in Lists /\ Len(part) = k /\ \A i \in 1 .. k : part[i] = list[i]
    BY <1>1 DEF Lists
  <2>. HIDE DEF part
  <2>2. \A i \in 1 .. Len(part) : h[i] = h[i - 1] + Length(part[i])
    BY <1>1, <1>3, <2>1
  <2>3. BlockCount(part) = h[Len(part)]
    BY <1>3, <2>1, <2>2, CountIs
  <2>. QED
    BY <2>1, <2>3 DEF OrdinalEnd, part
<1>5. O(0) = 0 /\ O(n) = BlockCount(list)
  BY <1>1, <1>3, <1>4
<1>6. ASSUME NEW k \in 1 .. n PROVE O(k) = O(k - 1) + Length(list[k])
  <2>1. k \in 0 .. n /\ k - 1 \in 0 .. n
    BY <1>1
  <2>. QED
    BY <1>3, <1>4, <2>1
<1>. HIDE DEF O
<1>. DEFINE Good(k) == O(k) \in Nat /\ \A j \in 0 .. k : O(j) <= O(k)
            T == {k \in 0 .. n : ~ Good(k)}
<1>7. ASSUME NEW k \in T, \A m \in T : k <= m PROVE FALSE
  <2>1. Good(0)
    BY <1>5
  <2>2. k \in 1 .. n /\ k - 1 \in 0 .. n /\ ~ (k <= k - 1) /\ ~ Good(k)
    BY <1>1, <1>7, <2>1
  <2>3. Good(k - 1)
    BY <1>7, <2>2
  <2>4. O(k) = O(k - 1) + Length(list[k]) /\ Length(list[k]) \in Nat /\ O(k - 1) \in Nat
    BY <1>2, <1>6, <2>2, <2>3
  <2>5. O(k) \in Nat /\ O(k - 1) <= O(k)
    BY <2>4
  <2>6. ASSUME NEW j \in 0 .. k PROVE O(j) <= O(k)
    <3>1. CASE j = k
      BY <2>5, <3>1
    <3>2. CASE j # k
      <4>1. j \in 0 .. k - 1 /\ j \in 0 .. n /\ ~ (k <= j)
        BY <1>1, <2>2, <3>2
      <4>2. Good(j)
        BY <1>7, <4>1
      <4>3. O(j) <= O(k - 1) /\ O(j) \in Nat
        BY <2>3, <4>1, <4>2
      <4>. QED
        BY <2>4, <2>5, <4>3
    <3>. QED
      BY <3>1, <3>2
  <2>. QED
    BY <2>2, <2>5, <2>6
<1>8. T = {}
  <2>1. T \subseteq Nat
    OBVIOUS
  <2>. HIDE DEF T
  <2>2. T # {} => \E k \in T : \A m \in T : k <= m
    BY <2>1, LeastExists
  <2>. QED
    BY <1>7, <2>2
<1>9. \A k \in 0 .. n : Good(k)
  <2>. HIDE DEF Good
  <2>. QED
    BY <1>8
<1>. QED
  BY <1>2, <1>5, <1>6, <1>9 DEF O

\* An ordinal that is in use lies in exactly one interval, and its block with it.
LEMMA BlockAtLies ==
    ASSUME NEW list \in Lists, IsValid(list), NEW o \in Nat, o < BlockCount(list)
    PROVE  \E p \in 1 .. Len(list) :
             /\ OrdinalEnd(list, p - 1) <= o /\ o < OrdinalEnd(list, p)
             /\ BlockAt(list, o) = Start(list[p]) + o - OrdinalEnd(list, p - 1)
             /\ BlockAt(list, o) \in Start(list[p]) .. End(list[p])
<1>. DEFINE n == Len(list)
            O(k) == OrdinalEnd(list, k)
            P == {i \in 1 .. n : O(i) <= o}
            m == Cardinality(P)
<1>1. n \in Nat /\ DOMAIN list = 1 .. n
  BY EndsAreBlocks
<1>2. IntervalOf(list, o) = m
  BY <1>1 DEF IntervalOf
<1>3. /\ O(0) = 0 /\ O(n) = BlockCount(list)
      /\ \A k \in 0 .. n : O(k) \in Nat
      /\ \A k \in 1 .. n : O(k) = O(k - 1) + Length(list[k])
      /\ \A k \in 0 .. n : \A j \in 0 .. k : O(j) <= O(k)
  BY OrdinalEnds
<1>. HIDE DEF O
<1>4. ASSUME NEW i \in P, NEW j \in 1 .. i PROVE j \in P
  <2>1. i \in 0 .. n /\ j \in 0 .. i /\ j \in 1 .. n /\ j \in 0 .. n /\ O(i) <= o
    BY <1>1
  <2>2. O(j) <= O(i) /\ O(j) \in Nat /\ O(i) \in Nat
    BY <1>3, <2>1
  <2>. QED
    BY <2>1, <2>2
<1>5. m \in 0 .. n /\ P = 1 .. m
  <2>1. P \in SUBSET (1 .. n)
    OBVIOUS
  <2>. HIDE DEF P, n
  <2>2. n \in Nat
    BY <1>1 DEF n
  <2>. QED
    BY <1>4, <2>1, <2>2, PrefixCounts
<1>. HIDE DEF m
<1>6. m # n
  <2>1. m = n => n \in 0 .. n /\ (n # 0 => n \in P)
    BY <1>1, <1>5
  <2>2. O(n) \in Nat /\ ~ (O(n) <= o)
    BY <1>1, <1>3
  <2>. QED
    BY <1>3, <2>1, <2>2
<1>. DEFINE p == m + 1
<1>7. p \in 1 .. n /\ p - 1 = m /\ m \in 0 .. n /\ p \in 0 .. n
  <2>1. n \in Nat /\ m \in 0 .. n
    BY <1>1, <1>5
  <2>. HIDE DEF n
  <2>. QED
    BY <1>6, <2>1
<1>8. O(m) <= o
  <2>1. m # 0 => m \in P
    BY <1>5
  <2>. QED
    BY <1>3, <2>1
<1>9. o < O(p)
  <2>1. p \notin P
    BY <1>5, <1>7
  <2>. QED
    BY <1>3, <1>7, <2>1
<1>10. BlockAt(list, o) = Start(list[p]) + o - O(p - 1)
  <2>1. BlockCount(list) \in Nat
    BY <1>1, <1>3
  <2>2. ~ (o >= BlockCount(list))
    BY <2>1
  <2>3. BlockAt(list, o) = Start(list[m + 1]) + o - OrdinalEnd(list, m)
    BY <1>2, <2>2 DEF BlockAt
  <2>. QED
    BY <1>7, <2>3 DEF O
<1>11. BlockAt(list, o) \in Start(list[p]) .. End(list[p])
  <2>1. Start(list[p]) \in Nat /\ End(list[p]) \in Nat
    BY <1>7, EndsAreBlocks, BlocksAreNumbers
  <2>2. O(p) = O(p - 1) + (End(list[p]) - Start(list[p]) + 1) /\ O(p - 1) \in Nat /\ O(p) \in Nat
    BY <1>3, <1>7 DEF Length
  <2>3. O(p - 1) <= o
    BY <1>7, <1>8
  <2>. HIDE DEF p
  <2>. QED
    BY <1>9, <1>10, <2>1, <2>2, <2>3
<1>. HIDE DEF p
<1>. QED
  BY <1>7, <1>8, <1>9, <1>10, <1>11 DEF O

\* A plan runs through its blocks once, in ascending order (RecheckPlan::block_at).
LEMMA PlanIsExact ==
    ASSUME NEW list \in Lists, IsValid(list)
    PROVE  /\ \A o \in Nat : BlockAt(list, o) = None <=> o >= BlockCount(list)
           /\ \A o \in 1 .. BlockCount(list) - 1 : BlockAt(list, o - 1) < BlockAt(list, o)
           /\ {BlockAt(list, o) : o \in 0 .. BlockCount(list) - 1} = Coverage(list)
<1>. DEFINE n == Len(list)
            O(k) == OrdinalEnd(list, k)
            N == BlockCount(list)
            B(o) == BlockAt(list, o)
            S(i) == Start(list[i])
            E(i) == End(list[i])
<1>1. n \in Nat /\ DOMAIN list = 1 .. n
  BY EndsAreBlocks
<1>2. /\ O(0) = 0 /\ O(n) = N
      /\ \A k \in 0 .. n : O(k) \in Nat
      /\ \A k \in 1 .. n : O(k) = O(k - 1) + (E(k) - S(k) + 1)
      /\ \A k \in 0 .. n : \A j \in 0 .. k : O(j) <= O(k)
  BY OrdinalEnds DEF Length
<1>3. N \in Nat
  BY <1>1, <1>2
<1>4. \A i \in 1 .. n : S(i) \in Nat /\ E(i) \in Nat
  BY EndsAreBlocks, BlocksAreNumbers
<1>5. ASSUME NEW o \in Nat, o < N
      PROVE  \E p \in 1 .. n : /\ O(p - 1) <= o /\ o < O(p)
                               /\ B(o) = S(p) + o - O(p - 1)
                               /\ B(o) \in S(p) .. E(p)
  BY <1>5, BlockAtLies
<1>6. \A c : c \in Coverage(list) <=> \E i \in 1 .. n : c \in S(i) .. E(i)
  BY <1>1 DEF Coverage
<1>7. ASSUME NEW o \in Nat PROVE B(o) = None <=> o >= N
  <2>1. CASE o >= N
    BY <2>1 DEF BlockAt
  <2>2. CASE ~ (o >= N)
    <3>1. o < N
      BY <1>3, <2>2
    <3>2. B(o) \in Coverage(list)
      BY <1>5, <1>6, <3>1
    <3>3. B(o) \in Blocks
      BY <3>2, CoverageHolds
    <3>. QED
      BY <2>2, <3>3, FilterAssumption
  <2>. QED
    BY <2>1, <2>2
<1>. HIDE DEF B, O, N
<1>8. ASSUME NEW o \in 1 .. N - 1 PROVE B(o - 1) < B(o)
  <2>1. o \in Nat /\ o < N /\ o - 1 \in Nat /\ o - 1 < N
    BY <1>3
  <2>2. PICK p \in 1 .. n : /\ O(p - 1) <= o - 1 /\ o - 1 < O(p)
                            /\ B(o - 1) = S(p) + (o - 1) - O(p - 1)
                            /\ B(o - 1) \in S(p) .. E(p)
    BY <1>5, <2>1
  <2>3. PICK q \in 1 .. n : /\ O(q - 1) <= o /\ o < O(q)
                            /\ B(o) = S(q) + o - O(q - 1)
                            /\ B(o) \in S(q) .. E(q)
    BY <1>5, <2>1
  <2>4. p - 1 \in 0 .. n /\ q - 1 \in 0 .. n /\ p \in 0 .. n /\ q \in 0 .. n /\ p \in Nat /\ q \in Nat
    BY <1>1
  <2>5. O(p - 1) \in Nat /\ O(q - 1) \in Nat /\ O(p) \in Nat /\ O(q) \in Nat
        /\ S(p) \in Nat /\ E(p) \in Nat /\ S(q) \in Nat /\ E(q) \in Nat
    BY <1>2, <1>4, <2>4
  <2>6. CASE p = q
    BY <2>1, <2>2, <2>3, <2>5, <2>6, SMTT(30)
  <2>7. CASE p < q
    <3>1. p \in 1 .. q - 1
      BY <2>4, <2>7
    <3>2. E(p) < S(q)
      BY <3>1, ValidOrder
    <3>3. B(o - 1) \in Int /\ B(o - 1) <= E(p)
      BY <2>2, <2>5
    <3>4. B(o) \in Int /\ S(q) <= B(o)
      BY <2>3, <2>5
    <3>. HIDE DEF S, E
    <3>. QED
      BY <2>5, <3>2, <3>3, <3>4, SMTT(30)
  <2>8. CASE q < p
    <3>1. q \in 0 .. p - 1
      BY <2>4, <2>8
    <3>2. O(q) <= O(p - 1)
      BY <1>2, <2>4, <3>1
    <3>. QED
      BY <2>1, <2>2, <2>3, <2>5, <3>2, SMTT(30)
  <2>. QED
    BY <2>4, <2>6, <2>7, <2>8
<1>9. ASSUME NEW o \in 0 .. N - 1 PROVE B(o) \in Coverage(list)
  <2>1. o \in Nat /\ o < N
    BY <1>3
  <2>. QED
    BY <1>5, <1>6, <2>1
<1>10. ASSUME NEW c \in Coverage(list) PROVE \E o \in 0 .. N - 1 : B(o) = c
  <2>1. PICK p \in 1 .. n : c \in S(p) .. E(p)
    BY <1>6
  <2>. DEFINE o == O(p - 1) + (c - S(p))
  <2>2. p - 1 \in 0 .. n /\ p \in 0 .. n /\ p \in Nat /\ p \in 0 .. n
    BY <1>1
  <2>3. O(p - 1) \in Nat /\ O(p) \in Nat /\ S(p) \in Nat /\ E(p) \in Nat /\ O(p) <= N
        /\ O(p) = O(p - 1) + (E(p) - S(p) + 1)
    <3>1. n \in 0 .. n /\ p \in 0 .. n
      BY <1>1, <2>2
    <3>. QED
      BY <1>2, <1>4, <2>2, <3>1
  <2>4. c \in Int /\ o \in Nat /\ O(p - 1) <= o /\ o < O(p) /\ o < N
    BY <1>3, <2>1, <2>3, SMTT(30)
  <2>5. PICK q \in 1 .. n : /\ O(q - 1) <= o /\ o < O(q)
                            /\ B(o) = S(q) + o - O(q - 1)
    <3>. HIDE DEF o
    <3>. QED
      BY <1>5, <2>4
  <2>6. q - 1 \in 0 .. n /\ q \in 0 .. n /\ q \in Nat /\ O(q - 1) \in Nat /\ O(q) \in Nat
    BY <1>1, <1>2
  <2>7. ~ (q < p)
    <3>. SUFFICES ASSUME q < p PROVE FALSE
      OBVIOUS
    <3>1. q \in 0 .. p - 1
      BY <2>2, <2>6
    <3>2. O(q) <= O(p - 1)
      BY <1>2, <2>2, <3>1
    <3>. HIDE DEF o
    <3>. QED
      BY <2>3, <2>4, <2>5, <2>6, <3>2
  <2>8. ~ (p < q)
    <3>. SUFFICES ASSUME p < q PROVE FALSE
      OBVIOUS
    <3>1. p \in 0 .. q - 1
      BY <2>2, <2>6
    <3>2. O(p) <= O(q - 1)
      BY <1>2, <2>6, <3>1
    <3>. HIDE DEF o
    <3>. QED
      BY <2>3, <2>4, <2>5, <2>6, <3>2, SMTT(30)
  <2>9. p = q
    BY <2>2, <2>6, <2>7, <2>8
  <2>10. B(o) = c
    BY <2>3, <2>4, <2>5, <2>9, SMTT(30)
  <2>11. o \in 0 .. N - 1
    <3>. HIDE DEF o
    <3>. QED
      BY <1>3, <2>4
  <2>. QED
    BY <2>10, <2>11
<1>11. {B(o) : o \in 0 .. N - 1} = Coverage(list)
  BY <1>9, <1>10
<1>. QED
  BY <1>7, <1>8, <1>11 DEF B, N

-----------------------------------------------------------------------------
(* The walk that checks the coverage of a plan *)

\* Every block of an interval is in the list.
IsHeld(v, list) == \A c \in Start(v) .. End(v) : Holds(list, c)

\* The interval of the list that is the first to reach the end of v.
Reaches(at, v, list) ==
    /\ at \in 1 .. Len(list)
    /\ End(list[at]) >= End(v)
    /\ \A j \in 1 .. at - 1 : End(list[j]) < End(v)

\* What one turn of is_covered_by does.
WalkOn(at, v, global) ==
    LET from == Max({at, 1 + PartitionPoint(global, LAMBDA w : End(w) < Start(v))})
    IN  IF at = 0 \/ Stops(global, from, v) = {} THEN 0
        ELSE Min(Stops(global, from, v))

\* The least number of a set is the one that Min chooses.
LEMMA LeastIsMin ==
    ASSUME NEW s \in SUBSET Nat, s # {}
    PROVE  Min(s) \in s
<1>1. PICK n \in s : \A m \in s : n <= m
  BY LeastExists
<1>. DEFINE P(x) == \A y \in s : x =< y
<1>2. \E x \in s : P(x)
  BY <1>1
<1>3. Min(s) = CHOOSE x \in s : P(x)
  BY Zenon DEF Min
<1>. HIDE DEF P
<1>. QED
  BY <1>2, <1>3, Zenon

\* The walk stops behind the interval v if and only if the list holds all of v, and
\* then where the end of v is first reached.
LEMMA StopsAreExact ==
    ASSUME NEW list \in Lists, IsValid(list), NEW v \in Blocks \X Blocks, Start(v) <= End(v),
           NEW p \in 0 .. Len(list),
           \A i \in 1 .. Len(list) : End(list[i]) < Start(v) <=> i <= p
    PROVE  /\ Stops(list, p + 1, v) # {} <=> IsHeld(v, list)
           /\ \A k \in Stops(list, p + 1, v) : Reaches(k, v, list)
<1>. DEFINE n == Len(list)
            S(i) == Start(list[i])
            E(i) == End(list[i])
            first == Start(v)
            last == End(v)
<1>1. n \in Nat /\ p \in Nat /\ p <= n /\ DOMAIN list = 1 .. n
  BY EndsAreBlocks
<1>2. \A i \in 1 .. n : S(i) \in Nat /\ E(i) \in Nat /\ S(i) <= E(i)
  BY EndsAreBlocks, BlocksAreNumbers DEF IsValid
<1>3. first \in Nat /\ last \in Nat /\ first <= last
  BY BlocksAreNumbers
<1>4. \A j \in 1 .. n : \A i \in 1 .. j - 1 : E(i) < S(j)
  BY ValidOrder
<1>5. \A i \in 1 .. n : E(i) < first <=> i <= p
  OBVIOUS
<1>6. \A c : Holds(list, c) <=> \E i \in 1 .. n : S(i) <= c /\ c <= E(i)
  BY <1>1 DEF Holds
<1>7. \A k : k \in Stops(list, p + 1, v) <=>
        /\ k \in p + 1 .. n
        /\ S(p + 1) <= first
        /\ \A j \in p + 2 .. k : S(j) <= E(j - 1) + 1
        /\ \A j \in p + 1 .. k - 1 : E(j) < last
        /\ E(k) >= last
  <2>1. (p + 1) + 1 = p + 2
    BY <1>1
  <2>. QED
    BY <2>1 DEF Stops, Continues
<1>8. \A c : c \in first .. last <=> c \in Int /\ first <= c /\ c <= last
  BY <1>3
<1>9. IsHeld(v, list) <=> \A c \in first .. last : \E i \in 1 .. n : S(i) <= c /\ c <= E(i)
  BY <1>6 DEF IsHeld
<1>. HIDE DEF S, E, n, first, last
<1>10. ASSUME NEW k \in Stops(list, p + 1, v)
       PROVE  /\ k \in 1 .. n /\ E(k) >= last
              /\ \A j \in 1 .. k - 1 : E(j) < last
  <2>1. k \in p + 1 .. n /\ E(k) >= last /\ \A j \in p + 1 .. k - 1 : E(j) < last
    BY <1>7
  <2>2. k \in 1 .. n
    BY <1>1, <2>1
  <2>3. ASSUME NEW j \in 1 .. k - 1 PROVE E(j) < last
    <3>1. j \in 1 .. n /\ (j <= p \/ j \in p + 1 .. k - 1)
      BY <1>1, <2>1
    <3>2. CASE j <= p
      BY <1>2, <1>3, <1>5, <3>1, <3>2
    <3>3. CASE j \in p + 1 .. k - 1
      BY <2>1, <3>3
    <3>. QED
      BY <3>1, <3>2, <3>3
  <2>. QED
    BY <2>1, <2>2, <2>3
<1>11. ASSUME NEW k \in Stops(list, p + 1, v), NEW c \in first .. last
       PROVE  \E i \in 1 .. n : S(i) <= c /\ c <= E(i)
  <2>1. /\ k \in p + 1 .. n /\ S(p + 1) <= first
        /\ \A j \in p + 2 .. k : S(j) <= E(j - 1) + 1
        /\ E(k) >= last
    BY <1>7
  <2>2. c \in Int /\ first <= c /\ c <= last
    BY <1>8
  <2>. DEFINE T == {j \in p + 1 .. k : c <= E(j)}
  <2>3. k \in T
    <3>1. k \in 1 .. n /\ k \in p + 1 .. k
      BY <1>1, <2>1
    <3>2. E(k) \in Nat
      BY <1>2, <3>1
    <3>. QED
      BY <1>3, <2>1, <2>2, <3>1, <3>2
  <2>4. T \subseteq Nat
    BY <1>1
  <2>5. PICK j \in T : \A i \in T : j <= i
    <3>. HIDE DEF T
    <3>. QED
      BY <2>3, <2>4, LeastExists
  <2>6. j \in p + 1 .. k /\ c <= E(j) /\ j \in 1 .. n
    BY <1>1, <2>1, <2>5
  <2>7. S(j) <= c
    <3>1. CASE j = p + 1
      BY <1>2, <1>3, <2>1, <2>2, <2>6, <3>1
    <3>2. CASE j # p + 1
      <4>1. j \in p + 2 .. k /\ j - 1 \in p + 1 .. k /\ ~ (j <= j - 1) /\ j - 1 \in 1 .. n
        BY <1>1, <2>1, <2>6, <3>2
      <4>2. j - 1 \notin T
        BY <2>5, <4>1
      <4>3. E(j - 1) < c
        BY <1>2, <2>2, <4>1, <4>2
      <4>4. S(j) <= E(j - 1) + 1 /\ S(j) \in Nat /\ E(j - 1) \in Nat
        BY <1>2, <2>1, <2>6, <4>1
      <4>. QED
        BY <2>2, <4>3, <4>4
    <3>. QED
      BY <3>1, <3>2
  <2>. QED
    BY <2>6, <2>7
<1>12. ASSUME \A c \in first .. last : \E i \in 1 .. n : S(i) <= c /\ c <= E(i)
       PROVE  Stops(list, p + 1, v) # {}
  <2>1. first \in first .. last /\ last \in first .. last
    BY <1>3
  <2>2. PICK k \in 1 .. n : S(k) <= last /\ last <= E(k)
    BY <1>12, <2>1
  <2>3. PICK m \in 1 .. n : S(m) <= first /\ first <= E(m)
    BY <1>12, <2>1
  <2>4. k \in Nat /\ m \in Nat /\ S(k) \in Nat /\ E(k) \in Nat /\ S(m) \in Nat /\ E(m) \in Nat
    BY <1>2
  <2>5. m >= p + 1
    <3>1. ~ (E(m) < first)
      BY <1>3, <2>3, <2>4
    <3>2. ~ (m <= p)
      BY <1>5, <3>1
    <3>. QED
      BY <1>1, <2>4, <3>2
  <2>6. m = p + 1
    <3>. SUFFICES ASSUME m # p + 1 PROVE FALSE
      OBVIOUS
    <3>1. p + 1 \in 1 .. m - 1 /\ p + 1 \in 1 .. n /\ ~ (p + 1 <= p)
      BY <1>1, <2>4, <2>5
    <3>2. E(p + 1) < S(m) /\ ~ (E(p + 1) < first) /\ E(p + 1) \in Nat
      BY <1>2, <1>4, <1>5, <3>1
    <3>. QED
      BY <1>3, <2>3, <2>4, <3>2
  <2>7. k >= p + 1
    <3>1. ~ (E(k) < first)
      BY <1>3, <2>2, <2>4
    <3>2. ~ (k <= p)
      BY <1>5, <3>1
    <3>. QED
      BY <1>1, <2>4, <3>2
  <2>8. k \in p + 1 .. n
    BY <1>1, <2>4, <2>7
  <2>9. ASSUME NEW j \in p + 1 .. k - 1
        PROVE  E(j) < last /\ E(j) \in Nat /\ j \in 1 .. n /\ j + 1 \in 1 .. n /\ first <= E(j)
    <3>1. j \in 1 .. n /\ j \in 1 .. k - 1 /\ j + 1 \in 1 .. n /\ ~ (j <= p)
      BY <1>1, <2>4
    <3>2. E(j) < S(k) /\ E(j) \in Nat /\ ~ (E(j) < first)
      BY <1>2, <1>4, <1>5, <3>1
    <3>. QED
      BY <1>3, <2>2, <2>4, <3>1, <3>2, SMTT(30)
  <2>10. ASSUME NEW j \in p + 2 .. k PROVE S(j) <= E(j - 1) + 1
    <3>1. j \in Nat /\ j - 1 \in p + 1 .. k - 1 /\ (j - 1) + 1 = j
      BY <1>1, <2>4
    <3>2. E(j - 1) < last /\ E(j - 1) \in Nat /\ first <= E(j - 1) /\ j - 1 \in 1 .. n /\ j \in 1 .. n
      BY <2>9, <3>1
    <3>3. E(j - 1) + 1 \in first .. last
      BY <1>3, <3>2
    <3>4. PICK i \in 1 .. n : S(i) <= E(j - 1) + 1 /\ E(j - 1) + 1 <= E(i)
      BY <1>12, <3>3
    <3>5. i \in Nat /\ S(i) \in Nat /\ E(i) \in Nat /\ S(j) \in Nat /\ E(j) \in Nat /\ S(j) <= E(j)
          /\ S(j - 1) \in Nat /\ S(j - 1) <= E(j - 1)
      BY <1>2, <3>2
    <3>6. ~ (i <= j - 1)
      <4>. SUFFICES ASSUME i <= j - 1 PROVE FALSE
        OBVIOUS
      <4>1. i = j - 1 \/ i \in 1 .. (j - 1) - 1
        BY <3>1, <3>5
      <4>2. i \in 1 .. (j - 1) - 1 => E(i) < S(j - 1)
        BY <1>4, <3>2
      <4>. QED
        BY <3>2, <3>4, <3>5, <4>1, <4>2, SMTT(30)
    <3>7. ~ (j < i)
      <4>. SUFFICES ASSUME j < i PROVE FALSE
        OBVIOUS
      <4>1. j \in 1 .. i - 1 /\ j - 1 \in 1 .. j - 1
        BY <3>1, <3>2, <3>5
      <4>2. E(j) < S(i) /\ E(j - 1) < S(j)
        BY <1>4, <3>2, <4>1
      <4>. QED
        BY <3>2, <3>4, <3>5, <4>2, SMTT(30)
    <3>8. i = j
      BY <3>1, <3>5, <3>6, <3>7
    <3>. QED
      BY <3>4, <3>8
  <2>11. k \in Stops(list, p + 1, v)
    <3>1. \A j \in p + 1 .. k - 1 : E(j) < last
      BY <2>9
    <3>2. E(k) >= last
      BY <1>3, <2>2, <2>4
    <3>. QED
      BY <1>7, <2>3, <2>6, <2>8, <2>10, <3>1, <3>2
  <2>. QED
    BY <2>11
<1>13. Stops(list, p + 1, v) # {} <=> IsHeld(v, list)
  BY <1>9, <1>11, <1>12
<1>14. \A k \in Stops(list, p + 1, v) : Reaches(k, v, list)
  BY <1>10 DEF Reaches, E, n, last
<1>. QED
  BY <1>13, <1>14

\* A turn from a place before which every interval ends before v.
LEMMA WalkOnIsExact ==
    ASSUME NEW list \in Lists, IsValid(list), NEW v \in Blocks \X Blocks, Start(v) <= End(v),
           NEW at \in Nat \ {0}, \A j \in 1 .. at - 1 : j <= Len(list) /\ End(list[j]) < Start(v)
    PROVE  /\ WalkOn(at, v, list) \in Nat
           /\ WalkOn(at, v, list) # 0 <=> IsHeld(v, list)
           /\ WalkOn(at, v, list) # 0 => Reaches(WalkOn(at, v, list), v, list)
<1>. DEFINE P == {i \in 1 .. Len(list) : End(list[i]) < Start(v)}
            p == Cardinality(P)
            from == Max({at, 1 + p})
<1>1. Len(list) \in Nat /\ DOMAIN list = 1 .. Len(list)
  BY EndsAreBlocks
<1>2. PartitionPoint(list, LAMBDA w : End(w) < Start(v)) = p
  <2>1. PartitionPoint(list, LAMBDA w : End(w) < Start(v))
          = Cardinality({i \in DOMAIN list : End(list[i]) < Start(v)})
    BY Zenon DEF PartitionPoint
  <2>. QED
    BY <1>1, <2>1
<1>3. ASSUME NEW i \in P, NEW j \in 1 .. i PROVE j \in P
  <2>1. i \in 1 .. Len(list) /\ j \in 1 .. Len(list) /\ (j = i \/ j \in 1 .. i - 1)
        /\ End(list[i]) < Start(v)
    BY <1>1
  <2>2. /\ Start(list[i]) \in Nat /\ End(list[i]) \in Nat /\ End(list[j]) \in Nat
        /\ Start(v) \in Nat
    BY <2>1, EndsAreBlocks, BlocksAreNumbers
  <2>3. Start(list[i]) <= End(list[i])
    BY <1>1, <2>1 DEF IsValid
  <2>4. j \in 1 .. i - 1 => End(list[j]) < Start(list[i])
    BY <2>1, ValidOrder
  <2>5. End(list[j]) < Start(v)
    BY <2>1, <2>2, <2>3, <2>4
  <2>. QED
    BY <2>1, <2>5
<1>4. p \in 0 .. Len(list) /\ P = 1 .. p
  <2>1. P \in SUBSET (1 .. Len(list))
    OBVIOUS
  <2>. HIDE DEF P
  <2>. QED
    BY <1>1, <1>3, <2>1, PrefixCounts
<1>. HIDE DEF p
<1>5. \A i \in 1 .. Len(list) : End(list[i]) < Start(v) <=> i <= p
  BY <1>4
<1>. HIDE DEF P
<1>6. from = p + 1
  <2>1. at - 1 <= p
    <3>1. CASE at = 1
      BY <1>4, <3>1
    <3>2. CASE at # 1
      <4>1. at - 1 \in 1 .. at - 1
        BY <3>2
      <4>2. at - 1 <= Len(list) /\ End(list[at - 1]) < Start(v)
        BY <4>1
      <4>3. at - 1 \in 1 .. Len(list)
        BY <1>1, <4>1, <4>2
      <4>. QED
        BY <1>5, <4>2, <4>3
    <3>. QED
      BY <3>1, <3>2
  <2>2. p \in Nat
    BY <1>1, <1>4
  <2>3. {at, 1 + p} \in SUBSET Nat /\ 1 + p \in {at, 1 + p} /\ \A i \in {at, 1 + p} : i <= 1 + p
    BY <2>1, <2>2
  <2>4. from = 1 + p
    BY <2>3, LargestIsMax
  <2>. QED
    BY <2>2, <2>4
<1>7. WalkOn(at, v, list) = IF Stops(list, p + 1, v) = {} THEN 0 ELSE Min(Stops(list, p + 1, v))
  <2>1. WalkOn(at, v, list) = IF at = 0 \/ Stops(list, from, v) = {} THEN 0
                              ELSE Min(Stops(list, from, v))
    BY <1>2, Zenon DEF WalkOn
  <2>. HIDE DEF from
  <2>. QED
    BY <1>6, <2>1
<1>8. /\ Stops(list, p + 1, v) # {} <=> IsHeld(v, list)
      /\ \A k \in Stops(list, p + 1, v) : Reaches(k, v, list)
  BY <1>4, <1>5, StopsAreExact
<1>9. \A k \in Stops(list, p + 1, v) : k \in Nat /\ k # 0
  BY <1>1, <1>8 DEF Reaches
<1>. DEFINE stops == Stops(list, p + 1, v)
<1>10. CASE stops = {}
  BY <1>7, <1>8, <1>10
<1>11. CASE stops # {}
  <2>1. stops \in SUBSET Nat
    BY <1>9
  <2>2. WalkOn(at, v, list) \in stops
    <3>1. WalkOn(at, v, list) = Min(stops)
      BY <1>7, <1>11
    <3>. HIDE DEF stops
    <3>. QED
      BY <1>11, <2>1, <3>1, LeastIsMin
  <2>. QED
    BY <1>8, <1>9, <1>11, <2>2
<1>. QED
  BY <1>10, <1>11

\* A turn keeps to numbers.
LEMMA WalkOnIsNat ==
    ASSUME NEW list \in Lists, NEW v, NEW at \in Nat
    PROVE  WalkOn(at, v, list) \in Nat
<1>. DEFINE P == {i \in DOMAIN list : End(list[i]) < Start(v)}
            p == PartitionPoint(list, LAMBDA w : End(w) < Start(v))
            from == Max({at, 1 + p})
            stops == Stops(list, from, v)
<1>1. p \in Nat
  <2>1. p = Cardinality(P)
    BY Zenon DEF PartitionPoint
  <2>2. IsFiniteSet(DOMAIN list)
    <3>1. DOMAIN list = 1 .. Len(list) /\ Len(list) \in Nat
      BY EndsAreBlocks
    <3>2. IsFiniteSet(1 .. Len(list))
      BY <3>1, FS_Interval
    <3>. QED
      BY <3>1, <3>2
  <2>3. P \subseteq DOMAIN list
    OBVIOUS
  <2>. HIDE DEF P, p
  <2>. QED
    BY <2>1, <2>2, <2>3, FS_Subset, FS_CardinalityType
<1>. HIDE DEF p
<1>2. from \in Nat
  <2>. DEFINE m == IF at <= 1 + p THEN 1 + p ELSE at
              s == {at, 1 + p}
  <2>1. s \in SUBSET Nat /\ m \in s /\ \A i \in s : i <= m
    BY <1>1
  <2>2. m \in Nat
    BY <1>1
  <2>. HIDE DEF m, s
  <2>3. Max(s) = m
    BY <2>1, LargestIsMax
  <2>. QED
    BY <2>2, <2>3 DEF s
<1>. HIDE DEF from
<1>3. stops \in SUBSET Nat
  <2>1. stops \subseteq from .. Len(list)
    BY DEF Stops
  <2>2. Len(list) \in Nat
    BY EndsAreBlocks
  <2>. HIDE DEF stops
  <2>. QED
    BY <1>2, <2>1, <2>2
<1>4. WalkOn(at, v, list) = IF at = 0 \/ stops = {} THEN 0 ELSE Min(stops)
  BY Zenon DEF WalkOn, from, p
<1>. HIDE DEF stops
<1>5. stops # {} => Min(stops) \in Nat
  BY <1>3, LeastIsMin
<1>. QED
  BY <1>4, <1>5

\* The walk takes one turn for each interval of the plan.
LEMMA WalkUnfolds ==
    ASSUME NEW plan \in Lists, NEW global \in Lists
    PROVE  \E h : /\ h[0] = 1
                  /\ \A k \in 1 .. Len(plan) : h[k] = WalkOn(h[k - 1], plan[k], global)
                  /\ Walk(plan, global) = h[Len(plan)]
<1>. DEFINE n == Len(plan)
            op == [p \in Nat \X (1 .. n) |-> WalkOn(p[1], plan[p[2]], global)]
<1>1. n \in Nat /\ DOMAIN plan = 1 .. n
  BY EndsAreBlocks
<1>2. op \in [Nat \X (1 .. n) -> Nat]
  <2>. SUFFICES ASSUME NEW a \in Nat, NEW i \in 1 .. n PROVE WalkOn(a, plan[i], global) \in Nat
    OBVIOUS
  <2>. QED
    BY WalkOnIsNat
<1>3. PICK f \in [SUBSET (1 .. n) -> Nat] : IsFoldOf(f, 1, op, n)
  <2>1. 1 \in Nat
    OBVIOUS
  <2>. HIDE DEF op, n
  <2>. QED
    BY <1>1, <1>2, <2>1, FoldExists, Zenon
<1>. DEFINE Loop(g, s) == IF s = {} THEN 1 ELSE WalkOn(g[s \ {Max(s)}], plan[Max(s)], global)
            Loops(g) == g = [s \in SUBSET (1 .. n) |-> Loop(g, s)]
            g == CHOOSE g : Loops(g)
<1>4. Walk(plan, global) = g[1 .. n]
  <2>1. Walk(plan, global)
          = (CHOOSE it : it = [s \in SUBSET DOMAIN plan |-> Loop(it, s)])[DOMAIN plan]
    BY Zenon DEF Walk, WalkOn, FoldLeft, MapThenFoldSet
  <2>. HIDE DEF Loop
  <2>. QED
    BY <1>1, <2>1, Zenon
<1>5. ASSUME NEW s \in SUBSET (1 .. n) PROVE f[s] = Loop(f, s)
  <2>1. CASE s = {}
    BY <1>3, <2>1 DEF IsFoldOf
  <2>2. CASE s # {}
    <3>1. PICK m \in s : \A i \in s : i <= m
      BY <1>1, <2>2, LargestExists
    <3>2. Max(s) = m
      <4>1. s \in SUBSET Nat
        BY <1>1
      <4>. QED
        BY <3>1, <4>1, LargestIsMax
    <3>3. f[s] = op[<<f[s \ {m}], m>>]
      BY <1>3, <3>1 DEF IsFoldOf
    <3>4. f[s \ {m}] \in Nat /\ m \in 1 .. n
      BY <1>3, <3>1
    <3>5. op[<<f[s \ {m}], m>>] = WalkOn(f[s \ {m}], plan[m], global)
      <4>. HIDE DEF n
      <4>. QED
        BY <3>4
    <3>. QED
      BY <2>2, <3>2, <3>3, <3>5
  <2>. QED
    BY <2>1, <2>2
<1>. HIDE DEF Loop, n, op
<1>6. Loops(f)
  BY <1>3, <1>5
<1>7. Loops(g)
  <2>. HIDE DEF Loops
  <2>. QED
    BY <1>6, Zenon
<1>. HIDE DEF g
<1>8. \A s \in SUBSET (1 .. n) : g[s] = Loop(g, s)
  BY <1>7
<1>. DEFINE h == [k \in 0 .. n |-> g[1 .. k]]
<1>9. h[0] = 1
  <2>1. 1 .. 0 = {} /\ 0 \in 0 .. n
    BY <1>1 DEF n
  <2>. QED
    BY <1>8, <2>1 DEF Loop
<1>10. ASSUME NEW k \in 1 .. n PROVE h[k] = WalkOn(h[k - 1], plan[k], global)
  <2>0. n \in Nat
    BY <1>1 DEF n
  <2>1. 1 .. k \in SUBSET (1 .. n) /\ k \in 1 .. k /\ (1 .. k) \ {k} = 1 .. k - 1 /\ 1 .. k # {}
    BY <2>0
  <2>2. Max(1 .. k) = k
    <3>1. 1 .. k \in SUBSET Nat /\ \A i \in 1 .. k : i <= k
      BY <2>0
    <3>. QED
      BY <2>1, <3>1, LargestIsMax
  <2>3. g[1 .. k] = WalkOn(g[1 .. k - 1], plan[k], global)
    BY <1>8, <2>1, <2>2 DEF Loop
  <2>4. k \in 0 .. n /\ k - 1 \in 0 .. n
    BY <2>0
  <2>. QED
    BY <2>3, <2>4
<1>11. Walk(plan, global) = h[n]
  <2>1. n \in 0 .. n
    BY <1>1 DEF n
  <2>. QED
    BY <1>4, <2>1
<1>. HIDE DEF h
<1>. QED
  BY <1>9, <1>10, <1>11 DEF n

\* The walk succeeds if and only if every block of the plan is in the list
\* (RecheckPlan::is_covered_by).
LEMMA WalkIsExact ==
    ASSUME NEW plan \in Lists, IsValid(plan), NEW global \in Lists, IsValid(global)
    PROVE  IsCoveredBy(plan, global) <=> Coverage(plan) \subseteq Coverage(global)
<1>. DEFINE n == Len(plan)
<1>1. n \in Nat /\ DOMAIN plan = 1 .. n
  BY EndsAreBlocks
<1>2. \A k \in 1 .. n : /\ plan[k] \in Blocks \X Blocks
                        /\ Start(plan[k]) \in Nat /\ End(plan[k]) \in Nat
                        /\ Start(plan[k]) <= End(plan[k])
  BY <1>1, EndsAreBlocks, BlocksAreNumbers DEF IsValid
<1>3. PICK h : /\ h[0] = 1
               /\ \A k \in 1 .. n : h[k] = WalkOn(h[k - 1], plan[k], global)
               /\ Walk(plan, global) = h[n]
  BY WalkUnfolds
<1>. DEFINE Inv(k) == /\ h[k] \in Nat
                      /\ h[k] # 0 <=> \A i \in 1 .. k : IsHeld(plan[i], global)
                      /\ h[k] # 0 /\ k > 0 => Reaches(h[k], plan[k], global)
                      /\ k = 0 => h[k] = 1
<1>4. Inv(0)
  BY <1>3
<1>5. ASSUME NEW k \in 1 .. n, Inv(k - 1) PROVE Inv(k)
  <2>. DEFINE at == h[k - 1]
              v == plan[k]
  <2>1. h[k] = WalkOn(at, v, global) /\ at \in Nat /\ k \in Nat /\ k > 0
    BY <1>1, <1>3, <1>5
  <2>2. v \in Blocks \X Blocks /\ Start(v) <= End(v) /\ Start(v) \in Nat
    BY <1>2
  <2>3. \A i : i \in 1 .. k <=> i \in 1 .. k - 1 \/ i = k
    BY <2>1
  <2>4. at # 0 <=> \A i \in 1 .. k - 1 : IsHeld(plan[i], global)
    BY <1>5
  <2>5. CASE at = 0
    <3>1. h[k] = 0
      BY <2>1, <2>5 DEF WalkOn
    <3>2. ~ \A i \in 1 .. k : IsHeld(plan[i], global)
      BY <2>3, <2>4, <2>5
    <3>. QED
      BY <2>1, <3>1, <3>2
  <2>6. CASE at # 0
    <3>1. ASSUME NEW j \in 1 .. at - 1 PROVE j <= Len(global) /\ End(global[j]) < Start(v)
      <4>1. k - 1 # 0
        <5>. SUFFICES ASSUME k - 1 = 0 PROVE FALSE
          OBVIOUS
        <5>1. at = 1
          BY <1>5
        <5>. QED
          BY <5>1
      <4>2. k - 1 > 0 /\ k - 1 \in 1 .. k - 1 /\ k - 1 \in 1 .. n
        BY <1>1, <2>1, <4>1
      <4>3. Reaches(at, plan[k - 1], global)
        BY <1>5, <2>6, <4>2
      <4>4. at \in 1 .. Len(global) /\ End(global[j]) < End(plan[k - 1])
        BY <4>3 DEF Reaches
      <4>5. Len(global) \in Nat
        BY EndsAreBlocks
      <4>6. j \in 1 .. Len(global)
        BY <2>1, <4>4, <4>5
      <4>7. End(global[j]) \in Nat /\ End(plan[k - 1]) \in Nat
        BY <1>2, <4>2, <4>6, EndsAreBlocks, BlocksAreNumbers
      <4>8. End(plan[k - 1]) < Start(v)
        BY <4>2, ValidOrder
      <4>. HIDE DEF at, v
      <4>. QED
        BY <2>2, <4>4, <4>6, <4>7, <4>8
    <3>2. at \in Nat \ {0}
      BY <2>1, <2>6
    <3>. DEFINE Earlier == \A i \in 1 .. k - 1 : IsHeld(plan[i], global)
                All == \A i \in 1 .. k : IsHeld(plan[i], global)
    <3>5. Earlier
      BY <2>4, <2>6
    <3>6. All <=> IsHeld(v, global)
      BY <2>3, <3>5, Zenon
    <3>. HIDE DEF at, v
    <3>3. /\ h[k] \in Nat
          /\ h[k] # 0 <=> IsHeld(v, global)
          /\ h[k] # 0 => Reaches(h[k], v, global)
      <4>1. /\ WalkOn(at, v, global) \in Nat
            /\ WalkOn(at, v, global) # 0 <=> IsHeld(v, global)
            /\ WalkOn(at, v, global) # 0 => Reaches(WalkOn(at, v, global), v, global)
        BY <2>2, <3>1, <3>2, WalkOnIsExact
      <4>. QED
        BY <2>1, <4>1
    <3>4. h[k] # 0 <=> All
      BY <3>3, <3>6, Zenon
    <3>. QED
      BY <2>1, <3>3, <3>4 DEF v
  <2>. QED
    BY <2>5, <2>6
<1>. HIDE DEF Inv
<1>6. \A k \in 0 .. n : Inv(k)
  <2>. DEFINE T == {k \in 0 .. n : ~ Inv(k)}
  <2>1. ASSUME NEW k \in T, \A m \in T : k <= m PROVE FALSE
    <3>1. k \in 1 .. n
      BY <1>1, <1>4, <2>1
    <3>2. k - 1 \in 0 .. n /\ ~ (k <= k - 1)
      BY <1>1, <3>1
    <3>3. Inv(k - 1)
      BY <2>1, <3>2
    <3>. QED
      BY <1>5, <2>1, <3>1, <3>3
  <2>2. T \subseteq Nat
    OBVIOUS
  <2>3. T = {}
    <3>. HIDE DEF T
    <3>1. T # {} => \E k \in T : \A m \in T : k <= m
      BY <2>2, LeastExists
    <3>. QED
      BY <2>1, <3>1
  <2>. QED
    BY <2>3
<1>7. Inv(n)
  BY <1>1, <1>6
<1>8. IsCoveredBy(plan, global) <=> \A i \in 1 .. n : IsHeld(plan[i], global)
  BY <1>3, <1>7 DEF IsCoveredBy, Inv
<1>9. \A i \in 1 .. n : \A c \in Start(plan[i]) .. End(plan[i]) : c \in Int
  BY <1>2
<1>10. \A c \in Int : c \in Coverage(global) <=> Holds(global, c)
  BY CoverageHolds
<1>11. (\A i \in 1 .. n : IsHeld(plan[i], global)) <=> Coverage(plan) \subseteq Coverage(global)
  <2>1. \A c : c \in Coverage(plan) <=> \E i \in 1 .. n : c \in Start(plan[i]) .. End(plan[i])
    BY <1>1 DEF Coverage
  <2>. QED
    BY <1>9, <1>10, <2>1 DEF IsHeld
<1>. QED
  BY <1>8, <1>11

\* A recheck visits every block of its archive once, in ascending order, and its archive
\* is accepted exactly if all of it is covered (RecheckPlan).
THEOREM RecheckIsExactAlways == SearchSpec => []RecheckIsExact
<1>1. IndexInv => RecheckIsExact
  <2>. SUFFICES ASSUME IndexInv PROVE RecheckIsExact
    OBVIOUS
  <2>1. archive \in Lists /\ IsValid(archive)
    BY FilterAssumption DEF IndexInv, Lists
  <2>2. intervals \in Lists /\ IsValid(intervals) /\ Coverage(intervals) = scanned
    BY DEF IndexInv
  <2>3. /\ \A o \in Nat : BlockAt(archive, o) = None <=> o >= BlockCount(archive)
        /\ \A o \in 1 .. BlockCount(archive) - 1 : BlockAt(archive, o - 1) < BlockAt(archive, o)
        /\ {BlockAt(archive, o) : o \in 0 .. BlockCount(archive) - 1} = Coverage(archive)
    BY <2>1, PlanIsExact
  <2>4. IsCoveredBy(archive, intervals) <=> Coverage(archive) \subseteq scanned
    BY <2>1, <2>2, WalkIsExact
  <2>5. \A o \in 0 .. MaxBlock + 1 : o \in Nat
    BY FilterAssumption
  <2>6. \A o \in 0 .. MaxBlock + 1 : BlockAt(archive, o) = None <=> o >= BlockCount(archive)
    BY <2>3, <2>5
  <2>. QED
    BY <2>3, <2>4, <2>6 DEF RecheckIsExact
<1>. QED
  BY <1>1, IndexIsKept, PTL

-----------------------------------------------------------------------------
(* The search of a block, for a curve whose arithmetic is right *)

\* The key that a thread compares with a step.
At(d, t, s) == FoundKey(d, [thread |-> t, step |-> s])

\* A dispatch is of the keys that come next in the block, and its grid has a place
\* for each of them.
IsPart(d) ==
    /\ d.start = BlockStart(block) + done
    /\ d.threads \in 1 .. MaxThreads
    /\ d.steps \in 1 .. MaxSteps
    /\ d.valid \in 1 .. BlockSize - done
    /\ d.valid <= d.threads * d.steps

\* While no thread has found the target, what they are through with has been tried and
\* is not the target; when one has found it, the place it reports is that of the target.
IsRunning ==
    /\ IsPart(job)
    /\ DOMAIN compared = 0 .. job.threads - 1
    /\ \A t \in DOMAIN compared : compared[t] \in 0 .. ThreadKeys(job, t)
    /\ tried \subseteq KeysOf(block, done + job.valid)
    /\ result = None =>
         /\ target \notin tried
         /\ KeysOf(block, done) \subseteq tried
         /\ \A t \in DOMAIN compared : \A s \in 0 .. compared[t] - 1 : At(job, t, s) \in tried
    /\ result # None => target \in tried /\ FoundKey(job, result) = target

\* A part of a block counts only when its keys have all been tried.
SearchInv ==
    /\ target \in Targets
    /\ phase # "refuted"
    /\ phase \in {"block", "gpu"} => block \in Blocks /\ done \in 0 .. BlockSize
    /\ phase = "block" => tried = KeysOf(block, done) /\ target \notin tried
    /\ phase = "gpu" => IsRunning

\* The keys of a block are keys of the range.
LEMMA BlocksLieInRange ==
    ASSUME NEW b \in Blocks, NEW k \in BlockStart(b) .. BlockStart(b) + BlockSize - 1
    PROVE  k \in Keys /\ k \in Numbers /\ k # 0
<1>. DEFINE before == b * BlockSize
            end == (b + 1) * BlockSize
            all == TotalBlocks * BlockSize
<1>1. /\ b \in Nat /\ MaxBlock \in Nat /\ TotalBlocks \in Nat /\ b + 1 <= TotalBlocks
      /\ RangeMin \in Nat /\ RangeMin > 0 /\ BlockSize \in Nat \ {0} /\ CurveOrder \in Nat
  BY BlocksAreNumbers, FilterAssumption, SearchAssumption DEF TotalBlocks
<1>2. before \in Nat /\ end \in Nat /\ all \in Nat /\ end = before + BlockSize
  BY <1>1, NextMultiple
<1>3. end <= all
  <2>1. b + 1 \in Nat
    BY <1>1
  <2>. HIDE DEF end, all
  <2>. QED
    BY <1>1, <2>1, FactorsAreOrdered DEF end, all
<1>4. k \in RangeMin + before .. RangeMin + before + BlockSize - 1
  BY DEF BlockStart
<1>5. RangeMax = RangeMin + all - 1 /\ RangeMax < CurveOrder
  BY SearchAssumption DEF RangeMax
<1>. HIDE DEF before, end, all
<1>. QED
  BY <1>1, <1>2, <1>3, <1>4, <1>5 DEF Keys, Numbers

\* The places of the threads are the keys of the dispatch: none is left out, and
\* none is outside (ThreadKeys, FoundKey).
LEMMA PlacesAreKeys ==
    ASSUME NEW d, d.start \in Nat, d.threads \in Nat \ {0}, d.steps \in Nat \ {0},
           d.valid \in Nat \ {0}, d.valid <= d.threads * d.steps
    PROVE  /\ \A t \in 0 .. d.threads - 1 : \A s \in 0 .. ThreadKeys(d, t) - 1 :
                At(d, t, s) \in d.start .. d.start + d.valid - 1
           /\ \A k \in d.start .. d.start + d.valid - 1 :
                \E t \in 0 .. d.threads - 1 : \E s \in 0 .. ThreadKeys(d, t) - 1 :
                  k = At(d, t, s)
           /\ \A t \in 0 .. d.threads - 1 : ThreadKeys(d, t) \in 0 .. d.steps
<1>1. ASSUME NEW t \in Nat
      PROVE  /\ t * d.steps \in Nat
             /\ \A s \in Int : At(d, t, s) = d.start + t * d.steps + s
             /\ ThreadKeys(d, t) = IF t * d.steps >= d.valid THEN 0
                                   ELSE IF d.steps < d.valid - t * d.steps THEN d.steps
                                   ELSE d.valid - t * d.steps
  BY DEF At, FoundKey, ThreadKeys, Lesser
<1>2. ASSUME NEW t \in 0 .. d.threads - 1
      PROVE  /\ ThreadKeys(d, t) \in 0 .. d.steps
             /\ \A s \in 0 .. ThreadKeys(d, t) - 1 : At(d, t, s) \in d.start .. d.start + d.valid - 1
  <2>. DEFINE first == t * d.steps
  <2>1. /\ first \in Nat
        /\ \A s \in Int : At(d, t, s) = d.start + first + s
        /\ ThreadKeys(d, t) = IF first >= d.valid THEN 0
                              ELSE IF d.steps < d.valid - first THEN d.steps
                              ELSE d.valid - first
    <3>1. t \in Nat
      OBVIOUS
    <3>. QED
      BY <1>1, <3>1
  <2>. HIDE DEF first
  <2>. QED
    BY <2>1
<1>3. ASSUME NEW k \in d.start .. d.start + d.valid - 1
      PROVE  \E t \in 0 .. d.threads - 1 : \E s \in 0 .. ThreadKeys(d, t) - 1 : k = At(d, t, s)
  <2>. DEFINE n == k - d.start
              t == n \div d.steps
              s == n % d.steps
              first == t * d.steps
              all == d.threads * d.steps
  <2>1. n \in Nat /\ n < d.valid /\ k = d.start + n
    OBVIOUS
  <2>2. t \in Nat /\ s \in 0 .. d.steps - 1 /\ n = first + s
    <3>. HIDE DEF n
    <3>. QED
      BY <2>1, Divides
  <2>. HIDE DEF n, t, s
  <2>3. first \in Nat /\ all \in Nat /\ n < all
    <3>1. first \in Nat
      BY <2>2
    <3>2. all \in Nat /\ d.valid <= all
      OBVIOUS
    <3>. HIDE DEF all, first
    <3>. QED
      BY <2>1, <3>1, <3>2
  <2>4. t < d.threads
    <3>. SUFFICES ASSUME d.threads <= t PROVE FALSE
      BY <2>2
    <3>1. all <= first
      BY <2>2, FactorsAreOrdered
    <3>. HIDE DEF all, first
    <3>. QED
      BY <2>2, <2>3, <3>1
  <2>5. /\ At(d, t, s) = d.start + first + s
        /\ ThreadKeys(d, t) = IF first >= d.valid THEN 0
                              ELSE IF d.steps < d.valid - first THEN d.steps
                              ELSE d.valid - first
    <3>1. s \in Int
      BY <2>2
    <3>. QED
      BY <1>1, <2>2, <3>1
  <2>. HIDE DEF first, all
  <2>6. t \in 0 .. d.threads - 1 /\ s \in 0 .. ThreadKeys(d, t) - 1
    BY <2>1, <2>2, <2>3, <2>4, <2>5
  <2>7. k = At(d, t, s)
    BY <2>1, <2>2, <2>3, <2>5
  <2>. QED
    BY <2>6, <2>7
<1>. QED
  BY <1>2, <1>3

\* A dispatch has a size, and its keys are keys of the range.
LEMMA PartIs ==
    ASSUME block \in Blocks, done \in 0 .. BlockSize, NEW d, IsPart(d)
    PROVE  /\ BlockStart(block) \in Nat /\ BlockSize \in Nat /\ done \in Nat
           /\ d.start \in Nat /\ d.start = BlockStart(block) + done
           /\ d.threads \in Nat \ {0} /\ d.steps \in Nat \ {0}
           /\ d.valid \in Nat \ {0} /\ d.valid <= d.threads * d.steps
           /\ \A k \in KeysOf(block, done + d.valid) : k \in Keys /\ k \in Numbers /\ k # 0
<1>1. /\ block \in Nat /\ BlockSize \in Nat \ {0} /\ RangeMin \in Nat
      /\ MaxThreads \in Nat /\ MaxSteps \in Nat
  BY BlocksAreNumbers, SearchAssumption
<1>2. BlockStart(block) \in Nat
  BY <1>1 DEF BlockStart
<1>3. /\ d.start = BlockStart(block) + done
      /\ d.threads \in Nat \ {0} /\ d.steps \in Nat \ {0} /\ d.valid <= d.threads * d.steps
  BY <1>1 DEF IsPart
<1>4. d.valid \in 1 .. BlockSize - done
  BY DEF IsPart
<1>5. \A k \in KeysOf(block, done + d.valid) :
        k \in BlockStart(block) .. BlockStart(block) + BlockSize - 1
  BY <1>1, <1>2, <1>4 DEF KeysOf
<1>. QED
  BY <1>1, <1>2, <1>3, <1>4, <1>5, BlocksLieInRange

\* What a thread compares with a step is the point of the key at its place
\* (precompute_initial_points, the kernel's batches).
LEMMA CandidateIs ==
    ASSUME DispatchesAreExact, block \in Blocks, done \in 0 .. BlockSize,
           NEW d, IsPart(d), NEW t \in 0 .. d.threads - 1, NEW s \in 0 .. ThreadKeys(d, t) - 1
    PROVE  /\ At(d, t, s) \in KeysOf(block, done + d.valid)
           /\ Candidate(d, t, s) = PublicKeyOf[At(d, t, s)]
<1>. DEFINE n == ThreadKeys(d, t)
            first == t * d.steps
            grid == <<d.threads, d.steps>>
            from == At(d, t, 0)
<1>1. /\ BlockStart(block) \in Nat /\ done \in Nat
      /\ d.start \in Nat /\ d.start = BlockStart(block) + done
      /\ d.threads \in Nat \ {0} /\ d.steps \in Nat \ {0}
      /\ d.valid \in Nat \ {0} /\ d.valid <= d.threads * d.steps
      /\ \A k \in KeysOf(block, done + d.valid) : k \in Keys /\ k \in Numbers /\ k # 0
  BY PartIs
<1>2. d.threads \in 1 .. MaxThreads /\ d.steps \in 1 .. MaxSteps /\ CurveOrder \in Nat
      /\ MaxSteps \in Nat
  BY SearchAssumption DEF IsPart
<1>3. n \in 0 .. d.steps /\ s \in Nat /\ s < n
  BY <1>1, PlacesAreKeys
<1>4. \A i \in 0 .. n - 1 : At(d, t, i) \in d.start .. d.start + d.valid - 1
  BY <1>1, PlacesAreKeys
<1>5. \A k \in d.start .. d.start + d.valid - 1 : k \in KeysOf(block, done + d.valid)
  BY <1>1 DEF KeysOf
<1>6. t \in Nat /\ first \in Nat
  <2>1. t \in Nat
    BY <1>1
  <2>. QED
    BY <1>1, <2>1
<1>7. \A i \in 0 .. n - 1 : At(d, t, i) = d.start + first + i
  BY <1>3 DEF At, FoundKey
<1>. HIDE DEF n, first, from
<1>8. from = d.start + first /\ At(d, t, s) = from + s
  BY <1>1, <1>3, <1>6, <1>7 DEF from
<1>9. /\ from \in Numbers /\ d.start \in Numbers
      /\ At(d, t, s) \in KeysOf(block, done + d.valid)
  <2>1. 0 \in 0 .. n - 1 /\ s \in 0 .. n - 1 /\ d.start \in d.start .. d.start + d.valid - 1
    BY <1>1, <1>3
  <2>. QED
    BY <1>1, <1>4, <1>5, <2>1 DEF from
<1>10. \A k \in Numbers : k % CurveOrder = k
  BY <1>2 DEF Numbers
<1>11. InitialPointsOf[d.start][grid][t + 1] = PublicKeyOf[from]
  <2>1. grid \in Grids /\ grid[1] = d.threads /\ grid[2] = d.steps
    BY <1>2 DEF Grids
  <2>. HIDE DEF grid
  <2>2. InitialPointsOf[d.start][grid]
          = [i \in 1 .. grid[1] |-> PublicKeyOf[(d.start + (i - 1) * grid[2]) % CurveOrder]]
    BY <1>9, <2>1 DEF DispatchesAreExact
  <2>3. t + 1 \in 1 .. d.threads /\ (t + 1) - 1 = t
    BY <1>1, <1>6
  <2>4. InitialPointsOf[d.start][grid][t + 1]
          = PublicKeyOf[(d.start + ((t + 1) - 1) * grid[2]) % CurveOrder]
    BY <2>1, <2>2, <2>3
  <2>5. d.start + ((t + 1) - 1) * grid[2] = from
    BY <1>8, <2>1, <2>3 DEF first
  <2>. QED
    BY <1>9, <1>10, <2>4, <2>5
<1>12. CandidatesOf[PublicKeyOf[from]][n][s + 1] = PublicKeyOf[from + s]
  <2>1. n \in 1 .. MaxSteps /\ s + 1 \in 1 .. n
    BY <1>2, <1>3
  <2>2. CandidatesOf[PublicKeyOf[from]][n]
          = [i \in 1 .. n |-> PublicKeyOf[(from + i - 1) % CurveOrder]]
    BY <1>9, <2>1 DEF DispatchesAreExact
  <2>3. CandidatesOf[PublicKeyOf[from]][n][s + 1] = PublicKeyOf[(from + (s + 1) - 1) % CurveOrder]
    BY <2>1, <2>2
  <2>4. from + (s + 1) - 1 = from + s /\ from + s \in Numbers
    BY <1>1, <1>3, <1>6, <1>8, <1>9
  <2>. QED
    BY <1>10, <2>3, <2>4
<1>. QED
  BY <1>8, <1>9, <1>11, <1>12 DEF Candidate, n, grid

\* A mode's grid has a place for each key of its part (ThreadCount).
LEMMA PartOf ==
    ASSUME NEW p \in Profiles, block \in Blocks, done \in 0 .. BlockSize - 1
    PROVE  LET keys == SubKeys(p)
           IN  /\ keys \in 1 .. BlockSize - done
               /\ p.steps \in 1 .. MaxSteps
               /\ ThreadCount(keys, p.steps) \in Int
               /\ ThreadCount(keys, p.steps) <= MaxThreads
<1>. DEFINE keys == SubKeys(p)
            all == p.threads * p.steps
            count == ThreadCount(keys, p.steps)
<1>1. /\ p.threads \in 1 .. MaxThreads /\ p.steps \in 1 .. MaxSteps
      /\ MaxThreads \in Nat /\ MaxSteps \in Nat /\ BlockSize \in Nat
  BY SearchAssumption DEF Profile
<1>2. p.threads \in Nat \ {0} /\ p.steps \in Nat \ {0} /\ done \in Nat /\ done < BlockSize
  BY <1>1
<1>3. all \in Nat /\ all > 0
  BY <1>2
<1>4. keys = IF BlockSize - done < all THEN BlockSize - done ELSE all
  BY DEF SubKeys, Lesser
<1>. HIDE DEF all, keys
<1>5. keys \in 1 .. BlockSize - done /\ keys <= all
  BY <1>1, <1>2, <1>3, <1>4
<1>6. count <= p.threads
  <2>. DEFINE sum == keys + p.steps - 1
              below == count * p.steps
              above == (p.threads + 1) * p.steps
  <2>1. sum \in Nat /\ count = sum \div p.steps
    BY <1>2, <1>5 DEF ThreadCount, DivCeil
  <2>2. count \in Nat /\ below <= sum
    <3>. HIDE DEF count, sum
    <3>1. /\ sum \div p.steps \in Nat /\ sum % p.steps \in 0 .. p.steps - 1
          /\ sum = (sum \div p.steps) * p.steps + (sum % p.steps)
      BY <1>2, <2>1, Divides
    <3>. QED
      BY <1>2, <2>1, <3>1
  <2>3. above = all + p.steps /\ above \in Nat
    <3>1. p.threads * p.steps \in Nat /\ above = p.threads * p.steps + p.steps
      BY <1>2, NextMultiple
    <3>. HIDE DEF above
    <3>. QED
      BY <1>2, <3>1 DEF all
  <2>4. below \in Nat
    BY <1>2, <2>2
  <2>5. below < above
    <3>. HIDE DEF below, above
    <3>. QED
      BY <1>2, <1>3, <1>5, <2>1, <2>2, <2>3, <2>4
  <2>. HIDE DEF count
  <2>6. p.threads + 1 <= count => above <= below
    <3>1. p.threads + 1 \in Nat
      BY <1>2
    <3>. QED
      BY <1>2, <2>2, <3>1, FactorsAreOrdered
  <2>. HIDE DEF below, above
  <2>. QED
    BY <1>2, <2>2, <2>3, <2>4, <2>5, <2>6
<1>7. count \in Int
  <2>1. keys + p.steps - 1 \in Int
    BY <1>2, <1>5
  <2>. QED
    BY <1>2, <2>1 DEF ThreadCount, DivCeil
<1>. HIDE DEF count
<1>8. count <= MaxThreads
  BY <1>1, <1>6, <1>7
<1>. QED
  BY <1>1, <1>5, <1>7, <1>8 DEF keys, count

\* A key is the target exactly if the hash of its point is the target's.
LEMMA HitIsTarget ==
    ASSUME KeysAreApart, target \in Targets, NEW k \in Keys, k \in Numbers, k # 0
    PROVE  /\ ~PublicKeyOf[k].infinity /\ HashOf[PublicKeyOf[k]] = TargetHash <=> k = target
           /\ {j \in Numbers : PublicKeyOf[j] = PublicKeyOf[k]} = {k}
<1>1. ~PublicKeyOf[k].infinity
  BY Zenon DEF KeysAreApart
<1>2. HashOf[PublicKeyOf[k]] = TargetHash <=> k = target
  BY Zenon DEF KeysAreApart, HashesAreApart, TargetHash
<1>3. \A j \in Numbers : PublicKeyOf[j] = PublicKeyOf[k] <=> j = k
  BY Zenon DEF KeysAreApart
<1>4. {j \in Numbers : PublicKeyOf[j] = PublicKeyOf[k]} = {k}
  BY <1>3
<1>. QED
  BY <1>1, <1>2, <1>4, Zenon

\* A block that has been chosen has nothing compared.
LEMMA SearchOfSelect ==
    ASSUME SearchInv, NEW b \in Blocks, SelectBlock(b)
    PROVE  SearchInv'
<1>1. /\ phase' = "block" /\ block' = b /\ done' = 0 /\ tried' = {} /\ target' = target
  BY DEF SelectBlock
<1>2. BlockStart(b) \in Nat /\ BlockSize \in Nat
  BY BlocksAreNumbers, SearchAssumption DEF BlockStart
<1>3. KeysOf(b, 0) = {} /\ 0 \in 0 .. BlockSize
  BY <1>2 DEF KeysOf
<1>. QED
  BY <1>1, <1>3 DEF SearchInv

\* A dispatch begins with nothing but the earlier parts compared.
LEMMA SearchOfDispatch ==
    ASSUME SearchInv, NEW p \in Profiles, Dispatch(p)
    PROVE  SearchInv'
<1>. DEFINE keys == SubKeys(p)
            d == [start |-> PartStart(p), steps |-> p.steps, valid |-> keys,
                  threads |-> ThreadCount(keys, p.steps)]
<1>1. /\ phase = "block" /\ done < BlockSize /\ IsDispatch(d) /\ phase' = "gpu"
      /\ job' = d /\ compared' = [t \in 0 .. d.threads - 1 |-> 0] /\ result' = None
      /\ target' = target /\ block' = block /\ done' = done /\ tried' = tried
  BY DEF Dispatch
<1>2. /\ target \in Targets /\ block \in Blocks /\ done \in 0 .. BlockSize
      /\ tried = KeysOf(block, done) /\ target \notin tried
  BY <1>1 DEF SearchInv
<1>3. BlockSize \in Nat
  BY SearchAssumption
<1>4. /\ keys \in 1 .. BlockSize - done /\ p.steps \in 1 .. MaxSteps
      /\ ThreadCount(keys, p.steps) \in Int /\ ThreadCount(keys, p.steps) <= MaxThreads
  <2>1. done \in 0 .. BlockSize - 1
    BY <1>1, <1>2, <1>3
  <2>. QED
    BY <1>2, <2>1, PartOf
<1>5. IsPart(d)
  <2>1. /\ d.start = BlockStart(block) + done /\ d.steps = p.steps /\ d.valid = keys
        /\ d.threads = ThreadCount(keys, p.steps)
    BY DEF PartStart
  <2>2. d.threads > 0 /\ d.valid <= d.threads * d.steps
    BY <1>1 DEF IsDispatch
  <2>3. MaxThreads \in Nat
    BY SearchAssumption
  <2>. HIDE DEF d, keys
  <2>4. d.threads \in 1 .. MaxThreads
    BY <1>4, <2>1, <2>2, <2>3
  <2>. QED
    BY <1>4, <2>1, <2>2, <2>4 DEF IsPart
<1>. HIDE DEF d
<1>6. /\ BlockStart(block) \in Nat /\ done \in Nat /\ d.start \in Nat
      /\ d.threads \in Nat \ {0} /\ d.steps \in Nat \ {0}
      /\ d.valid \in Nat \ {0} /\ d.valid <= d.threads * d.steps
  BY <1>2, <1>5, PartIs
<1>7. \A t \in 0 .. d.threads - 1 : ThreadKeys(d, t) \in 0 .. d.steps
  BY <1>6, PlacesAreKeys
<1>8. IsPart(job)'
  BY <1>1, <1>5 DEF IsPart
<1>9. /\ DOMAIN compared' = 0 .. job'.threads - 1
      /\ \A t \in DOMAIN compared' : compared'[t] = 0
  BY <1>1
<1>10. \A t \in DOMAIN compared' : compared'[t] \in 0 .. ThreadKeys(job', t)
  BY <1>1, <1>6, <1>7, <1>9
<1>11. KeysOf(block, done) \subseteq KeysOf(block, done + d.valid)
  BY <1>6 DEF KeysOf
<1>12. \A t \in DOMAIN compared' : \A s \in 0 .. compared'[t] - 1 : FALSE
  BY <1>9
<1>13. IsRunning'
  BY <1>1, <1>2, <1>8, <1>9, <1>10, <1>11, <1>12 DEF IsRunning
<1>. QED
  BY <1>1, <1>2, <1>13 DEF SearchInv

\* The comparison of a candidate tries its key, and reports it exactly if it is the
\* target.
LEMMA SearchOfCompare ==
    ASSUME DispatchesAreExact, KeysAreApart, SearchInv, NEW t \in DOMAIN compared, Compare(t)
    PROVE  SearchInv'
<1>. DEFINE s == compared[t]
            n == ThreadKeys(job, t)
            k == At(job, t, s)
            place == [thread |-> t, step |-> s]
            found == ~PublicKeyOf[k].infinity /\ HashOf[PublicKeyOf[k]] = TargetHash
<1>1. /\ phase = "gpu" /\ s < n
      /\ UNCHANGED <<vars, target, cursor, phase, block, done, job>>
      /\ \E point \in {Candidate(job, t, s)} :
           /\ IF ~point.infinity /\ HashOf[point] = TargetHash
              THEN /\ result' = place
                   /\ compared' = [compared EXCEPT ![t] = n]
              ELSE /\ compared' = [compared EXCEPT ![t] = @ + 1]
                   /\ UNCHANGED result
           /\ tried' = tried \cup {j \in Numbers : PublicKeyOf[j] = point}
  BY Zenon DEF Compare
<1>2. /\ target \in Targets /\ block \in Blocks /\ done \in 0 .. BlockSize /\ IsRunning
      /\ phase # "refuted"
  BY <1>1 DEF SearchInv
<1>3. /\ IsPart(job) /\ DOMAIN compared = 0 .. job.threads - 1
      /\ \A u \in DOMAIN compared : compared[u] \in 0 .. ThreadKeys(job, u)
      /\ tried \subseteq KeysOf(block, done + job.valid)
  BY <1>2 DEF IsRunning
<1>4. /\ job.start \in Nat /\ job.threads \in Nat \ {0} /\ job.steps \in Nat \ {0}
      /\ job.valid \in Nat \ {0} /\ job.valid <= job.threads * job.steps
      /\ \A j \in KeysOf(block, done + job.valid) : j \in Keys /\ j \in Numbers /\ j # 0
  BY <1>2, <1>3, PartIs
<1>5. n \in Nat /\ s \in 0 .. n - 1
  <2>1. \A u \in 0 .. job.threads - 1 : ThreadKeys(job, u) \in 0 .. job.steps
    BY <1>4, PlacesAreKeys
  <2>2. n \in 0 .. job.steps /\ s \in 0 .. n
    BY <1>3, <2>1
  <2>. HIDE DEF n, s
  <2>. QED
    BY <1>1, <1>4, <2>2
<1>6. k \in KeysOf(block, done + job.valid) /\ Candidate(job, t, s) = PublicKeyOf[k]
  BY <1>2, <1>3, <1>5, CandidateIs
<1>7. (found <=> k = target) /\ {j \in Numbers : PublicKeyOf[j] = PublicKeyOf[k]} = {k}
  BY <1>2, <1>4, <1>6, HitIsTarget
<1>8. FoundKey(job, place) = k /\ place # None
  <2>1. t \in Nat /\ s \in Nat
    BY <1>3, <1>4, <1>5
  <2>2. place \in [thread : Nat, step : Nat]
    BY <2>1
  <2>. QED
    BY <2>2, SearchAssumption DEF At
<1>9. /\ found => result' = place /\ compared' = [compared EXCEPT ![t] = n]
      /\ ~found => result' = result /\ compared' = [compared EXCEPT ![t] = s + 1]
      /\ tried' = tried \cup {k}
  BY <1>1, <1>6, <1>7
<1>10. IsPart(job)' /\ block' = block /\ done' = done /\ job' = job /\ target' = target
       /\ phase' = phase
  BY <1>1, <1>3 DEF IsPart
<1>11. tried' \subseteq KeysOf(block', done' + job'.valid)
  BY <1>3, <1>6, <1>9, <1>10
<1>. HIDE DEF found, n, k, place
<1>12. CASE found
  <2>1. DOMAIN compared' = DOMAIN compared
        /\ \A u \in DOMAIN compared : compared'[u] = IF u = t THEN n ELSE compared[u]
    BY <1>9, <1>12
  <2>2. \A u \in DOMAIN compared : compared'[u] \in 0 .. ThreadKeys(job, u)
    BY <1>3, <1>5, <2>1 DEF n
  <2>3. target \in tried' /\ result' # None /\ FoundKey(job, result') = target
    BY <1>7, <1>8, <1>9, <1>12
  <2>. QED
    BY <1>1, <1>2, <1>3, <1>10, <1>11, <2>1, <2>2, <2>3 DEF SearchInv, IsRunning
<1>13. CASE ~found
  <2>1. DOMAIN compared' = DOMAIN compared
        /\ \A u \in DOMAIN compared : compared'[u] = IF u = t THEN s + 1 ELSE compared[u]
    BY <1>9, <1>13
  <2>2. \A u \in DOMAIN compared : compared'[u] \in 0 .. ThreadKeys(job, u)
    BY <1>3, <1>5, <2>1 DEF n
  <2>3. result' = result /\ k # target
    BY <1>7, <1>9, <1>13
  <2>4. CASE result = None
    <3>1. /\ target \notin tried /\ KeysOf(block, done) \subseteq tried
          /\ \A u \in DOMAIN compared : \A i \in 0 .. compared[u] - 1 : At(job, u, i) \in tried
      BY <1>2, <2>4 DEF IsRunning
    <3>2. target \notin tried' /\ KeysOf(block, done) \subseteq tried'
      BY <1>9, <2>3, <3>1
    <3>3. \A u \in DOMAIN compared : \A i \in 0 .. compared'[u] - 1 : At(job, u, i) \in tried'
      <4>1. ASSUME NEW i \in 0 .. s PROVE At(job, t, i) \in tried'
        <5>1. i \in 0 .. s - 1 \/ i = s
          BY <1>5
        <5>. QED
          BY <1>9, <3>1, <5>1 DEF k
      <4>2. (s + 1) - 1 = s
        BY <1>5
      <4>. QED
        BY <1>9, <2>1, <3>1, <4>1, <4>2
    <3>. QED
      BY <1>1, <1>2, <1>3, <1>10, <1>11, <2>1, <2>2, <2>3, <2>4, <3>2, <3>3
         DEF SearchInv, IsRunning
  <2>5. CASE result # None
    <3>1. target \in tried' /\ FoundKey(job, result) = target
      BY <1>2, <1>9, <2>5 DEF IsRunning
    <3>. QED
      BY <1>1, <1>2, <1>3, <1>10, <1>11, <2>1, <2>2, <2>3, <2>5, <3>1
         DEF SearchInv, IsRunning
  <2>. QED
    BY <2>4, <2>5
<1>. QED
  BY <1>12, <1>13

\* A dispatch that found nothing has tried all its keys.
LEMMA SearchOfNothing == SearchInv /\ FindNothing => SearchInv'
<1>. SUFFICES ASSUME SearchInv, FindNothing PROVE SearchInv'
  OBVIOUS
<1>1. /\ phase = "gpu" /\ AllReturned /\ result = None
      /\ done' = done + job.valid /\ done + job.valid <= BlockSize
      /\ phase' = "block" /\ block' = block /\ tried' = tried /\ target' = target
  BY DEF FindNothing, EndDispatch
<1>2. /\ target \in Targets /\ block \in Blocks /\ done \in 0 .. BlockSize /\ IsRunning
  BY <1>1 DEF SearchInv
<1>3. /\ IsPart(job) /\ DOMAIN compared = 0 .. job.threads - 1
      /\ tried \subseteq KeysOf(block, done + job.valid)
      /\ target \notin tried /\ KeysOf(block, done) \subseteq tried
      /\ \A t \in DOMAIN compared : \A s \in 0 .. compared[t] - 1 : At(job, t, s) \in tried
  BY <1>1, <1>2 DEF IsRunning
<1>4. /\ BlockStart(block) \in Nat /\ BlockSize \in Nat /\ done \in Nat
      /\ job.start \in Nat /\ job.start = BlockStart(block) + done
      /\ job.threads \in Nat \ {0} /\ job.steps \in Nat \ {0}
      /\ job.valid \in Nat \ {0} /\ job.valid <= job.threads * job.steps
  BY <1>2, <1>3, PartIs
<1>5. ASSUME NEW k \in KeysOf(block, done + job.valid) PROVE k \in tried
  <2>1. k \in KeysOf(block, done) \/ k \in job.start .. job.start + job.valid - 1
    BY <1>4 DEF KeysOf
  <2>2. CASE k \in job.start .. job.start + job.valid - 1
    <3>1. PICK t \in 0 .. job.threads - 1 : \E s \in 0 .. ThreadKeys(job, t) - 1 : k = At(job, t, s)
      BY <1>4, <2>2, PlacesAreKeys
    <3>2. t \in DOMAIN compared /\ compared[t] = ThreadKeys(job, t)
      BY <1>1, <1>3 DEF AllReturned
    <3>. QED
      BY <1>3, <3>1, <3>2
  <2>. QED
    BY <1>3, <2>1, <2>2
<1>6. tried = KeysOf(block, done + job.valid)
  BY <1>3, <1>5
<1>7. done + job.valid \in 0 .. BlockSize
  BY <1>1, <1>4
<1>. QED
  BY <1>1, <1>2, <1>3, <1>6, <1>7 DEF SearchInv

\* What a thread reports is the target, and the CPU agrees.
LEMMA SearchOfFound == SearchInv /\ FindKey => SearchInv'
<1>. SUFFICES ASSUME SearchInv, FindKey PROVE SearchInv'
  OBVIOUS
<1>1. /\ phase = "gpu" /\ result # None /\ target' = target
      /\ phase' = IF Verified(FoundKey(job, result)) THEN "hit" ELSE "refuted"
  BY DEF FindKey, EndDispatch
<1>2. /\ target \in Targets /\ block \in Blocks /\ done \in 0 .. BlockSize /\ IsRunning
  BY <1>1 DEF SearchInv
<1>3. /\ IsPart(job) /\ tried \subseteq KeysOf(block, done + job.valid)
      /\ target \in tried /\ FoundKey(job, result) = target
  BY <1>1, <1>2 DEF IsRunning
<1>4. target \in Keys
  BY <1>2, <1>3, PartIs
<1>5. phase' = "hit"
  BY <1>1, <1>3, <1>4, Zenon DEF Verified
<1>. QED
  BY <1>1, <1>2, <1>5 DEF SearchInv

\* The search keeps to it, in whatever order the threads run and wherever it ends.
LEMMA SearchStep ==
    ASSUME DispatchesAreExact, KeysAreApart, SearchInv, [SearchNext]_allVars
    PROVE  SearchInv'
<1>1. ASSUME target' = target, phase' \notin {"block", "gpu", "refuted"} PROVE SearchInv'
  BY <1>1 DEF SearchInv
<1>2. CASE TestCpu
  BY <1>1, <1>2 DEF TestCpu
<1>3. CASE TestGpu
  BY <1>1, <1>3 DEF TestGpu
<1>4. ASSUME NEW b \in Blocks, SelectBlock(b) PROVE SearchInv'
  BY <1>4, SearchOfSelect
<1>5. ASSUME NEW p \in Profiles, Dispatch(p) PROVE SearchInv'
  BY <1>5, SearchOfDispatch
<1>6. ASSUME NEW t \in DOMAIN compared, Compare(t) PROVE SearchInv'
  BY <1>6, SearchOfCompare
<1>7. CASE FindNothing
  BY <1>7, SearchOfNothing
<1>8. CASE FindKey
  BY <1>8, SearchOfFound
<1>9. CASE DispatchFails
  BY <1>1, <1>9 DEF DispatchFails, EndDispatch
<1>10. CASE Commit
  BY <1>1, <1>10 DEF Commit
<1>11. CASE Restart
  BY <1>1, <1>11 DEF Restart
<1>12. CASE UNCHANGED allVars
  BY <1>12 DEF allVars, searchVars, SearchInv, IsRunning, IsPart
<1>. QED
  BY <1>2, <1>3, <1>4, <1>5, <1>6, <1>7, <1>8, <1>9, <1>10, <1>11, <1>12 DEF SearchNext

\* The search is exact if the points of a dispatch are those of its keys, and no other
\* key has the target's hash.
LEMMA ExactIfPointsAre ==
    ASSUME DispatchesAreExact, KeysAreApart
    PROVE  SearchSpec => []SearchIsExact
<1>1. SearchInit => SearchInv
  BY DEF SearchInit, SearchInv
<1>2. SearchInv /\ [SearchNext]_allVars => SearchInv'
  BY SearchStep
<1>3. SearchInv => SearchIsExact
  <2>. SUFFICES ASSUME SearchInv PROVE SearchIsExact
    OBVIOUS
  <2>1. phase = "block" => tried = KeysOf(block, done) /\ target \notin tried
    BY DEF SearchInv
  <2>2. phase = "gpu" => /\ tried \subseteq KeysOf(block, done + job.valid)
                         /\ result = None <=> target \notin tried
                         /\ result # None => FoundKey(job, result) = target
    BY DEF SearchInv, IsRunning
  <2>3. phase # "refuted"
    BY DEF SearchInv
  <2>. QED
    BY <2>1, <2>2, <2>3, Zenon DEF SearchIsExact
<1>. QED
  BY <1>1, <1>2, <1>3, PTL DEF SearchSpec

\* A part of a block counts as done exactly when the hash of each of its keys was
\* compared with the target's, and a key that is reported is the target, if no other key
\* has the target's hash: for every curve of that form over a prime field, every grid and
\* every size of a batch (dispatch_exact, record_completed, verify_candidate).
THEOREM SearchIsExactAlways ==
    ASSUME HashesAreApart
    PROVE  SearchSpec => []SearchIsExact
<1>1. KeysAreApart
  BY PointsAreApart, Zenon DEF KeysAreApart
<1>. QED
  BY <1>1, DispatchesAreExactAlways, ExactIfPointsAre

\* The process has not found its arithmetic to be wrong.
TestInv == phase # "untested"

\* The self-tests of the CPU and of the GPU pass, so that the search is never refused
\* (run_all_tests, self_test).
LEMMA TestStep ==
    ASSUME CpuTestPasses, GpuTestPasses, TestInv, [SearchNext]_allVars
    PROVE  TestInv'
<1>1. CASE TestCpu
  BY <1>1, Zenon DEF TestCpu, TestInv
<1>2. CASE TestGpu
  BY <1>2, Zenon DEF TestGpu, TestInv
<1>3. ASSUME NEW b \in Blocks, SelectBlock(b) PROVE TestInv'
  BY <1>3, Zenon DEF SelectBlock, TestInv
<1>4. ASSUME NEW p \in Profiles, Dispatch(p) PROVE TestInv'
  BY <1>4, Zenon DEF Dispatch, TestInv
<1>5. ASSUME NEW t \in DOMAIN compared, Compare(t) PROVE TestInv'
  BY <1>5, Zenon DEF Compare, TestInv
<1>6. CASE FindNothing
  BY <1>6, Zenon DEF FindNothing, TestInv
<1>7. CASE FindKey
  BY <1>7, Zenon DEF FindKey, TestInv
<1>8. CASE DispatchFails
  BY <1>8, Zenon DEF DispatchFails, TestInv
<1>9. CASE Commit
  BY <1>9, Zenon DEF Commit, TestInv
<1>10. CASE Restart
  BY <1>10, Zenon DEF Restart, TestInv
<1>11. CASE UNCHANGED allVars
  BY <1>11, Zenon DEF allVars, searchVars, TestInv
<1>. QED
  BY <1>1, <1>2, <1>3, <1>4, <1>5, <1>6, <1>7, <1>8, <1>9, <1>10, <1>11, Zenon DEF SearchNext

\* What a running thread compares next is the point of the key at its place.
NextPointsAreExact ==
    phase = "gpu" =>
      \A t \in DOMAIN compared :
        compared[t] < ThreadKeys(job, t) =>
          Candidate(job, t, compared[t]) = PublicKeyOf[job.start + t * job.steps + compared[t]]

\* The tables hold what a dispatch computes at each of its places.
LEMMA NextPointsAre ==
    ASSUME DispatchesAreExact, SearchInv
    PROVE  NextPointsAreExact
<1>. SUFFICES ASSUME phase = "gpu", NEW t \in DOMAIN compared, compared[t] < ThreadKeys(job, t)
              PROVE  Candidate(job, t, compared[t])
                       = PublicKeyOf[job.start + t * job.steps + compared[t]]
  BY DEF NextPointsAreExact
<1>. DEFINE s == compared[t]
            n == ThreadKeys(job, t)
<1>1. block \in Blocks /\ done \in 0 .. BlockSize /\ IsRunning
  BY DEF SearchInv
<1>2. IsPart(job) /\ t \in 0 .. job.threads - 1 /\ s \in 0 .. n
  BY <1>1 DEF IsRunning
<1>3. /\ job.start \in Nat /\ job.threads \in Nat \ {0} /\ job.steps \in Nat \ {0}
      /\ job.valid \in Nat \ {0} /\ job.valid <= job.threads * job.steps
  BY <1>1, <1>2, PartIs
<1>4. n \in 0 .. job.steps
  BY <1>2, <1>3, PlacesAreKeys
<1>5. s < n
  OBVIOUS
<1>. HIDE DEF s, n
<1>6. s \in 0 .. n - 1
  BY <1>2, <1>4, <1>5
<1>7. Candidate(job, t, s) = PublicKeyOf[At(job, t, s)]
  BY <1>1, <1>2, <1>6, CandidateIs DEF n
<1>8. At(job, t, s) = job.start + t * job.steps + s
  BY DEF At, FoundKey
<1>. QED
  BY <1>7, <1>8 DEF s

\* The limbs compute the field and the curve, a dispatch computes the points of its keys,
\* the self-tests pass and no thread ever compares another point than that of the key its
\* place stands for, if no other key has the target's hash: for every width and number
\* of the limbs, every curve of that form, every grid and every size of a batch.
THEOREM ArithmeticIsExactAlways ==
    ASSUME HashesAreApart
    PROVE  SearchSpec => []ArithmeticIsExact
<1>1. KeysAreApart
  BY PointsAreApart, Zenon DEF KeysAreApart
<1>2. FieldIsExact /\ CurveIsExact /\ DispatchesAreExact
  BY FieldIsExactAlways, CurveIsExactAlways, DispatchesAreExactAlways
<1>3. CpuTestPasses /\ GpuTestPasses
  BY CpuTestIsPassed, GpuTestIsPassed
<1>4. SearchInit => SearchInv /\ TestInv
  BY DEF SearchInit, SearchInv, TestInv
<1>5. SearchInv /\ TestInv /\ [SearchNext]_allVars => SearchInv' /\ TestInv'
  BY <1>1, <1>2, <1>3, SearchStep, TestStep
<1>6. SearchInv /\ TestInv => ArithmeticIsExact
  <2>1. SearchInv => NextPointsAreExact
    BY <1>2, NextPointsAre
  <2>. QED
    BY <1>1, <1>2, <2>1, Zenon DEF ArithmeticIsExact, NextPointsAreExact, TestInv
<1>. QED
  BY <1>4, <1>5, <1>6, PTL DEF SearchSpec

-----------------------------------------------------------------------------
(* The digits of a number in another base *)

\* The digits of a number, the least significant one first, without zeros at the end.
IsNumeral(d, b) ==
    d \in Seq(0 .. b - 1) /\ (Len(d) > 0 => d[Len(d)] # 0)

\* What a numeral stands for.
NumberOf(d, b) == Amount(d, b, Len(d))

\* A numeral lies between the powers of its length.
LEMMA NumeralIsBounded ==
    ASSUME NEW b \in Nat \ {0, 1}, NEW d, IsNumeral(d, b)
    PROVE  /\ NumberOf(d, b) \in Nat /\ NumberOf(d, b) < Power(b, Len(d))
           /\ Len(d) > 0 => Power(b, Len(d) - 1) <= NumberOf(d, b)
<1>. DEFINE n == Len(d)
            A(i) == Amount(d, b, i)
<1>1. n \in Nat /\ \A i \in 1 .. n : d[i] \in 0 .. b - 1
  BY DEF IsNumeral
<1>2. \A i \in 1 .. n : d[i] \in Int
  BY <1>1
<1>. HIDE DEF n
<1>3. /\ \A i \in 0 .. n : A(i) \in Int
      /\ \A i \in 1 .. n : A(i) = A(i - 1) + d[i] * Power(b, i - 1)
  BY <1>1, <1>2, AmountIs
<1>4. ASSUME NEW i \in 0 .. n PROVE A(i) \in 0 .. Power(b, i) - 1
  <2>1. i \in Nat /\ \A j \in 1 .. i : d[j] \in 0 .. b - 1
    BY <1>1
  <2>2. b \in Nat \ {0}
    OBVIOUS
  <2>. QED
    BY <2>1, <2>2, AmountIsBounded
<1>. HIDE DEF A
<1>5. A(n) \in Nat /\ A(n) < Power(b, n)
  <2>1. n \in 0 .. n /\ n \in Nat /\ b \in Nat
    BY <1>1
  <2>2. Power(b, n) \in Nat
    BY <2>1, PowerIs
  <2>3. A(n) \in 0 .. Power(b, n) - 1
    BY <1>4, <2>1
  <2>. QED
    BY <2>2, <2>3
<1>6. ASSUME n > 0 PROVE Power(b, n - 1) <= A(n)
  <2>1. n \in 1 .. n /\ n - 1 \in 0 .. n /\ n - 1 \in Nat
    BY <1>1, <1>6
  <2>2. PICK p \in Nat : p = Power(b, n - 1)
    BY <2>1, PowerIs
  <2>3. PICK v \in Nat \ {0} : v = d[n]
    <3>1. d[n] # 0
      BY <1>6 DEF IsNumeral, n
    <3>. QED
      BY <1>1, <2>1, <3>1
  <2>4. PICK a \in Nat : a = A(n - 1)
    BY <1>4, <2>1
  <2>5. A(n) = a + v * p
    BY <1>3, <2>1, <2>2, <2>3, <2>4
  <2>6. v * p >= p /\ v * p \in Nat
    <3>1. CASE p = 0
      BY <3>1
    <3>2. CASE p # 0
      <4>1. 1 * p <= v * p
        BY <3>2, FactorsAreOrdered
      <4>. QED
        BY <4>1
    <3>. QED
      BY <3>1, <3>2
  <2>. DEFINE x == v * p
  <2>. HIDE DEF x
  <2>7. A(n) = a + x /\ x >= p /\ x \in Nat
    BY <2>5, <2>6 DEF x
  <2>. QED
    BY <2>2, <2>7
<1>. QED
  BY <1>5, <1>6 DEF A, n, NumberOf

\* Two numerals of the same number are the same.
LEMMA NumeralsAreApart ==
    ASSUME NEW b \in Nat \ {0, 1}, NEW d, NEW e, IsNumeral(d, b), IsNumeral(e, b),
           NumberOf(d, b) = NumberOf(e, b)
    PROVE  d = e
<1>. DEFINE m == Len(d)
            n == Len(e)
<1>1. m \in Nat /\ n \in Nat /\ d \in Seq(0 .. b - 1) /\ e \in Seq(0 .. b - 1)
      /\ (\A i \in 1 .. m : d[i] \in 0 .. b - 1) /\ (\A i \in 1 .. n : e[i] \in 0 .. b - 1)
  BY SMTT(30) DEF IsNumeral
<1>2. ASSUME NEW x, NEW y, IsNumeral(x, b), IsNumeral(y, b), NumberOf(x, b) = NumberOf(y, b),
             Len(x) \in Nat, Len(y) \in Nat, Len(x) < Len(y)
      PROVE  FALSE
  <2>. DEFINE k == Len(x)
              l == Len(y)
              v == NumberOf(x, b)
  <2>1. v < Power(b, k) /\ v \in Nat /\ (l > 0 => Power(b, l - 1) <= v)
    <3>1. v < Power(b, k) /\ v \in Nat
      BY <1>2, NumeralIsBounded
    <3>2. l > 0 => Power(b, l - 1) <= v
      BY <1>2, NumeralIsBounded
    <3>. QED
      BY <3>1, <3>2
  <2>2. k \in Nat /\ l - 1 \in Nat /\ k <= l - 1 /\ l > 0
    BY <1>2
  <2>. HIDE DEF k, l, v
  <2>3. Power(b, k) <= Power(b, l - 1) /\ Power(b, k) \in Nat /\ Power(b, l - 1) \in Nat
    <3>1. b \in Nat \ {0} /\ b \in Nat
      OBVIOUS
    <3>. QED
      BY <2>2, <3>1, PowerGrows, PowerIs
  <2>. QED
    BY <2>1, <2>2, <2>3
<1>3. m = n
  <2>1. ~ (m < n)
    BY <1>1, <1>2
  <2>2. ~ (n < m)
    BY <1>1, <1>2
  <2>. QED
    BY <1>1, <2>1, <2>2
<1>4. Amount(d, b, n) = Amount(e, b, n)
  BY <1>3 DEF NumberOf
<1>. HIDE DEF m, n
<1>5. \A i \in 1 .. n : d[i] = e[i]
  <2>1. b \in Nat \ {0} /\ n \in Nat
    BY <1>1
  <2>2. \A i \in 1 .. n : d[i] \in 0 .. b - 1 /\ e[i] \in 0 .. b - 1
    BY <1>1, <1>3
  <2>. QED
    BY <1>4, <2>1, <2>2, DigitsAreApart
<1>6. d \in Seq(0 .. b - 1) /\ e \in Seq(0 .. b - 1) /\ Len(d) = Len(e)
      /\ \A i \in 1 .. Len(d) : d[i] = e[i]
  BY <1>1, <1>3, <1>5 DEF m, n
<1>. QED
  BY <1>6, SeqEqual, Zenon
\* What TimesPlus carries from digit to digit.
CarriesOn(acc, d, from, b, to) ==
    /\ DOMAIN acc = 0 .. Len(d) + 3
    /\ acc[0] = b * to
    /\ \A i \in 1 .. Len(d) + 3 :
         acc[i] = (IF i <= Len(d) THEN d[i] * from ELSE 0) + acc[i - 1] \div to

\* Where nothing is left to carry.
CarryEnds(acc, d, to) == {i \in Len(d) .. Len(d) + 3 : acc[i] < to}

\* There is such a function, and the digits are what it leaves in the base.
LEMMA TimesPlusUnfolds ==
    ASSUME NEW from \in Nat \ {0}, NEW to \in Nat \ {0}, NEW d \in Seq(0 .. to - 1),
           NEW b \in Nat
    PROVE  \E acc : /\ CarriesOn(acc, d, from, b, to)
                    /\ TimesPlus(d, from, b, to)
                         = SubSeq([i \in 1 .. Len(d) + 3 |-> acc[i] % to], 1, Min(CarryEnds(acc, d, to)))
<1>. DEFINE l == Len(d)
            n == l + 3
            Term(i) == IF i <= l THEN d[i] * from ELSE 0
            op == [p \in Int \X (1 .. n) |-> Term(p[2]) + p[1] \div to]
            Loop(it, i) == IF i = 0 THEN b * to
                           ELSE (IF i <= Len(d) THEN d[i] * from ELSE 0) + it[i - 1] \div to
            Loops(it) == it = [i \in 0 .. Len(d) + 3 |-> Loop(it, i)]
            g == CHOOSE it : Loops(it)
<1>1. l \in Nat /\ n \in Nat /\ \A i \in 1 .. l : d[i] \in Nat
  OBVIOUS
<1>2. \A i \in 1 .. n : Term(i) \in Int
  <2>. SUFFICES ASSUME NEW i \in 1 .. n PROVE Term(i) \in Int
    OBVIOUS
  <2>1. i <= l => d[i] * from \in Int
    BY <1>1
  <2>. QED
    BY <2>1
<1>3. PICK f \in [0 .. n -> Int] : Follows(f, b * to, op, n)
  <2>1. ASSUME NEW x \in Int, NEW i \in 1 .. n PROVE Term(i) + x \div to \in Int
    <3>. HIDE DEF Term, n
    <3>1. x \div to \in Int
      BY DividesInt, Zenon
    <3>2. Term(i) \in Int
      BY <1>2
    <3>. QED
      BY <3>1, <3>2
  <2>2. op \in [Int \X (1 .. n) -> Int]
    <3>. HIDE DEF Term, n
    <3>. QED
      BY <2>1
  <2>3. b * to \in Int
    OBVIOUS
  <2>. HIDE DEF op, n
  <2>. QED
    BY <1>1, <2>2, <2>3, RecursionExists, Zenon
<1>4. f[0] = b * to /\ \A i \in 1 .. n : f[i] = Term(i) + f[i - 1] \div to
  <2>. HIDE DEF Term, n
  <2>1. \A x \in Int, i \in 1 .. n : op[<<x, i>>] = Term(i) + x \div to
    OBVIOUS
  <2>2. \A i \in 1 .. n : f[i - 1] \in Int
    BY <1>1, <1>3
  <2>. HIDE DEF op
  <2>. QED
    BY <1>3, <2>1, <2>2, Zenon DEF Follows
<1>. HIDE DEF op
<1>5. Loops(f)
  <2>1. \A i \in 0 .. n : f[i] = Loop(f, i)
    BY <1>4
  <2>. HIDE DEF Loop
  <2>. QED
    BY <2>1
<1>6. Loops(g)
  <2>. HIDE DEF Loops
  <2>. QED
    BY <1>5, Zenon
<1>7. TimesPlus(d, from, b, to)
        = SubSeq([i \in DOMAIN g \ {0} |-> g[i] % to], 1,
                 Min({i \in Len(d) .. Len(d) + 3 : g[i] < to}))
  BY Zenon DEF TimesPlus
<1>. HIDE DEF g
<1>8. DOMAIN g = 0 .. Len(d) + 3 /\ \A i \in 0 .. Len(d) + 3 : g[i] = Loop(g, i)
  <2>. HIDE DEF Loop
  <2>. QED
    BY <1>6
<1>9. CarriesOn(g, d, from, b, to)
  <2>1. g[0] = b * to
    BY <1>1, <1>8
  <2>2. \A i \in 1 .. Len(d) + 3 :
          g[i] = (IF i <= Len(d) THEN d[i] * from ELSE 0) + g[i - 1] \div to
    BY <1>8
  <2>. QED
    BY <1>8, <2>1, <2>2 DEF CarriesOn
<1>10. DOMAIN g \ {0} = 1 .. Len(d) + 3
  BY <1>8
<1>11. TimesPlus(d, from, b, to)
         = SubSeq([i \in 1 .. Len(d) + 3 |-> g[i] % to], 1, Min(CarryEnds(g, d, to)))
  BY <1>7, <1>10, Zenon DEF CarryEnds
<1>. QED
  BY <1>9, <1>11
\* One digit more: what the digits below it amount to, and what is left to carry.
CarriedSoFar(x, y, c, p, from, b) == x + c * p = from * y + b

\* The digit e times from, carried on in the base w = v + w * q.
LEMMA CarryStep ==
    ASSUME NEW x \in Int, NEW y \in Int, NEW c \in Int, NEW p \in Int, NEW from \in Int,
           NEW b \in Int, NEW e \in Int, NEW w \in Int, NEW v \in Int, NEW q \in Int,
           CarriedSoFar(x, y, c, p, from, b), e * from + c = q * w + v
    PROVE  CarriedSoFar(x + v * p, y + e * p, q, p * w, from, b)
<1>1. x + c * p = from * y + b
  BY DEF CarriedSoFar
<1>2. (e * from + c) * p = (q * w + v) * p
  OBVIOUS
<1>3. (e * from + c) * p = from * (e * p) + c * p /\ (q * w + v) * p = q * (p * w) + v * p
  OBVIOUS
<1>. DEFINE A == from * (e * p)
            B == q * (p * w)
            C == c * p
            D == v * p
            E == from * y
<1>4. A \in Int /\ B \in Int /\ C \in Int /\ D \in Int /\ E \in Int
  OBVIOUS
<1>5. A + C = B + D /\ x + C = E + b
  BY <1>1, <1>2, <1>3
<1>6. from * (y + e * p) = E + A
  OBVIOUS
<1>. HIDE DEF A, B, C, D, E
<1>7. (x + D) + B = (E + A) + b
  BY <1>4, <1>5
<1>. QED
  BY <1>6, <1>7 DEF B, D, CarriedSoFar
\* What is below a product leaves a quotient below the other factor.
LEMMA QuotientBelow ==
    ASSUME NEW w \in Nat \ {0}, NEW f \in Nat, NEW v \in Nat, v < w * f
    PROVE  v \div w \in Nat /\ v \div w < f
<1>. DEFINE q == v \div w
<1>1. q \in Nat /\ v = q * w + (v % w) /\ v % w \in Nat
  BY Divides
<1>. HIDE DEF q
<1>2. ASSUME f <= q PROVE FALSE
  <2>1. f * w <= q * w /\ f * w = w * f
    BY <1>1, <1>2, FactorsAreOrdered
  <2>. DEFINE x == q * w
              y == f * w
  <2>2. x \in Nat /\ y \in Nat /\ y <= x /\ v < y /\ v >= x
    BY <1>1, <2>1
  <2>. HIDE DEF x, y
  <2>. QED
    BY <2>2
<1>. QED
  BY <1>1, <1>2 DEF q

\* What is carried stays below the product of the bases, and three places are enough.
LEMMA CarriesAre ==
    ASSUME NEW from \in Nat \ {0, 1}, NEW to \in Nat \ {0, 1}, from <= to * to,
           NEW d \in Seq(0 .. to - 1), NEW b \in 0 .. from - 1, NEW acc,
           CarriesOn(acc, d, from, b, to)
    PROVE  /\ \A i \in 0 .. Len(d) + 3 : acc[i] \in Nat
           /\ acc[Len(d) + 2] < to
<1>. DEFINE l == Len(d)
            n == l + 3
            all == to * from
            T == {i \in 0 .. n : acc[i] \in 0 .. all - 1}
<1>1. /\ l \in Nat /\ n \in Nat /\ all \in Nat /\ from <= all
      /\ \A i \in 1 .. l : d[i] \in 0 .. to - 1
  <2>1. 1 * from <= to * from
    BY FactorsAreOrdered
  <2>. QED
    BY <2>1
<1>2. /\ acc[0] = b * to
      /\ \A i \in 1 .. n : acc[i] = (IF i <= l THEN d[i] * from ELSE 0) + acc[i - 1] \div to
  BY DEF CarriesOn
<1>. HIDE DEF l, n
<1>3. 0 \in T
  <2>. DEFINE x == b * to
  <2>1. (b + 1) * to <= from * to
    BY FactorsAreOrdered
  <2>2. (b + 1) * to = x + to /\ from * to = all /\ x \in Nat
    OBVIOUS
  <2>. HIDE DEF x, all
  <2>3. x + to <= all
    BY <2>1, <2>2
  <2>4. x \in 0 .. all - 1
    BY <1>1, <2>2, <2>3
  <2>. QED
    BY <1>1, <1>2, <2>4 DEF x
<1>4. ASSUME NEW x \in 0 .. all - 1 PROVE x \div to \in 0 .. from - 1
  <2>1. x \in Nat /\ x < to * from
    BY <1>1
  <2>2. x \div to \in Nat /\ x \div to < from
    BY <2>1, QuotientBelow
  <2>. QED
    BY <2>2
<1>5. ASSUME NEW i \in 1 .. n, i - 1 \in T PROVE i \in T
  <2>. DEFINE q == acc[i - 1] \div to
  <2>1. q \in 0 .. from - 1
    BY <1>4, <1>5
  <2>2. acc[i] = (IF i <= l THEN d[i] * from ELSE 0) + q
    BY <1>2
  <2>. HIDE DEF q
  <2>3. CASE i <= l
    <3>1. PICK e \in 0 .. to - 1 : e = d[i]
      BY <1>1, <2>3
    <3>. DEFINE x == e * from
    <3>2. (e + 1) * from <= to * from
      <4>1. e + 1 \in Nat /\ e + 1 <= to
        BY <3>1
      <4>. QED
        BY <4>1, FactorsAreOrdered
    <3>3. (e + 1) * from = x + from /\ to * from = all /\ x \in Nat
      BY <3>1
    <3>. HIDE DEF x, all
    <3>4. x + from <= all
      BY <3>2, <3>3
    <3>5. x + q \in 0 .. all - 1
      BY <1>1, <2>1, <3>3, <3>4
    <3>6. acc[i] = x + q
      BY <2>2, <2>3, <3>1 DEF x
    <3>. QED
      BY <3>5, <3>6
  <2>4. CASE ~ (i <= l)
    <3>. HIDE DEF all
    <3>. QED
      BY <1>1, <2>1, <2>2, <2>4
  <2>. QED
    BY <2>3, <2>4
<1>6. \A i \in 0 .. n : i \in T
  <2>. HIDE DEF T
  <2>. QED
    BY <1>1, <1>3, <1>5, InductionTo
<1>7. \A i \in 0 .. n : acc[i] \in 0 .. all - 1
  BY <1>6
<1>8. acc[l + 2] < to
  <2>1. l \in 0 .. n /\ l + 1 \in 1 .. n /\ l + 2 \in 1 .. n /\ l + 1 - 1 = l /\ l + 2 - 1 = l + 1
        /\ ~ (l + 1 <= l) /\ ~ (l + 2 <= l)
    BY <1>1 DEF n
  <2>. DEFINE x == acc[l] \div to
  <2>2. x \in 0 .. from - 1
    BY <1>4, <1>7, <2>1
  <2>. HIDE DEF x
  <2>3. acc[l + 1] = x
    <3>1. acc[l + 1] = 0 + x
      BY <1>2, <2>1 DEF x
    <3>. QED
      BY <2>2, <3>1
  <2>4. x \div to \in Nat /\ x \div to < to
    <3>1. x \in Nat /\ x < to * to /\ to \in Nat
      BY <2>2
    <3>. QED
      BY <3>1, QuotientBelow
  <2>5. acc[l + 2] = 0 + x \div to
    BY <1>2, <2>1, <2>3
  <2>. QED
    BY <2>4, <2>5
<1>9. \A i \in 0 .. n : acc[i] \in Nat
  BY <1>7
<1>. QED
  BY <1>8, <1>9 DEF l, n
\* The sum that a carry leaves at each place.
LEMMA CarriesAddUp ==
    ASSUME NEW n \in Nat, NEW w \in Nat, NEW from \in Int, NEW b \in Int, NEW out, NEW low,
           NEW c \in [0 .. n -> Int], c[0] = b,
           \A i \in 1 .. n : /\ out[i] \in Int /\ low[i] \in Int
                             /\ low[i] * from + c[i - 1] = c[i] * w + out[i]
    PROVE  \A i \in 0 .. n :
             CarriedSoFar(Amount(out, w, i), Amount(low, w, i), c[i], Power(w, i), from, b)
<1>. DEFINE X(i) == Amount(out, w, i)
            Y(i) == Amount(low, w, i)
            P(i) == Power(w, i)
            T == {i \in 0 .. n : CarriedSoFar(X(i), Y(i), c[i], P(i), from, b)}
<1>1. /\ X(0) = 0 /\ \A i \in 0 .. n : X(i) \in Int
      /\ \A i \in 1 .. n : X(i) = X(i - 1) + out[i] * P(i - 1)
  <2>1. \A i \in 1 .. n : out[i] \in Int
    OBVIOUS
  <2>. QED
    BY <2>1, AmountIs
<1>2. /\ Y(0) = 0 /\ \A i \in 0 .. n : Y(i) \in Int
      /\ \A i \in 1 .. n : Y(i) = Y(i - 1) + low[i] * P(i - 1)
  <2>1. \A i \in 1 .. n : low[i] \in Int
    OBVIOUS
  <2>. QED
    BY <2>1, AmountIs
<1>3. P(0) = 1 /\ \A i \in Nat : P(i) \in Int /\ P(i + 1) = P(i) * w
  <2>1. /\ Power(w, 0) = 1
        /\ \A i \in Nat : Power(w, i) \in Nat /\ Power(w, i + 1) = Power(w, i) * w
    BY PowerIs
  <2>. SUFFICES ASSUME NEW i \in Nat PROVE P(i) \in Int /\ P(i + 1) = P(i) * w
    BY <2>1
  <2>2. Power(w, i) \in Nat /\ Power(w, i + 1) = Power(w, i) * w
    BY <2>1
  <2>. QED
    BY <2>2
<1>. HIDE DEF X, Y, P
<1>4. 0 \in T
  <2>1. 0 + b * 1 = from * 0 + b
    OBVIOUS
  <2>2. CarriedSoFar(X(0), Y(0), c[0], P(0), from, b)
    BY <1>1, <1>2, <1>3, <2>1 DEF CarriedSoFar
  <2>. QED
    BY <2>2
<1>5. ASSUME NEW i \in 1 .. n, i - 1 \in T PROVE i \in T
  <2>1. i - 1 \in 0 .. n /\ i \in 0 .. n /\ i - 1 \in Nat /\ i - 1 + 1 = i
    OBVIOUS
  <2>2. CarriedSoFar(X(i - 1), Y(i - 1), c[i - 1], P(i - 1), from, b)
    BY <1>5
  <2>3. X(i - 1) \in Int /\ Y(i - 1) \in Int /\ c[i - 1] \in Int /\ P(i - 1) \in Int
        /\ low[i] \in Int /\ w \in Int /\ out[i] \in Int /\ c[i] \in Int
        /\ low[i] * from + c[i - 1] = c[i] * w + out[i]
    <3>1. X(i - 1) \in Int /\ Y(i - 1) \in Int
      BY <1>1, <1>2, <2>1
    <3>2. P(i - 1) \in Int
      BY <1>3, <2>1
    <3>. QED
      BY <2>1, <3>1, <3>2
  <2>4. CarriedSoFar(X(i - 1) + out[i] * P(i - 1), Y(i - 1) + low[i] * P(i - 1), c[i],
                     P(i - 1) * w, from, b)
    BY <2>2, <2>3, CarryStep
  <2>5. P(i) = P(i - 1) * w
    BY <1>3, <2>1
  <2>. QED
    BY <1>1, <1>2, <2>1, <2>4, <2>5
<1>6. \A i \in 0 .. n : i \in T
  <2>. HIDE DEF T
  <2>. QED
    BY <1>4, <1>5, InductionTo
<1>. QED
  BY <1>6 DEF X, Y, P

\* The first l digits are those of s, and zeros follow them.
Prolongs(t, s, l, m) ==
    /\ \A i \in 1 .. l : s[i] \in Int /\ t[i] = s[i]
    /\ \A i \in l + 1 .. m : t[i] = 0

\* Zeros beyond the last digit add nothing.
LEMMA ZerosAddNothing ==
    ASSUME NEW b \in Nat, NEW l \in Nat, NEW m \in Nat, l <= m, NEW s, NEW t,
           Prolongs(t, s, l, m)
    PROVE  Amount(t, b, m) = Amount(s, b, l)
<1>. DEFINE k == m - l
            Y(i) == Amount(t, b, i)
            P(i) == Power(b, i)
            U == {j \in 0 .. k : Y(l + j) = Y(l)}
<1>a. /\ \A i \in 1 .. l : s[i] \in Int /\ t[i] = s[i]
      /\ \A i \in l + 1 .. m : t[i] = 0
  BY DEF Prolongs
<1>1. k \in Nat /\ l + k = m
  OBVIOUS
<1>. HIDE DEF k
<1>7. l + k \in Nat /\ \A i \in 1 .. l + k : t[i] \in Int
  BY <1>1, <1>a
<1>2. /\ \A i \in 0 .. l + k : Y(i) \in Int
      /\ \A i \in 1 .. l + k : Y(i) = Y(i - 1) + t[i] * P(i - 1)
  BY <1>7, AmountIs
<1>3. \A i \in Nat : P(i) \in Int
  BY PowerIs
<1>4. Y(l) = Amount(s, b, l)
  BY <1>a, SameAmount
<1>. HIDE DEF Y, P
<1>5. 0 \in U
  BY <1>1
<1>6. ASSUME NEW j \in 1 .. k, j - 1 \in U PROVE j \in U
  <2>1. l + j \in 1 .. l + k /\ l + j - 1 = l + (j - 1) /\ l + j \in l + 1 .. l + k
        /\ j \in 0 .. k /\ l + (j - 1) \in 0 .. l + k /\ l + (j - 1) \in Nat /\ t[l + j] = 0
    BY <1>1, <1>a
  <2>2. PICK y \in Int : y = Y(l + (j - 1))
    BY <1>2, <2>1
  <2>3. PICK p \in Int : p = P(l + (j - 1))
    BY <1>3, <2>1
  <2>4. Y(l + j) = y + 0 * p
    BY <1>2, <2>1, <2>2, <2>3
  <2>5. Y(l + j) = y /\ y = Y(l)
    BY <1>6, <2>2, <2>4
  <2>. QED
    BY <2>1, <2>5
<1>8. k \in U
  <2>1. \A j \in 0 .. k : j \in U
    <3>. HIDE DEF U
    <3>. QED
      BY <1>1, <1>5, <1>6, InductionTo
  <2>2. k \in 0 .. k
    BY <1>1
  <2>. QED
    BY <2>1, <2>2, Zenon
<1>. QED
  BY <1>1, <1>4, <1>8 DEF Y
\* TimesPlus gives the numeral of digits * from + b (encode's and decode's inner loop).
LEMMA TimesPlusIs ==
    ASSUME NEW from \in Nat \ {0, 1}, NEW to \in Nat \ {0, 1}, from <= to * to,
           NEW d, IsNumeral(d, to), NEW b \in 0 .. from - 1
    PROVE  /\ IsNumeral(TimesPlus(d, from, b, to), to)
           /\ NumberOf(TimesPlus(d, from, b, to), to) = from * NumberOf(d, to) + b
<1>. DEFINE l == Len(d)
            n == l + 3
<1>1. d \in Seq(0 .. to - 1) /\ l \in Nat /\ (l > 0 => d[l] # 0) /\ \A i \in 1 .. l : d[i] \in 0 .. to - 1
  BY DEF IsNumeral
<1>a. from \in Nat \ {0} /\ to \in Nat \ {0} /\ b \in Nat /\ n \in Nat /\ to \in Nat
      /\ from \in Int /\ b \in Int
  BY <1>1
<1>2. PICK acc : /\ CarriesOn(acc, d, from, b, to)
                 /\ TimesPlus(d, from, b, to)
                      = SubSeq([i \in 1 .. Len(d) + 3 |-> acc[i] % to], 1, Min(CarryEnds(acc, d, to)))
  BY <1>1, <1>a, TimesPlusUnfolds
<1>. DEFINE out == [i \in 1 .. n |-> acc[i] % to]
            low == [i \in 1 .. n |-> IF i <= l THEN d[i] ELSE 0]
            c == [i \in 0 .. n |-> acc[i] \div to]
            stops == CarryEnds(acc, d, to)
            m == Min(stops)
            r == SubSeq(out, 1, m)
            S == 0 .. to - 1
<1>3. /\ acc[0] = b * to
      /\ \A i \in 1 .. n : acc[i] = (IF i <= l THEN d[i] * from ELSE 0) + acc[i - 1] \div to
  BY <1>2 DEF CarriesOn
<1>4. (\A i \in 0 .. n : acc[i] \in Nat) /\ acc[l + 2] < to
  BY <1>1, <1>2, CarriesAre
<1>5. m \in l .. n /\ acc[m] < to /\ \A i \in l .. n : i < m => ~ (acc[i] < to)
  <2>1. stops = {i \in l .. n : acc[i] < to}
    BY DEF CarryEnds
  <2>2. l + 2 \in stops /\ stops \subseteq Nat
    <3>. HIDE DEF stops, l
    <3>. QED
      BY <1>1, <1>4, <2>1
  <2>3. PICK k \in stops : \A j \in stops : k <= j
    <3>. HIDE DEF stops
    <3>. QED
      BY <2>2, LeastExists
  <2>4. m = CHOOSE x \in stops : \A y \in stops : x <= y
    BY Zenon DEF Min
  <2>. HIDE DEF stops, m
  <2>5. m \in stops /\ \A y \in stops : m <= y
    BY <2>3, <2>4
  <2>6. m \in l .. n /\ acc[m] < to
    BY <2>1, <2>5
  <2>7. ASSUME NEW i \in l .. n, i < m, acc[i] < to PROVE FALSE
    <3>1. i \in stops
      BY <2>1, <2>7
    <3>2. m <= i /\ m \in Int /\ i \in Int
      BY <2>5, <2>6, <3>1
    <3>. QED
      BY <2>7, <3>2
  <2>. QED
    BY <2>6, <2>7
<1>6. TimesPlus(d, from, b, to) = r
  BY <1>2
<1>. HIDE DEF l, m, stops
<1>7. m \in Nat /\ m <= n /\ l <= m /\ l <= n
  BY <1>1, <1>5
<1>. HIDE DEF n
<1>8. ASSUME NEW i \in 0 .. n
      PROVE  c[i] \in Nat /\ acc[i] = c[i] * to + (acc[i] % to) /\ acc[i] % to \in S
  <2>1. acc[i] \in Nat
    BY <1>4
  <2>2. acc[i] \div to \in Nat /\ acc[i] = (acc[i] \div to) * to + (acc[i] % to)
        /\ acc[i] % to \in 0 .. to - 1
    BY <1>a, <2>1, Divides
  <2>3. c[i] = acc[i] \div to
    OBVIOUS
  <2>. DEFINE q == acc[i] \div to
              z == acc[i] % to
  <2>4. q \in Nat /\ acc[i] = q * to + z /\ z \in S /\ c[i] = q
    BY <2>2, <2>3
  <2>. HIDE DEF q, c, S
  <2>. QED
    BY <2>4
<1>9. ASSUME NEW i \in 1 .. n
      PROVE  out[i] = acc[i] % to /\ low[i] = (IF i <= l THEN d[i] ELSE 0) /\ low[i] \in Int
             /\ c[i - 1] = acc[i - 1] \div to /\ i \in 0 .. n /\ i - 1 \in 0 .. n
  <2>1. i \in 0 .. n /\ i - 1 \in 0 .. n
    BY <1>a
  <2>2. low[i] = (IF i <= l THEN d[i] ELSE 0)
    OBVIOUS
  <2>3. low[i] \in Int
    BY <1>1, <2>2
  <2>. QED
    BY <2>1, <2>2, <2>3
<1>10. c \in [0 .. n -> Int] /\ c[0] = b
  <2>1. \A i \in 0 .. n : c[i] \in Int
    BY <1>8
  <2>2. (b * to + 0) \div to = b
    <3>1. 0 \in 0 .. to - 1
      BY <1>a
    <3>. QED
      BY <1>a, <3>1, QuotientOfInt
  <2>3. b * to + 0 = b * to
    BY <1>a
  <2>4. 0 \in 0 .. n
    BY <1>a
  <2>5. c[0] = b
    BY <1>3, <2>2, <2>3, <2>4
  <2>. QED
    BY <2>1, <2>5
<1>. HIDE DEF out, low, c, S
<1>11. ASSUME NEW i \in 1 .. m
       PROVE  out[i] \in Int /\ low[i] \in Int /\ low[i] * from + c[i - 1] = c[i] * to + out[i]
  <2>1. i \in 1 .. n
    BY <1>7, <1>a
  <2>2. acc[i] = (IF i <= l THEN d[i] * from ELSE 0) + c[i - 1]
    BY <1>3, <1>9, <2>1
  <2>3. out[i] \in S /\ acc[i] = c[i] * to + out[i]
    <3>1. i \in 0 .. n
      BY <2>1, <1>9
    <3>2. acc[i] = c[i] * to + (acc[i] % to) /\ acc[i] % to \in S
      BY <1>8, <3>1
    <3>3. out[i] = acc[i] % to
      BY <1>9, <2>1
    <3>. QED
      BY <3>2, <3>3, Zenon
  <2>4. out[i] \in Int /\ low[i] \in Int
    BY <1>9, <2>1, <2>3 DEF S
  <2>5. low[i] * from = IF i <= l THEN d[i] * from ELSE 0
    <3>1. low[i] = IF i <= l THEN d[i] ELSE 0
      BY <1>9, <2>1
    <3>2. CASE i <= l
      BY <3>1, <3>2
    <3>3. CASE ~ (i <= l)
      <4>1. 0 * from = 0
        BY <1>a
      <4>. QED
        BY <3>1, <3>3, <4>1
    <3>. QED
      BY <3>2, <3>3
  <2>. QED
    BY <2>2, <2>3, <2>4, <2>5, Zenon
<1>12. CarriedSoFar(Amount(out, to, m), Amount(low, to, m), c[m], Power(to, m), from, b)
  <2>. DEFINE e == [i \in 0 .. m |-> c[i]]
  <2>1. e \in [0 .. m -> Int] /\ e[0] = b
    <3>1. \A i \in 0 .. m : c[i] \in Int
      BY <1>7, <1>10, <1>a
    <3>. QED
      BY <1>7, <1>10, <3>1
  <2>2. \A i \in 1 .. m : e[i - 1] = c[i - 1] /\ e[i] = c[i]
    BY <1>7
  <2>3. e[m] = c[m] /\ m \in 0 .. m
    BY <1>7
  <2>. HIDE DEF e
  <2>4. \A i \in 1 .. m : out[i] \in Int /\ low[i] \in Int
                          /\ low[i] * from + e[i - 1] = e[i] * to + out[i]
    BY <1>11, <2>2
  <2>5. \A i \in 0 .. m :
             CarriedSoFar(Amount(out, to, i), Amount(low, to, i), e[i], Power(to, i), from, b)
    BY <1>7, <1>a, <2>1, <2>4, CarriesAddUp
  <2>. QED
    BY <2>3, <2>5
<1>13. c[m] = 0
  <2>1. m \in 0 .. n
    BY <1>7, <1>a
  <2>2. acc[m] \in Nat /\ acc[m] < to
    BY <1>4, <1>5, <2>1
  <2>3. acc[m] \div to = 0
    BY <1>a, <2>2
  <2>. QED
    BY <2>1, <2>3 DEF c
<1>14. Amount(low, to, m) = NumberOf(d, to)
  <2>2. \A i \in 1 .. l : d[i] \in Int /\ low[i] = d[i]
    <3>. SUFFICES ASSUME NEW i \in 1 .. l PROVE d[i] \in Int /\ low[i] = d[i]
      OBVIOUS
    <3>1. i \in 1 .. n /\ i <= l
      BY <1>1, <1>7, <1>a
    <3>. QED
      BY <1>1, <1>9, <3>1
  <2>3. \A i \in l + 1 .. m : low[i] = 0
    <3>. SUFFICES ASSUME NEW i \in l + 1 .. m PROVE low[i] = 0
      OBVIOUS
    <3>1. i \in 1 .. n /\ ~ (i <= l)
      BY <1>1, <1>7, <1>a
    <3>. QED
      BY <1>9, <3>1
  <2>4. Amount(low, to, m) = Amount(d, to, l)
    <3>1. l \in Nat /\ to \in Nat
      BY <1>1, <1>a
    <3>2. m \in Nat /\ l <= m
      BY <1>7
    <3>3. Prolongs(low, d, l, m)
      BY <2>2, <2>3, Zenon DEF Prolongs
    <3>. QED
      BY <3>1, <3>2, <3>3, ZerosAddNothing
  <2>. QED
    BY <2>4 DEF NumberOf, l
<1>15. Amount(out, to, m) = from * NumberOf(d, to) + b
  <2>1. Amount(out, to, m) \in Int
    <3>1. \A i \in 1 .. m : out[i] \in Int
      BY <1>11
    <3>2. m \in 0 .. m
      BY <1>7
    <3>. QED
      BY <1>7, <1>a, <3>1, <3>2, AmountIs
  <2>2. Power(to, m) \in Int
    BY <1>7, <1>a, PowerIs
  <2>3. Amount(out, to, m) + 0 * Power(to, m) = from * NumberOf(d, to) + b
    BY <1>12, <1>13, <1>14 DEF CarriedSoFar
  <2>. QED
    BY <2>1, <2>2, <2>3
<1>16. r \in Seq(S) /\ Len(r) = m /\ \A i \in 1 .. m : r[i] = out[i]
  <2>1. m \in Nat /\ m <= n
    BY <1>7
  <2>2. \A i \in 1 .. m : out[i] \in S
    <3>. SUFFICES ASSUME NEW i \in 1 .. m PROVE out[i] \in S
      OBVIOUS
    <3>1. i \in 1 .. n
      BY <1>a, <2>1
    <3>. QED
      BY <1>8, <1>9, <3>1, Zenon
  <2>3. /\ SubSeq(out, 1, m) \in Seq(S)
        /\ Len(SubSeq(out, 1, m)) = IF 1 <= m THEN m - 1 + 1 ELSE 0
        /\ \A i \in 1 .. m - 1 + 1 : SubSeq(out, 1, m)[i] = out[1 + i - 1]
    <3>1. 1 \in Int /\ m \in Int
      BY <2>1
    <3>. QED
      BY <2>2, <3>1, SubSeqProperties
  <2>4. \A i \in 1 .. m : i \in 1 .. m - 1 + 1 /\ 1 + i - 1 = i
    BY <2>1
  <2>5. Len(SubSeq(out, 1, m)) = m
    BY <2>1, <2>3
  <2>. QED
    BY <2>3, <2>4, <2>5
<1>. HIDE DEF r
<1>17. NumberOf(r, to) = Amount(out, to, m)
  <2>1. \A i \in 1 .. m : out[i] \in Int /\ r[i] = out[i]
    BY <1>11, <1>16
  <2>2. Amount(r, to, m) = Amount(out, to, m)
    BY <1>7, <1>a, <2>1, SameAmount
  <2>. QED
    BY <1>16, <2>2 DEF NumberOf
<1>18. ASSUME m > 0 PROVE r[m] # 0
  <2>1. m \in 1 .. n /\ m \in 0 .. n /\ m - 1 \in 0 .. n /\ m \in 1 .. m
    BY <1>7, <1>a, <1>18
  <2>2. PICK a \in Nat : a = acc[m] /\ a < to
    BY <1>4, <1>5, <2>1
  <2>3. r[m] = a
    <3>1. r[m] = a % to
      BY <1>9, <1>16, <2>1, <2>2
    <3>2. a % to = a
      BY <1>a, <2>2
    <3>. QED
      BY <3>1, <3>2
  <2>4. PICK q \in Nat : q = c[m - 1]
    BY <1>8, <2>1
  <2>5. a = (IF m <= l THEN d[m] * from ELSE 0) + q
    BY <1>3, <1>9, <2>1, <2>2, <2>4
  <2>6. CASE m <= l
    <3>1. m = l /\ m > 0
      BY <1>1, <1>7, <1>18, <2>6
    <3>2. PICK e \in Nat \ {0} : e = d[m]
      <4>1. m \in 1 .. l /\ d[m] # 0
        BY <1>1, <2>1, <3>1
      <4>. QED
        BY <1>1, <4>1
    <3>3. PICK x \in Nat \ {0} : x = e * from
      <4>1. 1 * from <= e * from /\ e * from \in Nat
        BY <1>a, FactorsAreOrdered
      <4>. QED
        BY <1>a, <4>1
    <3>4. a = x + q
      BY <2>5, <2>6, <3>2, <3>3
    <3>. QED
      BY <2>2, <2>3, <2>4, <3>4
  <2>7. CASE ~ (m <= l)
    <3>1. m - 1 \in l .. n /\ m - 1 < m
      BY <1>1, <1>7, <1>a, <2>1, <2>7
    <3>2. PICK v \in Nat : v = acc[m - 1] /\ ~ (v < to)
      BY <1>4, <1>5, <2>1, <3>1
    <3>3. v = q * to + (v % to) /\ v % to \in 0 .. to - 1
      BY <1>8, <2>1, <2>4, <3>2 DEF S
    <3>4. q # 0
      <4>1. PICK z \in 0 .. to - 1 : v = q * to + z
        BY <3>3, Zenon
      <4>2. ASSUME q = 0 PROVE FALSE
        <5>1. q * to = 0
          BY <1>a, <4>2
        <5>. QED
          BY <1>a, <3>2, <4>1, <5>1
      <4>. QED
        BY <4>2
    <3>5. a = 0 + q
      BY <2>5, <2>7
    <3>. QED
      BY <2>2, <2>3, <2>4, <3>4, <3>5
  <2>. QED
    BY <2>6, <2>7
<1>19. IsNumeral(r, to)
  BY <1>16, <1>18 DEF IsNumeral, S
<1>20. NumberOf(r, to) = from * NumberOf(d, to) + b
  BY <1>15, <1>17
<1>. QED
  BY <1>6, <1>19, <1>20
\* The zeros that a string begins with.
Begins(s, z) ==
    /\ z \in 0 .. Len(s)
    /\ \A j \in 1 .. z : s[j] = 0
    /\ z < Len(s) => s[z + 1] # 0

\* LeadingZeros counts them.
LEMMA LeadingIs ==
    ASSUME NEW S, NEW s \in Seq(S)
    PROVE  Begins(s, LeadingZeros(s))
<1>. DEFINE n == Len(s)
            T == {k \in 0 .. n : k = n \/ s[k + 1] # 0}
            X == {i \in DOMAIN s : \A j \in 1 .. i : s[j] = 0}
<1>1. n \in Nat /\ DOMAIN s = 1 .. n
  OBVIOUS
<1>. HIDE DEF n
<1>2. n \in T /\ T \subseteq Nat
  BY <1>1
<1>3. PICK z \in T : \A m \in T : z <= m
  BY <1>2, LeastExists
<1>4. z \in 0 .. n /\ (z = n \/ s[z + 1] # 0) /\ z \in Nat
  BY <1>1, <1>3
<1>5. ASSUME NEW j \in 1 .. z PROVE s[j] = 0
  <2>1. j - 1 \in 0 .. n /\ j - 1 + 1 = j /\ ~ (z <= j - 1)
    BY <1>1, <1>4
  <2>2. j - 1 \notin T
    BY <1>3, <2>1
  <2>. QED
    BY <2>1, <2>2
<1>6. X = 1 .. z
  <2>1. ASSUME NEW i \in X PROVE i \in 1 .. z
    <3>1. i \in 1 .. n /\ \A j \in 1 .. i : s[j] = 0
      BY <1>1
    <3>2. ASSUME z < i PROVE FALSE
      <4>1. z # n /\ z + 1 \in 1 .. i
        BY <1>1, <1>4, <3>1, <3>2
      <4>. QED
        BY <1>4, <3>1, <4>1
    <3>. QED
      BY <1>1, <1>4, <3>1, <3>2
  <2>2. ASSUME NEW i \in 1 .. z PROVE i \in X
    <3>1. i \in 1 .. n /\ \A j \in 1 .. i : j \in 1 .. z
      BY <1>1, <1>4
    <3>. QED
      BY <1>1, <1>5, <3>1
  <2>. QED
    BY <2>1, <2>2
<1>7. LeadingZeros(s) = z
  <2>1. Cardinality(1 .. z) = z
    <3>1. 1 \in Int /\ z \in Int
      BY <1>4
    <3>2. Cardinality(1 .. z) = IF 1 > z THEN 0 ELSE z - 1 + 1
      BY <3>1, FS_Interval
    <3>. QED
      BY <1>4, <3>2
  <2>2. LeadingZeros(s) = Cardinality(X)
    BY Zenon DEF LeadingZeros
  <2>. QED
    BY <1>6, <2>1, <2>2
<1>8. z < n => s[z + 1] # 0
  BY <1>4
<1>. QED
  BY <1>4, <1>5, <1>7, <1>8 DEF Begins, n

\* There is only one such number.
LEMMA BeginsOnce ==
    ASSUME NEW s, Len(s) \in Nat, NEW y, NEW z, Begins(s, y), Begins(s, z)
    PROVE  y = z
<1>1. ASSUME NEW i, NEW j, Begins(s, i), Begins(s, j), i < j PROVE FALSE
  <2>1. i \in Nat /\ i < Len(s) /\ i + 1 \in 1 .. j
    BY <1>1 DEF Begins
  <2>. QED
    BY <1>1, <2>1 DEF Begins
<1>2. ~ (y < z)
  BY <1>1
<1>3. ~ (z < y)
  BY <1>1
<1>4. y \in Nat /\ z \in Nat
  BY DEF Begins
<1>. QED
  BY <1>2, <1>3, <1>4

\* The last digit first.
LEMMA ReverseIs ==
    ASSUME NEW S, NEW d \in Seq(S)
    PROVE  /\ Reverse(d) \in Seq(S) /\ Len(Reverse(d)) = Len(d)
           /\ \A i \in 1 .. Len(d) : Reverse(d)[i] = d[Len(d) - i + 1]
<1>. DEFINE n == Len(d)
            r == [i \in 1 .. n |-> d[(n - i) + 1]]
<1>1. n \in Nat /\ \A i \in 1 .. n : d[i] \in S
  OBVIOUS
<1>2. Reverse(d) = r
  BY DEF Reverse
<1>. HIDE DEF n
<1>3. \A i \in 1 .. n : n - i + 1 \in 1 .. n
  BY <1>1
<1>4. r \in [1 .. n -> S]
  BY <1>1, <1>3
<1>5. r \in Seq(S) /\ Len(r) = n
  BY <1>1, <1>4
<1>. QED
  BY <1>2, <1>5 DEF n

\* A string of digits, the most significant one first: zeros, then a numeral.
Written(z, d) == Zeros(z) \o Reverse(d)

\* What is written: as many zeros, then the digits.
LEMMA WrittenIs ==
    ASSUME NEW b \in Nat \ {0}, NEW z \in Nat, NEW d \in Seq(0 .. b - 1)
    PROVE  /\ Written(z, d) \in Seq(0 .. b - 1) /\ Len(Written(z, d)) = z + Len(d)
           /\ \A i \in 1 .. z : Written(z, d)[i] = 0
           /\ \A i \in 1 .. Len(d) : Written(z, d)[z + i] = d[Len(d) - i + 1]
<1>. DEFINE S == 0 .. b - 1
            r == Reverse(d)
            o == Zeros(z)
            n == Len(d)
<1>1. r \in Seq(S) /\ Len(r) = n /\ n \in Nat
      /\ \A i \in 1 .. n : r[i] = d[n - i + 1]
  BY ReverseIs
<1>2. o \in Seq(S) /\ Len(o) = z /\ \A i \in 1 .. z : o[i] = 0
  <2>1. 0 \in S
    OBVIOUS
  <2>2. o = [i \in 1 .. z |-> 0]
    BY DEF Zeros
  <2>. HIDE DEF S, o
  <2>. QED
    BY <2>1, <2>2
<1>. HIDE DEF S, r, o, n
<1>3. Follow(o \o r, o, r, S, z, n)
  BY <1>1, <1>2, Appended
<1>4. Written(z, d) = o \o r
  BY DEF Written, o, r
<1>5. /\ o \o r \in Seq(S) /\ Len(o \o r) = z + n
      /\ \A i \in 1 .. z : (o \o r)[i] = o[i]
      /\ \A i \in 1 .. n : (o \o r)[z + i] = r[i]
  BY <1>3 DEF Follow
<1>. QED
  BY <1>1, <1>2, <1>4, <1>5 DEF S, n

\* A numeral is written after exactly the zeros it begins with.
LEMMA WrittenBegins ==
    ASSUME NEW b \in Nat \ {0}, NEW z \in Nat, NEW d, IsNumeral(d, b)
    PROVE  Begins(Written(z, d), z)
<1>. DEFINE s == Written(z, d)
            n == Len(d)
<1>1. d \in Seq(0 .. b - 1) /\ n \in Nat /\ (n > 0 => d[n] # 0)
  BY DEF IsNumeral
<1>2. /\ Len(s) = z + n
      /\ \A i \in 1 .. z : s[i] = 0
      /\ \A i \in 1 .. n : s[z + i] = d[n - i + 1]
  BY <1>1, WrittenIs
<1>. HIDE DEF s, n
<1>3. ASSUME z < Len(s) PROVE s[z + 1] # 0
  <2>1. n > 0 /\ 1 \in 1 .. n /\ n - 1 + 1 = n
    BY <1>1, <1>2, <1>3
  <2>. QED
    BY <1>1, <1>2, <2>1
<1>4. z \in 0 .. Len(s)
  BY <1>1, <1>2
<1>. QED
  BY <1>2, <1>3, <1>4 DEF Begins, s
\* The digits of a string behind its zeros, the least significant one first.
DigitsOf(s, z) == [i \in 1 .. Len(s) - z |-> s[Len(s) - i + 1]]

\* Every string is written after the zeros that it begins with.
LEMMA StringIsWritten ==
    ASSUME NEW b \in Nat \ {0}, NEW s \in Seq(0 .. b - 1), NEW z, Begins(s, z)
    PROVE  /\ IsNumeral(DigitsOf(s, z), b) /\ Len(DigitsOf(s, z)) = Len(s) - z
           /\ Written(z, DigitsOf(s, z)) = s
<1>. DEFINE n == Len(s)
            k == n - z
            u == DigitsOf(s, z)
            S == 0 .. b - 1
<1>1. /\ n \in Nat /\ z \in 0 .. n /\ (\A j \in 1 .. z : s[j] = 0) /\ (z < n => s[z + 1] # 0)
      /\ \A i \in 1 .. n : s[i] \in S
  BY DEF Begins
<1>. HIDE DEF n, S
<1>2. k \in Nat /\ z + k = n /\ z \in Nat
  BY <1>1
<1>3. u = [i \in 1 .. k |-> s[n - i + 1]]
  BY DEF DigitsOf, n
<1>. HIDE DEF u
<1>4. u \in Seq(S) /\ Len(u) = k /\ \A i \in 1 .. k : u[i] = s[n - i + 1]
  <2>1. \A i \in 1 .. k : n - i + 1 \in 1 .. n
    BY <1>1, <1>2
  <2>. HIDE DEF k
  <2>. QED
    BY <1>1, <1>2, <1>3, <2>1
<1>5. k > 0 => u[k] # 0
  <2>1. k > 0 => k \in 1 .. k /\ n - k + 1 = z + 1 /\ z < n
    BY <1>1, <1>2
  <2>. HIDE DEF k
  <2>. QED
    BY <1>1, <1>4, <2>1
<1>. HIDE DEF k
<1>6. IsNumeral(u, b)
  BY <1>4, <1>5 DEF IsNumeral, S
<1>7. /\ Written(z, u) \in Seq(S) /\ Len(Written(z, u)) = z + k
      /\ \A i \in 1 .. z : Written(z, u)[i] = 0
      /\ \A i \in 1 .. k : Written(z, u)[z + i] = u[k - i + 1]
  BY <1>2, <1>4, WrittenIs, ZenonT(60) DEF S
<1>8. ASSUME NEW i \in 1 .. n PROVE Written(z, u)[i] = s[i]
  <2>1. CASE i <= z
    BY <1>1, <1>7, <2>1
  <2>2. CASE ~ (i <= z)
    <3>. DEFINE j == i - z
    <3>1. j \in 1 .. k /\ z + j = i /\ k - j + 1 \in 1 .. k /\ n - (k - j + 1) + 1 = i
      BY <1>1, <1>2, <2>2
    <3>. HIDE DEF j
    <3>2. Written(z, u)[z + j] = u[k - j + 1]
      BY <1>7, <3>1
    <3>3. u[k - j + 1] = s[n - (k - j + 1) + 1]
      BY <1>4, <3>1
    <3>. QED
      BY <3>1, <3>2, <3>3
  <2>. QED
    BY <2>1, <2>2
<1>9. Written(z, u) = s
  <2>1. s \in Seq(S) /\ Len(s) = n /\ Len(Written(z, u)) = Len(s)
    BY <1>2, <1>7 DEF n, S
  <2>2. \A i \in 1 .. Len(Written(z, u)) : Written(z, u)[i] = s[i]
    BY <1>8, <2>1
  <2>. QED
    BY <1>7, <2>1, <2>2, SeqEqual
<1>10. Len(u) = Len(s) - z
  BY <1>4 DEF k, n
<1>. QED
  BY <1>6, <1>9, <1>10 DEF u

\* The loop over the digits of a string.
ConvertsOn(g, s, z, from, to) ==
    /\ g[z] = <<>>
    /\ \A i \in z + 1 .. Len(s) : g[i] = TimesPlus(g[i - 1], from, s[i], to)

\* There is such a function.
LEMMA ConversionUnfolds ==
    ASSUME NEW from \in Nat \ {0, 1}, NEW to \in Nat \ {0, 1}, from <= to * to,
           NEW s \in Seq(0 .. from - 1), NEW size
    PROVE  \E g : /\ ConvertsOn(g, s, LeadingZeros(s), from, to)
                  /\ Converted(s, from, to, size)
                       = IF Len(g[Len(s)]) > size THEN Panic
                         ELSE Written(LeadingZeros(s), g[Len(s)])
<1>. DEFINE z == LeadingZeros(s)
            n == Len(s)
            k == n - z
            D == {d \in Seq(0 .. to - 1) : IsNumeral(d, to)}
            op == [p \in D \X (1 .. k) |-> TimesPlus(p[1], from, s[z + p[2]], to)]
            Loop(it, i) == IF i = z THEN <<>> ELSE TimesPlus(it[i - 1], from, s[i], to)
            Loops(it) == it = [i \in z .. n |-> Loop(it, i)]
            g == CHOOSE it : Loops(it)
<1>1. n \in Nat /\ z \in 0 .. n /\ k \in Nat /\ z + k = n
  <2>1. Begins(s, z)
    BY LeadingIs
  <2>. QED
    BY <2>1 DEF Begins
<1>2. Converted(s, from, to, size)
        = IF Len(g[n]) > size THEN Panic ELSE Zeros(z) \o Reverse(g[n])
  BY Zenon DEF Converted
<1>. HIDE DEF z
<1>3. \A i \in 1 .. n : s[i] \in 0 .. from - 1
  OBVIOUS
<1>. HIDE DEF n
<1>4. op \in [D \X (1 .. k) -> D]
  <2>. SUFFICES ASSUME NEW d \in D, NEW i \in 1 .. k
                PROVE  TimesPlus(d, from, s[z + i], to) \in D
    OBVIOUS
  <2>1. z + i \in 1 .. n
    BY <1>1
  <2>2. s[z + i] \in 0 .. from - 1
    BY <1>3, <2>1
  <2>3. IsNumeral(d, to)
    OBVIOUS
  <2>4. IsNumeral(TimesPlus(d, from, s[z + i], to), to)
    BY <2>2, <2>3, TimesPlusIs
  <2>5. TimesPlus(d, from, s[z + i], to) \in Seq(0 .. to - 1)
    BY <2>4 DEF IsNumeral
  <2>. QED
    BY <2>4, <2>5
<1>5. <<>> \in D
  <2>1. <<>> \in Seq(0 .. to - 1) /\ Len(<<>>) = 0
    OBVIOUS
  <2>2. IsNumeral(<<>>, to)
    BY <2>1 DEF IsNumeral
  <2>. QED
    BY <2>1, <2>2
<1>6. PICK f \in [0 .. k -> D] : Follows(f, <<>>, op, k)
  <2>. HIDE DEF op, D, k
  <2>. QED
    BY <1>1, <1>4, <1>5, RecursionExists, Zenon
<1>. DEFINE h == [i \in z .. n |-> f[i - z]]
<1>7. Loops(h)
  <2>1. ASSUME NEW i \in z .. n PROVE h[i] = Loop(h, i)
    <3>1. CASE i = z
      <4>1. h[i] = f[0]
        BY <1>1, <3>1
      <4>. QED
        BY <1>6, <3>1, <4>1 DEF Follows
    <3>2. CASE i # z
      <4>. DEFINE j == i - z
      <4>1. j \in 1 .. k /\ j - 1 \in 0 .. k /\ z + j = i /\ i - 1 \in z .. n /\ i - 1 - z = j - 1
        BY <1>1, <3>2
      <4>2. h[i] = f[j] /\ h[i - 1] = f[j - 1]
        BY <4>1
      <4>. HIDE DEF h, j, k, D
      <4>3. f[j] = op[<<f[j - 1], j>>] /\ f[j - 1] \in D
        BY <1>6, <4>1 DEF Follows
      <4>4. \A d \in D : op[<<d, j>>] = TimesPlus(d, from, s[z + j], to)
        BY <4>1
      <4>. HIDE DEF op
      <4>5. h[i] = TimesPlus(h[i - 1], from, s[i], to)
        BY <4>1, <4>2, <4>3, <4>4
      <4>. QED
        BY <3>2, <4>5
    <3>. QED
      BY <3>1, <3>2
  <2>2. h = [i \in z .. n |-> h[i]]
    OBVIOUS
  <2>. HIDE DEF h, Loop
  <2>. QED
    BY <2>1, <2>2
<1>8. Loops(g)
  <2>. HIDE DEF Loops
  <2>. QED
    BY <1>7, Zenon
<1>. HIDE DEF g
<1>9. \A i \in z .. n : g[i] = Loop(g, i)
  <2>. HIDE DEF Loop
  <2>. QED
    BY <1>8
<1>10. ConvertsOn(g, s, z, from, to)
  <2>1. z \in z .. n
    BY <1>1
  <2>2. g[z] = <<>>
    BY <1>9, <2>1
  <2>3. \A i \in z + 1 .. n : i \in z .. n /\ i # z
    BY <1>1
  <2>4. \A i \in z + 1 .. n : g[i] = TimesPlus(g[i - 1], from, s[i], to)
    BY <1>9, <2>3
  <2>. QED
    BY <2>2, <2>4 DEF ConvertsOn, n
<1>11. Converted(s, from, to, size)
         = IF Len(g[n]) > size THEN Panic ELSE Written(z, g[n])
  BY <1>2 DEF Written
<1>. QED
  BY <1>10, <1>11, Zenon DEF z, n
\* Converting keeps the zeros and the number (encode, decode), unless the digits run
\* out of the buffer.
ConvertsTo(c, s, z, from, to, size) ==
    \E d : /\ IsNumeral(d, to) /\ NumberOf(d, to) = NumberOf(DigitsOf(s, z), from)
           /\ c = IF Len(d) > size THEN Panic ELSE Written(z, d)

\* That is what Converted computes.
LEMMA ConvertedIs ==
    ASSUME NEW from \in Nat \ {0, 1}, NEW to \in Nat \ {0, 1}, from <= to * to,
           NEW s \in Seq(0 .. from - 1), NEW z, Begins(s, z), NEW size
    PROVE  ConvertsTo(Converted(s, from, to, size), s, z, from, to, size)
<1>. DEFINE n == Len(s)
            k == n - z
            u == DigitsOf(s, z)
<1>1. n \in Nat /\ z \in 0 .. n /\ k \in Nat /\ z + k = n /\ LeadingZeros(s) = z
  <2>1. Begins(s, LeadingZeros(s)) /\ n \in Nat
    BY LeadingIs
  <2>2. LeadingZeros(s) = z
    BY <2>1, BeginsOnce
  <2>. QED
    BY <2>1, <2>2 DEF Begins
<1>2. PICK g : /\ ConvertsOn(g, s, z, from, to)
               /\ Converted(s, from, to, size)
                    = IF Len(g[n]) > size THEN Panic ELSE Written(z, g[n])
  BY <1>1, ConversionUnfolds
<1>3. \A i \in 1 .. n : s[i] \in 0 .. from - 1
  OBVIOUS
<1>4. g[z] = <<>> /\ \A i \in z + 1 .. n : g[i] = TimesPlus(g[i - 1], from, s[i], to)
  BY <1>2 DEF ConvertsOn
<1>5. \A i \in 1 .. k : u[i] = s[n - i + 1]
  BY DEF DigitsOf
<1>. HIDE DEF n, k, u
<1>. DEFINE T == {j \in 0 .. k : IsNumeral(g[z + j], to)}
            h == [j \in 0 .. k |-> NumberOf(g[z + j], to)]
<1>6. 0 \in T /\ h[0] = 0
  <2>1. <<>> \in Seq(0 .. to - 1) /\ Len(<<>>) = 0
    OBVIOUS
  <2>2. IsNumeral(<<>>, to)
    BY <2>1 DEF IsNumeral
  <2>3. NumberOf(<<>>, to) = 0
    <3>1. to \in Nat /\ 0 \in Nat /\ \A i \in 1 .. 0 : <<>>[i] \in Int
      OBVIOUS
    <3>2. Amount(<<>>, to, 0) = 0
      BY <3>1, AmountIs
    <3>. QED
      BY <2>1, <3>2 DEF NumberOf
  <2>4. z + 0 = z /\ 0 \in 0 .. k
    BY <1>1
  <2>. QED
    BY <1>4, <2>2, <2>3, <2>4
<1>7. ASSUME NEW j \in 1 .. k
      PROVE  /\ z + j \in z + 1 .. n /\ z + j \in 1 .. n /\ z + j - 1 = z + (j - 1)
             /\ j \in 0 .. k /\ j - 1 \in 0 .. k
             /\ k - j + 1 \in 1 .. k /\ n - (k - j + 1) + 1 = z + j
  BY <1>1
<1>8. ASSUME NEW j \in 1 .. k, IsNumeral(g[z + (j - 1)], to)
      PROVE  /\ IsNumeral(g[z + j], to)
             /\ NumberOf(g[z + j], to) = from * NumberOf(g[z + (j - 1)], to) + s[z + j]
  <2>1. g[z + j] = TimesPlus(g[z + (j - 1)], from, s[z + j], to)
    <3>. DEFINE i == z + j
    <3>1. i \in z + 1 .. n /\ i - 1 = z + (j - 1)
      BY <1>1
    <3>. HIDE DEF i
    <3>2. g[i] = TimesPlus(g[i - 1], from, s[i], to)
      BY <1>4, <3>1
    <3>. QED
      BY <3>1, <3>2 DEF i
  <2>2. s[z + j] \in 0 .. from - 1
    BY <1>3, <1>7
  <2>. DEFINE d == g[z + (j - 1)]
              b == s[z + j]
  <2>3. IsNumeral(d, to) /\ b \in 0 .. from - 1
    BY <1>8, <2>2
  <2>. HIDE DEF d, b
  <2>4. /\ IsNumeral(TimesPlus(d, from, b, to), to)
        /\ NumberOf(TimesPlus(d, from, b, to), to) = from * NumberOf(d, to) + b
    BY <2>3, TimesPlusIs
  <2>. QED
    BY <2>1, <2>4 DEF d, b
<1>9. \A j \in 0 .. k : j \in T
  <2>1. \A j \in 1 .. k : j - 1 \in T => j \in T
    BY <1>7, <1>8
  <2>. HIDE DEF T
  <2>. QED
    BY <1>1, <1>6, <2>1, InductionTo
<1>10. \A j \in 0 .. k : IsNumeral(g[z + j], to)
  BY <1>9
<1>11. h \in [0 .. k -> Int]
  <2>. SUFFICES ASSUME NEW j \in 0 .. k PROVE NumberOf(g[z + j], to) \in Int
    OBVIOUS
  <2>1. NumberOf(g[z + j], to) \in Nat
    BY <1>10, NumeralIsBounded
  <2>. QED
    BY <2>1
<1>12. HornerOf(h, u, from, k)
  <2>. SUFFICES ASSUME NEW j \in 1 .. k PROVE h[j] = h[j - 1] * from + u[k - j + 1]
    BY <1>6 DEF HornerOf
  <2>1. IsNumeral(g[z + (j - 1)], to)
    BY <1>7, <1>10
  <2>2. NumberOf(g[z + j], to) = from * NumberOf(g[z + (j - 1)], to) + s[z + j]
    BY <1>8, <2>1
  <2>3. h[j] = NumberOf(g[z + j], to) /\ h[j - 1] = NumberOf(g[z + (j - 1)], to)
    BY <1>7
  <2>4. u[k - j + 1] = s[z + j]
    BY <1>5, <1>7
  <2>. HIDE DEF h
  <2>5. h[j - 1] \in Int /\ from \in Int
    <3>1. j - 1 \in 0 .. k
      BY <1>7
    <3>. QED
      BY <1>11, <3>1
  <2>6. from * h[j - 1] = h[j - 1] * from
    BY <2>5
  <2>. QED
    BY <2>2, <2>3, <2>4, <2>6
<1>13. Amount(u, from, k) = h[k]
  <2>1. \A i \in 1 .. k : u[i] \in Int
    <3>. SUFFICES ASSUME NEW i \in 1 .. k PROVE u[i] \in Int
      OBVIOUS
    <3>1. n - i + 1 \in 1 .. n
      BY <1>1
    <3>. QED
      BY <1>3, <1>5, <3>1
  <2>2. from \in Nat
    OBVIOUS
  <2>. HIDE DEF h
  <2>. QED
    BY <1>1, <1>11, <1>12, <2>1, <2>2, Horner
<1>14. NumberOf(g[n], to) = NumberOf(u, from)
  <2>1. Len(u) = k
    <3>1. from \in Nat \ {0}
      OBVIOUS
    <3>2. Len(u) = Len(s) - z
      BY <3>1, StringIsWritten DEF u
    <3>. QED
      BY <3>2 DEF n, k
  <2>2. k \in 0 .. k
    BY <1>1
  <2>3. h[k] = NumberOf(g[n], to)
    BY <1>1, <2>2
  <2>. QED
    BY <1>13, <2>1, <2>3 DEF NumberOf
<1>15. IsNumeral(g[n], to)
  <2>1. k \in 0 .. k
    BY <1>1
  <2>. QED
    BY <1>1, <1>10, <2>1
<1>. QED
  BY <1>2, <1>14, <1>15, Zenon DEF ConvertsTo, u
\* A larger base has larger powers.
LEMMA PowersAreOrdered ==
    ASSUME NEW a \in Nat, NEW b \in Nat, a <= b, NEW n \in Nat
    PROVE  Power(a, n) \in Nat /\ Power(b, n) \in Nat /\ Power(a, n) <= Power(b, n)
<1>. DEFINE T == {i \in 0 .. n : Power(a, i) <= Power(b, i)}
<1>1. /\ Power(a, 0) = 1 /\ Power(b, 0) = 1
      /\ \A i \in Nat : Power(a, i) \in Nat /\ Power(a, i + 1) = Power(a, i) * a
      /\ \A i \in Nat : Power(b, i) \in Nat /\ Power(b, i + 1) = Power(b, i) * b
  BY PowerIs
<1>2. 0 \in T
  BY <1>1
<1>3. ASSUME NEW i \in 1 .. n, i - 1 \in T PROVE i \in T
  <2>1. i - 1 \in Nat /\ i - 1 + 1 = i
    OBVIOUS
  <2>2. PICK x \in Nat, y \in Nat : x = Power(a, i - 1) /\ y = Power(b, i - 1)
    BY <1>1, <2>1
  <2>3. Power(a, i) = x * a /\ Power(b, i) = y * b /\ x <= y
    BY <1>1, <1>3, <2>1, <2>2
  <2>4. x * a <= y * b
    <3>1. x * a <= y * a /\ x * a \in Nat /\ y * a \in Nat
      <4>1. CASE a = 0
        BY <4>1
      <4>2. CASE a # 0
        BY <2>3, <4>2, FactorsAreOrdered
      <4>. QED
        BY <4>1, <4>2
    <3>2. a * y <= b * y /\ a * y = y * a /\ b * y = y * b /\ y * b \in Nat
      <4>1. CASE y = 0
        BY <4>1
      <4>2. CASE y # 0
        BY <4>2, FactorsAreOrdered
      <4>. QED
        BY <4>1, <4>2
    <3>. DEFINE p == x * a
                q == y * a
                r == y * b
    <3>3. p \in Nat /\ q \in Nat /\ r \in Nat /\ p <= q /\ q <= r
      BY <3>1, <3>2
    <3>. HIDE DEF p, q, r
    <3>4. p <= r
      BY <3>3
    <3>. QED
      BY <3>4 DEF p, r
  <2>. QED
    BY <2>3, <2>4
<1>4. n \in T
  <2>1. \A i \in 0 .. n : i \in T
    <3>. HIDE DEF T
    <3>. QED
      BY <1>2, <1>3, InductionTo
  <2>. QED
    BY <2>1
<1>. QED
  BY <1>1, <1>4

\* A number of digits in one base is enough for another number of them in another base.
FitsIn(a, m, b, n) == Power(a, m) <= Power(b, n)

\* Lengths that fit can be added.
LEMMA FitsAdd ==
    ASSUME NEW a \in Nat, NEW b \in Nat, NEW m \in Nat, NEW n \in Nat, NEW i \in Nat, NEW j \in Nat,
           NEW k \in Nat, NEW l \in Nat, k = m + i, l = n + j,
           FitsIn(a, m, b, n), FitsIn(a, i, b, j)
    PROVE  FitsIn(a, k, b, l)
<1>1. PICK w \in Nat, x \in Nat, y \in Nat, z \in Nat :
        w = Power(a, m) /\ x = Power(b, n) /\ y = Power(a, i) /\ z = Power(b, j)
  BY PowerIs
<1>2. Power(a, k) = w * y /\ Power(b, l) = x * z
  BY <1>1, PowerAdds
<1>3. w <= x /\ y <= z
  BY <1>1 DEF FitsIn
<1>4. w * y <= x * z
  <2>1. w * y <= x * y /\ w * y \in Nat /\ x * y \in Nat
    <3>1. CASE y = 0
      BY <3>1
    <3>2. CASE y # 0
      BY <1>3, <3>2, FactorsAreOrdered
    <3>. QED
      BY <3>1, <3>2
  <2>2. y * x <= z * x /\ y * x = x * y /\ z * x = x * z /\ x * z \in Nat
    <3>1. CASE x = 0
      BY <3>1
    <3>2. CASE x # 0
      BY <1>3, <3>2, FactorsAreOrdered
    <3>. QED
      BY <3>1, <3>2
  <2>. DEFINE p == w * y
              q == x * y
              r == x * z
  <2>3. p \in Nat /\ q \in Nat /\ r \in Nat /\ p <= q /\ q <= r
    BY <2>1, <2>2
  <2>. HIDE DEF p, q, r
  <2>4. p <= r
    BY <2>3
  <2>. QED
    BY <2>4 DEF p, r
<1>. QED
  BY <1>2, <1>4 DEF FitsIn

\* They can be multiplied by a number.
LEMMA FitsTimes ==
    ASSUME NEW a \in Nat, NEW b \in Nat, NEW m \in Nat, NEW n \in Nat, NEW q \in Nat,
           FitsIn(a, m, b, n)
    PROVE  FitsIn(a, m * q, b, n * q)
<1>1. Power(a, m) \in Nat /\ Power(b, n) \in Nat /\ Power(a, m) <= Power(b, n)
  BY PowerIs DEF FitsIn
<1>2. Power(Power(a, m), q) <= Power(Power(b, n), q)
  BY <1>1, PowersAreOrdered
<1>3. Power(Power(a, m), q) = Power(a, m * q)
  BY PowerMultiplies
<1>4. Power(Power(b, n), q) = Power(b, n * q)
  BY PowerMultiplies
<1>. QED
  BY <1>2, <1>3, <1>4 DEF FitsIn

\* The powers of 256, from that of no digit to that of eleven.
LEMMA PowersOf256 ==
    /\ Power(256, 0) = 1
    /\ Power(256, 1) = 256
    /\ Power(256, 2) = 65536
    /\ Power(256, 3) = 16777216
    /\ Power(256, 4) = 4294967296
    /\ Power(256, 5) = 1099511627776
    /\ Power(256, 6) = 281474976710656
    /\ Power(256, 7) = 72057594037927936
    /\ Power(256, 8) = 18446744073709551616
    /\ Power(256, 9) = 4722366482869645213696
    /\ Power(256, 10) = 1208925819614629174706176
    /\ Power(256, 11) = 309485009821345068724781056
<1>1. /\ Power(256, 0) = 1
      /\ \A n \in Nat : Power(256, n + 1) = Power(256, n) * 256
  BY PowerIs
<1>2. Power(256, 1) = 256
  <2>1. Power(256, 0 + 1) = Power(256, 0) * 256
    BY <1>1
  <2>. QED
    BY <1>1, <2>1
<1>3. Power(256, 2) = 65536
  <2>1. Power(256, 1 + 1) = Power(256, 1) * 256
    BY <1>1
  <2>. QED
    BY <1>2, <2>1
<1>4. Power(256, 3) = 16777216
  <2>1. Power(256, 2 + 1) = Power(256, 2) * 256
    BY <1>1
  <2>. QED
    BY <1>3, <2>1
<1>5. Power(256, 4) = 4294967296
  <2>1. Power(256, 3 + 1) = Power(256, 3) * 256
    BY <1>1
  <2>. QED
    BY <1>4, <2>1
<1>6. Power(256, 5) = 1099511627776
  <2>1. Power(256, 4 + 1) = Power(256, 4) * 256
    BY <1>1
  <2>. QED
    BY <1>5, <2>1
<1>7. Power(256, 6) = 281474976710656
  <2>1. Power(256, 5 + 1) = Power(256, 5) * 256
    BY <1>1
  <2>. QED
    BY <1>6, <2>1
<1>8. Power(256, 7) = 72057594037927936
  <2>1. Power(256, 6 + 1) = Power(256, 6) * 256
    BY <1>1
  <2>. QED
    BY <1>7, <2>1
<1>9. Power(256, 8) = 18446744073709551616
  <2>1. Power(256, 7 + 1) = Power(256, 7) * 256
    BY <1>1
  <2>. QED
    BY <1>8, <2>1
<1>10. Power(256, 9) = 4722366482869645213696
  <2>1. Power(256, 8 + 1) = Power(256, 8) * 256
    BY <1>1
  <2>. QED
    BY <1>9, <2>1
<1>11. Power(256, 10) = 1208925819614629174706176
  <2>1. Power(256, 9 + 1) = Power(256, 9) * 256
    BY <1>1
  <2>. QED
    BY <1>10, <2>1
<1>12. Power(256, 11) = 309485009821345068724781056
  <2>1. Power(256, 10 + 1) = Power(256, 10) * 256
    BY <1>1
  <2>. QED
    BY <1>11, <2>1
<1>. QED
  BY <1>1, <1>2, <1>3, <1>4, <1>5, <1>6, <1>7, <1>8, <1>9, <1>10, <1>11, <1>12

\* The powers of 58, from that of no digit to that of fifteen.
LEMMA PowersOf58 ==
    /\ Power(58, 0) = 1
    /\ Power(58, 1) = 58
    /\ Power(58, 2) = 3364
    /\ Power(58, 3) = 195112
    /\ Power(58, 4) = 11316496
    /\ Power(58, 5) = 656356768
    /\ Power(58, 6) = 38068692544
    /\ Power(58, 7) = 2207984167552
    /\ Power(58, 8) = 128063081718016
    /\ Power(58, 9) = 7427658739644928
    /\ Power(58, 10) = 430804206899405824
    /\ Power(58, 11) = 24986644000165537792
    /\ Power(58, 12) = 1449225352009601191936
    /\ Power(58, 13) = 84055070416556869132288
    /\ Power(58, 14) = 4875194084160298409672704
    /\ Power(58, 15) = 282761256881297307761016832
<1>1. /\ Power(58, 0) = 1
      /\ \A n \in Nat : Power(58, n + 1) = Power(58, n) * 58
  BY PowerIs
<1>2. Power(58, 1) = 58
  <2>1. Power(58, 0 + 1) = Power(58, 0) * 58
    BY <1>1
  <2>. QED
    BY <1>1, <2>1
<1>3. Power(58, 2) = 3364
  <2>1. Power(58, 1 + 1) = Power(58, 1) * 58
    BY <1>1
  <2>. QED
    BY <1>2, <2>1
<1>4. Power(58, 3) = 195112
  <2>1. Power(58, 2 + 1) = Power(58, 2) * 58
    BY <1>1
  <2>. QED
    BY <1>3, <2>1
<1>5. Power(58, 4) = 11316496
  <2>1. Power(58, 3 + 1) = Power(58, 3) * 58
    BY <1>1
  <2>. QED
    BY <1>4, <2>1
<1>6. Power(58, 5) = 656356768
  <2>1. Power(58, 4 + 1) = Power(58, 4) * 58
    BY <1>1
  <2>. QED
    BY <1>5, <2>1
<1>7. Power(58, 6) = 38068692544
  <2>1. Power(58, 5 + 1) = Power(58, 5) * 58
    BY <1>1
  <2>. QED
    BY <1>6, <2>1
<1>8. Power(58, 7) = 2207984167552
  <2>1. Power(58, 6 + 1) = Power(58, 6) * 58
    BY <1>1
  <2>. QED
    BY <1>7, <2>1
<1>9. Power(58, 8) = 128063081718016
  <2>1. Power(58, 7 + 1) = Power(58, 7) * 58
    BY <1>1
  <2>. QED
    BY <1>8, <2>1
<1>10. Power(58, 9) = 7427658739644928
  <2>1. Power(58, 8 + 1) = Power(58, 8) * 58
    BY <1>1
  <2>. QED
    BY <1>9, <2>1
<1>11. Power(58, 10) = 430804206899405824
  <2>1. Power(58, 9 + 1) = Power(58, 9) * 58
    BY <1>1
  <2>. QED
    BY <1>10, <2>1
<1>12. Power(58, 11) = 24986644000165537792
  <2>1. Power(58, 10 + 1) = Power(58, 10) * 58
    BY <1>1
  <2>. QED
    BY <1>11, <2>1
<1>13. Power(58, 12) = 1449225352009601191936
  <2>1. Power(58, 11 + 1) = Power(58, 11) * 58
    BY <1>1
  <2>. QED
    BY <1>12, <2>1
<1>14. Power(58, 13) = 84055070416556869132288
  <2>1. Power(58, 12 + 1) = Power(58, 12) * 58
    BY <1>1
  <2>. QED
    BY <1>13, <2>1
<1>15. Power(58, 14) = 4875194084160298409672704
  <2>1. Power(58, 13 + 1) = Power(58, 13) * 58
    BY <1>1
  <2>. QED
    BY <1>14, <2>1
<1>16. Power(58, 15) = 282761256881297307761016832
  <2>1. Power(58, 14 + 1) = Power(58, 14) * 58
    BY <1>1
  <2>. QED
    BY <1>15, <2>1
<1>. QED
  BY <1>1, <1>2, <1>3, <1>4, <1>5, <1>6, <1>7, <1>8, <1>9, <1>10, <1>11, <1>12, <1>13, <1>14, <1>15, <1>16
\* More digits are enough as well.
LEMMA FitsMore ==
    ASSUME NEW a \in Nat, NEW b \in Nat \ {0}, NEW m \in Nat, NEW n \in Nat, NEW k \in Nat, n <= k,
           FitsIn(a, m, b, n)
    PROVE  FitsIn(a, m, b, k)
<1>1. Power(a, m) \in Nat /\ Power(a, m) <= Power(b, n)
  BY PowerIs DEF FitsIn
<1>2. Power(b, n) \in Nat \ {0} /\ Power(b, n) <= Power(b, k)
  BY PowerGrows
<1>3. Power(b, k) \in Nat
  BY PowerIs
<1>. QED
  BY <1>1, <1>2, <1>3 DEF FitsIn

\* The buffer that encode sizes is large enough for every length.
LEMMA EncodedFits ==
    ASSUME NEW m \in Nat
    PROVE  FitsIn(256, m, 58, EncodedSize(m)) /\ EncodedSize(m) \in Nat
<1>. DEFINE q == m \div 8
            r == m % 8
            e == (m * 138) \div 100
<1>1. m \in Nat /\ q \in Nat /\ r \in 0 .. 7 /\ m = 8 * q + r
  <2>1. q \in Nat /\ r \in 0 .. 8 - 1 /\ m = q * 8 + r
    BY Divides
  <2>. HIDE DEF q, r
  <2>. QED
    BY <2>1
<1>2. PICK z \in 0 .. 100 - 1 : e \in Nat /\ m * 138 = 100 * e + z
  <2>. DEFINE v == m * 138
              w == v % 100
  <2>1. v \in Nat
    BY <1>1
  <2>. HIDE DEF v
  <2>2. v \div 100 \in Nat /\ v % 100 \in 0 .. 100 - 1 /\ v = (v \div 100) * 100 + (v % 100)
    BY <2>1, Divides
  <2>3. e \in Nat /\ w \in 0 .. 100 - 1 /\ v = e * 100 + w
    BY <2>2 DEF v
  <2>. HIDE DEF e, w
  <2>4. e * 100 = 100 * e
    BY <2>3
  <2>. QED
    BY <2>3, <2>4 DEF v
<1>3. EncodedSize(m) = e + 1
  BY DEF EncodedSize
<1>. HIDE DEF q, r, e
<1>4. FitsIn(256, 8 * q, 58, 11 * q)
  <2>1. FitsIn(256, 8, 58, 11)
    BY PowersOf256, PowersOf58 DEF FitsIn
  <2>. QED
    BY <1>1, <2>1, FitsTimes
<1>5. \E c \in Nat : FitsIn(256, r, 58, c) /\ 11 * q + c <= e + 1
  <2>1. CASE r = 0
    <3>1. FitsIn(256, 0, 58, 0)
      BY PowersOf256, PowersOf58 DEF FitsIn
    <3>2. 11 * q + 0 <= e + 1
      BY <1>1, <1>2, <2>1
    <3>. QED
      BY <2>1, <3>1, <3>2
  <2>2. CASE r = 1
    <3>1. FitsIn(256, 1, 58, 2)
      BY PowersOf256, PowersOf58 DEF FitsIn
    <3>2. 11 * q + 2 <= e + 1
      BY <1>1, <1>2, <2>2
    <3>. QED
      BY <2>2, <3>1, <3>2
  <2>3. CASE r = 2
    <3>1. FitsIn(256, 2, 58, 3)
      BY PowersOf256, PowersOf58 DEF FitsIn
    <3>2. 11 * q + 3 <= e + 1
      BY <1>1, <1>2, <2>3
    <3>. QED
      BY <2>3, <3>1, <3>2
  <2>4. CASE r = 3
    <3>1. FitsIn(256, 3, 58, 5)
      BY PowersOf256, PowersOf58 DEF FitsIn
    <3>2. 11 * q + 5 <= e + 1
      BY <1>1, <1>2, <2>4
    <3>. QED
      BY <2>4, <3>1, <3>2
  <2>5. CASE r = 4
    <3>1. FitsIn(256, 4, 58, 6)
      BY PowersOf256, PowersOf58 DEF FitsIn
    <3>2. 11 * q + 6 <= e + 1
      BY <1>1, <1>2, <2>5
    <3>. QED
      BY <2>5, <3>1, <3>2
  <2>6. CASE r = 5
    <3>1. FitsIn(256, 5, 58, 7)
      BY PowersOf256, PowersOf58 DEF FitsIn
    <3>2. 11 * q + 7 <= e + 1
      BY <1>1, <1>2, <2>6
    <3>. QED
      BY <2>6, <3>1, <3>2
  <2>7. CASE r = 6
    <3>1. FitsIn(256, 6, 58, 9)
      BY PowersOf256, PowersOf58 DEF FitsIn
    <3>2. 11 * q + 9 <= e + 1
      BY <1>1, <1>2, <2>7
    <3>. QED
      BY <2>7, <3>1, <3>2
  <2>8. CASE r = 7
    <3>1. FitsIn(256, 7, 58, 10)
      BY PowersOf256, PowersOf58 DEF FitsIn
    <3>2. 11 * q + 10 <= e + 1
      BY <1>1, <1>2, <2>8
    <3>. QED
      BY <2>8, <3>1, <3>2
  <2>. QED
    BY <1>1, <2>1, <2>2, <2>3, <2>4, <2>5, <2>6, <2>7, <2>8
<1>6. PICK c \in Nat : FitsIn(256, r, 58, c) /\ 11 * q + c <= e + 1
  BY <1>5
<1>7. FitsIn(256, 8 * q + r, 58, 11 * q + c)
  <2>. DEFINE i == 8 * q
              j == 11 * q
  <2>1. i \in Nat /\ j \in Nat /\ r \in Nat
    BY <1>1
  <2>2. FitsIn(256, i, 58, j) /\ FitsIn(256, r, 58, c)
    BY <1>4, <1>6
  <2>. DEFINE k == i + r
              l == j + c
  <2>3. k \in Nat /\ l \in Nat /\ k = i + r /\ l = j + c
    BY <1>6, <2>1
  <2>. HIDE DEF i, j, k, l
  <2>. DEFINE a == 256
              b == 58
  <2>4. a \in Nat /\ b \in Nat /\ FitsIn(a, i, b, j) /\ FitsIn(a, r, b, c)
    BY <2>2
  <2>. HIDE DEF a, b
  <2>5. FitsIn(a, k, b, l)
    BY <2>1, <2>3, <2>4, FitsAdd, Zenon
  <2>. QED
    BY <2>5 DEF a, b, i, j, k, l
<1>8. FitsIn(256, m, 58, e + 1)
  <2>1. 11 * q + c \in Nat /\ e + 1 \in Nat
    BY <1>1, <1>2
  <2>2. FitsIn(256, m, 58, 11 * q + c)
    BY <1>1, <1>7
  <2>. QED
    BY <1>1, <1>6, <2>1, <2>2, FitsMore
<1>. QED
  BY <1>2, <1>3, <1>8

\* That of decode is, for every length up to 194.
LEMMA DecodedFits ==
    ASSUME NEW m \in 0 .. 194
    PROVE  FitsIn(58, m, 256, DecodedSize(m)) /\ DecodedSize(m) \in Nat
<1>. DEFINE q == m \div 15
            r == m % 15
            e == (m * 733) \div 1000
<1>1. m \in Nat /\ q \in Nat /\ r \in 0 .. 14 /\ m = 15 * q + r /\ q <= 12
  <2>1. q \in Nat /\ r \in 0 .. 15 - 1 /\ m = q * 15 + r
    BY Divides
  <2>. HIDE DEF q, r
  <2>. QED
    BY <2>1
<1>2. PICK z \in 0 .. 1000 - 1 : e \in Nat /\ m * 733 = 1000 * e + z
  <2>. DEFINE v == m * 733
              w == v % 1000
  <2>1. v \in Nat
    BY <1>1
  <2>. HIDE DEF v
  <2>2. v \div 1000 \in Nat /\ v % 1000 \in 0 .. 1000 - 1 /\ v = (v \div 1000) * 1000 + (v % 1000)
    BY <2>1, Divides
  <2>3. e \in Nat /\ w \in 0 .. 1000 - 1 /\ v = e * 1000 + w
    BY <2>2 DEF v
  <2>. HIDE DEF e, w
  <2>4. e * 1000 = 1000 * e
    BY <2>3
  <2>. QED
    BY <2>3, <2>4 DEF v
<1>3. DecodedSize(m) = e + 1
  BY DEF DecodedSize
<1>. HIDE DEF q, r, e
<1>4. FitsIn(58, 15 * q, 256, 11 * q)
  <2>1. FitsIn(58, 15, 256, 11)
    BY PowersOf256, PowersOf58 DEF FitsIn
  <2>. QED
    BY <1>1, <2>1, FitsTimes
<1>5. \E c \in Nat : FitsIn(58, r, 256, c) /\ 11 * q + c <= e + 1
  <2>1. CASE r = 0
    <3>1. FitsIn(58, 0, 256, 0)
      BY PowersOf256, PowersOf58 DEF FitsIn
    <3>2. 11 * q + 0 <= e + 1
      BY <1>1, <1>2, <2>1
    <3>. QED
      BY <2>1, <3>1, <3>2
  <2>2. CASE r = 1
    <3>1. FitsIn(58, 1, 256, 1)
      BY PowersOf256, PowersOf58 DEF FitsIn
    <3>2. 11 * q + 1 <= e + 1
      BY <1>1, <1>2, <2>2
    <3>. QED
      BY <2>2, <3>1, <3>2
  <2>3. CASE r = 2
    <3>1. FitsIn(58, 2, 256, 2)
      BY PowersOf256, PowersOf58 DEF FitsIn
    <3>2. 11 * q + 2 <= e + 1
      BY <1>1, <1>2, <2>3
    <3>. QED
      BY <2>3, <3>1, <3>2
  <2>4. CASE r = 3
    <3>1. FitsIn(58, 3, 256, 3)
      BY PowersOf256, PowersOf58 DEF FitsIn
    <3>2. 11 * q + 3 <= e + 1
      BY <1>1, <1>2, <2>4
    <3>. QED
      BY <2>4, <3>1, <3>2
  <2>5. CASE r = 4
    <3>1. FitsIn(58, 4, 256, 3)
      BY PowersOf256, PowersOf58 DEF FitsIn
    <3>2. 11 * q + 3 <= e + 1
      BY <1>1, <1>2, <2>5
    <3>. QED
      BY <2>5, <3>1, <3>2
  <2>6. CASE r = 5
    <3>1. FitsIn(58, 5, 256, 4)
      BY PowersOf256, PowersOf58 DEF FitsIn
    <3>2. 11 * q + 4 <= e + 1
      BY <1>1, <1>2, <2>6
    <3>. QED
      BY <2>6, <3>1, <3>2
  <2>7. CASE r = 6
    <3>1. FitsIn(58, 6, 256, 5)
      BY PowersOf256, PowersOf58 DEF FitsIn
    <3>2. 11 * q + 5 <= e + 1
      BY <1>1, <1>2, <2>7
    <3>. QED
      BY <2>7, <3>1, <3>2
  <2>8. CASE r = 7
    <3>1. FitsIn(58, 7, 256, 6)
      BY PowersOf256, PowersOf58 DEF FitsIn
    <3>2. 11 * q + 6 <= e + 1
      BY <1>1, <1>2, <2>8
    <3>. QED
      BY <2>8, <3>1, <3>2
  <2>9. CASE r = 8
    <3>1. FitsIn(58, 8, 256, 6)
      BY PowersOf256, PowersOf58 DEF FitsIn
    <3>2. 11 * q + 6 <= e + 1
      BY <1>1, <1>2, <2>9
    <3>. QED
      BY <2>9, <3>1, <3>2
  <2>10. CASE r = 9
    <3>1. FitsIn(58, 9, 256, 7)
      BY PowersOf256, PowersOf58 DEF FitsIn
    <3>2. 11 * q + 7 <= e + 1
      BY <1>1, <1>2, <2>10
    <3>. QED
      BY <2>10, <3>1, <3>2
  <2>11. CASE r = 10
    <3>1. FitsIn(58, 10, 256, 8)
      BY PowersOf256, PowersOf58 DEF FitsIn
    <3>2. 11 * q + 8 <= e + 1
      BY <1>1, <1>2, <2>11
    <3>. QED
      BY <2>11, <3>1, <3>2
  <2>12. CASE r = 11
    <3>1. FitsIn(58, 11, 256, 9)
      BY PowersOf256, PowersOf58 DEF FitsIn
    <3>2. 11 * q + 9 <= e + 1
      BY <1>1, <1>2, <2>12
    <3>. QED
      BY <2>12, <3>1, <3>2
  <2>13. CASE r = 12
    <3>1. FitsIn(58, 12, 256, 9)
      BY PowersOf256, PowersOf58 DEF FitsIn
    <3>2. 11 * q + 9 <= e + 1
      BY <1>1, <1>2, <2>13
    <3>. QED
      BY <2>13, <3>1, <3>2
  <2>14. CASE r = 13
    <3>1. FitsIn(58, 13, 256, 10)
      BY PowersOf256, PowersOf58 DEF FitsIn
    <3>2. 11 * q + 10 <= e + 1
      BY <1>1, <1>2, <2>14
    <3>. QED
      BY <2>14, <3>1, <3>2
  <2>15. CASE r = 14
    <3>1. FitsIn(58, 14, 256, 11)
      BY PowersOf256, PowersOf58 DEF FitsIn
    <3>2. 11 * q + 11 <= e + 1
      BY <1>1, <1>2, <2>15
    <3>. QED
      BY <2>15, <3>1, <3>2
  <2>. QED
    BY <1>1, <2>1, <2>2, <2>3, <2>4, <2>5, <2>6, <2>7, <2>8, <2>9, <2>10, <2>11, <2>12, <2>13, <2>14, <2>15
<1>6. PICK c \in Nat : FitsIn(58, r, 256, c) /\ 11 * q + c <= e + 1
  BY <1>5
<1>7. FitsIn(58, 15 * q + r, 256, 11 * q + c)
  <2>. DEFINE i == 15 * q
              j == 11 * q
  <2>1. i \in Nat /\ j \in Nat /\ r \in Nat
    BY <1>1
  <2>2. FitsIn(58, i, 256, j) /\ FitsIn(58, r, 256, c)
    BY <1>4, <1>6
  <2>. DEFINE k == i + r
              l == j + c
  <2>3. k \in Nat /\ l \in Nat /\ k = i + r /\ l = j + c
    BY <1>6, <2>1
  <2>. HIDE DEF i, j, k, l
  <2>. DEFINE a == 58
              b == 256
  <2>4. a \in Nat /\ b \in Nat /\ FitsIn(a, i, b, j) /\ FitsIn(a, r, b, c)
    BY <2>2
  <2>. HIDE DEF a, b
  <2>5. FitsIn(a, k, b, l)
    BY <2>1, <2>3, <2>4, FitsAdd, Zenon
  <2>. QED
    BY <2>5 DEF a, b, i, j, k, l
<1>8. FitsIn(58, m, 256, e + 1)
  <2>1. 11 * q + c \in Nat /\ e + 1 \in Nat
    BY <1>1, <1>2
  <2>2. FitsIn(58, m, 256, 11 * q + c)
    BY <1>1, <1>7
  <2>. QED
    BY <1>1, <1>6, <2>1, <2>2, FitsMore
<1>. QED
  BY <1>2, <1>3, <1>8
\* A number whose digits fit has no more digits than the other base has room for.
LEMMA NumeralFits ==
    ASSUME NEW a \in Nat \ {0, 1}, NEW b \in Nat \ {0, 1}, NEW u, NEW d,
           IsNumeral(u, a), IsNumeral(d, b), NumberOf(u, a) = NumberOf(d, b),
           NEW m \in Nat, FitsIn(a, Len(u), b, m)
    PROVE  Len(d) <= m
<1>. DEFINE v == NumberOf(d, b)
            l == Len(d)
            p == Power(a, Len(u))
            q == Power(b, m)
<1>1. l \in Nat /\ Len(u) \in Nat
  BY DEF IsNumeral
<1>2. v < p
  BY NumeralIsBounded
<1>3. v \in Nat /\ (l > 0 => Power(b, l - 1) <= v)
  BY NumeralIsBounded
<1>4. p <= q
  BY DEF FitsIn
<1>5. p \in Nat /\ q \in Nat
  BY <1>1, PowerIs
<1>. SUFFICES ASSUME l > m PROVE FALSE
  BY <1>1
<1>6. l - 1 \in Nat /\ m <= l - 1
  BY <1>1
<1>7. q <= Power(b, l - 1) /\ Power(b, l - 1) \in Nat
  <2>1. b \in Nat \ {0} /\ b \in Nat
    OBVIOUS
  <2>. HIDE DEF l
  <2>. QED
    BY <1>6, <2>1, PowerGrows, PowerIs
<1>. DEFINE w == Power(b, l - 1)
<1>8. w <= v /\ q <= w /\ w \in Nat
  BY <1>1, <1>3, <1>7
<1>. HIDE DEF p, q, v, w
<1>. QED
  BY <1>2, <1>3, <1>4, <1>5, <1>8

\* A string is written in one way only.
LEMMA WrittenOnce ==
    ASSUME NEW b \in Nat \ {0, 1}, NEW y \in Nat, NEW z \in Nat, NEW d, NEW e,
           IsNumeral(d, b), IsNumeral(e, b), Written(y, d) = Written(z, e)
    PROVE  y = z /\ d = e
<1>. DEFINE s == Written(y, d)
            n == Len(d)
<1>1. d \in Seq(0 .. b - 1) /\ e \in Seq(0 .. b - 1) /\ n \in Nat /\ Len(e) \in Nat
      /\ b \in Nat \ {0}
  BY DEF IsNumeral
<1>2. Len(Written(y, d)) = y + n /\ \A i \in 1 .. n : Written(y, d)[y + i] = d[n - i + 1]
  BY <1>1, WrittenIs
<1>3. Len(Written(z, e)) = z + Len(e)
      /\ \A i \in 1 .. Len(e) : Written(z, e)[z + i] = e[Len(e) - i + 1]
  BY <1>1, WrittenIs
<1>4. Begins(s, y)
  BY <1>1, WrittenBegins
<1>5. Begins(s, z)
  <2>1. Begins(Written(z, e), z)
    BY <1>1, WrittenBegins
  <2>. QED
    BY <2>1
<1>. HIDE DEF n
<1>6. y = z
  <2>1. Len(s) \in Nat
    BY <1>1, <1>2
  <2>. HIDE DEF s
  <2>. QED
    BY <1>4, <1>5, <2>1, BeginsOnce
<1>7. Len(e) = n
  BY <1>1, <1>2, <1>3, <1>6
<1>8. \A i \in 1 .. n : d[i] = e[i]
  <2>. SUFFICES ASSUME NEW i \in 1 .. n PROVE d[i] = e[i]
    OBVIOUS
  <2>. DEFINE j == n - i + 1
  <2>1. j \in 1 .. n /\ n - j + 1 = i
    BY <1>1
  <2>. HIDE DEF j
  <2>2. Written(y, d)[y + j] = d[n - j + 1] /\ Written(z, e)[z + j] = e[n - j + 1]
    BY <1>2, <1>3, <1>7, <2>1
  <2>. QED
    BY <1>6, <2>1, <2>2
<1>9. d = e
  <2>1. d \in Seq(0 .. b - 1) /\ e \in Seq(0 .. b - 1) /\ Len(d) = Len(e)
        /\ \A i \in 1 .. Len(d) : d[i] = e[i]
    BY <1>1, <1>7, <1>8 DEF n
  <2>. QED
    BY <2>1, SeqEqual, Zenon
<1>. QED
  BY <1>6, <1>9

\* The digits that were written are the digits of the string.
LEMMA WrittenDigits ==
    ASSUME NEW b \in Nat \ {0, 1}, NEW z \in Nat, NEW d, IsNumeral(d, b)
    PROVE  DigitsOf(Written(z, d), z) = d
<1>. DEFINE s == Written(z, d)
            e == DigitsOf(s, z)
<1>1. d \in Seq(0 .. b - 1) /\ b \in Nat \ {0}
  BY DEF IsNumeral
<1>2. s \in Seq(0 .. b - 1) /\ Begins(s, z)
  BY <1>1, WrittenIs, WrittenBegins
<1>3. IsNumeral(e, b) /\ Written(z, e) = s
  <2>. HIDE DEF s
  <2>. QED
    BY <1>1, <1>2, StringIsWritten
<1>. HIDE DEF e
<1>. QED
  BY <1>3, WrittenOnce DEF e

\* A string converted: the same zeros, and digits for the same number, as many as fit.
IsConverted(c, s, z, from, to, size) ==
    \E d : /\ IsNumeral(d, to) /\ NumberOf(d, to) = NumberOf(DigitsOf(s, z), from)
           /\ c = Written(z, d) /\ Len(d) <= size

\* When the digits fit the buffer, the index stays in it.
LEMMA ConvertedFits ==
    ASSUME NEW from \in Nat \ {0, 1}, NEW to \in Nat \ {0, 1}, from <= to * to,
           NEW s \in Seq(0 .. from - 1), NEW z, Begins(s, z),
           NEW size \in Nat, FitsIn(from, Len(s) - z, to, size)
    PROVE  IsConverted(Converted(s, from, to, size), s, z, from, to, size)
<1>. DEFINE u == DigitsOf(s, z)
<1>1. PICK d : /\ IsNumeral(d, to) /\ NumberOf(d, to) = NumberOf(u, from)
               /\ Converted(s, from, to, size) = IF Len(d) > size THEN Panic ELSE Written(z, d)
  <2>1. ConvertsTo(Converted(s, from, to, size), s, z, from, to, size)
    BY ConvertedIs, Zenon
  <2>. QED
    BY <2>1, Zenon DEF ConvertsTo
<1>2. IsNumeral(u, from) /\ Len(u) = Len(s) - z
  <2>1. from \in Nat \ {0}
    OBVIOUS
  <2>. QED
    BY <2>1, StringIsWritten
<1>3. Len(d) \in Nat
  BY <1>1 DEF IsNumeral
<1>. HIDE DEF u
<1>4. Len(d) <= size
  BY <1>1, <1>2, NumeralFits
<1>5. ~ (Len(d) > size)
  BY <1>3, <1>4
<1>6. Converted(s, from, to, size) = Written(z, d)
  BY <1>1, <1>5
<1>. QED
  BY <1>1, <1>4, <1>6 DEF IsConverted, u

\* The bytes and the digits of the codec.
Byte256 == 0 .. 256 - 1
Digit58 == 0 .. 58 - 1

\* encode never runs out of its buffer.
LEMMA EncodeIs ==
    ASSUME NEW s \in Seq(Byte256), NEW z, Begins(s, z)
    PROVE  IsConverted(B58Encode(s), s, z, 256, 58, EncodedSize(Len(s) - z))
<1>. DEFINE n == Len(s)
            m == n - z
            size == EncodedSize(m)
<1>1. n \in Nat /\ z \in 0 .. n /\ LeadingZeros(s) = z
  <2>1. Begins(s, LeadingZeros(s)) /\ n \in Nat
    BY LeadingIs
  <2>2. LeadingZeros(s) = z
    BY <2>1, BeginsOnce
  <2>. QED
    BY <2>1, <2>2 DEF Begins
<1>2. m \in Nat
  <2>. HIDE DEF n
  <2>. QED
    BY <1>1
<1>3. B58Encode(s) = Converted(s, 256, 58, size)
  BY <1>1 DEF B58Encode
<1>4. FitsIn(256, m, 58, size) /\ size \in Nat
  <2>. HIDE DEF m
  <2>. QED
    BY <1>2, EncodedFits
<1>. DEFINE from == 256
            to == 58
<1>5. /\ from \in Nat \ {0, 1} /\ to \in Nat \ {0, 1} /\ from <= to * to
      /\ s \in Seq(0 .. from - 1) /\ FitsIn(from, m, to, size)
  BY <1>4 DEF Byte256
<1>6. from = 256 /\ to = 58
  OBVIOUS
<1>. HIDE DEF size, from, to
<1>7. IsConverted(Converted(s, from, to, size), s, z, from, to, size)
  BY <1>4, <1>5, ConvertedFits, Zenon
<1>. QED
  BY <1>3, <1>6, <1>7 DEF size

\* decode does not either, for at most 194 digits.
LEMMA DecodeIs ==
    ASSUME NEW t \in Seq(Digit58), NEW z, Begins(t, z), NEW m \in 0 .. 194, m = Len(t) - z
    PROVE  IsConverted(B58Decode(t), t, z, 58, 256, DecodedSize(m))
<1>. DEFINE n == Len(t)
            size == DecodedSize(m)
<1>1. n \in Nat /\ LeadingZeros(t) = z
  <2>1. Begins(t, LeadingZeros(t)) /\ n \in Nat
    BY LeadingIs
  <2>2. LeadingZeros(t) = z
    BY <2>1, BeginsOnce
  <2>. QED
    BY <2>1, <2>2
<1>2. B58Decode(t) = Converted(t, 58, 256, size)
  <2>1. \A i \in DOMAIN t : t[i] \in 0 .. 57
    <3>1. Digit58 = 0 .. 57
      BY DEF Digit58
    <3>2. \A i \in DOMAIN t : t[i] \in Digit58
      OBVIOUS
    <3>. QED
      BY <3>1, <3>2
  <2>2. IsBase58(t)
    BY <2>1 DEF IsBase58
  <2>. QED
    BY <1>1, <2>2 DEF B58Decode
<1>3. FitsIn(58, m, 256, size) /\ size \in Nat
  BY DecodedFits
<1>. DEFINE from == 58
            to == 256
<1>4. /\ from \in Nat \ {0, 1} /\ to \in Nat \ {0, 1} /\ from <= to * to
      /\ t \in Seq(0 .. from - 1) /\ FitsIn(from, n - z, to, size)
  BY <1>3 DEF Digit58
<1>5. from = 58 /\ to = 256
  OBVIOUS
<1>. HIDE DEF size, from, to
<1>6. IsConverted(Converted(t, from, to, size), t, z, from, to, size)
  BY <1>3, <1>4, ConvertedFits, Zenon
<1>. QED
  BY <1>2, <1>5, <1>6 DEF size
\* A string that was converted is one of digits of the other base.
LEMMA ConvertedIsString ==
    ASSUME NEW to \in Nat \ {0, 1}, NEW c, NEW s, NEW z \in Nat, NEW from, NEW size,
           IsConverted(c, s, z, from, to, size)
    PROVE  c \in Seq(0 .. to - 1) /\ Begins(c, z) /\ Len(c) >= z
<1>1. PICK d : IsNumeral(d, to) /\ c = Written(z, d)
  BY DEF IsConverted
<1>2. to \in Nat \ {0} /\ d \in Seq(0 .. to - 1) /\ Len(d) \in Nat
  BY <1>1 DEF IsNumeral
<1>3. c \in Seq(0 .. to - 1) /\ Len(c) = z + Len(d)
  BY <1>1, <1>2, WrittenIs
<1>4. Begins(c, z)
  BY <1>1, <1>2, WrittenBegins
<1>. QED
  BY <1>2, <1>3, <1>4

\* What is converted to another base and from it again is what it was.
LEMMA ConvertedBack ==
    ASSUME NEW a \in Nat \ {0, 1}, NEW b \in Nat \ {0, 1}, NEW s \in Seq(0 .. a - 1),
           NEW z \in Nat, Begins(s, z), NEW c, NEW t, NEW i, NEW j,
           IsConverted(c, s, z, a, b, i), IsConverted(t, c, z, b, a, j)
    PROVE  t = s
<1>. DEFINE u == DigitsOf(s, z)
<1>1. a \in Nat \ {0} /\ b \in Nat \ {0}
  OBVIOUS
<1>2. IsNumeral(u, a) /\ Written(z, u) = s
  BY <1>1, StringIsWritten
<1>3. PICK d : IsNumeral(d, b) /\ NumberOf(d, b) = NumberOf(u, a) /\ c = Written(z, d)
  BY DEF IsConverted
<1>4. DigitsOf(c, z) = d
  BY <1>3, WrittenDigits
<1>5. PICK e : IsNumeral(e, a) /\ NumberOf(e, a) = NumberOf(d, b) /\ t = Written(z, e)
  BY <1>4 DEF IsConverted
<1>. HIDE DEF u
<1>6. e = u
  BY <1>2, <1>3, <1>5, NumeralsAreApart
<1>. QED
  BY <1>2, <1>5, <1>6

\* Different strings are converted to different ones.
LEMMA ConvertedApart ==
    ASSUME NEW a \in Nat \ {0, 1}, NEW b \in Nat \ {0, 1},
           NEW s \in Seq(0 .. a - 1), NEW y \in Nat, Begins(s, y),
           NEW t \in Seq(0 .. a - 1), NEW z \in Nat, Begins(t, z),
           NEW c, NEW i, NEW j,
           IsConverted(c, s, y, a, b, i), IsConverted(c, t, z, a, b, j)
    PROVE  s = t
<1>. DEFINE u == DigitsOf(s, y)
            v == DigitsOf(t, z)
<1>1. a \in Nat \ {0} /\ b \in Nat \ {0}
  OBVIOUS
<1>2. IsNumeral(u, a) /\ Written(y, u) = s
  BY <1>1, StringIsWritten
<1>3. IsNumeral(v, a) /\ Written(z, v) = t
  BY <1>1, StringIsWritten
<1>4. PICK d : IsNumeral(d, b) /\ NumberOf(d, b) = NumberOf(u, a) /\ c = Written(y, d)
  BY DEF IsConverted
<1>5. PICK e : IsNumeral(e, b) /\ NumberOf(e, b) = NumberOf(v, a) /\ c = Written(z, e)
  BY DEF IsConverted
<1>. HIDE DEF u, v
<1>6. y = z /\ d = e
  BY <1>4, <1>5, WrittenOnce
<1>7. u = v
  BY <1>2, <1>3, <1>4, <1>5, <1>6, NumeralsAreApart
<1>. QED
  BY <1>2, <1>3, <1>6, <1>7

\* The digits of a short string are not many more than its bytes.
LEMMA EncodedIsShort ==
    ASSUME NEW m \in 0 .. 128
    PROVE  EncodedSize(m) \in Nat /\ EncodedSize(m) <= m + 66
<1>. DEFINE w == m * 138
            q == w \div 100
            e == w % 100
<1>1. w \in Nat
  OBVIOUS
<1>2. w = m * 138
  OBVIOUS
<1>. HIDE DEF w
<1>3. w \div 100 \in Nat /\ w % 100 \in 0 .. 100 - 1 /\ w = (w \div 100) * 100 + (w % 100)
  BY <1>1, Divides
<1>4. q \in Nat /\ e \in 0 .. 100 - 1 /\ w = q * 100 + e
  BY <1>3
<1>5. EncodedSize(m) = q + 1
  BY <1>2 DEF EncodedSize
<1>. HIDE DEF q, e
<1>. QED
  BY <1>2, <1>4, <1>5

\* Decoding gives back what was encoded, of every string of at most 128 bytes.
THEOREM DecodesBack ==
    ASSUME NEW s \in Seq(Byte256), Len(s) <= 128
    PROVE  /\ B58Encode(s) \in Seq(Digit58) /\ Len(B58Encode(s)) <= 194
           /\ B58Decode(B58Encode(s)) = s
           /\ s # <<>> /\ s[1] = 0 => B58Encode(s) # <<>>
<1>. DEFINE z == LeadingZeros(s)
            n == Len(s)
            m == n - z
            c == B58Encode(s)
<1>1. Begins(s, z) /\ n \in Nat
  BY LeadingIs
<1>2. z \in 0 .. n /\ (\A j \in 1 .. z : s[j] = 0) /\ (z < n => s[z + 1] # 0) /\ n <= 128
  BY <1>1 DEF Begins
<1>. HIDE DEF n
<1>3. z \in Nat /\ m \in 0 .. 128 /\ m \in Nat /\ z + m <= 128
  <2>1. z \in 0 .. n /\ n \in Nat /\ n <= 128
    BY <1>1, <1>2 DEF n
  <2>. HIDE DEF z
  <2>. QED
    BY <2>1
<1>4. IsConverted(c, s, z, 256, 58, EncodedSize(m))
  BY <1>1, EncodeIs DEF n
<1>. HIDE DEF z, c
<1>5. c \in Seq(Digit58) /\ Begins(c, z) /\ Len(c) >= z
  <2>1. 58 \in Nat \ {0, 1}
    OBVIOUS
  <2>2. c \in Seq(0 .. 58 - 1) /\ Begins(c, z) /\ Len(c) >= z
    BY <1>3, <1>4, <2>1, ConvertedIsString
  <2>. QED
    BY <2>2 DEF Digit58
<1>6. Len(c) - z \in 0 .. 194 /\ Len(c) <= 194
  <2>1. PICK d : IsNumeral(d, 58) /\ c = Written(z, d) /\ Len(d) <= EncodedSize(m)
    BY <1>4 DEF IsConverted
  <2>2. d \in Seq(0 .. 58 - 1) /\ 58 \in Nat \ {0} /\ Len(d) \in Nat
    BY <2>1 DEF IsNumeral
  <2>3. Len(c) = z + Len(d)
    BY <1>3, <2>1, <2>2, WrittenIs
  <2>. HIDE DEF m
  <2>4. z + EncodedSize(m) <= 194
    <3>1. EncodedSize(m) \in Nat /\ EncodedSize(m) <= m + 66
      BY <1>3, EncodedIsShort
    <3>. DEFINE x == EncodedSize(m)
    <3>. HIDE DEF x
    <3>2. x \in Nat /\ x <= m + 66 /\ z + m <= 128 /\ z \in Nat /\ m \in Nat
      BY <1>3, <3>1 DEF x
    <3>3. z + x <= 194
      BY <3>2
    <3>. QED
      BY <3>3 DEF x
  <2>5. EncodedSize(m) \in Nat
    <3>1. m \in Nat
      BY <1>3
    <3>. QED
      BY <3>1, EncodedFits
  <2>. DEFINE l == Len(d)
              x == EncodedSize(m)
  <2>6. l \in Nat /\ x \in Nat /\ Len(c) = z + l /\ l <= x /\ z + x <= 194 /\ z \in Nat
    BY <1>3, <2>1, <2>2, <2>3, <2>4, <2>5
  <2>. HIDE DEF l, x
  <2>. QED
    BY <2>6
<1>7. B58Decode(c) = s
  <2>. DEFINE k == Len(c) - z
  <2>1. k \in 0 .. 194
    BY <1>6
  <2>. HIDE DEF k
  <2>2. IsConverted(B58Decode(c), c, z, 58, 256, DecodedSize(k))
    BY <1>5, <2>1, DecodeIs DEF k
  <2>. DEFINE from == 256
              to == 58
              i == EncodedSize(m)
              j == DecodedSize(k)
  <2>3. /\ from \in Nat \ {0, 1} /\ to \in Nat \ {0, 1} /\ s \in Seq(0 .. from - 1)
        /\ IsConverted(c, s, z, from, to, i) /\ IsConverted(B58Decode(c), c, z, to, from, j)
    BY <1>4, <2>2 DEF Byte256
  <2>. HIDE DEF from, to, i, j
  <2>. QED
    BY <1>1, <1>3, <2>3, ConvertedBack, Zenon DEF z
<1>8. ASSUME s # <<>>, s[1] = 0 PROVE c # <<>>
  <2>1. n > 0
    BY <1>1, <1>8 DEF n
  <2>2. z # 0
    BY <1>1, <1>2, <1>8, <2>1
  <2>. QED
    BY <1>3, <1>5, <2>2
<1>. QED
  BY <1>5, <1>6, <1>7, <1>8 DEF c

\* Different strings of at most 194 digits are decoded differently.
THEOREM DecodesApart ==
    ASSUME NEW s \in Seq(Digit58), NEW t \in Seq(Digit58), Len(s) <= 194, Len(t) <= 194,
           B58Decode(s) = B58Decode(t)
    PROVE  s = t
<1>. DEFINE y == LeadingZeros(s)
            z == LeadingZeros(t)
            k == Len(s) - y
            l == Len(t) - z
<1>1. Begins(s, y) /\ Begins(t, z)
  BY LeadingIs
<1>2. y \in 0 .. Len(s) /\ z \in 0 .. Len(t) /\ Len(s) \in Nat /\ Len(t) \in Nat
  BY <1>1 DEF Begins
<1>3. k \in 0 .. 194 /\ l \in 0 .. 194 /\ y \in Nat /\ z \in Nat
  <2>. DEFINE m == Len(s)
              n == Len(t)
  <2>1. m \in Nat /\ n \in Nat /\ m <= 194 /\ n <= 194 /\ y \in 0 .. m /\ z \in 0 .. n
    BY <1>2
  <2>. HIDE DEF m, n, y, z
  <2>2. m - y \in 0 .. 194 /\ n - z \in 0 .. 194 /\ y \in Nat /\ z \in Nat
    BY <2>1
  <2>. QED
    BY <2>2 DEF m, n
<1>. HIDE DEF y, z, k, l
<1>4. IsConverted(B58Decode(s), s, y, 58, 256, DecodedSize(k))
  BY <1>1, <1>3, DecodeIs DEF k
<1>5. IsConverted(B58Decode(s), t, z, 58, 256, DecodedSize(l))
  <2>1. IsConverted(B58Decode(t), t, z, 58, 256, DecodedSize(l))
    BY <1>1, <1>3, DecodeIs DEF l
  <2>. QED
    BY <2>1
<1>. DEFINE from == 58
            to == 256
            i == DecodedSize(k)
            j == DecodedSize(l)
            c == B58Decode(s)
<1>6. /\ from \in Nat \ {0, 1} /\ to \in Nat \ {0, 1} /\ s \in Seq(0 .. from - 1)
      /\ t \in Seq(0 .. from - 1)
      /\ IsConverted(c, s, y, from, to, i) /\ IsConverted(c, t, z, from, to, j)
  BY <1>4, <1>5 DEF Digit58
<1>. HIDE DEF from, to, i, j, c
<1>. QED
  BY <1>1, <1>3, <1>6, ConvertedApart, Zenon

-----------------------------------------------------------------------------
(* The hashes: what is read off a state, and what goes into it *)

\* A block: 64 numbers.
IsBlock(b) == b \in Seq(Int) /\ Len(b) = 64

\* What a byte makes of a sum, and a block of a mixture.
WithByte(total, byte) == (total * 31 + byte + 7) % HashPrime
WithBlock(total, chunk) == (total * 257 + Summed(chunk)) % HashPrime

\* A number stays one.
LEMMA WithIsInt ==
    /\ \A a \in Int, b \in Int : WithByte(a, b) \in Int
    /\ \A a \in Int : \A b : Summed(b) \in Int => WithBlock(a, b) \in Int
<1>1. ASSUME NEW v \in Int PROVE v % HashPrime \in Int
  BY DEF HashPrime
<1>2. ASSUME NEW a \in Int, NEW b \in Int PROVE WithByte(a, b) \in Int
  <2>. DEFINE v == a * 31 + b + 7
  <2>1. v \in Int
    OBVIOUS
  <2>. HIDE DEF v
  <2>2. v % HashPrime \in Int
    BY <1>1, <2>1
  <2>. QED
    BY <2>2 DEF WithByte, v
<1>3. ASSUME NEW a \in Int, NEW b, Summed(b) \in Int PROVE WithBlock(a, b) \in Int
  <2>. DEFINE v == a * 257 + Summed(b)
  <2>1. v \in Int
    BY <1>3
  <2>. HIDE DEF v
  <2>2. v % HashPrime \in Int
    BY <1>1, <2>1
  <2>. QED
    BY <2>2 DEF WithBlock, v
<1>. QED
  BY <1>2, <1>3

\* The numbers of a block are summed to one.
LEMMA SummedIsInt ==
    ASSUME NEW b, IsBlock(b)
    PROVE  Summed(b) \in Int
<1>. DEFINE n == 64
            op == [p \in Int \X (1 .. n) |-> WithByte(p[1], b[p[2]])]
            Raw(it, i) == IF i = 0 THEN 0 ELSE (it[i - 1] * 31 + b[i] + 7) % HashPrime
            Loop(it, i) == IF i = 0 THEN 0 ELSE WithByte(it[i - 1], b[i])
            Loops(it) == it = [i \in 0 .. n |-> Raw(it, i)]
            sum == CHOOSE it : Loops(it)
<1>1. Summed(b) = sum[n]
  BY Zenon DEF Summed
<1>0. ASSUME NEW it, NEW i PROVE Raw(it, i) = Loop(it, i)
  BY DEF WithByte
<1>. HIDE DEF n, Raw
<1>2. n \in Nat /\ \A i \in 1 .. n : b[i] \in Int
  <2>1. b \in Seq(Int) /\ Len(b) = n
    BY DEF IsBlock, n
  <2>. QED
    BY <2>1
<1>3. op \in [Int \X (1 .. n) -> Int]
  <2>. SUFFICES ASSUME NEW a \in Int, NEW i \in 1 .. n PROVE WithByte(a, b[i]) \in Int
    OBVIOUS
  <2>. QED
    BY <1>2, WithIsInt
<1>4. PICK f \in [0 .. n -> Int] : Follows(f, 0, op, n)
  <2>. HIDE DEF op
  <2>1. 0 \in Int
    OBVIOUS
  <2>. QED
    BY <1>2, <1>3, <2>1, RecursionExists
<1>5. f[0] = 0 /\ \A i \in 1 .. n : f[i] = op[<<f[i - 1], i>>] /\ f[i - 1] \in Int
  <2>. HIDE DEF op
  <2>1. \A i \in 1 .. n : i - 1 \in 0 .. n
    BY <1>2
  <2>. QED
    BY <1>4, <2>1 DEF Follows
<1>6. \A i \in 1 .. n : f[i] = WithByte(f[i - 1], b[i])
  BY <1>5
<1>. HIDE DEF op
<1>7. Loops(f)
  <2>1. \A i \in 0 .. n : f[i] = Loop(f, i)
    BY <1>2, <1>5, <1>6
  <2>2. f = [i \in 0 .. n |-> f[i]]
    OBVIOUS
  <2>. HIDE DEF Loop
  <2>3. \A i \in 0 .. n : f[i] = Raw(f, i)
    BY <1>0, <2>1
  <2>. QED
    BY <2>2, <2>3
<1>8. Loops(sum)
  <2>. HIDE DEF Loops
  <2>. QED
    BY <1>7, Zenon
<1>. HIDE DEF sum
<1>9. \A i \in 0 .. n : sum[i] = Loop(sum, i)
  <2>. HIDE DEF Loop
  <2>1. \A i \in 0 .. n : sum[i] = Raw(sum, i)
    BY <1>8
  <2>. QED
    BY <1>0, <2>1
<1>10. StepsAlike(f, sum, n)
  <2>1. sum[0] = 0
    BY <1>2, <1>9
  <2>2. \A i \in 1 .. n : sum[i] = WithByte(sum[i - 1], b[i])
    BY <1>2, <1>9
  <2>. QED
    BY <1>5, <1>6, <2>1, <2>2 DEF StepsAlike
<1>11. sum[n] = f[n] /\ f[n] \in Int
  <2>1. n \in 0 .. n
    BY <1>2
  <2>2. Alike(f, sum, n)
    BY <1>2, <1>10, RecursionIsUnique
  <2>. QED
    BY <1>4, <2>1, <2>2 DEF Alike
<1>. QED
  BY <1>1, <1>11

\* A state: a number, and the blocks that went in after it.
IsState(s) ==
    Len(s) \in Nat \ {0} /\ s[1] \in Int /\ \A i \in 2 .. Len(s) : IsBlock(s[i])

\* The numbers of a state are summed to one.
LEMMA MixedIsInt ==
    ASSUME NEW s, IsState(s)
    PROVE  Mixed(s) \in Int
<1>. DEFINE n == Len(s)
            m == n - 1
            Raw(it, i) == IF i = 1 THEN s[1] ELSE (it[i - 1] * 257 + Summed(s[i])) % HashPrime
            Loop(it, i) == IF i = 1 THEN s[1] ELSE WithBlock(it[i - 1], s[i])
            Loops(it) == it = [i \in 1 .. n |-> Raw(it, i)]
            h == CHOOSE it : Loops(it)
            op == [p \in Int \X (1 .. m) |-> WithBlock(p[1], s[p[2] + 1])]
<1>1. Mixed(s) = h[n]
  BY Zenon DEF Mixed
<1>0. ASSUME NEW it, NEW i PROVE Raw(it, i) = Loop(it, i)
  BY DEF WithBlock
<1>. HIDE DEF Raw
<1>2. n \in Nat \ {0} /\ m \in Nat /\ s[1] \in Int /\ m + 1 = n
  BY DEF IsState
<1>3. \A i \in 2 .. n : Summed(s[i]) \in Int
  BY SummedIsInt DEF IsState
<1>. HIDE DEF n
<1>4. op \in [Int \X (1 .. m) -> Int]
  <2>. SUFFICES ASSUME NEW a \in Int, NEW i \in 1 .. m PROVE WithBlock(a, s[i + 1]) \in Int
    OBVIOUS
  <2>1. i + 1 \in 2 .. n
    BY <1>2
  <2>. QED
    BY <1>3, <2>1, WithIsInt
<1>. HIDE DEF m
<1>5. PICK f \in [0 .. m -> Int] : Follows(f, s[1], op, m)
  <2>. HIDE DEF op
  <2>. QED
    BY <1>2, <1>4, RecursionExists
<1>6. f[0] = s[1] /\ \A i \in 1 .. m : f[i] = op[<<f[i - 1], i>>] /\ f[i - 1] \in Int
  <2>. HIDE DEF op
  <2>1. \A i \in 1 .. m : i - 1 \in 0 .. m
    BY <1>2
  <2>. QED
    BY <1>5, <2>1 DEF Follows
<1>7. \A i \in 1 .. m : f[i] = WithBlock(f[i - 1], s[i + 1])
  BY <1>6
<1>. HIDE DEF op
<1>. DEFINE g == [i \in 1 .. n |-> f[i - 1]]
<1>8. ASSUME NEW i \in 1 .. n PROVE g[i] = Loop(g, i)
  <2>1. CASE i = 1
    BY <1>6, <2>1
  <2>2. CASE i # 1
    <3>. DEFINE j == i - 1
    <3>1. j \in 1 .. m /\ j \in 1 .. n /\ j + 1 = i
      BY <1>2, <2>2
    <3>2. g[i] = f[j] /\ g[j] = f[j - 1]
      BY <3>1
    <3>3. f[j] = WithBlock(f[j - 1], s[j + 1])
      <4>. HIDE DEF j
      <4>. QED
        BY <1>7, <3>1
    <3>. HIDE DEF g
    <3>4. g[i] = WithBlock(g[j], s[i])
      <4>. HIDE DEF j
      <4>. QED
        BY <3>1, <3>2, <3>3
    <3>. QED
      BY <2>2, <3>4
  <2>. QED
    BY <2>1, <2>2
<1>9. Loops(g)
  <2>1. g = [i \in 1 .. n |-> g[i]]
    OBVIOUS
  <2>. HIDE DEF g, Loop
  <2>2. \A i \in 1 .. n : g[i] = Raw(g, i)
    BY <1>0, <1>8
  <2>. QED
    BY <2>1, <2>2
<1>10. Loops(h)
  <2>. HIDE DEF Loops
  <2>. QED
    BY <1>9, Zenon
<1>. HIDE DEF h
<1>11. \A i \in 1 .. n : h[i] = Loop(h, i)
  <2>. HIDE DEF Loop
  <2>1. \A i \in 1 .. n : h[i] = Raw(h, i)
    BY <1>10
  <2>. QED
    BY <1>0, <2>1
<1>. DEFINE e == [k \in 0 .. m |-> h[k + 1]]
<1>12. StepsAlike(f, e, m)
  <2>1. e[0] = f[0]
    <3>1. 1 \in 1 .. n /\ 0 \in 0 .. m
      BY <1>2
    <3>. QED
      BY <1>6, <1>11, <3>1
  <2>2. ASSUME NEW k \in 1 .. m, e[k - 1] = f[k - 1] PROVE e[k] = f[k]
    <3>. DEFINE i == k + 1
    <3>1. i \in 1 .. n /\ i # 1 /\ i - 1 = k /\ k \in 0 .. m /\ k - 1 \in 0 .. m /\ k - 1 + 1 = k
      BY <1>2
    <3>2. e[k] = h[i] /\ e[k - 1] = h[k]
      BY <3>1
    <3>. HIDE DEF i, e
    <3>3. h[i] = WithBlock(h[i - 1], s[i])
      BY <1>11, <3>1
    <3>4. f[k] = WithBlock(f[k - 1], s[i])
      BY <1>7 DEF i
    <3>. QED
      BY <2>2, <3>1, <3>2, <3>3, <3>4
  <2>. HIDE DEF e
  <2>. QED
    BY <2>1, <2>2 DEF StepsAlike
<1>13. h[n] = f[m] /\ f[m] \in Int
  <2>1. m \in 0 .. m
    BY <1>2
  <2>2. Alike(f, e, m)
    <3>. HIDE DEF e
    <3>. QED
      BY <1>2, <1>12, RecursionIsUnique
  <2>3. e[m] = f[m]
    <3>. HIDE DEF e
    <3>. QED
      BY <2>1, <2>2 DEF Alike
  <2>. QED
    BY <1>2, <1>5, <2>1, <2>3
<1>. QED
  BY <1>1, <1>13

\* What is read off a state is bytes.
LEMMA DigestIs ==
    ASSUME NEW s, IsState(s), NEW n \in Nat
    PROVE  Digest(s, n) \in Seq(Byte) /\ Len(Digest(s, n)) = n
<1>1. ASSUME NEW i \in 1 .. n PROVE DigestByte(s, i) \in Byte
  <2>. DEFINE v == Mixed(s) * (257 + i)
              w == v % HashPrime
  <2>1. v \in Int
    BY MixedIsInt
  <2>. HIDE DEF v
  <2>2. w \in Int
    BY <2>1 DEF HashPrime
  <2>. HIDE DEF w
  <2>3. w % 256 \in 0 .. 255
    BY <2>2
  <2>. QED
    BY <2>3 DEF DigestByte, Byte, v, w
<1>2. Digest(s, n) = [i \in 1 .. n |-> DigestByte(s, i)]
  BY DEF Digest
<1>. DEFINE d == [i \in 1 .. n |-> DigestByte(s, i)]
<1>3. d \in [1 .. n -> Byte]
  BY <1>1
<1>4. d \in Seq(Byte) /\ Len(d) = n
  BY <1>3
<1>. QED
  BY <1>2, <1>4

-----------------------------------------------------------------------------
(* What is padded: the message, then its length *)

\* What goes into a state in blocks: the data, a byte 128, zeros and the length.
Message(data, bitLen, n) ==
    [j \in 1 .. 64 * n |->
        IF j <= Len(data) THEN data[j]
        ELSE IF j = Len(data) + 1 THEN 128
        ELSE IF j <= 64 * n - 8 THEN 0 ELSE bitLen[j - (64 * n - 8)]]

\* The parts of m are those of a message of n blocks.
IsMessage(m, data, bitLen, n) ==
    /\ m \in Seq(Int) /\ Len(m) = 64 * n
    /\ \A j \in 1 .. Len(data) : m[j] = data[j]
    /\ m[Len(data) + 1] = 128
    /\ \A j \in Len(data) + 2 .. 64 * n - 8 : m[j] = 0
    /\ \A j \in 1 .. 8 : m[64 * n - 8 + j] = bitLen[j]

\* They are, when the blocks have room for them.
LEMMA MessageIs ==
    ASSUME NEW data \in Seq(Int), NEW bitLen \in Seq(Int), Len(bitLen) = 8, NEW n \in Nat,
           Len(data) + 9 <= 64 * n
    PROVE  IsMessage(Message(data, bitLen, n), data, bitLen, n)
<1>. DEFINE l == Len(data)
            e == 64 * n - 8
            t == 64 * n
            At64(j) == IF j <= l THEN data[j]
                       ELSE IF j = l + 1 THEN 128
                       ELSE IF j <= e THEN 0 ELSE bitLen[j - e]
            m == [j \in 1 .. t |-> At64(j)]
<1>1. Message(data, bitLen, n) = m
  BY DEF Message
<1>2. l \in Nat /\ e \in Nat /\ t \in Nat /\ l + 1 <= e /\ t = e + 8
  OBVIOUS
<1>3. /\ \A j \in 1 .. l : data[j] \in Int
      /\ \A j \in 1 .. 8 : bitLen[j] \in Int
  <2>. DEFINE k == 8
  <2>1. Len(bitLen) = k /\ k \in Nat
    OBVIOUS
  <2>. HIDE DEF k, l, e, t
  <2>2. \A j \in 1 .. k : bitLen[j] \in Int
    BY <2>1, ElementOfSeq
  <2>3. \A j \in 1 .. l : data[j] \in Int
    BY ElementOfSeq DEF l
  <2>. QED
    BY <2>2, <2>3 DEF k
<1>. HIDE DEF l, e, t
<1>4. ASSUME NEW j \in 1 .. t PROVE At64(j) \in Int
  <2>1. CASE j <= l
    BY <1>2, <1>3, <2>1
  <2>2. CASE j > l /\ j <= e
    BY <1>2, <2>2
  <2>3. CASE j > e
    <3>1. j - e \in 1 .. 8 /\ ~(j <= l) /\ j # l + 1 /\ ~(j <= e)
      BY <1>2, <2>3
    <3>2. At64(j) = bitLen[j - e]
      BY <3>1, Zenon
    <3>3. bitLen[j - e] \in Int
      BY <1>3, <3>1, Zenon
    <3>. QED
      BY <3>2, <3>3
  <2>. QED
    BY <1>2, <2>1, <2>2, <2>3
<1>. HIDE DEF At64
<1>5. m \in [1 .. t -> Int]
  BY <1>4
<1>6. m \in Seq(Int) /\ Len(m) = t
  BY <1>2, <1>5
<1>7. \A j \in 1 .. t : m[j] = At64(j)
  OBVIOUS
<1>. HIDE DEF m
<1>8. \A j \in 1 .. l : m[j] = data[j]
  BY <1>2, <1>7 DEF At64
<1>9. m[l + 1] = 128
  BY <1>2, <1>7 DEF At64
<1>10. \A j \in l + 2 .. e : m[j] = 0
  BY <1>2, <1>7 DEF At64
<1>11. ASSUME NEW j \in 1 .. 8 PROVE m[e + j] = bitLen[j]
  <2>. DEFINE i == e + j
  <2>1. i \in 1 .. t /\ ~(i <= l) /\ i # l + 1 /\ ~(i <= e) /\ i - e = j
    BY <1>2
  <2>. HIDE DEF i
  <2>2. m[i] = At64(i)
    BY <1>7, <2>1
  <2>3. At64(i) = bitLen[j]
    BY <2>1 DEF At64
  <2>4. m[i] = bitLen[j]
    BY <2>2, <2>3
  <2>. QED
    BY <2>4 DEF i
<1>. QED
  BY <1>1, <1>6, <1>8, <1>9, <1>10, <1>11 DEF IsMessage, l, e, t

\* The i-th 64 elements of a sequence.
Piece(s, i) == SubSeq(s, 64 * (i - 1) + 1, 64 * i)

\* b is those elements.
IsPiece(b, s, i, S) ==
    b \in Seq(S) /\ Len(b) = 64 /\ \A j \in 1 .. 64 : b[j] = s[64 * (i - 1) + j]

\* They are when the sequence is as long.
LEMMA PieceIs ==
    ASSUME NEW S, NEW s \in Seq(S), NEW i \in Nat \ {0}, 64 * i <= Len(s)
    PROVE  IsPiece(Piece(s, i), s, i, S)
<1>. DEFINE a == 64 * (i - 1) + 1
            b == 64 * i
            c == 64 * (i - 1)
            n == 64
            p == SubSeq(s, a, b)
<1>1. /\ a \in Int /\ b \in Int /\ a <= b /\ b - a + 1 = n /\ b <= Len(s) /\ 1 <= a
      /\ a = c + 1 /\ c \in Int /\ n \in Nat
  OBVIOUS
<1>2. Piece(s, i) = p
  BY DEF Piece
<1>. HIDE DEF a, b, c, n
<1>3. \A j \in a .. b : s[j] \in S
  <2>1. \A j \in a .. b : j \in 1 .. Len(s)
    BY <1>1
  <2>. QED
    BY <2>1, ElementOfSeq
<1>4. /\ p \in Seq(S)
      /\ Len(p) = IF a <= b THEN b - a + 1 ELSE 0
      /\ \A j \in 1 .. b - a + 1 : p[j] = s[a + j - 1]
  BY <1>1, <1>3, SubSeqProperties
<1>. HIDE DEF p
<1>5. \A j \in 1 .. n : a + j - 1 = c + j
  BY <1>1
<1>6. p \in Seq(S) /\ Len(p) = n /\ \A j \in 1 .. n : p[j] = s[c + j]
  BY <1>1, <1>4, <1>5
<1>. QED
  BY <1>2, <1>6 DEF IsPiece, n, c

\* The same elements are the same piece.
LEMMA SamePiece ==
    ASSUME NEW S, NEW s, NEW i, NEW b, NEW c, IsPiece(b, s, i, S), IsPiece(c, s, i, S)
    PROVE  b = c
<1>. DEFINE n == 64
            e == 64 * (i - 1)
<1>1. /\ b \in Seq(S) /\ Len(b) = n /\ c \in Seq(S) /\ Len(c) = n
      /\ \A j \in 1 .. n : b[j] = s[e + j]
      /\ \A j \in 1 .. n : c[j] = s[e + j]
  BY DEF IsPiece
<1>. HIDE DEF n, e
<1>2. Len(b) = Len(c) /\ \A j \in 1 .. Len(b) : b[j] = c[j]
  BY <1>1
<1>. QED
  BY <1>1, <1>2, SeqEqual

\* How many blocks a message takes.
LEMMA BlockCountIs ==
    ASSUME NEW l \in Nat, NEW w \in Nat, NEW r \in 0 .. 63, l = 64 * w + r
    PROVE  DivCeil(l + 9, 64) = w + (IF r >= 56 THEN 2 ELSE 1)
<1>. DEFINE n == w + (IF r >= 56 THEN 2 ELSE 1)
            v == l + 9 + 64 - 1
            q == v \div 64
<1>1. v \in Nat
  OBVIOUS
<1>2. n \in Nat /\ 64 * n <= v /\ v < 64 * n + 64
  OBVIOUS
<1>3. DivCeil(l + 9, 64) = q
  BY DEF DivCeil
<1>. HIDE DEF v
<1>4. q \in Nat /\ v % 64 \in 0 .. 63 /\ v = q * 64 + (v % 64)
  BY <1>1, Divides
<1>. HIDE DEF n, q
<1>5. q = n
  BY <1>1, <1>2, <1>4
<1>. QED
  BY <1>3, <1>5 DEF n

\* Zeros.
LEMMA ZerosAre ==
    ASSUME NEW n \in Nat
    PROVE  Zeros(n) \in Seq(Int) /\ Len(Zeros(n)) = n /\ \A i \in 1 .. n : Zeros(n)[i] = 0
<1>. DEFINE z == [i \in 1 .. n |-> 0]
<1>1. z \in [1 .. n -> Int]
  OBVIOUS
<1>2. z \in Seq(Int) /\ Len(z) = n
  BY <1>1
<1>3. Zeros(n) = z
  BY DEF Zeros
<1>. QED
  BY <1>2, <1>3

\* The rest of the data, a byte 128, and zeros up to 64 numbers.
Rest(rem) == rem \o <<128>> \o Zeros(63 - Len(rem))

\* Those are the parts of p.
IsRest(p, rem, r) ==
    /\ p \in Seq(Int) /\ Len(p) = 64
    /\ \A j \in 1 .. r : p[j] = rem[j]
    /\ p[r + 1] = 128
    /\ \A j \in r + 2 .. 64 : p[j] = 0

\* They are its parts.
LEMMA RestIs ==
    ASSUME NEW rem \in Seq(Int), NEW r \in Nat, NEW k \in Nat, Len(rem) = r, r + k = 63
    PROVE  IsRest(Rest(rem), rem, r)
<1>. DEFINE z == Zeros(k)
            o == <<128>>
            s == rem \o o
            p == s \o z
            n == r + 1
            u == 1
<1>1. n \in Nat /\ n + k = 64 /\ u \in Nat /\ n = r + u
  OBVIOUS
<1>0. 63 - r = k
  OBVIOUS
<1>2. Rest(rem) = p
  BY <1>0 DEF Rest
<1>3. z \in Seq(Int) /\ Len(z) = k /\ \A i \in 1 .. k : z[i] = 0
  BY ZerosAre
<1>4. o \in Seq(Int) /\ Len(o) = u /\ o[1] = 128
  OBVIOUS
<1>. HIDE DEF o, z, u
<1>5. Follow(s, rem, o, Int, r, u)
  BY <1>1, <1>4, Appended
<1>. HIDE DEF s
<1>6. s \in Seq(Int) /\ Len(s) = n /\ (\A j \in 1 .. r : s[j] = rem[j]) /\ s[n] = 128
  <2>1. /\ s \in Seq(Int) /\ Len(s) = r + u /\ (\A j \in 1 .. r : s[j] = rem[j])
        /\ \A j \in 1 .. u : s[r + j] = o[j]
    BY <1>5 DEF Follow
  <2>2. s[r + 1] = o[1]
    BY <2>1 DEF u
  <2>. QED
    BY <1>1, <1>4, <2>1, <2>2 DEF n
<1>. HIDE DEF n
<1>7. Follow(p, s, z, Int, n, k)
  BY <1>1, <1>3, <1>6, Appended
<1>. HIDE DEF p
<1>8. /\ p \in Seq(Int) /\ Len(p) = n + k
      /\ (\A j \in 1 .. n : p[j] = s[j]) /\ (\A j \in 1 .. k : p[n + j] = z[j])
  BY <1>7 DEF Follow
<1>9. \A j \in 1 .. r : p[j] = rem[j]
  BY <1>1, <1>6, <1>8 DEF n
<1>10. p[r + 1] = 128
  BY <1>1, <1>6, <1>8 DEF n
<1>11. ASSUME NEW j \in r + 2 .. 64 PROVE p[j] = 0
  <2>. DEFINE i == j - n
  <2>1. i \in 1 .. k /\ n + i = j
    BY <1>1 DEF n
  <2>. HIDE DEF i
  <2>. QED
    BY <1>3, <1>8, <2>1
<1>. QED
  BY <1>1, <1>2, <1>8, <1>9, <1>10, <1>11 DEF IsRest

\* The whole blocks of the data are those of the message.
LEMMA WholePiece ==
    ASSUME NEW data \in Seq(Int), NEW bitLen, NEW n \in Nat, NEW m,
           IsMessage(m, data, bitLen, n), NEW i \in Nat \ {0}, 64 * i <= Len(data)
    PROVE  IsPiece(Piece(data, i), m, i, Int)
<1>. DEFINE p == Piece(data, i)
<1>1. IsPiece(p, data, i, Int)
  BY PieceIs
<1>. HIDE DEF p
<1>2. \A j \in 1 .. Len(data) : m[j] = data[j]
  BY DEF IsMessage
<1>3. \A j \in 1 .. 64 : 64 * (i - 1) + j \in 1 .. Len(data)
  OBVIOUS
<1>4. \A j \in 1 .. 64 : m[64 * (i - 1) + j] = data[64 * (i - 1) + j]
  BY <1>2, <1>3
<1>. QED
  BY <1>1, <1>4 DEF IsPiece, p

\* The block that the data ends in, when the length is in the next one.
LEMMA RestPiece ==
    ASSUME NEW data \in Seq(Int), NEW bitLen, NEW n \in Nat, NEW m,
           IsMessage(m, data, bitLen, n), NEW w \in Nat, n = w + 2,
           NEW r \in 0 .. 63, Len(data) = 64 * w + r,
           NEW rem \in Seq(Int), Len(rem) = r, \A j \in 1 .. r : rem[j] = data[64 * w + j]
    PROVE  IsPiece(Rest(rem), m, w + 1, Int)
<1>. DEFINE p == Rest(rem)
            l == Len(data)
            a == 64 * w
            e == 64 * n - 8
<1>1. /\ p \in Seq(Int) /\ Len(p) = 64
      /\ \A j \in 1 .. r : p[j] = rem[j]
      /\ p[r + 1] = 128
      /\ \A j \in r + 2 .. 64 : p[j] = 0
  <2>. DEFINE f == 63 - r
  <2>1. f \in Nat /\ r \in Nat /\ r + f = 63
    OBVIOUS
  <2>. HIDE DEF f
  <2>2. IsRest(p, rem, r)
    BY <2>1, RestIs
  <2>. QED
    BY <2>2 DEF IsRest
<1>2. /\ \A j \in 1 .. l : m[j] = data[j]
      /\ m[l + 1] = 128
      /\ \A j \in l + 2 .. e : m[j] = 0
  BY DEF IsMessage
<1>3. l = a + r /\ a \in Nat /\ a + 64 <= e /\ e \in Nat /\ l \in Nat
      /\ 64 * ((w + 1) - 1) = a
  OBVIOUS
<1>. HIDE DEF p, l, a, e
<1>4. ASSUME NEW j \in 1 .. 64 PROVE p[j] = m[a + j]
  <2>1. CASE j <= r
    <3>1. a + j \in 1 .. l /\ j \in 1 .. r
      BY <1>3, <2>1
    <3>2. rem[j] = data[a + j]
      BY <3>1 DEF a
    <3>. QED
      BY <1>1, <1>2, <3>1, <3>2
  <2>2. CASE j = r + 1
    <3>1. a + j = l + 1
      BY <1>3, <2>2
    <3>. QED
      BY <1>1, <1>2, <2>2, <3>1
  <2>3. CASE j > r + 1
    <3>1. a + j \in l + 2 .. e /\ j \in r + 2 .. 64
      BY <1>3, <2>3
    <3>. QED
      BY <1>1, <1>2, <3>1
  <2>. QED
    BY <2>1, <2>2, <2>3
<1>5. IsPiece(p, m, w + 1, Int)
  BY <1>1, <1>3, <1>4 DEF IsPiece
<1>. QED
  BY <1>5 DEF p

\* The last block, when the data and the length share it.
LEMMA SharedPiece ==
    ASSUME NEW data \in Seq(Int), NEW bitLen \in Seq(Int), Len(bitLen) = 8, NEW n \in Nat, NEW m,
           IsMessage(m, data, bitLen, n), NEW w \in Nat, n = w + 1,
           NEW r \in 0 .. 55, Len(data) = 64 * w + r,
           NEW rem \in Seq(Int), Len(rem) = r, \A j \in 1 .. r : rem[j] = data[64 * w + j]
    PROVE  IsPiece(SubSeq(Rest(rem), 1, 56) \o bitLen, m, w + 1, Int)
<1>. DEFINE p == Rest(rem)
            l == Len(data)
            a == 64 * w
            e == 64 * n - 8
            c == 56
            k == 8
            q == SubSeq(p, 1, c)
            b == q \o bitLen
<1>1. /\ p \in Seq(Int) /\ Len(p) = 64
      /\ \A j \in 1 .. r : p[j] = rem[j]
      /\ p[r + 1] = 128
      /\ \A j \in r + 2 .. 64 : p[j] = 0
  <2>. DEFINE f == 63 - r
  <2>1. f \in Nat /\ r \in Nat /\ r + f = 63
    OBVIOUS
  <2>. HIDE DEF f
  <2>2. IsRest(p, rem, r)
    BY <2>1, RestIs
  <2>. QED
    BY <2>2 DEF IsRest
<1>2. /\ \A j \in 1 .. l : m[j] = data[j]
      /\ m[l + 1] = 128
      /\ \A j \in l + 2 .. e : m[j] = 0
      /\ \A j \in 1 .. k : m[e + j] = bitLen[j]
  BY DEF IsMessage
<1>3. l = a + r /\ a \in Nat /\ e = a + c /\ e \in Nat /\ l \in Nat /\ r + 1 <= c /\ c <= 64
      /\ c + k = 64 /\ c \in Nat /\ k \in Nat /\ r \in Nat
      /\ 64 * ((w + 1) - 1) = a
  OBVIOUS
<1>4. Len(bitLen) = k
  OBVIOUS
<1>. HIDE DEF p, l, a, e, c, k
<1>5. ASSUME NEW j \in 1 .. c PROVE p[j] = m[a + j]
  <2>1. CASE j <= r
    <3>1. a + j \in 1 .. l /\ j \in 1 .. r
      BY <1>3, <2>1
    <3>2. rem[j] = data[a + j]
      BY <3>1 DEF a
    <3>. QED
      BY <1>1, <1>2, <3>1, <3>2
  <2>2. CASE j = r + 1
    <3>1. a + j = l + 1
      BY <1>3, <2>2
    <3>. QED
      BY <1>1, <1>2, <2>2, <3>1
  <2>3. CASE j > r + 1
    <3>1. a + j \in l + 2 .. e /\ j \in r + 2 .. 64
      BY <1>3, <2>3
    <3>. QED
      BY <1>1, <1>2, <3>1
  <2>. QED
    BY <1>3, <2>1, <2>2, <2>3
<1>6. q \in Seq(Int) /\ Len(q) = c /\ \A j \in 1 .. c : q[j] = p[j]
  <2>1. \A j \in 1 .. c : p[j] \in Int
    <3>1. \A j \in 1 .. c : j \in 1 .. Len(p)
      BY <1>1, <1>3
    <3>. QED
      BY <1>1, <3>1, ElementOfSeq
  <2>2. 1 \in Int /\ c \in Int /\ (1 <= c) /\ c - 1 + 1 = c
    BY <1>3
  <2>3. /\ q \in Seq(Int) /\ Len(q) = IF 1 <= c THEN c - 1 + 1 ELSE 0
        /\ \A j \in 1 .. c - 1 + 1 : q[j] = p[1 + j - 1]
    BY <2>1, <2>2, SubSeqProperties
  <2>4. \A j \in 1 .. c : 1 + j - 1 = j
    OBVIOUS
  <2>. HIDE DEF q
  <2>. QED
    BY <2>2, <2>3, <2>4
<1>. HIDE DEF q
<1>7. Follow(b, q, bitLen, Int, c, k)
  BY <1>3, <1>4, <1>6, Appended
<1>. HIDE DEF b
<1>8. /\ b \in Seq(Int) /\ Len(b) = c + k
      /\ (\A j \in 1 .. c : b[j] = q[j]) /\ (\A j \in 1 .. k : b[c + j] = bitLen[j])
  BY <1>7 DEF Follow
<1>9. ASSUME NEW j \in 1 .. 64 PROVE b[j] = m[a + j]
  <2>1. CASE j <= c
    <3>1. j \in 1 .. c
      BY <1>3, <2>1
    <3>. QED
      BY <1>5, <1>6, <1>8, <3>1
  <2>2. CASE j > c
    <3>. DEFINE i == j - c
    <3>1. i \in 1 .. k /\ c + i = j /\ e + i = a + j
      BY <1>3, <2>2
    <3>. HIDE DEF i
    <3>2. b[c + i] = bitLen[i]
      BY <1>8, <3>1
    <3>3. m[e + i] = bitLen[i]
      BY <1>2, <3>1
    <3>. QED
      BY <3>1, <3>2, <3>3
  <2>. QED
    BY <1>3, <2>1, <2>2
<1>10. IsPiece(b, m, w + 1, Int)
  BY <1>3, <1>8, <1>9 DEF IsPiece
<1>. QED
  BY <1>10 DEF b, q, c, p

\* The last block, when the length has it for itself.
LEMMA LengthPiece ==
    ASSUME NEW data \in Seq(Int), NEW bitLen \in Seq(Int), Len(bitLen) = 8, NEW n \in Nat, NEW m,
           IsMessage(m, data, bitLen, n), NEW w \in Nat, n = w + 2,
           NEW r \in 0 .. 63, Len(data) = 64 * w + r
    PROVE  IsPiece(Zeros(56) \o bitLen, m, w + 2, Int)
<1>. DEFINE l == Len(data)
            a == 64 * (w + 1)
            e == 64 * n - 8
            c == 56
            k == 8
            q == Zeros(c)
            b == q \o bitLen
<1>1. c \in Nat
  OBVIOUS
<1>2. /\ \A j \in l + 2 .. e : m[j] = 0
      /\ \A j \in 1 .. k : m[e + j] = bitLen[j]
  BY DEF IsMessage
<1>3. l + 1 <= a /\ a \in Nat /\ e = a + c /\ e \in Nat /\ l \in Nat
      /\ c + k = 64 /\ c \in Nat /\ k \in Nat
      /\ 64 * ((w + 2) - 1) = a
  OBVIOUS
<1>4. Len(bitLen) = k
  OBVIOUS
<1>. HIDE DEF l, a, e, c, k
<1>6. q \in Seq(Int) /\ Len(q) = c /\ \A j \in 1 .. c : q[j] = 0
  BY <1>1, ZerosAre
<1>. HIDE DEF q
<1>7. Follow(b, q, bitLen, Int, c, k)
  BY <1>3, <1>4, <1>6, Appended
<1>. HIDE DEF b
<1>8. /\ b \in Seq(Int) /\ Len(b) = c + k
      /\ (\A j \in 1 .. c : b[j] = q[j]) /\ (\A j \in 1 .. k : b[c + j] = bitLen[j])
  BY <1>7 DEF Follow
<1>9. ASSUME NEW j \in 1 .. 64 PROVE b[j] = m[a + j]
  <2>1. CASE j <= c
    <3>1. j \in 1 .. c /\ a + j \in l + 2 .. e
      BY <1>3, <2>1
    <3>. QED
      BY <1>2, <1>6, <1>8, <3>1, SMTT(30)
  <2>2. CASE j > c
    <3>. DEFINE i == j - c
    <3>1. i \in 1 .. k /\ c + i = j /\ e + i = a + j
      BY <1>3, <2>2
    <3>. HIDE DEF i
    <3>2. b[c + i] = bitLen[i]
      BY <1>8, <3>1
    <3>3. m[e + i] = bitLen[i]
      BY <1>2, <3>1
    <3>. QED
      BY <3>1, <3>2, <3>3
  <2>. QED
    BY <1>3, <2>1, <2>2
<1>10. IsPiece(b, m, w + 2, Int)
  BY <1>3, <1>8, <1>9 DEF IsPiece
<1>. QED
  BY <1>10 DEF b, q, c

\* The last blocks of a padded message.
Ending(rem, bitLen) ==
    IF NeedsBlock(rem) THEN <<Rest(rem), Zeros(56) \o bitLen>>
    ELSE <<SubSeq(Rest(rem), 1, 56) \o bitLen>>

\* e is those of m, from the w-th block on.
Ends(e, m, w, k) ==
    /\ e \in Seq(Seq(Int)) /\ Len(e) = k
    /\ \A j \in 1 .. k : IsPiece(e[j], m, w + j, Int)

\* They are.
LEMMA EndingIs ==
    ASSUME NEW data \in Seq(Int), NEW bitLen \in Seq(Int), Len(bitLen) = 8, NEW n \in Nat, NEW m,
           IsMessage(m, data, bitLen, n), NEW w \in Nat,
           NEW r \in 0 .. 63, Len(data) = 64 * w + r,
           NEW rem \in Seq(Int), Len(rem) = r, \A j \in 1 .. r : rem[j] = data[64 * w + j],
           NEW k \in Nat, k = IF r >= 56 THEN 2 ELSE 1, n = w + k
    PROVE  Ends(Ending(rem, bitLen), m, w, k)
<1>1. CASE r >= 56
  <2>. DEFINE p == Rest(rem)
              q == Zeros(56) \o bitLen
              e == <<p, q>>
  <2>1. n = w + 2 /\ k = 2
    BY <1>1
  <2>2. IsPiece(p, m, w + 1, Int)
    <3>. HIDE DEF p
    <3>1. /\ n = w + 2 /\ Len(data) = 64 * w + r
          /\ \A j \in 1 .. r : rem[j] = data[64 * w + j]
      BY <2>1
    <3>2. IsPiece(Rest(rem), m, w + 1, Int)
      BY <3>1, RestPiece, ZenonT(60)
    <3>. QED
      BY <3>2 DEF p
  <2>3. IsPiece(q, m, w + 2, Int)
    BY <2>1, LengthPiece, ZenonT(60)
  <2>4. Ending(rem, bitLen) = e
    <3>1. NeedsBlock(rem)
      BY <1>1 DEF NeedsBlock
    <3>. QED
      BY <3>1, Zenon DEF Ending
  <2>. HIDE DEF p, q
  <2>5. p \in Seq(Int) /\ q \in Seq(Int)
    BY <2>2, <2>3 DEF IsPiece
  <2>. DEFINE S == Seq(Int)
  <2>. HIDE DEF S
  <2>6. p \in S /\ q \in S
    BY <2>5 DEF S
  <2>7. e \in Seq(S) /\ Len(e) = 2 /\ e[1] = p /\ e[2] = q
    BY <2>6
  <2>. HIDE DEF e
  <2>8. \A j \in 1 .. 2 : IsPiece(e[j], m, w + j, Int)
    <3>1. \A j \in 1 .. 2 : j = 1 \/ j = 2
      OBVIOUS
    <3>. QED
      BY <2>2, <2>3, <2>7, <3>1
  <2>. QED
    BY <2>1, <2>4, <2>7, <2>8 DEF Ends, S
<1>2. CASE ~(r >= 56)
  <2>. DEFINE p == SubSeq(Rest(rem), 1, 56) \o bitLen
              e == <<p>>
  <2>1. n = w + 1 /\ k = 1 /\ r \in 0 .. 55
    BY <1>2, SMTT(30)
  <2>2. IsPiece(p, m, w + 1, Int)
    BY <2>1, SharedPiece, ZenonT(60)
  <2>4. Ending(rem, bitLen) = e
    <3>1. ~NeedsBlock(rem)
      BY <1>2 DEF NeedsBlock
    <3>. QED
      BY <3>1, Zenon DEF Ending
  <2>. HIDE DEF p
  <2>. DEFINE S == Seq(Int)
  <2>5. p \in S
    BY <2>2 DEF IsPiece
  <2>. HIDE DEF S
  <2>7. e \in Seq(S) /\ Len(e) = 1 /\ e[1] = p
    BY <2>5
  <2>. HIDE DEF e
  <2>8. \A j \in 1 .. 1 : IsPiece(e[j], m, w + j, Int)
    <3>1. \A j \in 1 .. 1 : j = 1
      OBVIOUS
    <3>. QED
      BY <2>2, <2>7, <3>1
  <2>. QED
    BY <2>1, <2>4, <2>7, <2>8 DEF Ends, S
<1>. QED
  BY <1>1, <1>2

\* The blocks of a padded message are its pieces.
LEMMA PaddedIs ==
    ASSUME NEW data \in Seq(Int), NEW bitLen \in Seq(Int), Len(bitLen) = 8,
           NEW n, n = DivCeil(Len(data) + 9, 64)
    PROVE  /\ n \in Nat \ {0} /\ Len(data) + 9 <= 64 * n
           /\ PaddedBlocks(data, bitLen) = [i \in 1 .. n |-> Piece(Message(data, bitLen, n), i)]
<1>. DEFINE l == Len(data)
            w == l \div 64
            r == l - 64 * w
            k == IF r >= 56 THEN 2 ELSE 1
            rem == SubSeq(data, 64 * w + 1, l)
            m == Message(data, bitLen, n)
            first == [i \in 1 .. w |-> Piece(data, i)]
            e == Ending(rem, bitLen)
            all == first \o e
            S == Seq(Int)
<1>1. l \in Nat /\ \A j \in 1 .. l : data[j] \in Int
  BY ElementOfSeq
<1>2. PaddedBlocks(data, bitLen) = all
  BY DEF PaddedBlocks, Ending, Rest, Piece
<1>. HIDE DEF e, l
<1>3. w \in Nat /\ l % 64 \in 0 .. 63 /\ l = w * 64 + (l % 64)
  <2>. DEFINE c == 64
  <2>1. c \in Nat \ {0}
    OBVIOUS
  <2>. HIDE DEF c
  <2>2. l \div c \in Nat /\ l % c \in 0 .. c - 1 /\ l = (l \div c) * c + (l % c)
    BY <1>1, <2>1, Divides
  <2>. QED
    BY <2>2 DEF c
<1>. HIDE DEF w
<1>4. r \in 0 .. 63 /\ l = 64 * w + r
  BY <1>1, <1>3
<1>. HIDE DEF r
<1>5. k \in Nat \ {0} /\ l + 9 <= 64 * (w + k) /\ k = IF r >= 56 THEN 2 ELSE 1
  BY <1>3, <1>4
<1>6. n = w + k
  BY <1>1, <1>3, <1>4, BlockCountIs DEF l
<1>. HIDE DEF k
<1>7. n \in Nat \ {0} /\ l + 9 <= 64 * n
  <2>. DEFINE o == w + k
  <2>1. o \in Nat \ {0} /\ l + 9 <= 64 * o
    BY <1>3, <1>5
  <2>2. n = o
    BY <1>6
  <2>. QED
    BY <2>1, <2>2
<1>8. IsMessage(m, data, bitLen, n)
  BY <1>7, MessageIs DEF l
<1>. HIDE DEF m
<1>9. rem \in Seq(Int) /\ Len(rem) = r /\ \A j \in 1 .. r : rem[j] = data[64 * w + j]
  <2>. DEFINE a == 64 * w
              b == a + 1
  <2>1. a \in Nat /\ b \in Nat /\ 1 <= b /\ l - b + 1 = r /\ r \in Nat /\ (b <= l <=> r # 0) /\ b = a + 1
    BY <1>1, <1>3, <1>4
  <2>. HIDE DEF a, b
  <2>2. \A j \in b .. l : data[j] \in Int
    BY <1>1, <2>1
  <2>3. /\ SubSeq(data, b, l) \in Seq(Int)
        /\ Len(SubSeq(data, b, l)) = IF b <= l THEN l - b + 1 ELSE 0
        /\ \A j \in 1 .. l - b + 1 : SubSeq(data, b, l)[j] = data[b + j - 1]
    BY <1>1, <2>1, <2>2, SubSeqProperties
  <2>4. rem = SubSeq(data, b, l)
    BY SMTT(30) DEF a, b
  <2>. HIDE DEF rem
  <2>5. \A j \in 1 .. r : b + j - 1 = a + j
    BY <2>1, SMTT(30)
  <2>. QED
    BY <2>1, <2>3, <2>4, <2>5 DEF a
<1>. HIDE DEF rem
<1>10. Ends(e, m, w, k)
  BY <1>3, <1>4, <1>5, <1>6, <1>7, <1>8, <1>9, EndingIs, ZenonT(60) DEF l, e
<1>11. ASSUME NEW i \in 1 .. w PROVE Piece(data, i) \in S /\ IsPiece(Piece(data, i), m, i, Int)
  <2>1. i \in Nat \ {0} /\ 64 * i <= l
    BY <1>3, <1>4
  <2>2. IsPiece(Piece(data, i), m, i, Int)
    BY <1>7, <1>8, <2>1, WholePiece DEF l
  <2>. QED
    BY <2>2 DEF IsPiece
<1>12. e \in Seq(S) /\ Len(e) = k /\ \A j \in 1 .. k : IsPiece(e[j], m, w + j, Int)
  BY <1>10 DEF Ends
<1>. HIDE DEF S
<1>13. first \in Seq(S) /\ Len(first) = w /\ \A i \in 1 .. w : first[i] = Piece(data, i)
  <2>1. first \in [1 .. w -> S]
    BY <1>11
  <2>. QED
    BY <1>3, <2>1
<1>. HIDE DEF first
<1>14. Follow(all, first, e, S, w, k)
  BY <1>3, <1>5, <1>12, <1>13, Appended
<1>. HIDE DEF all
<1>15. /\ all \in Seq(S) /\ Len(all) = n
       /\ (\A j \in 1 .. w : all[j] = first[j]) /\ \A j \in 1 .. k : all[w + j] = e[j]
  BY <1>6, <1>14 DEF Follow
<1>16. ASSUME NEW i \in 1 .. n PROVE all[i] = Piece(m, i)
  <2>1. IsPiece(all[i], m, i, Int)
    <3>1. CASE i <= w
      <4>1. i \in 1 .. w
        BY <1>3, <3>1
      <4>. QED
        BY <1>11, <1>13, <1>15, <4>1
    <3>2. CASE i > w
      <4>. DEFINE j == i - w
      <4>1. j \in 1 .. k /\ w + j = i
        BY <1>3, <1>5, <1>6, <3>2
      <4>. HIDE DEF j
      <4>. QED
        BY <1>12, <1>15, <4>1
    <3>. QED
      BY <1>3, <3>1, <3>2
  <2>2. m \in Seq(Int) /\ Len(m) = 64 * n
    BY <1>8 DEF IsMessage
  <2>3. i \in Nat \ {0} /\ 64 * i <= Len(m)
    BY <1>7, <2>2
  <2>4. IsPiece(Piece(m, i), m, i, Int)
    BY <2>2, <2>3, PieceIs
  <2>. QED
    BY <2>1, <2>4, SamePiece
<1>17. all = [i \in 1 .. n |-> Piece(m, i)]
  <2>1. all = [i \in 1 .. n |-> all[i]]
    BY <1>7, <1>15
  <2>. QED
    BY <1>16, <2>1
<1>. QED
  BY <1>2, <1>7, <1>17 DEF l, m

\* Put together, they are the message.
LEMMA PiecesAre ==
    ASSUME NEW m \in Seq(Int), NEW n \in Nat \ {0}, Len(m) = 64 * n
    PROVE  FlattenSeq([i \in 1 .. n |-> Piece(m, i)]) = m
<1>. DEFINE cut == [i \in 0 .. n |-> 64 * i]
            l == Len(m)
<1>1. ASSUME NEW i \in 0 .. n PROVE 64 * i \in 0 .. l
  OBVIOUS
<1>2. cut \in [0 .. n -> 0 .. l]
  BY <1>1
<1>3. cut[0] = 0 /\ cut[n] = l
  OBVIOUS
<1>4. \A i \in 1 .. n : i \in 0 .. n /\ i - 1 \in 0 .. n
  OBVIOUS
<1>5. \A i \in 1 .. n : cut[i - 1] = 64 * (i - 1) /\ cut[i] = 64 * i
  BY <1>4
<1>. HIDE DEF cut, l
<1>6. \A i \in 1 .. n : cut[i - 1] <= cut[i]
  BY <1>5
<1>7. FlattenSeq([i \in 1 .. n |-> SubSeq(m, cut[i - 1] + 1, cut[i])]) = m
  BY <1>2, <1>3, <1>6, FlattenIs DEF l
<1>8. \A i \in 1 .. n : SubSeq(m, cut[i - 1] + 1, cut[i]) = Piece(m, i)
  BY <1>5 DEF Piece
<1>9. [i \in 1 .. n |-> SubSeq(m, cut[i - 1] + 1, cut[i])] = [i \in 1 .. n |-> Piece(m, i)]
  BY <1>8
<1>. QED
  BY <1>7, <1>9

\* What is left of a state when blocks are compressed into it, one after the other.
Chain(h, blocks) ==
    LET state[i \in 0 .. Len(blocks)] ==
          IF i = 0 THEN <<h>> ELSE Append(state[i - 1], blocks[i])
    IN  state[Len(blocks)]

\* It is the first number, then the blocks.
StateOf(h, blocks) ==
    [j \in 1 .. Len(blocks) + 1 |-> IF j = 1 THEN h ELSE blocks[j - 1]]

\* That is what is left.
LEMMA ChainIs ==
    ASSUME NEW S, NEW h \in S, NEW blocks \in Seq(S)
    PROVE  Chain(h, blocks) = StateOf(h, blocks)
<1>. DEFINE n == Len(blocks)
            Loop(it, i) == IF i = 0 THEN <<h>> ELSE Append(it[i - 1], blocks[i])
            Loops(it) == it = [i \in 0 .. n |-> Loop(it, i)]
            state == CHOOSE it : Loops(it)
            At256(j) == IF j = 1 THEN h ELSE blocks[j - 1]
            Upto(i) == [j \in 1 .. i + 1 |-> At256(j)]
            g == [i \in 0 .. n |-> Upto(i)]
<1>1. Chain(h, blocks) = state[n]
  BY Zenon DEF Chain
<1>2. n \in Nat /\ \A j \in 1 .. n : blocks[j] \in S
  BY ElementOfSeq
<1>. HIDE DEF n
<1>3. \A j \in 1 .. n + 1 : At256(j) \in S
  <2>. SUFFICES ASSUME NEW j \in 1 .. n + 1, j # 1 PROVE blocks[j - 1] \in S
    OBVIOUS
  <2>1. j - 1 \in 1 .. n
    BY <1>2
  <2>. QED
    BY <1>2, <2>1
<1>. HIDE DEF At256
<1>4. ASSUME NEW i \in 0 .. n
      PROVE  /\ Upto(i) \in Seq(S) /\ Len(Upto(i)) = i + 1
             /\ \A j \in 1 .. i + 1 : Upto(i)[j] = At256(j)
  <2>1. i + 1 \in Nat /\ \A j \in 1 .. i + 1 : j \in 1 .. n + 1
    BY <1>2
  <2>2. Upto(i) \in [1 .. i + 1 -> S]
    BY <1>3, <2>1
  <2>. QED
    BY <2>1, <2>2
<1>. HIDE DEF Upto
<1>5. Upto(0) = <<h>>
  <2>1. /\ Upto(0) \in Seq(S) /\ Len(Upto(0)) = 0 + 1
        /\ \A j \in 1 .. 0 + 1 : Upto(0)[j] = At256(j)
    <3>1. 0 \in 0 .. n
      BY <1>2
    <3>. QED
      BY <1>4, <3>1
  <2>2. Len(Upto(0)) = 1 /\ Upto(0)[1] = h
    BY <2>1 DEF At256
  <2>3. <<h>> \in Seq(S) /\ Len(<<h>>) = 1 /\ <<h>>[1] = h
    OBVIOUS
  <2>4. \A i \in 1 .. Len(Upto(0)) : Upto(0)[i] = <<h>>[i]
    BY <2>2, <2>3
  <2>. QED
    BY <2>1, <2>2, <2>3, <2>4, SeqEqual
<1>6. ASSUME NEW i \in 1 .. n PROVE Append(Upto(i - 1), blocks[i]) = Upto(i)
  <2>. DEFINE k == i - 1
              s == Upto(k)
              t == Append(s, blocks[i])
              u == Upto(i)
  <2>1. k \in 0 .. n /\ i \in 0 .. n /\ k + 1 = i /\ i \in Nat /\ i + 1 # 1 /\ i + 1 - 1 = i
    BY <1>2
  <2>. HIDE DEF k
  <2>2. s \in Seq(S) /\ Len(s) = i /\ \A j \in 1 .. i : s[j] = At256(j)
    BY <1>4, <2>1
  <2>3. u \in Seq(S) /\ Len(u) = i + 1 /\ \A j \in 1 .. i + 1 : u[j] = At256(j)
    BY <1>4, <2>1
  <2>. HIDE DEF s, u
  <2>4. /\ t \in Seq(S) /\ Len(t) = Len(s) + 1
        /\ \A j \in 1 .. Len(s) : t[j] = s[j]
        /\ t[Len(s) + 1] = blocks[i]
    BY <1>2, <2>2, AppendProperties
  <2>. HIDE DEF t
  <2>5. At256(i + 1) = blocks[i]
    BY <2>1 DEF At256
  <2>6. \A j \in 1 .. i + 1 : t[j] = u[j]
    <3>1. \A j \in 1 .. i : t[j] = u[j]
      BY <2>1, <2>2, <2>3, <2>4
    <3>2. t[i + 1] = u[i + 1]
      BY <2>1, <2>2, <2>3, <2>4, <2>5
    <3>3. \A j \in 1 .. i + 1 : j \in 1 .. i \/ j = i + 1
      BY <2>1
    <3>. QED
      BY <3>1, <3>2, <3>3
  <2>7. t = u
    BY <2>2, <2>3, <2>4, <2>6, SeqEqual
  <2>. QED
    BY <2>7 DEF t, s, u, k
<1>7. ASSUME NEW i \in 0 .. n PROVE g[i] = Loop(g, i)
  <2>1. CASE i = 0
    BY <1>5, <2>1
  <2>2. CASE i # 0
    <3>1. i \in 1 .. n /\ i - 1 \in 0 .. n
      BY <1>2, <2>2
    <3>2. g[i] = Upto(i) /\ g[i - 1] = Upto(i - 1)
      BY <3>1
    <3>. HIDE DEF g
    <3>. QED
      BY <1>6, <2>2, <3>1, <3>2
  <2>. QED
    BY <2>1, <2>2
<1>8. Loops(g)
  <2>1. g = [i \in 0 .. n |-> g[i]]
    OBVIOUS
  <2>. HIDE DEF g, Loop
  <2>. QED
    BY <1>7, <2>1
<1>9. g[0] = <<h>> /\ \A i \in 1 .. n : g[i] = Append(g[i - 1], blocks[i])
  <2>1. 0 \in 0 .. n /\ \A i \in 1 .. n : i \in 0 .. n /\ i # 0
    BY <1>2
  <2>. HIDE DEF g
  <2>. QED
    BY <1>7, <2>1
<1>10. g[n] = Upto(n)
  BY <1>2
<1>. HIDE DEF g
<1>11. Loops(state)
  <2>. HIDE DEF Loops
  <2>. QED
    BY <1>8, Zenon
<1>. HIDE DEF state
<1>12. \A i \in 0 .. n : state[i] = Loop(state, i)
  <2>. HIDE DEF Loop
  <2>. QED
    BY <1>11
<1>13. state[0] = <<h>> /\ \A i \in 1 .. n : state[i] = Append(state[i - 1], blocks[i])
  <2>1. 0 \in 0 .. n /\ \A i \in 1 .. n : i \in 0 .. n /\ i # 0
    BY <1>2
  <2>. QED
    BY <1>12, <2>1
<1>14. StepsAlike(g, state, n)
  BY <1>9, <1>13 DEF StepsAlike
<1>15. state[n] = g[n]
  <2>1. n \in 0 .. n
    BY <1>2
  <2>2. Alike(g, state, n)
    BY <1>2, <1>14, RecursionIsUnique
  <2>. QED
    BY <2>1, <2>2 DEF Alike
<1>. QED
  BY <1>1, <1>10, <1>15 DEF Upto, At256, StateOf, n

\* The blocks are all but the first of it, and read off as bytes.
LEMMA StateIs ==
    ASSUME NEW S, NEW h \in S, NEW blocks \in Seq(S)
    PROVE  /\ Tail(StateOf(h, blocks)) = blocks
           /\ h \in Int /\ (\A i \in 1 .. Len(blocks) : IsBlock(blocks[i])) =>
                IsState(StateOf(h, blocks))
<1>. DEFINE n == Len(blocks)
            At256(j) == IF j = 1 THEN h ELSE blocks[j - 1]
            s == [j \in 1 .. n + 1 |-> At256(j)]
<1>1. StateOf(h, blocks) = s
  BY DEF StateOf
<1>2. n \in Nat /\ \A j \in 1 .. n : blocks[j] \in S
  BY ElementOfSeq
<1>. HIDE DEF n
<1>3. \A j \in 1 .. n + 1 : At256(j) \in S
  <2>. SUFFICES ASSUME NEW j \in 1 .. n + 1, j # 1 PROVE blocks[j - 1] \in S
    OBVIOUS
  <2>1. j - 1 \in 1 .. n
    BY <1>2
  <2>. QED
    BY <1>2, <2>1
<1>4. At256(1) = h /\ \A j \in 1 .. n : At256(j + 1) = blocks[j]
  BY <1>2
<1>. HIDE DEF At256
<1>5. s \in [1 .. n + 1 -> S]
  BY <1>3
<1>6. s \in Seq(S) /\ Len(s) = n + 1 /\ n + 1 \in Nat \ {0}
  BY <1>2, <1>5
<1>7. s[1] = h /\ \A j \in 1 .. n : s[j + 1] = blocks[j]
  <2>1. 1 \in 1 .. n + 1 /\ \A j \in 1 .. n : j + 1 \in 1 .. n + 1
    BY <1>2
  <2>. QED
    BY <1>4, <2>1
<1>. HIDE DEF s
<1>8. Tail(s) = blocks
  <2>0. s # <<>>
    BY <1>6
  <2>1. Tail(s) \in Seq(S) /\ Len(Tail(s)) = n /\ \A i \in 1 .. n : Tail(s)[i] = s[i + 1]
    <3>1. /\ Tail(s) \in Seq(S) /\ Len(Tail(s)) = Len(s) - 1
          /\ \A i \in 1 .. Len(Tail(s)) : Tail(s)[i] = s[i + 1]
      BY <1>6, <2>0, HeadTailProperties
    <3>. QED
      BY <1>2, <1>6, <3>1
  <2>2. \A i \in 1 .. n : Tail(s)[i] = blocks[i]
    BY <1>7, <2>1
  <2>3. Len(blocks) = n
    BY DEF n
  <2>. QED
    BY <2>1, <2>2, <2>3, SeqEqual
<1>9. ASSUME h \in Int, \A i \in 1 .. n : IsBlock(blocks[i]) PROVE IsState(s)
  <2>1. ASSUME NEW i \in 2 .. Len(s) PROVE IsBlock(s[i])
    <3>. DEFINE j == i - 1
    <3>1. j \in 1 .. n /\ j + 1 = i
      BY <1>2, <1>6
    <3>. HIDE DEF j
    <3>. QED
      BY <1>7, <1>9, <3>1
  <2>. QED
    BY <1>6, <1>7, <1>9, <2>1 DEF IsState
<1>. QED
  BY <1>1, <1>8, <1>9 DEF n

-----------------------------------------------------------------------------
(* The states of padded messages *)

\* A message is padded as the standards say, and read off as bytes.
THEOREM PaddedStateIs ==
    ASSUME NEW data \in Seq(Int), NEW bitLen \in Seq(Int), Len(bitLen) = 8, NEW h \in Int
    PROVE  /\ IsState(Chain(h, PaddedBlocks(data, bitLen)))
           /\ IsPadded(Chain(h, PaddedBlocks(data, bitLen)), data, bitLen)
<1>. DEFINE l == Len(data)
            n == DivCeil(l + 9, 64)
            m == Message(data, bitLen, n)
            blocks == [i \in 1 .. n |-> Piece(m, i)]
            S == Int \cup Seq(Int)
            s == StateOf(h, blocks)
<1>1. /\ n \in Nat \ {0} /\ l + 9 <= 64 * n
      /\ PaddedBlocks(data, bitLen) = blocks
  BY PaddedIs
<1>0. n = DivCeil(l + 9, 64) /\ l \in Nat
  OBVIOUS
<1>2. IsMessage(m, data, bitLen, n)
  BY <1>1, MessageIs
<1>. HIDE DEF m, n, l
<1>3. m \in Seq(Int) /\ Len(m) = 64 * n
  BY <1>2 DEF IsMessage
<1>4. ASSUME NEW i \in 1 .. n PROVE IsBlock(Piece(m, i)) /\ Piece(m, i) \in S
  <2>1. i \in Nat \ {0} /\ 64 * i <= Len(m)
    BY <1>1, <1>3
  <2>2. IsPiece(Piece(m, i), m, i, Int)
    BY <1>3, <2>1, PieceIs
  <2>. QED
    BY <2>2 DEF IsPiece, IsBlock
<1>5. h \in S
  OBVIOUS
<1>. HIDE DEF S
<1>6. blocks \in Seq(S) /\ Len(blocks) = n /\ \A i \in 1 .. n : blocks[i] = Piece(m, i)
  <2>1. blocks \in [1 .. n -> S]
    BY <1>4
  <2>. QED
    BY <1>1, <2>1
<1>7. FlattenSeq(blocks) = m
  BY <1>1, <1>3, PiecesAre
<1>. HIDE DEF blocks
<1>8. Chain(h, PaddedBlocks(data, bitLen)) = s
  BY <1>1, <1>5, <1>6, ChainIs
<1>9. Tail(s) = blocks /\ IsState(s)
  <2>1. \A i \in 1 .. Len(blocks) : IsBlock(blocks[i])
    BY <1>4, <1>6
  <2>. QED
    BY <1>5, <1>6, <2>1, StateIs
<1>10. Padded(s) = m
  BY <1>7, <1>9 DEF Padded
<1>. HIDE DEF s
<1>11. IsPadded(s, data, bitLen)
  <2>. DEFINE e == 64 * n - 8
              a == e + 1
              b == 64 * n
              c == l + 1
              o == <<128>>
  <2>1. /\ \A j \in 1 .. l : m[j] = data[j]
        /\ m[c] = 128
        /\ \A j \in l + 2 .. e : m[j] = 0
        /\ \A j \in 1 .. 8 : m[e + j] = bitLen[j]
    BY <1>2 DEF IsMessage, l
  <2>2. e \in Nat /\ a \in Nat /\ b \in Nat /\ c \in Nat /\ 1 <= c /\ c <= e /\ a <= b /\ c - 1 + 1 = c
        /\ b - a + 1 = 8 /\ b - 7 = a /\ 1 <= a /\ e + 1 = a /\ l + 1 = c /\ l <= c /\ Len(m) = b
    <3>1. n \in Nat \ {0} /\ l \in Nat /\ l + 9 <= 64 * n
      BY <1>0, <1>1
    <3>2. e \in Nat /\ a \in Nat /\ b \in Nat /\ c \in Nat /\ 1 <= c /\ c <= e /\ a <= b
      BY <3>1
    <3>3. b - a + 1 = 8 /\ b - 7 = a /\ 1 <= a /\ c - 1 + 1 = c /\ l <= c
      BY <3>1
    <3>4. Len(m) = b
      BY <1>3
    <3>. QED
      BY <3>2, <3>3, <3>4
  <2>3. \A j \in 1 .. b : m[j] \in Int
    BY <1>3, <2>2, ElementOfSeq
  <2>. HIDE DEF e, a, b, c
  <2>4. SubSeq(m, 1, c) = data \o o
    <3>. DEFINE u == SubSeq(m, 1, c)
                v == data \o o
                q == 1
    <3>1. \A j \in 1 .. c : m[j] \in Int
      <4>1. \A j \in 1 .. c : j \in 1 .. b
        BY <2>2
      <4>. QED
        BY <2>3, <4>1
    <3>2. /\ u \in Seq(Int) /\ Len(u) = IF 1 <= c THEN c - 1 + 1 ELSE 0
          /\ \A j \in 1 .. c - 1 + 1 : u[j] = m[1 + j - 1]
      <4>1. 1 \in Int /\ c \in Int
        BY <2>2
      <4>. QED
        BY <3>1, <4>1, SubSeqProperties
    <3>. HIDE DEF u
    <3>3. u \in Seq(Int) /\ Len(u) = c /\ \A j \in 1 .. c : u[j] = m[j]
      <4>1. \A j \in 1 .. c : 1 + j - 1 = j
        OBVIOUS
      <4>. QED
        BY <2>2, <3>2, <4>1
    <3>4. o \in Seq(Int) /\ Len(o) = q /\ o[1] = 128 /\ q \in Nat /\ \A j \in 1 .. q : j = 1
      OBVIOUS
    <3>5. Len(data) = l
      BY DEF l
    <3>. HIDE DEF o, q
    <3>6. Follow(v, data, o, Int, l, q)
      BY <1>0, <3>4, <3>5, Appended
    <3>. HIDE DEF v
    <3>7. /\ v \in Seq(Int) /\ Len(v) = l + q
          /\ (\A j \in 1 .. l : v[j] = data[j]) /\ (\A j \in 1 .. q : v[l + j] = o[j])
      BY <3>6 DEF Follow
    <3>8. Len(v) = c /\ v[c] = 128
      BY <2>2, <3>4, <3>7 DEF q
    <3>9. \A j \in 1 .. c : j \in 1 .. l \/ j = c
      BY <1>0, <2>2
    <3>10. \A j \in 1 .. c : u[j] = v[j]
      <4>1. ASSUME NEW j \in 1 .. l PROVE u[j] = v[j]
        <5>1. j \in 1 .. c
          BY <1>0, <2>2
        <5>2. u[j] = m[j]
          BY <3>3, <5>1
        <5>3. m[j] = data[j]
          BY <2>1
        <5>4. v[j] = data[j]
          BY <3>7
        <5>. QED
          BY <5>2, <5>3, <5>4
      <4>2. u[c] = v[c]
        <5>1. c \in 1 .. c
          BY <2>2
        <5>. QED
          BY <2>1, <3>3, <3>8, <5>1
      <4>. QED
        BY <3>9, <4>1, <4>2
    <3>11. u = v
      <4>1. u \in Seq(Int) /\ v \in Seq(Int) /\ Len(u) = Len(v) /\ Len(u) = c
        BY <3>3, <3>7, <3>8
      <4>2. \A j \in 1 .. Len(u) : u[j] = v[j]
        BY <3>10, <4>1
      <4>. QED
        BY <4>1, <4>2, SeqEqual
    <3>. QED
      BY <3>11 DEF u, v
  <2>5. SubSeq(m, a, b) = bitLen
    <3>. DEFINE u == SubSeq(m, a, b)
                k == 8
    <3>1. \A j \in a .. b : m[j] \in Int
      <4>1. \A j \in a .. b : j \in 1 .. b
        BY <2>2
      <4>. QED
        BY <2>3, <4>1
    <3>2. /\ u \in Seq(Int) /\ Len(u) = IF a <= b THEN b - a + 1 ELSE 0
          /\ \A j \in 1 .. b - a + 1 : u[j] = m[a + j - 1]
      <4>1. a \in Int /\ b \in Int
        BY <2>2
      <4>. QED
        BY <3>1, <4>1, SubSeqProperties
    <3>3. k = b - a + 1 /\ k \in Nat /\ Len(bitLen) = k
      BY <2>2
    <3>4. \A j \in 1 .. k : m[e + j] = bitLen[j]
      BY <2>1
    <3>. HIDE DEF u, k
    <3>5. \A j \in 1 .. k : a + j - 1 = e + j
      BY <2>2
    <3>6. u \in Seq(Int) /\ Len(u) = k /\ \A j \in 1 .. k : u[j] = bitLen[j]
      BY <2>2, <3>2, <3>3, <3>4, <3>5
    <3>. QED
      BY <3>3, <3>6, SeqEqual DEF u
  <2>6. \A j \in l + 2 .. b - 8 : m[j] = 0
    <3>1. b - 8 = e
      BY DEF e, b
    <3>. QED
      BY <2>1, <3>1
  <2>7. Len(m) = 64 * n
    BY <1>3
  <2>. QED
    BY <1>0, <1>10, <2>2, <2>4, <2>5, <2>6, <2>7 DEF IsPadded, l, b, a, c, o, n
<1>. QED
  BY <1>8, <1>9, <1>11

\* The bytes of a length, the most significant or the least significant one first.
AreLengths(b, r, n) ==
    /\ b \in Seq(Int) /\ Len(b) = 8
    /\ r \in Seq(Int) /\ Len(r) = 8
    /\ \A j \in 1 .. 5 : b[j] = 0
    /\ b[6] = n \div 65536
    /\ b[7] = (n \div 256) % 256
    /\ b[8] = n % 256
    /\ \A j \in 1 .. 8 : r[j] = b[9 - j]

\* BigEndian and LittleEndian give those.
LEMMA LengthsAre ==
    ASSUME NEW n \in Nat
    PROVE  AreLengths(BigEndian(n), LittleEndian(n), n)
<1>. DEFINE a == n \div 65536
            q == n \div 256
            b == q % 256
            c == n % 256
            t == <<a, b, c>>
            f == 5
            k == 3
            z == Zeros(f)
            s == z \o t
<1>1. a \in Int
  OBVIOUS
<1>2. q \in Int /\ c \in Int
  OBVIOUS
<1>. HIDE DEF q
<1>3. b \in Int
  BY <1>2
<1>. HIDE DEF a, b, c
<1>4. t \in Seq(Int) /\ Len(t) = k /\ t[1] = a /\ t[2] = b /\ t[3] = c
  BY <1>1, <1>2, <1>3
<1>5. f \in Nat /\ k \in Nat /\ f + k = 8
  OBVIOUS
<1>6. BigEndian(n) = s
  BY DEF BigEndian, a, b, c, q
<1>. HIDE DEF f, k, t
<1>7. z \in Seq(Int) /\ Len(z) = f /\ \A i \in 1 .. f : z[i] = 0
  BY <1>5, ZerosAre
<1>. HIDE DEF z
<1>8. Follow(s, z, t, Int, f, k)
  BY <1>4, <1>5, <1>7, Appended
<1>. HIDE DEF s
<1>9. /\ s \in Seq(Int) /\ Len(s) = f + k
      /\ (\A j \in 1 .. f : s[j] = z[j]) /\ (\A j \in 1 .. k : s[f + j] = t[j])
  BY <1>8 DEF Follow
<1>10. s[6] = a /\ s[7] = b /\ s[8] = c
  <2>1. 1 \in 1 .. k /\ 2 \in 1 .. k /\ 3 \in 1 .. k /\ f + 1 = 6 /\ f + 2 = 7 /\ f + 3 = 8
    BY DEF f, k
  <2>. QED
    BY <1>4, <1>9, <2>1
<1>11. \A j \in 1 .. 5 : s[j] = 0
  BY <1>7, <1>9 DEF f
<1>12. s \in Seq(Int) /\ Len(s) = 8
  BY <1>5, <1>9
<1>. DEFINE r == Reverse(s)
<1>13. r \in Seq(Int) /\ Len(r) = Len(s) /\ \A i \in 1 .. Len(s) : r[i] = s[Len(s) - i + 1]
  BY <1>12, ReverseIs
<1>14. LittleEndian(n) = r
  BY <1>6 DEF LittleEndian
<1>. HIDE DEF r
<1>15. \A j \in 1 .. 8 : r[j] = s[9 - j]
  <2>1. \A j \in 1 .. 8 : Len(s) - j + 1 = 9 - j
    BY <1>12
  <2>. QED
    BY <1>12, <1>13, <2>1
<1>. QED
  BY <1>6, <1>10, <1>11, <1>12, <1>13, <1>14, <1>15 DEF AreLengths, a, b, c, q

\* b is the one block of a message.
IsOneBlock(b, data, bitLen, l) ==
    /\ b \in Seq(Int) /\ Len(b) = 64
    /\ \A j \in 1 .. l : b[j] = data[j]
    /\ b[l + 1] = 128
    /\ \A j \in l + 2 .. 56 : b[j] = 0
    /\ \A j \in 1 .. 8 : b[56 + j] = bitLen[j]

\* There is no other.
LEMMA OneBlockIs ==
    ASSUME NEW data, NEW bitLen, NEW l \in 0 .. 55, NEW b, NEW c,
           IsOneBlock(b, data, bitLen, l), IsOneBlock(c, data, bitLen, l)
    PROVE  b = c
<1>1. ASSUME NEW j \in 1 .. 64 PROVE b[j] = c[j]
  <2>1. CASE j <= l
    <3>1. j \in 1 .. l
      BY <2>1
    <3>. QED
      BY <3>1 DEF IsOneBlock
  <2>2. CASE j = l + 1
    BY <2>2 DEF IsOneBlock
  <2>3. CASE j > l + 1 /\ j <= 56
    <3>1. j \in l + 2 .. 56
      BY <2>3
    <3>. QED
      BY <3>1 DEF IsOneBlock
  <2>4. CASE j > 56
    <3>. DEFINE i == j - 56
    <3>1. i \in 1 .. 8 /\ 56 + i = j
      BY <2>4
    <3>. HIDE DEF i
    <3>2. b[56 + i] = bitLen[i] /\ c[56 + i] = bitLen[i]
      BY <3>1 DEF IsOneBlock
    <3>. QED
      BY <3>1, <3>2
  <2>. QED
    BY <2>1, <2>2, <2>3, <2>4
<1>. DEFINE n == 64
<1>2. b \in Seq(Int) /\ Len(b) = n /\ c \in Seq(Int) /\ Len(c) = n
  BY DEF IsOneBlock
<1>3. \A j \in 1 .. n : b[j] = c[j]
  BY <1>1
<1>. HIDE DEF n
<1>4. Len(b) = Len(c) /\ \A j \in 1 .. Len(b) : b[j] = c[j]
  BY <1>2, <1>3
<1>. QED
  BY <1>2, <1>4, SeqEqual

\* Two values, one after the other.
LEMMA AppendedOne ==
    ASSUME NEW S, NEW h \in S, NEW b \in S
    PROVE  /\ Append(<<h>>, b) \in Seq(S) /\ Len(Append(<<h>>, b)) = 2
           /\ Append(<<h>>, b)[1] = h /\ Append(<<h>>, b)[2] = b
<1>1. Append(<<h>>, b) \in Seq(S)
  OBVIOUS
<1>2. Len(Append(<<h>>, b)) = 2 /\ Append(<<h>>, b)[1] = h /\ Append(<<h>>, b)[2] = b
  OBVIOUS
<1>. QED
  BY <1>1, <1>2

\* A state of one block.
LEMMA StateOfOne ==
    ASSUME NEW S, NEW h \in S, NEW b \in S, NEW blocks \in Seq(S), Len(blocks) = 1, blocks[1] = b
    PROVE  StateOf(h, blocks) = Append(<<h>>, b)
<1>. DEFINE s == StateOf(h, blocks)
            o == <<h>>
            t == Append(o, b)
            k == 2
<1>1. s = [j \in 1 .. k |-> IF j = 1 THEN h ELSE blocks[j - 1]]
  <2>1. Len(blocks) + 1 = k
    OBVIOUS
  <2>. QED
    BY <2>1 DEF StateOf
<1>. HIDE DEF s
<1>2. s[1] = h /\ s[2] = b
  BY <1>1
<1>3. s \in [1 .. k -> S]
  <2>1. \A j \in 1 .. k : (IF j = 1 THEN h ELSE blocks[j - 1]) \in S
    <3>1. \A j \in 1 .. k : j = 1 \/ j - 1 = 1
      OBVIOUS
    <3>. QED
      BY <3>1
  <2>. QED
    BY <1>1, <2>1
<1>0. k \in Nat /\ \A j \in 1 .. k : j = 1 \/ j = 2
  OBVIOUS
<1>. HIDE DEF k
<1>4. s \in Seq(S) /\ Len(s) = k
  BY <1>0, <1>3
<1>6. t \in Seq(S) /\ Len(t) = k /\ t[1] = h /\ t[2] = b
  <2>1. t \in Seq(S) /\ Len(t) = 2 /\ t[1] = h /\ t[2] = b
    BY AppendedOne
  <2>. QED
    BY <2>1 DEF k
<1>. HIDE DEF t
<1>7. s = t
  <2>1. \A j \in 1 .. k : s[j] = t[j]
    BY <1>0, <1>2, <1>6
  <2>2. Len(s) = Len(t) /\ \A j \in 1 .. Len(s) : s[j] = t[j]
    BY <1>4, <1>6, <2>1
  <2>. QED
    BY <1>4, <1>6, <2>2, SeqEqual
<1>. QED
  BY <1>7 DEF s, t, o

\* b is the one block of data and its length, l bytes long.
TakesOne(b, data, bitLen, l) ==
    /\ l \in 0 .. 55 /\ Len(data) = l
    /\ bitLen \in Seq(Int) /\ Len(bitLen) = 8
    /\ IsOneBlock(b, data, bitLen, l)

\* A message that takes one block is a state of that block.
LEMMA OneBlock ==
    ASSUME NEW data \in Seq(Int), NEW bitLen, NEW l, NEW b, TakesOne(b, data, bitLen, l),
           NEW h \in Int
    PROVE  Chain(h, PaddedBlocks(data, bitLen)) = Append(<<h>>, b)
<1>0. /\ l \in 0 .. 55 /\ Len(data) = l /\ bitLen \in Seq(Int) /\ Len(bitLen) = 8
      /\ IsOneBlock(b, data, bitLen, l)
  BY DEF TakesOne
<1>. DEFINE n == DivCeil(l + 9, 64)
            m == Message(data, bitLen, n)
            blocks == [i \in 1 .. n |-> Piece(m, i)]
            S == Int \cup Seq(Int)
<1>1. n = 1
  <2>. DEFINE w == 0
              r == l
  <2>1. l \in Nat /\ w \in Nat /\ r \in 0 .. 63 /\ l = 64 * w + r /\ ~(r >= 56) /\ w + 1 = 1
    BY <1>0
  <2>. HIDE DEF w, r
  <2>2. DivCeil(l + 9, 64) = w + (IF r >= 56 THEN 2 ELSE 1)
    BY <2>1, BlockCountIs
  <2>. QED
    BY <2>1, <2>2
<1>2. /\ n \in Nat \ {0} /\ Len(data) + 9 <= 64 * n
      /\ PaddedBlocks(data, bitLen) = blocks
  <2>1. n = DivCeil(Len(data) + 9, 64)
    BY <1>0
  <2>. HIDE DEF n
  <2>2. /\ n \in Nat \ {0} /\ Len(data) + 9 <= 64 * n
        /\ PaddedBlocks(data, bitLen) = [i \in 1 .. n |-> Piece(Message(data, bitLen, n), i)]
    BY <1>0, <2>1, PaddedIs
  <2>. QED
    BY <2>2
<1>. HIDE DEF n
<1>3. IsMessage(m, data, bitLen, n)
  BY <1>0, <1>2, MessageIs
<1>. HIDE DEF m
<1>4. m \in Seq(Int) /\ Len(m) = 64 /\ IsOneBlock(m, data, bitLen, l)
  BY <1>0, <1>1, <1>3 DEF IsMessage, IsOneBlock
<1>5. m = b
  BY <1>0, <1>4, OneBlockIs, ZenonT(60)
<1>6. Piece(m, 1) = b
  <2>. DEFINE k == 64
  <2>1. Len(m) = k
    BY <1>4
  <2>2. Piece(m, 1) = SubSeq(m, 1, k)
    BY DEF Piece
  <2>. HIDE DEF k
  <2>. QED
    BY <1>4, <1>5, <2>1, <2>2, SubSeqFull
<1>7. h \in S /\ b \in S
  BY <1>4, <1>5
<1>. HIDE DEF S
<1>8. blocks \in Seq(S) /\ Len(blocks) = 1 /\ blocks[1] = b
  <2>1. blocks \in [1 .. 1 -> S] /\ blocks[1] = b
    <3>1. \A i \in 1 .. 1 : Piece(m, i) = b
      BY <1>6
    <3>. QED
      BY <1>1, <1>7, <3>1
  <2>. DEFINE k == 1
  <2>2. k \in Nat /\ blocks \in [1 .. k -> S]
    BY <2>1
  <2>. HIDE DEF blocks, k
  <2>3. blocks \in Seq(S) /\ Len(blocks) = k
    BY <2>2
  <2>. QED
    BY <2>1, <2>3 DEF k
<1>. HIDE DEF blocks
<1>9. Chain(h, blocks) = StateOf(h, blocks)
  BY <1>7, <1>8, ChainIs
<1>10. StateOf(h, blocks) = Append(<<h>>, b)
  BY <1>7, <1>8, StateOfOne
<1>. QED
  BY <1>2, <1>9, <1>10

-----------------------------------------------------------------------------
(* The hashes *)

\* Bytes are numbers.
LEMMA BytesAreInts ==
    ASSUME NEW s \in Seq(Byte)
    PROVE  s \in Seq(Int) /\ Len(s) \in Nat /\ \A i \in 1 .. Len(s) : s[i] \in Byte
<1>1. Byte \subseteq Int
  BY DEF Byte
<1>2. s \in Seq(Int)
  <2>. DEFINE n == Len(s)
  <2>1. n \in Nat /\ s \in [1 .. n -> Byte]
    OBVIOUS
  <2>. HIDE DEF n
  <2>2. s \in [1 .. n -> Int]
    BY <1>1, <2>1
  <2>. QED
    BY <2>1, <2>2
<1>3. Len(s) \in Nat /\ \A i \in 1 .. Len(s) : s[i] \in Byte
  BY ElementOfSeq
<1>. QED
  BY <1>2, <1>3

\* What the hash of a message is read off is a state of the padded message.
LEMMA ShaStateIs ==
    ASSUME NEW data \in Seq(Byte)
    PROVE  /\ IsState(Sha256State(data))
           /\ IsPadded(Sha256State(data), data, BigEndian(8 * Len(data)))
           /\ Sha256State(data) = Chain(17, PaddedBlocks(data, BigEndian(8 * Len(data))))
<1>. DEFINE b == BigEndian(8 * Len(data))
            h == 17
<1>1. Sha256State(data) = Chain(h, PaddedBlocks(data, b))
  BY Zenon DEF Sha256State, Chain, Sha256CompressBlock, ShaH0
<1>2. data \in Seq(Int) /\ Len(data) \in Nat
  BY BytesAreInts
<1>3. b \in Seq(Int) /\ Len(b) = 8
  <2>. DEFINE n == 8 * Len(data)
  <2>1. n \in Nat
    BY <1>2
  <2>. HIDE DEF n
  <2>2. BigEndian(n) \in Seq(Int) /\ Len(BigEndian(n)) = 8
    <3>1. AreLengths(BigEndian(n), LittleEndian(n), n)
      BY <2>1, LengthsAre
    <3>. QED
      BY <3>1 DEF AreLengths
  <2>. QED
    BY <2>2 DEF n
<1>4. h \in Int
  OBVIOUS
<1>. HIDE DEF b, h
<1>5. /\ IsState(Chain(h, PaddedBlocks(data, b)))
      /\ IsPadded(Chain(h, PaddedBlocks(data, b)), data, b)
  BY <1>2, <1>3, <1>4, PaddedStateIs
<1>6. IsState(Sha256State(data)) /\ IsPadded(Sha256State(data), data, b)
  BY <1>1, <1>5
<1>. QED
  BY <1>1, <1>6 DEF b, h

\* The same of RIPEMD-160.
LEMMA RipemdStateIs ==
    ASSUME NEW data \in Seq(Byte)
    PROVE  /\ IsState(Ripemd160State(data))
           /\ IsPadded(Ripemd160State(data), data, LittleEndian(8 * Len(data)))
           /\ Ripemd160State(data) = Chain(91, PaddedBlocks(data, LittleEndian(8 * Len(data))))
<1>. DEFINE b == LittleEndian(8 * Len(data))
            h == 91
<1>1. Ripemd160State(data) = Chain(h, PaddedBlocks(data, b))
  BY Zenon DEF Ripemd160State, Chain, Ripemd160CompressBlock, RipemdH0
<1>2. data \in Seq(Int) /\ Len(data) \in Nat
  BY BytesAreInts
<1>3. b \in Seq(Int) /\ Len(b) = 8
  <2>. DEFINE n == 8 * Len(data)
  <2>1. n \in Nat
    BY <1>2
  <2>. HIDE DEF n
  <2>2. LittleEndian(n) \in Seq(Int) /\ Len(LittleEndian(n)) = 8
    <3>1. AreLengths(BigEndian(n), LittleEndian(n), n)
      BY <2>1, LengthsAre
    <3>. QED
      BY <3>1 DEF AreLengths
  <2>. QED
    BY <2>2 DEF n
<1>4. h \in Int
  OBVIOUS
<1>. HIDE DEF b, h
<1>5. /\ IsState(Chain(h, PaddedBlocks(data, b)))
      /\ IsPadded(Chain(h, PaddedBlocks(data, b)), data, b)
  BY <1>2, <1>3, <1>4, PaddedStateIs
<1>6. IsState(Ripemd160State(data)) /\ IsPadded(Ripemd160State(data), data, b)
  BY <1>1, <1>5
<1>. QED
  BY <1>1, <1>6 DEF b, h

\* SHA-256 gives 32 bytes.
LEMMA Sha256Is ==
    ASSUME NEW data \in Seq(Byte)
    PROVE  Sha256(data) \in Seq(Byte) /\ Len(Sha256(data)) = 32
<1>. DEFINE n == 32
<1>1. n \in Nat
  OBVIOUS
<1>2. IsState(Sha256State(data))
  BY ShaStateIs
<1>3. Sha256(data) = Digest(Sha256State(data), n)
  BY DEF Sha256
<1>. HIDE DEF n
<1>4. Sha256(data) \in Seq(Byte) /\ Len(Sha256(data)) = n
  BY <1>1, <1>2, <1>3, DigestIs
<1>. QED
  BY <1>4 DEF n

\* Twice, too.
LEMMA DoubleSha256Is ==
    ASSUME NEW data \in Seq(Byte)
    PROVE  DoubleSha256(data) \in Seq(Byte) /\ Len(DoubleSha256(data)) = 32
BY Sha256Is DEF DoubleSha256

\* HASH160 gives 20 bytes.
LEMMA Hash160Is ==
    ASSUME NEW data \in Seq(Byte)
    PROVE  Hash160(data) \in Seq(Byte) /\ Len(Hash160(data)) = 20
<1>. DEFINE n == 20
            s == Sha256(data)
<1>1. n \in Nat
  OBVIOUS
<1>2. IsState(Ripemd160State(s))
  <2>1. s \in Seq(Byte)
    BY Sha256Is
  <2>. HIDE DEF s
  <2>. QED
    BY <2>1, RipemdStateIs
<1>3. Hash160(data) = Digest(Ripemd160State(s), n)
  BY DEF Hash160
<1>. HIDE DEF n, s
<1>4. Hash160(data) \in Seq(Byte) /\ Len(Hash160(data)) = n
  BY <1>1, <1>2, <1>3, DigestIs
<1>. QED
  BY <1>4 DEF n

\* b is s, a byte 128, k zeros, and t.
IsFilled(b, s, t, l, k, c) ==
    /\ b \in Seq(Int) /\ Len(b) = l + 1 + k + c
    /\ \A j \in 1 .. l : b[j] = s[j]
    /\ b[l + 1] = 128
    /\ \A j \in l + 2 .. l + 1 + k : b[j] = 0
    /\ \A j \in 1 .. c : b[l + 1 + k + j] = t[j]

\* Those are the parts of such a sequence.
LEMMA FilledIs ==
    ASSUME NEW l \in Nat, NEW k \in Nat, NEW c \in Nat, NEW s \in Seq(Int), Len(s) = l,
           NEW t \in Seq(Int), Len(t) = c
    PROVE  IsFilled(s \o <<128>> \o Zeros(k) \o t, s, t, l, k, c)
<1>. DEFINE o == <<128>>
            z == Zeros(k)
            f == s \o o
            g == f \o z
            b == g \o t
            u == 1
            m == l + u
            n == m + k
<1>1. m \in Nat /\ u \in Nat /\ n \in Nat /\ l <= m
  OBVIOUS
<1>2. z \in Seq(Int) /\ Len(z) = k /\ \A i \in 1 .. k : z[i] = 0
  BY ZerosAre
<1>3. o \in Seq(Int) /\ Len(o) = u /\ o[1] = 128
  OBVIOUS
<1>. HIDE DEF o, z, u
<1>4. Follow(f, s, o, Int, l, u)
  BY <1>1, <1>3, Appended
<1>. HIDE DEF f
<1>5. f \in Seq(Int) /\ Len(f) = m /\ (\A j \in 1 .. l : f[j] = s[j]) /\ f[m] = 128
  <2>1. /\ f \in Seq(Int) /\ Len(f) = l + u /\ (\A j \in 1 .. l : f[j] = s[j])
        /\ \A j \in 1 .. u : f[l + j] = o[j]
    BY <1>4 DEF Follow
  <2>2. f[l + 1] = o[1]
    BY <2>1 DEF u
  <2>. QED
    BY <1>3, <2>1, <2>2 DEF u
<1>. HIDE DEF m
<1>6. Follow(g, f, z, Int, m, k)
  BY <1>1, <1>2, <1>5, Appended
<1>. HIDE DEF g
<1>7. /\ g \in Seq(Int) /\ Len(g) = n
      /\ (\A j \in 1 .. m : g[j] = f[j]) /\ (\A j \in 1 .. k : g[m + j] = z[j])
  BY <1>6 DEF Follow
<1>. HIDE DEF n
<1>8. Follow(b, g, t, Int, n, c)
  BY <1>1, <1>7, Appended
<1>. HIDE DEF b
<1>9. /\ b \in Seq(Int) /\ Len(b) = n + c
      /\ (\A j \in 1 .. n : b[j] = g[j]) /\ (\A j \in 1 .. c : b[n + j] = t[j])
  BY <1>8 DEF Follow
<1>10. n = l + 1 + k /\ m = l + 1
  BY DEF n, m, u
<1>11. ASSUME NEW j \in 1 .. l PROVE b[j] = s[j]
  <2>1. j \in 1 .. m /\ j \in 1 .. n
    BY <1>10
  <2>. QED
    BY <1>5, <1>7, <1>9, <2>1
<1>12. b[l + 1] = 128
  <2>1. m \in 1 .. m /\ m \in 1 .. n
    BY <1>10
  <2>. QED
    BY <1>5, <1>7, <1>9, <1>10, <2>1
<1>13. ASSUME NEW j \in l + 2 .. l + 1 + k PROVE b[j] = 0
  <2>. DEFINE i == j - m
  <2>1. i \in 1 .. k /\ m + i = j /\ j \in 1 .. n
    BY <1>10
  <2>. HIDE DEF i
  <2>. QED
    BY <1>2, <1>7, <1>9, <2>1
<1>14. IsFilled(b, s, t, l, k, c)
  BY <1>9, <1>10, <1>11, <1>12, <1>13 DEF IsFilled
<1>. QED
  BY <1>14 DEF b, g, f, o, z

\* The one-block form for 33 bytes is the general one (sha256_33).
LEMMA ShortShaIs ==
    ASSUME NEW p \in Seq(Byte), Len(p) = 33
    PROVE  Sha256State33(p) = Sha256State(p)
<1>. DEFINE l == 33
            k == 28
            c == 2
            t == <<1, 8>>
            b == p \o <<128>> \o Zeros(k) \o t
            n == 8 * l
            e == BigEndian(n)
            h == 17
<1>1. p \in Seq(Int)
  BY BytesAreInts
<1>2. t \in Seq(Int) /\ Len(t) = c /\ t[1] = 1 /\ t[2] = 8
  OBVIOUS
<1>3. Sha256State33(p) = Append(<<h>>, b)
  BY DEF Sha256State33, Sha256CompressBlock, ShaH0
<1>. HIDE DEF t
<1>4. IsFilled(b, p, t, l, k, c)
  <2>1. l \in Nat /\ k \in Nat /\ c \in Nat /\ Len(p) = l
    OBVIOUS
  <2>. HIDE DEF l, k, c
  <2>. QED
    BY <1>1, <1>2, <2>1, FilledIs
<1>. HIDE DEF b
<1>5. /\ b \in Seq(Int) /\ Len(b) = 64
      /\ \A j \in 1 .. 33 : b[j] = p[j]
      /\ b[34] = 128
      /\ \A j \in 35 .. 62 : b[j] = 0
      /\ b[63] = 1 /\ b[64] = 8
  <2>1. /\ b \in Seq(Int) /\ Len(b) = l + 1 + k + c
        /\ \A j \in 1 .. l : b[j] = p[j]
        /\ b[l + 1] = 128
        /\ \A j \in l + 2 .. l + 1 + k : b[j] = 0
        /\ \A j \in 1 .. c : b[l + 1 + k + j] = t[j]
    BY <1>4 DEF IsFilled
  <2>2. 1 \in 1 .. c /\ 2 \in 1 .. c /\ l + 1 + k + 1 = 63 /\ l + 1 + k + 2 = 64
    OBVIOUS
  <2>3. b[63] = 1 /\ b[64] = 8
    BY <1>2, <2>1, <2>2
  <2>. QED
    BY <2>1, <2>3
<1>6. /\ e \in Seq(Int) /\ Len(e) = 8
      /\ \A j \in 1 .. 5 : e[j] = 0
      /\ e[6] = 0 /\ e[7] = 1 /\ e[8] = 8
  <2>1. AreLengths(BigEndian(n), LittleEndian(n), n)
    <3>1. n \in Nat
      OBVIOUS
    <3>. HIDE DEF n
    <3>. QED
      BY <3>1, LengthsAre
  <2>2. n = 264 /\ 264 \div 65536 = 0 /\ (264 \div 256) % 256 = 1 /\ 264 % 256 = 8
    OBVIOUS
  <2>. HIDE DEF n
  <2>. QED
    BY <2>1, <2>2 DEF AreLengths
<1>7. e = BigEndian(8 * Len(p))
  OBVIOUS
<1>. HIDE DEF e
<1>8. IsOneBlock(b, p, e, 33)
  <2>1. ASSUME NEW j \in 1 .. 8 PROVE b[56 + j] = e[j]
    <3>1. CASE j <= 5
      <4>1. j \in 1 .. 5 /\ 56 + j \in 35 .. 62
        BY <3>1
      <4>. QED
        BY <1>5, <1>6, <4>1
    <3>2. CASE j = 6
      <4>1. 56 + j = 62 /\ 62 \in 35 .. 62
        BY <3>2
      <4>. QED
        BY <1>5, <1>6, <3>2, <4>1
    <3>3. CASE j = 7
      BY <1>5, <1>6, <3>3
    <3>4. CASE j = 8
      BY <1>5, <1>6, <3>4
    <3>. QED
      BY <3>1, <3>2, <3>3, <3>4
  <2>2. \A j \in 33 + 2 .. 56 : b[j] = 0
    <3>1. \A j \in 33 + 2 .. 56 : j \in 35 .. 62
      OBVIOUS
    <3>. QED
      BY <1>5, <3>1
  <2>. QED
    BY <1>5, <2>1, <2>2 DEF IsOneBlock
<1>9. Chain(h, PaddedBlocks(p, e)) = Append(<<h>>, b)
  <2>. DEFINE m == 33
  <2>1. TakesOne(b, p, e, m)
    BY <1>6, <1>8 DEF TakesOne
  <2>2. h \in Int
    OBVIOUS
  <2>. HIDE DEF m, h
  <2>. QED
    BY <1>1, <2>1, <2>2, OneBlock
<1>10. Sha256State(p) = Chain(h, PaddedBlocks(p, e))
  BY <1>7, ShaStateIs
<1>. QED
  BY <1>3, <1>9, <1>10

\* The one-block form for 32 bytes is the general one (ripemd160_32).
LEMMA ShortRipemdIs ==
    ASSUME NEW p \in Seq(Byte), Len(p) = 32
    PROVE  Ripemd160State32(p) = Ripemd160State(p)
<1>. DEFINE l == 32
            k == 23
            c == 2
            f == 58
            d == 6
            t == <<0, 1>>
            a == p \o <<128>> \o Zeros(k) \o t
            z == Zeros(d)
            b == a \o z
            n == 8 * l
            e == LittleEndian(n)
            h == 91
<1>1. p \in Seq(Int)
  BY BytesAreInts
<1>2. t \in Seq(Int) /\ Len(t) = c /\ t[1] = 0 /\ t[2] = 1
  OBVIOUS
<1>3. Ripemd160State32(p) = Append(<<h>>, b)
  BY DEF Ripemd160State32, Ripemd160CompressBlock, RipemdH0
<1>. HIDE DEF t
<1>4. IsFilled(a, p, t, l, k, c)
  <2>1. l \in Nat /\ k \in Nat /\ c \in Nat /\ Len(p) = l
    OBVIOUS
  <2>. HIDE DEF l, k, c
  <2>. QED
    BY <1>1, <1>2, <2>1, FilledIs
<1>. HIDE DEF a
<1>5. /\ a \in Seq(Int) /\ Len(a) = f
      /\ \A j \in 1 .. 32 : a[j] = p[j]
      /\ a[33] = 128
      /\ \A j \in 34 .. 56 : a[j] = 0
      /\ a[57] = 0 /\ a[58] = 1
  <2>1. /\ a \in Seq(Int) /\ Len(a) = l + 1 + k + c
        /\ \A j \in 1 .. l : a[j] = p[j]
        /\ a[l + 1] = 128
        /\ \A j \in l + 2 .. l + 1 + k : a[j] = 0
        /\ \A j \in 1 .. c : a[l + 1 + k + j] = t[j]
    BY <1>4 DEF IsFilled
  <2>2. 1 \in 1 .. c /\ 2 \in 1 .. c /\ l + 1 + k + 1 = 57 /\ l + 1 + k + 2 = 58
    OBVIOUS
  <2>3. a[57] = 0 /\ a[58] = 1
    BY <1>2, <2>1, <2>2
  <2>. QED
    BY <2>1, <2>3
<1>6. z \in Seq(Int) /\ Len(z) = d /\ \A i \in 1 .. d : z[i] = 0
  <2>1. d \in Nat
    OBVIOUS
  <2>. HIDE DEF d
  <2>. QED
    BY <2>1, ZerosAre
<1>. HIDE DEF z
<1>7. Follow(b, a, z, Int, f, d)
  <2>1. f \in Nat /\ d \in Nat /\ a \in Seq(Int) /\ Len(a) = f
    BY <1>5
  <2>. HIDE DEF f, d
  <2>. QED
    BY <1>6, <2>1, Appended
<1>. HIDE DEF b
<1>8. /\ b \in Seq(Int) /\ Len(b) = 64
      /\ (\A j \in 1 .. 58 : b[j] = a[j]) /\ (\A j \in 1 .. 6 : b[58 + j] = 0)
  <2>1. /\ b \in Seq(Int) /\ Len(b) = f + d
        /\ (\A j \in 1 .. f : b[j] = a[j]) /\ (\A j \in 1 .. d : b[f + j] = z[j])
    BY <1>7 DEF Follow
  <2>. QED
    BY <1>6, <2>1
<1>9. /\ e \in Seq(Int) /\ Len(e) = 8
      /\ e[1] = 0 /\ e[2] = 1
      /\ \A j \in 3 .. 8 : e[j] = 0
  <2>. DEFINE g == BigEndian(n)
  <2>1. AreLengths(g, e, n)
    <3>1. n \in Nat
      OBVIOUS
    <3>. HIDE DEF n
    <3>. QED
      BY <3>1, LengthsAre
  <2>2. n = 256 /\ 256 \div 65536 = 0 /\ (256 \div 256) % 256 = 1 /\ 256 % 256 = 0
    OBVIOUS
  <2>. HIDE DEF n, g, e
  <2>3. /\ e \in Seq(Int) /\ Len(e) = 8
        /\ \A j \in 1 .. 8 : e[j] = g[9 - j]
        /\ \A j \in 1 .. 5 : g[j] = 0
        /\ g[6] = 0 /\ g[7] = 1 /\ g[8] = 0
    BY <2>1, <2>2 DEF AreLengths
  <2>4. e[1] = 0 /\ e[2] = 1 /\ e[3] = 0
    <3>1. /\ 1 \in 1 .. 8 /\ 2 \in 1 .. 8 /\ 3 \in 1 .. 8
          /\ 9 - 1 = 8 /\ 9 - 2 = 7 /\ 9 - 3 = 6
      OBVIOUS
    <3>2. e[1] = g[9 - 1] /\ e[2] = g[9 - 2] /\ e[3] = g[9 - 3]
      BY <2>3, <3>1
    <3>. QED
      BY <2>3, <3>1, <3>2
  <2>5. ASSUME NEW j \in 4 .. 8 PROVE e[j] = 0
    <3>. DEFINE i == 9 - j
    <3>1. i \in 1 .. 5 /\ j \in 1 .. 8
      OBVIOUS
    <3>2. e[j] = g[i]
      BY <2>3, <3>1
    <3>. HIDE DEF i
    <3>. QED
      BY <2>3, <3>1, <3>2
  <2>6. \A j \in 3 .. 8 : j = 3 \/ j \in 4 .. 8
    OBVIOUS
  <2>. QED
    BY <2>3, <2>4, <2>5, <2>6
<1>10. e = LittleEndian(8 * Len(p))
  OBVIOUS
<1>. HIDE DEF e
<1>11. IsOneBlock(b, p, e, 32)
  <2>1. ASSUME NEW j \in 1 .. 8 PROVE b[56 + j] = e[j]
    <3>1. CASE j = 1
      <4>1. 57 \in 1 .. 58 /\ 56 + j = 57
        BY <3>1
      <4>. QED
        BY <1>5, <1>8, <1>9, <3>1, <4>1
    <3>2. CASE j = 2
      <4>1. 58 \in 1 .. 58 /\ 56 + j = 58
        BY <3>2
      <4>. QED
        BY <1>5, <1>8, <1>9, <3>2, <4>1
    <3>3. CASE j > 2
      <4>. DEFINE i == j - 2
      <4>1. i \in 1 .. 6 /\ 58 + i = 56 + j /\ j \in 3 .. 8
        BY <3>3
      <4>. HIDE DEF i
      <4>. QED
        BY <1>8, <1>9, <4>1
    <3>. QED
      BY <3>1, <3>2, <3>3
  <2>2. \A j \in 32 + 2 .. 56 : b[j] = 0
    <3>. SUFFICES ASSUME NEW j \in 32 + 2 .. 56 PROVE b[j] = 0
      OBVIOUS
    <3>1. j \in 1 .. 58
      OBVIOUS
    <3>2. b[j] = a[j]
      BY <1>8, <3>1
    <3>3. a[j] = 0
      <4>1. j \in 34 .. 56
        OBVIOUS
      <4>. QED
        BY <1>5, <4>1
    <3>. QED
      BY <3>2, <3>3
  <2>3. \A j \in 1 .. 32 : b[j] = p[j]
    <3>. SUFFICES ASSUME NEW j \in 1 .. 32 PROVE b[j] = p[j]
      OBVIOUS
    <3>1. j \in 1 .. 58
      OBVIOUS
    <3>2. b[j] = a[j]
      BY <1>8, <3>1
    <3>3. a[j] = p[j]
      BY <1>5
    <3>. QED
      BY <3>2, <3>3
  <2>4. b[32 + 1] = 128
    <3>1. 33 \in 1 .. 58
      OBVIOUS
    <3>. QED
      BY <1>5, <1>8, <3>1
  <2>. QED
    BY <1>8, <2>1, <2>2, <2>3, <2>4 DEF IsOneBlock
<1>12. Chain(h, PaddedBlocks(p, e)) = Append(<<h>>, b)
  <2>. DEFINE m == 32
  <2>1. TakesOne(b, p, e, m)
    BY <1>9, <1>11 DEF TakesOne
  <2>2. h \in Int
    OBVIOUS
  <2>. HIDE DEF m, h
  <2>. QED
    BY <1>1, <2>1, <2>2, OneBlock
<1>13. Ripemd160State(p) = Chain(h, PaddedBlocks(p, e))
  BY <1>10, RipemdStateIs
<1>. QED
  BY <1>3, <1>12, <1>13

\* HASH160 of a compressed key is the general one (hash160_from_pubkey33).
LEMMA ShortHashIs ==
    ASSUME NEW p \in Seq(Byte), Len(p) = 33
    PROVE  Hash160FromPubkey33(p) = Hash160(p)
<1>1. Sha256State33(p) = Sha256State(p)
  BY ShortShaIs
<1>2. Sha256(p) \in Seq(Byte) /\ Len(Sha256(p)) = 32
  BY Sha256Is
<1>. DEFINE s == Sha256(p)
<1>3. Digest(Sha256State33(p), 32) = s
  BY <1>1 DEF Sha256
<1>. HIDE DEF s
<1>4. Ripemd160State32(s) = Ripemd160State(s)
  BY <1>2, ShortRipemdIs DEF s
<1>5. Hash160FromPubkey33(p) = Digest(Ripemd160State(s), 20)
  BY <1>3, <1>4 DEF Hash160FromPubkey33
<1>6. Hash160(p) = Digest(Ripemd160State(s), 20)
  BY DEF Hash160, s
<1>. QED
  BY <1>5, <1>6

\* A compressed key is 33 bytes.
LEMMA CompressedIs ==
    ASSUME NEW p, p.x \in Nat
    PROVE  ToCompressed(p) \in Seq(Byte) /\ Len(ToCompressed(p)) = 33
<1>. DEFINE all == Limbs * LimbBytes
            f == IF IsOdd(FromNat(p.y)) THEN 3 ELSE 2
            o == <<f>>
            k == 32 - all
            z == Leading
            t == ToBeBytes(FromNat(p.x))
            u == 1
            s == o \o z
            b == s \o t
            n == u + k
<1>1. ToCompressed(p) = IF p.infinity THEN [i \in 1 .. 33 |-> 0] ELSE b
  BY DEF ToCompressed
<1>2. f \in Byte /\ 0 \in Byte
  BY DEF Byte
<1>. HIDE DEF f
<1>3. o \in Seq(Byte) /\ Len(o) = u /\ u \in Nat
  BY <1>2
<1>4. t \in Seq(Byte) /\ Len(t) = all /\ all \in Nat
  <2>. DEFINE x == p.x
              c == ByteBase
              r == BytesOf(x)
  <2>1. /\ all \in Nat \ {0}
        /\ r \in Seq(0 .. c - 1) /\ Len(r) = all
    <3>. HIDE DEF r, x
    <3>1. x \in Nat
      BY DEF x
    <3>2. /\ Limbs * LimbBytes \in Nat \ {0}
          /\ BytesOf(x) \in Seq(0 .. ByteBase - 1) /\ Len(BytesOf(x)) = Limbs * LimbBytes
      BY <3>1, BytesAre
    <3>. QED
      BY <3>2 DEF r
  <2>2. t = r
    BY ToBeBytesIs
  <2>3. c \in Nat /\ c <= 256
    BY LimbPartsAre, CompressedAssumption
  <2>. HIDE DEF c, r, t, all
  <2>4. 0 .. c - 1 \subseteq Byte
    BY <2>3 DEF Byte
  <2>. DEFINE S == 0 .. c - 1
  <2>5. r \in Seq(S) /\ S \subseteq Byte
    BY <2>1, <2>4
  <2>. HIDE DEF S
  <2>6. r \in Seq(Byte)
    <3>1. Len(r) \in Nat /\ r \in [1 .. Len(r) -> S]
      BY <2>5, LenProperties
    <3>. DEFINE l == Len(r)
    <3>. HIDE DEF l
    <3>2. l \in Nat /\ r \in [1 .. l -> S]
      BY <3>1 DEF l
    <3>3. r \in [1 .. l -> Byte]
      BY <2>5, <3>2
    <3>. QED
      BY <3>2, <3>3
  <2>. QED
    BY <2>1, <2>2, <2>6
<1>5. k \in Nat /\ all + k = 32
  BY <1>4, CompressedAssumption
<1>. HIDE DEF k
<1>6. z \in Seq(Byte) /\ Len(z) = k
  <2>1. z = [i \in 1 .. k |-> 0]
    BY DEF Leading, k
  <2>2. z \in [1 .. k -> Byte]
    BY <1>2, <2>1
  <2>. QED
    BY <1>5, <2>2
<1>. HIDE DEF o, z, t, u, all
<1>7. Follow(s, o, z, Byte, u, k)
  BY <1>3, <1>5, <1>6, Appended
<1>. HIDE DEF s
<1>8. s \in Seq(Byte) /\ Len(s) = n /\ n \in Nat
  BY <1>3, <1>5, <1>7 DEF Follow
<1>. HIDE DEF n
<1>9. Follow(b, s, t, Byte, n, all)
  BY <1>4, <1>8, Appended
<1>. HIDE DEF b
<1>10. b \in Seq(Byte) /\ Len(b) = 33
  <2>1. b \in Seq(Byte) /\ Len(b) = n + all
    BY <1>9 DEF Follow
  <2>2. n + all = 33
    BY <1>4, <1>5 DEF n, u
  <2>. QED
    BY <2>1, <2>2
<1>. DEFINE e == [i \in 1 .. 33 |-> 0]
<1>11. e \in Seq(Byte) /\ Len(e) = 33
  <2>1. e \in [1 .. 33 -> Byte]
    BY <1>2
  <2>. QED
    BY <2>1
<1>12. ToCompressed(p) = IF p.infinity THEN e ELSE b
  BY <1>1
<1>. HIDE DEF e
<1>. QED
  BY <1>10, <1>11, <1>12

\* The public key of a number is 33 bytes.
LEMMA PubkeyIs ==
    ASSUME NEW k \in Numbers
    PROVE  /\ ToCompressed(PublicKeyOf[k]) \in Seq(Byte)
           /\ Len(ToCompressed(PublicKeyOf[k])) = 33
<1>. DEFINE p == PublicKeyOf[k]
<1>1. p \in AffinePoints
  BY PointAssumption
<1>. HIDE DEF p
<1>2. p.x \in Element
  BY <1>1 DEF AffinePoints
<1>3. p.x \in Nat
  BY <1>2, PrimeIs DEF Element
<1>4. ToCompressed(p) \in Seq(Byte) /\ Len(ToCompressed(p)) = 33
  BY <1>3, CompressedIs
<1>. QED
  BY <1>4 DEF p

\* The samples are strings of bytes.
LEMMA SamplesAre ==
    ASSUME NEW s \in Samples
    PROVE  s \in Seq(Byte)
<1>1. CASE s \in {[i \in 1 .. n |-> 255] : n \in 0 .. SampleLength}
  <2>1. PICK n \in 0 .. SampleLength : s = [i \in 1 .. n |-> 255]
    BY <1>1
  <2>2. n \in Nat
    BY SampleAssumption
  <2>3. 255 \in Byte
    BY DEF Byte
  <2>4. s \in [1 .. n -> Byte]
    BY <2>1, <2>3
  <2>. QED
    BY <2>2, <2>4
<1>2. CASE s \in {[i \in 1 .. n |-> IF i <= z THEN 0 ELSE (i * 41) % 256] :
                    n \in {1, 2, 3, 20, 25}, z \in 0 .. 3}
  <2>1. PICK n \in {1, 2, 3, 20, 25}, z \in 0 .. 3 :
               s = [i \in 1 .. n |-> IF i <= z THEN 0 ELSE (i * 41) % 256]
    BY <1>2
  <2>2. n \in Nat
    OBVIOUS
  <2>3. \A i \in 1 .. n : (IF i <= z THEN 0 ELSE (i * 41) % 256) \in Byte
    <3>. SUFFICES ASSUME NEW i \in 1 .. n PROVE (i * 41) % 256 \in Byte
      BY DEF Byte
    <3>. DEFINE v == i * 41
    <3>1. v \in Int
      OBVIOUS
    <3>. HIDE DEF v
    <3>2. v % 256 \in Byte
      BY <3>1 DEF Byte
    <3>. QED
      BY <3>2 DEF v
  <2>4. s \in [1 .. n -> Byte]
    BY <2>1, <2>3
  <2>. HIDE <2>1
  <2>. QED
    BY <2>2, <2>4
<1>. QED
  BY <1>1, <1>2 DEF Samples

\* Messages of every length are padded as the standards say, and the short forms of
\* the hashes agree with the general ones.
LEMMA HashesAreExact == HashesAreStandard
<1>1. ASSUME NEW data \in Samples
      PROVE  /\ IsPadded(Sha256State(data), data, BigEndian(8 * Len(data)))
             /\ IsPadded(Ripemd160State(data), data, LittleEndian(8 * Len(data)))
  BY SamplesAre, ShaStateIs, RipemdStateIs
<1>2. ASSUME NEW k \in Numbers
      PROVE  LET pubkey == ToCompressed(PublicKeyOf[k])
             IN  Hash160FromPubkey33(pubkey) = Hash160(pubkey)
  BY PubkeyIs, ShortHashIs
<1>. QED
  BY <1>1, <1>2 DEF HashesAreStandard

-----------------------------------------------------------------------------
(* The address *)

\* A string of bytes with its checksum.
LEMMA WithChecksumIs ==
    ASSUME NEW data \in Seq(Byte), NEW m \in Nat, Len(data) = m
    PROVE  /\ WithChecksum(data) \in Seq(Byte) /\ Len(WithChecksum(data)) = m + 4
           /\ SubSeq(WithChecksum(data), 1, m) = data
<1>. DEFINE h == DoubleSha256(data)
            k == 4
            c == SubSeq(h, 1, k)
            raw == data \o c
<1>1. WithChecksum(data) = raw
  BY DEF WithChecksum
<1>2. h \in Seq(Byte) /\ Len(h) = 32
  BY DoubleSha256Is
<1>. HIDE DEF h
<1>3. k \in Nat /\ k \in Int /\ 1 <= k /\ k - 1 + 1 = k /\ \A i \in 1 .. k : i \in 1 .. Len(h)
  BY <1>2
<1>. HIDE DEF k
<1>4. c \in Seq(Byte) /\ Len(c) = k
  <2>1. \A i \in 1 .. k : h[i] \in Byte
    BY <1>2, <1>3, ElementOfSeq
  <2>2. 1 \in Int
    OBVIOUS
  <2>3. c \in Seq(Byte) /\ Len(c) = IF 1 <= k THEN k - 1 + 1 ELSE 0
    BY <1>3, <2>1, <2>2, SubSeqProperties
  <2>. QED
    BY <1>3, <2>3
<1>. HIDE DEF c
<1>5. Follow(raw, data, c, Byte, m, k)
  BY <1>3, <1>4, Appended
<1>. HIDE DEF raw
<1>6. raw \in Seq(Byte) /\ Len(raw) = m + k /\ \A i \in 1 .. m : raw[i] = data[i]
  BY <1>5 DEF Follow
<1>7. SubSeq(raw, 1, m) = data
  <2>. DEFINE u == SubSeq(raw, 1, m)
  <2>1. \A i \in 1 .. m : raw[i] \in Byte
    BY <1>6, ElementOfSeq
  <2>2. 1 \in Int /\ m \in Int
    OBVIOUS
  <2>3. /\ u \in Seq(Byte) /\ Len(u) = IF 1 <= m THEN m - 1 + 1 ELSE 0
        /\ \A i \in 1 .. m - 1 + 1 : u[i] = raw[1 + i - 1]
    BY <2>1, <2>2, SubSeqProperties
  <2>. HIDE DEF u
  <2>4. Len(u) = m /\ m - 1 + 1 = m /\ \A i \in 1 .. m : 1 + i - 1 = i
    BY <2>3
  <2>5. \A i \in 1 .. m : u[i] = data[i]
    BY <1>6, <2>3, <2>4
  <2>6. u = data
    BY <2>3, <2>4, <2>5, SeqEqual
  <2>. QED
    BY <2>6 DEF u
<1>. QED
  BY <1>1, <1>6, <1>7 DEF k

\* What an address encodes: the version and the hash of the key, with their checksum.
LEMMA AddressIs ==
    ASSUME NEW pubkey \in Seq(Byte), Len(pubkey) = 33
    PROVE  LET data == <<0>> \o Hash160(pubkey)
               address == Pubkey33ToAddress(pubkey)
           IN  /\ data \in Seq(Byte) /\ Len(data) = 21
               /\ address \in Seq(Digit58) /\ Len(address) <= 194 /\ Len(address) \in Nat \ {0}
               /\ B58Decode(address) = WithChecksum(data)
<1>. DEFINE h == Hash160(pubkey)
            o == <<0>>
            u == 1
            k == 20
            m == 21
            data == o \o h
            raw == WithChecksum(data)
            address == Pubkey33ToAddress(pubkey)
<1>1. h \in Seq(Byte) /\ Len(h) = k
  BY Hash160Is
<1>2. Hash160FromPubkey33(pubkey) = h
  BY ShortHashIs
<1>3. address = B58Encode(raw)
  BY <1>2 DEF Pubkey33ToAddress, B58CheckEncode, P2PKH_MAINNET_VERSION
<1>. HIDE DEF h, address
<1>4. o \in Seq(Byte) /\ Len(o) = u /\ o[1] = 0
  <2>1. 0 \in Byte
    BY DEF Byte
  <2>. QED
    BY <2>1
<1>5. u \in Nat /\ k \in Nat /\ m \in Nat /\ u + k = m /\ m + 4 = 25
  OBVIOUS
<1>. HIDE DEF o, k, m, u
<1>6. Follow(data, o, h, Byte, u, k)
  BY <1>1, <1>4, <1>5, Appended
<1>. HIDE DEF data
<1>7. data \in Seq(Byte) /\ Len(data) = m /\ data[1] = 0
  <2>1. /\ data \in Seq(Byte) /\ Len(data) = u + k
        /\ \A j \in 1 .. u : data[j] = o[j]
    BY <1>6 DEF Follow
  <2>2. 1 \in 1 .. u
    BY DEF u
  <2>. QED
    BY <1>4, <1>5, <2>1, <2>2
<1>8. raw \in Seq(Byte) /\ Len(raw) = m + 4 /\ SubSeq(raw, 1, m) = data
  BY <1>5, <1>7, WithChecksumIs
<1>. HIDE DEF raw
<1>9. raw[1] = 0
  <2>1. \A i \in 1 .. m : raw[i] \in Byte
    <3>1. \A i \in 1 .. m : i \in 1 .. Len(raw)
      BY <1>5, <1>8
    <3>. QED
      BY <1>8, <3>1, ElementOfSeq
  <2>2. 1 \in Int /\ m \in Int /\ 1 \in 1 .. m - 1 + 1 /\ 1 + 1 - 1 = 1
    BY DEF m
  <2>3. \A i \in 1 .. m - 1 + 1 : SubSeq(raw, 1, m)[i] = raw[1 + i - 1]
    BY <2>1, <2>2, SubSeqProperties
  <2>4. SubSeq(raw, 1, m)[1] = raw[1]
    BY <2>2, <2>3
  <2>. QED
    BY <1>7, <1>8, <2>4
<1>10. raw \in Seq(Byte256) /\ Len(raw) <= 128 /\ raw # <<>>
  <2>1. Byte = Byte256
    BY DEF Byte, Byte256
  <2>2. Len(raw) = 25
    BY <1>5, <1>8
  <2>3. raw \in Seq(Byte256)
    BY <1>8, <2>1
  <2>4. Len(raw) <= 128
    BY <2>2
  <2>5. raw # <<>>
    <3>1. Len(<<>>) = 0
      OBVIOUS
    <3>2. CASE raw = <<>>
      <4>1. Len(raw) = Len(<<>>)
        BY <3>2, Zenon
      <4>. QED
        BY <2>2, <3>1, <4>1
    <3>. QED
      BY <3>2
  <2>. QED
    BY <2>3, <2>4, <2>5
<1>11. /\ address \in Seq(Digit58) /\ Len(address) <= 194
       /\ B58Decode(address) = raw
       /\ address # <<>>
  BY <1>3, <1>9, <1>10, DecodesBack
<1>12. Len(address) \in Nat \ {0}
  BY <1>11
<1>13. Len(data) = 21
  BY <1>7 DEF m
<1>. QED
  BY <1>7, <1>11, <1>12, <1>13 DEF data, raw, address, h, o

\* An altered string is another one of the same kind.
LEMMA AlteredIs ==
    ASSUME NEW s \in Seq(Digit58), Len(s) \in Nat \ {0}, NEW k \in Nat
    PROVE  Altered(s, k) \in Seq(Digit58) /\ Len(Altered(s, k)) = Len(s) /\ Altered(s, k) # s
<1>. DEFINE n == Len(s)
            i == (k % n) + 1
            c == s[i]
            w == k % 57
            v == (c + 1 + w) % 58
            t == [s EXCEPT ![i] = v]
<1>1. Altered(s, k) = t
  BY DEF Altered
<1>2. n \in Nat \ {0} /\ s \in [1 .. n -> Digit58]
  OBVIOUS
<1>. HIDE DEF n
<1>3. k % n \in 0 .. n - 1
  BY <1>2, Divides
<1>4. i \in 1 .. n
  BY <1>2, <1>3
<1>. HIDE DEF i
<1>5. c \in Digit58
  BY <1>2, <1>4
<1>6. w \in 0 .. 56
  OBVIOUS
<1>. HIDE DEF c, w
<1>7. v \in Digit58 /\ v # c
  <2>1. c \in 0 .. 57
    BY <1>5 DEF Digit58
  <2>2. v = IF c + 1 + w < 58 THEN c + 1 + w ELSE c + 1 + w - 58
    BY <1>6, <2>1
  <2>3. v \in 0 .. 57 /\ v # c
    BY <1>6, <2>1, <2>2
  <2>. QED
    BY <2>3 DEF Digit58
<1>. HIDE DEF v
<1>8. t \in [1 .. n -> Digit58] /\ t[i] = v
  BY <1>2, <1>4, <1>7
<1>. HIDE DEF t
<1>9. t \in Seq(Digit58) /\ Len(t) = n
  BY <1>2, <1>8
<1>10. t # s
  BY <1>7, <1>8 DEF c
<1>. QED
  BY <1>1, <1>9, <1>10 DEF n

\* Encoding samples and decoding them gives them back.
LEMMA SamplesComeBack ==
    ASSUME NEW bytes \in Samples, Len(bytes) <= 25
    PROVE  B58Encode(bytes) # Panic /\ B58Decode(B58Encode(bytes)) = bytes
<1>1. Byte = Byte256 /\ Digit58 \subseteq Byte
  BY DEF Byte, Byte256, Digit58
<1>2. bytes \in Seq(Byte256) /\ Len(bytes) <= 128
  <2>1. bytes \in Seq(Byte)
    BY SamplesAre
  <2>2. Len(bytes) \in Nat
    BY <2>1
  <2>3. Len(bytes) <= 128
    BY <2>2
  <2>. QED
    BY <1>1, <2>1, <2>3
<1>3. B58Encode(bytes) \in Seq(Digit58) /\ B58Decode(B58Encode(bytes)) = bytes
  BY <1>2, DecodesBack
<1>. DEFINE s == B58Encode(bytes)
<1>. HIDE DEF s
<1>4. s \in Seq(Digit58)
  BY <1>3 DEF s
<1>5. s \in Seq(Byte)
  <2>1. Len(s) \in Nat /\ s \in [1 .. Len(s) -> Digit58]
    BY <1>4, LenProperties
  <2>. DEFINE l == Len(s)
  <2>. HIDE DEF l
  <2>2. l \in Nat /\ s \in [1 .. l -> Digit58]
    BY <2>1 DEF l
  <2>3. s \in [1 .. l -> Byte]
    BY <1>1, <2>2
  <2>. QED
    BY <2>2, <2>3
<1>6. s # Panic
  BY <1>5, PanicAssumption
<1>. QED
  BY <1>3, <1>6 DEF s

\* Decoding an address gives the version and the hash of its key.
LEMMA AddressComesBack ==
    ASSUME NEW pubkey \in Seq(Byte), Len(pubkey) = 33
    PROVE  B58CheckDecode(Pubkey33ToAddress(pubkey)) = <<0>> \o Hash160(pubkey)
<1>. DEFINE data == <<0>> \o Hash160(pubkey)
            address == Pubkey33ToAddress(pubkey)
            raw == WithChecksum(data)
            m == 21
<1>1. data \in Seq(Byte) /\ Len(data) = m /\ B58Decode(address) = raw
  BY AddressIs
<1>2. m \in Nat /\ m + 4 - 4 = m /\ m + 4 >= 5
  OBVIOUS
<1>. HIDE DEF data, address, m
<1>3. Len(raw) = m + 4 /\ SubSeq(raw, 1, m) = data
  BY <1>1, <1>2, WithChecksumIs
<1>. DEFINE r == B58Decode(address)
<1>4. r = raw /\ Len(r) - 4 = m /\ Len(r) >= 5
  BY <1>1, <1>2, <1>3
<1>. HIDE DEF r
<1>5. SubSeq(r, 1, Len(r) - 4) = data
  BY <1>3, <1>4
<1>6. ChecksumMatches(r)
  BY <1>4, <1>5 DEF ChecksumMatches
<1>7. B58CheckDecode(address) = data
  BY <1>5, <1>6 DEF B58CheckDecode, r
<1>. QED
  BY <1>7 DEF data, address

\* It is refused when a character has changed.
LEMMA AlteredIsRefused ==
    ASSUME ChecksumsTell, NEW k \in Keys
    PROVE  B58CheckDecode(Altered(Pubkey33ToAddress(ToCompressed(PublicKeyOf[k])), k)) = <<>>
<1>. DEFINE pubkey == ToCompressed(PublicKeyOf[k])
            data == <<0>> \o Hash160(pubkey)
            address == Pubkey33ToAddress(pubkey)
            s == Altered(address, k)
            r == B58Decode(s)
<1>1. k \in Numbers /\ k \in Nat
  BY KeysAreNumbers
<1>2. pubkey \in Seq(Byte) /\ Len(pubkey) = 33
  BY <1>1, PubkeyIs
<1>3. ChecksumMatches(r) => SubSeq(r, 1, Len(r) - 4) = data
  BY DEF ChecksumsTell
<1>. HIDE DEF pubkey
<1>4. /\ address \in Seq(Digit58) /\ Len(address) <= 194 /\ Len(address) \in Nat \ {0}
      /\ B58Decode(address) = WithChecksum(data)
  BY <1>2, AddressIs
<1>. HIDE DEF data, address
<1>5. s \in Seq(Digit58) /\ Len(s) = Len(address) /\ s # address
  BY <1>1, <1>4, AlteredIs
<1>. HIDE DEF s
<1>6. r # WithChecksum(data)
  <2>. SUFFICES ASSUME r = WithChecksum(data) PROVE s = address
    BY <1>5
  <2>1. B58Decode(s) = B58Decode(address)
    BY <1>4
  <2>2. Len(s) <= 194
    BY <1>4, <1>5
  <2>. QED
    BY <1>4, <1>5, <2>1, <2>2, DecodesApart
<1>7. ~ChecksumMatches(r)
  BY <1>3, <1>6 DEF ChecksumMatches
<1>8. B58CheckDecode(s) = <<>>
  BY <1>7 DEF B58CheckDecode
<1>. QED
  BY <1>8 DEF s, address, pubkey

\* The target is a number.
TargetInv == target \in Targets

\* What a hit is verified with is the address of the target's key: messages of every
\* length are padded as the standards say, the short hashes are the general ones, the
\* digits fit their buffers, an address gives back the hash that it was made of, and is
\* refused when a character has changed, if an altered one has no checksum of its own:
\* for every curve, every range of keys and every length of the samples.
THEOREM AddressIsExactAlways ==
    ASSUME ChecksumsTell
    PROVE  SearchSpec => []AddressIsExact
<1>1. HashesAreStandard
  BY HashesAreExact
<1>2. Base58IsExact
  <2>1. ASSUME NEW bytes \in {s \in Samples : Len(s) <= 25}
        PROVE  B58Encode(bytes) # Panic /\ B58Decode(B58Encode(bytes)) = bytes
    BY SamplesComeBack
  <2>2. ASSUME NEW k \in Keys
        PROVE  LET pubkey == ToCompressed(PublicKeyOf[k])
                   address == Pubkey33ToAddress(pubkey)
               IN  /\ B58CheckDecode(address) = <<0>> \o Hash160(pubkey)
                   /\ B58CheckDecode(Altered(address, k)) = <<>>
    <3>1. ToCompressed(PublicKeyOf[k]) \in Seq(Byte) /\ Len(ToCompressed(PublicKeyOf[k])) = 33
      BY KeysAreNumbers, PubkeyIs
    <3>2. B58CheckDecode(Pubkey33ToAddress(ToCompressed(PublicKeyOf[k])))
            = <<0>> \o Hash160(ToCompressed(PublicKeyOf[k]))
      BY <3>1, AddressComesBack
    <3>3. B58CheckDecode(Altered(Pubkey33ToAddress(ToCompressed(PublicKeyOf[k])), k)) = <<>>
      BY AlteredIsRefused
    <3>. QED
      BY <3>2, <3>3
  <2>. QED
    BY <2>1, <2>2 DEF Base58IsExact
<1>3. SearchInit => TargetInv
  BY DEF SearchInit, TargetInv
<1>4. TargetInv /\ [SearchNext]_allVars => TargetInv'
  <2>. SUFFICES ASSUME TargetInv, [SearchNext]_allVars PROVE target' = target
    BY DEF TargetInv
  <2>. QED
    BY DEF SearchNext, TestCpu, TestGpu, SelectBlock, Dispatch, Compare, FindNothing, FindKey,
           DispatchFails, EndDispatch, Commit, Restart, allVars, searchVars
<1>5. TargetInv => AddressIsExact
  <2>. SUFFICES ASSUME TargetInv
                PROVE  B58CheckDecode(Pubkey33ToAddress(ToCompressed(PublicKeyOf[target])))
                         = <<0>> \o TargetHash
    BY <1>1, <1>2, Zenon DEF AddressIsExact
  <2>. DEFINE pubkey == ToCompressed(PublicKeyOf[target])
  <2>1. target \in Numbers
    BY TargetAssumption DEF TargetInv
  <2>2. pubkey \in Seq(Byte) /\ Len(pubkey) = 33
    BY <2>1, PubkeyIs
  <2>3. TargetHash = Hash160FromPubkey33(pubkey)
    BY <2>1, HashesAre DEF TargetHash
  <2>. HIDE DEF pubkey
  <2>4. B58CheckDecode(Pubkey33ToAddress(pubkey)) = <<0>> \o Hash160(pubkey)
    BY <2>2, AddressComesBack
  <2>5. Hash160FromPubkey33(pubkey) = Hash160(pubkey)
    BY <2>2, ShortHashIs
  <2>. QED
    BY <2>3, <2>4, <2>5 DEF pubkey
<1>. QED
  BY <1>3, <1>4, <1>5, PTL DEF SearchSpec

=============================================================================
