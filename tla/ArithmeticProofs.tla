-------------------------- MODULE ArithmeticProofs --------------------------
(***************************************************************************)
(* From the limbs of an integer to the points that a dispatch compares, for *)
(* every number and width of the limbs, every prime a little below a power  *)
(* of two, every curve of that form and every grid:                         *)
(*                                                                         *)
(* - the points: integers as elements of the field, the inversion shared by *)
(*   a batch, the chord and tangent rule, the sums and doublings, the       *)
(*   multiples of the generator, the walks and batches of a dispatch;       *)
(* - the limbs: what they amount to, their carries and borrows, the product *)
(*   of two numbers and its reduction, powers and inverses, bytes;          *)
(* - the curve: every multiple of the generator is on it, and the scan of   *)
(*   the CPU finds the keys that it is told the hash of.                    *)
(***************************************************************************)
EXTENDS BlockSearch, FiniteSetTheorems, SequenceTheorems, WellFoundedInduction, TLAPS

-----------------------------------------------------------------------------
(* Numbers *)

\* A set of natural numbers that is not empty has a least element.
LEMMA LeastExists ==
    ASSUME NEW T, T \subseteq Nat, T # {}
    PROVE  \E n \in T : \A m \in T : n <= m
<1>. DEFINE R == OpToRel(<, Nat)
<1>1. IsWellFoundedOn(R, Nat)
  BY NatLessThanWellFounded
<1>2. \A m, n \in Nat : m < n => <<m, n>> \in R
  BY DEF OpToRel
<1>. HIDE DEF R
<1>3. \E n \in T : \A m \in T : ~ (<<m, n>> \in R)
  BY <1>1, WFMin
<1>4. PICK n \in T : \A m \in T : ~ (<<m, n>> \in R)
  BY <1>3
<1>5. \A m \in T : ~ (m < n)
  BY <1>2, <1>4
<1>6. \A m \in T : n <= m
  BY <1>5
<1>. QED
  BY <1>6

\* Division with remainder.
LEMMA Divides ==
    ASSUME NEW v \in Nat, NEW r \in Nat \ {0}
    PROVE  /\ v \div r \in Nat /\ v % r \in 0 .. r - 1
           /\ v = (v \div r) * r + (v % r)
           /\ v - (v % r) = (v \div r) * r
OBVIOUS

\* The remainder is the only one.
LEMMA RemainderIs ==
    ASSUME NEW r \in Nat \ {0}, NEW m \in 0 .. r - 1, NEW q \in Nat
    PROVE  (q * r + m) % r = m
OBVIOUS

\* What is below a multiple stays below it with any remainder.
LEMMA MultiplesAreApart ==
    ASSUME NEW r \in Nat \ {0}, NEW a \in Nat, NEW b \in Nat, a * r < b * r
    PROVE  a * r + r <= b * r
OBVIOUS

\* A product that is not smaller has a factor that is not smaller.
LEMMA FactorsAreOrdered ==
    ASSUME NEW r \in Nat \ {0}, NEW a \in Nat, NEW b \in Nat, b <= a
    PROVE  b * r <= a * r
OBVIOUS

\* A factor more adds the other once.
LEMMA NextMultiple ==
    ASSUME NEW r \in Nat, NEW a \in Nat
    PROVE  a * r \in Nat /\ (a + 1) * r = a * r + r
OBVIOUS

-----------------------------------------------------------------------------
(* Recursive functions over the numbers from 0 to n *)

\* Induction up to a number.
LEMMA InductionTo ==
    ASSUME NEW n \in Nat, NEW T, 0 \in T, \A i \in 1 .. n : i - 1 \in T => i \in T
    PROVE  \A i \in 0 .. n : i \in T
<1>. DEFINE rest == {i \in 0 .. n : i \notin T}
<1>1. ASSUME NEW m \in rest, \A k \in rest : m <= k PROVE FALSE
  <2>1. m \in 1 .. n /\ m - 1 \in 0 .. n /\ ~ (m <= m - 1)
    BY <1>1
  <2>2. m - 1 \notin rest
    BY <1>1, <2>1
  <2>. QED
    BY <1>1, <2>1, <2>2
<1>2. rest = {}
  <2>1. rest \subseteq Nat
    OBVIOUS
  <2>. HIDE DEF rest
  <2>2. rest # {} => \E m \in rest : \A k \in rest : m <= k
    BY <2>1, LeastExists
  <2>. QED
    BY <1>1, <2>2
<1>. QED
  BY <1>2

\* Each value follows from the one before it.
Follows(f, base, op, n) ==
    f[0] = base /\ \A i \in 1 .. n : f[i] = op[<<f[i - 1], i>>]

\* There is a function whose values follow one from another.
LEMMA RecursionExists ==
    ASSUME NEW n \in Nat, NEW S, NEW base \in S, NEW op \in [S \X (1 .. n) -> S]
    PROVE  \E f \in [0 .. n -> S] : Follows(f, base, op, n)
<1>. DEFINE Has(m) == \E f \in [0 .. m -> S] : Follows(f, base, op, m)
            T == {m \in 0 .. n : Has(m)}
<1>1. 0 \in T
  <2>. DEFINE f == [i \in 0 .. 0 |-> base]
  <2>1. f \in [0 .. 0 -> S] /\ Follows(f, base, op, 0)
    BY DEF Follows
  <2>2. Has(0)
    BY <2>1
  <2>. HIDE DEF Has
  <2>. QED
    BY <2>2
<1>2. ASSUME NEW m \in 1 .. n, m - 1 \in T PROVE m \in T
  <2>1. PICK f \in [0 .. m - 1 -> S] : Follows(f, base, op, m - 1)
    BY <1>2
  <2>. DEFINE g == [i \in 0 .. m |-> IF i = m THEN op[<<f[m - 1], m>>] ELSE f[i]]
  <2>2. g \in [0 .. m -> S]
    <3>1. f[m - 1] \in S /\ op[<<f[m - 1], m>>] \in S
      BY <2>1
    <3>2. \A i \in 0 .. m : i # m => f[i] \in S
      BY <2>1
    <3>. QED
      BY <3>1, <3>2
  <2>3. g[0] = base
    BY <2>1 DEF Follows
  <2>4. ASSUME NEW i \in 1 .. m PROVE g[i] = op[<<g[i - 1], i>>]
    <3>1. g[i - 1] = f[i - 1]
      OBVIOUS
    <3>2. i # m => g[i] = f[i] /\ f[i] = op[<<f[i - 1], i>>]
      BY <2>1 DEF Follows
    <3>. HIDE DEF g
    <3>3. i = m => g[i] = op[<<f[m - 1], m>>]
      BY DEF g
    <3>. QED
      BY <3>1, <3>2, <3>3
  <2>. HIDE DEF g
  <2>5. Follows(g, base, op, m)
    BY <2>3, <2>4 DEF Follows
  <2>6. Has(m)
    BY <2>2, <2>5
  <2>. HIDE DEF Has
  <2>. QED
    BY <2>6
<1>3. n \in T
  <2>. HIDE DEF T
  <2>. QED
    BY <1>1, <1>2, InductionTo
<1>. QED
  BY <1>3

\* Two functions whose values follow from one another in the same way are the same.
StepsAlike(f, g, n) ==
    g[0] = f[0] /\ \A i \in 1 .. n : g[i - 1] = f[i - 1] => g[i] = f[i]

Alike(f, g, n) == \A i \in 0 .. n : g[i] = f[i]

\* Equal at the start, they stay equal.
LEMMA RecursionIsUnique ==
    ASSUME NEW n \in Nat, NEW f, NEW g, StepsAlike(f, g, n)
    PROVE  Alike(f, g, n)
<1>. DEFINE T == {i \in 0 .. n : g[i] = f[i]}
<1>1. 0 \in T
  BY DEF StepsAlike
<1>2. \A i \in 1 .. n : i - 1 \in T => i \in T
  BY DEF StepsAlike
<1>. HIDE DEF T
<1>3. \A i \in 0 .. n : i \in T
  BY <1>1, <1>2, InductionTo
<1>. QED
  BY <1>3 DEF T, Alike

\* A power is one factor more than the power before it.
LEMMA PowerUnfolds ==
    ASSUME NEW b \in Nat, NEW n \in Nat
    PROVE  \E f \in [0 .. n -> Nat] :
             f[0] = 1 /\ (\A i \in 1 .. n : f[i] = f[i - 1] * b) /\ Power(b, n) = f[n]
<1>. DEFINE op == [p \in Nat \X (1 .. n) |-> p[1] * b]
            Loop(it, i) == IF i = 0 THEN 1 ELSE it[i - 1] * b
            Loops(it) == it = [i \in 0 .. n |-> Loop(it, i)]
            g == CHOOSE it : Loops(it)
<1>1. PICK f \in [0 .. n -> Nat] : Follows(f, 1, op, n)
  <2>1. op \in [Nat \X (1 .. n) -> Nat]
    OBVIOUS
  <2>. HIDE DEF op
  <2>. QED
    BY <2>1, RecursionExists
<1>2. f[0] = 1 /\ \A i \in 1 .. n : f[i] = f[i - 1] * b
  <2>1. \A x \in Nat, i \in 1 .. n : op[<<x, i>>] = x * b
    OBVIOUS
  <2>2. \A i \in 1 .. n : f[i - 1] \in Nat
    BY <1>1
  <2>. HIDE DEF op
  <2>. QED
    BY <1>1, <2>1, <2>2 DEF Follows
<1>3. Loops(f)
  BY <1>2
<1>4. Loops(g)
  <2>. HIDE DEF Loops
  <2>. QED
    BY <1>3, Zenon
<1>5. Power(b, n) = g[n]
  BY Zenon DEF Power
<1>6. Alike(f, g, n)
  <2>. HIDE DEF g
  <2>1. StepsAlike(f, g, n)
    BY <1>2, <1>4, SMTT(30) DEF StepsAlike
  <2>. QED
    BY <2>1, RecursionIsUnique
<1>7. n \in 0 .. n
  OBVIOUS
<1>. QED
  BY <1>1, <1>2, <1>5, <1>6, <1>7 DEF Alike

\* The powers of a number, from the first one on.
LEMMA PowerIs ==
    ASSUME NEW b \in Nat
    PROVE  /\ Power(b, 0) = 1
           /\ \A n \in Nat : Power(b, n) \in Nat /\ Power(b, n + 1) = Power(b, n) * b
<1>1. Power(b, 0) = 1
  BY PowerUnfolds
<1>2. ASSUME NEW n \in Nat
      PROVE  Power(b, n) \in Nat /\ Power(b, n + 1) = Power(b, n) * b
  <2>1. PICK f \in [0 .. n + 1 -> Nat] :
          f[0] = 1 /\ (\A i \in 1 .. n + 1 : f[i] = f[i - 1] * b) /\ Power(b, n + 1) = f[n + 1]
    <3>1. n + 1 \in Nat
      OBVIOUS
    <3>. QED
      BY <3>1, PowerUnfolds
  <2>2. PICK g \in [0 .. n -> Nat] :
          g[0] = 1 /\ (\A i \in 1 .. n : g[i] = g[i - 1] * b) /\ Power(b, n) = g[n]
    BY PowerUnfolds
  <2>3. Alike(f, g, n)
    <3>1. StepsAlike(f, g, n)
      BY <2>1, <2>2 DEF StepsAlike
    <3>. QED
      BY <3>1, RecursionIsUnique
  <2>4. n \in 0 .. n /\ n + 1 \in 1 .. n + 1 /\ n + 1 - 1 = n
    OBVIOUS
  <2>. QED
    BY <2>1, <2>2, <2>3, <2>4 DEF Alike
<1>. QED
  BY <1>1, <1>2

\* A power with a smaller exponent is not larger.
LEMMA PowerGrows ==
    ASSUME NEW b \in Nat \ {0}, NEW m \in Nat, NEW n \in Nat, m <= n
    PROVE  Power(b, m) \in Nat \ {0} /\ Power(b, m) <= Power(b, n)
<1>1. \A k \in Nat : Power(b, k) \in Nat /\ Power(b, k + 1) = Power(b, k) * b
  BY PowerIs
<1>. DEFINE T == {k \in 0 .. n : Power(b, k) > 0}
            U == {k \in 0 .. n - m : Power(b, m + k) >= Power(b, m)}
<1>2. ASSUME NEW x \in Nat PROVE x * b >= x /\ (x > 0 => x * b > 0)
  OBVIOUS
<1>3. Power(b, m) > 0
  <2>1. 0 \in T
    BY PowerIs
  <2>2. ASSUME NEW i \in 1 .. n, i - 1 \in T PROVE i \in T
    <3>1. i - 1 \in Nat /\ i - 1 + 1 = i
      OBVIOUS
    <3>2. Power(b, i) = Power(b, i - 1) * b /\ Power(b, i - 1) \in Nat
      BY <1>1, <3>1
    <3>. HIDE <1>1
    <3>. QED
      BY <1>2, <2>2, <3>2
  <2>. HIDE DEF T
  <2>3. \A i \in 0 .. n : i \in T
    BY <2>1, <2>2, InductionTo
  <2>. QED
    BY <2>3 DEF T
<1>4. Power(b, n) >= Power(b, m)
  <2>1. 0 \in U
    BY <1>1
  <2>2. ASSUME NEW i \in 1 .. n - m, i - 1 \in U PROVE i \in U
    <3>1. m + (i - 1) \in Nat /\ m + (i - 1) + 1 = m + i
      OBVIOUS
    <3>2. Power(b, m + i) = Power(b, m + (i - 1)) * b /\ Power(b, m + (i - 1)) \in Nat
      BY <1>1, <3>1
    <3>3. Power(b, m + (i - 1)) >= Power(b, m) /\ Power(b, m) \in Nat
      BY <1>1, <2>2
    <3>4. Power(b, m + i) >= Power(b, m + (i - 1)) /\ Power(b, m + i) \in Nat
      <4>1. m + i \in Nat
        OBVIOUS
      <4>. QED
        BY <1>1, <1>2, <3>2, <4>1
    <3>. QED
      BY <3>2, <3>3, <3>4
  <2>. HIDE DEF U
  <2>3. \A i \in 0 .. n - m : i \in U
    <3>1. n - m \in Nat
      OBVIOUS
    <3>. QED
      BY <2>1, <2>2, <3>1, InductionTo, Zenon
  <2>4. n - m \in 0 .. n - m /\ m + (n - m) = n
    OBVIOUS
  <2>. QED
    BY <2>3, <2>4 DEF U
<1>. QED
  BY <1>1, <1>3, <1>4

-----------------------------------------------------------------------------
(* The field, on numbers *)

\* A limb has two bits at least, and the prime is larger than its factor.
LEMMA PrimeIs ==
    /\ Limbs \in Nat \ {0} /\ LimbBits \in Nat \ {0} /\ Factor \in Nat \ {0}
    /\ Base \in Nat /\ Base > 3 /\ Factor < Base
    /\ Power(Base, Limbs) \in Nat /\ Power(Base, Limbs) >= Base * Base
    /\ Prime \in Nat /\ Prime > 7 /\ Power(Base, Limbs) = Prime + Factor
<1>1. /\ Limbs \in Nat /\ Limbs > 1 /\ LimbBits \in Nat /\ LimbBits > 1
  BY LimbAssumption
<1>2. Power(2, 2) = 4
  BY PowerIs
<1>3. Base \in Nat /\ Base > 3
  <2>1. 2 \in Nat /\ 2 \in Nat \ {0} /\ 2 <= LimbBits
    BY <1>1
  <2>2. Power(2, 2) <= Power(2, LimbBits) /\ Power(2, LimbBits) \in Nat
    BY <1>1, <2>1, PowerGrows, PowerIs, Zenon
  <2>. QED
    BY <1>2, <2>2 DEF Base
<1>0. Factor \in Nat \ {0} /\ Factor < Base
  BY <1>3, LimbAssumption
<1>4. Power(Base, 2) = Base * Base
  <2>1. Power(Base, 0) = 1 /\ Power(Base, 1) = Power(Base, 0) * Base
        /\ Power(Base, 2) = Power(Base, 1) * Base
    BY <1>3, PowerIs
  <2>. QED
    BY <1>3, <2>1
<1>5. Power(Base, Limbs) \in Nat /\ Power(Base, Limbs) >= Base * Base
  <2>1. Power(Base, 2) <= Power(Base, Limbs)
    BY <1>1, <1>3, PowerGrows
  <2>2. Power(Base, Limbs) \in Nat
    BY <1>1, <1>3, PowerIs
  <2>. QED
    BY <1>3, <1>4, <2>1, <2>2
<1>6. ASSUME NEW x \in Nat, NEW y \in Nat, NEW z \in Nat, x > 3, y < x, z >= x * x
      PROVE  z - y \in Nat /\ z - y > 7
  <2>1. x * x >= 4 * x
    BY <1>6
  <2>. QED
    BY <1>6, <2>1
<1>7. Prime \in Nat /\ Prime > 7 /\ Power(Base, Limbs) = Prime + Factor
  <2>1. Prime = Power(Base, Limbs) - Factor
    BY DEF Prime
  <2>. HIDE <1>6
  <2>2. Prime \in Nat /\ Prime > 7
    BY <1>0, <1>1, <1>3, <1>5, <1>6, <2>1
  <2>. QED
    BY <1>0, <1>1, <1>5, <2>1, <2>2
<1>. QED
  BY <1>0, <1>1, <1>3, <1>5, <1>7

-----------------------------------------------------------------------------
(* Arithmetic modulo a number *)

\* Division of any integer, with the remainder of the language.
LEMMA DividesInt ==
    ASSUME NEW v \in Int, NEW r \in Nat \ {0}
    PROVE  v \div r \in Int /\ v % r \in 0 .. r - 1 /\ v = (v \div r) * r + (v % r)
OBVIOUS

\* The remainder is the only one.
LEMMA RemainderOfInt ==
    ASSUME NEW r \in Nat \ {0}, NEW m \in 0 .. r - 1, NEW q \in Int
    PROVE  (q * r + m) % r = m
OBVIOUS

\* Numbers that differ by a multiple leave the same remainder.
LEMMA SameRemainder ==
    ASSUME NEW r \in Nat \ {0}, NEW x \in Int, NEW q \in Int
    PROVE  (q * r + x) % r = x % r
<1>. DEFINE k == x \div r
            m == x % r
<1>1. k \in Int /\ m \in 0 .. r - 1 /\ x = k * r + m
  BY DividesInt
<1>. HIDE DEF k, m
<1>2. q * r + x = (q + k) * r + m /\ q + k \in Int
  BY <1>1
<1>3. ((q + k) * r + m) % r = m
  BY <1>1, <1>2, RemainderOfInt
<1>. QED
  BY <1>2, <1>3 DEF m

\* A product can be reduced in a factor first.
LEMMA ReducedFactor ==
    ASSUME NEW r \in Nat \ {0}, NEW x \in Int, NEW y \in Int
    PROVE  ((x % r) * y) % r = (x * y) % r
<1>. DEFINE k == x \div r
            m == x % r
<1>1. k \in Int /\ m \in Int /\ x = k * r + m
  BY DividesInt
<1>. HIDE DEF k, m
<1>2. x * y = (k * y) * r + m * y /\ k * y \in Int /\ m * y \in Int
  BY <1>1
<1>3. ((k * y) * r + m * y) % r = (m * y) % r
  BY <1>2, SameRemainder
<1>. QED
  BY <1>2, <1>3 DEF m

\* A sum can be reduced in a term first.
LEMMA ReducedTerm ==
    ASSUME NEW r \in Nat \ {0}, NEW x \in Int, NEW y \in Int
    PROVE  ((x % r) + y) % r = (x + y) % r /\ (y - (x % r)) % r = (y - x) % r
<1>. DEFINE k == x \div r
            m == x % r
<1>1. k \in Int /\ m \in Int /\ x = k * r + m
  BY DividesInt
<1>. HIDE DEF k, m
<1>2. x + y = k * r + (m + y) /\ m + y \in Int
      /\ y - x = (-k) * r + (y - m) /\ y - m \in Int /\ -k \in Int
  BY <1>1
<1>3. (k * r + (m + y)) % r = (m + y) % r /\ ((-k) * r + (y - m)) % r = (y - m) % r
  BY <1>1, <1>2, SameRemainder
<1>. QED
  BY <1>2, <1>3 DEF m

-----------------------------------------------------------------------------
(* The numbers modulo the prime, under Times *)

\* Elements multiply like numbers.
LEMMA TimesIs ==
    ASSUME NEW a \in Element, NEW b \in Element, NEW c \in Element
    PROVE  /\ Times(a, b) \in Element
           /\ Times(a, b) = Times(b, a)
           /\ Times(a, Times(b, c)) = Times(Times(a, b), c)
           /\ Times(a, 1) = a /\ Times(a, 0) = 0 /\ 1 \in Element /\ 0 \in Element
<1>1. Prime \in Nat \ {0} /\ Prime > 7
  BY PrimeIs
<1>2. a \in 0 .. Prime - 1 /\ b \in 0 .. Prime - 1 /\ c \in 0 .. Prime - 1
  BY DEF Element
<1>3. a \in Nat /\ b \in Nat /\ c \in Nat /\ a * b \in Nat /\ b * c \in Nat
      /\ a * b = b * a /\ a * (b * c) = (a * b) * c /\ (b * c) * a = a * (b * c)
  BY <1>2
<1>. HIDE DEF Element
<1>4. (a * b) % Prime \in 0 .. Prime - 1
  BY <1>1, <1>3, DividesInt
<1>5. (((b * c) % Prime) * a) % Prime = ((b * c) * a) % Prime
      /\ (((a * b) % Prime) * c) % Prime = ((a * b) * c) % Prime
  <2>1. a * b \in Int /\ b * c \in Int /\ a \in Int /\ c \in Int
    BY <1>3
  <2>2. (((b * c) % Prime) * a) % Prime = ((b * c) * a) % Prime
    BY <1>1, <2>1, ReducedFactor, Zenon
  <2>3. (((a * b) % Prime) * c) % Prime = ((a * b) * c) % Prime
    BY <1>1, <2>1, ReducedFactor, Zenon
  <2>. QED
    BY <2>2, <2>3
<1>6. a * ((b * c) % Prime) = ((b * c) % Prime) * a
  <2>1. (b * c) % Prime \in Int
    BY <1>1, <1>3, DividesInt
  <2>. QED
    BY <1>3, <2>1
<1>7. a % Prime = a /\ 0 % Prime = 0
  BY <1>1, <1>2
<1>8. a * 1 = a /\ a * 0 = 0
  BY <1>3
<1>. HIDE DEF Prime
<1>9. Times(a, b) \in Element /\ Times(a, b) = Times(b, a)
      /\ Times(a, Times(b, c)) = Times(Times(a, b), c)
  BY <1>3, <1>4, <1>5, <1>6 DEF Times, Element
<1>10. Times(a, 1) = a /\ Times(a, 0) = 0
  BY <1>7, <1>8 DEF Times
<1>11. 1 \in Element /\ 0 \in Element
  BY <1>1 DEF Element
<1>. QED
  BY <1>9, <1>10, <1>11

\* Every element but 0 has one inverse, and a product with it undoes a product
\* (field_inv).
LEMMA InverseIs ==
    ASSUME NEW a \in Element \ {0}
    PROVE  /\ Inverted(a) \in Element \ {0} /\ Times(a, Inverted(a)) = 1
           /\ \A x \in Element : Times(a, x) = 1 => x = Inverted(a)
           /\ \A x, y \in Element : Times(a, x) = Times(a, y) => x = y
<1>1. a \in Element /\ 0 \in Element /\ 1 \in Element
  BY TimesIs
<1>2. \E x \in Element : Times(a, x) = 1
  BY FieldAssumption
<1>3. Inverted(a) \in Element /\ Times(a, Inverted(a)) = 1
  BY <1>2, Zenon DEF Inverted
<1>. DEFINE w == Inverted(a)
<1>. HIDE DEF w
<1>4. ASSUME NEW x \in Element PROVE Times(w, Times(a, x)) = x
  <2>1. w \in Element /\ Times(a, w) = 1
    BY <1>3 DEF w
  <2>2. Times(w, Times(a, x)) = Times(Times(w, a), x) /\ Times(w, a) = Times(a, w)
    BY <1>1, <2>1, TimesIs
  <2>3. Times(1, x) = Times(x, 1) /\ Times(x, 1) = x
    BY <1>1, TimesIs
  <2>. QED
    BY <2>1, <2>2, <2>3
<1>5. \A x, y \in Element : Times(a, x) = Times(a, y) => x = y
  BY <1>4
<1>6. Inverted(a) # 0
  <2>1. Times(a, 0) = 0
    BY <1>1, TimesIs
  <2>. QED
    BY <1>3, <2>1
<1>. QED
  BY <1>3, <1>5, <1>6

\* The field has no divisors of zero.
LEMMA NoZeroDivisors ==
    ASSUME NEW a \in Element \ {0}, NEW b \in Element \ {0}
    PROVE  Times(a, b) \in Element \ {0}
<1>1. a \in Element /\ b \in Element /\ 0 \in Element
  BY TimesIs
<1>2. Times(a, b) \in Element /\ Times(a, 0) = 0
  BY <1>1, TimesIs
<1>. QED
  BY <1>1, <1>2, InverseIs

-----------------------------------------------------------------------------
(* One inversion for a batch *)

\* Points in Jacobian coordinates, the one at infinity among them.
JacobianPoints == [x : Element, y : Element, z : Element, infinity : BOOLEAN]

\* What a point multiplies the running product with has an inverse.
LEMMA FactorIs ==
    ASSUME NEW p \in JacobianPoints
    PROVE  FactorOf(p) \in Element \ {0} /\ (IsFinite(p) => FactorOf(p) = p.z)
<1>1. p.z \in Element
  BY DEF JacobianPoints
<1>2. 1 \in Element /\ 0 \in Element
  <2>. DEFINE a == 0
  <2>1. 0 \in Element
    BY PrimeIs DEF Element
  <2>. QED
    BY <2>1, TimesIs
<1>3. IsFinite(p) => p.z # 0
  BY DEF IsFinite
<1>. QED
  BY <1>1, <1>2, <1>3 DEF FactorOf

\* The running products, from the first point on.
Running(ps, run) ==
    run[0] = 1 /\ \A i \in 1 .. Len(ps) : run[i] = Times(run[i - 1], FactorOf(ps[i]))

\* The inverses that are split off, from the last point back.
SplitsOff(ps, run, inv) ==
    /\ Len(ps) > 0 => inv[Len(ps)] = Inverted(run[Len(ps)])
    /\ \A i \in 1 .. Len(ps) - 1 :
         inv[i] = IF IsFinite(ps[i + 1]) THEN Times(inv[i + 1], ps[i + 1].z) ELSE inv[i + 1]

\* There are running products, and none of them is 0.
LEMMA RunningExists ==
    ASSUME NEW ps \in Seq(JacobianPoints)
    PROVE  \E run \in [0 .. Len(ps) -> Element \ {0}] : Running(ps, run)
<1>. DEFINE n == Len(ps)
            S == Element \ {0}
            op == [p \in S \X (1 .. n) |-> Times(p[1], FactorOf(ps[p[2]]))]
<1>1. n \in Nat /\ \A i \in 1 .. n : ps[i] \in JacobianPoints
  OBVIOUS
<1>2. 1 \in S
  <2>1. 0 \in Element
    BY PrimeIs DEF Element
  <2>. QED
    BY <2>1, TimesIs
<1>3. \A i \in 1 .. n : FactorOf(ps[i]) \in S
  BY <1>1, FactorIs, Zenon
<1>4. \A x \in S, i \in 1 .. n : Times(x, FactorOf(ps[i])) \in S
  BY <1>3, NoZeroDivisors, Zenon
<1>. HIDE DEF S
<1>5. op \in [S \X (1 .. n) -> S]
  BY <1>4
<1>6. \A x \in S, i \in 1 .. n : op[<<x, i>>] = Times(x, FactorOf(ps[i]))
  OBVIOUS
<1>. HIDE DEF op, n
<1>7. PICK f \in [0 .. n -> S] : Follows(f, 1, op, n)
  BY <1>1, <1>2, <1>5, RecursionExists
<1>8. ASSUME NEW i \in 1 .. n PROVE f[i] = Times(f[i - 1], FactorOf(ps[i]))
  <2>1. i - 1 \in 0 .. n
    BY <1>1
  <2>2. f[i - 1] \in S
    BY <1>7, <2>1
  <2>3. f[i] = op[<<f[i - 1], i>>]
    BY <1>7 DEF Follows
  <2>. QED
    BY <1>6, <2>2, <2>3, Zenon
<1>9. f[0] = 1
  BY <1>7 DEF Follows
<1>10. Running(ps, f)
  BY <1>8, <1>9 DEF Running, n
<1>. QED
  BY <1>10 DEF S, n

\* The inverses of the running products can be split off one after another.
LEMMA SplitsExist ==
    ASSUME NEW ps \in Seq(JacobianPoints), NEW run \in [0 .. Len(ps) -> Element \ {0}],
           Running(ps, run)
    PROVE  \E inv \in [1 .. Len(ps) -> Element] :
             SplitsOff(ps, run, inv) /\ \A i \in 1 .. Len(ps) : Times(inv[i], run[i]) = 1
<1>. DEFINE n == Len(ps)
            inv == [i \in 1 .. n |-> Inverted(run[i])]
<1>1. n \in Nat /\ (\A i \in 1 .. n : ps[i] \in JacobianPoints) /\ 0 \in Element
  BY PrimeIs DEF Element
<1>2. \A i \in 1 .. n : run[i] \in Element \ {0} /\ FactorOf(ps[i]) \in Element \ {0}
  BY <1>1, FactorIs
<1>3. \A i \in 1 .. n : inv[i] = Inverted(run[i])
  OBVIOUS
<1>. HIDE DEF inv
<1>4. \A i \in 1 .. n : inv[i] \in Element /\ Times(run[i], inv[i]) = 1
  BY <1>2, <1>3, InverseIs
<1>5. \A i \in 1 .. n : Times(inv[i], run[i]) = 1
  BY <1>2, <1>4, TimesIs
<1>6. ASSUME NEW i \in 1 .. n - 1
      PROVE  inv[i] = IF IsFinite(ps[i + 1]) THEN Times(inv[i + 1], ps[i + 1].z) ELSE inv[i + 1]
  <2>. DEFINE a == FactorOf(ps[i + 1])
              w == inv[i + 1]
  <2>1. i \in 1 .. n /\ i + 1 \in 1 .. n /\ i + 1 - 1 = i
    BY <1>1
  <2>2. a \in Element /\ run[i] \in Element \ {0} /\ w \in Element /\ inv[i] \in Element
    BY <1>2, <1>4, <2>1
  <2>3. run[i + 1] = Times(run[i], a) /\ Times(run[i + 1], w) = 1
    BY <1>4, <2>1 DEF Running
  <2>4. Times(run[i], inv[i]) = 1
    BY <1>4, <2>1
  <2>. HIDE DEF a, w
  <2>5. Times(run[i], Times(a, w)) = 1 /\ Times(a, w) \in Element
    BY <2>2, <2>3, TimesIs
  <2>6. inv[i] = Times(a, w) /\ Times(a, w) = Times(w, a)
    <3>1. inv[i] = Inverted(run[i])
      BY <2>2, <2>4, InverseIs, Zenon
    <3>2. Times(a, w) = Inverted(run[i])
      BY <2>2, <2>5, InverseIs, Zenon
    <3>3. Times(a, w) = Times(w, a)
      BY <2>2, TimesIs
    <3>. QED
      BY <3>1, <3>2, <3>3, Zenon
  <2>7. Times(w, 1) = w
    BY <2>2, TimesIs
  <2>8. ps[i + 1] \in JacobianPoints
    BY <1>1, <2>1
  <2>9. IsFinite(ps[i + 1]) => a = ps[i + 1].z
    BY <2>8, FactorIs DEF a
  <2>10. ~ IsFinite(ps[i + 1]) => a = 1
    BY DEF a, FactorOf
  <2>. QED
    BY <2>6, <2>7, <2>9, <2>10 DEF w
<1>7. n > 0 => inv[n] = Inverted(run[n])
  BY <1>1, <1>3
<1>8. SplitsOff(ps, run, inv)
  BY <1>6, <1>7 DEF SplitsOff
<1>9. inv \in [1 .. n -> Element]
  BY <1>4 DEF inv
<1>. QED
  BY <1>5, <1>8, <1>9

\* The loops of BatchToAffine compute them.
LEMMA BatchUnfolds ==
    ASSUME NEW ps \in Seq(JacobianPoints)
    PROVE  \E run \in [0 .. Len(ps) -> Element \ {0}], inv \in [1 .. Len(ps) -> Element] :
             /\ Running(ps, run)
             /\ \A i \in 1 .. Len(ps) : Times(inv[i], run[i]) = 1
             /\ BatchToAffine(ps)
                  = [i \in 1 .. Len(ps) |->
                        IF IsFinite(ps[i]) THEN Scaled(ps[i], Times(inv[i], run[i - 1]))
                        ELSE InfinityAffine]
<1>. DEFINE n == Len(ps)
            RunLoop(it, i) == IF i = 0 THEN 1 ELSE Times(it[i - 1], FactorOf(ps[i]))
            RunLoops(it) == it = [i \in 0 .. n |-> RunLoop(it, i)]
            running == CHOOSE it : RunLoops(it)
            InvLoop(it, i) == IF i = n THEN Inverted(running[i])
                              ELSE IF IsFinite(ps[i + 1]) THEN Times(it[i + 1], ps[i + 1].z)
                              ELSE it[i + 1]
            InvLoops(it) == it = [i \in 1 .. n |-> InvLoop(it, i)]
            inv == CHOOSE it : InvLoops(it)
<1>1. n \in Nat /\ DOMAIN ps = 1 .. n
  OBVIOUS
<1>2. BatchToAffine(ps)
        = [i \in 1 .. n |->
              IF IsFinite(ps[i]) THEN Scaled(ps[i], Times(inv[i], running[i - 1]))
              ELSE InfinityAffine]
  <2>1. BatchToAffine(ps)
        = [i \in DOMAIN ps |->
              IF IsFinite(ps[i]) THEN Scaled(ps[i], Times((CHOOSE it : it = [j \in DOMAIN ps |-> InvLoop(it, j)])[i], running[i - 1]))
              ELSE InfinityAffine]
    BY Zenon DEF BatchToAffine
  <2>. QED
    BY <1>1, <2>1, Zenon
<1>3. PICK r \in [0 .. n -> Element \ {0}] : Running(ps, r)
  BY RunningExists
<1>4. RunLoops(r)
  BY <1>3 DEF Running
<1>5. RunLoops(running)
  <2>. HIDE DEF RunLoops
  <2>. QED
    BY <1>4, Zenon
<1>. HIDE DEF running
<1>6. \A i \in 0 .. n : running[i] = r[i]
  <2>1. StepsAlike(r, running, n)
    BY <1>3, <1>5, SMTT(30) DEF StepsAlike, Running
  <2>2. Alike(r, running, n)
    BY <1>1, <2>1, RecursionIsUnique
  <2>. QED
    BY <2>2 DEF Alike
<1>7. running \in [0 .. n -> Element \ {0}]
  BY <1>5, <1>6
<1>8. Running(ps, running)
  BY <1>5 DEF Running
<1>. HIDE DEF RunLoops
<1>9. PICK v \in [1 .. n -> Element] :
        SplitsOff(ps, running, v) /\ \A i \in 1 .. n : Times(v[i], running[i]) = 1
  BY <1>7, <1>8, SplitsExist
<1>10. InvLoops(v)
  <2>1. ASSUME NEW i \in 1 .. n PROVE v[i] = InvLoop(v, i)
    <3>1. i = n => n > 0
      BY <1>1
    <3>2. i # n => i \in 1 .. n - 1
      <4>. HIDE DEF n
      <4>. QED
        BY <1>1
    <3>. QED
      BY <1>9, <3>1, <3>2 DEF SplitsOff
  <2>. HIDE DEF InvLoop
  <2>. QED
    BY <2>1
<1>11. InvLoops(inv)
  <2>. HIDE DEF InvLoops
  <2>. QED
    BY <1>10, Zenon
<1>. HIDE DEF inv
<1>12. \A i \in 1 .. n : inv[i] = v[i]
  <2>. SUFFICES ASSUME n > 0 PROVE \A i \in 1 .. n : inv[i] = v[i]
    BY <1>1
  <2>. DEFINE f == [j \in 0 .. n - 1 |-> v[n - j]]
              g == [j \in 0 .. n - 1 |-> inv[n - j]]
  <2>1. \A i \in 1 .. n : inv[i] = InvLoop(inv, i) /\ v[i] = InvLoop(v, i)
    BY <1>10, <1>11
  <2>2. StepsAlike(f, g, n - 1)
    <3>. HIDE DEF n
    <3>1. g[0] = f[0]
      <4>1. n \in 1 .. n /\ n - 0 = n /\ 0 \in 0 .. n - 1
        BY <1>1
      <4>2. inv[n] = InvLoop(inv, n) /\ v[n] = InvLoop(v, n)
        BY <2>1, <4>1
      <4>. QED
        BY <4>1, <4>2
    <3>2. ASSUME NEW j \in 1 .. n - 1, g[j - 1] = f[j - 1] PROVE g[j] = f[j]
      <4>1. n - j \in 1 .. n /\ n - j # n /\ n - (j - 1) = n - j + 1 /\ j - 1 \in 0 .. n - 1
        BY <1>1
      <4>2. inv[n - j + 1] = v[n - j + 1]
        BY <3>2, <4>1
      <4>3. InvLoop(inv, n - j) = InvLoop(v, n - j)
        BY <4>1, <4>2
      <4>. HIDE DEF InvLoop
      <4>. QED
        BY <2>1, <4>1, <4>3
    <3>. QED
      BY <3>1, <3>2 DEF StepsAlike
  <2>. HIDE DEF f, g
  <2>3. Alike(f, g, n - 1)
    <3>1. n - 1 \in Nat
      BY <1>1
    <3>. QED
      BY <2>2, <3>1, RecursionIsUnique
  <2>4. ASSUME NEW i \in 1 .. n PROVE inv[i] = v[i]
    <3>1. n - i \in 0 .. n - 1 /\ n - (n - i) = i
      BY <1>1
    <3>. QED
      BY <2>3, <3>1 DEF Alike, f, g
  <2>. QED
    BY <2>4
<1>13. inv \in [1 .. n -> Element]
  <2>1. \A i \in 1 .. n : inv[i] \in Element
    BY <1>9, <1>12
  <2>. QED
    BY <1>11, <2>1
<1>14. \A i \in 1 .. n : Times(inv[i], running[i]) = 1
  BY <1>9, <1>12
<1>. HIDE DEF InvLoops, InvLoop
<1>. QED
  BY <1>2, <1>7, <1>8, <1>13, <1>14

\* Points share an inversion, and each becomes what it would have become with one of its
\* own; points at infinity stay what they are and change no other
\* (batch_jacobian_to_affine, batch_inverse_z).
THEOREM BatchInversionIsExact ==
    ASSUME NEW ps \in Seq(JacobianPoints)
    PROVE  BatchToAffine(ps) = [i \in 1 .. Len(ps) |-> ToAffine(ps[i])]
<1>. DEFINE n == Len(ps)
<1>1. PICK run \in [0 .. n -> Element \ {0}], inv \in [1 .. n -> Element] :
        /\ Running(ps, run)
        /\ \A i \in 1 .. n : Times(inv[i], run[i]) = 1
        /\ BatchToAffine(ps)
             = [i \in 1 .. n |->
                   IF IsFinite(ps[i]) THEN Scaled(ps[i], Times(inv[i], run[i - 1]))
                   ELSE InfinityAffine]
  BY BatchUnfolds
<1>2. ASSUME NEW i \in 1 .. n, IsFinite(ps[i])
      PROVE  Times(inv[i], run[i - 1]) = Inverted(ps[i].z)
  <2>. DEFINE z == ps[i].z
              before == run[i - 1]
              w == inv[i]
  <2>1. ps[i] \in JacobianPoints /\ i - 1 \in 0 .. n
    OBVIOUS
  <2>2. FactorOf(ps[i]) = z /\ z \in Element \ {0}
    BY <1>2, <2>1, FactorIs
  <2>3. before \in Element /\ w \in Element
    BY <1>1, <2>1
  <2>4. run[i] = Times(before, z) /\ Times(w, run[i]) = 1
    BY <1>1, <2>2 DEF Running
  <2>. HIDE DEF z, before, w
  <2>5. Times(Times(w, before), z) = 1 /\ Times(w, before) \in Element
    BY <2>2, <2>3, <2>4, TimesIs
  <2>6. Times(z, Times(w, before)) = 1
    BY <2>2, <2>5, TimesIs
  <2>7. Times(w, before) = Inverted(z)
    BY <2>2, <2>5, <2>6, InverseIs, Zenon
  <2>. QED
    BY <2>7 DEF z, before, w
<1>3. \A i \in 1 .. n :
        (IF IsFinite(ps[i]) THEN Scaled(ps[i], Times(inv[i], run[i - 1])) ELSE InfinityAffine)
          = ToAffine(ps[i])
  BY <1>2, Zenon DEF ToAffine
<1>. QED
  BY <1>1, <1>3

-----------------------------------------------------------------------------
(* Integers as elements of the field *)

El(n) == n % Prime

\* The operations of the field are those of the integers.
LEMMA ElIs ==
    ASSUME NEW a \in Int, NEW b \in Int
    PROVE  /\ El(a) \in Element
           /\ a \in Element => El(a) = a
           /\ Plus(El(a), El(b)) = El(a + b)
           /\ Minus(El(a), El(b)) = El(a - b)
           /\ Times(El(a), El(b)) = El(a * b)
<1>1. Prime \in Nat \ {0}
  BY PrimeIs
<1>2. a % Prime \in 0 .. Prime - 1 /\ b % Prime \in 0 .. Prime - 1
  BY <1>1, DividesInt
<1>. DEFINE x == a % Prime
            y == b % Prime
<1>3. x \in Int /\ y \in Int /\ x * y \in Int /\ a * b \in Int /\ y * x = x * y /\ a * y = y * a
  BY <1>1, <1>2
<1>4. (x + y) % Prime = (a + y) % Prime /\ (a + y) % Prime = (a + b) % Prime
  <2>1. (x + y) % Prime = (a + y) % Prime
    BY <1>1, <1>3, ReducedTerm, Zenon DEF x
  <2>2. (y + a) % Prime = (b + a) % Prime
    BY <1>1, <1>3, ReducedTerm, Zenon DEF y
  <2>3. y + a = a + y /\ b + a = a + b
    BY <1>3
  <2>. QED
    BY <2>1, <2>2, <2>3
<1>5. (x - y) % Prime = (x - b) % Prime /\ (x - b) % Prime = (a - b) % Prime
  <2>1. (x - y) % Prime = (x - b) % Prime
    BY <1>1, <1>3, ReducedTerm, Zenon DEF y
  <2>2. (x + (-b)) % Prime = (a + (-b)) % Prime
    <3>1. -b \in Int
      OBVIOUS
    <3>. QED
      BY <1>1, <1>3, <3>1, ReducedTerm, Zenon DEF x
  <2>3. x + (-b) = x - b /\ a + (-b) = a - b
    BY <1>3
  <2>. QED
    BY <2>1, <2>2, <2>3
<1>6. (x * y) % Prime = (a * y) % Prime /\ (y * a) % Prime = (b * a) % Prime
  BY <1>1, <1>3, ReducedFactor, Zenon DEF x, y
<1>7. b * a = a * b
  OBVIOUS
<1>8. a \in Element => a % Prime = a
  BY <1>1 DEF Element
<1>. HIDE DEF x, y
<1>. QED
  BY <1>2, <1>3, <1>4, <1>5, <1>6, <1>7, <1>8 DEF El, Plus, Minus, Times, Element, x, y

\* Multiples of the field's operations.
LEMMA ElTwice ==
    ASSUME NEW a \in Int
    PROVE  Squared(El(a)) = El(a * a) /\ Twice(El(a)) = El(2 * a) /\ Thrice(El(a)) = El(3 * a)
<1>1. Squared(El(a)) = El(a * a) /\ Twice(El(a)) = El(a + a)
  BY ElIs DEF Squared, Twice
<1>2. a + a \in Int /\ a + a = 2 * a /\ a + a + a = 3 * a
  OBVIOUS
<1>3. Plus(El(a + a), El(a)) = El(a + a + a)
  BY <1>2, ElIs
<1>. QED
  BY <1>1, <1>2, <1>3 DEF Thrice

\* Equal elements stay equal times a number, and in the sum with the same number.
LEMMA ElSame ==
    ASSUME NEW a \in Int, NEW b \in Int, NEW c \in Int, El(a) = El(b)
    PROVE  El(a * c) = El(b * c) /\ El(c + a) = El(c + b)
<1>1. El(a * c) = Times(El(a), El(c)) /\ El(b * c) = Times(El(b), El(c))
  BY ElIs
<1>2. El(c + a) = Plus(El(c), El(a)) /\ El(c + b) = Plus(El(c), El(b))
  BY ElIs
<1>. QED
  BY <1>1, <1>2

\* Equal elements have equal multiples.
LEMMA SameTimes ==
    ASSUME NEW a \in Int, NEW b \in Int, NEW c \in Int, El(a) = El(b)
    PROVE  El(a * c) = El(b * c)
  BY ElSame

-----------------------------------------------------------------------------
(* Sums of points in Jacobian coordinates *)

\* The point q with the third coordinate z.
Raised(q, z) == Jacobian(Times(q.x, Squared(z)), Times(q.y, Times(Squared(z), z)), z)

\* What a third coordinate multiplies the others with.
LEMMA RaisedIs ==
    ASSUME NEW x \in Int, NEW y \in Int, NEW w \in Int, NEW inf
    PROVE  Raised([x |-> El(x), y |-> El(y), infinity |-> inf], El(w))
             = Jacobian(El(x * (w * w)), El(y * (w * w * w)), El(w))
<1>1. w * w \in Int /\ w * w * w \in Int
  OBVIOUS
<1>2. Squared(El(w)) = El(w * w) /\ Times(El(w * w), El(w)) = El(w * w * w)
  BY <1>1, ElIs, ElTwice
<1>3. /\ Times(El(x), El(w * w)) = El(x * (w * w))
      /\ Times(El(y), El(w * w * w)) = El(y * (w * w * w))
  BY <1>1, ElIs
<1>. QED
  BY <1>2, <1>3 DEF Raised

\* The third point of a line through (x, y) with the slope l, when the others have x1 and
\* x2; reflected.
ThirdX(l, x1, x2) == l * l - x1 - x2
ThirdY(l, x1, y1, x) == l * (x1 - x) - y1

\* The formulas of the chord, for the slope l, when both points have been brought to
\* the third coordinate c.
LEMMA ChordIs ==
    ASSUME NEW x1 \in Int, NEW y1 \in Int, NEW d \in Int, NEW l \in Int, NEW c \in Int
    PROVE  LET X == ThirdX(l, x1, x1 + d)
               Y == ThirdY(l, x1, y1, X)
               w == c * (d * (c * c))
           IN  Chord(El(x1 * (c * c)), El(y1 * (c * c * c)),
                     El((x1 + d) * (c * c)), El((y1 + l * d) * (c * c * c)), El(c))
                 = Jacobian(El(X * (w * w)), El(Y * (w * w * w)), El(w))
<1>. DEFINE X == ThirdX(l, x1, x1 + d)
            Y == ThirdY(l, x1, y1, X)
            v == d * (c * c)
            w == c * v
            t == w * w
            u1 == x1 * (c * c)
            s1 == y1 * (c * c * c)
            u2 == (x1 + d) * (c * c)
            s2 == (y1 + l * d) * (c * c * c)
<1>1. /\ X \in Int /\ Y \in Int /\ v \in Int /\ w \in Int /\ t \in Int
      /\ u1 \in Int /\ s1 \in Int /\ u2 \in Int /\ s2 \in Int
  <2>1. X \in Int
    BY DEF ThirdX
  <2>. HIDE DEF X
  <2>. QED
    BY <2>1 DEF ThirdY
<1>2. u2 - u1 = v
  OBVIOUS
<1>3. s2 - s1 = l * w
  OBVIOUS
<1>4. (v * v) * v = d * t
  OBVIOUS
<1>5. u1 * (v * v) = x1 * t
  OBVIOUS
<1>6. (l * w) * (l * w) = (l * l) * t
  OBVIOUS
<1>7. s1 * (d * t) = y1 * (t * w)
  OBVIOUS
<1>. HIDE DEF v, w, t, u1, s1, u2, s2
<1>8. ((l * l) * t - d * t) - 2 * (x1 * t) = X * t
  <2>. HIDE <1>1
  <2>1. t \in Int
    BY <1>1
  <2>. QED
    BY <2>1 DEF ThirdX
<1>. HIDE DEF X
<1>9. (l * w) * (x1 * t - X * t) - y1 * (t * w) = Y * (t * w)
  BY <1>1 DEF ThirdY
<1>. HIDE DEF Y
<1>10. v * v \in Int /\ (v * v) * v \in Int /\ x1 * t \in Int /\ d * t \in Int /\ l * w \in Int
       /\ (l * l) * t \in Int /\ X * t \in Int /\ t * w \in Int
       /\ (l * l) * t - d * t \in Int /\ 2 * (x1 * t) \in Int /\ x1 * t - X * t \in Int
       /\ y1 * (t * w) \in Int /\ (l * w) * (x1 * t - X * t) \in Int
  BY <1>1
<1>. DEFINE h == El(v)
            r == El(l * w)
<1>11. Minus(El(u2), El(u1)) = h /\ Minus(El(s2), El(s1)) = r
  BY <1>1, <1>2, <1>3, ElIs
<1>12. Squared(h) = El(v * v) /\ Times(Squared(h), h) = El(d * t)
       /\ Times(El(u1), Squared(h)) = El(x1 * t) /\ Times(El(c), h) = El(w)
  <2>1. Squared(h) = El(v * v)
    BY <1>1, ElTwice
  <2>2. Times(El(v * v), El(v)) = El(d * t)
    <3>1. Times(El(v * v), El(v)) = El((v * v) * v)
      BY <1>1, <1>10, ElIs, Zenon
    <3>. QED
      BY <1>4, <3>1
  <2>3. Times(El(u1), El(v * v)) = El(x1 * t)
    <3>1. Times(El(u1), El(v * v)) = El(u1 * (v * v))
      BY <1>1, <1>10, ElIs, Zenon
    <3>. QED
      BY <1>5, <3>1
  <2>4. Times(El(c), El(v)) = El(w)
    BY <1>1, ElIs DEF w
  <2>. QED
    BY <2>1, <2>2, <2>3, <2>4
<1>13. Minus(Minus(Squared(r), El(d * t)), Twice(El(x1 * t))) = El(X * t)
  <2>1. Squared(r) = El((l * l) * t)
    BY <1>6, <1>10, ElTwice
  <2>2. Minus(El((l * l) * t), El(d * t)) = El((l * l) * t - d * t)
    BY <1>10, ElIs
  <2>3. Twice(El(x1 * t)) = El(2 * (x1 * t))
    BY <1>10, ElTwice
  <2>4. Minus(El((l * l) * t - d * t), El(2 * (x1 * t))) = El(X * t)
    BY <1>8, <1>10, ElIs
  <2>. QED
    BY <2>1, <2>2, <2>3, <2>4
<1>14. Minus(Times(r, Minus(El(x1 * t), El(X * t))), Times(El(s1), El(d * t))) = El(Y * (t * w))
  <2>1. Minus(El(x1 * t), El(X * t)) = El(x1 * t - X * t)
    BY <1>10, ElIs
  <2>2. Times(r, El(x1 * t - X * t)) = El((l * w) * (x1 * t - X * t))
    BY <1>10, ElIs
  <2>3. Times(El(s1), El(d * t)) = El(y1 * (t * w))
    <3>1. Times(El(s1), El(d * t)) = El(s1 * (d * t))
      BY <1>1, <1>10, ElIs, Zenon
    <3>. QED
      BY <1>7, <3>1
  <2>4. Minus(El((l * w) * (x1 * t - X * t)), El(y1 * (t * w))) = El(Y * (t * w))
    BY <1>9, <1>10, ElIs
  <2>. QED
    BY <2>1, <2>2, <2>3, <2>4
<1>15. Chord(El(u1), El(s1), El(u2), El(s2), El(c)) = Jacobian(El(X * t), El(Y * (t * w)), El(w))
  <2>. HIDE DEF h, r
  <2>. QED
    BY <1>11, <1>12, <1>13, <1>14, Zenon DEF Chord, OnChord
<1>. QED
  BY <1>15 DEF X, Y, w, v, t, u1, s1, u2, s2

\* The formulas of the tangent, for the slope l.
LEMMA TangentIs ==
    ASSUME NEW x \in Int, NEW y \in Int, NEW l \in Int, NEW c \in Int,
           El(l * (2 * y)) = El(3 * x * x),
           NEW p, p.x = El(x * (c * c)), p.y = El(y * (c * c * c)), p.z = El(c)
    PROVE  LET X == ThirdX(l, x, x)
               Y == ThirdY(l, x, y, X)
               w == 2 * y * (c * c * c * c)
           IN  Tangent(p, Thrice(Squared(p.x)), Twice(Twice(Times(p.x, Squared(p.y)))))
                 = Jacobian(El(X * (w * w)), El(Y * (w * w * w)), El(w))
<1>. DEFINE X == ThirdX(l, x, x)
            Y == ThirdY(l, x, y, X)
            c4 == c * c * c * c
            w == 2 * y * c4
            t == w * w
            u == x * (c * c)
            v == y * (c * c * c)
<1>1. /\ X \in Int /\ Y \in Int /\ c4 \in Int /\ w \in Int /\ t \in Int /\ u \in Int /\ v \in Int
  <2>1. X \in Int
    BY DEF ThirdX
  <2>. HIDE DEF X
  <2>. QED
    BY <2>1 DEF ThirdY
<1>2. 3 * (u * u) = (3 * x * x) * c4
  OBVIOUS
<1>3. (l * (2 * y)) * c4 = l * w
  OBVIOUS
<1>4. 2 * (2 * (u * (v * v))) = x * t
  OBVIOUS
<1>5. 2 * (2 * (2 * ((v * v) * (v * v)))) = y * (t * w)
  OBVIOUS
<1>6. 2 * (v * c) = w
  OBVIOUS
<1>7. (l * w) * (l * w) = (l * l) * t
  OBVIOUS
<1>. HIDE DEF c4, w, t, u, v
<1>8. (l * l) * t - 2 * (x * t) = X * t
  <2>1. t \in Int
    BY <1>1
  <2>. QED
    BY <2>1 DEF ThirdX
<1>. HIDE DEF X
<1>9. (l * w) * (x * t - X * t) - y * (t * w) = Y * (t * w)
  BY <1>1 DEF ThirdY
<1>. HIDE DEF Y
<1>10. /\ u * u \in Int /\ v * v \in Int /\ u * (v * v) \in Int /\ 2 * (u * (v * v)) \in Int
       /\ (v * v) * (v * v) \in Int /\ 2 * ((v * v) * (v * v)) \in Int
       /\ 2 * (2 * ((v * v) * (v * v))) \in Int /\ v * c \in Int
       /\ x * t \in Int /\ l * w \in Int /\ (l * l) * t \in Int /\ X * t \in Int
       /\ 2 * (x * t) \in Int /\ x * t - X * t \in Int /\ y * (t * w) \in Int
       /\ (l * w) * (x * t - X * t) \in Int
       /\ 3 * x * x \in Int /\ l * (2 * y) \in Int
  BY <1>1
<1>11. Thrice(Squared(p.x)) = El(l * w)
  <2>1. Squared(El(u)) = El(u * u) /\ Thrice(El(u * u)) = El(3 * (u * u))
    BY <1>1, <1>10, ElTwice
  <2>2. El((l * (2 * y)) * c4) = El((3 * x * x) * c4)
    <3>. DEFINE e == l * (2 * y)
                f == 3 * x * x
    <3>1. e \in Int /\ f \in Int /\ c4 \in Int /\ El(e) = El(f)
      BY <1>1, <1>10
    <3>. HIDE DEF e, f
    <3>2. El(e * c4) = El(f * c4)
      BY <3>1, SameTimes, ZenonT(60)
    <3>. QED
      BY <3>2 DEF e, f
  <2>. QED
    BY <1>2, <1>3, <2>1, <2>2 DEF u
<1>12. Twice(Twice(Times(p.x, Squared(p.y)))) = El(x * t)
  <2>1. Squared(El(v)) = El(v * v)
    BY <1>1, ElTwice
  <2>2. Times(El(u), El(v * v)) = El(u * (v * v))
    BY <1>1, <1>10, ElIs
  <2>3. Twice(El(u * (v * v))) = El(2 * (u * (v * v)))
    BY <1>10, ElTwice
  <2>4. Twice(El(2 * (u * (v * v)))) = El(x * t)
    BY <1>4, <1>10, ElTwice
  <2>. QED
    BY <2>1, <2>2, <2>3, <2>4 DEF u, v
<1>13. Twice(Twice(Twice(Squared(Squared(p.y))))) = El(y * (t * w))
  <2>1. Squared(El(v)) = El(v * v)
    BY <1>1, ElTwice
  <2>2. Squared(El(v * v)) = El((v * v) * (v * v))
    BY <1>10, ElTwice
  <2>3. Twice(El((v * v) * (v * v))) = El(2 * ((v * v) * (v * v)))
    BY <1>10, ElTwice
  <2>4. Twice(El(2 * ((v * v) * (v * v)))) = El(2 * (2 * ((v * v) * (v * v))))
    BY <1>10, ElTwice
  <2>5. Twice(El(2 * (2 * ((v * v) * (v * v))))) = El(y * (t * w))
    BY <1>5, <1>10, ElTwice
  <2>. QED
    BY <2>1, <2>2, <2>3, <2>4, <2>5 DEF v
<1>14. Twice(Times(p.y, p.z)) = El(w)
  <2>1. Times(El(v), El(c)) = El(v * c)
    <3>1. v \in Int /\ c \in Int
      BY <1>1
    <3>. QED
      BY <3>1, ElIs
  <2>2. Twice(El(v * c)) = El(2 * (v * c))
    BY <1>10, ElTwice, Zenon
  <2>. QED
    BY <1>6, <2>1, <2>2 DEF v
<1>15. Minus(Squared(El(l * w)), Twice(El(x * t))) = El(X * t)
  <2>1. Squared(El(l * w)) = El((l * l) * t) /\ Twice(El(x * t)) = El(2 * (x * t))
    BY <1>7, <1>10, ElTwice
  <2>2. Minus(El((l * l) * t), El(2 * (x * t))) = El(X * t)
    <3>. DEFINE a == (l * l) * t
                b == 2 * (x * t)
    <3>1. a \in Int /\ b \in Int /\ a - b = X * t
      BY <1>8, <1>10
    <3>. HIDE DEF a, b
    <3>2. Minus(El(a), El(b)) = El(a - b)
      BY <3>1, ElIs
    <3>. QED
      BY <3>1, <3>2 DEF a, b
  <2>. QED
    BY <2>1, <2>2
<1>16. Minus(Times(El(l * w), Minus(El(x * t), El(X * t))), El(y * (t * w))) = El(Y * (t * w))
  <2>. DEFINE a == x * t
              b == X * t
              m == l * w
              e == y * (t * w)
  <2>1. /\ a \in Int /\ b \in Int /\ m \in Int /\ e \in Int /\ a - b \in Int
        /\ m * (a - b) \in Int /\ m * (a - b) - e = Y * (t * w)
    BY <1>9, <1>10
  <2>. HIDE DEF a, b, m, e
  <2>2. Minus(El(a), El(b)) = El(a - b)
    BY <2>1, ElIs
  <2>. DEFINE d == a - b
              v4 == m * d
  <2>3. d \in Int /\ v4 \in Int /\ v4 - e = Y * (t * w)
    BY <2>1
  <2>. HIDE DEF d
  <2>4. Times(El(m), El(d)) = El(v4)
    BY <2>1, <2>3, ElIs
  <2>. HIDE DEF v4
  <2>5. Minus(El(v4), El(e)) = El(Y * (t * w))
    BY <2>1, <2>3, ElIs
  <2>6. Minus(Times(El(m), Minus(El(a), El(b))), El(e)) = El(Y * (t * w))
    BY <2>2, <2>4, <2>5 DEF d
  <2>. QED
    BY <2>6 DEF a, b, m, e
<1>17. Tangent(p, El(l * w), El(x * t)) = Jacobian(El(X * t), El(Y * (t * w)), El(w))
  BY <1>13, <1>14, <1>15, <1>16, Zenon DEF Tangent
<1>. QED
  BY <1>11, <1>12, <1>17 DEF X, Y, w, c4, t

-----------------------------------------------------------------------------
(* The chord and tangent rule *)

\* Points in affine coordinates.
CurvePoints == {Affine(x, y) : x \in Element, y \in Element} \cup {InfinityAffine}

\* The points in Jacobian coordinates that stand for a point.
JacobiansOf(q) ==
    IF q = InfinityAffine THEN {InfinityJacobian} ELSE {Raised(q, z) : z \in Element \ {0}}

\* Elements are the integers that they are.
LEMMA ElementIs ==
    ASSUME NEW a \in Element
    PROVE  a \in Int /\ El(a) = a
<1>1. a \in Int
  BY PrimeIs DEF Element
<1>. QED
  BY <1>1, ElIs

\* A difference is 0 when its terms are equal.
LEMMA ElZero ==
    ASSUME NEW a \in Int, NEW b \in Int
    PROVE  El(a - b) = 0 <=> El(a) = El(b)
<1>1. 0 \in Element /\ 0 \in Int /\ a - b \in Int
  BY PrimeIs DEF Element
<1>2. El(0) = 0
  BY <1>1, ElementIs
<1>3. ASSUME El(a - b) = 0 PROVE El(a) = El(b)
  <2>. DEFINE c == a - b
  <2>1. c \in Int /\ 0 \in Int /\ El(c) = El(0)
    BY <1>1, <1>2, <1>3
  <2>2. b + c = a /\ b + 0 = b
    OBVIOUS
  <2>. HIDE DEF c
  <2>3. El(b + c) = El(b + 0)
    BY <2>1, ElSame, Zenon
  <2>. QED
    BY <2>2, <2>3
<1>4. ASSUME El(a) = El(b) PROVE El(a - b) = 0
  <2>1. El((-b) + a) = El((-b) + b)
    <3>1. -b \in Int
      OBVIOUS
    <3>. QED
      BY <1>4, <3>1, ElSame
  <2>2. (-b) + a = a - b /\ (-b) + b = 0
    OBVIOUS
  <2>. QED
    BY <1>2, <2>1, <2>2
<1>. QED
  BY <1>3, <1>4

\* A product of numbers that are not 0 is not 0, and one of them can be cancelled.
LEMMA ElProduct ==
    ASSUME NEW a \in Int, NEW b \in Int, El(b) # 0
    PROVE  /\ El(a) # 0 => El(a * b) # 0
           /\ \A c \in Int : El(a * b) = El(c * b) => El(a) = El(c)
<1>1. El(b) \in Element \ {0} /\ El(a) \in Element
  BY ElIs
<1>2. El(a * b) = Times(El(a), El(b))
  BY ElIs
<1>3. El(a) # 0 => El(a * b) # 0
  BY <1>1, <1>2, NoZeroDivisors
<1>4. ASSUME NEW c \in Int, El(a * b) = El(c * b) PROVE El(a) = El(c)
  <2>1. El(c) \in Element /\ El(c * b) = Times(El(c), El(b))
    BY ElIs
  <2>2. Times(El(a), El(b)) = Times(El(b), El(a)) /\ Times(El(c), El(b)) = Times(El(b), El(c))
    BY <1>1, <2>1, TimesIs
  <2>3. Times(El(b), El(a)) = Times(El(b), El(c))
    BY <1>2, <1>4, <2>1, <2>2
  <2>. QED
    BY <1>1, <2>1, <2>3, InverseIs
<1>. QED
  BY <1>3, <1>4

\* There is a quotient.
LEMMA QuotientIs ==
    ASSUME NEW a \in Int, NEW b \in Int, El(a) # 0
    PROVE  Quotient(b, a) \in Int /\ El(Quotient(b, a) * a) = El(b)
<1>. DEFINE w == Inverted(El(a))
            x == Times(El(b), w)
<1>1. El(a) \in Element \ {0} /\ El(b) \in Element
  BY ElIs
<1>2. w \in Element /\ Times(El(a), w) = 1
  BY <1>1, InverseIs
<1>. HIDE DEF w
<1>3. x \in Element
  BY <1>1, <1>2, TimesIs
<1>4. Times(El(a), x) = El(b)
  <2>1. Times(El(b), w) = Times(w, El(b))
    BY <1>1, <1>2, TimesIs
  <2>2. Times(El(a), Times(w, El(b))) = Times(Times(El(a), w), El(b))
    BY <1>1, <1>2, TimesIs
  <2>3. Times(1, El(b)) = Times(El(b), 1) /\ Times(El(b), 1) = El(b)
    BY <1>1, TimesIs
  <2>. QED
    BY <1>2, <2>1, <2>2, <2>3
<1>. HIDE DEF x
<1>5. x \in Int /\ El(x) = x
  BY <1>3, ElementIs
<1>6. El(a * x) = El(b)
  BY <1>4, <1>5, ElIs
<1>7. (a * x - b) % Prime = 0
  <2>1. a * x \in Int
    BY <1>5
  <2>2. El(a * x - b) = 0
    BY <1>6, <2>1, ElZero
  <2>. QED
    BY <2>2 DEF El
<1>. DEFINE l == Quotient(b, a)
<1>8. l \in 0 .. Prime - 1 /\ (a * l - b) % Prime = 0
  BY <1>3, <1>7, Zenon DEF Quotient, Element
<1>. HIDE DEF l
<1>9. l \in Int /\ a * l \in Int /\ l * a = a * l
  BY <1>8, PrimeIs
<1>10. El(a * l) = El(b)
  <2>1. El(a * l - b) = 0
    BY <1>8 DEF El
  <2>. QED
    BY <1>9, <2>1, ElZero
<1>. QED
  BY <1>9, <1>10 DEF l

\* The third point of a line, whether its x has been reduced or not.
LEMMA ThirdIs ==
    ASSUME NEW l \in Int, NEW x1 \in Int, NEW y1 \in Int, NEW X \in Int
    PROVE  /\ ThirdY(l, x1, y1, X) \in Int
           /\ El(l * (x1 - El(X)) - y1) = El(ThirdY(l, x1, y1, X))
<1>. DEFINE R == El(X)
<1>1. R \in Element
  BY ElIs
<1>2. R \in Int /\ El(R) = R
  BY <1>1, ElementIs
<1>3. El(x1 - R) = El(x1 - X)
  <2>1. El(x1 - R) = Minus(El(x1), El(R)) /\ El(x1 - X) = Minus(El(x1), El(X))
    BY <1>2, ElIs
  <2>. QED
    BY <1>2, <2>1
<1>. HIDE DEF R
<1>. DEFINE a == x1 - R
            b == x1 - X
            c == l * a
            d == l * b
<1>4. a \in Int /\ b \in Int /\ c \in Int /\ d \in Int
  BY <1>2
<1>5. El(c) = Times(El(l), El(a)) /\ El(d) = Times(El(l), El(b))
  <2>. HIDE DEF a, b
  <2>. QED
    BY <1>4, ElIs
<1>. HIDE DEF c, d
<1>6. El(c - y1) = Minus(El(c), El(y1)) /\ El(d - y1) = Minus(El(d), El(y1))
  BY <1>4, ElIs
<1>7. El(c - y1) = El(d - y1)
  BY <1>3, <1>5, <1>6
<1>. QED
  BY <1>4, <1>7 DEF ThirdY, c, d, R

\* A sum of finite points lies on the line through them, when there is one.
LEMMA SumIs ==
    ASSUME NEW x1 \in Element, NEW y1 \in Element, NEW x2 \in Element, NEW y2 \in Element,
           x1 = x2 => y1 = y2 /\ y1 # 0
    PROVE  \E l \in Int :
             /\ x1 # x2 => El(l * (x2 - x1)) = El(y2 - y1)
             /\ x1 = x2 => El(l * (2 * y1)) = El(3 * x1 * x1)
             /\ SumOf(Affine(x1, y1), Affine(x2, y2))
                  = Affine(El(ThirdX(l, x1, x2)), El(ThirdY(l, x1, y1, ThirdX(l, x1, x2))))
<1>. DEFINE l == SlopeOf(Affine(x1, y1), Affine(x2, y2))
            X == ThirdX(l, x1, x2)
<1>1. /\ x1 \in Int /\ y1 \in Int /\ x2 \in Int /\ y2 \in Int
      /\ El(x1) = x1 /\ El(y1) = y1 /\ El(x2) = x2 /\ El(y2) = y2
  BY ElementIs
<1>2. /\ Affine(x1, y1).x = x1 /\ Affine(x1, y1).y = y1
      /\ Affine(x2, y2).x = x2 /\ Affine(x2, y2).y = y2
      /\ Affine(x1, y1).infinity = FALSE /\ Affine(x2, y2).infinity = FALSE
  BY DEF Affine
<1>3. CASE x1 # x2
  <2>1. Affine(x1, y1) # Affine(x2, y2)
    BY <1>2, <1>3
  <2>2. l = Quotient(y2 - y1, x2 - x1)
    BY <1>2, <2>1, Zenon DEF SlopeOf
  <2>3. El(x2 - x1) # 0
    BY <1>1, <1>3, ElZero
  <2>4. x2 - x1 \in Int /\ y2 - y1 \in Int
    BY <1>1
  <2>5. l \in Int /\ El(l * (x2 - x1)) = El(y2 - y1)
    BY <2>2, <2>3, <2>4, QuotientIs
  <2>. HIDE DEF l
  <2>6. X \in Int
    BY <1>1, <2>5 DEF ThirdX
  <2>7. SumOf(Affine(x1, y1), Affine(x2, y2)) = Affine(El(X), El(l * (x1 - El(X)) - y1))
    BY <1>2, <1>3, Zenon DEF SumOf, ThirdX, El, l
  <2>. HIDE DEF X
  <2>8. El(l * (x1 - El(X)) - y1) = El(ThirdY(l, x1, y1, X))
    BY <1>1, <2>5, <2>6, ThirdIs
  <2>. QED
    BY <1>3, <2>5, <2>7, <2>8 DEF X
<1>4. CASE x1 = x2
  <2>1. Affine(x1, y1) = Affine(x2, y2) /\ y1 # 0
    BY <1>4
  <2>2. l = Quotient(3 * x1 * x1, 2 * y1)
    BY <1>2, <2>1, Zenon DEF SlopeOf
  <2>3. El(2 * y1) # 0
    <3>1. 2 \in Element
      BY PrimeIs DEF Element
    <3>2. 2 \in Int /\ El(2) = 2
      BY <3>1, ElementIs
    <3>. QED
      BY <1>1, <2>1, <3>2, ElProduct
  <2>4. 2 * y1 \in Int /\ 3 * x1 * x1 \in Int
    BY <1>1
  <2>5. l \in Int /\ El(l * (2 * y1)) = El(3 * x1 * x1)
    BY <2>2, <2>3, <2>4, QuotientIs
  <2>. HIDE DEF l
  <2>6. X \in Int
    BY <1>1, <2>5 DEF ThirdX
  <2>7. SumOf(Affine(x1, y1), Affine(x2, y2)) = Affine(El(X), El(l * (x1 - El(X)) - y1))
    <3>1. ~ (Affine(x1, y1).y # Affine(x2, y2).y \/ Affine(x1, y1).y = 0)
      BY <1>2, <2>1
    <3>. QED
      BY <1>2, <3>1, Zenon DEF SumOf, ThirdX, El, l
  <2>. HIDE DEF X
  <2>8. El(l * (x1 - El(X)) - y1) = El(ThirdY(l, x1, y1, X))
    BY <1>1, <2>5, <2>6, ThirdIs
  <2>. QED
    BY <1>4, <2>5, <2>7, <2>8 DEF X
<1>. QED
  BY <1>3, <1>4

\* What a raised point looks like.
LEMMA JacobianOf ==
    ASSUME NEW x \in Element, NEW y \in Element, NEW z \in Element
    PROVE  /\ Raised(Affine(x, y), z)
                = Jacobian(El(x * (z * z)), El(y * (z * z * z)), z)
           /\ Affine(x, y) # InfinityAffine
           /\ z # 0 => /\ Raised(Affine(x, y), z) \in JacobiansOf(Affine(x, y))
                       /\ El(z) # 0 /\ El(z * z) # 0 /\ El(z * z * z) # 0
<1>1. x \in Int /\ y \in Int /\ z \in Int /\ El(x) = x /\ El(y) = y /\ El(z) = z
  BY ElementIs
<1>2. Raised([x |-> El(x), y |-> El(y), infinity |-> FALSE], El(z))
        = Jacobian(El(x * (z * z)), El(y * (z * z * z)), El(z))
  BY <1>1, RaisedIs
<1>3. Raised(Affine(x, y), z) = Jacobian(El(x * (z * z)), El(y * (z * z * z)), z)
  BY <1>1, <1>2 DEF Affine
<1>4. Affine(x, y) # InfinityAffine
  <2>1. Affine(x, y).infinity = FALSE /\ InfinityAffine.infinity = TRUE
    BY DEF Affine, InfinityAffine
  <2>. QED
    BY <2>1
<1>5. z # 0 => Raised(Affine(x, y), z) \in JacobiansOf(Affine(x, y))
  BY <1>4, Zenon DEF JacobiansOf
<1>6. z # 0 => El(z) # 0 /\ El(z * z) # 0 /\ El(z * z * z) # 0
  <2>1. z * z \in Int
    BY <1>1
  <2>. QED
    BY <1>1, <2>1, ElProduct
<1>. QED
  BY <1>3, <1>4, <1>5, <1>6

\* The double of a point that is not its own negative (JacobianPoint::double).
LEMMA DoubleIsExact ==
    ASSUME NEW x \in Element, NEW y \in Element, NEW p \in JacobiansOf(Affine(x, y))
    PROVE  Double(p) \in JacobiansOf(SumOf(Affine(x, y), Affine(x, y)))
<1>1. PICK c \in Element \ {0} : p = Raised(Affine(x, y), c)
  BY JacobianOf, Zenon DEF JacobiansOf
<1>2. x \in Int /\ y \in Int /\ c \in Int /\ El(x) = x /\ El(y) = y /\ El(c) = c
  BY ElementIs
<1>3. /\ p = Jacobian(El(x * (c * c)), El(y * (c * c * c)), c)
      /\ El(c) # 0 /\ El(c * c) # 0 /\ El(c * c * c) # 0
  BY <1>1, JacobianOf
<1>4. /\ p.x = El(x * (c * c)) /\ p.y = El(y * (c * c * c)) /\ p.z = El(c)
      /\ p.infinity = FALSE
  BY <1>2, <1>3 DEF Jacobian
<1>5. CASE y = 0
  <2>1. p.y = 0
    <3>1. y * (c * c * c) = 0 /\ El(0) = 0
      BY <1>2, <1>5
    <3>. QED
      BY <1>4, <3>1
  <2>2. Double(p) = InfinityJacobian
    BY <2>1 DEF Double
  <2>3. SumOf(Affine(x, y), Affine(x, y)) = InfinityAffine
    <3>1. Affine(x, y).x = x /\ Affine(x, y).y = y /\ Affine(x, y).infinity = FALSE
      BY DEF Affine
    <3>. QED
      BY <1>5, <3>1 DEF SumOf
  <2>. QED
    BY <2>2, <2>3, Zenon DEF JacobiansOf
<1>6. CASE y # 0
  <2>1. PICK l \in Int :
          /\ El(l * (2 * y)) = El(3 * x * x)
          /\ SumOf(Affine(x, y), Affine(x, y))
               = Affine(El(ThirdX(l, x, x)), El(ThirdY(l, x, y, ThirdX(l, x, x))))
    BY <1>6, SumIs
  <2>. DEFINE X == ThirdX(l, x, x)
              Y == ThirdY(l, x, y, X)
              w == 2 * y * (c * c * c * c)
              q == Affine(El(X), El(Y))
  <2>2. X \in Int
    BY <1>2, <2>1 DEF ThirdX
  <2>3. Y \in Int
    <3>. HIDE DEF X
    <3>. QED
      BY <1>2, <2>1, <2>2 DEF ThirdY
  <2>4. w \in Int /\ El(w) # 0
    <3>1. 2 \in Element
      BY PrimeIs DEF Element
    <3>2. 2 \in Int /\ El(2) = 2
      BY <3>1, ElementIs
    <3>3. 2 * y \in Int /\ El(2 * y) # 0
      BY <1>2, <1>6, <3>2, ElProduct
    <3>4. c * c * c \in Int /\ c * c * c * c \in Int /\ El(c * c * c * c) # 0
      <4>1. c * c * c \in Int
        BY <1>2
      <4>. HIDE <3>3
      <4>2. El((c * c * c) * c) # 0
        BY <1>2, <1>3, <4>1, ElProduct
      <4>. QED
        BY <1>2, <4>1, <4>2
    <3>. DEFINE a == 2 * y
                b == c * c * c * c
    <3>5. a \in Int /\ b \in Int /\ El(a) # 0 /\ El(b) # 0
      BY <3>3, <3>4
    <3>. HIDE DEF a, b
    <3>6. a * b \in Int /\ El(a * b) # 0
      BY <3>5, ElProduct
    <3>. QED
      BY <3>6 DEF a, b
  <2>5. Tangent(p, Thrice(Squared(p.x)), Twice(Twice(Times(p.x, Squared(p.y)))))
          = Jacobian(El(X * (w * w)), El(Y * (w * w * w)), El(w))
    <3>1. LET V == ThirdX(l, x, x)
              W == ThirdY(l, x, y, V)
              v == 2 * y * (c * c * c * c)
          IN  Tangent(p, Thrice(Squared(p.x)), Twice(Twice(Times(p.x, Squared(p.y)))))
                = Jacobian(El(V * (v * v)), El(W * (v * v * v)), El(v))
      <4>1. El(l * (2 * y)) = El(3 * x * x)
        BY <2>1
      <4>. HIDE DEF X, Y, w, q
      <4>. QED
        BY <1>2, <1>4, <4>1, TangentIs
    <3>. QED
      BY <3>1, Zenon
  <2>. HIDE DEF X, Y, w
  <2>6. Raised(q, El(w)) = Jacobian(El(X * (w * w)), El(Y * (w * w * w)), El(w))
    BY <2>2, <2>3, <2>4, RaisedIs DEF Affine
  <2>7. Double(p) = Raised(q, El(w))
    <3>1. p.y # 0
      <4>. DEFINE g == c * c * c
      <4>1. g \in Int /\ El(g) # 0 /\ El(y) # 0
        BY <1>2, <1>3, <1>6
      <4>. HIDE DEF g
      <4>2. El(y * g) # 0
        BY <1>2, <4>1, ElProduct
      <4>. QED
        BY <1>4, <4>2 DEF g
    <3>. HIDE DEF q
    <3>. QED
      BY <1>4, <2>5, <2>6, <3>1, Zenon DEF Double
  <2>8. El(X) \in Element /\ El(Y) \in Element /\ El(w) \in Element
    BY <2>2, <2>3, <2>4, ElIs
  <2>9. Raised(q, El(w)) \in JacobiansOf(q)
    BY <2>4, <2>8, JacobianOf
  <2>. QED
    BY <2>1, <2>7, <2>9 DEF X, Y
<1>. QED
  BY <1>5, <1>6

\* The sum of two finite points that have been brought to the third coordinate c.
LEMMA FiniteSumIsExact ==
    ASSUME NEW x1 \in Element, NEW y1 \in Element, NEW x2 \in Element, NEW y2 \in Element,
           NEW p \in JacobiansOf(Affine(x1, y1)), NEW c \in Int, El(c) # 0
    PROVE  FiniteSum(p, El(x1 * (c * c)), El(y1 * (c * c * c)),
                     El(x2 * (c * c)), El(y2 * (c * c * c)), El(c))
             \in JacobiansOf(SumOf(Affine(x1, y1), Affine(x2, y2)))
<1>. DEFINE a == Affine(x1, y1)
            b == Affine(x2, y2)
            u1 == El(x1 * (c * c))
            s1 == El(y1 * (c * c * c))
            u2 == El(x2 * (c * c))
            s2 == El(y2 * (c * c * c))
<1>1. /\ x1 \in Int /\ y1 \in Int /\ x2 \in Int /\ y2 \in Int
      /\ El(x1) = x1 /\ El(y1) = y1 /\ El(x2) = x2 /\ El(y2) = y2
  BY ElementIs
<1>2. /\ a.x = x1 /\ a.y = y1 /\ b.x = x2 /\ b.y = y2
      /\ a.infinity = FALSE /\ b.infinity = FALSE
  BY DEF Affine
<1>3. c * c \in Int /\ c * c * c \in Int /\ El(c * c) # 0 /\ El(c * c * c) # 0
  <2>1. c * c \in Int /\ El(c * c) # 0
    BY ElProduct
  <2>. QED
    BY <2>1, ElProduct
<1>4. CASE x1 # x2
  <2>1. u1 # u2
    BY <1>1, <1>3, <1>4, ElProduct
  <2>2. PICK l \in Int :
          /\ El(l * (x2 - x1)) = El(y2 - y1)
          /\ SumOf(a, b) = Affine(El(ThirdX(l, x1, x2)), El(ThirdY(l, x1, y1, ThirdX(l, x1, x2))))
    BY <1>4, SumIs
  <2>. DEFINE d == x2 - x1
              X == ThirdX(l, x1, x2)
              Y == ThirdY(l, x1, y1, X)
              w == c * (d * (c * c))
              q == Affine(El(X), El(Y))
  <2>3. X \in Int
    BY <1>1, <2>2 DEF ThirdX
  <2>4. Y \in Int
    <3>. HIDE DEF X
    <3>. QED
      BY <1>1, <2>2, <2>3 DEF ThirdY
  <2>5. d \in Int /\ x1 + d = x2 /\ El(d) # 0
    BY <1>1, <1>4, ElZero
  <2>6. s2 = El((y1 + l * d) * (c * c * c))
    <3>. DEFINE e == l * d
                f == y2 - y1
                g == c * c * c
    <3>1. e \in Int /\ f \in Int /\ El(e) = El(f) /\ y1 + f = y2 /\ g \in Int
      BY <1>1, <1>3, <2>2, <2>5
    <3>. HIDE DEF e, f, g
    <3>2. El(y1 + e) = El(y1 + f)
      <4>1. y1 \in Int /\ e \in Int /\ f \in Int /\ El(e) = El(f)
        BY <1>1, <3>1
      <4>. QED
        BY <4>1, ElSame, Zenon
    <3>3. y1 + e \in Int /\ y1 + f \in Int
      BY <1>1, <3>1
    <3>4. El((y1 + e) * g) = El((y1 + f) * g)
      BY <3>1, <3>2, <3>3, ElSame
    <3>. QED
      BY <3>1, <3>4 DEF e, g
  <2>. HIDE DEF d
  <2>7. w \in Int /\ El(w) # 0
    <3>. DEFINE e == c * c
                f == d * e
    <3>1. e \in Int /\ El(e) # 0
      BY <1>3
    <3>. HIDE DEF e
    <3>2. f \in Int /\ El(f) # 0
      BY <2>5, <3>1, ElProduct
    <3>. HIDE DEF f
    <3>3. c * f \in Int /\ El(c * f) # 0
      BY <3>2, ElProduct
    <3>. QED
      BY <3>3 DEF e, f
  <2>8. Chord(u1, s1, u2, s2, El(c)) = Jacobian(El(X * (w * w)), El(Y * (w * w * w)), El(w))
    <3>1. LET V == ThirdX(l, x1, x1 + d)
              W == ThirdY(l, x1, y1, V)
              v == c * (d * (c * c))
          IN  Chord(El(x1 * (c * c)), El(y1 * (c * c * c)),
                    El((x1 + d) * (c * c)), El((y1 + l * d) * (c * c * c)), El(c))
                = Jacobian(El(V * (v * v)), El(W * (v * v * v)), El(v))
      BY <1>1, <2>2, <2>5, ChordIs
    <3>. QED
      BY <2>5, <2>6, <3>1, Zenon
  <2>. HIDE DEF X, Y, w
  <2>9. Raised(q, El(w)) = Jacobian(El(X * (w * w)), El(Y * (w * w * w)), El(w))
    BY <2>3, <2>4, <2>7, RaisedIs DEF Affine
  <2>10. El(X) \in Element /\ El(Y) \in Element /\ El(w) \in Element
    BY <2>3, <2>4, <2>7, ElIs
  <2>11. Raised(q, El(w)) \in JacobiansOf(q)
    BY <2>7, <2>10, JacobianOf
  <2>12. FiniteSum(p, u1, s1, u2, s2, El(c)) = Raised(q, El(w))
    <3>. HIDE DEF u1, s1, u2, s2, q
    <3>. QED
      BY <2>1, <2>8, <2>9, Zenon DEF FiniteSum
  <2>13. SumOf(a, b) = q
    BY <2>2 DEF X, Y
  <2>. QED
    BY <2>11, <2>12, <2>13, Zenon
<1>5. CASE x1 = x2 /\ y1 = y2
  <2>1. FiniteSum(p, u1, s1, u2, s2, El(c)) = Double(p)
    BY <1>5 DEF FiniteSum
  <2>2. Double(p) \in JacobiansOf(SumOf(a, a)) /\ a = b
    BY <1>5, DoubleIsExact
  <2>. QED
    BY <2>1, <2>2, Zenon
<1>6. CASE x1 = x2 /\ y1 # y2
  <2>1. s1 # s2 /\ u1 = u2
    BY <1>1, <1>3, <1>6, ElProduct
  <2>2. FiniteSum(p, u1, s1, u2, s2, El(c)) = InfinityJacobian
    <3>. HIDE DEF u1, u2, s1, s2
    <3>. QED
      BY <2>1, Zenon DEF FiniteSum
  <2>3. SumOf(a, b) = InfinityAffine
    <3>. HIDE DEF a, b
    <3>. QED
      BY <1>2, <1>6, Zenon DEF SumOf
  <2>. QED
    BY <2>2, <2>3, Zenon DEF JacobiansOf
<1>. QED
  BY <1>4, <1>5, <1>6

\* Coordinates in the field make a point.
LEMMA FieldPoint ==
    /\ InfinityAffine \in CurvePoints
    /\ \A x, y \in Element : Affine(x, y) \in CurvePoints
<1>1. InfinityAffine \in CurvePoints
  BY DEF CurvePoints
<1>2. ASSUME NEW x \in Element, NEW y \in Element PROVE Affine(x, y) \in CurvePoints
  BY DEF CurvePoints
<1>. QED
  BY <1>1, <1>2

\* A factor of 1 can be left out.
LEMMA ElOne ==
    ASSUME NEW a \in Int, NEW b \in Int, El(a) = 1
    PROVE  El(a * b) = El(b)
<1>1. El(b) \in Element /\ 1 \in Element /\ El(a * b) = Times(El(a), El(b))
  BY ElIs, TimesIs
<1>2. Times(El(b), 1) = El(b) /\ Times(El(b), 1) = Times(1, El(b))
  BY <1>1, TimesIs
<1>. QED
  BY <1>1, <1>2

\* A finite point, and one in Jacobian coordinates, by its coordinates.
LEMMA PointIs ==
    ASSUME NEW q \in CurvePoints
    PROVE  \/ q = InfinityAffine /\ q.infinity = TRUE /\ JacobiansOf(q) = {InfinityJacobian}
           \/ \E x, y \in Element :
                /\ q = Affine(x, y) /\ q.x = x /\ q.y = y /\ q.infinity = FALSE
                /\ q # InfinityAffine
<1>1. CASE q = InfinityAffine
  BY <1>1 DEF InfinityAffine, JacobiansOf
<1>2. CASE q # InfinityAffine
  <2>1. PICK x \in Element, y \in Element : q = Affine(x, y)
    BY <1>2 DEF CurvePoints
  <2>2. q.x = x /\ q.y = y /\ q.infinity = FALSE
    BY <2>1 DEF Affine
  <2>. QED
    BY <1>2, <2>1, <2>2
<1>. QED
  BY <1>1, <1>2

\* The coordinates of a point that stands for a finite one.
LEMMA RaisedPointIs ==
    ASSUME NEW x \in Element, NEW y \in Element, NEW p \in JacobiansOf(Affine(x, y))
    PROVE  \E z \in Element \ {0} :
             /\ p = Raised(Affine(x, y), z)
             /\ p.x = El(x * (z * z)) /\ p.y = El(y * (z * z * z)) /\ p.z = z
             /\ p.infinity = FALSE
<1>1. PICK z \in Element \ {0} : p = Raised(Affine(x, y), z)
  BY JacobianOf, Zenon DEF JacobiansOf
<1>2. p = Jacobian(El(x * (z * z)), El(y * (z * z * z)), z)
  BY <1>1, JacobianOf
<1>3. /\ p.x = El(x * (z * z)) /\ p.y = El(y * (z * z * z)) /\ p.z = z
      /\ p.infinity = FALSE
  BY <1>2 DEF Jacobian
<1>. QED
  BY <1>1, <1>3

\* What a number multiplies a coordinate with, to bring it to another third coordinate.
LEMMA PowersAre ==
    ASSUME NEW z \in Element
    PROVE  z \in Int /\ Squared(z) = El(z * z) /\ Times(Squared(z), z) = El(z * z * z)
<1>1. z \in Int /\ El(z) = z
  BY ElementIs
<1>2. z * z \in Int
  BY <1>1
<1>3. Squared(z) = El(z * z)
  BY <1>1, ElTwice
<1>4. Times(El(z * z), El(z)) = El((z * z) * z)
  BY <1>1, <1>2, ElIs, Zenon
<1>. QED
  BY <1>1, <1>3, <1>4

\* A point of its own third coordinate 1 stands for itself (AffinePoint::to_jacobian).
LEMMA ToJacobianIsExact ==
    ASSUME NEW q \in CurvePoints
    PROVE  ToJacobian(q) \in JacobiansOf(q)
<1>1. CASE q = InfinityAffine
  <2>1. q.infinity
    BY <1>1 DEF InfinityAffine
  <2>. QED
    BY <1>1, <2>1, Zenon DEF ToJacobian, JacobiansOf
<1>2. CASE q # InfinityAffine
  <2>1. PICK x \in Element, y \in Element : q = Affine(x, y) /\ q.x = x /\ q.y = y
                                            /\ q.infinity = FALSE
    <3>1. \E x, y \in Element : q = Affine(x, y) /\ q.x = x /\ q.y = y /\ q.infinity = FALSE
      BY <1>2, PointIs
    <3>. QED
      BY <3>1
  <2>2. 1 \in Element /\ 1 # 0
    BY PrimeIs DEF Element
  <2>3. Raised(Affine(x, y), 1) = Jacobian(El(x * (1 * 1)), El(y * (1 * 1 * 1)), 1)
        /\ Raised(Affine(x, y), 1) \in JacobiansOf(Affine(x, y))
    BY <2>2, JacobianOf
  <2>4. El(x * (1 * 1)) = x /\ El(y * (1 * 1 * 1)) = y
    <3>1. x \in Int /\ y \in Int /\ El(x) = x /\ El(y) = y
      BY ElementIs
    <3>2. x * (1 * 1) = x /\ y * (1 * 1 * 1) = y
      BY <3>1
    <3>. QED
      BY <3>1, <3>2
  <2>5. ToJacobian(q) = Jacobian(x, y, 1)
    BY <2>1 DEF ToJacobian
  <2>. QED
    BY <2>1, <2>3, <2>4, <2>5
<1>. QED
  BY <1>1, <1>2

\* The sum of two points of the field is one.
LEMMA SumIsPoint ==
    ASSUME NEW a \in CurvePoints, NEW b \in CurvePoints
    PROVE  SumOf(a, b) \in CurvePoints /\ SumOf(InfinityAffine, b) = b
           /\ SumOf(a, InfinityAffine) = a
<1>1. SumOf(InfinityAffine, b) = b
  BY DEF SumOf, InfinityAffine
<1>2. SumOf(a, InfinityAffine) = a
  <2>1. InfinityAffine.infinity = TRUE
    BY DEF InfinityAffine
  <2>2. a.infinity = TRUE => a = InfinityAffine
    BY PointIs
  <2>3. a = InfinityAffine \/ a.infinity = FALSE
    BY PointIs
  <2>4. CASE a = InfinityAffine
    BY <2>1, <2>4, Zenon DEF SumOf
  <2>5. CASE a.infinity = FALSE
    BY <2>1, <2>5, Zenon DEF SumOf
  <2>. QED
    BY <2>3, <2>4, <2>5
<1>3. CASE a = InfinityAffine \/ b = InfinityAffine
  BY <1>1, <1>2, <1>3
<1>4. CASE a # InfinityAffine /\ b # InfinityAffine
  <2>1. \E x, y \in Element : a = Affine(x, y) /\ a.x = x /\ a.y = y /\ a.infinity = FALSE
    BY <1>4, PointIs
  <2>2. \E x, y \in Element : b = Affine(x, y) /\ b.x = x /\ b.y = y /\ b.infinity = FALSE
    BY <1>4, PointIs
  <2>3. PICK x1 \in Element, y1 \in Element :
          a = Affine(x1, y1) /\ a.x = x1 /\ a.y = y1 /\ a.infinity = FALSE
    BY <2>1
  <2>4. PICK x2 \in Element, y2 \in Element :
          b = Affine(x2, y2) /\ b.x = x2 /\ b.y = y2 /\ b.infinity = FALSE
    BY <2>2
  <2>5. CASE x1 = x2 => y1 = y2 /\ y1 # 0
    <3>1. PICK l \in Int :
            SumOf(a, b) = Affine(El(ThirdX(l, x1, x2)), El(ThirdY(l, x1, y1, ThirdX(l, x1, x2))))
      BY <2>3, <2>4, <2>5, SumIs
    <3>. DEFINE X == ThirdX(l, x1, x2)
    <3>2. x1 \in Int /\ x2 \in Int /\ y1 \in Int
      BY ElementIs
    <3>3. X \in Int
      BY <3>1, <3>2 DEF ThirdX
    <3>. HIDE DEF X
    <3>4. ThirdY(l, x1, y1, X) \in Int
      BY <3>1, <3>2, <3>3 DEF ThirdY
    <3>5. El(X) \in Element /\ El(ThirdY(l, x1, y1, X)) \in Element
      BY <3>3, <3>4, ElIs
    <3>6. SumOf(a, b) = Affine(El(X), El(ThirdY(l, x1, y1, X)))
      BY <3>1 DEF X
    <3>. QED
      BY <1>1, <1>2, <3>5, <3>6, FieldPoint, Zenon
  <2>6. CASE x1 = x2 /\ (y1 # y2 \/ y1 = 0)
    <3>1. SumOf(a, b) = InfinityAffine
      BY <2>3, <2>4, <2>6, Zenon DEF SumOf
    <3>. QED
      BY <1>1, <1>2, <3>1, FieldPoint, Zenon
  <2>. QED
    BY <2>5, <2>6
<1>. QED
  BY <1>1, <1>2, <1>3, <1>4

\* What stands for a point stands for one of the field, and comes back to the point
\* (JacobianPoint::to_affine).
LEMMA ToAffineIsExact ==
    ASSUME NEW q \in CurvePoints, NEW p \in JacobiansOf(q)
    PROVE  p \in JacobianPoints /\ ToAffine(p) = q
<1>1. CASE q = InfinityAffine
  <2>1. p = InfinityJacobian
    BY <1>1 DEF JacobiansOf
  <2>2. 1 \in Element /\ 0 \in Element
    BY PrimeIs DEF Element
  <2>3. p \in JacobianPoints
    BY <2>1, <2>2 DEF InfinityJacobian, JacobianPoints
  <2>4. ~ IsFinite(p)
    BY <2>1 DEF IsFinite, InfinityJacobian
  <2>. QED
    BY <1>1, <2>3, <2>4, Zenon DEF ToAffine
<1>2. CASE q # InfinityAffine
  <2>1. \E x, y \in Element : q = Affine(x, y)
    BY <1>2, PointIs
  <2>2. PICK x \in Element, y \in Element : q = Affine(x, y)
    BY <2>1
  <2>3. PICK z \in Element \ {0} :
          /\ p = Raised(Affine(x, y), z)
          /\ p.x = El(x * (z * z)) /\ p.y = El(y * (z * z * z)) /\ p.z = z
          /\ p.infinity = FALSE
    BY <2>2, RaisedPointIs
  <2>4. x \in Int /\ y \in Int /\ z \in Int /\ El(x) = x /\ El(y) = y /\ El(z) = z
    BY ElementIs
  <2>. DEFINE w == Inverted(z)
              e == (z * w) * (z * w)
              f == (z * w) * (z * w) * (z * w)
  <2>5. w \in Element /\ Times(z, w) = 1
    BY <2>3, InverseIs
  <2>. HIDE DEF w
  <2>6. w \in Int /\ El(w) = w /\ Squared(w) = El(w * w) /\ Times(Squared(w), w) = El(w * w * w)
    BY <2>5, ElementIs, PowersAre
  <2>8. e \in Int /\ f \in Int /\ El(e) = 1 /\ El(f) = 1
    <3>. DEFINE n == z * w
    <3>1. n \in Int /\ El(n) = 1
      <4>1. El(z * w) = Times(El(z), El(w))
        BY <2>4, <2>6, ElIs
      <4>. QED
        BY <2>4, <2>5, <2>6, <4>1
    <3>. HIDE DEF n
    <3>2. n * n \in Int /\ El(n * n) = 1
      BY <3>1, ElOne
    <3>3. n * n * n \in Int /\ El(n * n * n) = 1
      BY <3>1, <3>2, ElOne
    <3>. QED
      BY <3>2, <3>3 DEF n
  <2>9. Times(p.x, Squared(w)) = x
    <3>1. x * (z * z) \in Int /\ w * w \in Int
      BY <2>4, <2>6
    <3>2. Times(El(x * (z * z)), El(w * w)) = El((x * (z * z)) * (w * w))
      BY <3>1, ElIs, Zenon
    <3>3. (x * (z * z)) * (w * w) = e * x
      BY <2>4, <2>6
    <3>. HIDE DEF e
    <3>4. El(e * x) = El(x)
      BY <2>4, <2>8, ElOne
    <3>. QED
      BY <2>3, <2>4, <2>6, <3>2, <3>3, <3>4
  <2>10. Times(p.y, Times(Squared(w), w)) = y
    <3>1. y * (z * z * z) \in Int /\ w * w * w \in Int
      BY <2>4, <2>6
    <3>2. Times(El(y * (z * z * z)), El(w * w * w)) = El((y * (z * z * z)) * (w * w * w))
      BY <3>1, ElIs, Zenon
    <3>3. (y * (z * z * z)) * (w * w * w) = f * y
      BY <2>4, <2>6
    <3>. HIDE DEF f
    <3>4. El(f * y) = El(y)
      BY <2>4, <2>8, ElOne
    <3>. QED
      BY <2>3, <2>4, <2>6, <3>2, <3>3, <3>4
  <2>11. Scaled(p, w) = q
    BY <2>2, <2>9, <2>10, Zenon DEF Scaled
  <2>12. ToAffine(p) = q
    <3>1. IsFinite(p)
      BY <2>3 DEF IsFinite
    <3>. QED
      BY <2>3, <2>11, <3>1, Zenon DEF ToAffine, w
  <2>13. p \in JacobianPoints
    <3>. DEFINE u == El(x * (z * z))
                v == El(y * (z * z * z))
    <3>1. u \in Element /\ v \in Element
      <4>1. x * (z * z) \in Int /\ y * (z * z * z) \in Int
        BY <2>4
      <4>. QED
        BY <4>1, ElIs
    <3>2. p = Jacobian(u, v, z)
      BY <2>3, JacobianOf
    <3>. HIDE DEF u, v
    <3>. QED
      BY <3>1, <3>2 DEF Jacobian, JacobianPoints
  <2>. QED
    BY <2>12, <2>13
<1>. QED
  BY <1>1, <1>2

\* The sum of a point in Jacobian coordinates and one in affine ones
\* (JacobianPoint::add_affine): it stands for their sum, whether they are the same, each
\* other's negatives or at infinity.
THEOREM AddAffineIsExact ==
    ASSUME NEW a \in CurvePoints, NEW b \in CurvePoints, NEW p \in JacobiansOf(a)
    PROVE  AddAffine(p, b) \in JacobiansOf(SumOf(a, b))
<1>1. CASE a = InfinityAffine
  <2>1. p = InfinityJacobian /\ p.infinity = TRUE
    BY <1>1 DEF JacobiansOf, InfinityJacobian
  <2>2. AddAffine(p, b) = ToJacobian(b)
    BY <2>1, Zenon DEF AddAffine
  <2>. QED
    BY <1>1, <2>2, SumIsPoint, ToJacobianIsExact
<1>2. CASE a # InfinityAffine
  <2>1. \E x, y \in Element : a = Affine(x, y)
    BY <1>2, PointIs
  <2>2. PICK x1 \in Element, y1 \in Element : a = Affine(x1, y1)
    BY <2>1
  <2>3. PICK z \in Element \ {0} :
          /\ p.x = El(x1 * (z * z)) /\ p.y = El(y1 * (z * z * z)) /\ p.z = z
          /\ p.infinity = FALSE
    <3>1. p \in JacobiansOf(Affine(x1, y1))
      BY <2>2
    <3>. QED
      BY <3>1, RaisedPointIs, ZenonT(40)
  <2>4. CASE b = InfinityAffine
    <3>1. b.infinity = TRUE
      BY <2>4 DEF InfinityAffine
    <3>2. AddAffine(p, b) = p
      BY <2>3, <3>1, Zenon DEF AddAffine
    <3>. QED
      BY <2>4, <3>2, SumIsPoint
  <2>5. CASE b # InfinityAffine
    <3>1. \E x, y \in Element : b = Affine(x, y) /\ b.x = x /\ b.y = y /\ b.infinity = FALSE
      BY <2>5, PointIs
    <3>2. PICK x2 \in Element, y2 \in Element :
            b = Affine(x2, y2) /\ b.x = x2 /\ b.y = y2 /\ b.infinity = FALSE
      BY <3>1
    <3>3. /\ z \in Int /\ El(z) = z /\ z # 0
          /\ Squared(z) = El(z * z) /\ Times(Squared(z), z) = El(z * z * z)
      BY ElementIs, PowersAre
    <3>4. x2 \in Int /\ y2 \in Int /\ El(x2) = x2 /\ El(y2) = y2
          /\ z * z \in Int /\ z * z * z \in Int
      BY <3>3, ElementIs
    <3>5. Times(b.x, Squared(z)) = El(x2 * (z * z))
      BY <3>2, <3>3, <3>4, ElIs
    <3>6. Times(b.y, Times(Squared(z), z)) = El(y2 * (z * z * z))
      BY <3>2, <3>3, <3>4, ElIs
    <3>7. AddAffine(p, b)
            = FiniteSum(p, El(x1 * (z * z)), El(y1 * (z * z * z)),
                        El(x2 * (z * z)), El(y2 * (z * z * z)), El(z))
      BY <2>3, <3>2, <3>3, <3>5, <3>6, Zenon DEF AddAffine
    <3>8. p \in JacobiansOf(Affine(x1, y1))
      BY <2>2
    <3>9. FiniteSum(p, El(x1 * (z * z)), El(y1 * (z * z * z)),
                    El(x2 * (z * z)), El(y2 * (z * z * z)), El(z))
            \in JacobiansOf(SumOf(Affine(x1, y1), Affine(x2, y2)))
      BY <3>3, <3>8, FiniteSumIsExact
    <3>. QED
      BY <2>2, <3>2, <3>7, <3>9
  <2>. QED
    BY <2>4, <2>5
<1>. QED
  BY <1>1, <1>2

\* The sum of two points in Jacobian coordinates (JacobianPoint::add_jacobian).
THEOREM AddJacobianIsExact ==
    ASSUME NEW a \in CurvePoints, NEW b \in CurvePoints,
           NEW p \in JacobiansOf(a), NEW q \in JacobiansOf(b)
    PROVE  AddJacobian(p, q) \in JacobiansOf(SumOf(a, b))
<1>1. CASE a = InfinityAffine
  <2>1. p = InfinityJacobian /\ p.infinity = TRUE
    BY <1>1 DEF JacobiansOf, InfinityJacobian
  <2>2. AddJacobian(p, q) = q
    BY <2>1, Zenon DEF AddJacobian
  <2>. QED
    BY <1>1, <2>2, SumIsPoint
<1>2. CASE a # InfinityAffine
  <2>1. \E x, y \in Element : a = Affine(x, y)
    BY <1>2, PointIs
  <2>2. PICK x1 \in Element, y1 \in Element : a = Affine(x1, y1)
    BY <2>1
  <2>3. PICK z1 \in Element \ {0} :
          /\ p.x = El(x1 * (z1 * z1)) /\ p.y = El(y1 * (z1 * z1 * z1)) /\ p.z = z1
          /\ p.infinity = FALSE
    <3>1. p \in JacobiansOf(Affine(x1, y1))
      BY <2>2
    <3>. QED
      BY <3>1, RaisedPointIs, ZenonT(40)
  <2>4. CASE b = InfinityAffine
    <3>1. q.infinity = TRUE
      BY <2>4 DEF JacobiansOf, InfinityJacobian
    <3>2. AddJacobian(p, q) = p
      BY <2>3, <3>1, Zenon DEF AddJacobian
    <3>. QED
      BY <2>4, <3>2, SumIsPoint
  <2>5. CASE b # InfinityAffine
    <3>1. \E x, y \in Element : b = Affine(x, y)
      BY <2>5, PointIs, ZenonT(60)
    <3>2. PICK x2 \in Element, y2 \in Element : b = Affine(x2, y2)
      BY <3>1
    <3>3. PICK z2 \in Element \ {0} :
            /\ q = Raised(Affine(x2, y2), z2)
            /\ q.x = El(x2 * (z2 * z2)) /\ q.y = El(y2 * (z2 * z2 * z2)) /\ q.z = z2
            /\ q.infinity = FALSE
      <4>1. q \in JacobiansOf(Affine(x2, y2))
        BY <3>2
      <4>. QED
        BY <4>1, RaisedPointIs
    <3>. DEFINE c == z1 * z2
    <3>4. /\ z1 \in Int /\ z2 \in Int /\ El(z1) = z1 /\ El(z2) = z2
          /\ x1 \in Int /\ y1 \in Int /\ x2 \in Int /\ y2 \in Int
          /\ Squared(z1) = El(z1 * z1) /\ Times(Squared(z1), z1) = El(z1 * z1 * z1)
          /\ Squared(z2) = El(z2 * z2) /\ Times(Squared(z2), z2) = El(z2 * z2 * z2)
      BY ElementIs, PowersAre
    <3>5. c \in Int /\ El(c) # 0 /\ Times(z1, z2) = El(c)
      <4>1. Times(z1, z2) = El(z1 * z2)
        BY <3>4, ElIs
      <4>2. El(z1 * z2) # 0
        <5>1. El(z1) # 0 /\ El(z2) # 0
          BY <3>4
        <5>. QED
          BY <3>4, <5>1, ElProduct
      <4>3. c \in Int
        BY <3>4
      <4>. QED
        BY <4>1, <4>2, <4>3
    <3>6. ASSUME NEW n \in Int, NEW u \in Int, NEW v \in Int
          PROVE  /\ Times(El(n * (u * u)), El(v * v)) = El(n * ((u * v) * (u * v)))
                 /\ Times(El(n * (u * u * u)), El(v * v * v))
                      = El(n * ((u * v) * (u * v) * (u * v)))
      <4>1. n * (u * u) \in Int /\ v * v \in Int /\ n * (u * u * u) \in Int /\ v * v * v \in Int
        OBVIOUS
      <4>2. (n * (u * u)) * (v * v) = n * ((u * v) * (u * v))
        OBVIOUS
      <4>3. (n * (u * u * u)) * (v * v * v) = n * ((u * v) * (u * v) * (u * v))
        OBVIOUS
      <4>4. Times(El(n * (u * u)), El(v * v)) = El((n * (u * u)) * (v * v))
        BY <4>1, ElIs, Zenon
      <4>5. Times(El(n * (u * u * u)), El(v * v * v)) = El((n * (u * u * u)) * (v * v * v))
        BY <4>1, ElIs, Zenon
      <4>. QED
        BY <4>2, <4>3, <4>4, <4>5
    <3>7. z2 * z1 = c
      BY <3>4
    <3>8. /\ Times(p.x, Squared(z2)) = El(x1 * (c * c))
          /\ Times(p.y, Times(Squared(z2), z2)) = El(y1 * (c * c * c))
      <4>1. /\ Times(El(x1 * (z1 * z1)), El(z2 * z2)) = El(x1 * (c * c))
            /\ Times(El(y1 * (z1 * z1 * z1)), El(z2 * z2 * z2)) = El(y1 * (c * c * c))
        BY <3>4, <3>6, ZenonT(40)
      <4>. QED
        BY <2>3, <3>4, <4>1, Zenon
    <3>9. /\ Times(q.x, Squared(z1)) = El(x2 * (c * c))
          /\ Times(q.y, Times(Squared(z1), z1)) = El(y2 * (c * c * c))
      <4>. DEFINE d == z2 * z1
      <4>1. /\ Times(El(x2 * (z2 * z2)), El(z1 * z1)) = El(x2 * (d * d))
            /\ Times(El(y2 * (z2 * z2 * z2)), El(z1 * z1 * z1)) = El(y2 * (d * d * d))
        BY <3>4, <3>6, Zenon
      <4>2. d = c
        BY <3>7
      <4>. HIDE DEF c, d
      <4>. QED
        BY <3>3, <3>4, <4>1, <4>2, Zenon
    <3>. HIDE DEF c
    <3>10. AddJacobian(p, q)
             = FiniteSum(p, El(x1 * (c * c)), El(y1 * (c * c * c)),
                         El(x2 * (c * c)), El(y2 * (c * c * c)), El(c))
      BY <2>3, <3>3, <3>5, <3>8, <3>9, Zenon DEF AddJacobian
    <3>11. p \in JacobiansOf(Affine(x1, y1))
      BY <2>2
    <3>12. FiniteSum(p, El(x1 * (c * c)), El(y1 * (c * c * c)),
                     El(x2 * (c * c)), El(y2 * (c * c * c)), El(c))
             \in JacobiansOf(SumOf(Affine(x1, y1), Affine(x2, y2)))
      BY <3>5, <3>11, FiniteSumIsExact
    <3>. QED
      BY <2>2, <3>2, <3>10, <3>12
  <2>. QED
    BY <2>4, <2>5
<1>. QED
  BY <1>1, <1>2

\* The double of any point.
LEMMA DoublesAreExact ==
    ASSUME NEW a \in CurvePoints, NEW p \in JacobiansOf(a)
    PROVE  Double(p) \in JacobiansOf(SumOf(a, a))
<1>1. CASE a = InfinityAffine
  <2>1. p = InfinityJacobian /\ p.infinity = TRUE
    BY <1>1 DEF JacobiansOf, InfinityJacobian
  <2>2. Double(p) = InfinityJacobian
    BY <2>1, Zenon DEF Double
  <2>3. SumOf(a, a) = a
    BY <1>1, SumIsPoint
  <2>. QED
    BY <2>1, <2>2, <2>3
<1>2. CASE a # InfinityAffine
  <2>1. \E x, y \in Element : a = Affine(x, y)
    BY <1>2, PointIs
  <2>. QED
    BY <2>1, DoubleIsExact
<1>. QED
  BY <1>1, <1>2

\* The points in Jacobian coordinates that stand for some point.
StandIns == UNION {JacobiansOf(q) : q \in CurvePoints}

\* They are closed under the operations of the curve.
LEMMA StandInsAreClosed ==
    ASSUME NEW p \in StandIns
    PROVE  /\ Double(p) \in StandIns
           /\ \A b \in CurvePoints : AddAffine(p, b) \in StandIns
           /\ \A q \in StandIns : AddJacobian(p, q) \in StandIns
<1>1. PICK a \in CurvePoints : p \in JacobiansOf(a)
  BY DEF StandIns
<1>2. Double(p) \in StandIns
  BY <1>1, DoublesAreExact, SumIsPoint, Zenon DEF StandIns
<1>3. ASSUME NEW b \in CurvePoints PROVE AddAffine(p, b) \in StandIns
  <2>1. AddAffine(p, b) \in JacobiansOf(SumOf(a, b)) /\ SumOf(a, b) \in CurvePoints
    BY <1>1, AddAffineIsExact, SumIsPoint
  <2>. QED
    BY <2>1, Zenon DEF StandIns
<1>4. ASSUME NEW q \in StandIns PROVE AddJacobian(p, q) \in StandIns
  <2>1. PICK b \in CurvePoints : q \in JacobiansOf(b)
    BY DEF StandIns
  <2>. QED
    <3>1. AddJacobian(p, q) \in JacobiansOf(SumOf(a, b)) /\ SumOf(a, b) \in CurvePoints
      BY <1>1, <2>1, AddJacobianIsExact, SumIsPoint
    <3>. QED
      BY <3>1, Zenon DEF StandIns
<1>. QED
  BY <1>2, <1>3, <1>4

-----------------------------------------------------------------------------
(* The multiples of the generator *)

\* The order is larger than 1.
LEMMA OrderIs ==
    /\ CurveOrder \in Nat /\ CurveOrder > 1 /\ 0 \in Numbers /\ 1 \in Numbers
    /\ \A n \in Nat : n % CurveOrder \in Numbers
    /\ \A n \in Numbers : n \in Nat /\ n % CurveOrder = n
<1>1. CurveOrder \in Nat /\ CurveOrder > 1
  <2>. DEFINE all == TotalBlocks * BlockSize
  <2>1. RangeMin \in Nat /\ RangeMin > 0 /\ RangeMax < CurveOrder /\ CurveOrder \in Nat
        /\ BlockSize \in Nat \ {0} /\ TotalBlocks \in Nat \ {0}
    BY SearchAssumption, FilterAssumption DEF TotalBlocks
  <2>2. all \in Nat /\ all >= 1
    BY <2>1
  <2>3. RangeMax = RangeMin + all - 1
    BY DEF RangeMax
  <2>. HIDE DEF all
  <2>. QED
    BY <2>1, <2>2, <2>3
<1>2. \A n \in Nat : n % CurveOrder \in 0 .. CurveOrder - 1
  BY <1>1, Divides
<1>3. \A n \in 0 .. CurveOrder - 1 : n % CurveOrder = n
  BY <1>1
<1>. QED
  BY <1>1, <1>2, <1>3 DEF Numbers

\* Each multiple is the sum of the one before it and the generator.
LEMMA MultipleUnfolds ==
    /\ Multiple \in [Numbers -> CurvePoints]
    /\ Multiple[0] = InfinityAffine
    /\ \A k \in Numbers \ {0} : Multiple[k] = SumOf(Multiple[k - 1], G)
<1>. DEFINE n == CurveOrder - 1
            op == [p \in CurvePoints \X (1 .. n) |-> SumOf(p[1], G)]
            Loop(it, i) == IF i = 0 THEN InfinityAffine ELSE SumOf(it[i - 1], G)
            Loops(it) == it = [i \in Numbers |-> Loop(it, i)]
<1>1. n \in Nat /\ Numbers = 0 .. n
  BY OrderIs DEF Numbers
<1>2. InfinityAffine \in CurvePoints /\ G \in CurvePoints
  BY GeneratorAssumption, FieldPoint DEF G
<1>3. PICK f \in [0 .. n -> CurvePoints] : Follows(f, InfinityAffine, op, n)
  <2>1. op \in [CurvePoints \X (1 .. n) -> CurvePoints]
    <3>1. \A x \in CurvePoints : SumOf(x, G) \in CurvePoints
      BY <1>2, SumIsPoint
    <3>. QED
      BY <3>1
  <2>. HIDE DEF op, n
  <2>. QED
    BY <1>1, <1>2, <2>1, RecursionExists
<1>4. f[0] = InfinityAffine /\ \A i \in 1 .. n : f[i] = SumOf(f[i - 1], G)
  <2>1. \A x \in CurvePoints, i \in 1 .. n : op[<<x, i>>] = SumOf(x, G)
    OBVIOUS
  <2>2. \A i \in 1 .. n : f[i - 1] \in CurvePoints
    BY <1>1, <1>3
  <2>. HIDE DEF op
  <2>. QED
    BY <1>3, <2>1, <2>2 DEF Follows
<1>. HIDE DEF n
<1>5. Loops(f)
  <2>1. \A i \in 0 .. n : f[i] = Loop(f, i)
    BY <1>1, <1>4
  <2>. HIDE DEF Loop
  <2>. QED
    BY <1>1, <1>3, <2>1
<1>6. Loops(Multiple)
  <2>. HIDE DEF Loops
  <2>1. Multiple = CHOOSE it : Loops(it)
    BY Zenon DEF Multiple, Loops
  <2>. QED
    BY <1>5, <2>1, Zenon
<1>7. Multiple[0] = InfinityAffine /\ \A i \in 1 .. n : Multiple[i] = SumOf(Multiple[i - 1], G)
  <2>1. \A i \in 0 .. n : Multiple[i] = Loop(Multiple, i)
    BY <1>1, <1>6
  <2>. HIDE DEF Loops
  <2>. QED
    BY <1>1, <2>1
<1>8. Alike(f, Multiple, n)
  <2>. HIDE DEF Loops
  <2>1. StepsAlike(f, Multiple, n)
    BY <1>1, <1>4, <1>7 DEF StepsAlike
  <2>. QED
    BY <1>1, <2>1, RecursionIsUnique
<1>9. Multiple \in [Numbers -> CurvePoints]
  <2>1. \A i \in Numbers : Multiple[i] \in CurvePoints
    BY <1>1, <1>3, <1>8 DEF Alike
  <2>2. Multiple = [i \in Numbers |-> Loop(Multiple, i)]
    BY <1>6
  <2>. HIDE DEF Loop, Loops
  <2>. QED
    BY <2>1, <2>2
<1>10. Numbers \ {0} = 1 .. n
  BY <1>1
<1>. HIDE DEF Loops
<1>. QED
  BY <1>7, <1>9, <1>10

\* The first multiples.
LEMMA MultipleIs ==
    /\ \A k \in Numbers : Multiple[k] \in CurvePoints
    /\ Multiple[0] = InfinityAffine /\ Multiple[1] = G /\ G \in CurvePoints
<1>1. 1 \in Numbers \ {0} /\ 1 - 1 = 0
  BY OrderIs
<1>2. G \in CurvePoints
  BY GeneratorAssumption, FieldPoint DEF G
<1>3. Multiple[1] = SumOf(Multiple[1 - 1], G)
  BY <1>1, MultipleUnfolds
<1>. QED
  BY <1>1, <1>2, <1>3, MultipleUnfolds, SumIsPoint

\* Multiples are added like numbers, modulo the order.
LEMMA MultiplesAdd ==
    ASSUME NEW m \in Nat, NEW n \in Nat
    PROVE  /\ m % CurveOrder \in Numbers /\ Multiple[m % CurveOrder] \in CurvePoints
           /\ SumOf(Multiple[m % CurveOrder], Multiple[n % CurveOrder])
                = Multiple[(m + n) % CurveOrder]
<1>. DEFINE x == m % CurveOrder
            y == n % CurveOrder
<1>1. x \in Numbers /\ y \in Numbers /\ x \in Nat /\ y \in Nat
  BY OrderIs
<1>2. SumOf(Multiple[x], Multiple[y]) = Multiple[(x + y) % CurveOrder]
  BY <1>1, GroupAssumption
<1>3. (x + y) % CurveOrder = (m + n) % CurveOrder
  <2>1. CurveOrder \in Nat \ {0} /\ m \in Int /\ n \in Int /\ x \in Int /\ y \in Int
    BY <1>1, OrderIs
  <2>2. (x + y) % CurveOrder = (m + y) % CurveOrder
    BY <2>1, ReducedTerm, Zenon
  <2>3. (y + m) % CurveOrder = (n + m) % CurveOrder
    BY <2>1, ReducedTerm, Zenon
  <2>4. y + m = m + y /\ n + m = m + n
    BY <2>1
  <2>. QED
    BY <2>2, <2>3, <2>4
<1>. HIDE DEF x, y
<1>4. Multiple[x] \in CurvePoints
  BY <1>1, MultipleIs
<1>. QED
  BY <1>1, <1>2, <1>3, <1>4 DEF x, y

-----------------------------------------------------------------------------
(* The points of a dispatch *)

\* A walk is the sequence of its points: each is the sum of the one before it and the
\* step (precompute_initial_points, the kernel's candidates).
LEMMA Walk256Unfolds ==
    ASSUME NEW first \in StandIns, NEW step \in CurvePoints, NEW count \in Nat \ {0}
    PROVE  \E f \in [0 .. count - 1 -> StandIns] :
             /\ f[0] = first
             /\ \A i \in 1 .. count - 1 : f[i] = AddAffine(f[i - 1], step)
             /\ Walk256(first, step, count) = [i \in 1 .. count |-> f[i - 1]]
<1>. DEFINE n == count - 1
            op == [p \in StandIns \X (1 .. n) |-> AddAffine(p[1], step)]
            Loop(it, i) == IF i = 1 THEN <<first>>
                           ELSE Append(it[i - 1], AddAffine(Last(it[i - 1]), step))
            Loops(it) == it = [i \in 1 .. count |-> Loop(it, i)]
            points == CHOOSE it : Loops(it)
<1>1. n \in Nat /\ count = n + 1 /\ count \in 1 .. count
  OBVIOUS
<1>2. PICK f \in [0 .. n -> StandIns] : Follows(f, first, op, n)
  <2>1. op \in [StandIns \X (1 .. n) -> StandIns]
    <3>1. \A x \in StandIns : AddAffine(x, step) \in StandIns
      BY StandInsAreClosed
    <3>. QED
      BY <3>1
  <2>. HIDE DEF op, n
  <2>. QED
    BY <1>1, <2>1, RecursionExists
<1>3. f[0] = first /\ \A i \in 1 .. n : f[i] = AddAffine(f[i - 1], step)
  <2>1. \A x \in StandIns, i \in 1 .. n : op[<<x, i>>] = AddAffine(x, step)
    OBVIOUS
  <2>2. \A i \in 1 .. n : f[i - 1] \in StandIns
    BY <1>1, <1>2
  <2>. HIDE DEF op
  <2>. QED
    BY <1>2, <2>1, <2>2 DEF Follows
<1>. HIDE DEF n, op
<1>. DEFINE g == [m \in 1 .. count |-> [i \in 1 .. m |-> f[i - 1]]]
<1>4. ASSUME NEW m \in 1 .. count PROVE g[m] \in Seq(StandIns) /\ Len(g[m]) = m
  <2>1. m \in Nat /\ \A i \in 1 .. m : f[i - 1] \in StandIns
    BY <1>1, <1>2
  <2>. QED
    BY <2>1
<1>5. ASSUME NEW m \in 1 .. count PROVE g[m] = Loop(g, m)
  <2>1. CASE m = 1
    <3>1. \A i \in 1 .. 1 : i - 1 = 0
      OBVIOUS
    <3>2. g[1] = <<first>>
      BY <1>3, <2>1, <3>1
    <3>. QED
      BY <2>1, <3>2
  <2>2. CASE m # 1
    <3>1. m - 1 \in 1 .. count /\ m - 1 \in 1 .. n /\ m - 1 # 0 /\ m - 1 \in Nat
      BY <1>1, <2>2
    <3>. DEFINE s == g[m - 1]
    <3>2. s \in Seq(StandIns) /\ Len(s) = m - 1 /\ \A i \in 1 .. m - 1 : s[i] = f[i - 1]
      BY <1>4, <3>1
    <3>3. Last(s) = f[m - 2]
      <4>1. m - 1 \in 1 .. m - 1 /\ m - 1 - 1 = m - 2
        BY <3>1
      <4>. HIDE DEF s
      <4>. QED
        BY <3>2, <4>1 DEF Last
    <3>4. f[m - 1] = AddAffine(f[m - 2], step) /\ f[m - 1] \in StandIns
      <4>1. m - 1 - 1 = m - 2 /\ m - 1 \in 0 .. n
        BY <3>1
      <4>. QED
        BY <1>2, <1>3, <3>1, <4>1
    <3>5. g[m] \in Seq(StandIns) /\ Len(g[m]) = m /\ \A i \in 1 .. m : g[m][i] = f[i - 1]
      BY <1>4
    <3>. DEFINE t == Append(s, f[m - 1])
    <3>. HIDE DEF s, g
    <3>6. t \in Seq(StandIns) /\ Len(t) = m
      BY <3>1, <3>2, <3>4
    <3>7. \A i \in 1 .. m : t[i] = f[i - 1]
      BY <3>1, <3>2, <3>4
    <3>. HIDE DEF t
    <3>8. g[m] = t
      <4>1. Len(g[m]) = Len(t) /\ \A i \in 1 .. Len(g[m]) : g[m][i] = t[i]
        BY <3>5, <3>6, <3>7
      <4>. QED
        BY <3>5, <3>6, <4>1, SeqEqual
    <3>. QED
      BY <2>2, <3>3, <3>4, <3>8 DEF s, t
  <2>. QED
    BY <2>1, <2>2
<1>6. Loops(g)
  <2>. DEFINE h == [i \in 1 .. count |-> Loop(g, i)]
  <2>1. DOMAIN g = 1 .. count /\ g = [i \in 1 .. count |-> g[i]]
    OBVIOUS
  <2>. HIDE DEF g, Loop
  <2>. QED
    BY <1>5, <2>1
<1>7. Loops(points)
  <2>. HIDE DEF Loops
  <2>. QED
    BY <1>6, Zenon
<1>. DEFINE p0 == [i \in 0 .. n |-> points[i + 1]]
            g0 == [i \in 0 .. n |-> g[i + 1]]
<1>. HIDE DEF points, g
<1>8. Alike(p0, g0, n)
  <2>1. \A m \in 1 .. count : points[m] = Loop(points, m) /\ g[m] = Loop(g, m)
    BY <1>6, <1>7
  <2>2. g0[0] = p0[0]
    BY <1>1, <2>1
  <2>3. ASSUME NEW i \in 1 .. n, g0[i - 1] = p0[i - 1] PROVE g0[i] = p0[i]
    <3>1. i + 1 \in 1 .. count /\ i + 1 # 1 /\ i + 1 - 1 = i /\ i - 1 + 1 = i
          /\ i - 1 \in 0 .. n /\ i \in 0 .. n
      BY <1>1
    <3>2. g[i] = points[i]
      BY <2>3, <3>1
    <3>3. Loop(g, i + 1) = Loop(points, i + 1)
      BY <3>1, <3>2
    <3>. HIDE DEF Loop
    <3>. QED
      BY <2>1, <3>1, <3>3
  <2>. HIDE DEF p0, g0
  <2>4. StepsAlike(p0, g0, n)
    BY <2>2, <2>3 DEF StepsAlike
  <2>. QED
    BY <1>1, <2>4, RecursionIsUnique
<1>9. points[count] = g[count]
  <2>1. n \in 0 .. n
    BY <1>1
  <2>2. p0[n] = g0[n]
    BY <1>8, <2>1 DEF Alike
  <2>. QED
    BY <1>1, <2>1, <2>2
<1>10. Walk256(first, step, count) = points[count]
  BY Zenon DEF Walk256, points
<1>11. Walk256(first, step, count) = [i \in 1 .. count |-> f[i - 1]]
  BY <1>1, <1>9, <1>10 DEF g
<1>. QED
  BY <1>2, <1>3, <1>11 DEF n

\* A walk from a multiple of the generator comes to the multiples that its steps add.
LEMMA WalkStandsFor ==
    ASSUME NEW k \in Nat, NEW m \in Nat, NEW count \in Nat \ {0},
           NEW first \in JacobiansOf(Multiple[k % CurveOrder])
    PROVE  LET walk == Walk256(first, Multiple[m % CurveOrder], count)
           IN  /\ walk \in Seq(JacobianPoints) /\ Len(walk) = count
               /\ \A i \in 1 .. count :
                    ToAffine(walk[i]) = Multiple[(k + (i - 1) * m) % CurveOrder]
<1>. DEFINE step == Multiple[m % CurveOrder]
            At256(i) == Multiple[(k + i * m) % CurveOrder]
<1>1. first \in StandIns /\ step \in CurvePoints
  BY MultiplesAdd, Zenon DEF StandIns
<1>2. PICK f \in [0 .. count - 1 -> StandIns] :
        /\ f[0] = first
        /\ \A i \in 1 .. count - 1 : f[i] = AddAffine(f[i - 1], step)
        /\ Walk256(first, step, count) = [i \in 1 .. count |-> f[i - 1]]
  <2>. HIDE DEF step
  <2>. QED
    BY <1>1, Walk256Unfolds
<1>. DEFINE U == {i \in 0 .. count - 1 : f[i] \in JacobiansOf(At256(i))}
<1>3. 0 \in U
  <2>1. k + 0 * m = k
    OBVIOUS
  <2>. QED
    BY <1>2, <2>1
<1>4. ASSUME NEW i \in 1 .. count - 1, i - 1 \in U PROVE i \in U
  <2>. DEFINE before == k + (i - 1) * m
  <2>1. before \in Nat /\ k + i * m = before + m
    <3>1. i - 1 \in Nat /\ i - 1 + 1 = i
      OBVIOUS
    <3>2. (i - 1) * m \in Nat /\ (i - 1 + 1) * m = (i - 1) * m + m
      BY <3>1, NextMultiple
    <3>. QED
      BY <3>1, <3>2
  <2>2. f[i - 1] \in JacobiansOf(Multiple[before % CurveOrder])
    BY <1>4
  <2>. HIDE DEF before
  <2>3. Multiple[before % CurveOrder] \in CurvePoints
        /\ SumOf(Multiple[before % CurveOrder], step) = Multiple[(before + m) % CurveOrder]
    BY <2>1, MultiplesAdd
  <2>. HIDE DEF step
  <2>4. AddAffine(f[i - 1], step) \in JacobiansOf(SumOf(Multiple[before % CurveOrder], step))
    BY <1>1, <2>2, <2>3, AddAffineIsExact
  <2>5. f[i] \in JacobiansOf(At256(i))
    BY <1>2, <2>1, <2>3, <2>4
  <2>. QED
    BY <2>5
<1>5. \A i \in 0 .. count - 1 : i \in U
  <2>1. count - 1 \in Nat
    OBVIOUS
  <2>. HIDE DEF U
  <2>. QED
    BY <1>3, <1>4, <2>1, InductionTo, Zenon
<1>6. ASSUME NEW i \in 1 .. count
      PROVE  f[i - 1] \in JacobianPoints /\ ToAffine(f[i - 1]) = At256(i - 1)
  <2>1. i - 1 \in 0 .. count - 1 /\ i - 1 \in Nat
    OBVIOUS
  <2>2. f[i - 1] \in JacobiansOf(At256(i - 1))
    BY <1>5, <2>1
  <2>3. At256(i - 1) \in CurvePoints
    <3>. DEFINE n == k + (i - 1) * m
    <3>1. n \in Nat
      <4>1. (i - 1) * m \in Nat
        BY <2>1
      <4>. QED
        BY <4>1
    <3>. HIDE DEF n
    <3>2. Multiple[n % CurveOrder] \in CurvePoints
      BY <3>1, MultiplesAdd
    <3>. QED
      BY <3>2 DEF n
  <2>. HIDE DEF At256
  <2>. QED
    BY <2>2, <2>3, ToAffineIsExact
<1>. DEFINE walk == Walk256(first, step, count)
<1>7. walk = [i \in 1 .. count |-> f[i - 1]]
  BY <1>2
<1>. HIDE DEF walk, At256
<1>8. walk \in Seq(JacobianPoints) /\ Len(walk) = count
  BY <1>6, <1>7
<1>9. \A i \in 1 .. count : ToAffine(walk[i]) = At256(i - 1)
  BY <1>6, <1>7
<1>. QED
  BY <1>8, <1>9 DEF walk, At256

\* The pieces that a sequence has been cut into, one after the other, are the sequence.
LEMMA FlattenIs ==
    ASSUME NEW S, NEW s \in Seq(S), NEW n \in Nat \ {0}, NEW cut \in [0 .. n -> 0 .. Len(s)],
           cut[0] = 0, cut[n] = Len(s), \A i \in 1 .. n : cut[i - 1] <= cut[i]
    PROVE  FlattenSeq([i \in 1 .. n |-> SubSeq(s, cut[i - 1] + 1, cut[i])]) = s
<1>. DEFINE parts == [i \in 1 .. n |-> SubSeq(s, cut[i - 1] + 1, cut[i])]
            Loop(it, i) == IF i = 1 THEN parts[i] ELSE it[i - 1] \o parts[i]
            Loops(it) == it = [i \in 1 .. Len(parts) |-> Loop(it, i)]
            flatten == CHOOSE it : Loops(it)
            g == [i \in 1 .. n |-> SubSeq(s, 1, cut[i])]
<1>1. Len(parts) = n /\ n \in Nat /\ n # 0 /\ 1 \in 1 .. n /\ n \in 1 .. n
  OBVIOUS
<1>2. FlattenSeq(parts) = flatten[Len(parts)]
  <2>. HIDE DEF parts
  <2>. QED
    BY <1>1, Zenon DEF FlattenSeq
<1>3. \A i \in 1 .. n : parts[i] = SubSeq(s, cut[i - 1] + 1, cut[i])
  OBVIOUS
<1>4. \A i \in 0 .. n : cut[i] \in 0 .. Len(s)
  OBVIOUS
<1>. HIDE DEF parts
<1>5. ASSUME NEW i \in 1 .. n PROVE g[i] = Loop(g, i)
  <2>1. CASE i = 1
    <3>1. i - 1 = 0 /\ cut[i - 1] + 1 = 1
      BY <2>1
    <3>2. parts[i] = SubSeq(s, cut[i - 1] + 1, cut[i])
      BY <1>3
    <3>3. g[i] = SubSeq(s, 1, cut[i])
      OBVIOUS
    <3>. HIDE DEF g
    <3>. QED
      BY <2>1, <3>1, <3>2, <3>3
  <2>2. CASE i # 1
    <3>1. i - 1 \in 1 .. n /\ i - 1 \in 0 .. n /\ i \in 0 .. n
      BY <2>2
    <3>. DEFINE m == cut[i - 1]
                k == cut[i]
    <3>2. m \in 0 .. Len(s) /\ k \in 0 .. Len(s) /\ m <= k
      BY <1>4, <3>1
    <3>. HIDE DEF m, k
    <3>3. 1 \in 1 .. Len(s) + 1 /\ m \in 1 - 1 .. Len(s) /\ k \in m .. Len(s)
      BY <3>2
    <3>4. SubSeq(s, 1, m) \o SubSeq(s, m + 1, k) = SubSeq(s, 1, k)
      BY <3>3, ConcatAdjacentSubSeq
    <3>. QED
      BY <1>3, <2>2, <3>1, <3>4 DEF m, k
  <2>. QED
    BY <2>1, <2>2
<1>6. Loops(g)
  <2>1. g = [i \in 1 .. n |-> g[i]]
    OBVIOUS
  <2>. HIDE DEF g, Loop
  <2>. QED
    BY <1>1, <1>5, <2>1
<1>7. Loops(flatten)
  <2>. HIDE DEF Loops
  <2>. QED
    BY <1>6, Zenon
<1>. HIDE DEF flatten, g
<1>8. \A i \in 1 .. n : flatten[i] = g[i]
  <2>. DEFINE T == {j \in 0 .. n : j = 0 \/ flatten[j] = g[j]}
  <2>1. \A i \in 1 .. n : flatten[i] = Loop(flatten, i) /\ g[i] = Loop(g, i)
    BY <1>1, <1>6, <1>7
  <2>2. 0 \in T
    OBVIOUS
  <2>3. ASSUME NEW i \in 1 .. n, i - 1 \in T PROVE i \in T
    <3>1. flatten[i] = g[i]
      <4>1. Loop(flatten, i) = Loop(g, i)
        <5>1. i # 1 => flatten[i - 1] = g[i - 1]
          BY <2>3
        <5>. QED
          BY <5>1
      <4>. HIDE DEF Loop
      <4>. QED
        BY <2>1, <4>1
    <3>. QED
      BY <3>1
  <2>4. \A i \in 0 .. n : i \in T
    <3>. HIDE DEF T
    <3>. QED
      BY <1>1, <2>2, <2>3, InductionTo
  <2>. QED
    BY <2>4
<1>9. g[n] = s
  BY <1>1, SubSeqFull DEF g
<1>. QED
  BY <1>1, <1>2, <1>8, <1>9 DEF parts

\* The ends of the batches.
LEMMA BatchEnds ==
    ASSUME NEW len \in Nat \ {0}, NEW batch \in Nat \ {0}
    PROVE  LET n == (len + batch - 1) \div batch
               end(i) == IF i * batch < len THEN i * batch ELSE len
           IN  /\ n \in Nat \ {0}
               /\ \A i \in 0 .. n : end(i) \in 0 .. len
               /\ end(0) = 0 /\ end(n) = len
               /\ \A i \in 1 .. n : end(i - 1) = (i - 1) * batch /\ end(i - 1) <= end(i)
<1>. DEFINE n == (len + batch - 1) \div batch
            r == (len + batch - 1) % batch
            all == n * batch
<1>1. n \in Nat /\ r \in 0 .. batch - 1 /\ len + batch - 1 = n * batch + r
  <2>. DEFINE v == len + batch - 1
  <2>1. v \in Nat
    OBVIOUS
  <2>. HIDE DEF v
  <2>. QED
    BY <2>1, Divides DEF v
<1>. HIDE DEF n, r
<1>2. all \in Nat /\ all >= len /\ all < len + batch
  BY <1>1
<1>3. n # 0
  BY <1>1, <1>2
<1>4. ASSUME NEW i \in Nat
      PROVE  i * batch \in Nat /\ (i + 1) * batch = i * batch + batch
  BY NextMultiple
<1>5. ASSUME NEW i \in 1 .. n PROVE (i - 1) * batch \in Nat /\ (i - 1) * batch < len
                                    /\ i * batch = (i - 1) * batch + batch
  <2>1. i - 1 \in Nat /\ i - 1 + 1 = i /\ i \in Nat /\ i <= n
    BY <1>1
  <2>2. (i - 1) * batch \in Nat /\ (i - 1 + 1) * batch = (i - 1) * batch + batch
    BY <1>4, <2>1
  <2>3. i * batch <= n * batch
    BY <1>1, <2>1, FactorsAreOrdered
  <2>. DEFINE x == (i - 1) * batch
              y == i * batch
  <2>4. x \in Nat /\ y = x + batch /\ y <= all
    BY <2>1, <2>2, <2>3
  <2>. HIDE DEF x, y, all
  <2>5. x < len
    BY <1>2, <2>4
  <2>. QED
    BY <2>4, <2>5 DEF x, y
<1>. DEFINE end(i) == IF i * batch < len THEN i * batch ELSE len
<1>6. \A i \in 0 .. n : end(i) \in 0 .. len
  BY <1>4, <1>1
<1>7. end(0) = 0
  BY <1>4
<1>8. end(n) = len
  BY <1>2
<1>9. ASSUME NEW i \in 1 .. n PROVE end(i - 1) = (i - 1) * batch /\ end(i - 1) <= end(i)
  BY <1>5
<1>. QED
  BY <1>1, <1>3, <1>6, <1>7, <1>8, <1>9 DEF n

\* However many points share an inversion, the candidates of a thread are the points of
\* its walk.
LEMMA CandidatesAre ==
    ASSUME NEW walk \in Seq(JacobianPoints), Len(walk) > 0, NEW batch \in Nat \ {0}
    PROVE  FlattenSeq([n \in DOMAIN Batches(walk, batch) |-> BatchToAffine(Batches(walk, batch)[n])])
             = [i \in 1 .. Len(walk) |-> ToAffine(walk[i])]
<1>. DEFINE len == Len(walk)
            n == (len + batch - 1) \div batch
            end(i) == IF i * batch < len THEN i * batch ELSE len
            cut == [i \in 0 .. n |-> end(i)]
            s == [i \in 1 .. len |-> ToAffine(walk[i])]
            S == {ToAffine(walk[i]) : i \in 1 .. len}
<1>1. len \in Nat \ {0} /\ \A i \in 1 .. len : walk[i] \in JacobianPoints
  OBVIOUS
<1>2. s \in Seq(S) /\ Len(s) = len
  BY <1>1
<1>3. /\ n \in Nat \ {0}
      /\ \A i \in 0 .. n : end(i) \in 0 .. len
      /\ end(0) = 0 /\ end(n) = len
      /\ \A i \in 1 .. n : end(i - 1) = (i - 1) * batch /\ end(i - 1) <= end(i)
  <2>. HIDE DEF len
  <2>. QED
    BY <1>1, BatchEnds
<1>4. Batches(walk, batch) = [m \in 1 .. n |-> SubSeq(walk, (m - 1) * batch + 1, end(m))]
  BY DEF Batches
<1>. HIDE DEF n, end
<1>5. ASSUME NEW m \in 1 .. n
      PROVE  BatchToAffine(Batches(walk, batch)[m]) = SubSeq(s, cut[m - 1] + 1, cut[m])
  <2>. DEFINE a == cut[m - 1] + 1
              b == cut[m]
              part == SubSeq(walk, a, b)
              other == SubSeq(s, a, b)
              k == b - a + 1
  <2>1. m - 1 \in 0 .. n /\ m \in 0 .. n
    BY <1>3
  <2>2. cut[m - 1] = end(m - 1) /\ cut[m] = end(m)
    BY <2>1
  <2>3. a \in 1 .. len + 1 /\ b \in 0 .. len /\ a <= b + 1 /\ a = (m - 1) * batch + 1
    <3>1. end(m - 1) \in 0 .. len /\ end(m) \in 0 .. len /\ end(m - 1) <= end(m)
          /\ end(m - 1) = (m - 1) * batch
      BY <1>3, <2>1
    <3>. HIDE DEF len
    <3>. QED
      BY <1>1, <2>2, <3>1
  <2>4. Batches(walk, batch)[m] = part
    BY <1>4, <2>2, <2>3
  <2>. HIDE DEF a, b, len, s
  <2>5. a \in Int /\ b \in Int /\ \A i \in a .. b : i \in 1 .. len
    BY <1>1, <2>3
  <2>6. /\ part \in Seq(JacobianPoints) /\ Len(part) = IF a <= b THEN b - a + 1 ELSE 0
        /\ \A i \in 1 .. b - a + 1 : part[i] = walk[a + i - 1]
    <3>1. \A i \in a .. b : walk[i] \in JacobianPoints
      BY <1>1, <2>5
    <3>. DEFINE Points256 == JacobianPoints
    <3>2. walk \in Seq(Points256) /\ \A i \in a .. b : walk[i] \in Points256
      BY <3>1
    <3>. HIDE DEF Points256
    <3>3. /\ part \in Seq(Points256) /\ Len(part) = IF a <= b THEN b - a + 1 ELSE 0
          /\ \A i \in 1 .. b - a + 1 : part[i] = walk[a + i - 1]
      BY <2>5, <3>2, SubSeqProperties
    <3>. QED
      BY <3>3 DEF Points256
  <2>7. /\ other \in Seq(S) /\ Len(other) = IF a <= b THEN b - a + 1 ELSE 0
        /\ \A i \in 1 .. b - a + 1 : other[i] = s[a + i - 1]
    <3>1. \A i \in a .. b : s[i] \in S
      BY <2>5 DEF s
    <3>. HIDE DEF S
    <3>. QED
      BY <2>5, <3>1, SubSeqProperties
  <2>. HIDE DEF part, other, S
  <2>8. BatchToAffine(part) = [i \in 1 .. Len(part) |-> ToAffine(part[i])]
    BY <2>6, BatchInversionIsExact
  <2>9. k \in Nat /\ Len(part) = k /\ Len(other) = k
    BY <2>3, <2>6, <2>7, <1>1
  <2>10. \A i \in 1 .. k : ToAffine(part[i]) = other[i]
    <3>1. \A i \in 1 .. k : a + i - 1 \in 1 .. len
      BY <1>1, <2>3
    <3>2. \A i \in 1 .. k : s[a + i - 1] = ToAffine(walk[a + i - 1])
      BY <3>1 DEF s
    <3>. QED
      BY <2>6, <2>7, <3>2
  <2>. HIDE DEF k
  <2>11. BatchToAffine(part) = [i \in 1 .. k |-> other[i]]
    BY <2>8, <2>9, <2>10
  <2>12. other = [i \in 1 .. k |-> other[i]]
    BY <2>7, <2>9
  <2>. QED
    BY <2>4, <2>11, <2>12 DEF other, a, b
<1>6. DOMAIN Batches(walk, batch) = 1 .. n
  BY <1>4
<1>7. FlattenSeq([m \in 1 .. n |-> SubSeq(s, cut[m - 1] + 1, cut[m])]) = s
  <2>1. cut \in [0 .. n -> 0 .. Len(s)]
    BY <1>2, <1>3
  <2>2. cut[0] = 0 /\ cut[n] = Len(s) /\ \A i \in 1 .. n : cut[i - 1] <= cut[i]
    <3>1. 0 \in 0 .. n /\ n \in 0 .. n /\ \A i \in 1 .. n : i - 1 \in 0 .. n /\ i \in 0 .. n
      BY <1>3
    <3>. HIDE DEF s
    <3>. QED
      BY <1>2, <1>3, <3>1
  <2>. HIDE DEF cut, s, S
  <2>. QED
    BY <1>2, <1>3, <2>1, <2>2, FlattenIs
<1>. HIDE DEF s, cut
<1>8. [m \in DOMAIN Batches(walk, batch) |-> BatchToAffine(Batches(walk, batch)[m])]
        = [m \in 1 .. n |-> SubSeq(s, cut[m - 1] + 1, cut[m])]
  BY <1>5, <1>6
<1>. QED
  BY <1>7, <1>8 DEF s

-----------------------------------------------------------------------------
(* Digits *)

\* The quotient is the only one.
LEMMA QuotientOfInt ==
    ASSUME NEW r \in Nat \ {0}, NEW m \in 0 .. r - 1, NEW q \in Int
    PROVE  (q * r + m) \div r = q
OBVIOUS

\* Exponents of the same number are added.
LEMMA PowerAdds ==
    ASSUME NEW b \in Nat, NEW m \in Nat, NEW n \in Nat
    PROVE  Power(b, m + n) = Power(b, m) * Power(b, n)
<1>. DEFINE T == {j \in 0 .. n : Power(b, m + j) = Power(b, m) * Power(b, j)}
<1>1. Power(b, 0) = 1 /\ \A k \in Nat : Power(b, k) \in Nat /\ Power(b, k + 1) = Power(b, k) * b
  BY PowerIs
<1>2. 0 \in T
  BY <1>1
<1>3. ASSUME NEW i \in 1 .. n, i - 1 \in T PROVE i \in T
  <2>1. i - 1 \in Nat /\ i - 1 + 1 = i /\ m + (i - 1) \in Nat /\ m + (i - 1) + 1 = m + i
    OBVIOUS
  <2>. DEFINE x == Power(b, m)
              y == Power(b, i - 1)
  <2>2. Power(b, m + (i - 1)) = x * y
    BY <1>3
  <2>3. Power(b, i) = y * b
    BY <1>1, <2>1
  <2>4. Power(b, m + i) = Power(b, m + (i - 1)) * b
    BY <1>1, <2>1
  <2>5. x \in Nat /\ y \in Nat
    BY <1>1, <2>1
  <2>. HIDE DEF x, y
  <2>6. (x * y) * b = x * (y * b)
    BY <2>5
  <2>. HIDE <1>1
  <2>7. Power(b, m + i) = x * Power(b, i)
    BY <2>2, <2>3, <2>4, <2>6
  <2>. QED
    BY <2>7 DEF x
<1>. HIDE DEF T
<1>4. \A i \in 0 .. n : i \in T
  BY <1>2, <1>3, InductionTo
<1>. QED
  BY <1>4 DEF T

\* Exponents of a power are multiplied.
LEMMA PowerMultiplies ==
    ASSUME NEW b \in Nat, NEW m \in Nat, NEW n \in Nat
    PROVE  Power(Power(b, m), n) = Power(b, m * n)
<1>. DEFINE c == Power(b, m)
            T == {j \in 0 .. n : Power(c, j) = Power(b, m * j)}
<1>1. Power(b, 0) = 1 /\ \A k \in Nat : Power(b, k) \in Nat /\ Power(b, k + 1) = Power(b, k) * b
  BY PowerIs
<1>2. c \in Nat
  BY <1>1
<1>. HIDE DEF c
<1>3. Power(c, 0) = 1 /\ \A k \in Nat : Power(c, k) \in Nat /\ Power(c, k + 1) = Power(c, k) * c
  BY <1>2, PowerIs
<1>4. 0 \in T
  <2>1. m * 0 = 0
    OBVIOUS
  <2>. QED
    BY <1>1, <1>3, <2>1
<1>5. ASSUME NEW i \in 1 .. n, i - 1 \in T PROVE i \in T
  <2>1. i - 1 \in Nat /\ i - 1 + 1 = i
    OBVIOUS
  <2>2. m * (i - 1) \in Nat /\ m * i = m * (i - 1) + m
    BY <2>1
  <2>. DEFINE k == m * (i - 1)
  <2>3. Power(c, i) = Power(c, i - 1) * c
    BY <1>3, <2>1
  <2>4. Power(c, i - 1) = Power(b, k)
    BY <1>5
  <2>5. k \in Nat /\ m * i = k + m
    BY <2>2
  <2>. HIDE DEF k
  <2>6. Power(b, k + m) = Power(b, k) * c
    BY <2>5, PowerAdds DEF c
  <2>7. Power(c, i) = Power(b, m * i)
    BY <2>3, <2>4, <2>5, <2>6
  <2>. QED
    BY <2>7
<1>. HIDE DEF T
<1>6. \A i \in 0 .. n : i \in T
  BY <1>4, <1>5, InductionTo
<1>. QED
  BY <1>6 DEF T, c

\* To divide twice is to divide by the product.
LEMMA QuotientTwice ==
    ASSUME NEW n \in Nat, NEW a \in Nat \ {0}, NEW b \in Nat \ {0}
    PROVE  (n \div a) \div b = n \div (a * b)
<1>. DEFINE q == n \div a
            r == n % a
<1>1. q \in Nat /\ r \in 0 .. a - 1 /\ n = q * a + r
  BY Divides
<1>. HIDE DEF r
<1>. DEFINE s == q \div b
            t == q % b
<1>2. s \in Nat /\ t \in 0 .. b - 1 /\ q = s * b + t
  BY <1>1, Divides
<1>. HIDE DEF q, s, t
<1>3. n = s * (a * b) + (t * a + r)
  BY <1>1, <1>2
<1>4. a * b \in Nat \ {0} /\ t * a + r \in 0 .. a * b - 1
  <2>1. t * a <= (b - 1) * a /\ (b - 1) * a = a * b - a /\ t * a \in Nat
    BY <1>2, FactorsAreOrdered
  <2>2. a * b \in Nat \ {0}
    OBVIOUS
  <2>. DEFINE x == t * a
              y == a * b
  <2>3. x \in Nat /\ y \in Nat /\ x <= y - a
    BY <2>1, <2>2
  <2>. HIDE DEF x, y
  <2>4. x + r \in 0 .. y - 1
    BY <1>1, <2>3
  <2>. QED
    BY <2>2, <2>4 DEF x, y
<1>5. n \div (a * b) = s
  <2>. DEFINE c == a * b
              m == t * a + r
  <2>1. c \in Nat \ {0} /\ m \in 0 .. c - 1 /\ s \in Int /\ n = s * c + m
    BY <1>2, <1>3, <1>4
  <2>. HIDE DEF c, m
  <2>2. (s * c + m) \div c = s
    BY <2>1, QuotientOfInt
  <2>. QED
    BY <2>1, <2>2 DEF c
<1>. QED
  BY <1>5 DEF s, q

\* One digit more.
LEMMA NextDigit ==
    ASSUME NEW n \in Nat, NEW a \in Nat \ {0}, NEW b \in Nat \ {0}
    PROVE  n % (a * b) = (n % a) + ((n \div a) % b) * a
<1>. DEFINE q == n \div a
            r == n % a
            c == a * b
<1>1. q \in Nat /\ r \in Nat /\ n = q * a + r
  BY Divides
<1>. HIDE DEF r
<1>. DEFINE s == q \div b
            t == q % b
<1>2. s \in Nat /\ t \in Nat /\ q = s * b + t
  BY <1>1, Divides
<1>3. c \in Nat \ {0}
  OBVIOUS
<1>4. n = (n \div c) * c + (n % c)
  <2>. HIDE DEF c
  <2>. QED
    BY <1>3, Divides
<1>5. n \div c = s
  BY QuotientTwice
<1>. HIDE DEF q, s, t
<1>6. n = s * c + (t * a + r)
  BY <1>1, <1>2
<1>7. s * c \in Nat /\ t * a \in Nat
  BY <1>1, <1>2, <1>3
<1>. DEFINE x == s * c
            y == t * a
            m == n % c
<1>8. m \in Nat
  BY <1>3, Divides
<1>9. n = x + m /\ n = x + (y + r) /\ x \in Nat /\ y \in Nat
  <2>1. n = x + m
    BY <1>4, <1>5
  <2>2. s * c + (t * a + r) = x + (y + r)
    OBVIOUS
  <2>. HIDE DEF c, m
  <2>. QED
    BY <1>6, <1>7, <2>1, <2>2
<1>. HIDE DEF x, y, m
<1>10. m = r + y
  BY <1>1, <1>8, <1>9
<1>. QED
  BY <1>10 DEF m, r, y, t, q, c

\* What is above a digit does not change it.
LEMMA DigitOfPart ==
    ASSUME NEW x \in Nat, NEW a \in Nat \ {0}, NEW b \in Nat \ {0}, NEW c \in Nat \ {0},
           NEW d \in Nat \ {0}, d = a * (b * c)
    PROVE  ((x % d) \div a) % b = (x \div a) % b
<1>. DEFINE q == x \div d
            r == x % d
<1>1. q \in Nat /\ r \in 0 .. d - 1 /\ x = q * d + r
  BY Divides, Zenon
<1>2. q \in Nat /\ r \in Nat /\ x = q * d + r
  <2>. HIDE DEF q, r
  <2>. QED
    BY <1>1
<1>. HIDE DEF q, r
<1>. DEFINE s == r \div a
            t == r % a
<1>3. s \in Nat /\ t \in 0 .. a - 1 /\ r = s * a + t
  BY <1>2, Divides
<1>. HIDE DEF s, t
<1>4. x = ((q * c) * b + s) * a + t /\ (q * c) * b + s \in Int /\ q * c \in Int
  BY <1>2, <1>3
<1>5. x \div a = (q * c) * b + s
  BY <1>3, <1>4, QuotientOfInt
<1>6. ((q * c) * b + s) % b = s % b
  <2>. DEFINE k == q * c
  <2>1. k \in Int /\ s \in Int
    BY <1>3, <1>4
  <2>. HIDE DEF k
  <2>2. (k * b + s) % b = s % b
    BY <2>1, SameRemainder, Zenon
  <2>. QED
    BY <2>2 DEF k
<1>. QED
  BY <1>5, <1>6 DEF s, r

\* The limbs of a number are its digits.
LEMMA LimbsAre ==
    ASSUME NEW n \in Nat
    PROVE  /\ FromNat(n) \in Words
           /\ FromNat(n) = [i \in Index |-> (n \div Power(Base, i - 1)) % Base]
<1>. DEFINE f == [i \in Index |-> (n \div Power(Base, i - 1)) % Base]
<1>1. Limbs \in Nat /\ Base \in Nat \ {0} /\ 1 <= Limbs + 1
  BY PrimeIs
<1>2. ASSUME NEW i \in Index PROVE (n \div Power(Base, i - 1)) % Base \in 0 .. Base - 1
  <2>1. i - 1 \in Nat
    BY <1>1 DEF Index
  <2>2. Power(Base, i - 1) \in Nat \ {0}
    BY <1>1, <2>1, PowerGrows
  <2>3. n \div Power(Base, i - 1) \in Nat
    BY <2>2, Divides
  <2>. QED
    BY <1>1, <2>3, Divides
<1>3. f \in [1 .. Limbs -> 0 .. Base - 1]
  BY <1>2 DEF Index
<1>. HIDE DEF f
<1>4. SubSeq(f, 1, Limbs) = f
  <2>1. f \in Seq(0 .. Base - 1) /\ Len(f) = Limbs
    BY <1>1, <1>3
  <2>. QED
    BY <2>1, SubSeqFull
<1>5. FromNat(n) = f
  BY <1>4 DEF FromNat, Word, f
<1>. QED
  BY <1>3, <1>5 DEF f, Words, Index

\* The digits of the limbs of a number, in a base of which a limb is a power, are those of
\* the number: its bits, its bytes, or the halves of its limbs.
LEMMA DigitsOfLimbs ==
    ASSUME NEW n \in Nat, NEW b \in Nat \ {0}, NEW c \in Nat \ {0}, Base = Power(b, c),
           NEW k \in 1 .. Limbs * c
    PROVE  /\ (k - 1) \div c + 1 \in Index /\ (k - 1) % c \in 0 .. c - 1
           /\ (FromNat(n)[(k - 1) \div c + 1] \div Power(b, (k - 1) % c)) % b
                = (n \div Power(b, k - 1)) % b
<1>. DEFINE a == FromNat(n)
            q == (k - 1) \div c
            r == (k - 1) % c
<1>1. Limbs \in Nat \ {0} /\ k - 1 \in Nat /\ Base \in Nat \ {0}
  BY PrimeIs
<1>2. q \in Nat /\ r \in 0 .. c - 1 /\ k - 1 = c * q + r
  <2>1. q \in Nat /\ r \in 0 .. c - 1 /\ k - 1 = q * c + r
    BY <1>1, Divides
  <2>2. q * c = c * q
    BY <2>1
  <2>. QED
    BY <2>1, <2>2
<1>. HIDE DEF q, r
<1>3. q + 1 \in Index
  <2>1. CASE q >= Limbs
    <3>1. Limbs * c <= q * c
      BY <1>1, <1>2, <2>1, FactorsAreOrdered
    <3>2. q * c = c * q
      BY <1>1, <1>2
    <3>. DEFINE x == c * q
                y == Limbs * c
    <3>3. x \in Nat /\ y \in Nat /\ k <= y /\ y <= x /\ k - 1 = x + r
      BY <1>1, <1>2, <3>1, <3>2
    <3>. HIDE DEF x, y
    <3>. QED
      BY <1>2, <3>3
  <2>. QED
    BY <1>1, <1>2, <2>1 DEF Index
<1>. DEFINE u == Power(Base, q)
            v == Power(b, r)
            w == Power(b, c - r - 1)
            x == n \div u
<1>4. u \in Nat \ {0} /\ v \in Nat \ {0} /\ w \in Nat \ {0}
  <2>1. c - r - 1 \in Nat /\ r \in Nat
    BY <1>2
  <2>. QED
    BY <1>1, <1>2, <2>1, PowerGrows, SMTT(30)
<1>5. Base = v * (b * w)
  <2>1. c - r - 1 \in Nat /\ r \in Nat /\ c - r - 1 + 1 = c - r
        /\ c - r \in Nat /\ r + (c - r) = c
    BY <1>2
  <2>2. Power(b, c - r) = w * b
    <3>1. Power(b, (c - r - 1) + 1) = w * b
      BY <2>1, PowerIs
    <3>. QED
      BY <2>1, <3>1
  <2>3. Power(b, r + (c - r)) = v * Power(b, c - r)
    BY <2>1, PowerAdds
  <2>4. w * b = b * w
    BY <1>4
  <2>. HIDE DEF v, w
  <2>. QED
    BY <2>1, <2>2, <2>3, <2>4
<1>6. u * v = Power(b, k - 1)
  <2>1. u = Power(b, c * q)
    BY <1>1, <1>2, PowerMultiplies
  <2>2. c * q \in Nat /\ r \in Nat
    BY <1>1, <1>2
  <2>3. Power(b, c * q + r) = Power(b, c * q) * v
    BY <2>2, PowerAdds
  <2>. QED
    BY <1>2, <2>1, <2>3
<1>. HIDE DEF u, v, w, x
<1>7. a[q + 1] = (n \div Power(Base, q)) % Base
  <2>. DEFINE j == q + 1
  <2>1. j \in Index /\ j - 1 = q
    BY <1>2, <1>3
  <2>. HIDE DEF j
  <2>2. \A i \in Index : a[i] = (n \div Power(Base, i - 1)) % Base
    BY LimbsAre
  <2>. HIDE DEF a
  <2>3. a[j] = (n \div Power(Base, j - 1)) % Base
    BY <2>1, <2>2, Zenon
  <2>. QED
    BY <2>1, <2>3 DEF j
<1>8. x \in Nat
  BY <1>4, Divides DEF x
<1>9. x \div v = n \div (u * v)
  BY <1>4, QuotientTwice DEF x
<1>. HIDE DEF a
<1>10. ((x % Base) \div v) % b = (x \div v) % b
  <2>1. \A m \in Nat, i, j, h, g \in Nat \ {0} :
          g = i * (j * h) => ((m % g) \div i) % j = (m \div i) % j
    BY DigitOfPart
  <2>. QED
    <3>1. v \in Nat \ {0} /\ w \in Nat \ {0}
      BY <1>4
    <3>2. \A i, j, h, g \in Nat \ {0} :
          g = i * (j * h) => ((x % g) \div i) % j = (x \div i) % j
      BY <1>8, <2>1, Zenon
    <3>3. \A j, h, g \in Nat \ {0} :
          g = v * (j * h) => ((x % g) \div v) % j = (x \div v) % j
      BY <3>1, <3>2, Zenon
    <3>4. \A g \in Nat \ {0} :
          g = v * (b * w) => ((x % g) \div v) % b = (x \div v) % b
      BY <3>1, <3>3, Zenon
    <3>. QED
      BY <1>1, <1>5, <3>4, Zenon
<1>11. a[q + 1] = x % Base
  BY <1>7 DEF x, u
<1>. QED
  BY <1>2, <1>3, <1>6, <1>9, <1>10, <1>11 DEF a, q, r, v

\* The bits of the limbs of a number are its binary digits.
LEMMA BitsAre ==
    ASSUME NEW n \in Nat
    PROVE  BitsOf(FromNat(n)) = [k \in 1 .. Limbs * LimbBits |-> (n \div Power(2, k - 1)) % 2]
<1>. DEFINE a == FromNat(n)
            all == Limbs * LimbBits
<1>1. LimbBits \in Nat \ {0} /\ Base = Power(2, LimbBits)
  BY PrimeIs DEF Base
<1>2. ASSUME NEW k \in 1 .. all
      PROVE  (a[(k - 1) \div LimbBits + 1] \div Power(2, (k - 1) % LimbBits)) % 2
               = (n \div Power(2, k - 1)) % 2
  <2>. DEFINE two == 2
  <2>1. two \in Nat \ {0} /\ Base = Power(two, LimbBits)
    BY <1>1
  <2>. HIDE DEF two
  <2>2. (a[(k - 1) \div LimbBits + 1] \div Power(two, (k - 1) % LimbBits)) % two
          = (n \div Power(two, k - 1)) % two
    BY <1>1, <2>1, DigitsOfLimbs
  <2>. QED
    BY <2>2 DEF two
<1>. HIDE DEF a
<1>3. BitsOf(a) = [k \in 1 .. all |->
                     (a[(k - 1) \div LimbBits + 1] \div Power(2, (k - 1) % LimbBits)) % 2]
  BY DEF BitsOf
<1>. QED
  BY <1>2, <1>3 DEF a

-----------------------------------------------------------------------------
(* Multiples of the generator, by doubling and adding *)

\* The doubled points, from the generator on.
Doubled(n, current) ==
    current[1] = ToJacobian(G) /\ \A i \in 2 .. n : current[i] = Double(current[i - 1])

\* The sum of those doubled points whose bit is set.
MultipleOfSum(bits, current, res) ==
    /\ res[0] = InfinityJacobian
    /\ \A i \in 1 .. Len(bits) :
         res[i] = IF bits[i] = 1 THEN AddJacobian(res[i - 1], current[i]) ELSE res[i - 1]

\* There are doubled points, and they stand for the multiples by the powers of two.
LEMMA DoubledExist ==
    ASSUME NEW n \in Nat \ {0}
    PROVE  \E current \in [1 .. n -> StandIns] :
             /\ Doubled(n, current)
             /\ \A i \in 1 .. n :
                  current[i] \in JacobiansOf(Multiple[Power(2, i - 1) % CurveOrder])
<1>. DEFINE m == n - 1
            op == [p \in StandIns \X (1 .. m) |-> Double(p[1])]
            base == ToJacobian(G)
<1>1. m \in Nat /\ n = m + 1
  OBVIOUS
<1>2. base \in JacobiansOf(G) /\ base \in StandIns
  <2>1. base \in JacobiansOf(G)
    BY MultipleIs, ToJacobianIsExact
  <2>. HIDE DEF base
  <2>. QED
    BY <2>1, MultipleIs, Zenon DEF StandIns
<1>. HIDE DEF base
<1>3. PICK f \in [0 .. m -> StandIns] : Follows(f, base, op, m)
  <2>1. op \in [StandIns \X (1 .. m) -> StandIns]
    <3>1. \A x \in StandIns : Double(x) \in StandIns
      BY StandInsAreClosed
    <3>. QED
      BY <3>1
  <2>. HIDE DEF op, m
  <2>. QED
    BY <1>1, <1>2, <2>1, RecursionExists
<1>4. f[0] = base /\ \A i \in 1 .. m : f[i] = Double(f[i - 1])
  <2>1. \A x \in StandIns, i \in 1 .. m : op[<<x, i>>] = Double(x)
    OBVIOUS
  <2>2. \A i \in 1 .. m : f[i - 1] \in StandIns
    BY <1>1, <1>3
  <2>. HIDE DEF op
  <2>. QED
    BY <1>3, <2>1, <2>2 DEF Follows
<1>. HIDE DEF m, op
<1>. DEFINE T == {i \in 0 .. m : f[i] \in JacobiansOf(Multiple[Power(2, i) % CurveOrder])}
<1>5. 0 \in T
  <2>1. Power(2, 0) = 1 /\ 1 % CurveOrder = 1
    BY PowerIs, OrderIs
  <2>2. f[0] \in JacobiansOf(Multiple[Power(2, 0) % CurveOrder])
    BY <1>2, <1>4, <2>1, MultipleIs
  <2>. QED
    BY <1>1, <2>2
<1>6. ASSUME NEW i \in 1 .. m, i - 1 \in T PROVE i \in T
  <2>. DEFINE j == i - 1
              k == Power(2, j)
              a == Multiple[k % CurveOrder]
  <2>1. j \in Nat /\ j + 1 = i /\ i \in 0 .. m
    BY <1>1
  <2>2. f[j] \in JacobiansOf(a)
    BY <1>6
  <2>3. f[i] = Double(f[j])
    BY <1>4
  <2>. HIDE DEF j
  <2>4. k \in Nat /\ Power(2, i) = k + k
    <3>1. Power(2, j) \in Nat /\ Power(2, j + 1) = Power(2, j) * 2
      BY <2>1, PowerIs
    <3>. QED
      BY <2>1, <3>1
  <2>. HIDE DEF k
  <2>5. a \in CurvePoints /\ SumOf(a, a) = Multiple[(k + k) % CurveOrder]
    BY <2>4, MultiplesAdd
  <2>. HIDE DEF a
  <2>6. Double(f[j]) \in JacobiansOf(SumOf(a, a))
    BY <2>2, <2>5, DoublesAreExact
  <2>7. f[i] \in JacobiansOf(Multiple[Power(2, i) % CurveOrder])
    BY <2>3, <2>4, <2>5, <2>6, Zenon
  <2>. QED
    BY <2>1, <2>7
<1>7. \A i \in 0 .. m : i \in T
  <2>. HIDE DEF T
  <2>. QED
    BY <1>1, <1>5, <1>6, InductionTo
<1>. DEFINE current == [i \in 1 .. n |-> f[i - 1]]
<1>8. \A i \in 1 .. n : i - 1 \in 0 .. m
  BY <1>1
<1>9. current \in [1 .. n -> StandIns]
  BY <1>3, <1>8
<1>10. Doubled(n, current)
  <2>1. current[1] = f[0] /\ 1 - 1 = 0
    BY <1>1
  <2>2. ASSUME NEW i \in 2 .. n PROVE current[i] = Double(current[i - 1])
    <3>1. i \in 1 .. n /\ i - 1 \in 1 .. n /\ i - 1 \in 1 .. m
      BY <1>1
    <3>2. current[i] = f[i - 1] /\ current[i - 1] = f[i - 1 - 1]
      BY <3>1
    <3>3. f[i - 1] = Double(f[i - 1 - 1])
      BY <1>4, <3>1
    <3>. HIDE DEF current
    <3>. QED
      BY <3>2, <3>3
  <2>. HIDE DEF current
  <2>. QED
    BY <1>4, <2>1, <2>2 DEF Doubled, base
<1>11. \A i \in 1 .. n : current[i] \in JacobiansOf(Multiple[Power(2, i - 1) % CurveOrder])
  BY <1>7, <1>8
<1>. HIDE DEF current
<1>. QED
  BY <1>9, <1>10, <1>11

\* There are sums, and each stands for the multiple by the digits added so far.
LEMMA SummedExist ==
    ASSUME NEW n \in Nat, NEW len \in Nat, NEW bits, Len(bits) = len,
           \A i \in 1 .. len : bits[i] = (n \div Power(2, i - 1)) % 2,
           NEW current \in [1 .. len -> StandIns],
           \A i \in 1 .. len : current[i] \in JacobiansOf(Multiple[Power(2, i - 1) % CurveOrder])
    PROVE  \E res \in [0 .. len -> StandIns] :
             /\ MultipleOfSum(bits, current, res)
             /\ res[len] \in JacobiansOf(Multiple[(n % Power(2, len)) % CurveOrder])
<1>. DEFINE op == [p \in StandIns \X (1 .. len) |->
                     IF bits[p[2]] = 1 THEN AddJacobian(p[1], current[p[2]]) ELSE p[1]]
<1>1. InfinityJacobian \in JacobiansOf(InfinityAffine) /\ InfinityJacobian \in StandIns
  <2>1. InfinityJacobian \in JacobiansOf(InfinityAffine)
    BY DEF JacobiansOf
  <2>. QED
    BY <2>1, FieldPoint, Zenon DEF StandIns
<1>2. PICK f \in [0 .. len -> StandIns] : Follows(f, InfinityJacobian, op, len)
  <2>1. op \in [StandIns \X (1 .. len) -> StandIns]
    <3>1. \A x \in StandIns, i \in 1 .. len : AddJacobian(x, current[i]) \in StandIns
      BY StandInsAreClosed
    <3>. QED
      BY <3>1
  <2>. HIDE DEF op
  <2>. QED
    BY <1>1, <2>1, RecursionExists
<1>3. f[0] = InfinityJacobian
      /\ \A i \in 1 .. len :
           f[i] = IF bits[i] = 1 THEN AddJacobian(f[i - 1], current[i]) ELSE f[i - 1]
  <2>1. \A x \in StandIns, i \in 1 .. len :
          op[<<x, i>>] = IF bits[i] = 1 THEN AddJacobian(x, current[i]) ELSE x
    OBVIOUS
  <2>2. \A i \in 1 .. len : f[i - 1] \in StandIns
    BY <1>2
  <2>. HIDE DEF op
  <2>3. ASSUME NEW i \in 1 .. len
        PROVE  f[i] = IF bits[i] = 1 THEN AddJacobian(f[i - 1], current[i]) ELSE f[i - 1]
    <3>1. f[i] = op[<<f[i - 1], i>>]
      BY <1>2 DEF Follows
    <3>. QED
      BY <2>1, <2>2, <3>1, Zenon
  <2>4. f[0] = InfinityJacobian
    BY <1>2 DEF Follows
  <2>. QED
    BY <2>3, <2>4
<1>. HIDE DEF op
<1>. DEFINE T == {i \in 0 .. len : f[i] \in JacobiansOf(Multiple[(n % Power(2, i)) % CurveOrder])}
<1>5. 0 \in T
  <2>1. Power(2, 0) = 1
    BY PowerIs
  <2>2. n % 1 = 0 /\ 0 % CurveOrder = 0
    BY OrderIs
  <2>3. f[0] \in JacobiansOf(Multiple[(n % Power(2, 0)) % CurveOrder])
    BY <1>1, <1>3, <2>1, <2>2, MultipleIs
  <2>. QED
    BY <2>3
<1>6. ASSUME NEW i \in 1 .. len, i - 1 \in T PROVE i \in T
  <2>. DEFINE j == i - 1
              k == Power(2, j)
              low == n % k
              bit == (n \div k) % 2
              a == Multiple[low % CurveOrder]
              b == Multiple[k % CurveOrder]
  <2>1. j \in Nat /\ j + 1 = i /\ i \in 0 .. len
    OBVIOUS
  <2>2. f[j] \in JacobiansOf(a) /\ current[i] \in JacobiansOf(b) /\ bits[i] = bit
    BY <1>6
  <2>3. f[i] = IF bits[i] = 1 THEN AddJacobian(f[j], current[i]) ELSE f[j]
    BY <1>3
  <2>. HIDE DEF j
  <2>4. k \in Nat \ {0} /\ Power(2, i) = k * 2
    <3>1. Power(2, j) \in Nat /\ Power(2, j + 1) = Power(2, j) * 2
      BY <2>1, PowerIs
    <3>2. 2 \in Nat \ {0} /\ j <= j
      BY <2>1
    <3>3. Power(2, j) \in Nat \ {0}
      BY <2>1, <3>2, PowerGrows
    <3>. QED
      BY <2>1, <3>1, <3>3
  <2>. HIDE DEF k
  <2>5. low \in Nat /\ bit \in {0, 1} /\ n % Power(2, i) = low + bit * k
    <3>1. n \div k \in Nat /\ low \in Nat
      <4>1. n \div k \in Nat /\ low \in 0 .. k - 1
        BY <2>4, Divides, Zenon
      <4>. HIDE DEF low
      <4>. QED
        BY <2>4, <4>1
    <3>. DEFINE q == n \div k
    <3>2. q % 2 \in {0, 1}
      <4>. HIDE DEF q
      <4>. QED
        BY <3>1 DEF q
    <3>3. n % (k * 2) = (n % k) + ((n \div k) % 2) * k
      <4>1. 2 \in Nat \ {0}
        OBVIOUS
      <4>. QED
        BY <2>4, <4>1, NextDigit
    <3>. QED
      BY <2>4, <3>1, <3>2, <3>3
  <2>6. a \in CurvePoints /\ b \in CurvePoints /\ SumOf(a, b) = Multiple[(low + k) % CurveOrder]
    <3>. HIDE DEF low
    <3>. QED
      BY <2>4, <2>5, MultiplesAdd
  <2>. HIDE DEF a, b, low, bit
  <2>7. CASE bit = 1
    <3>1. n % Power(2, i) = low + k
      BY <2>4, <2>5, <2>7
    <3>2. f[i] = AddJacobian(f[j], current[i])
      BY <2>2, <2>3, <2>7
    <3>3. AddJacobian(f[j], current[i]) \in JacobiansOf(SumOf(a, b))
      BY <2>2, <2>6, AddJacobianIsExact
    <3>4. f[i] \in JacobiansOf(Multiple[(n % Power(2, i)) % CurveOrder])
      BY <2>6, <3>1, <3>2, <3>3, Zenon
    <3>. QED
      BY <2>1, <3>4
  <2>8. CASE bit = 0
    <3>1. n % Power(2, i) = low
      BY <2>4, <2>5, <2>8
    <3>2. f[i] = f[j]
      BY <2>2, <2>3, <2>8
    <3>3. f[i] \in JacobiansOf(Multiple[(n % Power(2, i)) % CurveOrder])
      BY <2>2, <3>1, <3>2, Zenon DEF a
    <3>. QED
      BY <2>1, <3>3
  <2>. QED
    BY <2>5, <2>7, <2>8
<1>7. \A i \in 0 .. len : i \in T
  <2>. HIDE DEF T
  <2>. QED
    BY <1>5, <1>6, InductionTo
<1>8. MultipleOfSum(bits, current, f)
  BY <1>3 DEF MultipleOfSum
<1>9. f[len] \in JacobiansOf(Multiple[(n % Power(2, len)) % CurveOrder])
  BY <1>7
<1>. QED
  BY <1>2, <1>8, <1>9

\* The loops of ScalarMul compute them.
LEMMA ScalarMulUnfolds ==
    ASSUME NEW k, NEW len \in Nat \ {0}, Len(BitsOf(k)) = len, DOMAIN BitsOf(k) = 1 .. len,
           NEW c \in [1 .. len -> StandIns], Doubled(len, c),
           NEW r \in [0 .. len -> StandIns], MultipleOfSum(BitsOf(k), c, r)
    PROVE  ScalarMulG(k) = ToAffine(r[len])
<1>. DEFINE bits == BitsOf(k)
            base == ToJacobian(G)
            Loop(it, i) == IF i = 1 THEN base ELSE Double(it[i - 1])
            Loops(it) == it = [i \in DOMAIN bits |-> Loop(it, i)]
            current == CHOOSE it : Loops(it)
            Step(it, i) == IF i = 0 THEN InfinityJacobian
                           ELSE IF bits[i] = 1 THEN AddJacobian(it[i - 1], current[i])
                           ELSE it[i - 1]
            Steps(it) == it = [i \in 0 .. Len(bits) |-> Step(it, i)]
            res == CHOOSE it : Steps(it)
<1>1. ScalarMulG(k) = ToAffine(res[Len(bits)])
  BY Zenon DEF ScalarMulG, ScalarMul
<1>2. Len(bits) = len /\ DOMAIN bits = 1 .. len
  OBVIOUS
<1>3. MultipleOfSum(bits, c, r)
  OBVIOUS
<1>. HIDE DEF bits, base
<1>4. Loops(c)
  <2>1. ASSUME NEW i \in 1 .. len PROVE c[i] = Loop(c, i)
    <3>1. i # 1 => i \in 2 .. len
      OBVIOUS
    <3>. QED
      BY <3>1 DEF Doubled, base
  <2>2. c = [i \in 1 .. len |-> c[i]]
    OBVIOUS
  <2>. HIDE DEF Loop
  <2>. QED
    BY <1>2, <2>1, <2>2
<1>5. Loops(current)
  <2>. HIDE DEF Loops
  <2>. QED
    BY <1>4, Zenon
<1>. HIDE DEF current
<1>6. current = c
  <2>. DEFINE c0 == [i \in 0 .. len - 1 |-> c[i + 1]]
              d0 == [i \in 0 .. len - 1 |-> current[i + 1]]
  <2>1. \A i \in 1 .. len : c[i] = Loop(c, i) /\ current[i] = Loop(current, i)
    BY <1>2, <1>4, <1>5
  <2>2. c0[0] = d0[0]
    BY <2>1
  <2>3. ASSUME NEW i \in 1 .. len - 1, d0[i - 1] = c0[i - 1] PROVE d0[i] = c0[i]
    <3>1. i + 1 \in 1 .. len /\ i + 1 # 1 /\ i + 1 - 1 = i /\ i - 1 + 1 = i
          /\ i - 1 \in 0 .. len - 1 /\ i \in 0 .. len - 1
      OBVIOUS
    <3>2. c[i] = current[i]
      BY <2>3, <3>1
    <3>3. Loop(c, i + 1) = Loop(current, i + 1)
      BY <3>1, <3>2
    <3>. HIDE DEF Loop
    <3>. QED
      BY <2>1, <3>1, <3>3
  <2>. HIDE DEF c0, d0
  <2>4. StepsAlike(c0, d0, len - 1)
    BY <2>2, <2>3 DEF StepsAlike
  <2>5. Alike(c0, d0, len - 1)
    <3>1. len - 1 \in Nat
      OBVIOUS
    <3>. QED
      BY <2>4, <3>1, RecursionIsUnique
  <2>6. ASSUME NEW i \in 1 .. len PROVE current[i] = c[i]
    <3>1. i - 1 \in 0 .. len - 1 /\ i - 1 + 1 = i
      OBVIOUS
    <3>2. d0[i - 1] = c0[i - 1]
      BY <2>5, <3>1 DEF Alike
    <3>. QED
      BY <3>1, <3>2 DEF c0, d0
  <2>7. current = [i \in 1 .. len |-> Loop(current, i)] /\ c = [i \in 1 .. len |-> Loop(c, i)]
    BY <1>2, <1>4, <1>5
  <2>8. current = [i \in 1 .. len |-> current[i]] /\ c = [i \in 1 .. len |-> c[i]]
    <3>. HIDE DEF Loop
    <3>. QED
      BY <2>1, <2>7
  <2>. QED
    BY <2>6, <2>8
<1>. HIDE DEF Loops
<1>7. Steps(r)
  <2>1. ASSUME NEW i \in 0 .. len PROVE r[i] = Step(r, i)
    <3>1. i # 0 => i \in 1 .. len
      OBVIOUS
    <3>2. r[0] = InfinityJacobian
          /\ \A j \in 1 .. len : r[j] = IF bits[j] = 1 THEN AddJacobian(r[j - 1], c[j]) ELSE r[j - 1]
      BY <1>2, <1>3 DEF MultipleOfSum
    <3>. QED
      BY <1>6, <3>1, <3>2, Zenon
  <2>2. r = [i \in 0 .. len |-> r[i]]
    OBVIOUS
  <2>. HIDE DEF Step
  <2>. QED
    BY <1>2, <2>1, <2>2
<1>8. Steps(res)
  <2>. HIDE DEF Steps
  <2>. QED
    BY <1>7, Zenon
<1>. HIDE DEF res
<1>9. \A i \in 0 .. len : r[i] = Step(r, i) /\ res[i] = Step(res, i)
  <2>. HIDE DEF Step
  <2>. QED
    BY <1>2, <1>7, <1>8
<1>. HIDE DEF Steps
<1>10. StepsAlike(r, res, len)
  <2>1. r[0] = res[0]
    BY <1>9
  <2>2. ASSUME NEW i \in 1 .. len, res[i - 1] = r[i - 1] PROVE res[i] = r[i]
    <3>1. i \in 0 .. len /\ i # 0
      OBVIOUS
    <3>2. Step(r, i) = Step(res, i)
      BY <2>2, <3>1, Zenon
    <3>. HIDE DEF Step
    <3>. QED
      BY <1>9, <3>1, <3>2, Zenon
  <2>. HIDE DEF Step
  <2>. QED
    BY <2>1, <2>2 DEF StepsAlike
<1>11. res[len] = r[len]
  <2>1. Alike(r, res, len)
    BY <1>10, RecursionIsUnique
  <2>. QED
    BY <2>1 DEF Alike
<1>. QED
  BY <1>1, <1>2, <1>11

\* A multiple of the generator is computed for every number that fits the limbs, whatever
\* its bits are (scalar_mul_g).
THEOREM ScalarMulIsExact ==
    ASSUME NEW n \in Nat, n < Power(Base, Limbs)
    PROVE  ScalarMulG(FromNat(n)) = Multiple[n % CurveOrder]
<1>. DEFINE bits == BitsOf(FromNat(n))
            len == Limbs * LimbBits
<1>1. len \in Nat \ {0} /\ Limbs \in Nat /\ LimbBits \in Nat
  BY PrimeIs
<1>. HIDE DEF len
<1>2. bits = [k \in 1 .. len |-> (n \div Power(2, k - 1)) % 2]
  BY BitsAre DEF len
<1>3. Len(bits) = len /\ DOMAIN bits = 1 .. len
      /\ \A i \in 1 .. len : bits[i] = (n \div Power(2, i - 1)) % 2
  BY <1>1, <1>2
<1>. HIDE DEF bits
<1>4. PICK c \in [1 .. len -> StandIns] :
        /\ Doubled(len, c)
        /\ \A i \in 1 .. len : c[i] \in JacobiansOf(Multiple[Power(2, i - 1) % CurveOrder])
  BY <1>1, DoubledExist
<1>5. PICK r \in [0 .. len -> StandIns] :
        /\ MultipleOfSum(bits, c, r)
        /\ r[len] \in JacobiansOf(Multiple[(n % Power(2, len)) % CurveOrder])
  BY <1>1, <1>3, <1>4, SummedExist
<1>6. ScalarMulG(FromNat(n)) = ToAffine(r[len])
  BY <1>1, <1>3, <1>4, <1>5, ScalarMulUnfolds DEF bits
<1>7. n % Power(2, len) = n
  <2>1. Power(Base, Limbs) = Power(2, LimbBits * Limbs)
    BY <1>1, PowerMultiplies DEF Base
  <2>2. LimbBits * Limbs = Limbs * LimbBits
    BY <1>1
  <2>. DEFINE all == Power(2, len)
  <2>3. all = Power(Base, Limbs)
    BY <2>1, <2>2 DEF len
  <2>4. all \in Nat /\ n < all
    BY <2>3, PrimeIs
  <2>. HIDE DEF all
  <2>5. n % all = n
    BY <2>4
  <2>. QED
    BY <2>5 DEF all
<1>8. Multiple[n % CurveOrder] \in CurvePoints
  BY MultiplesAdd
<1>9. r[len] \in JacobiansOf(Multiple[n % CurveOrder])
  BY <1>5, <1>7
<1>. QED
  BY <1>6, <1>8, <1>9, ToAffineIsExact

-----------------------------------------------------------------------------
(* The points of a dispatch *)

\* The public keys are the multiples of the generator (derive_pubkey).
LEMMA PublicKeysAre ==
    ASSUME NEW k \in Numbers
    PROVE  /\ k \in Nat /\ k < Power(Base, Limbs) /\ k % CurveOrder = k
           /\ ScalarMulG(FromNat(k)) = Multiple[k]
           /\ PublicKeyOf[k] = Multiple[k] /\ PublicKeyOf[k] \in CurvePoints
<1>1. k \in Nat /\ k % CurveOrder = k /\ k < CurveOrder
  BY OrderIs DEF Numbers
<1>2. k < Power(Base, Limbs)
  BY <1>1, GroupAssumption, OrderIs, PrimeIs
<1>3. ScalarMulG(FromNat(k)) = Multiple[k]
  BY <1>1, <1>2, ScalarMulIsExact
<1>4. PublicKeyOf[k] = ScalarMulG(FromNat(k))
  BY DEF PublicKeyOf
<1>. QED
  BY <1>1, <1>2, <1>3, <1>4, MultipleIs

\* The points that a walk passes, in affine coordinates.
LEMMA WalkedPointsAre ==
    ASSUME NEW k \in Numbers, NEW m \in Nat, NEW count \in Nat \ {0}
    PROVE  LET walk == Walk256(ToJacobian(PublicKeyOf[k]), Multiple[m % CurveOrder], count)
           IN  /\ walk \in Seq(JacobianPoints) /\ Len(walk) = count
               /\ [i \in 1 .. count |-> ToAffine(walk[i])]
                    = [i \in 1 .. count |-> PublicKeyOf[(k + (i - 1) * m) % CurveOrder]]
<1>. DEFINE first == ToJacobian(PublicKeyOf[k])
            walk == Walk256(first, Multiple[m % CurveOrder], count)
<1>1. first \in JacobiansOf(Multiple[k % CurveOrder]) /\ k \in Nat
  BY PublicKeysAre, ToJacobianIsExact
<1>. HIDE DEF first
<1>2. /\ walk \in Seq(JacobianPoints) /\ Len(walk) = count
      /\ \A i \in 1 .. count : ToAffine(walk[i]) = Multiple[(k + (i - 1) * m) % CurveOrder]
  BY <1>1, WalkStandsFor
<1>. HIDE DEF walk
<1>3. ASSUME NEW i \in 1 .. count
      PROVE  ToAffine(walk[i]) = PublicKeyOf[(k + (i - 1) * m) % CurveOrder]
  <2>. DEFINE n == k + (i - 1) * m
  <2>1. n \in Nat
    <3>1. (i - 1) * m \in Nat
      <4>1. i - 1 \in Nat
        OBVIOUS
      <4>. QED
        BY <4>1
    <3>. QED
      BY <1>1, <3>1
  <2>2. ToAffine(walk[i]) = Multiple[n % CurveOrder]
    BY <1>2
  <2>. HIDE DEF n
  <2>3. n % CurveOrder \in Numbers
    BY <2>1, OrderIs
  <2>4. PublicKeyOf[n % CurveOrder] = Multiple[n % CurveOrder]
    BY <2>3, PublicKeysAre
  <2>. QED
    BY <2>2, <2>4 DEF n
<1>. QED
  BY <1>2, <1>3 DEF walk, first

\* The points that the threads of a dispatch start from (precompute_initial_points).
LEMMA InitialPointsAre ==
    ASSUME NEW k \in Numbers, NEW g \in Grids
    PROVE  InitialPointsOf[k][g]
             = [t \in 1 .. g[1] |-> PublicKeyOf[(k + (t - 1) * g[2]) % CurveOrder]]
<1>. DEFINE threads == g[1]
            steps == g[2]
            walk == Walk256(ToJacobian(PublicKeyOf[k]), Multiple[steps % CurveOrder], threads)
<1>1. threads \in Nat \ {0} /\ steps \in Nat /\ steps \in Numbers
  <2>1. threads \in 1 .. MaxThreads /\ steps \in 1 .. MaxSteps
    BY DEF Grids
  <2>. HIDE DEF threads, steps
  <2>. QED
    BY <2>1, SearchAssumption DEF Numbers
<1>. HIDE DEF threads, steps
<1>2. ScalarMulG(FromNat(steps)) = Multiple[steps % CurveOrder]
      /\ ScalarMulG(FromNat(k)) = PublicKeyOf[k]
  BY <1>1, PublicKeysAre
<1>3. InitialPoints(k, threads, steps) = BatchToAffine(walk)
  BY <1>2, Zenon DEF InitialPoints
<1>4. /\ walk \in Seq(JacobianPoints) /\ Len(walk) = threads
      /\ [i \in 1 .. threads |-> ToAffine(walk[i])]
           = [i \in 1 .. threads |-> PublicKeyOf[(k + (i - 1) * steps) % CurveOrder]]
  BY <1>1, WalkedPointsAre
<1>. HIDE DEF walk
<1>5. BatchToAffine(walk) = [i \in 1 .. threads |-> ToAffine(walk[i])]
  BY <1>4, BatchInversionIsExact
<1>6. InitialPointsOf[k][g] = InitialPoints(k, threads, steps)
  BY Zenon DEF InitialPointsOf, threads, steps
<1>. QED
  BY <1>3, <1>4, <1>5, <1>6, Zenon DEF threads, steps

\* The points that a thread comes to (the kernel).
LEMMA CandidatesOfAre ==
    ASSUME NEW k \in Numbers, NEW m \in 1 .. MaxSteps
    PROVE  CandidatesOf[PublicKeyOf[k]][m]
             = [n \in 1 .. m |-> PublicKeyOf[(k + n - 1) % CurveOrder]]
<1>. DEFINE walk == Walk256(ToJacobian(PublicKeyOf[k]), G, m)
            batches == Batches(walk, AffineBatch)
<1>1. m \in Nat \ {0} /\ AffineBatch \in Nat \ {0} /\ G = Multiple[1 % CurveOrder]
      /\ k \in Nat /\ 1 \in Nat
  BY OrderIs, MultipleIs, SearchAssumption
<1>2. /\ walk \in Seq(JacobianPoints) /\ Len(walk) = m
      /\ [i \in 1 .. m |-> ToAffine(walk[i])]
           = [i \in 1 .. m |-> PublicKeyOf[(k + (i - 1) * 1) % CurveOrder]]
  BY <1>1, WalkedPointsAre
<1>3. Candidates(PublicKeyOf[k], m, AffineBatch)
        = FlattenSeq([n \in DOMAIN batches |-> BatchToAffine(batches[n])])
  BY Zenon DEF Candidates
<1>. HIDE DEF walk
<1>4. FlattenSeq([n \in DOMAIN batches |-> BatchToAffine(batches[n])])
        = [i \in 1 .. m |-> ToAffine(walk[i])]
  <2>1. Len(walk) > 0
    BY <1>1, <1>2
  <2>2. FlattenSeq([n \in DOMAIN Batches(walk, AffineBatch) |->
                     BatchToAffine(Batches(walk, AffineBatch)[n])])
          = [i \in 1 .. Len(walk) |-> ToAffine(walk[i])]
    BY <1>1, <1>2, <2>1, CandidatesAre, Zenon
  <2>. QED
    BY <1>2, <2>2, Zenon
<1>5. CandidatesOf[PublicKeyOf[k]][m] = Candidates(PublicKeyOf[k], m, AffineBatch)
  <2>1. PublicKeyOf[k] \in Points
    BY DEF Points
  <2>. QED
    BY <2>1, Zenon DEF CandidatesOf
<1>. HIDE DEF batches
<1>6. [i \in 1 .. m |-> PublicKeyOf[(k + (i - 1) * 1) % CurveOrder]]
        = [i \in 1 .. m |-> PublicKeyOf[(k + i - 1) % CurveOrder]]
  <2>1. \A i \in 1 .. m : k + (i - 1) * 1 = k + i - 1
    BY <1>1
  <2>. QED
    BY <2>1, Zenon
<1>. QED
  BY <1>2, <1>3, <1>4, <1>5, <1>6, Zenon

\* Every point that a dispatch starts from, and every one that its threads come to, is that
\* of the key it stands for, whatever the grid and however many points share an inversion
\* (precompute_initial_points, the kernel).
THEOREM DispatchesAreExactAlways == DispatchesAreExact
BY InitialPointsAre, CandidatesOfAre, Zenon DEF DispatchesAreExact

\* Every number below the order has a point of its own, and only 0 has the one at
\* infinity.
LEMMA PointsAreApart ==
    /\ \A k \in Numbers : PublicKeyOf[k].infinity <=> k = 0
    /\ \A j, k \in Numbers : PublicKeyOf[j] = PublicKeyOf[k] => j = k
<1>1. ASSUME NEW j \in Numbers, NEW k \in Numbers, PublicKeyOf[j] = PublicKeyOf[k]
      PROVE  j = k
  BY <1>1, PublicKeysAre, GroupAssumption
<1>2. ASSUME NEW k \in Numbers PROVE PublicKeyOf[k].infinity <=> k = 0
  <2>. DEFINE p == PublicKeyOf[k]
  <2>1. p \in CurvePoints /\ p = Multiple[k]
    BY PublicKeysAre
  <2>2. 0 \in Numbers /\ PublicKeyOf[0] = InfinityAffine
    BY OrderIs, MultipleIs, PublicKeysAre
  <2>3. p = InfinityAffine <=> k = 0
    BY <1>1, <2>2, Zenon
  <2>. HIDE DEF p
  <2>4. \/ p = InfinityAffine /\ p.infinity = TRUE
        \/ p # InfinityAffine /\ p.infinity = FALSE
    <3>1. \/ p = InfinityAffine /\ p.infinity = TRUE /\ JacobiansOf(p) = {InfinityJacobian}
          \/ \E x, y \in Element :
               /\ p = Affine(x, y) /\ p.x = x /\ p.y = y /\ p.infinity = FALSE
               /\ p # InfinityAffine
      BY <2>1, PointIs
    <3>. QED
      BY <3>1, Zenon
  <2>5. CASE p = InfinityAffine
    <3>1. p.infinity = TRUE /\ k = 0
      BY <2>3, <2>4, <2>5, Zenon
    <3>. QED
      BY <3>1, Zenon DEF p
  <2>6. CASE p # InfinityAffine
    <3>1. p.infinity = FALSE /\ k # 0
      BY <2>3, <2>4, <2>6, Zenon
    <3>. QED
      BY <3>1, Zenon DEF p
  <2>. QED
    BY <2>5, <2>6
<1>. QED
  BY <1>1, <1>2, Zenon

-----------------------------------------------------------------------------
(* What digits amount to *)

\* The first n digits of s in the base b, from the least significant one on; they need
\* not be below the base.
Amount(s, b, n) ==
    LET amount[i \in 0 .. n] == IF i = 0 THEN 0 ELSE amount[i - 1] + s[i] * Power(b, i - 1)
    IN  amount[n]

\* f sums the digits of s one after another.
AddsUp(f, s, b, n) == f[0] = 0 /\ \A i \in 1 .. n : f[i] = f[i - 1] + s[i] * Power(b, i - 1)

\* What digits amount to is their sum.
LEMMA AmountUnfolds ==
    ASSUME NEW b \in Nat, NEW n \in Nat, NEW s, \A i \in 1 .. n : s[i] \in Int
    PROVE  \E f \in [0 .. n -> Int] : AddsUp(f, s, b, n) /\ Amount(s, b, n) = f[n]
<1>. DEFINE op == [p \in Int \X (1 .. n) |-> p[1] + s[p[2]] * Power(b, p[2] - 1)]
            Loop(it, i) == IF i = 0 THEN 0 ELSE it[i - 1] + s[i] * Power(b, i - 1)
            Loops(it) == it = [i \in 0 .. n |-> Loop(it, i)]
            g == CHOOSE it : Loops(it)
<1>1. PICK f \in [0 .. n -> Int] : Follows(f, 0, op, n)
  <2>1. ASSUME NEW x \in Int, NEW i \in 1 .. n PROVE x + s[i] * Power(b, i - 1) \in Int
    <3>1. i - 1 \in Nat
      OBVIOUS
    <3>2. Power(b, i - 1) \in Int /\ s[i] \in Int
      BY <3>1, PowerIs
    <3>. QED
      BY <3>2
  <2>2. op \in [Int \X (1 .. n) -> Int]
    BY <2>1
  <2>3. 0 \in Int
    OBVIOUS
  <2>. HIDE DEF op
  <2>. QED
    BY <2>2, <2>3, RecursionExists, Zenon
<1>2. f[0] = 0 /\ \A i \in 1 .. n : f[i] = f[i - 1] + s[i] * Power(b, i - 1)
  <2>1. \A x \in Int, i \in 1 .. n : op[<<x, i>>] = x + s[i] * Power(b, i - 1)
    OBVIOUS
  <2>2. \A i \in 1 .. n : f[i - 1] \in Int
    BY <1>1
  <2>. HIDE DEF op
  <2>. QED
    BY <1>1, <2>1, <2>2, Zenon DEF Follows
<1>. HIDE DEF op
<1>3. Loops(f)
  <2>1. \A i \in 0 .. n : f[i] = Loop(f, i)
    BY <1>2
  <2>. HIDE DEF Loop
  <2>. QED
    BY <2>1
<1>4. Loops(g)
  <2>. HIDE DEF Loops
  <2>. QED
    BY <1>3, Zenon
<1>5. Amount(s, b, n) = g[n]
  BY Zenon DEF Amount
<1>6. Alike(f, g, n)
  <2>. HIDE DEF g
  <2>1. \A i \in 0 .. n : g[i] = Loop(g, i)
    <3>. HIDE DEF Loop
    <3>. QED
      BY <1>4
  <2>. HIDE DEF Loops
  <2>2. g[0] = 0 /\ \A i \in 1 .. n : g[i] = g[i - 1] + s[i] * Power(b, i - 1)
    BY <2>1
  <2>3. StepsAlike(f, g, n)
    BY <1>2, <2>2, Zenon DEF StepsAlike
  <2>. QED
    BY <2>3, RecursionIsUnique
<1>7. n \in 0 .. n
  OBVIOUS
<1>. HIDE DEF g
<1>. QED
  BY <1>1, <1>2, <1>5, <1>6, <1>7 DEF Alike, AddsUp

\* What digits amount to, from none of them on.
LEMMA AmountIs ==
    ASSUME NEW b \in Nat, NEW n \in Nat, NEW s, \A i \in 1 .. n : s[i] \in Int
    PROVE  /\ Amount(s, b, 0) = 0
           /\ \A i \in 0 .. n : Amount(s, b, i) \in Int
           /\ \A i \in 1 .. n : Amount(s, b, i) = Amount(s, b, i - 1) + s[i] * Power(b, i - 1)
<1>1. PICK f \in [0 .. n -> Int] : AddsUp(f, s, b, n) /\ Amount(s, b, n) = f[n]
  BY AmountUnfolds, Zenon
<1>2. ASSUME NEW m \in 0 .. n PROVE Amount(s, b, m) = f[m]
  <2>1. m \in Nat /\ \A i \in 1 .. m : i \in 1 .. n
    OBVIOUS
  <2>2. PICK g \in [0 .. m -> Int] : AddsUp(g, s, b, m) /\ Amount(s, b, m) = g[m]
    <3>1. \A i \in 1 .. m : s[i] \in Int
      BY <2>1
    <3>. QED
      BY <2>1, <3>1, AmountUnfolds, Zenon
  <2>3. StepsAlike(f, g, m)
    BY <1>1, <2>1, <2>2, Zenon DEF StepsAlike, AddsUp
  <2>4. Alike(f, g, m)
    BY <2>1, <2>3, RecursionIsUnique
  <2>5. m \in 0 .. m
    OBVIOUS
  <2>. QED
    BY <2>2, <2>4, <2>5 DEF Alike
<1>3. \A i \in 1 .. n : i \in 0 .. n /\ i - 1 \in 0 .. n
  OBVIOUS
<1>4. 0 \in 0 .. n
  OBVIOUS
<1>5. \A i \in 0 .. n : f[i] \in Int
  OBVIOUS
<1>6. \A i \in 1 .. n : Amount(s, b, i) = Amount(s, b, i - 1) + s[i] * Power(b, i - 1)
  BY <1>1, <1>2, <1>3, Zenon DEF AddsUp
<1>7. Amount(s, b, 0) = 0
  BY <1>1, <1>2, <1>4 DEF AddsUp
<1>8. \A i \in 0 .. n : Amount(s, b, i) \in Int
  BY <1>2, <1>5
<1>. QED
  BY <1>6, <1>7, <1>8

\* Equal digits amount to the same.
LEMMA SameAmount ==
    ASSUME NEW b \in Nat, NEW n \in Nat, NEW s, NEW t,
           \A i \in 1 .. n : s[i] \in Int /\ t[i] = s[i]
    PROVE  Amount(t, b, n) = Amount(s, b, n)
<1>. DEFINE T == {i \in 0 .. n : Amount(t, b, i) = Amount(s, b, i)}
<1>1. /\ Amount(s, b, 0) = 0
      /\ \A i \in 1 .. n : Amount(s, b, i) = Amount(s, b, i - 1) + s[i] * Power(b, i - 1)
  BY AmountIs
<1>2. /\ Amount(t, b, 0) = 0
      /\ \A i \in 1 .. n : Amount(t, b, i) = Amount(t, b, i - 1) + t[i] * Power(b, i - 1)
  <2>1. \A i \in 1 .. n : t[i] \in Int
    OBVIOUS
  <2>. QED
    BY <2>1, AmountIs
<1>3. 0 \in T
  BY <1>1, <1>2
<1>4. ASSUME NEW i \in 1 .. n, i - 1 \in T PROVE i \in T
  <2>1. Amount(t, b, i - 1) = Amount(s, b, i - 1) /\ t[i] = s[i] /\ i \in 0 .. n
    BY <1>4
  <2>2. Amount(t, b, i) = Amount(s, b, i)
    BY <1>1, <1>2, <2>1, Zenon
  <2>. QED
    BY <2>1, <2>2
<1>. HIDE DEF T
<1>5. \A i \in 0 .. n : i \in T
  BY <1>3, <1>4, InductionTo
<1>. QED
  BY <1>5 DEF T

\* Digits are added, subtracted and multiplied one by one: x * s + y * t.
LEMMA AmountIsLinear ==
    ASSUME NEW b \in Nat, NEW n \in Nat, NEW x \in Int, NEW y \in Int, NEW s, NEW t, NEW u,
           \A i \in 1 .. n : s[i] \in Int /\ t[i] \in Int /\ u[i] = x * s[i] + y * t[i]
    PROVE  Amount(u, b, n) = x * Amount(s, b, n) + y * Amount(t, b, n)
<1>. DEFINE A(i) == Amount(s, b, i)
            B(i) == Amount(t, b, i)
            C(i) == Amount(u, b, i)
            T == {i \in 0 .. n : C(i) = x * A(i) + y * B(i)}
<1>1. /\ A(0) = 0 /\ \A i \in 0 .. n : A(i) \in Int
      /\ \A i \in 1 .. n : A(i) = A(i - 1) + s[i] * Power(b, i - 1)
  BY AmountIs
<1>2. /\ B(0) = 0 /\ \A i \in 0 .. n : B(i) \in Int
      /\ \A i \in 1 .. n : B(i) = B(i - 1) + t[i] * Power(b, i - 1)
  BY AmountIs
<1>3. /\ C(0) = 0
      /\ \A i \in 1 .. n : C(i) = C(i - 1) + u[i] * Power(b, i - 1)
  <2>1. ASSUME NEW i \in 1 .. n PROVE u[i] \in Int
    <3>1. s[i] \in Int /\ t[i] \in Int /\ u[i] = x * s[i] + y * t[i]
      OBVIOUS
    <3>2. x * s[i] + y * t[i] \in Int
      BY <3>1
    <3>. QED
      BY <3>1, <3>2
  <2>. QED
    BY <2>1, AmountIs
<1>. HIDE DEF A, B, C
<1>4. 0 \in T
  BY <1>1, <1>2, <1>3
<1>5. ASSUME NEW i \in 1 .. n, i - 1 \in T PROVE i \in T
  <2>1. i - 1 \in 0 .. n /\ i \in 0 .. n /\ i - 1 \in Nat
    OBVIOUS
  <2>2. PICK p \in Int : p = Power(b, i - 1)
    BY <2>1, PowerIs
  <2>3. C(i - 1) = x * A(i - 1) + y * B(i - 1)
    BY <1>5
  <2>4. PICK v \in Int, w \in Int : v = s[i] /\ w = t[i] /\ u[i] = x * v + y * w
    OBVIOUS
  <2>5. PICK a \in Int, c \in Int : a = A(i - 1) /\ c = B(i - 1)
    BY <1>1, <1>2, <2>1
  <2>6. A(i) = a + v * p /\ B(i) = c + w * p /\ C(i) = (x * a + y * c) + (x * v + y * w) * p
    BY <1>1, <1>2, <1>3, <2>2, <2>3, <2>4, <2>5, Zenon
  <2>7. (x * a + y * c) + (x * v + y * w) * p = x * (a + v * p) + y * (c + w * p)
    OBVIOUS
  <2>8. C(i) = x * A(i) + y * B(i)
    BY <2>6, <2>7, Zenon
  <2>. QED
    BY <2>1, <2>8
<1>. HIDE DEF T
<1>6. \A i \in 0 .. n : i \in T
  BY <1>4, <1>5, InductionTo
<1>. QED
  BY <1>6 DEF T, A, B, C

\* The digits of s from place m on are the n digits of t.
Splits(s, t, m, n) ==
    (\A i \in 1 .. m + n : s[i] \in Int) /\ (\A i \in 1 .. n : t[i] = s[m + i])

\* Then they count by the power of their place.
Split(s, t, b, m, n) == Amount(s, b, m + n) = Amount(s, b, m) + Power(b, m) * Amount(t, b, n)

\* Digits from place m on count by the power of their place.
LEMMA AmountSplits ==
    ASSUME NEW b \in Nat, NEW m \in Nat, NEW n \in Nat, NEW s, NEW t, Splits(s, t, m, n)
    PROVE  Split(s, t, b, m, n)
<1>. SUFFICES ASSUME \A i \in 1 .. m + n : s[i] \in Int, \A i \in 1 .. n : t[i] = s[m + i]
              PROVE  Amount(s, b, m + n) = Amount(s, b, m) + Power(b, m) * Amount(t, b, n)
  BY Zenon DEF Splits, Split
<1>. DEFINE A(i) == Amount(s, b, i)
            B(i) == Amount(t, b, i)
            p == Power(b, m)
            T == {i \in 0 .. n : A(m + i) = A(m) + p * B(i)}
<1>1. /\ \A i \in 0 .. m + n : A(i) \in Int
      /\ \A i \in 1 .. m + n : A(i) = A(i - 1) + s[i] * Power(b, i - 1)
  BY AmountIs
<1>2. /\ B(0) = 0 /\ \A i \in 0 .. n : B(i) \in Int
      /\ \A i \in 1 .. n : B(i) = B(i - 1) + t[i] * Power(b, i - 1)
  <2>1. \A i \in 1 .. n : m + i \in 1 .. m + n
    OBVIOUS
  <2>2. \A i \in 1 .. n : t[i] \in Int
    BY <2>1
  <2>. QED
    BY <2>2, AmountIs
<1>3. p \in Int
  BY PowerIs
<1>. HIDE DEF A, B
<1>4. 0 \in T
  <2>1. m + 0 = m /\ m \in 0 .. m + n
    OBVIOUS
  <2>2. A(m) \in Int
    BY <1>1, <2>1
  <2>. QED
    BY <1>2, <1>3, <2>1, <2>2
<1>5. ASSUME NEW i \in 1 .. n, i - 1 \in T PROVE i \in T
  <2>1. i - 1 \in 0 .. n /\ i \in 0 .. n /\ i - 1 \in Nat /\ m + i \in 1 .. m + n
        /\ m + i - 1 = m + (i - 1) /\ m \in 0 .. m + n
    OBVIOUS
  <2>2. PICK r \in Int : r = Power(b, i - 1)
    BY <2>1, PowerIs
  <2>3. A(m + (i - 1)) = A(m) + p * B(i - 1)
    BY <1>5
  <2>4. PICK a \in Int, c \in Int, v \in Int : a = A(m) /\ c = B(i - 1) /\ v = s[m + i]
    BY <1>1, <1>2, <2>1
  <2>5. Power(b, m + (i - 1)) = p * r
    BY <2>1, <2>2, PowerAdds
  <2>6. t[i] = s[m + i]
    OBVIOUS
  <2>7. A(m + i) = A(m + i - 1) + s[m + i] * Power(b, m + i - 1)
    BY <1>1, <2>1
  <2>. HIDE DEF p
  <2>8. A(m + i) = (a + p * c) + v * (p * r) /\ B(i) = c + v * r
    <3>1. A(m + i) = A(m + (i - 1)) + s[m + i] * Power(b, m + (i - 1))
      BY <2>1, <2>7, Zenon
    <3>. QED
      BY <1>2, <2>2, <2>3, <2>4, <2>5, <2>6, <3>1, Zenon
  <2>9. (a + p * c) + v * (p * r) = a + p * (c + v * r)
    BY <1>3
  <2>10. A(m + i) = A(m) + p * B(i)
    BY <2>4, <2>8, <2>9, Zenon
  <2>. QED
    BY <2>1, <2>10
<1>. HIDE DEF T
<1>6. \A i \in 0 .. n : i \in T
  BY <1>4, <1>5, InductionTo
<1>. QED
  BY <1>6 DEF T, A, B

\* What the Horner scheme computes, from the most significant digit on.
HornerOf(f, s, b, n) == f[0] = 0 /\ \A i \in 1 .. n : f[i] = f[i - 1] * b + s[n - i + 1]

\* It comes to what the digits amount to.
LEMMA Horner ==
    ASSUME NEW b \in Nat, NEW n \in Nat, NEW s, \A i \in 1 .. n : s[i] \in Int,
           NEW f \in [0 .. n -> Int], HornerOf(f, s, b, n)
    PROVE  Amount(s, b, n) = f[n] /\ f[n] \in Int
<1>. DEFINE A(i) == Amount(s, b, i)
<1>1. f \in [0 .. n -> Int]
  OBVIOUS
<1>2. f[0] = 0 /\ \A i \in 1 .. n : f[i] = f[i - 1] * b + s[n - i + 1]
  BY DEF HornerOf
<1>3. /\ A(0) = 0 /\ \A i \in 0 .. n : A(i) \in Int
      /\ \A i \in 1 .. n : A(i) = A(i - 1) + s[i] * Power(b, i - 1)
  BY AmountIs
<1>. DEFINE T == {i \in 0 .. n : A(n) = A(n - i) + f[i] * Power(b, n - i)}
<1>. HIDE DEF A
<1>4. 0 \in T
  <2>1. n - 0 = n /\ n \in 0 .. n /\ Power(b, n) \in Int
    BY PowerIs
  <2>2. A(n) \in Int
    BY <1>3, <2>1
  <2>. QED
    BY <1>2, <2>1, <2>2
<1>5. ASSUME NEW i \in 1 .. n, i - 1 \in T PROVE i \in T
  <2>. DEFINE m == n - i
  <2>1. m \in Nat /\ m + 1 \in 1 .. n /\ n - (i - 1) = m + 1 /\ n - i + 1 = m + 1
        /\ m + 1 - 1 = m /\ m \in 0 .. n /\ i - 1 \in 0 .. n /\ i \in 0 .. n
    OBVIOUS
  <2>2. A(n) = A(n - (i - 1)) + f[i - 1] * Power(b, n - (i - 1))
    BY <1>5
  <2>3. f[i] = f[i - 1] * b + s[n - i + 1]
    BY <1>2
  <2>. HIDE DEF m
  <2>4. PICK p \in Int : p = Power(b, m) /\ Power(b, m + 1) = p * b
    <3>1. Power(b, m) \in Nat /\ Power(b, m + 1) = Power(b, m) * b
      BY <2>1, PowerIs
    <3>2. Power(b, m) \in Int
      BY <3>1
    <3>. QED
      BY <3>1, <3>2, Zenon
  <2>5. PICK x \in Int, v \in Int, a \in Int : x = f[i - 1] /\ v = s[m + 1] /\ a = A(m)
    BY <1>1, <1>3, <2>1
  <2>6. A(m + 1) = a + v * p
    <3>1. A(m + 1) = A(m + 1 - 1) + s[m + 1] * Power(b, m + 1 - 1)
      BY <1>3, <2>1
    <3>. QED
      BY <2>1, <2>4, <2>5, <3>1
  <2>7. A(n) = (a + v * p) + x * (p * b) /\ f[i] = x * b + v
    BY <2>1, <2>2, <2>3, <2>4, <2>5, <2>6
  <2>8. (a + v * p) + x * (p * b) = a + (x * b + v) * p
    OBVIOUS
  <2>9. A(n) = A(m) + f[i] * Power(b, m)
    BY <2>4, <2>5, <2>7, <2>8, Zenon
  <2>. QED
    BY <2>1, <2>9 DEF m
<1>6. \A i \in 0 .. n : i \in T
  <2>. HIDE DEF T
  <2>. QED
    BY <1>4, <1>5, InductionTo
<1>7. A(n) = f[n]
  <2>1. n \in T /\ n - n = 0 /\ n \in 0 .. n
    BY <1>6
  <2>2. A(n) = A(0) + f[n] * Power(b, 0)
    BY <2>1
  <2>3. f[n] \in Int
    BY <1>1, <2>1
  <2>. QED
    BY <1>3, <2>2, <2>3, PowerIs
<1>. QED
  BY <1>1, <1>7 DEF A

\* The value of the words is what they amount to.
LEMMA ValueIs ==
    ASSUME NEW b \in Nat, NEW n \in Nat, NEW s, Len(s) = n, \A i \in 1 .. n : s[i] \in Int
    PROVE  ValueOf(s, b) = Amount(s, b, n) /\ ValueOf(s, b) \in Int
<1>. DEFINE op == [p \in Int \X (1 .. n) |-> p[1] * b + s[n - p[2] + 1]]
            Loop(it, i) == IF i = 0 THEN 0 ELSE it[i - 1] * b + s[Len(s) - i + 1]
            Loops(it) == it = [i \in 0 .. Len(s) |-> Loop(it, i)]
            g == CHOOSE it : Loops(it)
<1>1. PICK f \in [0 .. n -> Int] : Follows(f, 0, op, n)
  <2>1. ASSUME NEW x \in Int, NEW i \in 1 .. n PROVE x * b + s[n - i + 1] \in Int
    <3>1. n - i + 1 \in 1 .. n
      OBVIOUS
    <3>2. s[n - i + 1] \in Int
      BY <3>1
    <3>3. x * b \in Int
      OBVIOUS
    <3>. QED
      BY <3>2, <3>3
  <2>2. op \in [Int \X (1 .. n) -> Int]
    BY <2>1
  <2>3. 0 \in Int
    OBVIOUS
  <2>. HIDE DEF op
  <2>. QED
    BY <2>2, <2>3, RecursionExists, Zenon
<1>2. f[0] = 0 /\ \A i \in 1 .. n : f[i] = f[i - 1] * b + s[n - i + 1]
  <2>1. \A x \in Int, i \in 1 .. n : op[<<x, i>>] = x * b + s[n - i + 1]
    OBVIOUS
  <2>2. \A i \in 1 .. n : f[i - 1] \in Int
    BY <1>1
  <2>. HIDE DEF op
  <2>. QED
    BY <1>1, <2>1, <2>2, Zenon DEF Follows
<1>. HIDE DEF op
<1>3. Loops(f)
  <2>1. \A i \in 0 .. n : f[i] = Loop(f, i)
    BY <1>2
  <2>. HIDE DEF Loop
  <2>. QED
    BY <2>1
<1>4. Loops(g)
  <2>. HIDE DEF Loops
  <2>. QED
    BY <1>3, Zenon
<1>5. ValueOf(s, b) = g[Len(s)]
  BY Zenon DEF ValueOf
<1>6. Alike(f, g, n)
  <2>. HIDE DEF g
  <2>1. \A i \in 0 .. n : g[i] = Loop(g, i)
    <3>. HIDE DEF Loop
    <3>. QED
      BY <1>4
  <2>. HIDE DEF Loops
  <2>2. g[0] = 0 /\ \A i \in 1 .. n : g[i] = g[i - 1] * b + s[n - i + 1]
    BY <2>1, SMTT(30)
  <2>3. StepsAlike(f, g, n)
    BY <1>2, <2>2, Zenon DEF StepsAlike
  <2>. QED
    BY <2>3, RecursionIsUnique
<1>7. ValueOf(s, b) = f[n]
  <2>1. n \in 0 .. n
    OBVIOUS
  <2>. HIDE DEF g
  <2>. QED
    BY <1>5, <1>6, <2>1 DEF Alike
<1>. HIDE DEF g, Loops
<1>8. HornerOf(f, s, b, n)
  BY <1>2 DEF HornerOf
<1>. QED
  BY <1>1, <1>7, <1>8, Horner

\* Digits below the base amount to less than the next power.
LEMMA AmountIsBounded ==
    ASSUME NEW b \in Nat \ {0}, NEW n \in Nat, NEW s, \A i \in 1 .. n : s[i] \in 0 .. b - 1
    PROVE  Amount(s, b, n) \in 0 .. Power(b, n) - 1
<1>. DEFINE A(i) == Amount(s, b, i)
            T == {i \in 0 .. n : A(i) \in 0 .. Power(b, i) - 1}
<1>1. /\ A(0) = 0 /\ \A i \in 0 .. n : A(i) \in Int
      /\ \A i \in 1 .. n : A(i) = A(i - 1) + s[i] * Power(b, i - 1)
  <2>1. \A i \in 1 .. n : s[i] \in Int
    OBVIOUS
  <2>. QED
    BY <2>1, AmountIs
<1>. HIDE DEF A
<1>2. 0 \in T
  BY <1>1, PowerIs
<1>3. ASSUME NEW i \in 1 .. n, i - 1 \in T PROVE i \in T
  <2>1. i - 1 \in Nat /\ i - 1 + 1 = i /\ i - 1 \in 0 .. n /\ i \in 0 .. n
    OBVIOUS
  <2>2. PICK p \in Nat : p = Power(b, i - 1) /\ Power(b, i - 1 + 1) = p * b
    BY <2>1, PowerIs
  <2>3. PICK a \in Int : a = A(i - 1) /\ a \in 0 .. p - 1
    BY <1>3, <2>2
  <2>4. PICK v \in 0 .. b - 1 : v = s[i]
    OBVIOUS
  <2>5. v * p <= (b - 1) * p /\ (b - 1) * p = p * b - p /\ v * p \in Nat /\ p * b \in Nat
    <3>1. b - 1 \in Nat /\ v \in Nat /\ v <= b - 1
      OBVIOUS
    <3>2. v * p <= (b - 1) * p
      <4>1. CASE p = 0
        BY <3>1, <4>1
      <4>2. CASE p # 0
        BY <3>1, <4>2, FactorsAreOrdered
      <4>. QED
        BY <4>1, <4>2
    <3>. QED
      BY <3>1, <3>2
  <2>6. A(i) = a + v * p
    BY <1>1, <2>2, <2>3, <2>4
  <2>. DEFINE x == v * p
              y == p * b
  <2>7. x \in Nat /\ y \in Nat /\ x <= y - p
    BY <2>5
  <2>. HIDE DEF x, y
  <2>8. a + x \in 0 .. y - 1
    BY <2>3, <2>7
  <2>9. A(i) \in 0 .. Power(b, i) - 1
    BY <2>1, <2>2, <2>6, <2>8 DEF x, y
  <2>. QED
    BY <2>1, <2>9
<1>. HIDE DEF T
<1>4. \A i \in 0 .. n : i \in T
  BY <1>2, <1>3, InductionTo
<1>. QED
  BY <1>4 DEF T, A

\* The digits of a number amount to it, up to the next power.
LEMMA DigitsAmountTo ==
    ASSUME NEW b \in Nat \ {0}, NEW n \in Nat, NEW v \in Nat, NEW s,
           \A i \in 1 .. n : s[i] = (v \div Power(b, i - 1)) % b
    PROVE  Amount(s, b, n) = v % Power(b, n)
<1>. DEFINE A(i) == Amount(s, b, i)
            T == {i \in 0 .. n : A(i) = v % Power(b, i)}
<1>1. ASSUME NEW i \in 1 .. n PROVE s[i] \in Int
  <2>1. i - 1 \in Nat
    OBVIOUS
  <2>2. Power(b, i - 1) \in Nat \ {0}
    BY <2>1, PowerGrows
  <2>3. v \div Power(b, i - 1) \in Nat
    BY <2>2, Divides, Zenon
  <2>. DEFINE q == v \div Power(b, i - 1)
  <2>4. s[i] = q % b
    OBVIOUS
  <2>. HIDE DEF q
  <2>5. q % b \in 0 .. b - 1
    BY <2>3, Divides, Zenon DEF q
  <2>. QED
    BY <2>4, <2>5
<1>2. /\ A(0) = 0 /\ \A i \in 0 .. n : A(i) \in Int
      /\ \A i \in 1 .. n : A(i) = A(i - 1) + s[i] * Power(b, i - 1)
  BY <1>1, AmountIs
<1>. HIDE DEF A
<1>3. 0 \in T
  <2>1. v % 1 = 0
    OBVIOUS
  <2>. QED
    BY <1>2, <2>1, PowerIs
<1>4. ASSUME NEW i \in 1 .. n, i - 1 \in T PROVE i \in T
  <2>1. i - 1 \in Nat /\ i - 1 + 1 = i /\ i - 1 \in 0 .. n /\ i \in 0 .. n
    OBVIOUS
  <2>2. PICK p \in Nat \ {0} : p = Power(b, i - 1) /\ Power(b, i - 1 + 1) = p * b
    <3>1. Power(b, i - 1) \in Nat \ {0}
      BY <2>1, PowerGrows
    <3>2. Power(b, i - 1 + 1) = Power(b, i - 1) * b
      BY <2>1, PowerIs
    <3>. QED
      BY <3>1, <3>2, Zenon
  <2>3. A(i - 1) = v % p
    BY <1>4, <2>2
  <2>4. s[i] = (v \div p) % b
    BY <2>2
  <2>5. v % (p * b) = (v % p) + ((v \div p) % b) * p
    BY NextDigit, Zenon
  <2>6. A(i) = A(i - 1) + s[i] * p
    BY <1>2, <2>2
  <2>7. A(i) = v % Power(b, i)
    BY <2>1, <2>2, <2>3, <2>4, <2>5, <2>6, Zenon
  <2>. QED
    BY <2>1, <2>7
<1>. HIDE DEF T
<1>5. \A i \in 0 .. n : i \in T
  BY <1>3, <1>4, InductionTo
<1>. QED
  BY <1>5 DEF T, A

\* Different digits below the base amount to different numbers.
LEMMA DigitsAreApart ==
    ASSUME NEW b \in Nat \ {0}, NEW n \in Nat, NEW s, NEW t,
           \A i \in 1 .. n : s[i] \in 0 .. b - 1 /\ t[i] \in 0 .. b - 1,
           Amount(s, b, n) = Amount(t, b, n)
    PROVE  \A i \in 1 .. n : s[i] = t[i]
<1>. DEFINE A(i) == Amount(s, b, i)
            B(i) == Amount(t, b, i)
            T == {i \in 0 .. n : A(n - i) = B(n - i) /\ \A j \in n - i + 1 .. n : s[j] = t[j]}
<1>1. \A i \in 1 .. n : A(i) = A(i - 1) + s[i] * Power(b, i - 1)
                        /\ B(i) = B(i - 1) + t[i] * Power(b, i - 1)
  <2>1. \A i \in 1 .. n : s[i] \in Int /\ t[i] \in Int
    OBVIOUS
  <2>. QED
    BY <2>1, AmountIs
<1>2. ASSUME NEW i \in 0 .. n
      PROVE  A(i) \in 0 .. Power(b, i) - 1 /\ B(i) \in 0 .. Power(b, i) - 1
  <2>1. i \in Nat /\ \A j \in 1 .. i : s[j] \in 0 .. b - 1 /\ t[j] \in 0 .. b - 1
    OBVIOUS
  <2>. QED
    BY <2>1, AmountIsBounded
<1>3. A(n) = B(n)
  OBVIOUS
<1>. HIDE DEF A, B
<1>4. 0 \in T
  BY <1>3
<1>5. ASSUME NEW i \in 1 .. n, i - 1 \in T PROVE i \in T
  <2>. DEFINE m == n - i
  <2>1. m \in Nat /\ m + 1 \in 1 .. n /\ n - (i - 1) = m + 1 /\ m + 1 - 1 = m /\ m \in 0 .. n
        /\ i \in 0 .. n
    OBVIOUS
  <2>2. A(n - (i - 1)) = B(n - (i - 1)) /\ \A j \in n - (i - 1) + 1 .. n : s[j] = t[j]
    BY <1>5
  <2>. HIDE DEF m
  <2>3. PICK p \in Nat \ {0} : p = Power(b, m)
    BY <2>1, PowerGrows
  <2>4. PICK a \in 0 .. p - 1, c \in 0 .. p - 1 : a = A(m) /\ c = B(m)
    BY <1>2, <2>1, <2>3
  <2>5. PICK v \in 0 .. b - 1, w \in 0 .. b - 1 : v = s[m + 1] /\ w = t[m + 1]
    BY <2>1
  <2>6. a + v * p = c + w * p
    BY <1>1, <2>1, <2>2, <2>3, <2>4, <2>5
  <2>7. a = c /\ v = w
    <3>1. (v * p + a) % p = a /\ (w * p + c) % p = c
      BY RemainderIs
    <3>2. v * p + a = w * p + c
      <4>. DEFINE x == v * p
                  y == w * p
      <4>1. x \in Int /\ y \in Int /\ a + x = c + y
        BY <2>6
      <4>. HIDE DEF x, y
      <4>2. x + a = y + c
        BY <4>1
      <4>. QED
        BY <4>2 DEF x, y
    <3>3. (v * p + a) \div p = v /\ (w * p + c) \div p = w
      BY QuotientOfInt
    <3>. QED
      BY <3>1, <3>2, <3>3
  <2>8. \A j \in m + 1 .. n : s[j] = t[j]
    <3>1. \A j \in m + 1 .. n : j = m + 1 \/ j \in n - (i - 1) + 1 .. n
      BY <2>1
    <3>. QED
      BY <2>2, <2>5, <2>7, <3>1
  <2>. QED
    BY <2>1, <2>4, <2>7, <2>8 DEF m
<1>6. n \in T
  <2>1. \A i \in 0 .. n : i \in T
    <3>. HIDE DEF T
    <3>. QED
      BY <1>4, <1>5, InductionTo
  <2>. QED
    BY <2>1
<1>7. \A j \in n - n + 1 .. n : s[j] = t[j]
  BY <1>6
<1>. QED
  BY <1>7

-----------------------------------------------------------------------------
(* Words, carries and the order of words *)

\* How many words there are.
WordCount == Power(Base, Limbs)

\* Words stand for the numbers below their count, each for one (U256).
LEMMA WordIs ==
    ASSUME NEW a \in Words
    PROVE  /\ Len(a) = Limbs /\ \A i \in 1 .. Limbs : a[i] \in 0 .. Base - 1 /\ a[i] \in Int
           /\ ToNat(a) = Amount(a, Base, Limbs)
           /\ ToNat(a) \in 0 .. WordCount - 1 /\ ToNat(a) \in Nat
<1>1. Limbs \in Nat /\ Base \in Nat \ {0} /\ Base \in Nat
  BY PrimeIs
<1>2. a \in [1 .. Limbs -> 0 .. Base - 1]
  BY DEF Words, Index
<1>3. Len(a) = Limbs /\ \A i \in 1 .. Limbs : a[i] \in 0 .. Base - 1 /\ a[i] \in Int
  BY <1>1, <1>2
<1>4. ToNat(a) = Amount(a, Base, Limbs)
  BY <1>1, <1>3, ValueIs DEF ToNat
<1>5. Amount(a, Base, Limbs) \in 0 .. Power(Base, Limbs) - 1
  BY <1>1, <1>3, AmountIsBounded
<1>6. Power(Base, Limbs) \in Nat
  BY PrimeIs
<1>. QED
  BY <1>3, <1>4, <1>5, <1>6 DEF WordCount

\* Words that stand for the same number are the same.
LEMMA WordsAreApart ==
    ASSUME NEW a \in Words, NEW b \in Words, ToNat(a) = ToNat(b)
    PROVE  a = b
<1>1. Limbs \in Nat /\ Base \in Nat \ {0}
  BY PrimeIs
<1>2. \A i \in 1 .. Limbs : a[i] \in 0 .. Base - 1 /\ b[i] \in 0 .. Base - 1
  BY WordIs
<1>3. Amount(a, Base, Limbs) = Amount(b, Base, Limbs)
  BY WordIs
<1>4. \A i \in 1 .. Limbs : a[i] = b[i]
  BY <1>1, <1>2, <1>3, DigitsAreApart
<1>5. a = [i \in 1 .. Limbs |-> a[i]] /\ b = [i \in 1 .. Limbs |-> b[i]]
  BY DEF Words, Index
<1>. QED
  BY <1>4, <1>5

\* A number below the count is what its limbs stand for; a larger one is cut.
LEMMA FromNatIs ==
    ASSUME NEW v \in Nat
    PROVE  /\ FromNat(v) \in Words /\ ToNat(FromNat(v)) = v % WordCount
           /\ v < WordCount => ToNat(FromNat(v)) = v
           /\ \A a \in Words : ToNat(a) = v => a = FromNat(v)
<1>. DEFINE s == FromNat(v)
<1>1. Limbs \in Nat /\ Base \in Nat \ {0} /\ WordCount \in Nat /\ WordCount > 0
  BY PrimeIs DEF WordCount
<1>2. s \in Words /\ \A i \in 1 .. Limbs : s[i] = (v \div Power(Base, i - 1)) % Base
  BY LimbsAre DEF Index
<1>. HIDE DEF s
<1>3. Amount(s, Base, Limbs) = v % Power(Base, Limbs)
  BY <1>1, <1>2, DigitsAmountTo
<1>4. ToNat(s) = v % WordCount
  BY <1>2, <1>3, WordIs DEF WordCount
<1>5. v < WordCount => v % WordCount = v
  BY <1>1
<1>6. ASSUME NEW a \in Words, ToNat(a) = v PROVE a = s
  <2>1. v < WordCount
    BY <1>1, <1>6, WordIs
  <2>2. ToNat(a) = ToNat(s)
    BY <1>4, <1>5, <1>6, <2>1
  <2>. QED
    BY <1>2, <2>2, WordsAreApart
<1>. QED
  BY <1>2, <1>4, <1>5, <1>6 DEF s

\* Each limb is cut to its width and the rest is carried on: nothing is lost but the last
\* carry counts for all words (U256::add_carry, sub_borrow, mul_wide).
LEMMA CarriedIs ==
    ASSUME NEW limbs, \A i \in 1 .. Limbs : limbs[i] \in Int, NEW carry \in Int
    PROVE  LET c == Carried(limbs, carry)
           IN  /\ c.limbs \in Words /\ c.carry \in Int
               /\ ToNat(c.limbs) + WordCount * c.carry = Amount(limbs, Base, Limbs) + carry
<1>. DEFINE op == [p \in Int \X (1 .. Limbs) |-> limbs[p[2]] + p[1] \div Base]
            Loop(it, i) == IF i = 0 THEN carry * Base ELSE limbs[i] + it[i - 1] \div Base
            Loops(it) == it = [i \in 0 .. Limbs |-> Loop(it, i)]
            g == CHOOSE it : Loops(it)
            base == carry * Base
            c == Carried(limbs, carry)
<1>1. Limbs \in Nat /\ Base \in Nat \ {0} /\ Base \in Nat /\ base \in Int
  BY PrimeIs
<1>2. PICK f \in [0 .. Limbs -> Int] : Follows(f, base, op, Limbs)
  <2>1. ASSUME NEW x \in Int, NEW i \in 1 .. Limbs PROVE limbs[i] + x \div Base \in Int
    <3>1. x \div Base \in Int
      BY <1>1, DividesInt, Zenon
    <3>2. limbs[i] \in Int
      OBVIOUS
    <3>. QED
      BY <3>1, <3>2
  <2>2. op \in [Int \X (1 .. Limbs) -> Int]
    BY <2>1
  <2>. HIDE DEF op, base
  <2>. QED
    BY <1>1, <2>2, RecursionExists, Zenon
<1>3. f[0] = base /\ \A i \in 1 .. Limbs : f[i] = limbs[i] + f[i - 1] \div Base
  <2>1. \A x \in Int, i \in 1 .. Limbs : op[<<x, i>>] = limbs[i] + x \div Base
    OBVIOUS
  <2>2. \A i \in 1 .. Limbs : f[i - 1] \in Int
    <3>1. \A i \in 1 .. Limbs : i - 1 \in 0 .. Limbs
      BY <1>1
    <3>. QED
      BY <1>2, <3>1
  <2>. HIDE DEF op
  <2>. QED
    BY <1>2, <2>1, <2>2, Zenon DEF Follows
<1>. HIDE DEF op
<1>4. Loops(f)
  <2>1. \A i \in 0 .. Limbs : f[i] = Loop(f, i)
    BY <1>3
  <2>. HIDE DEF Loop
  <2>. QED
    BY <2>1
<1>5. Loops(g)
  <2>. HIDE DEF Loops
  <2>. QED
    BY <1>4, Zenon
<1>6. c = [limbs |-> Word([i \in Index |-> g[i] % Base]), carry |-> g[Limbs] \div Base]
  BY Zenon DEF Carried
<1>. HIDE DEF g, c
<1>7. \A i \in 0 .. Limbs : g[i] = f[i]
  <2>1. \A i \in 0 .. Limbs : g[i] = Loop(g, i)
    <3>. HIDE DEF Loop
    <3>. QED
      BY <1>5
  <2>. HIDE DEF Loops
  <2>2. g[0] = base /\ \A i \in 1 .. Limbs : g[i] = limbs[i] + g[i - 1] \div Base
    BY <1>1, <2>1
  <2>3. StepsAlike(f, g, Limbs)
    BY <1>3, <2>2, Zenon DEF StepsAlike
  <2>4. Alike(f, g, Limbs)
    BY <1>1, <2>3, RecursionIsUnique
  <2>. QED
    BY <2>4 DEF Alike
<1>. HIDE DEF Loops
<1>. DEFINE r == [i \in 1 .. Limbs |-> f[i] % Base]
<1>8. r \in [1 .. Limbs -> 0 .. Base - 1]
  <2>1. ASSUME NEW i \in 1 .. Limbs PROVE f[i] % Base \in 0 .. Base - 1
    <3>1. f[i] \in Int
      BY <1>2
    <3>. QED
      BY <1>1, <3>1, DividesInt, Zenon
  <2>. QED
    BY <2>1
<1>9. [i \in Index |-> g[i] % Base] = r
  BY <1>7 DEF Index
<1>. HIDE DEF r
<1>10. Word(r) = r
  <2>1. r \in Seq(0 .. Base - 1) /\ Len(r) = Limbs
    BY <1>1, <1>8
  <2>2. SubSeq(r, 1, Limbs) = r
    BY <2>1, SubSeqFull
  <2>. QED
    BY <2>2 DEF Word
<1>11. c.limbs = r /\ c.carry = f[Limbs] \div Base
  BY <1>1, <1>6, <1>7, <1>9, <1>10
<1>12. r \in Words
  BY <1>8 DEF Words, Index
<1>13. c.carry \in Int
  BY <1>1, <1>2, <1>11, DividesInt
<1>. DEFINE A(i) == Amount(r, Base, i)
            B(i) == Amount(limbs, Base, i)
            out(i) == f[i] \div Base
            T == {i \in 0 .. Limbs : A(i) + Power(Base, i) * out(i) = B(i) + carry}
<1>14. /\ A(0) = 0 /\ \A i \in 0 .. Limbs : A(i) \in Int
       /\ \A i \in 1 .. Limbs : A(i) = A(i - 1) + r[i] * Power(Base, i - 1)
  <2>1. \A i \in 1 .. Limbs : r[i] \in Int
    BY <1>1, <1>8
  <2>. QED
    BY <1>1, <2>1, AmountIs
<1>15. /\ B(0) = 0 /\ \A i \in 0 .. Limbs : B(i) \in Int
       /\ \A i \in 1 .. Limbs : B(i) = B(i - 1) + limbs[i] * Power(Base, i - 1)
  BY <1>1, AmountIs
<1>16. ASSUME NEW i \in 0 .. Limbs PROVE out(i) \in Int
  <2>1. f[i] \in Int
    BY <1>2
  <2>. QED
    BY <1>1, <2>1, DividesInt, Zenon
<1>. HIDE DEF A, B
<1>17. 0 \in T
  <2>1. base \div Base = carry
    <3>1. (carry * Base + 0) \div Base = carry
      <4>1. 0 \in 0 .. Base - 1
        BY <1>1
      <4>. QED
        BY <1>1, <4>1, QuotientOfInt
    <3>2. carry * Base + 0 = base
      BY <1>1
    <3>. QED
      BY <3>1, <3>2
  <2>2. Power(Base, 0) = 1
    BY <1>1, PowerIs
  <2>. HIDE DEF base
  <2>. QED
    BY <1>1, <1>3, <1>14, <1>15, <2>1, <2>2, SMTT(30)
<1>18. ASSUME NEW i \in 1 .. Limbs, i - 1 \in T PROVE i \in T
  <2>1. i - 1 \in Nat /\ i - 1 + 1 = i /\ i - 1 \in 0 .. Limbs /\ i \in 0 .. Limbs
    BY <1>1
  <2>2. Power(Base, i - 1) \in Nat /\ Power(Base, i) = Power(Base, i - 1) * Base
    <3>1. Power(Base, i - 1 + 1) = Power(Base, i - 1) * Base /\ Power(Base, i - 1) \in Nat
      BY <1>1, <2>1, PowerIs
    <3>. QED
      BY <2>1, <3>1
  <2>3. PICK p \in Int : p = Power(Base, i - 1)
    BY <2>2
  <2>4. A(i - 1) + p * out(i - 1) = B(i - 1) + carry
    BY <1>18, <2>3
  <2>5. f[i] = limbs[i] + out(i - 1) /\ r[i] = f[i] % Base
    BY <1>3 DEF r
  <2>6. f[i] = out(i) * Base + r[i] /\ r[i] \in Int
    <3>1. f[i] \in Int
      BY <1>2, <2>1
    <3>2. f[i] = (f[i] \div Base) * Base + (f[i] % Base) /\ f[i] % Base \in 0 .. Base - 1
      BY <1>1, <3>1, DividesInt, Zenon
    <3>. QED
      BY <1>1, <2>5, <3>2
  <2>7. PICK a \in Int, b \in Int, x \in Int, y \in Int, u \in Int, v \in Int :
          /\ a = A(i - 1) /\ b = B(i - 1) /\ x = out(i - 1) /\ y = out(i)
          /\ u = r[i] /\ v = limbs[i]
    <3>1. A(i - 1) \in Int /\ B(i - 1) \in Int /\ out(i - 1) \in Int /\ out(i) \in Int
          /\ r[i] \in Int /\ limbs[i] \in Int
      BY <1>14, <1>15, <1>16, <2>1, <2>6
    <3>. QED
      BY <3>1
  <2>. HIDE DEF out
  <2>8. a + p * x = b + carry /\ v + x = y * Base + u
    BY <2>4, <2>5, <2>6, <2>7
  <2>9. (a + u * p) + (p * Base) * y = (b + v * p) + carry
    <3>1. u = v + x - y * Base
      BY <1>1, <2>8
    <3>2. u * p = v * p + x * p - (y * Base) * p
      BY <1>1, <3>1
    <3>. DEFINE m == x * p
                k == (y * Base) * p
                l == v * p
                w == u * p
    <3>3. m = p * x /\ k = (p * Base) * y /\ m \in Int /\ k \in Int /\ l \in Int /\ w \in Int
      BY <1>1
    <3>4. a + m = b + carry /\ w = l + m - k
      BY <2>8, <3>2, <3>3
    <3>5. m \in Int /\ k \in Int /\ l \in Int /\ w \in Int
      BY <3>3
    <3>6. (a + w) + k = (b + l) + carry
      <4>. HIDE DEF m, k, l, w
      <4>. QED
        BY <3>4, <3>5
    <3>. QED
      BY <3>3, <3>6
  <2>10. A(i) = a + u * p /\ B(i) = b + v * p /\ Power(Base, i) = p * Base
    BY <1>14, <1>15, <2>2, <2>3, <2>7
  <2>11. A(i) + Power(Base, i) * out(i) = B(i) + carry
    BY <2>7, <2>9, <2>10, Zenon
  <2>. QED
    BY <2>1, <2>11
<1>19. \A i \in 0 .. Limbs : i \in T
  <2>. HIDE DEF T
  <2>. QED
    BY <1>1, <1>17, <1>18, InductionTo
<1>20. A(Limbs) + Power(Base, Limbs) * out(Limbs) = B(Limbs) + carry
  <2>1. Limbs \in 0 .. Limbs
    BY <1>1
  <2>. QED
    BY <1>19, <2>1
<1>21. ToNat(r) = A(Limbs)
  BY <1>12, WordIs DEF A
<1>. QED
  BY <1>11, <1>12, <1>13, <1>20, <1>21 DEF B, WordCount, c

\* What is carried out of the last limb is the quotient, what stays is the remainder.
LEMMA CarryIs ==
    ASSUME NEW limbs, \A i \in 1 .. Limbs : limbs[i] \in Int, NEW carry \in Int,
           NEW x \in Int, x = Amount(limbs, Base, Limbs) + carry
    PROVE  /\ Carried(limbs, carry).limbs \in Words
           /\ ToNat(Carried(limbs, carry).limbs) = x % WordCount
           /\ Carried(limbs, carry).limbs = FromNat(x % WordCount)
           /\ Carried(limbs, carry).carry = x \div WordCount
<1>. DEFINE c == Carried(limbs, carry)
            v == ToNat(c.limbs)
            q == c.carry
<1>1. c.limbs \in Words /\ q \in Int /\ v + WordCount * q = x
  BY CarriedIs
<1>2. WordCount \in Nat \ {0}
  BY PrimeIs DEF WordCount
<1>3. v \in 0 .. WordCount - 1
  BY <1>1, WordIs
<1>4. \A w \in Words : ToNat(w) \in Nat => w = FromNat(ToNat(w))
  BY FromNatIs, Zenon
<1>5. c.limbs = FromNat(v)
  <2>1. v \in Nat
    BY <1>1, WordIs
  <2>. QED
    BY <1>1, <1>4, <2>1, Zenon
<1>. HIDE DEF v, q, c
<1>6. x = q * WordCount + v
  <2>1. WordCount * q = q * WordCount /\ v \in Int /\ q * WordCount \in Int
    BY <1>1, <1>2, <1>3
  <2>. DEFINE y == q * WordCount
  <2>2. v + y = x /\ y \in Int /\ v \in Int
    BY <1>1, <2>1
  <2>. HIDE DEF y
  <2>3. x = y + v
    BY <2>2
  <2>. QED
    BY <2>3 DEF y
<1>7. x % WordCount = v
  BY <1>1, <1>2, <1>3, <1>6, RemainderOfInt
<1>8. x \div WordCount = q
  <2>1. (q * WordCount + v) \div WordCount = q
    BY <1>1, <1>2, <1>3, QuotientOfInt, Zenon
  <2>. QED
    BY <1>6, <2>1, Zenon
<1>. QED
  BY <1>1, <1>5, <1>7, <1>8 DEF c, v, q

\* Words are added (U256::add_carry).
LEMMA AddCarryIs ==
    ASSUME NEW a \in Words, NEW b \in Words
    PROVE  LET x == ToNat(a) + ToNat(b)
           IN  /\ AddCarry(a, b).limbs \in Words
               /\ ToNat(AddCarry(a, b).limbs) = x % WordCount
               /\ AddCarry(a, b).carry = x \div WordCount
<1>. DEFINE limbs == [i \in Index |-> a[i] + b[i]]
            x == ToNat(a) + ToNat(b)
<1>1. Limbs \in Nat /\ Base \in Nat
  BY PrimeIs
<1>2. \A i \in 1 .. Limbs : a[i] \in Int /\ b[i] \in Int
  BY WordIs
<1>3. \A i \in 1 .. Limbs : limbs[i] = 1 * a[i] + 1 * b[i] /\ limbs[i] \in Int
  BY <1>2 DEF Index
<1>4. AddCarry(a, b) = Carried(limbs, 0)
  BY DEF AddCarry
<1>5. x \in Int /\ x = 1 * ToNat(a) + 1 * ToNat(b) + 0
  BY WordIs
<1>6. ToNat(a) = Amount(a, Base, Limbs) /\ ToNat(b) = Amount(b, Base, Limbs)
  BY WordIs
<1>. HIDE DEF limbs, x
<1>7. Amount(limbs, Base, Limbs) = 1 * Amount(a, Base, Limbs) + 1 * Amount(b, Base, Limbs)
  <2>1. 1 \in Int
    OBVIOUS
  <2>2. \A i \in 1 .. Limbs :
          a[i] \in Int /\ b[i] \in Int /\ limbs[i] = 1 * a[i] + 1 * b[i]
    BY <1>2, <1>3
  <2>. QED
    BY <1>1, <2>1, <2>2, AmountIsLinear
<1>8. x = Amount(limbs, Base, Limbs) + 0
  BY <1>5, <1>6, <1>7
<1>9. 0 \in Int /\ \A i \in 1 .. Limbs : limbs[i] \in Int
  BY <1>3
<1>. QED
  BY <1>4, <1>5, <1>8, <1>9, CarryIs DEF x

\* Words are subtracted (U256::sub_borrow).
LEMMA SubBorrowIs ==
    ASSUME NEW a \in Words, NEW b \in Words
    PROVE  LET x == ToNat(a) - ToNat(b)
           IN  /\ SubBorrow(a, b).limbs \in Words
               /\ ToNat(SubBorrow(a, b).limbs) = x % WordCount
               /\ SubBorrow(a, b).carry = x \div WordCount
<1>. DEFINE limbs == [i \in Index |-> a[i] - b[i]]
            x == ToNat(a) - ToNat(b)
<1>1. Limbs \in Nat /\ Base \in Nat
  BY PrimeIs
<1>2. \A i \in 1 .. Limbs : a[i] \in Int /\ b[i] \in Int
  BY WordIs
<1>3. \A i \in 1 .. Limbs : limbs[i] = 1 * a[i] + (-1) * b[i] /\ limbs[i] \in Int
  BY <1>2 DEF Index
<1>4. SubBorrow(a, b) = Carried(limbs, 0)
  BY DEF SubBorrow
<1>5. x \in Int /\ x = 1 * ToNat(a) + (-1) * ToNat(b) + 0
  BY WordIs
<1>6. ToNat(a) = Amount(a, Base, Limbs) /\ ToNat(b) = Amount(b, Base, Limbs)
  BY WordIs
<1>. HIDE DEF limbs, x
<1>7. Amount(limbs, Base, Limbs) = 1 * Amount(a, Base, Limbs) + (-1) * Amount(b, Base, Limbs)
  <2>1. 1 \in Int /\ -1 \in Int
    OBVIOUS
  <2>2. \A i \in 1 .. Limbs :
          a[i] \in Int /\ b[i] \in Int /\ limbs[i] = 1 * a[i] + (-1) * b[i]
    BY <1>2, <1>3
  <2>. QED
    BY <1>1, <2>1, <2>2, AmountIsLinear
<1>8. x = Amount(limbs, Base, Limbs) + 0
  BY <1>5, <1>6, <1>7
<1>9. 0 \in Int /\ \A i \in 1 .. Limbs : limbs[i] \in Int
  BY <1>3
<1>. QED
  BY <1>4, <1>5, <1>8, <1>9, CarryIs DEF x

\* Words are ordered like the numbers that they stand for (U256::gte).
LEMMA GteIs ==
    ASSUME NEW a \in Words, NEW b \in Words
    PROVE  Gte(a, b) <=> ToNat(a) >= ToNat(b)
<1>. DEFINE A(i) == Amount(a, Base, i)
            B(i) == Amount(b, Base, i)
            Up(m) == \A i \in 1 .. m : a[i] < b[i] => \E j \in i + 1 .. m : a[j] > b[j]
            T == {m \in 0 .. Limbs : (Up(m) /\ A(m) >= B(m)) \/ (~Up(m) /\ A(m) < B(m))}
<1>1. Limbs \in Nat /\ Base \in Nat /\ Base \in Nat \ {0}
  BY PrimeIs
<1>2. \A i \in 1 .. Limbs : a[i] \in 0 .. Base - 1 /\ b[i] \in 0 .. Base - 1
                            /\ a[i] \in Int /\ b[i] \in Int
  BY WordIs
<1>3. /\ A(0) = 0 /\ B(0) = 0
      /\ \A i \in 1 .. Limbs : A(i) = A(i - 1) + a[i] * Power(Base, i - 1)
      /\ \A i \in 1 .. Limbs : B(i) = B(i - 1) + b[i] * Power(Base, i - 1)
  BY <1>1, <1>2, AmountIs
<1>4. ASSUME NEW m \in 0 .. Limbs
      PROVE  A(m) \in 0 .. Power(Base, m) - 1 /\ B(m) \in 0 .. Power(Base, m) - 1
  <2>1. m \in Nat /\ \A i \in 1 .. m : a[i] \in 0 .. Base - 1 /\ b[i] \in 0 .. Base - 1
    BY <1>1, <1>2
  <2>. QED
    BY <1>1, <2>1, AmountIsBounded
<1>. HIDE DEF A, B
<1>5. 0 \in T
  <2>1. Up(0)
    OBVIOUS
  <2>. QED
    BY <1>1, <1>3, <2>1
<1>6. ASSUME NEW m \in 1 .. Limbs, m - 1 \in T PROVE m \in T
  <2>1. m - 1 \in Nat /\ m - 1 \in 0 .. Limbs /\ m \in 0 .. Limbs /\ m \in Nat
    BY <1>1
  <2>2. PICK p \in Nat \ {0} : p = Power(Base, m - 1)
    BY <1>1, <2>1, PowerGrows
  <2>3. PICK u \in 0 .. p - 1, v \in 0 .. p - 1 : u = A(m - 1) /\ v = B(m - 1)
    BY <1>4, <2>1, <2>2
  <2>4. PICK x \in Nat, y \in Nat : x = a[m] /\ y = b[m]
    BY <1>1, <1>2
  <2>5. A(m) = u + x * p /\ B(m) = v + y * p
    BY <1>3, <2>2, <2>3, <2>4
  <2>6. (Up(m - 1) /\ u >= v) \/ (~Up(m - 1) /\ u < v)
    BY <1>6, <2>3
  <2>7. CASE x > y
    <3>1. Up(m)
      <4>. SUFFICES ASSUME NEW i \in 1 .. m, a[i] < b[i]
                    PROVE  \E j \in i + 1 .. m : a[j] > b[j]
        OBVIOUS
      <4>1. i # m
        BY <1>2, <2>4, <2>7
      <4>2. m \in i + 1 .. m
        BY <2>1, <4>1
      <4>. QED
        BY <2>4, <2>7, <4>2
    <3>2. u + x * p >= v + y * p
      <4>1. y * p + p <= x * p
        <5>1. y * p < x * p
          <6>1. (y + 1) * p <= x * p /\ (y + 1) * p = y * p + p
            BY <2>7, FactorsAreOrdered
          <6>2. y * p \in Nat /\ x * p \in Nat
            OBVIOUS
          <6>. DEFINE k == y * p
                      l == x * p
          <6>. HIDE DEF k, l
          <6>3. k + p <= l /\ k \in Nat /\ l \in Nat
            BY <6>1, <6>2 DEF k, l
          <6>4. k < l
            BY <6>3
          <6>. QED
            BY <6>4 DEF k, l
        <5>. QED
          BY <5>1, MultiplesAreApart
      <4>2. y * p \in Nat /\ x * p \in Nat
        OBVIOUS
      <4>. DEFINE k == y * p
                  l == x * p
      <4>. HIDE DEF k, l
      <4>3. k + p <= l /\ k \in Nat /\ l \in Nat
        BY <4>1, <4>2 DEF k, l
      <4>4. u + l >= v + k
        BY <4>3
      <4>. QED
        BY <4>4 DEF k, l
    <3>3. A(m) >= B(m)
      BY <2>5, <3>2
    <3>. HIDE DEF Up
    <3>. QED
      BY <2>1, <3>1, <3>3
  <2>8. CASE x < y
    <3>1. ~Up(m)
      <4>1. m \in 1 .. m /\ a[m] < b[m] /\ m + 1 .. m = {}
        BY <2>1, <2>4, <2>8
      <4>. QED
        BY <4>1
    <3>2. u + x * p < v + y * p
      <4>1. (x + 1) * p <= y * p /\ (x + 1) * p = x * p + p
        BY <2>8, FactorsAreOrdered
      <4>2. y * p \in Nat /\ x * p \in Nat
        OBVIOUS
      <4>. DEFINE k == y * p
                  l == x * p
      <4>. HIDE DEF k, l
      <4>3. l + p <= k /\ k \in Nat /\ l \in Nat
        BY <4>1, <4>2 DEF k, l
      <4>4. u + l < v + k
        BY <4>3
      <4>. QED
        BY <4>4 DEF k, l
    <3>3. A(m) < B(m)
      BY <2>5, <3>2
    <3>. HIDE DEF Up
    <3>. QED
      BY <2>1, <3>1, <3>3
  <2>9. CASE x = y
    <3>1. Up(m - 1) => Up(m)
      <4>. SUFFICES ASSUME Up(m - 1), NEW i \in 1 .. m, a[i] < b[i]
                    PROVE  \E j \in i + 1 .. m : a[j] > b[j]
        OBVIOUS
      <4>1. i # m /\ i \in 1 .. m - 1
        <5>1. ~(a[m] < b[m]) /\ a[i] < b[i]
          BY <2>4, <2>9
        <5>2. i # m
          BY <5>1, Zenon
        <5>. QED
          BY <2>1, <5>2
      <4>2. PICK j \in i + 1 .. m - 1 : a[j] > b[j]
        BY <4>1
      <4>3. j \in i + 1 .. m
        BY <2>1
      <4>. QED
        BY <4>2, <4>3
    <3>2. Up(m) => Up(m - 1)
      <4>. SUFFICES ASSUME Up(m), NEW i \in 1 .. m - 1, a[i] < b[i]
                    PROVE  \E j \in i + 1 .. m - 1 : a[j] > b[j]
        OBVIOUS
      <4>1. i \in 1 .. m
        BY <2>1
      <4>2. PICK j \in i + 1 .. m : a[j] > b[j]
        BY <4>1
      <4>3. j # m
        <5>1. ~(a[m] > b[m]) /\ a[j] > b[j]
          BY <2>4, <2>9, <4>2
        <5>. QED
          BY <5>1, Zenon
      <4>4. j \in i + 1 .. m - 1
        BY <2>1, <4>3
      <4>. QED
        BY <4>2, <4>4
    <3>3. x * p = y * p /\ x * p \in Nat
      BY <2>9
    <3>. HIDE DEF Up
    <3>4. CASE u >= v
      <4>1. u + x * p >= v + y * p
        BY <3>3, <3>4
      <4>2. A(m) >= B(m)
        BY <2>5, <4>1
      <4>3. Up(m)
        BY <2>6, <3>1, <3>4
      <4>. QED
        BY <2>1, <4>2, <4>3
    <3>5. CASE u < v
      <4>1. u + x * p < v + y * p
        BY <3>3, <3>5
      <4>2. A(m) < B(m)
        BY <2>5, <4>1
      <4>3. ~Up(m)
        BY <2>6, <3>2, <3>5
      <4>. QED
        BY <2>1, <4>2, <4>3
    <3>. QED
      BY <3>4, <3>5
  <2>. QED
    BY <2>7, <2>8, <2>9
<1>7. Limbs \in T
  <2>1. \A m \in 0 .. Limbs : m \in T
    <3>. HIDE DEF T
    <3>. QED
      BY <1>1, <1>5, <1>6, InductionTo
  <2>. QED
    BY <1>1, <2>1
<1>8. (Up(Limbs) /\ A(Limbs) >= B(Limbs)) \/ (~Up(Limbs) /\ A(Limbs) < B(Limbs))
  BY <1>7
<1>9. ToNat(a) = A(Limbs) /\ ToNat(b) = B(Limbs)
  BY WordIs DEF A, B
<1>10. ToNat(a) \in Int /\ ToNat(b) \in Int
  BY WordIs
<1>11. Up(Limbs) <=> Gte(a, b)
  BY Zenon DEF Gte, Index
<1>. HIDE DEF Up
<1>12. Gte(a, b) => ToNat(a) >= ToNat(b)
  BY <1>8, <1>9, <1>10, <1>11
<1>13. ~Gte(a, b) => ToNat(a) < ToNat(b)
  BY <1>8, <1>9, <1>10, <1>11
<1>. QED
  BY <1>10, <1>12, <1>13

-----------------------------------------------------------------------------
(* The field on words *)

\* The prime and the first numbers are words; the prime lies between half of the count of
\* words and the count.
LEMMA FieldWords ==
    /\ WordCount \in Nat \ {0} /\ WordCount = Prime + Factor /\ Prime \in Nat \ {0}
    /\ Factor \in Nat \ {0} /\ Factor < Prime /\ Prime > 7
    /\ SECP256K1_P \in Words /\ ToNat(SECP256K1_P) = Prime
    /\ Zero \in Words /\ ToNat(Zero) = 0 /\ One \in Words /\ ToNat(One) = 1
    /\ \A m \in Element : /\ m \in Nat /\ m < Prime /\ m < WordCount
                          /\ FromNat(m) \in Words /\ ToNat(FromNat(m)) = m
<1>1. /\ WordCount \in Nat \ {0} /\ WordCount = Prime + Factor /\ Prime \in Nat \ {0}
      /\ Factor \in Nat \ {0} /\ Prime > 7
  BY PrimeIs DEF WordCount
<1>2. Factor < Prime
  <2>1. Base \in Nat /\ Base > 3 /\ Factor < Base /\ WordCount >= Base * Base
    BY PrimeIs DEF WordCount
  <2>2. Base * Base \in Nat /\ Base * Base >= 4 * Base
    <3>1. Base \in Nat \ {0} /\ 4 \in Nat /\ 4 <= Base
      BY <2>1
    <3>2. 4 * Base <= Base * Base
      BY <3>1, FactorsAreOrdered
    <3>. QED
      BY <2>1, <3>2
  <2>. DEFINE x == Base * Base
  <2>3. x \in Nat /\ x >= 4 * Base /\ WordCount >= x
    BY <2>1, <2>2
  <2>. HIDE DEF x
  <2>. QED
    BY <1>1, <2>1, <2>3
<1>3. \A m \in Nat : m < WordCount => FromNat(m) \in Words /\ ToNat(FromNat(m)) = m
  BY FromNatIs
<1>4. \A m \in Element : m \in Nat /\ m < Prime /\ m < WordCount
  BY <1>1 DEF Element
<1>5. Prime \in Nat /\ Prime < WordCount /\ 0 \in Nat /\ 0 < WordCount /\ 1 \in Nat
      /\ 1 < WordCount
  BY <1>1
<1>. QED
  BY <1>1, <1>2, <1>3, <1>4, <1>5 DEF SECP256K1_P, Zero, One

\* A number below the count has no quotient, and is its own remainder.
LEMMA SmallNumber ==
    ASSUME NEW x \in Int, NEW r \in Nat \ {0}
    PROVE  /\ x \in 0 .. r - 1 => x % r = x /\ x \div r = 0
           /\ x >= r => x \div r # 0
           /\ x < 0 => x \div r # 0
<1>. DEFINE q == x \div r
            m == x % r
<1>1. q \in Int /\ m \in 0 .. r - 1 /\ x = q * r + m
  BY DividesInt, Zenon
<1>2. ASSUME x \in 0 .. r - 1 PROVE x % r = x /\ x \div r = 0
  <2>1. x = 0 * r + x
    OBVIOUS
  <2>2. (0 * r + x) % r = x /\ (0 * r + x) \div r = 0
    <3>1. 0 \in Int
      OBVIOUS
    <3>. QED
      BY <1>2, <3>1, RemainderOfInt, QuotientOfInt, Zenon
  <2>. QED
    BY <2>1, <2>2, Zenon
<1>. HIDE DEF q, m
<1>3. ASSUME q = 0 PROVE x \in 0 .. r - 1
  BY <1>1, <1>3
<1>. QED
  BY <1>2, <1>3 DEF q

\* A sum of two elements (field_add).
LEMMA FieldAddIs ==
    ASSUME NEW m \in Element, NEW n \in Element
    PROVE  FieldAdd(FromNat(m), FromNat(n)) = FromNat(Plus(m, n))
<1>. DEFINE x == m + n
            sum == AddCarry(FromNat(m), FromNat(n))
            w == WordCount
            diff == SubBorrow(sum.limbs, SECP256K1_P).limbs
<1>1. x \in Nat /\ x < 2 * Prime /\ Prime \in Nat \ {0} /\ w \in Nat \ {0} /\ Prime < w
  BY FieldWords
<1>2. sum.limbs \in Words /\ ToNat(sum.limbs) = x % w /\ sum.carry = x \div w
  BY FieldWords, AddCarryIs
<1>3. diff \in Words /\ ToNat(diff) = ((x % w) - Prime) % w
  BY <1>2, FieldWords, SubBorrowIs
<1>. HIDE DEF sum, diff, x, w
<1>4. FieldAdd(FromNat(m), FromNat(n))
        = IF sum.carry # 0 \/ Gte(sum.limbs, SECP256K1_P) THEN diff ELSE sum.limbs
  BY DEF FieldAdd, ReducedSum, ExceedsP, sum, diff
<1>5. Gte(sum.limbs, SECP256K1_P) <=> x % w >= Prime
  BY <1>2, FieldWords, GteIs
<1>6. Plus(m, n) = x % Prime
  BY DEF Plus, x
<1>7. CASE x < Prime
  <2>1. x % w = x /\ x \div w = 0 /\ x % Prime = x
    BY <1>1, <1>7, SmallNumber
  <2>2. FieldAdd(FromNat(m), FromNat(n)) = sum.limbs
    BY <1>1, <1>2, <1>4, <1>5, <1>7, <2>1
  <2>3. sum.limbs = FromNat(x)
    BY <1>1, <1>2, <2>1, FromNatIs
  <2>. QED
    BY <1>6, <2>1, <2>2, <2>3
<1>8. CASE x >= Prime
  <2>1. x % w >= Prime \/ x \div w # 0
    <3>1. x < w => x % w = x
      BY <1>1, SmallNumber
    <3>2. x >= w => x \div w # 0
      BY <1>1, SmallNumber
    <3>. QED
      BY <1>1, <1>8, <3>1, <3>2
  <2>2. FieldAdd(FromNat(m), FromNat(n)) = diff
    BY <1>2, <1>4, <1>5, <2>1
  <2>. DEFINE y == x - Prime
  <2>3. y \in 0 .. Prime - 1 /\ y \in Int /\ y \in Nat /\ y \in 0 .. w - 1
    BY <1>1, <1>8
  <2>4. ((x % w) - Prime) % w = y
    <3>1. -Prime \in Int /\ x \in Int
      BY <1>1
    <3>2. ((x % w) + (-Prime)) % w = (x + (-Prime)) % w
      BY <1>1, <3>1, ReducedTerm
    <3>3. x % w \in Int
      BY <1>1, DividesInt
    <3>4. (x % w) + (-Prime) = (x % w) - Prime /\ x + (-Prime) = y
      BY <1>1, <3>3
    <3>5. y % w = y
      BY <1>1, <2>3, SmallNumber
    <3>. HIDE DEF y
    <3>. QED
      BY <3>2, <3>4, <3>5, Zenon
  <2>5. diff = FromNat(y)
    <3>. HIDE DEF y
    <3>. QED
      BY <1>3, <2>3, <2>4, FromNatIs
  <2>6. x % Prime = y
    <3>1. x = 1 * Prime + y /\ 1 \in Int
      BY <1>1
    <3>. HIDE DEF y
    <3>2. (1 * Prime + y) % Prime = y
      BY <1>1, <2>3, <3>1, RemainderOfInt, Zenon
    <3>. QED
      BY <3>1, <3>2, Zenon
  <2>. QED
    BY <1>6, <2>2, <2>5, <2>6
<1>. QED
  BY <1>1, <1>7, <1>8

\* A difference of two elements (field_sub).
LEMMA FieldSubIs ==
    ASSUME NEW a \in Words, NEW b \in Words, ToNat(a) <= Prime, ToNat(b) \in Element,
           ToNat(a) = Prime => ToNat(b) # 0
    PROVE  FieldSub(a, b) = FromNat((ToNat(a) - ToNat(b)) % Prime)
<1>. DEFINE x == ToNat(a) - ToNat(b)
            diff == SubBorrow(a, b)
            w == WordCount
            sum == AddCarry(diff.limbs, SECP256K1_P).limbs
<1>1. x \in Int /\ x < Prime /\ x > -Prime /\ Prime \in Nat \ {0} /\ w \in Nat \ {0}
      /\ Prime < w
  <2>1. ToNat(a) \in Nat /\ ToNat(b) \in Nat /\ ToNat(b) < Prime
    BY WordIs, FieldWords
  <2>. QED
    BY <2>1, FieldWords
<1>2. diff.limbs \in Words /\ ToNat(diff.limbs) = x % w /\ diff.carry = x \div w
  BY SubBorrowIs
<1>3. sum \in Words /\ ToNat(sum) = ((x % w) + Prime) % w
  BY <1>2, FieldWords, AddCarryIs
<1>. HIDE DEF sum, diff, x, w
<1>4. FieldSub(a, b) = IF diff.carry # 0 THEN sum ELSE diff.limbs
  BY DEF FieldSub, ReducedDifference, sum, diff
<1>5. CASE x >= 0
  <2>1. x \in Nat /\ x % w = x /\ x \div w = 0 /\ x % Prime = x
    BY <1>1, <1>5, SmallNumber
  <2>2. FieldSub(a, b) = diff.limbs
    BY <1>2, <1>4, <2>1
  <2>3. diff.limbs = FromNat(x)
    BY <1>2, <2>1, FromNatIs
  <2>. QED
    BY <2>1, <2>2, <2>3 DEF x
<1>6. CASE x < 0
  <2>1. x \div w # 0
    BY <1>1, <1>6, SmallNumber
  <2>2. FieldSub(a, b) = sum
    BY <1>2, <1>4, <2>1
  <2>. DEFINE y == x + Prime
  <2>3. y \in 0 .. Prime - 1 /\ y \in Int /\ y \in Nat /\ y \in 0 .. w - 1
    BY <1>1, <1>6
  <2>4. ((x % w) + Prime) % w = y
    <3>1. ((x % w) + Prime) % w = (x + Prime) % w
      <4>1. Prime \in Int /\ w \in Nat \ {0} /\ x \in Int
        BY <1>1, FieldWords
      <4>. QED
        BY <4>1, ReducedTerm, Zenon
    <3>2. y % w = y
      BY <1>1, <2>3, SmallNumber
    <3>. QED
      BY <3>1, <3>2
  <2>5. sum = FromNat(y)
    <3>. HIDE DEF y
    <3>. QED
      BY <1>3, <2>3, <2>4, FromNatIs
  <2>6. x % Prime = y
    <3>1. x = (-1) * Prime + y /\ -1 \in Int
      BY <1>1
    <3>. HIDE DEF y
    <3>2. ((-1) * Prime + y) % Prime = y
      BY <1>1, <2>3, <3>1, RemainderOfInt, Zenon
    <3>. QED
      BY <3>1, <3>2, Zenon
  <2>. QED
    BY <2>2, <2>5, <2>6 DEF x
<1>. QED
  BY <1>1, <1>5, <1>6

\* The negative of an element (field_neg).
LEMMA FieldNegIs ==
    ASSUME NEW m \in Element
    PROVE  /\ FieldNeg(FromNat(m)) = FromNat((Prime - m) % Prime)
           /\ m # 0 => FieldNeg(FromNat(m)) = FromNat(Prime - m)
<1>. DEFINE a == FromNat(m)
<1>1. a \in Words /\ ToNat(a) = m /\ m \in Nat /\ m < Prime /\ Prime \in Nat \ {0}
  BY FieldWords
<1>2. CASE m = 0
  <2>1. a = Zero
    BY <1>2 DEF Zero
  <2>2. Prime % Prime = 0
    <3>1. Prime = 1 * Prime + 0 /\ 1 \in Int /\ 0 \in 0 .. Prime - 1
      BY <1>1
    <3>2. (1 * Prime + 0) % Prime = 0
      BY <1>1, <3>1, RemainderOfInt, Zenon
    <3>. QED
      BY <3>1, <3>2, Zenon
  <2>3. Prime - m = Prime
    BY <1>1, <1>2
  <2>. QED
    BY <1>2, <2>1, <2>2, <2>3 DEF FieldNeg, Zero
<1>3. CASE m # 0
  <2>1. a # Zero
    BY <1>1, <1>3, FieldWords
  <2>2. FieldNeg(a) = FieldSub(SECP256K1_P, a)
    BY <2>1 DEF FieldNeg
  <2>3. FieldSub(SECP256K1_P, a) = FromNat((Prime - m) % Prime)
    BY <1>1, <1>3, FieldWords, FieldSubIs
  <2>4. (Prime - m) % Prime = Prime - m
    BY <1>1, <1>3, SmallNumber
  <2>. QED
    BY <2>2, <2>3, <2>4
<1>. QED
  BY <1>2, <1>3

-----------------------------------------------------------------------------
(* The reduction of a product *)

\* A multiple of w between -w and n * w.
LEMMA MultipleBetween ==
    ASSUME NEW w \in Nat \ {0}, NEW c \in Int, NEW n \in Nat, w * c > -w, w * c < n * w
    PROVE  c \in Nat /\ c < n
<1>1. c >= 0
  <2>. SUFFICES ASSUME c < 0 PROVE FALSE
    OBVIOUS
  <2>1. -c \in Nat /\ 1 \in Nat /\ 1 <= -c
    OBVIOUS
  <2>2. 1 * w <= (-c) * w
    BY <2>1, FactorsAreOrdered
  <2>3. (-c) * w = -(w * c) /\ 1 * w = w /\ w * c \in Int
    OBVIOUS
  <2>. QED
    BY <2>2, <2>3
<1>2. c < n
  <2>. SUFFICES ASSUME c >= n PROVE FALSE
    BY <1>1
  <2>1. n * w <= c * w
    BY <1>1, FactorsAreOrdered
  <2>2. c * w = w * c /\ w * c \in Int
    OBVIOUS
  <2>. QED
    BY <2>1, <2>2
<1>. QED
  BY <1>1, <1>2

\* Three folds of lo + w * hi, where w is f more than the prime p: a and pc are what hi * f
\* leaves and carries; s and c are those of the first sum, v and d those of the second.
Folds512(w, p, f, hi, lo, a, pc, s, c, v, d) ==
    /\ w \in Nat \ {0} /\ p \in Nat \ {0} /\ f \in Nat \ {0} /\ w = p + f /\ f * f + f <= w
    /\ hi \in 0 .. w - 1 /\ lo \in 0 .. w - 1
    /\ a \in 0 .. w - 1 /\ pc \in Int /\ a + w * pc = hi * f
    /\ s \in 0 .. w - 1 /\ c \in Int /\ s + w * c = lo + a
    /\ v \in 0 .. w - 1 /\ d \in Int /\ v + w * d = s + (pc + c) * f

\* What is left is the same modulo the prime, and folding once more does not overflow.
Folded512(w, p, f, hi, lo, v, d) ==
    /\ d \in {0, 1} /\ v + d * f \in Nat /\ v + d * f < w
    /\ \E q \in Int : lo + w * hi = q * p + (v + d * f)

\* What is carried out of each of the folds is small.
LEMMA FoldsAre ==
    ASSUME NEW w, NEW p, NEW f, NEW hi, NEW lo, NEW a, NEW pc, NEW s, NEW c, NEW v, NEW d,
           Folds512(w, p, f, hi, lo, a, pc, s, c, v, d)
    PROVE  Folded512(w, p, f, hi, lo, v, d)
<1>. SUFFICES
       ASSUME w \in Nat \ {0}, p \in Nat \ {0}, f \in Nat \ {0}, w = p + f, f * f + f <= w,
              hi \in 0 .. w - 1, lo \in 0 .. w - 1,
              a \in 0 .. w - 1, pc \in Int, a + w * pc = hi * f,
              s \in 0 .. w - 1, c \in Int, s + w * c = lo + a,
              v \in 0 .. w - 1, d \in Int, v + w * d = s + (pc + c) * f
       PROVE  /\ d \in {0, 1} /\ v + d * f \in Nat /\ v + d * f < w
              /\ \E q \in Int : lo + w * hi = q * p + (v + d * f)
  BY Zenon DEF Folds512, Folded512
<1>1. c \in Nat /\ c < 2
  <2>1. w * c > -w /\ w * c < 2 * w
    <3>1. w * c = lo + a - s /\ w * c \in Int
      OBVIOUS
    <3>. DEFINE x == w * c
    <3>2. x = lo + a - s /\ x \in Int
      BY <3>1
    <3>. HIDE DEF x
    <3>3. x > -w /\ x < 2 * w
      BY <3>2
    <3>. QED
      BY <3>3 DEF x
  <2>. QED
    BY <2>1, MultipleBetween
<1>2. pc \in Nat /\ pc < f
  <2>1. hi * f \in Nat /\ hi * f <= f * w /\ (hi * f > 0 => hi * f < f * w)
    <3>1. hi \in Nat /\ w - 1 \in Nat /\ hi <= w - 1
      OBVIOUS
    <3>2. hi * f <= (w - 1) * f
      BY <3>1, FactorsAreOrdered
    <3>3. (w - 1) * f = f * w - f /\ f * w \in Int /\ hi * f \in Nat
      BY <3>1
    <3>. QED
      BY <3>2, <3>3
  <2>. DEFINE x == w * pc
              y == hi * f
              z == f * w
  <2>2. a + x = y /\ x \in Int /\ y \in Nat /\ z \in Nat /\ y <= z /\ (y > 0 => y < z) /\ z > 0
    BY <2>1
  <2>. HIDE DEF x, y, z
  <2>3. x > -w /\ x < z
    BY <2>2
  <2>4. w * pc > -w /\ w * pc < f * w
    BY <2>3 DEF x, z
  <2>. QED
    BY <2>4, MultipleBetween
<1>. DEFINE k == pc + c
            kf == k * f
            ff == f * f
<1>3. k \in Nat /\ k <= f /\ f \in Nat
  BY <1>1, <1>2
<1>4. kf \in Nat /\ ff \in Nat /\ kf <= ff /\ ff + f <= w /\ v + w * d = s + kf
  <2>1. k * f <= f * f
    BY <1>3, FactorsAreOrdered
  <2>. QED
    BY <1>3, <2>1
<1>5. d \in Nat /\ d < 2
  <2>. DEFINE x == w * d
  <2>1. x \in Int /\ v + x = s + kf
    BY <1>4
  <2>. HIDE DEF x, kf, ff
  <2>2. x > -w /\ x < 2 * w
    BY <1>4, <2>1
  <2>3. w * d > -w /\ w * d < 2 * w
    BY <2>2 DEF x
  <2>. QED
    BY <2>3, MultipleBetween
<1>6. d = 0 \/ d = 1
  BY <1>5
<1>7. v + d * f \in Nat /\ v + d * f < w
  <2>1. CASE d = 0
    BY <2>1
  <2>2. CASE d = 1
    <3>1. v + w = s + kf /\ d * f = f
      BY <1>4, <2>2
    <3>. HIDE DEF kf, ff
    <3>2. v + f < w
      BY <1>4, <3>1
    <3>. QED
      BY <3>1, <3>2
  <2>. QED
    BY <1>6, <2>1, <2>2
<1>8. lo + w * hi = (d + c + pc + hi) * p + (v + d * f)
  <2>1. (d + c + pc + hi) * p
          = (w * d + w * c + w * pc + w * hi) - (d * f + c * f + pc * f + hi * f)
    <3>1. p = w - f
      OBVIOUS
    <3>2. (d + c + pc + hi) * (w - f)
            = (w * d + w * c + w * pc + w * hi) - (d * f + c * f + pc * f + hi * f)
      OBVIOUS
    <3>. QED
      BY <3>1, <3>2
  <2>2. (pc + c) * f = pc * f + c * f
    OBVIOUS
  <2>. DEFINE wd == w * d
              wc == w * c
              wpc == w * pc
              whi == w * hi
              df == d * f
              cf == c * f
              pcf == pc * f
              hif == hi * f
              sp == (d + c + pc + hi) * p
  <2>3. /\ wd \in Int /\ wc \in Int /\ wpc \in Int /\ whi \in Int /\ df \in Int /\ cf \in Int
        /\ pcf \in Int /\ hif \in Int /\ sp \in Int
    OBVIOUS
  <2>4. /\ sp = (wd + wc + wpc + whi) - (df + cf + pcf + hif)
        /\ a + wpc = hif /\ s + wc = lo + a /\ v + wd = s + (pcf + cf)
    BY <2>1, <2>2
  <2>. HIDE DEF wd, wc, wpc, whi, df, cf, pcf, hif, sp
  <2>5. lo + whi = sp + (v + df)
    BY <2>3, <2>4
  <2>. QED
    BY <2>5 DEF whi, sp, df
<1>9. d + c + pc + hi \in Int
  OBVIOUS
<1>10. \E q \in Int : lo + w * hi = q * p + (v + d * f)
  BY <1>8, <1>9
<1>. QED
  BY <1>6, <1>7, <1>10

\* A number below twice the prime is reduced by subtractions.
LEMMA SubtractPIs ==
    ASSUME NEW a \in Words, ToNat(a) < 2 * Prime
    PROVE  SubtractP(a) = FromNat(ToNat(a) % Prime)
<1>1. ASSUME NEW b \in Words
      PROVE  /\ SubtractOnce(b) \in Words
             /\ ToNat(b) >= Prime => ToNat(SubtractOnce(b)) = ToNat(b) - Prime
             /\ ToNat(b) < Prime => SubtractOnce(b) = b
  <2>. DEFINE x == ToNat(b)
              diff == SubBorrow(b, SECP256K1_P).limbs
  <2>1. x \in Nat /\ x < WordCount /\ WordCount \in Nat \ {0} /\ Prime \in Nat \ {0}
        /\ Prime < WordCount
    BY WordIs, FieldWords
  <2>2. diff \in Words /\ ToNat(diff) = (x - Prime) % WordCount
    BY FieldWords, SubBorrowIs
  <2>3. Gte(b, SECP256K1_P) <=> x >= Prime
    BY FieldWords, GteIs
  <2>. HIDE DEF x, diff
  <2>4. SubtractOnce(b) = IF Gte(b, SECP256K1_P) THEN diff ELSE b
    BY DEF SubtractOnce, diff
  <2>5. x >= Prime => (x - Prime) % WordCount = x - Prime
    BY <2>1, SmallNumber
  <2>. QED
    BY <2>1, <2>2, <2>3, <2>4, <2>5 DEF x
<1>. DEFINE y == ToNat(a)
            b == SubtractOnce(a)
            z == ToNat(b)
<1>2. y \in Nat /\ y < 2 * Prime /\ Prime \in Nat \ {0} /\ Prime < WordCount
      /\ WordCount \in Nat \ {0}
  BY WordIs, FieldWords
<1>3. b \in Words /\ (y >= Prime => z = y - Prime) /\ (y < Prime => z = y)
  BY <1>1
<1>4. SubtractP(a) = SubtractOnce(b)
  BY DEF SubtractP
<1>5. z < Prime => SubtractOnce(b) = b
  BY <1>1, <1>3
<1>6. z \in Nat /\ z < WordCount
  BY <1>3, WordIs, FieldWords
<1>7. b = FromNat(z)
  BY <1>3, <1>6, FromNatIs
<1>. HIDE DEF y, z, b
<1>8. z < Prime
  BY <1>2, <1>3
<1>9. y % Prime = z
  <2>1. CASE y < Prime
    BY <1>2, <1>3, <2>1, SmallNumber
  <2>2. CASE y >= Prime
    <3>1. y = 1 * Prime + z /\ 1 \in Int /\ z \in 0 .. Prime - 1
      BY <1>2, <1>3, <1>6, <1>8, <2>2
    <3>2. (1 * Prime + z) % Prime = z
      BY <1>2, <3>1, RemainderOfInt, Zenon
    <3>. QED
      BY <3>1, <3>2, Zenon
  <2>. QED
    BY <1>2, <2>1, <2>2
<1>. QED
  BY <1>4, <1>5, <1>7, <1>8, <1>9 DEF y

\* The factor as a word.
LEMMA FactorIsWord ==
    [Zero EXCEPT ![1] = Factor % Base] = FromNat(Factor) /\ Factor < WordCount
<1>. DEFINE w == [Zero EXCEPT ![1] = Factor % Base]
            v == FromNat(Factor)
<1>1. Limbs \in Nat \ {0} /\ Base \in Nat \ {0} /\ Base > 3 /\ Factor \in Nat /\ Factor < Base
  BY PrimeIs
<1>2. Zero = [i \in Index |-> (0 \div Power(Base, i - 1)) % Base]
      /\ v = [i \in Index |-> (Factor \div Power(Base, i - 1)) % Base]
  BY <1>1, LimbsAre DEF Zero
<1>3. \A i \in Index : w[i] = v[i]
  <2>1. Factor % Base = Factor /\ Factor \div 1 = Factor
    BY <1>1, SmallNumber
  <2>2. v[1] = Factor /\ w[1] = Factor
    <3>1. Power(Base, 0) = 1
      BY <1>1, PowerIs
    <3>2. 1 \in Index /\ 1 - 1 = 0
      BY <1>1 DEF Index
    <3>3. w[1] = Factor % Base
      BY <1>2, <3>2
    <3>4. v[1] = (Factor \div Power(Base, 0)) % Base
      BY <1>2, <3>2
    <3>. QED
      BY <2>1, <3>1, <3>3, <3>4
  <2>3. ASSUME NEW i \in Index, i # 1 PROVE v[i] = 0 /\ w[i] = 0
    <3>. DEFINE q == Power(Base, i - 1)
    <3>1. q \in Nat \ {0} /\ q >= Base
      <4>1. Power(Base, 0) = 1 /\ Power(Base, 0 + 1) = Power(Base, 0) * Base
        BY <1>1, PowerIs
      <4>2. 1 \in Nat /\ i - 1 \in Nat /\ 1 <= i - 1
        BY <1>1, <2>3 DEF Index
      <4>3. Power(Base, 1) = Base
        BY <1>1, <4>1
      <4>4. Power(Base, i - 1) \in Nat \ {0} /\ Power(Base, 1) <= Power(Base, i - 1)
        <5>1. Power(Base, i - 1) \in Nat
          <6>1. \A n \in Nat : Power(Base, n) \in Nat
            BY <1>1, PowerIs
          <6>. QED
            BY <4>2, <6>1
        <5>2. Power(Base, 1) <= Power(Base, i - 1)
          BY <1>1, <4>2, PowerGrows
        <5>. QED
          BY <1>1, <4>3, <5>1, <5>2
      <4>. QED
        BY <4>3, <4>4
    <3>2. v[i] = (Factor \div q) % Base /\ w[i] = (0 \div q) % Base
      BY <1>2, <2>3
    <3>. HIDE DEF q
    <3>3. Factor \div q = 0 /\ 0 \div q = 0
      BY <1>1, <3>1, SmallNumber
    <3>4. 0 % Base = 0
      BY <1>1, SmallNumber
    <3>. QED
      BY <3>2, <3>3, <3>4
  <2>. QED
    BY <2>2, <2>3
<1>4. w \in [Index -> Int] /\ v \in [Index -> Int]
  <2>1. Zero \in Words /\ v \in Words
    BY FieldWords, <1>1, FromNatIs
  <2>2. Factor % Base \in 0 .. Base - 1
    BY <1>1, DividesInt
  <2>3. Words \subseteq [Index -> Int]
    BY DEF Words
  <2>. DEFINE z == Zero
              e == Factor % Base
  <2>4. z \in [Index -> Int] /\ e \in Int
    BY <2>1, <2>2, <2>3
  <2>. HIDE DEF z, e
  <2>5. [z EXCEPT ![1] = e] \in [Index -> Int]
    BY <2>4
  <2>. QED
    BY <2>1, <2>3, <2>5 DEF z, e
<1>5. w = v
  BY <1>3, <1>4
<1>6. Factor < WordCount
  BY FieldWords
<1>. QED
  BY <1>5, <1>6

\* A double word is reduced to the number below the prime that it stands for (reduce512).
LEMMA Reduce512Is ==
    ASSUME NEW r, \A i \in 1 .. 2 * Limbs : r[i] \in 0 .. Base - 1
    PROVE  Reduce512(r) = FromNat(Amount(r, Base, 2 * Limbs) % Prime)
<1>. DEFINE high == [i \in Index |-> r[Limbs + i]]
            times == [i \in Index |-> r[Limbs + i] * Factor]
            prod == Carried(times, 0)
            terms == [i \in Index |-> r[i] + prod.limbs[i]]
            sum == Carried(terms, 0)
            low == [i \in Index |-> sum.limbs[i]]
            fold == (prod.carry + sum.carry) * Factor
            folded == Carried(low, fold)
            w == WordCount
            lo == Amount(r, Base, Limbs)
            hi == Amount(high, Base, Limbs)
            a == ToNat(prod.limbs)
            s == ToNat(sum.limbs)
            v == ToNat(folded.limbs)
            pc == prod.carry
            c == sum.carry
            d == folded.carry
            y == v + d * Factor
            last == FoldBack(folded)
<1>1. /\ Limbs \in Nat \ {0} /\ Base \in Nat \ {0} /\ Base > 3 /\ Factor \in Nat \ {0}
      /\ Factor < Base /\ w \in Nat \ {0} /\ w = Prime + Factor /\ Prime \in Nat \ {0}
      /\ w >= Base * Base /\ w = Power(Base, Limbs)
  BY PrimeIs DEF WordCount
<1>2. \A i \in 1 .. Limbs : /\ i \in Index /\ r[i] \in 0 .. Base - 1 /\ r[i] \in Int
                            /\ high[i] \in 0 .. Base - 1 /\ high[i] = r[Limbs + i]
                            /\ high[i] \in Int
  <2>1. \A i \in 1 .. Limbs : i \in Index /\ i \in 1 .. 2 * Limbs /\ Limbs + i \in 1 .. 2 * Limbs
    BY <1>1 DEF Index
  <2>. QED
    BY <1>1, <2>1
<1>3. lo \in 0 .. w - 1 /\ hi \in 0 .. w - 1
  <2>. HIDE DEF high
  <2>1. lo \in 0 .. Power(Base, Limbs) - 1
    BY <1>1, <1>2, AmountIsBounded
  <2>2. hi \in 0 .. Power(Base, Limbs) - 1
    BY <1>1, <1>2, AmountIsBounded
  <2>. QED
    BY <1>1, <2>1, <2>2
<1>4. \A i \in 1 .. Limbs : times[i] \in Int /\ times[i] = Factor * high[i] + 0 * high[i]
  BY <1>1, <1>2
<1>5. prod.limbs \in Words /\ pc \in Int /\ a + w * pc = hi * Factor
  <2>1. Amount(times, Base, Limbs) = Factor * hi + 0 * hi
    <3>1. \A i \in 1 .. Limbs :
            high[i] \in Int /\ high[i] \in Int /\ times[i] = Factor * high[i] + 0 * high[i]
      BY <1>2, <1>4
    <3>2. Factor \in Int /\ 0 \in Int /\ Base \in Nat /\ Limbs \in Nat
      BY <1>1
    <3>. HIDE DEF high, times
    <3>. QED
      BY <3>1, <3>2, AmountIsLinear
  <2>2. /\ prod.limbs \in Words /\ pc \in Int
        /\ a + w * pc = Amount(times, Base, Limbs) + 0
    <3>1. 0 \in Int /\ \A i \in 1 .. Limbs : times[i] \in Int
      <4>1. 0 \in Int
        OBVIOUS
      <4>. HIDE DEF times, high
      <4>. QED
        BY <1>4, <4>1, Zenon
    <3>. HIDE DEF times
    <3>. QED
      BY <3>1, CarriedIs, Zenon
  <2>3. Factor * hi + 0 * hi + 0 = hi * Factor
    BY <1>1, <1>3
  <2>4. Factor * hi + 0 * hi \in Int /\ (Factor * hi + 0 * hi) + 0 = hi * Factor
    BY <1>1, <1>3
  <2>. HIDE DEF times, hi, a, w, pc
  <2>. QED
    BY <2>1, <2>2, <2>4, Zenon
<1>6. a \in 0 .. w - 1 /\ \A i \in 1 .. Limbs : prod.limbs[i] \in Int
  BY <1>5, WordIs
<1>7. \A i \in 1 .. Limbs : terms[i] \in Int /\ terms[i] = 1 * r[i] + 1 * prod.limbs[i]
  <2>. DEFINE p == prod.limbs
  <2>1. \A i \in 1 .. Limbs : i \in Index /\ r[i] \in Int /\ p[i] \in Int
    BY <1>2, <1>6
  <2>2. \A i \in Index : terms[i] = r[i] + p[i]
    OBVIOUS
  <2>. HIDE DEF terms, p
  <2>3. \A i \in 1 .. Limbs : terms[i] \in Int /\ terms[i] = 1 * r[i] + 1 * p[i]
    BY <2>1, <2>2
  <2>. QED
    BY <2>3 DEF p
<1>8. sum.limbs \in Words /\ c \in Int /\ s + w * c = lo + a
  <2>. DEFINE p == prod.limbs
  <2>1. Amount(terms, Base, Limbs) = 1 * lo + 1 * Amount(p, Base, Limbs)
    <3>1. \A i \in 1 .. Limbs : r[i] \in Int /\ p[i] \in Int /\ terms[i] = 1 * r[i] + 1 * p[i]
      BY <1>2, <1>6, <1>7
    <3>2. 1 \in Int /\ Base \in Nat /\ Limbs \in Nat
      BY <1>1
    <3>. HIDE DEF terms, p
    <3>. QED
      BY <3>1, <3>2, AmountIsLinear
  <2>2. sum.limbs \in Words /\ c \in Int /\ s + w * c = Amount(terms, Base, Limbs) + 0
    <3>1. 0 \in Int /\ \A i \in 1 .. Limbs : terms[i] \in Int
      BY <1>7
    <3>. HIDE DEF terms
    <3>. QED
      BY <3>1, CarriedIs, Zenon
  <2>3. Amount(p, Base, Limbs) = a
    BY <1>5, WordIs
  <2>4. 1 * lo + 1 * a \in Int /\ (1 * lo + 1 * a) + 0 = lo + a
    BY <1>3, <1>6
  <2>. HIDE DEF terms, lo, a, w, c, s, p
  <2>. QED
    BY <2>1, <2>2, <2>3, <2>4, Zenon
<1>9. s \in 0 .. w - 1 /\ \A i \in 1 .. Limbs : sum.limbs[i] \in Int
  BY <1>8, WordIs
<1>10. fold \in Int
  BY <1>1, <1>5, <1>8
<1>11. folded.limbs \in Words /\ d \in Int /\ v + w * d = s + (pc + c) * Factor
  <2>1. \A i \in 1 .. Limbs : low[i] \in Int /\ sum.limbs[i] \in Int /\ low[i] = sum.limbs[i]
    BY <1>2, <1>9
  <2>2. Amount(low, Base, Limbs) = Amount(sum.limbs, Base, Limbs)
    <3>. DEFINE l == low
                t == sum.limbs
    <3>1. \A i \in 1 .. Limbs : t[i] \in Int /\ l[i] = t[i]
      BY <2>1
    <3>. HIDE DEF l, t
    <3>2. Amount(l, Base, Limbs) = Amount(t, Base, Limbs)
      BY <1>1, <3>1, SameAmount
    <3>. QED
      BY <3>2 DEF l, t
  <2>3. folded.limbs \in Words /\ d \in Int /\ v + w * d = Amount(low, Base, Limbs) + fold
    <3>. HIDE DEF low, fold
    <3>. QED
      BY <1>10, <2>1, CarriedIs, ZenonT(40)
  <2>4. Amount(sum.limbs, Base, Limbs) = s
    BY <1>8, WordIs
  <2>. HIDE DEF low, s, w, d, v
  <2>. QED
    BY <2>2, <2>3, <2>4, SMTT(30)
<1>12. v \in 0 .. w - 1
  BY <1>11, WordIs
<1>13. Factor * Factor + Factor <= w
  <2>1. Factor + 1 <= Base /\ Factor + 1 \in Nat \ {0} /\ Factor <= Base - 1 /\ Base - 1 \in Nat
    BY <1>1
  <2>2. (Factor + 1) * Factor <= Base * Factor /\ Factor * Base <= Base * Base
    BY <1>1, <2>1, FactorsAreOrdered
  <2>3. (Factor + 1) * Factor = Factor * Factor + Factor /\ Base * Factor = Factor * Base
        /\ Factor * Factor \in Nat /\ Factor * Base \in Nat /\ Base * Base \in Nat
    BY <1>1
  <2>. DEFINE ff == Factor * Factor
              fb == Factor * Base
              bb == Base * Base
  <2>4. ff \in Nat /\ fb \in Nat /\ bb \in Nat /\ ff + Factor <= fb /\ fb <= bb /\ bb <= w
    BY <1>1, <2>2, <2>3
  <2>. HIDE DEF ff, fb, bb, w
  <2>. QED
    BY <1>1, <2>4 DEF ff
<1>. HIDE DEF high, times, prod, terms, sum, low, fold, folded, w, lo, hi, a, s, v, pc, c, d
<1>14. /\ d \in {0, 1} /\ v + d * Factor \in Nat /\ v + d * Factor < w
       /\ \E q \in Int : lo + w * hi = q * Prime + (v + d * Factor)
  <2>1. w = Prime + Factor /\ w \in Nat \ {0} /\ Prime \in Nat \ {0} /\ Factor \in Nat \ {0}
    BY <1>1
  <2>2. Folds512(w, Prime, Factor, hi, lo, a, pc, s, c, v, d)
    BY <1>3, <1>5, <1>6, <1>8, <1>9, <1>11, <1>12, <1>13, <2>1, Zenon DEF Folds512
  <2>3. Folded512(w, Prime, Factor, hi, lo, v, d)
    BY <2>2, FoldsAre, Zenon
  <2>. QED
    BY <2>3, Zenon DEF Folded512
<1>15. last \in Words /\ ToNat(last) = y
  <2>1. folded.limbs \in Words /\ v = ToNat(folded.limbs) /\ d = folded.carry
    BY <1>11 DEF v, d
  <2>2. CASE d = 0
    <3>1. last = folded.limbs
      BY <2>1, <2>2 DEF FoldBack
    <3>2. v + d * Factor = v
      BY <1>1, <1>12, <2>2
    <3>. QED
      BY <2>1, <3>1, <3>2
  <2>3. CASE d = 1
    <3>1. last = AddCarry(folded.limbs, FromNat(Factor)).limbs
      <4>1. d * Factor = Factor /\ folded.carry # 0
        BY <1>1, <2>1, <2>3
      <4>2. last = AddCarry(folded.limbs, [Zero EXCEPT ![1] = (d * Factor) % Base]).limbs
        BY <2>1, <4>1, Zenon DEF FoldBack
      <4>. QED
        BY <4>1, <4>2, FactorIsWord
    <3>2. FromNat(Factor) \in Words /\ ToNat(FromNat(Factor)) = Factor
      BY <1>1, FactorIsWord, FromNatIs
    <3>3. last \in Words /\ ToNat(last) = (v + Factor) % w
      <4>. HIDE DEF last
      <4>. QED
        BY <2>1, <3>1, <3>2, AddCarryIs DEF w
    <3>4. v + Factor = y /\ v + Factor \in 0 .. w - 1
      BY <1>1, <1>12, <1>14, <2>3
    <3>5. (v + Factor) % w = v + Factor
      <4>1. v + Factor \in Int /\ w \in Nat \ {0}
        BY <1>1, <1>12
      <4>. QED
        BY <3>4, <4>1, SmallNumber, Zenon
    <3>. QED
      BY <3>3, <3>4, <3>5
  <2>. QED
    BY <1>14, <2>2, <2>3
<1>. HIDE DEF last, y
<1>16. y \in Nat /\ y < 2 * Prime
  <2>1. Factor < Prime
    BY FieldWords
  <2>. QED
    BY <1>1, <1>14, <2>1 DEF y
<1>17. Reduce512(r) = FromNat(y % Prime)
  <2>1. Reduce512(r) = SubtractP(last)
    BY Zenon DEF Reduce512, last, FoldHigh, FoldSum, folded, fold, low, sum, terms, prod, times
  <2>. QED
    BY <1>15, <1>16, <2>1, SubtractPIs
<1>18. Amount(r, Base, 2 * Limbs) = lo + w * hi
  <2>1. \A i \in 1 .. Limbs + Limbs : r[i] \in Int
    BY <1>1
  <2>2. \A i \in 1 .. Limbs : high[i] = r[Limbs + i]
    BY <1>2
  <2>3. Amount(r, Base, Limbs + Limbs) = lo + Power(Base, Limbs) * hi
    <3>1. Base \in Nat /\ Limbs \in Nat
      BY <1>1
    <3>2. Splits(r, high, Limbs, Limbs)
      BY <2>1, <2>2, Zenon DEF Splits
    <3>3. Split(r, high, Base, Limbs, Limbs)
      BY <3>1, <3>2, AmountSplits, Zenon
    <3>. QED
      BY <3>3, Zenon DEF Split, lo, hi
  <2>4. Limbs + Limbs = 2 * Limbs
    BY <1>1
  <2>. QED
    BY <1>1, <2>3, <2>4
<1>19. Amount(r, Base, 2 * Limbs) % Prime = y % Prime
  <2>1. PICK q \in Int : lo + w * hi = q * Prime + y
    BY <1>14 DEF y
  <2>2. (q * Prime + y) % Prime = y % Prime
    <3>1. y \in Int /\ Prime \in Nat \ {0}
      BY <1>1, <1>16
    <3>. QED
      BY <3>1, SameRemainder, Zenon
  <2>. QED
    BY <1>18, <2>1, <2>2, Zenon
<1>. QED
  BY <1>17, <1>19, Zenon

-----------------------------------------------------------------------------
(* The product of words *)

\* The double words.
Doubles == [1 .. 2 * Limbs -> 0 .. Base - 1]

\* The digits of a sequence are those of a function.
LEMMA DoubleIs ==
    ASSUME NEW r
    PROVE  r \in Doubles <=> r \in Seq(0 .. Base - 1) /\ Len(r) = 2 * Limbs
<1>1. 2 * Limbs \in Nat
  BY PrimeIs
<1>. DEFINE S == 0 .. Base - 1
            n == 2 * Limbs
<1>. HIDE DEF S, n
<1>2. r \in [1 .. n -> S] => r \in Seq(S) /\ Len(r) = n
  BY <1>1 DEF n
<1>3. r \in Seq(S) /\ Len(r) = n => r \in [1 .. n -> S]
  BY LenProperties
<1>. QED
  BY <1>2, <1>3 DEF Doubles, S, n

\* u is s, of m elements of S, followed by t, of n.
Follow(u, s, t, S, m, n) ==
    /\ u \in Seq(S) /\ Len(u) = m + n
    /\ (\A j \in 1 .. m : u[j] = s[j]) /\ (\A j \in 1 .. n : u[m + j] = t[j])

\* Two sequences one after the other.
LEMMA Appended ==
    ASSUME NEW S, NEW s \in Seq(S), NEW t \in Seq(S), NEW m \in Nat, NEW n \in Nat,
           Len(s) = m, Len(t) = n
    PROVE  Follow(s \o t, s, t, S, m, n)
<1>. DEFINE u == s \o t
<1>1. u \in Seq(S) /\ Len(u) = m + n
      /\ \A i \in 1 .. m + n : u[i] = IF i <= m THEN s[i] ELSE t[i - m]
  BY ConcatProperties
<1>. HIDE DEF u
<1>2. \A j \in 1 .. m : u[j] = s[j]
  BY <1>1
<1>3. ASSUME NEW j \in 1 .. n PROVE u[m + j] = t[j]
  <2>. DEFINE i == m + j
  <2>1. i \in 1 .. m + n /\ ~(i <= m) /\ i - m = j
    OBVIOUS
  <2>. HIDE DEF i
  <2>2. u[i] = t[j]
    BY <1>1, <2>1
  <2>. QED
    BY <2>2 DEF i
<1>. QED
  BY <1>1, <1>2, <1>3 DEF u, Follow

\* s is r with a row in the place of its digits from the i-th one on, and its carry behind.
Placed(s, r, i, row) ==
    /\ s \in Doubles
    /\ (\A j \in 1 .. i - 1 : s[j] = r[j])
    /\ (\A j \in 1 .. Limbs : s[i - 1 + j] = row.limbs[j])
    /\ s[i + Limbs] = row.carry

\* A row replaces the digits from its place on, and its carry the one behind them.
LEMMA RowIsPlaced ==
    ASSUME NEW r \in Doubles, NEW i \in 1 .. Limbs, NEW row, row.limbs \in Words,
           row.carry \in 0 .. Base - 1
    PROVE  Placed(PlusRow(r, i, row), r, i, row)
<1>. DEFINE S == 0 .. Base - 1
            s1 == SubSeq(r, 1, i - 1)
            s2 == row.limbs
            s3 == <<row.carry>>
            s4 == SubSeq(r, i + Limbs + 1, 2 * Limbs)
            l == Limbs
            s == ((s1 \o s2) \o s3) \o s4
<1>1. l \in Nat \ {0} /\ i \in Nat /\ i <= l /\ i >= 1
  BY PrimeIs
<1>2. s1 \in Seq(S) /\ Len(s1) = i - 1 /\ \A j \in 1 .. i - 1 : s1[j] = r[j]
  <2>1. \A j \in 1 .. i - 1 : r[j] \in S
    BY <1>1 DEF Doubles
  <2>2. 1 \in Int /\ i - 1 \in Int
    BY <1>1
  <2>. HIDE DEF S
  <2>3. s1 \in Seq(S) /\ Len(s1) = (IF 1 <= i - 1 THEN i - 1 - 1 + 1 ELSE 0)
        /\ \A j \in 1 .. i - 1 - 1 + 1 : s1[j] = r[1 + j - 1]
    BY <2>1, <2>2, SubSeqProperties
  <2>4. \A j \in 1 .. i - 1 : j \in 1 .. i - 1 - 1 + 1 /\ 1 + j - 1 = j
    BY <1>1
  <2>5. \A j \in 1 .. i - 1 : s1[j] = r[j]
    <3>. HIDE DEF s1
    <3>. QED
      BY <2>3, <2>4
  <2>. HIDE DEF s1
  <2>. QED
    BY <1>1, <2>3, <2>5
<1>3. s4 \in Seq(S) /\ Len(s4) = l - i
  <2>1. \A j \in i + Limbs + 1 .. 2 * Limbs : r[j] \in S
    BY <1>1 DEF Doubles
  <2>2. i + Limbs + 1 \in Int /\ 2 * Limbs \in Int
    BY <1>1
  <2>. HIDE DEF S
  <2>3. s4 \in Seq(S)
        /\ Len(s4) = (IF i + Limbs + 1 <= 2 * Limbs THEN 2 * Limbs - (i + Limbs + 1) + 1 ELSE 0)
    BY <2>1, <2>2, SubSeqProperties
  <2>. HIDE DEF s4
  <2>. QED
    BY <1>1, <2>3
<1>4. s2 \in Seq(S) /\ Len(s2) = l
  <2>1. s2 \in [1 .. l -> S]
    BY DEF Words, Index
  <2>2. l \in Nat
    BY <1>1
  <2>. HIDE DEF s2, S, l
  <2>. QED
    BY <2>1, <2>2
<1>5. s3 \in Seq(S) /\ Len(s3) = 1 /\ s3[1] = row.carry
  <2>. DEFINE c == row.carry
  <2>1. c \in S
    OBVIOUS
  <2>. HIDE DEF S, c
  <2>2. <<c>> \in Seq(S) /\ Len(<<c>>) = 1 /\ <<c>>[1] = c
    BY <2>1
  <2>. QED
    BY <2>2 DEF c
<1>6. PlusRow(r, i, row) = s
  BY Zenon DEF PlusRow
<1>7. s3[1] = row.carry
  BY <1>5
<1>. DEFINE c == row.carry
            t == s1 \o s2
            u == t \o s3
<1>. HIDE DEF s1, s2, s3, s4, S, l
<1>8. t \in Seq(S) /\ Len(t) = (i - 1) + l
      /\ (\A j \in 1 .. i - 1 : t[j] = s1[j])
      /\ (\A j \in 1 .. l : t[(i - 1) + j] = s2[j])
  <2>1. i - 1 \in Nat /\ l \in Nat
    BY <1>1
  <2>2. Follow(t, s1, s2, S, i - 1, l)
    BY <1>2, <1>4, <2>1, Appended
  <2>. QED
    BY <2>2, Zenon DEF Follow
<1>. HIDE DEF t
<1>. DEFINE n == (i - 1) + l
<1>9. n \in Nat /\ n + 1 \in Nat /\ l - i \in Nat /\ 1 \in Nat /\ 1 \in 1 .. 1
      /\ i + l = n + 1 /\ n + 1 + (l - i) = 2 * l
      /\ (\A j \in 1 .. l : (i - 1) + j \in 1 .. n)
      /\ (\A j \in 1 .. n : j \in 1 .. n + 1)
      /\ (\A j \in 1 .. i - 1 : j \in 1 .. n) /\ n + 1 \in 1 .. n + 1
  BY <1>1
<1>10. Len(t) = n
  BY <1>8
<1>. HIDE DEF n
<1>11. u \in Seq(S) /\ Len(u) = n + 1 /\ (\A j \in 1 .. n : u[j] = t[j])
       /\ (\A j \in 1 .. 1 : u[n + j] = s3[j])
  <2>1. Follow(u, t, s3, S, n, 1)
    BY <1>5, <1>8, <1>9, <1>10, Appended
  <2>. QED
    BY <2>1, Zenon DEF Follow
<1>. HIDE DEF u
<1>12. s = u \o s4
  BY DEF u, t
<1>. HIDE DEF s
<1>. DEFINE m == n + 1
<1>13. s \in Seq(S) /\ Len(s) = m + (l - i) /\ (\A j \in 1 .. m : s[j] = u[j])
  <2>1. m \in Nat /\ Len(u) = m
    BY <1>9, <1>11
  <2>. HIDE DEF m
  <2>2. Follow(s, u, s4, S, m, l - i)
    BY <1>3, <1>9, <1>11, <1>12, <2>1, Appended
  <2>. QED
    BY <2>2, Zenon DEF Follow
<1>14. s \in Doubles
  BY <1>9, <1>13, DoubleIs DEF S, l
<1>15. ASSUME NEW j \in 1 .. i - 1 PROVE s[j] = r[j]
  <2>1. j \in 1 .. n /\ j \in 1 .. m
    BY <1>9
  <2>. HIDE DEF m
  <2>. QED
    BY <1>2, <1>8, <1>11, <1>13, <2>1, Zenon
<1>16. ASSUME NEW j \in 1 .. l PROVE s[i - 1 + j] = s2[j]
  <2>. DEFINE k == i - 1 + j
  <2>1. k = (i - 1) + j /\ k \in 1 .. n /\ k \in 1 .. m
    BY <1>9
  <2>. HIDE DEF k, m
  <2>2. s[k] = s2[j]
    BY <1>8, <1>11, <1>13, <2>1, Zenon
  <2>. QED
    BY <2>2 DEF k
<1>17. s[i + l] = row.carry
  <2>1. m = i + l /\ m \in 1 .. m /\ n + 1 = m
    BY <1>9
  <2>. HIDE DEF m
  <2>2. u[m] = s3[1]
    BY <1>9, <1>11, <2>1, Zenon
  <2>3. s[m] = u[m]
    BY <1>13, <2>1, Zenon
  <2>. QED
    BY <1>7, <2>1, <2>2, <2>3, Zenon
<1>. QED
  BY <1>6, <1>14, <1>15, <1>16, <1>17, Zenon DEF l, s2, Placed

\* A row of a product: the digit d below b times y, added to x, leaves v and carries c.
RowSums(w, b, d, y, x, v, c) ==
    /\ w \in Nat \ {0} /\ b \in Nat \ {0} /\ d \in 0 .. b - 1
    /\ y \in 0 .. w - 1 /\ x \in 0 .. w - 1 /\ v \in 0 .. w - 1 /\ c \in Int
    /\ v + w * c = d * y + x

\* What a row carries fits a limb.
LEMMA RowCarryIs ==
    ASSUME NEW w, NEW b, NEW d, NEW y, NEW x, NEW v, NEW c, RowSums(w, b, d, y, x, v, c)
    PROVE  c \in 0 .. b - 1
<1>. SUFFICES
       ASSUME w \in Nat \ {0}, b \in Nat \ {0}, d \in 0 .. b - 1, y \in 0 .. w - 1,
              x \in 0 .. w - 1, v \in 0 .. w - 1, c \in Int, v + w * c = d * y + x
       PROVE  c \in 0 .. b - 1
  BY Zenon DEF RowSums
<1>1. d * y \in Nat /\ d * y <= (b - 1) * (w - 1)
  <2>1. d * y \in Nat /\ (b - 1) * y = y * (b - 1) /\ (b - 1) * (w - 1) = (w - 1) * (b - 1)
    OBVIOUS
  <2>2. d * y <= (b - 1) * y
    <3>1. y = 0 => d * y = 0 /\ (b - 1) * y = 0
      OBVIOUS
    <3>2. y # 0 => d * y <= (b - 1) * y
      BY FactorsAreOrdered
    <3>. QED
      BY <3>1, <3>2
  <2>3. y * (b - 1) <= (w - 1) * (b - 1)
    <3>1. b - 1 = 0 => y * (b - 1) = 0 /\ (w - 1) * (b - 1) = 0
      OBVIOUS
    <3>2. b - 1 # 0 => y * (b - 1) <= (w - 1) * (b - 1)
      <4>. DEFINE e == b - 1
                  z == w - 1
      <4>1. e \in Nat /\ z \in Nat /\ y <= z /\ y \in Nat
        OBVIOUS
      <4>. HIDE DEF e, z
      <4>2. e # 0 => y * e <= z * e
        BY <4>1, FactorsAreOrdered
      <4>. QED
        BY <4>2 DEF e, z
    <3>. QED
      BY <3>1, <3>2
  <2>. DEFINE p == d * y
              q == (b - 1) * y
              s == (b - 1) * (w - 1)
  <2>4. p \in Nat /\ q \in Int /\ s \in Int /\ p <= q /\ q <= s
    BY <2>1, <2>2, <2>3
  <2>. HIDE DEF p, q, s
  <2>5. p \in Nat /\ p <= s
    BY <2>4
  <2>. QED
    BY <2>5 DEF p, s
<1>2. (b - 1) * (w - 1) = b * w - b - w + 1 /\ b * w \in Int /\ w * c \in Int
  OBVIOUS
<1>. DEFINE p == d * y
            q == b * w
            s == (b - 1) * (w - 1)
            z == w * c
<1>3. p \in Nat /\ q \in Int /\ s = q - b - w + 1 /\ p <= s /\ z \in Int /\ v + z = p + x
  BY <1>1, <1>2
<1>. HIDE DEF p, q, s, z
<1>4. z > -w /\ z < q
  BY <1>3
<1>5. w * c > -w /\ w * c < b * w
  BY <1>4 DEF z, q
<1>6. c \in Nat /\ c < b
  BY <1>5, MultipleBetween
<1>. QED
  BY <1>6

\* One digit more.
LEMMA NextAmount ==
    ASSUME NEW b \in Nat, NEW n \in Nat, NEW s, \A j \in 1 .. n + 1 : s[j] \in Int
    PROVE  Amount(s, b, n + 1) = Amount(s, b, n) + s[n + 1] * Power(b, n)
<1>1. \A j \in 1 .. n + 1 : Amount(s, b, j) = Amount(s, b, j - 1) + s[j] * Power(b, j - 1)
  BY AmountIs
<1>2. n + 1 \in 1 .. n + 1 /\ n + 1 - 1 = n
  OBVIOUS
<1>. QED
  BY <1>1, <1>2

\* s is r with the i-th row, of the digit d times the word b, added.
RowAdds(s, r, i, d, b) ==
    /\ s \in Doubles
    /\ Amount(s, Base, i + Limbs)
         = Amount(r, Base, i - 1 + Limbs) + Power(Base, i - 1) * (d * ToNat(b))

\* A row adds the digit times the word, at its place.
LEMMA RowIs ==
    ASSUME NEW r \in Doubles, NEW i \in 1 .. Limbs, NEW d \in 0 .. Base - 1, NEW b \in Words
    PROVE  RowAdds(PlusRow(r, i, Carried([j \in Index |-> d * b[j] + r[i + j - 1]], 0)), r, i, d, b)
<1>. DEFINE terms == [j \in Index |-> d * b[j] + r[i + j - 1]]
            row == Carried(terms, 0)
            s == PlusRow(r, i, row)
            x == [j \in 1 .. Limbs |-> r[i - 1 + j]]
            t == [j \in 1 .. Limbs + 1 |-> s[i - 1 + j]]
            w == WordCount
            p == Power(Base, i - 1)
            v == ToNat(row.limbs)
            c == row.carry
            y == ToNat(b)
            ax == Amount(x, Base, Limbs)
            ar == Amount(r, Base, i - 1)
<1>1. /\ Limbs \in Nat \ {0} /\ Limbs \in Nat /\ Base \in Nat \ {0} /\ Base \in Nat /\ d \in Int
      /\ w \in Nat \ {0} /\ w = Power(Base, Limbs) /\ i \in Nat /\ i >= 1 /\ i <= Limbs
      /\ i - 1 \in Nat
  BY PrimeIs DEF WordCount
<1>2. \A j \in 1 .. 2 * Limbs : r[j] \in 0 .. Base - 1 /\ r[j] \in Int
  BY <1>1 DEF Doubles
<1>3. \A j \in 1 .. Limbs : /\ x[j] \in 0 .. Base - 1 /\ x[j] \in Int /\ b[j] \in Int
                            /\ x[j] = r[i - 1 + j]
                            /\ terms[j] = d * b[j] + 1 * x[j] /\ terms[j] \in Int
  <2>. SUFFICES ASSUME NEW j \in 1 .. Limbs
                PROVE  /\ x[j] \in 0 .. Base - 1 /\ x[j] \in Int /\ b[j] \in Int
                       /\ x[j] = r[i - 1 + j]
                       /\ terms[j] = d * b[j] + 1 * x[j] /\ terms[j] \in Int
    OBVIOUS
  <2>1. i - 1 + j \in 1 .. 2 * Limbs /\ i + j - 1 = i - 1 + j /\ j \in Index
    BY <1>1 DEF Index
  <2>2. b[j] \in Int
    BY WordIs
  <2>3. x[j] = r[i - 1 + j]
    OBVIOUS
  <2>4. x[j] \in 0 .. Base - 1 /\ x[j] \in Int
    BY <1>2, <2>1, <2>3
  <2>5. terms[j] = d * b[j] + x[j]
    <3>1. terms[j] = d * b[j] + r[i + j - 1]
      BY <2>1
    <3>. QED
      BY <2>1, <2>3, <3>1
  <2>. DEFINE bj == b[j]
              xj == x[j]
              tj == terms[j]
  <2>6. bj \in Int /\ xj \in Int /\ tj = d * bj + xj
    BY <2>2, <2>4, <2>5
  <2>. HIDE DEF bj, xj, tj
  <2>7. tj = d * bj + 1 * xj /\ tj \in Int
    BY <1>1, <2>6
  <2>. QED
    BY <2>2, <2>3, <2>4, <2>7 DEF bj, xj, tj
<1>. HIDE DEF terms
<1>4. row.limbs \in Words /\ c \in Int /\ v + w * c = Amount(terms, Base, Limbs) + 0
  <2>1. 0 \in Int /\ \A j \in 1 .. Limbs : terms[j] \in Int
    <3>1. 0 \in Int
      OBVIOUS
    <3>. HIDE DEF x
    <3>. QED
      BY <1>3, <3>1, Zenon
  <2>. QED
    BY <2>1, CarriedIs, Zenon
<1>5. Amount(terms, Base, Limbs) = d * y + 1 * ax
  <2>1. Amount(b, Base, Limbs) = y
    BY WordIs
  <2>2. \A j \in 1 .. Limbs : b[j] \in Int /\ x[j] \in Int /\ terms[j] = d * b[j] + 1 * x[j]
    <3>. HIDE DEF x
    <3>. QED
      BY <1>3, Zenon
  <2>3. 1 \in Int
    OBVIOUS
  <2>. HIDE DEF x
  <2>4. Amount(terms, Base, Limbs) = d * Amount(b, Base, Limbs) + 1 * Amount(x, Base, Limbs)
    BY <1>1, <2>2, <2>3, AmountIsLinear
  <2>. QED
    BY <2>1, <2>4
<1>6. ax \in 0 .. w - 1 /\ ax \in Int
  <2>1. \A j \in 1 .. Limbs : x[j] \in 0 .. Base - 1
    BY <1>3
  <2>. HIDE DEF x
  <2>2. ax \in 0 .. Power(Base, Limbs) - 1
    BY <1>1, <2>1, AmountIsBounded
  <2>. QED
    BY <1>1, <2>2
<1>7. y \in 0 .. w - 1 /\ v \in 0 .. w - 1 /\ y \in Int /\ v \in Int
  BY <1>4, WordIs
<1>. HIDE DEF row, x, w, v, c, y, ax
<1>8. v + w * c = d * y + ax
  <2>1. d * y \in Int
    BY <1>1, <1>7
  <2>. DEFINE dy == d * y
              wc == w * c
              at == Amount(terms, Base, Limbs)
  <2>2. dy \in Int /\ at = dy + 1 * ax /\ v + wc = at + 0
    BY <1>4, <1>5, <2>1
  <2>. HIDE DEF dy, wc, at
  <2>3. v + wc = dy + ax
    BY <1>6, <2>2
  <2>. QED
    BY <2>3 DEF dy, wc
<1>9. c \in 0 .. Base - 1
  <2>1. w \in Nat \ {0} /\ Base \in Nat \ {0}
    BY <1>1
  <2>2. RowSums(w, Base, d, y, ax, v, c)
    BY <1>4, <1>6, <1>7, <1>8, <2>1, Zenon DEF RowSums
  <2>. QED
    BY <2>2, RowCarryIs, Zenon
<1>10. /\ s \in Doubles
       /\ \A j \in 1 .. i - 1 : s[j] = r[j]
       /\ \A j \in 1 .. Limbs : s[i - 1 + j] = row.limbs[j]
       /\ s[i + Limbs] = c
  <2>1. row.carry \in 0 .. Base - 1
    BY <1>9 DEF c
  <2>. QED
    <3>1. Placed(s, r, i, row)
      BY <1>4, <2>1, RowIsPlaced
    <3>. QED
      BY <3>1, Zenon DEF Placed, c
<1>. HIDE DEF s
<1>11. \A j \in 1 .. 2 * Limbs : s[j] \in Int
  BY <1>1, <1>10 DEF Doubles
<1>12. Amount(s, Base, (i - 1) + (Limbs + 1)) = Amount(s, Base, i - 1) + p * Amount(t, Base, Limbs + 1)
  <2>1. Splits(s, t, i - 1, Limbs + 1)
    <3>1. \A j \in 1 .. (i - 1) + (Limbs + 1) : s[j] \in Int
      BY <1>1, <1>11
    <3>2. \A j \in 1 .. Limbs + 1 : t[j] = s[(i - 1) + j]
      OBVIOUS
    <3>. QED
      BY <3>1, <3>2, Zenon DEF Splits
  <2>2. Limbs + 1 \in Nat
    BY <1>1
  <2>3. Split(s, t, Base, i - 1, Limbs + 1)
    BY <1>1, <2>1, <2>2, AmountSplits, Zenon
  <2>. QED
    BY <2>3, Zenon DEF Split
<1>13. Amount(s, Base, i - 1) = ar
  <2>1. \A j \in 1 .. i - 1 : r[j] \in Int /\ s[j] = r[j]
    BY <1>1, <1>2, <1>10
  <2>. QED
    BY <1>1, <2>1, SameAmount
<1>14. Amount(t, Base, Limbs + 1) = v + c * w
  <2>1. \A j \in 1 .. Limbs + 1 : t[j] \in Int /\ t[j] = s[i - 1 + j]
    <3>1. \A j \in 1 .. Limbs + 1 : i - 1 + j \in 1 .. 2 * Limbs
      BY <1>1
    <3>. QED
      BY <1>11, <3>1
  <2>. HIDE DEF t
  <2>2. Amount(t, Base, Limbs + 1)
          = Amount(t, Base, Limbs) + t[Limbs + 1] * Power(Base, Limbs)
    BY <1>1, <2>1, NextAmount
  <2>3. i - 1 + (Limbs + 1) = i + Limbs /\ Limbs + 1 \in 1 .. Limbs + 1
    BY <1>1
  <2>4. t[Limbs + 1] = c
    BY <1>10, <2>1, <2>3
  <2>5. Amount(t, Base, Limbs) = v
    <3>. DEFINE l == row.limbs
    <3>1. \A j \in 1 .. Limbs : l[j] \in Int
      BY <1>4, WordIs
    <3>2. \A j \in 1 .. Limbs : t[j] = l[j]
      BY <1>1, <1>10, <2>1
    <3>3. Amount(l, Base, Limbs) = v
      BY <1>4, WordIs DEF v
    <3>. HIDE DEF l
    <3>4. Amount(t, Base, Limbs) = Amount(l, Base, Limbs)
      BY <1>1, <3>1, <3>2, SameAmount
    <3>. QED
      BY <3>3, <3>4
  <2>. QED
    BY <1>1, <2>2, <2>3, <2>4, <2>5
<1>15. Amount(r, Base, (i - 1) + Limbs) = ar + p * ax
  <2>1. Splits(r, x, i - 1, Limbs)
    <3>1. \A j \in 1 .. (i - 1) + Limbs : r[j] \in Int
      BY <1>1, <1>2
    <3>2. \A j \in 1 .. Limbs : x[j] = r[(i - 1) + j]
      BY DEF x
    <3>. QED
      BY <3>1, <3>2, Zenon DEF Splits
  <2>2. Split(r, x, Base, i - 1, Limbs)
    BY <1>1, <2>1, AmountSplits, Zenon
  <2>. QED
    BY <2>2, Zenon DEF Split, ax, ar, p
<1>16. p \in Int /\ ar \in Int
  <2>1. p \in Nat
    BY <1>1, PowerIs
  <2>2. \A j \in 1 .. i - 1 : r[j] \in Int
    BY <1>1, <1>2
  <2>3. \A j \in 0 .. i - 1 : Amount(r, Base, j) \in Int
    BY <1>1, <2>2, AmountIs
  <2>. QED
    BY <1>1, <2>1, <2>3
<1>17. (i - 1) + (Limbs + 1) = i + Limbs /\ (i - 1) + Limbs = i - 1 + Limbs
  BY <1>1
<1>. HIDE DEF p, ar, t
<1>18. ar + p * (v + c * w) = (ar + p * ax) + p * (d * y)
  <2>. DEFINE u == v + c * w
              dy == d * y
  <2>1. dy \in Int /\ u \in Int /\ u = dy + ax
    <3>1. c * w = w * c
      BY <1>1, <1>4
    <3>2. d * y \in Int
      BY <1>1, <1>7
    <3>. QED
      BY <1>6, <1>8, <3>1, <3>2
  <2>. HIDE DEF u, dy
  <2>2. p * (dy + ax) = p * dy + p * ax /\ p * dy \in Int /\ p * ax \in Int
    BY <1>6, <1>16, <2>1
  <2>3. ar + p * u = (ar + p * ax) + p * dy
    BY <1>16, <2>1, <2>2
  <2>. QED
    BY <2>3 DEF u, dy
<1>19. Amount(s, Base, i + Limbs) = Amount(r, Base, i - 1 + Limbs) + p * (d * y)
  BY <1>12, <1>13, <1>14, <1>15, <1>17, <1>18, Zenon
<1>. QED
  BY <1>10, <1>19, Zenon DEF s, row, terms, p, y, RowAdds

\* The row of the i-th digit of a, times b, added to r.
RowOf(a, b, r, i) == PlusRow(r, i, Carried([j \in Index |-> a[i] * b[j] + r[i + j - 1]], 0))

\* The product of words is a double word that stands for their product (U256::mul_wide).
LEMMA MulWideIs ==
    ASSUME NEW a \in Words, NEW b \in Words
    PROVE  /\ MulWide(a, b) \in Doubles
           /\ Amount(MulWide(a, b), Base, 2 * Limbs) = ToNat(a) * ToNat(b)
<1>. DEFINE none == FromNat(0) \o FromNat(0)
            l == Limbs
            op == [p \in Doubles \X (1 .. l) |-> RowOf(a, b, p[1], p[2])]
            Loop(it, i) ==
              IF i = 0 THEN none
              ELSE LET prev == it[i - 1]
                   IN  PlusRow(prev, i, Carried([j \in Index |-> a[i] * b[j] + prev[i + j - 1]], 0))
            Loops(it) == it = [i \in 0 .. l |-> Loop(it, i)]
            g == CHOOSE it : Loops(it)
            y == ToNat(b)
<1>1. l \in Nat /\ Base \in Nat \ {0} /\ Base \in Nat /\ l >= 1
  BY PrimeIs
<1>2. \A i \in 1 .. l : a[i] \in 0 .. Base - 1 /\ a[i] \in Int
  BY WordIs
<1>3. none \in Doubles /\ \A i \in 1 .. 2 * l : none[i] = 0
  <2>. DEFINE z == FromNat(0)
              S == 0 .. Base - 1
  <2>1. z \in Seq(S) /\ Len(z) = l /\ \A i \in 1 .. l : z[i] = 0
    <3>1. z \in Words /\ z = [i \in Index |-> (0 \div Power(Base, i - 1)) % Base]
      BY LimbsAre
    <3>2. ASSUME NEW i \in 1 .. l PROVE z[i] = 0
      <4>1. Power(Base, i - 1) \in Nat \ {0}
        <5>1. i - 1 \in Nat /\ 0 \in Nat /\ 0 <= i - 1
          BY <1>1
        <5>2. Power(Base, 0) = 1 /\ Power(Base, i - 1) \in Nat /\ Power(Base, 0) <= Power(Base, i - 1)
          BY <1>1, <5>1, PowerIs, PowerGrows
        <5>. QED
          BY <5>2
      <4>2. i \in Index
        BY DEF Index
      <4>. DEFINE q == Power(Base, i - 1)
      <4>3. z[i] = (0 \div q) % Base
        BY <3>1, <4>2
      <4>. HIDE DEF q, z
      <4>4. q \in Nat \ {0} /\ 0 \in 0 .. q - 1 /\ 0 \in 0 .. Base - 1
        BY <1>1, <4>1 DEF q
      <4>5. 0 \div q = 0 /\ 0 % Base = 0
        BY <1>1, <4>4, SmallNumber
      <4>. QED
        BY <4>3, <4>5
    <3>3. z \in [1 .. l -> S]
      BY <3>1 DEF Words, Index
    <3>. HIDE DEF z, S, l
    <3>4. z \in Seq(S) /\ Len(z) = l
      BY <1>1, <3>3
    <3>. QED
      BY <3>2, <3>4
  <2>. HIDE DEF z, S, l
  <2>2. Follow(z \o z, z, z, S, l, l)
    BY <1>1, <2>1, Appended
  <2>3. none = z \o z
    BY DEF z
  <2>. HIDE DEF none
  <2>4. none \in Seq(S) /\ Len(none) = l + l /\ (\A i \in 1 .. l : none[i] = z[i])
        /\ (\A i \in 1 .. l : none[l + i] = z[i])
    BY <2>2, <2>3, Zenon DEF Follow
  <2>5. none \in Doubles
    BY <1>1, <2>4, DoubleIs DEF S, l
  <2>6. ASSUME NEW i \in 1 .. 2 * l PROVE none[i] = 0
    <3>1. CASE i <= l
      BY <1>1, <2>1, <2>4, <3>1
    <3>2. CASE i > l
      <4>. DEFINE k == i - l
      <4>1. k \in 1 .. l /\ l + k = i
        BY <1>1, <3>2
      <4>. HIDE DEF k
      <4>2. none[l + k] = z[k] /\ z[k] = 0
        BY <2>1, <2>4, <4>1
      <4>. QED
        BY <4>1, <4>2
    <3>. QED
      BY <1>1, <3>1, <3>2
  <2>. QED
    BY <2>5, <2>6
<1>4. \A r \in Doubles, i \in 1 .. l :
        /\ RowOf(a, b, r, i) \in Doubles
        /\ Amount(RowOf(a, b, r, i), Base, i + l)
             = Amount(r, Base, i - 1 + l) + Power(Base, i - 1) * (a[i] * y)
  <2>. SUFFICES ASSUME NEW r \in Doubles, NEW i \in 1 .. l
                PROVE  /\ RowOf(a, b, r, i) \in Doubles
                       /\ Amount(RowOf(a, b, r, i), Base, i + l)
                            = Amount(r, Base, i - 1 + l) + Power(Base, i - 1) * (a[i] * y)
    OBVIOUS
  <2>. DEFINE d == a[i]
  <2>1. d \in 0 .. Base - 1 /\ i \in 1 .. Limbs
    BY <1>2
  <2>2. RowOf(a, b, r, i) = PlusRow(r, i, Carried([j \in Index |-> d * b[j] + r[i + j - 1]], 0))
    BY Zenon DEF RowOf
  <2>. HIDE DEF d
  <2>. QED
    <3>1. RowAdds(RowOf(a, b, r, i), r, i, d, b)
      BY <2>1, <2>2, RowIs
    <3>. QED
      BY <3>1, Zenon DEF RowAdds, d
<1>. HIDE DEF none
<1>5. PICK f \in [0 .. l -> Doubles] : Follows(f, none, op, l)
  <2>1. op \in [Doubles \X (1 .. l) -> Doubles]
    <3>1. \A p \in Doubles \X (1 .. l) : RowOf(a, b, p[1], p[2]) \in Doubles
      BY <1>4
    <3>. QED
      BY <3>1
  <2>. HIDE DEF op
  <2>. QED
    BY <1>1, <1>3, <2>1, RecursionExists, Zenon
<1>6. f[0] = none /\ \A i \in 1 .. l : f[i] = RowOf(a, b, f[i - 1], i) /\ f[i - 1] \in Doubles
  <2>1. \A r \in Doubles, i \in 1 .. l : op[<<r, i>>] = RowOf(a, b, r, i)
    OBVIOUS
  <2>2. \A i \in 1 .. l : f[i - 1] \in Doubles
    BY <1>1, <1>5
  <2>. HIDE DEF op, l
  <2>. QED
    BY <1>5, <2>1, <2>2, Zenon DEF Follows
<1>. HIDE DEF op
<1>7. MulWide(a, b) = f[l]
  <2>1. Loops(f)
    <3>1. \A i \in 1 .. l : f[i] = Loop(f, i)
      <4>. SUFFICES ASSUME NEW i \in 1 .. l PROVE f[i] = Loop(f, i)
        OBVIOUS
      <4>1. Loop(f, i) = RowOf(a, b, f[i - 1], i)
        <5>1. i # 0
          OBVIOUS
        <5>. QED
          BY <5>1, Zenon DEF RowOf
      <4>. HIDE DEF Loop
      <4>. QED
        BY <1>6, <4>1, Zenon
    <3>2. f[0] = Loop(f, 0)
      BY <1>6, Zenon
    <3>3. \A i \in 0 .. l : i = 0 \/ i \in 1 .. l
      BY <1>1
    <3>. HIDE DEF Loop
    <3>4. \A i \in 0 .. l : f[i] = Loop(f, i)
      BY <3>1, <3>2, <3>3, Zenon
    <3>. QED
      BY <1>5, <3>4
  <2>2. Loops(g)
    <3>. HIDE DEF Loops
    <3>. QED
      BY <2>1, Zenon
  <2>3. MulWide(a, b) = g[l]
    BY Zenon DEF MulWide, none
  <2>4. Alike(f, g, l)
    <3>. HIDE DEF g
    <3>1. \A i \in 0 .. l : g[i] = Loop(g, i)
      <4>. HIDE DEF Loop
      <4>. QED
        BY <2>2
    <3>. HIDE DEF Loops
    <3>2. g[0] = none
      <4>1. 0 \in 0 .. l
        BY <1>1
      <4>. QED
        BY <3>1, <4>1, Zenon
    <3>3. \A i \in 1 .. l : g[i] = RowOf(a, b, g[i - 1], i)
      <4>. SUFFICES ASSUME NEW i \in 1 .. l PROVE g[i] = RowOf(a, b, g[i - 1], i)
        OBVIOUS
      <4>1. Loop(g, i) = RowOf(a, b, g[i - 1], i)
        <5>1. i # 0
          OBVIOUS
        <5>. QED
          BY <5>1, Zenon DEF RowOf
      <4>2. i \in 0 .. l
        BY <1>1
      <4>. HIDE DEF Loop
      <4>. QED
        BY <3>1, <4>1, <4>2, Zenon
    <3>4. StepsAlike(f, g, l)
      BY <1>6, <3>2, <3>3, Zenon DEF StepsAlike
    <3>. QED
      BY <1>1, <3>4, RecursionIsUnique
  <2>. HIDE DEF g
  <2>5. l \in 0 .. l
    BY <1>1
  <2>. QED
    BY <2>3, <2>4, <2>5, Zenon DEF Alike
<1>. DEFINE A(i) == Amount(a, Base, i)
            R(i) == Amount(f[i], Base, i + l)
            T == {i \in 0 .. l : R(i) = A(i) * y}
<1>8. A(0) = 0 /\ \A i \in 1 .. l : A(i) = A(i - 1) + a[i] * Power(Base, i - 1)
                                    /\ A(i - 1) \in Int
  <2>1. /\ Amount(a, Base, 0) = 0
        /\ \A i \in 0 .. l : Amount(a, Base, i) \in Int
        /\ \A i \in 1 .. l : Amount(a, Base, i) = Amount(a, Base, i - 1) + a[i] * Power(Base, i - 1)
    BY <1>1, <1>2, AmountIs
  <2>2. \A i \in 1 .. l : i - 1 \in 0 .. l
    BY <1>1
  <2>. QED
    BY <2>1, <2>2, Zenon
<1>9. y \in Int
  BY WordIs
<1>10. 0 \in T
  <2>1. R(0) = 0
    <3>1. \A i \in 1 .. 0 + l : none[i] \in 0 .. Base - 1 /\ none[i] = 0
      BY <1>1, <1>3
    <3>2. R(0) = Amount(none, Base, l)
      BY <1>1, <1>6
    <3>3. \A i \in 1 .. l : none[i] = 0 * none[i] + 0 * none[i] /\ none[i] \in Int
      BY <3>1, <1>1
    <3>4. Amount(none, Base, l) = 0 * Amount(none, Base, l) + 0 * Amount(none, Base, l)
      BY <1>1, <3>3, AmountIsLinear
    <3>5. Amount(none, Base, l) \in Int
      BY <1>1, <3>3, AmountIs
    <3>. QED
      BY <3>2, <3>4, <3>5
  <2>2. A(0) * y = 0
    BY <1>8, <1>9
  <2>. HIDE DEF A, R, l
  <2>. QED
    BY <1>1, <2>1, <2>2
<1>11. ASSUME NEW i \in 1 .. l, i - 1 \in T PROVE i \in T
  <2>. DEFINE p == Power(Base, i - 1)
              d == a[i]
              x == A(i - 1)
  <2>1. R(i) = R(i - 1) + p * (d * y)
    <3>1. f[i] = RowOf(a, b, f[i - 1], i) /\ f[i - 1] \in Doubles
      BY <1>6
    <3>. QED
      BY <1>4, <3>1, Zenon
  <2>2. R(i - 1) = x * y /\ x \in Int /\ A(i) = x + d * p
    BY <1>8, <1>11
  <2>3. p \in Int /\ d \in Int
    <3>1. i - 1 \in Nat
      BY <1>1
    <3>2. \A n \in Nat : Power(Base, n) \in Nat
      BY <1>1, PowerIs
    <3>. QED
      BY <1>2, <3>1, <3>2
  <2>. HIDE DEF p, d, x
  <2>4. x * y + p * (d * y) = (x + d * p) * y
    BY <1>9, <2>2, <2>3
  <2>5. i \in 0 .. l
    BY <1>1
  <2>. HIDE DEF A, R, l, y
  <2>. QED
    BY <2>1, <2>2, <2>4, <2>5
<1>. HIDE DEF T
<1>12. \A i \in 0 .. l : i \in T
  BY <1>1, <1>10, <1>11, InductionTo
<1>13. R(l) = A(l) * y
  <2>1. l \in T
    BY <1>1, <1>12
  <2>. HIDE DEF R, A, l
  <2>. QED
    BY <2>1 DEF T
<1>14. A(l) = ToNat(a) /\ l + l = 2 * Limbs
  BY <1>1, WordIs
<1>15. f[l] \in Doubles
  BY <1>1, <1>5
<1>. QED
  BY <1>7, <1>13, <1>14, <1>15

\* Elements are multiplied as words (field_mul).
LEMMA FieldMulIs ==
    ASSUME NEW m \in Element, NEW n \in Element
    PROVE  FieldMul(FromNat(m), FromNat(n)) = FromNat(Times(m, n))
<1>. DEFINE a == FromNat(m)
            b == FromNat(n)
            r == MulWide(a, b)
<1>1. a \in Words /\ b \in Words /\ ToNat(a) = m /\ ToNat(b) = n
  BY FieldWords
<1>. HIDE DEF a, b
<1>2. r \in Doubles /\ Amount(r, Base, 2 * Limbs) = m * n
  BY <1>1, MulWideIs
<1>. HIDE DEF r
<1>3. \A i \in 1 .. 2 * Limbs : r[i] \in 0 .. Base - 1
  BY <1>2 DEF Doubles
<1>4. Reduce512(r) = FromNat(Amount(r, Base, 2 * Limbs) % Prime)
  BY <1>3, Reduce512Is
<1>5. FieldMul(a, b) = Reduce512(r)
  BY Zenon DEF FieldMul, r
<1>. QED
  BY <1>2, <1>4, <1>5 DEF Times, a, b

-----------------------------------------------------------------------------
(* Powers *)

\* c holds a and its squares, one after another.
Squares(a, len, c) == c[1] = a /\ \A i \in 2 .. len : c[i] = FieldSquare(c[i - 1])

\* r holds the products of those that the bits choose.
Products(bits, len, c, r) ==
    /\ r[0] = One
    /\ \A i \in 1 .. len : r[i] = IF bits[i] = 1 THEN FieldMul(r[i - 1], c[i]) ELSE r[i - 1]

\* The loops of FieldPow compute them.
LEMMA FieldPowUnfolds ==
    ASSUME NEW a, NEW k, NEW len \in Nat \ {0}, Len(BitsOf(k)) = len, DOMAIN BitsOf(k) = 1 .. len,
           NEW c \in [1 .. len -> Words], Squares(a, len, c),
           NEW r \in [0 .. len -> Words], Products(BitsOf(k), len, c, r)
    PROVE  FieldPow(a, k) = r[len]
<1>. DEFINE bits == BitsOf(k)
            Loop(it, i) == IF i = 1 THEN a ELSE FieldSquare(it[i - 1])
            Loops(it) == it = [i \in DOMAIN bits |-> Loop(it, i)]
            base == CHOOSE it : Loops(it)
            Step(it, i) == IF i = 0 THEN One
                           ELSE IF bits[i] = 1 THEN FieldMul(it[i - 1], base[i])
                           ELSE it[i - 1]
            Steps(it) == it = [i \in 0 .. Len(bits) |-> Step(it, i)]
            res == CHOOSE it : Steps(it)
<1>1. FieldPow(a, k) = res[Len(bits)]
  BY Zenon DEF FieldPow
<1>2. Len(bits) = len /\ DOMAIN bits = 1 .. len
  OBVIOUS
<1>3. Products(bits, len, c, r)
  OBVIOUS
<1>. HIDE DEF bits
<1>4. Loops(c)
  <2>1. ASSUME NEW i \in 1 .. len PROVE c[i] = Loop(c, i)
    <3>1. i # 1 => i \in 2 .. len
      OBVIOUS
    <3>. QED
      BY <3>1 DEF Squares
  <2>2. c = [i \in 1 .. len |-> c[i]]
    OBVIOUS
  <2>. HIDE DEF Loop
  <2>. QED
    BY <1>2, <2>1, <2>2
<1>5. Loops(base)
  <2>. HIDE DEF Loops
  <2>. QED
    BY <1>4, Zenon
<1>. HIDE DEF base
<1>6. base = c
  <2>. DEFINE c0 == [i \in 0 .. len - 1 |-> c[i + 1]]
              d0 == [i \in 0 .. len - 1 |-> base[i + 1]]
  <2>1. \A i \in 1 .. len : c[i] = Loop(c, i) /\ base[i] = Loop(base, i)
    BY <1>2, <1>4, <1>5
  <2>2. c0[0] = d0[0]
    BY <2>1
  <2>3. ASSUME NEW i \in 1 .. len - 1, d0[i - 1] = c0[i - 1] PROVE d0[i] = c0[i]
    <3>1. i + 1 \in 1 .. len /\ i + 1 # 1 /\ i + 1 - 1 = i /\ i - 1 + 1 = i
          /\ i - 1 \in 0 .. len - 1 /\ i \in 0 .. len - 1
      OBVIOUS
    <3>2. c[i] = base[i]
      BY <2>3, <3>1
    <3>3. Loop(c, i + 1) = Loop(base, i + 1)
      BY <3>1, <3>2
    <3>. HIDE DEF Loop
    <3>. QED
      BY <2>1, <3>1, <3>3
  <2>. HIDE DEF c0, d0
  <2>4. StepsAlike(c0, d0, len - 1)
    BY <2>2, <2>3 DEF StepsAlike
  <2>5. Alike(c0, d0, len - 1)
    <3>1. len - 1 \in Nat
      OBVIOUS
    <3>. QED
      BY <2>4, <3>1, RecursionIsUnique
  <2>6. ASSUME NEW i \in 1 .. len PROVE base[i] = c[i]
    <3>1. i - 1 \in 0 .. len - 1 /\ i - 1 + 1 = i
      OBVIOUS
    <3>2. d0[i - 1] = c0[i - 1]
      BY <2>5, <3>1 DEF Alike
    <3>. QED
      BY <3>1, <3>2 DEF c0, d0
  <2>7. base = [i \in 1 .. len |-> Loop(base, i)] /\ c = [i \in 1 .. len |-> Loop(c, i)]
    BY <1>2, <1>4, <1>5
  <2>8. base = [i \in 1 .. len |-> base[i]] /\ c = [i \in 1 .. len |-> c[i]]
    <3>. HIDE DEF Loop
    <3>. QED
      BY <2>1, <2>7
  <2>. QED
    BY <2>6, <2>8
<1>. HIDE DEF Loops
<1>7. Steps(r)
  <2>1. ASSUME NEW i \in 0 .. len PROVE r[i] = Step(r, i)
    <3>1. i # 0 => i \in 1 .. len
      OBVIOUS
    <3>2. r[0] = One
          /\ \A j \in 1 .. len : r[j] = IF bits[j] = 1 THEN FieldMul(r[j - 1], c[j]) ELSE r[j - 1]
      BY <1>2, <1>3 DEF Products
    <3>. QED
      BY <1>6, <3>1, <3>2, Zenon
  <2>2. r = [i \in 0 .. len |-> r[i]]
    OBVIOUS
  <2>. HIDE DEF Step
  <2>. QED
    BY <1>2, <2>1, <2>2
<1>8. Steps(res)
  <2>. HIDE DEF Steps
  <2>. QED
    BY <1>7, Zenon
<1>. HIDE DEF res
<1>9. \A i \in 0 .. len : r[i] = Step(r, i) /\ res[i] = Step(res, i)
  <2>. HIDE DEF Step
  <2>. QED
    BY <1>2, <1>7, <1>8
<1>. HIDE DEF Steps
<1>10. StepsAlike(r, res, len)
  <2>1. r[0] = res[0]
    BY <1>9
  <2>2. ASSUME NEW i \in 1 .. len, res[i - 1] = r[i - 1] PROVE res[i] = r[i]
    <3>1. i \in 0 .. len /\ i # 0
      OBVIOUS
    <3>2. Step(r, i) = Step(res, i)
      BY <2>2, <3>1, Zenon
    <3>. HIDE DEF Step
    <3>. QED
      BY <1>9, <3>1, <3>2, Zenon
  <2>. HIDE DEF Step
  <2>. QED
    BY <2>1, <2>2 DEF StepsAlike
<1>11. res[len] = r[len]
  <2>1. Alike(r, res, len)
    BY <1>10, RecursionIsUnique
  <2>. QED
    BY <2>1 DEF Alike
<1>. QED
  BY <1>1, <1>2, <1>11

\* An element is raised to every exponent that fits the limbs (field_pow).
LEMMA FieldPowIs ==
    ASSUME NEW m \in Element, NEW n \in Nat, n < WordCount
    PROVE  FieldPow(FromNat(m), FromNat(n)) = FromNat(El(Power(m, n)))
<1>. DEFINE bits == BitsOf(FromNat(n))
            len == Limbs * LimbBits
            P(e) == Power(m, e)
            two(i) == Power(2, i)
            c == [i \in 1 .. len |-> FromNat(El(P(two(i - 1))))]
            r == [i \in 0 .. len |-> FromNat(El(P(n % two(i))))]
<1>1. len \in Nat \ {0} /\ Limbs \in Nat /\ LimbBits \in Nat
  BY PrimeIs
<1>. HIDE DEF len
<1>2. bits = [k \in 1 .. len |-> (n \div Power(2, k - 1)) % 2]
  BY BitsAre DEF len
<1>3. Len(bits) = len /\ DOMAIN bits = 1 .. len
      /\ \A i \in 1 .. len : bits[i] = (n \div two(i - 1)) % 2
  BY <1>1, <1>2
<1>. HIDE DEF bits
<1>4. /\ P(0) = 1 /\ \A e \in Nat : P(e) \in Nat /\ P(e) \in Int /\ P(e + 1) = P(e) * m
      /\ \A d, e \in Nat : P(d + e) = P(d) * P(e)
  <2>1. m \in Nat
    BY FieldWords
  <2>2. Power(m, 0) = 1 /\ \A e \in Nat : Power(m, e) \in Nat /\ Power(m, e + 1) = Power(m, e) * m
    BY <2>1, PowerIs
  <2>3. \A d, e \in Nat : Power(m, d + e) = Power(m, d) * Power(m, e)
    BY <2>1, PowerAdds
  <2>4. \A e \in Nat : P(e) \in Int
    BY <2>2
  <2>. QED
    BY <2>2, <2>3, <2>4, Zenon
<1>5. two(0) = 1 /\ \A i \in Nat : two(i) \in Nat \ {0} /\ two(i + 1) = two(i) * 2
  <2>1. Power(2, 0) = 1 /\ \A i \in Nat : Power(2, i) \in Nat /\ Power(2, i + 1) = Power(2, i) * 2
    BY PowerIs
  <2>2. ASSUME NEW i \in Nat PROVE Power(2, i) >= Power(2, 0)
    <3>1. 0 \in Nat /\ 0 <= i /\ 2 \in Nat \ {0}
      OBVIOUS
    <3>. QED
      BY <3>1, PowerGrows
  <2>. QED
    BY <2>1, <2>2
<1>. HIDE DEF P, two
<1>6. \A x, y \in Int : /\ El(x) \in Element /\ FromNat(El(x)) \in Words
                        /\ FieldMul(FromNat(El(x)), FromNat(El(y))) = FromNat(El(x * y))
  <2>. SUFFICES ASSUME NEW x \in Int, NEW y \in Int
                PROVE  /\ El(x) \in Element /\ FromNat(El(x)) \in Words
                       /\ FieldMul(FromNat(El(x)), FromNat(El(y))) = FromNat(El(x * y))
    OBVIOUS
  <2>1. El(x) \in Element /\ El(y) \in Element /\ Times(El(x), El(y)) = El(x * y)
    BY ElIs
  <2>2. FromNat(El(x)) \in Words
    BY <2>1, FieldWords
  <2>3. FieldMul(FromNat(El(x)), FromNat(El(y))) = FromNat(Times(El(x), El(y)))
    BY <2>1, FieldMulIs
  <2>. QED
    BY <2>1, <2>2, <2>3, Zenon
<1>7. Squares(FromNat(m), len, c) /\ c \in [1 .. len -> Words]
  <2>1. c[1] = FromNat(m)
    <3>1. 1 \in 1 .. len /\ 1 - 1 = 0 /\ 0 \in Nat
      BY <1>1
    <3>2. two(1 - 1) = 1 /\ P(1) = m
      <4>1. m \in Nat
        BY FieldWords
      <4>2. P(0 + 1) = P(0) * m /\ 0 + 1 = 1
        BY <1>4, <3>1
      <4>. QED
        BY <1>4, <1>5, <3>1, <4>1, <4>2
    <3>3. El(m) = m
      <4>1. m \in Int
        BY FieldWords
      <4>. QED
        BY <4>1, ElIs
    <3>. QED
      BY <3>1, <3>2, <3>3
  <2>2. ASSUME NEW i \in 2 .. len PROVE c[i] = FieldSquare(c[i - 1])
    <3>. DEFINE h == two(i - 2)
    <3>1. i - 2 \in Nat /\ i - 2 + 1 = i - 1 /\ i - 1 - 1 = i - 2 /\ i \in 1 .. len
          /\ i - 1 \in 1 .. len
      BY <1>1
    <3>2. h \in Nat /\ two(i - 1) = h + h
      <4>1. h \in Nat /\ two(i - 2 + 1) = h * 2
        BY <1>5, <3>1
      <4>. QED
        BY <3>1, <4>1
    <3>3. c[i - 1] = FromNat(El(P(h))) /\ c[i] = FromNat(El(P(two(i - 1))))
      BY <3>1
    <3>. HIDE DEF h
    <3>4. P(h + h) = P(h) * P(h) /\ P(h) \in Int
      BY <1>4, <3>2
    <3>5. FieldSquare(c[i - 1]) = FromNat(El(P(h) * P(h)))
      BY <1>6, <3>3, <3>4, Zenon DEF FieldSquare
    <3>. QED
      BY <3>2, <3>3, <3>4, <3>5, Zenon
  <2>3. ASSUME NEW i \in 1 .. len PROVE FromNat(El(P(two(i - 1)))) \in Words
    <3>1. i - 1 \in Nat
      OBVIOUS
    <3>2. P(two(i - 1)) \in Int
      BY <1>4, <1>5, <3>1
    <3>. QED
      BY <1>6, <3>2
  <2>4. c \in [1 .. len -> Words]
    BY <2>3
  <2>. HIDE DEF c
  <2>. QED
    BY <2>1, <2>2, <2>4, Zenon DEF Squares
<1>8. Products(bits, len, c, r) /\ r \in [0 .. len -> Words]
  <2>1. \A i \in 0 .. len : n % two(i) \in Nat
    <3>. SUFFICES ASSUME NEW i \in 0 .. len PROVE n % two(i) \in Nat
      OBVIOUS
    <3>1. i \in Nat
      OBVIOUS
    <3>2. two(i) \in Nat \ {0}
      BY <1>5, <3>1
    <3>3. n % two(i) \in 0 .. two(i) - 1
      BY <3>2, Divides, Zenon
    <3>. QED
      BY <3>2, <3>3
  <2>2. r[0] = One
    <3>1. 0 \in 0 .. len /\ n % 1 = 0
      BY <1>1
    <3>2. r[0] = FromNat(El(1))
      BY <1>4, <1>5, <3>1
    <3>3. El(1) = 1
      <4>1. 1 \in Element /\ 1 \in Int
        BY FieldWords DEF Element
      <4>. QED
        BY <4>1, ElIs
    <3>. QED
      BY <3>2, <3>3 DEF One
  <2>3. ASSUME NEW i \in 1 .. len
        PROVE  r[i] = IF bits[i] = 1 THEN FieldMul(r[i - 1], c[i]) ELSE r[i - 1]
    <3>. DEFINE h == two(i - 1)
                u == n % h
                b == (n \div h) % 2
    <3>1. i - 1 \in Nat /\ i - 1 + 1 = i /\ i \in 0 .. len /\ i - 1 \in 0 .. len
      BY <1>1
    <3>2. h \in Nat \ {0} /\ h \in Nat /\ two(i) = h * 2
      <4>1. two(i - 1 + 1) = two(i - 1) * 2
        BY <1>5, <3>1
      <4>. QED
        BY <1>5, <3>1, <4>1
    <3>3. u \in Nat /\ bits[i] = b
      BY <1>3, <2>1, <3>1
    <3>4. r[i - 1] = FromNat(El(P(u))) /\ r[i] = FromNat(El(P(n % two(i))))
          /\ c[i] = FromNat(El(P(h)))
      BY <3>1
    <3>. HIDE DEF h
    <3>5. n % two(i) = u + b * h
      <4>1. 2 \in Nat \ {0}
        OBVIOUS
      <4>. QED
        BY <3>2, <4>1, NextDigit
    <3>6. b = 0 \/ b = 1
      <4>1. n \div h \in Nat
        BY <3>2, Divides, Zenon
      <4>. DEFINE q == n \div h
      <4>2. q \in Nat
        BY <4>1
      <4>. HIDE DEF q
      <4>3. q % 2 = 0 \/ q % 2 = 1
        BY <4>2
      <4>. QED
        BY <4>3 DEF q
    <3>. HIDE DEF u, b, c, r
    <3>7. P(u) \in Int /\ P(h) \in Int /\ P(u + h) = P(u) * P(h)
      BY <1>4, <3>2, <3>3
    <3>8. CASE b = 1
      <4>1. n % two(i) = u + h
        BY <3>2, <3>3, <3>5, <3>8
      <4>2. FieldMul(r[i - 1], c[i]) = FromNat(El(P(u) * P(h)))
        BY <1>6, <3>4, <3>7, Zenon
      <4>3. r[i] = FieldMul(r[i - 1], c[i])
        BY <3>4, <3>7, <4>1, <4>2, Zenon
      <4>. QED
        BY <3>3, <3>8, <4>3
    <3>9. CASE b = 0
      <4>1. n % two(i) = u
        BY <3>2, <3>3, <3>5, <3>9
      <4>2. r[i] = r[i - 1]
        BY <3>4, <4>1, Zenon
      <4>. QED
        BY <3>3, <3>9, <4>2
    <3>. QED
      BY <3>6, <3>8, <3>9
  <2>4. r \in [0 .. len -> Words]
    <3>1. \A i \in 0 .. len : FromNat(El(P(n % two(i)))) \in Words
      <4>1. \A i \in 0 .. len : P(n % two(i)) \in Int
        BY <1>4, <2>1
      <4>. QED
        BY <1>6, <4>1
    <3>. QED
      BY <3>1
  <2>. HIDE DEF c, r
  <2>. QED
    BY <2>2, <2>3, <2>4, Zenon DEF Products
<1>9. r[len] = FromNat(El(P(n)))
  <2>1. len \in 0 .. len
    BY <1>1
  <2>2. two(len) = WordCount
    <3>1. Power(Base, Limbs) = Power(2, LimbBits * Limbs)
      BY <1>1, PowerMultiplies DEF Base
    <3>2. LimbBits * Limbs = Limbs * LimbBits
      BY <1>1
    <3>. QED
      BY <3>1, <3>2 DEF len, two, WordCount
  <2>3. n % WordCount = n
    BY FieldWords, SmallNumber
  <2>. QED
    BY <2>1, <2>2, <2>3
<1>. HIDE DEF c, r
<1>10. FieldPow(FromNat(m), FromNat(n)) = r[len]
  BY <1>1, <1>3, <1>7, <1>8, FieldPowUnfolds DEF bits
<1>. QED
  BY <1>9, <1>10 DEF P

-----------------------------------------------------------------------------
(* Fermat *)

\* F holds the products of the first values of f.
Multiplies(F, f, n) ==
    /\ \A i \in 0 .. n : F[i] \in Element
    /\ \A i \in 1 .. n : f[i] \in Element
    /\ F[0] = 1 /\ \A i \in 1 .. n : F[i] = Times(F[i - 1], f[i])

\* g takes each of the numbers up to n once.
Permutes(g, n) ==
    /\ \A i \in 1 .. n : g[i] \in 1 .. n
    /\ \A i, j \in 1 .. n : g[i] = g[j] => i = j
    /\ \A v \in 1 .. n : \E i \in 1 .. n : g[i] = v

\* The factors of a product may change their places.
LEMMA TimesMoves ==
    ASSUME NEW a \in Element, NEW b \in Element, NEW c \in Element
    PROVE  Times(Times(a, b), c) = Times(Times(a, c), b)
<1>1. Times(Times(a, b), c) = Times(a, Times(b, c)) /\ Times(Times(a, c), b) = Times(a, Times(c, b))
  BY TimesIs
<1>2. Times(b, c) = Times(c, b)
  BY TimesIs
<1>. QED
  BY <1>1, <1>2

\* There are products of any elements.
LEMMA ProductsExist ==
    ASSUME NEW n \in Nat, NEW f, \A i \in 1 .. n : f[i] \in Element
    PROVE  \E F : Multiplies(F, f, n)
<1>. DEFINE op == [p \in Element \X (1 .. n) |-> Times(p[1], f[p[2]])]
<1>1. \A x \in Element, i \in 1 .. n : Times(x, f[i]) \in Element /\ op[<<x, i>>] = Times(x, f[i])
  BY TimesIs
<1>2. op \in [Element \X (1 .. n) -> Element]
  BY <1>1
<1>3. 1 \in Element
  BY FieldWords DEF Element
<1>. HIDE DEF op
<1>4. PICK F \in [0 .. n -> Element] : Follows(F, 1, op, n)
  BY <1>2, <1>3, RecursionExists, Zenon
<1>5. \A i \in 0 .. n : F[i] \in Element
  BY <1>4
<1>6. \A i \in 1 .. n : F[i - 1] \in Element
  BY <1>4
<1>7. F[0] = 1 /\ \A i \in 1 .. n : F[i] = Times(F[i - 1], f[i])
  BY <1>1, <1>4, <1>6, Zenon DEF Follows
<1>8. Multiplies(F, f, n)
  BY <1>5, <1>7, Zenon DEF Multiplies
<1>. QED
  BY <1>8, Zenon

\* The products F of f and H of h, where h differs from f only in the j-th of n factors.
DifferIn(F, f, H, h, j, n) ==
    /\ j \in 1 .. n /\ Multiplies(F, f, n) /\ Multiplies(H, h, n)
    /\ \A i \in 1 .. n : i # j => h[i] = f[i]

\* One factor x replaced by another, y.
Exchanged(p, q, x, y) == Times(q, x) = Times(p, y)

\* The two products then differ by that exchange.
LEMMA FactorReplaced ==
    ASSUME NEW n \in Nat, NEW F, NEW f, NEW H, NEW h, NEW j, DifferIn(F, f, H, h, j, n)
    PROVE  Exchanged(F[n], H[n], f[j], h[j])
<1>. SUFFICES ASSUME j \in 1 .. n, Multiplies(F, f, n), Multiplies(H, h, n),
                     \A i \in 1 .. n : i # j => h[i] = f[i]
              PROVE  Times(H[n], f[j]) = Times(F[n], h[j])
  BY Zenon DEF DifferIn, Exchanged
<1>. DEFINE x == f[j]
            y == h[j]
            T == {k \in 0 .. n : /\ k < j => H[k] = F[k]
                                 /\ k >= j => Times(H[k], x) = Times(F[k], y)}
<1>1. /\ \A i \in 0 .. n : F[i] \in Element /\ H[i] \in Element
      /\ \A i \in 1 .. n : f[i] \in Element /\ h[i] \in Element
      /\ F[0] = 1 /\ H[0] = 1
      /\ \A i \in 1 .. n : F[i] = Times(F[i - 1], f[i]) /\ H[i] = Times(H[i - 1], h[i])
  BY Zenon DEF Multiplies
<1>2. x \in Element /\ y \in Element
  BY <1>1
<1>. HIDE DEF x, y
<1>3. 0 \in T
  BY <1>1
<1>4. ASSUME NEW k \in 1 .. n, k - 1 \in T PROVE k \in T
  <2>. DEFINE u == F[k - 1]
              v == H[k - 1]
              s == f[k]
              t == h[k]
  <2>1. u \in Element /\ v \in Element /\ s \in Element /\ t \in Element
        /\ F[k] = Times(u, s) /\ H[k] = Times(v, t) /\ k \in 0 .. n
    BY <1>1
  <2>2. (k - 1 < j => v = u) /\ (k - 1 >= j => Times(v, x) = Times(u, y))
    BY <1>4
  <2>3. (k # j => s = t) /\ (k = j => s = x /\ t = y)
    BY DEF x, y
  <2>. HIDE DEF u, v, s, t
  <2>4. CASE k < j
    BY <2>1, <2>2, <2>3, <2>4
  <2>5. CASE k = j
    <3>1. v = u /\ s = x /\ t = y
      BY <2>2, <2>3, <2>5
    <3>2. Times(Times(u, y), x) = Times(Times(u, x), y)
      BY <1>2, <2>1, TimesMoves
    <3>3. Times(H[k], x) = Times(F[k], y)
      BY <2>1, <3>1, <3>2
    <3>. QED
      BY <2>1, <2>5, <3>3
  <2>6. CASE k > j
    <3>1. s = t /\ Times(v, x) = Times(u, y)
      BY <2>2, <2>3, <2>6
    <3>2. Times(Times(v, t), x) = Times(Times(v, x), t)
      BY <1>2, <2>1, TimesMoves
    <3>3. Times(Times(u, y), t) = Times(Times(u, t), y)
      BY <1>2, <2>1, TimesMoves
    <3>4. Times(H[k], x) = Times(F[k], y)
      BY <2>1, <3>1, <3>2, <3>3
    <3>. QED
      BY <2>1, <2>6, <3>4
  <2>. QED
    BY <2>4, <2>5, <2>6
<1>. HIDE DEF T
<1>5. \A k \in 0 .. n : k \in T
  BY <1>3, <1>4, InductionTo
<1>6. n \in T
  BY <1>5
<1>. QED
  BY <1>6 DEF T, x, y

\* The product of the numbers up to n does not depend on their order.
LEMMA OrderDoesNotMatter ==
    ASSUME NEW F, NEW f, \A i \in 1 .. Prime - 1 : f[i] = i, Multiplies(F, f, Prime - 1),
           NEW m \in Nat, m < Prime, NEW K, NEW g, Permutes(g, m), Multiplies(K, g, m)
    PROVE  K[m] = F[m]
<1>. DEFINE Same(n) == \A G0, g0 : Permutes(g0, n) /\ Multiplies(G0, g0, n) => G0[n] = F[n]
            T == {n \in 0 .. Prime - 1 : Same(n)}
            top == Prime - 1
<1>1. top \in Nat /\ m \in 0 .. top
  BY FieldWords
<1>2. /\ \A i \in 0 .. top : F[i] \in Element
      /\ F[0] = 1 /\ \A i \in 1 .. top : F[i] = Times(F[i - 1], i) /\ i \in Element
  BY Zenon DEF Multiplies
<1>. HIDE DEF top
<1>3. 0 \in T
  <2>1. Same(0)
    BY <1>2, Zenon DEF Multiplies
  <2>. HIDE DEF Same
  <2>. QED
    BY <1>1, <2>1 DEF top
<1>4. ASSUME NEW n \in 1 .. top, n - 1 \in T PROVE n \in T
  <2>1. Same(n - 1) /\ n \in 0 .. top /\ n - 1 \in Nat /\ n \in Nat /\ n \in 1 .. n
        /\ (\A i \in 1 .. n - 1 : i \in 1 .. n) /\ (\A i \in 0 .. n - 1 : i \in 0 .. n)
        /\ (\A i \in 1 .. n : i # n => i \in 1 .. n - 1)
        /\ n - 1 \in 0 .. n /\ F[n] = Times(F[n - 1], n)
    <3>. HIDE DEF Same
    <3>. QED
      BY <1>1, <1>2, <1>4
  <2>. SUFFICES ASSUME NEW G0, NEW g0, Permutes(g0, n), Multiplies(G0, g0, n)
                PROVE  G0[n] = F[n]
    <3>1. Same(n)
      BY Zenon
    <3>. HIDE DEF Same
    <3>. QED
      BY <2>1, <3>1 DEF top
  <2>2. /\ \A i \in 1 .. n : g0[i] \in 1 .. n
        /\ \A i, j \in 1 .. n : g0[i] = g0[j] => i = j
        /\ \A v \in 1 .. n : \E i \in 1 .. n : g0[i] = v
    BY Zenon DEF Permutes
  <2>3. /\ \A i \in 0 .. n : G0[i] \in Element
        /\ \A i \in 1 .. n : g0[i] \in Element
        /\ G0[0] = 1 /\ \A i \in 1 .. n : G0[i] = Times(G0[i - 1], g0[i])
    BY Zenon DEF Multiplies
  <2>4. PICK j \in 1 .. n : g0[j] = n
    BY <2>1, <2>2, Zenon
  <2>. DEFINE y == g0[n]
              h == [i \in 1 .. n - 1 |-> IF i = j THEN y ELSE g0[i]]
              k == n - 1
  <2>5. y \in 1 .. n /\ y \in Element /\ G0[n] = Times(G0[n - 1], y) /\ G0[n - 1] \in Element
    BY <2>1, <2>2, <2>3, Zenon
  <2>6. \A i \in 1 .. n - 1 : /\ i # j => h[i] = g0[i]
                              /\ i = j => h[i] = y
    OBVIOUS
  <2>. HIDE DEF h
  <2>7. Permutes(h, n - 1)
    <3>1. ASSUME NEW i \in 1 .. n - 1 PROVE h[i] \in 1 .. n - 1
      <4>1. CASE i = j
        <5>1. y # n
          BY <2>1, <2>2, <2>4, <4>1
        <5>. QED
          BY <2>5, <2>6, <4>1, <5>1
      <4>2. CASE i # j
        <5>1. g0[i] \in 1 .. n /\ g0[i] # n
          BY <2>1, <2>2, <2>4, <4>2
        <5>. QED
          BY <2>6, <4>2, <5>1
      <4>. QED
        BY <4>1, <4>2
    <3>2. ASSUME NEW i \in 1 .. n - 1, NEW l \in 1 .. n - 1, h[i] = h[l] PROVE i = l
      <4>1. i \in 1 .. n /\ l \in 1 .. n /\ i # n /\ l # n
        BY <2>1
      <4>2. CASE i = j /\ l # j
        <5>1. g0[n] = g0[l]
          BY <2>6, <3>2, <4>2
        <5>. QED
          BY <2>1, <2>2, <4>1, <5>1
      <4>3. CASE i # j /\ l = j
        <5>1. g0[n] = g0[i]
          BY <2>6, <3>2, <4>3
        <5>. QED
          BY <2>1, <2>2, <4>1, <5>1
      <4>4. CASE i # j /\ l # j
        <5>1. g0[i] = g0[l]
          BY <2>6, <3>2, <4>4
        <5>. QED
          BY <2>2, <4>1, <5>1
      <4>. QED
        BY <4>2, <4>3, <4>4
    <3>3. ASSUME NEW v \in 1 .. n - 1 PROVE \E i \in 1 .. n - 1 : h[i] = v
      <4>1. PICK i \in 1 .. n : g0[i] = v
        BY <2>1, <2>2
      <4>2. v # n
        BY <2>1
      <4>3. i # j
        BY <2>4, <4>1, <4>2
      <4>4. CASE i = n
        <5>1. j \in 1 .. n - 1 /\ h[j] = v
          BY <2>1, <2>6, <4>1, <4>3, <4>4
        <5>. QED
          BY <5>1
      <4>5. CASE i # n
        <5>1. i \in 1 .. n - 1 /\ h[i] = v
          BY <2>1, <2>6, <4>1, <4>3, <4>5
        <5>. QED
          BY <5>1
      <4>. QED
        BY <4>4, <4>5
    <3>. QED
      BY <3>1, <3>2, <3>3, Zenon DEF Permutes
  <2>8. \A i \in 1 .. n - 1 : h[i] \in Element
    <3>1. \A i \in 1 .. n - 1 : h[i] \in 1 .. n - 1
      BY <2>7, Zenon DEF Permutes
    <3>. QED
      BY <1>1, <3>1 DEF Element, top
  <2>9. PICK H : Multiplies(H, h, n - 1)
    BY <2>1, <2>8, ProductsExist, Zenon
  <2>10. H[n - 1] = F[n - 1]
    <3>. HIDE DEF T
    <3>. QED
      BY <2>1, <2>7, <2>9, Zenon
  <2>. HIDE DEF Same
  <2>11. Multiplies(G0, g0, n - 1)
    BY <2>1, <2>3, Zenon DEF Multiplies
  <2>12. CASE j = n
    <3>1. \A i \in 1 .. n - 1 : i # j /\ h[i] = g0[i]
      BY <2>1, <2>6, <2>12
    <3>2. StepsAlike(H, G0, n - 1)
      BY <2>9, <2>11, <3>1, Zenon DEF StepsAlike, Multiplies
    <3>3. G0[n - 1] = H[n - 1]
      <4>1. n - 1 \in 0 .. n - 1
        BY <2>1
      <4>2. Alike(H, G0, n - 1)
        BY <2>1, <3>2, RecursionIsUnique, Zenon
      <4>. QED
        BY <4>1, <4>2, Zenon DEF Alike
    <3>. QED
      BY <2>1, <2>4, <2>5, <2>10, <2>12, <3>3, Zenon
  <2>13. CASE j # n
    <3>1. j \in 1 .. n - 1 /\ h[j] = y /\ \A i \in 1 .. n - 1 : i # j => h[i] = g0[i]
      BY <2>1, <2>6, <2>13
    <3>2. Times(H[n - 1], g0[j]) = Times(G0[n - 1], h[j])
      <4>1. DifferIn(G0, g0, H, h, j, n - 1)
        BY <2>9, <2>11, <3>1, Zenon DEF DifferIn
      <4>2. n - 1 \in Nat
        BY <2>1
      <4>3. Exchanged(G0[n - 1], H[n - 1], g0[j], h[j])
        BY <4>1, <4>2, FactorReplaced, Zenon
      <4>. QED
        BY <4>3, Zenon DEF Exchanged
    <3>. QED
      BY <2>1, <2>4, <2>5, <2>10, <3>1, <3>2, Zenon
  <2>. QED
    BY <2>12, <2>13
<1>. HIDE DEF T
<1>5. \A n \in 0 .. top : n \in T
  BY <1>1, <1>3, <1>4, InductionTo
<1>. QED
  BY <1>1, <1>5 DEF T

\* A factor common to all the factors of a product.
LEMMA FactorTakenOut ==
    ASSUME NEW n \in Nat, NEW F, NEW f, NEW K, NEW g, NEW a \in Element,
           Multiplies(F, f, n), Multiplies(K, g, n), \A i \in 1 .. n : g[i] = Times(a, f[i])
    PROVE  K[n] = Times(El(Power(a, n)), F[n])
<1>. DEFINE P(k) == El(Power(a, k))
            T == {k \in 0 .. n : K[k] = Times(P(k), F[k])}
<1>1. /\ \A i \in 0 .. n : F[i] \in Element /\ K[i] \in Element
      /\ \A i \in 1 .. n : f[i] \in Element /\ g[i] \in Element
      /\ F[0] = 1 /\ K[0] = 1
      /\ \A i \in 1 .. n : F[i] = Times(F[i - 1], f[i]) /\ K[i] = Times(K[i - 1], g[i])
  BY Zenon DEF Multiplies
<1>2. P(0) = 1 /\ \A k \in Nat : P(k) \in Element /\ P(k + 1) = Times(P(k), a)
  <2>1. a \in Nat
    BY FieldWords
  <2>2. Power(a, 0) = 1 /\ \A k \in Nat : Power(a, k) \in Nat /\ Power(a, k + 1) = Power(a, k) * a
    BY <2>1, PowerIs
  <2>3. El(1) = 1 /\ El(a) = a
    <3>1. 1 \in Element /\ 1 \in Int /\ a \in Int
      BY <2>1, FieldWords DEF Element
    <3>. QED
      BY <3>1, ElIs
  <2>4. ASSUME NEW k \in Nat PROVE P(k) \in Element /\ P(k + 1) = Times(P(k), a)
    <3>. DEFINE q == Power(a, k)
    <3>1. q \in Int /\ a \in Int /\ Power(a, k + 1) = q * a
      BY <2>1, <2>2
    <3>. HIDE DEF q
    <3>2. El(q) \in Element /\ Times(El(q), El(a)) = El(q * a)
      BY <3>1, ElIs
    <3>. QED
      BY <2>3, <3>1, <3>2, Zenon DEF q
  <2>. HIDE DEF P
  <2>5. P(0) = 1
    BY <2>2, <2>3 DEF P
  <2>. QED
    BY <2>4, <2>5
<1>. HIDE DEF P
<1>3. 0 \in T
  <2>1. Times(1, 1) = 1
    <3>1. 1 \in Element
      BY FieldWords DEF Element
    <3>. QED
      BY <3>1, TimesIs
  <2>. QED
    BY <1>1, <1>2, <2>1
<1>4. ASSUME NEW k \in 1 .. n, k - 1 \in T PROVE k \in T
  <2>. DEFINE u == F[k - 1]
              x == f[k]
              p == P(k - 1)
  <2>1. u \in Element /\ x \in Element /\ F[k] = Times(u, x) /\ g[k] = Times(a, x)
        /\ K[k] = Times(K[k - 1], g[k]) /\ K[k - 1] = Times(p, u) /\ k \in 0 .. n
    BY <1>1, <1>4
  <2>2. p \in Element /\ P(k) = Times(p, a)
    <3>1. k - 1 \in Nat /\ k - 1 + 1 = k
      OBVIOUS
    <3>2. P(k - 1 + 1) = Times(P(k - 1), a)
      BY <1>2, <3>1
    <3>. QED
      BY <1>2, <3>1, <3>2
  <2>. HIDE DEF u, x, p
  <2>3. Times(p, u) \in Element /\ Times(p, a) \in Element
    BY <2>1, <2>2, TimesIs
  <2>4. Times(Times(p, u), Times(a, x)) = Times(Times(Times(p, u), a), x)
    BY <2>1, <2>3, TimesIs
  <2>5. Times(Times(p, u), a) = Times(Times(p, a), u)
    BY <2>1, <2>2, TimesMoves
  <2>6. Times(Times(Times(p, a), u), x) = Times(Times(p, a), Times(u, x))
    BY <2>1, <2>3, TimesIs
  <2>7. K[k] = Times(P(k), F[k])
    BY <2>1, <2>2, <2>4, <2>5, <2>6, Zenon
  <2>. QED
    BY <2>1, <2>7
<1>. HIDE DEF T
<1>5. \A k \in 0 .. n : k \in T
  BY <1>3, <1>4, InductionTo
<1>6. n \in T
  BY <1>5
<1>. QED
  BY <1>6 DEF T, P

\* Fermat's little theorem.
LEMMA Fermat ==
    ASSUME NEW a \in Element \ {0}
    PROVE  El(Power(a, Prime - 1)) = 1
<1>. DEFINE top == Prime - 1
            f == [i \in 1 .. top |-> i]
            g == [i \in 1 .. top |-> Times(a, i)]
            p == El(Power(a, top))
<1>1. top \in Nat /\ top < Prime /\ 1 .. top = Element \ {0} /\ a \in Element
      /\ Prime \in Nat
  BY FieldWords DEF Element
<1>2. /\ \A i \in 1 .. top : f[i] = i /\ f[i] \in Element
      /\ \A i \in 1 .. top : g[i] = Times(a, i) /\ g[i] = Times(a, f[i]) /\ g[i] \in Element \ {0}
  BY <1>1, NoZeroDivisors
<1>. HIDE DEF f, g
<1>3. PICK F : Multiplies(F, f, top)
  BY <1>1, <1>2, ProductsExist, Zenon
<1>4. PICK K : Multiplies(K, g, top)
  <2>1. \A i \in 1 .. top : g[i] \in Element
    BY <1>2
  <2>. QED
    BY <1>1, <2>1, ProductsExist, Zenon
<1>5. Permutes(g, top)
  <2>1. \A i \in 1 .. top : g[i] \in 1 .. top
    BY <1>1, <1>2
  <2>2. ASSUME NEW i \in 1 .. top, NEW j \in 1 .. top, g[i] = g[j] PROVE i = j
    <3>1. i \in Element /\ j \in Element /\ Times(a, i) = Times(a, j)
      BY <1>1, <1>2, <2>2
    <3>. QED
      BY <3>1, InverseIs
  <2>3. ASSUME NEW v \in 1 .. top PROVE \E i \in 1 .. top : g[i] = v
    <3>. DEFINE b == Inverted(a)
                i == Times(b, v)
    <3>1. b \in Element \ {0} /\ Times(a, b) = 1 /\ v \in Element \ {0}
      BY <1>1, InverseIs
    <3>. HIDE DEF b
    <3>2. i \in Element \ {0}
      BY <3>1, NoZeroDivisors
    <3>3. Times(a, i) = Times(Times(a, b), v)
      <4>1. b \in Element /\ v \in Element
        BY <3>1
      <4>. QED
        BY <1>1, <4>1, TimesIs
    <3>4. Times(1, v) = v
      <4>1. v \in Element /\ 1 \in Element
        BY <3>1, FieldWords DEF Element
      <4>2. Times(v, 1) = v /\ Times(1, v) = Times(v, 1)
        BY <4>1, TimesIs
      <4>. QED
        BY <4>2
    <3>. HIDE DEF i
    <3>5. i \in 1 .. top /\ g[i] = v
      BY <1>1, <1>2, <3>1, <3>2, <3>3, <3>4
    <3>. QED
      BY <3>5
  <2>. QED
    BY <2>1, <2>2, <2>3, Zenon DEF Permutes
<1>6. K[top] = F[top]
  <2>1. \A i \in 1 .. Prime - 1 : f[i] = i
    BY <1>2
  <2>. QED
    BY <1>1, <1>3, <1>4, <1>5, <2>1, OrderDoesNotMatter
<1>7. K[top] = Times(p, F[top])
  <2>1. \A i \in 1 .. top : g[i] = Times(a, f[i])
    BY <1>2
  <2>. HIDE DEF top
  <2>. QED
    BY <1>1, <1>3, <1>4, <2>1, FactorTakenOut
<1>8. F[top] \in Element \ {0}
  <2>. DEFINE T == {i \in 0 .. top : F[i] \in Element \ {0}}
  <2>. HIDE DEF top
  <2>1. /\ \A i \in 1 .. top : f[i] \in Element \ {0}
        /\ F[0] = 1 /\ \A i \in 1 .. top : F[i] = Times(F[i - 1], f[i])
    <3>1. \A i \in 1 .. top : f[i] \in Element \ {0}
      BY <1>1, <1>2
    <3>. QED
      BY <1>3, <3>1, Zenon DEF Multiplies
  <2>2. 0 \in T
    BY <1>1, <2>1, FieldWords DEF Element
  <2>3. ASSUME NEW i \in 1 .. top, i - 1 \in T PROVE i \in T
    <3>1. Times(F[i - 1], f[i]) \in Element \ {0} /\ i \in 0 .. top
      BY <2>1, <2>3, NoZeroDivisors
    <3>. QED
      BY <2>1, <3>1
  <2>. HIDE DEF T
  <2>4. \A i \in 0 .. top : i \in T
    BY <1>1, <2>2, <2>3, InductionTo
  <2>5. top \in T
    BY <1>1, <2>4
  <2>. QED
    BY <2>5 DEF T
<1>9. p \in Element
  <2>1. Power(a, top) \in Int
    <3>1. a \in Nat
      BY FieldWords
    <3>2. \A k \in Nat : Power(a, k) \in Nat
      BY <3>1, PowerIs
    <3>. QED
      BY <1>1, <3>2
  <2>. QED
    BY <2>1, ElIs
<1>. DEFINE x == F[top]
<1>. HIDE DEF top, p
<1>10. x \in Element \ {0} /\ x \in Element /\ x = Times(p, x)
  BY <1>6, <1>7, <1>8
<1>. HIDE DEF x
<1>11. Times(x, p) = Times(x, 1) /\ 1 \in Element
  <2>1. 1 \in Element
    BY FieldWords DEF Element
  <2>2. Times(x, 1) = x /\ Times(p, x) = Times(x, p)
    BY <1>9, <1>10, <2>1, TimesIs
  <2>. QED
    BY <1>10, <2>1, <2>2
<1>12. p = 1
  BY <1>9, <1>10, <1>11, InverseIs
<1>. QED
  BY <1>12 DEF p, top

\* The inverse of an element (field_inv).
LEMMA FieldInvIs ==
    ASSUME NEW n \in Element \ {0}
    PROVE  FieldInv(FromNat(n)) = FromNat(Inverted(n))
<1>. DEFINE a == FromNat(n)
            e == Prime - 2
            p == Power(n, e)
            two == FromNat(2)
            exp == SubBorrow(SECP256K1_P, two).limbs
<1>1. a \in Words /\ ToNat(a) = n /\ n \in Nat /\ n \in Element /\ e \in Nat /\ e < WordCount
      /\ 2 \in Element
  BY FieldWords DEF Element
<1>2. a # Zero
  BY <1>1, FieldWords
<1>3. exp = FromNat(e)
  <2>1. two \in Words /\ ToNat(two) = 2
    BY <1>1, FieldWords
  <2>. HIDE DEF two
  <2>2. exp \in Words /\ ToNat(exp) = (Prime - 2) % WordCount
    <3>1. SECP256K1_P \in Words /\ ToNat(SECP256K1_P) = Prime
      BY FieldWords
    <3>. DEFINE prime == SECP256K1_P
    <3>. HIDE DEF prime
    <3>2. SubBorrow(prime, two).limbs \in Words
          /\ ToNat(SubBorrow(prime, two).limbs) = (ToNat(prime) - ToNat(two)) % WordCount
      BY <2>1, <3>1, SubBorrowIs DEF prime
    <3>. QED
      BY <2>1, <3>1, <3>2 DEF prime
  <2>3. (Prime - 2) % WordCount = e
    <3>1. Prime - 2 \in Int /\ Prime - 2 \in 0 .. WordCount - 1 /\ WordCount \in Nat \ {0}
      BY <1>1, FieldWords
    <3>. QED
      BY <3>1, SmallNumber
  <2>. HIDE DEF exp, e
  <2>. QED
    BY <1>1, <2>2, <2>3, FromNatIs
<1>4. FieldInv(a) = FieldPow(a, exp)
  BY <1>2, Zenon DEF FieldInv
<1>5. FieldPow(a, FromNat(e)) = FromNat(El(p))
  <2>. HIDE DEF e
  <2>. QED
    BY <1>1, FieldPowIs
<1>6. p \in Int /\ Power(n, Prime - 1) = p * n
  <2>1. \A i \in Nat : Power(n, i) \in Nat /\ Power(n, i + 1) = Power(n, i) * n
    BY <1>1, PowerIs
  <2>2. e + 1 = Prime - 1
    BY FieldWords
  <2>. HIDE DEF e
  <2>3. p \in Nat /\ Power(n, e + 1) = p * n
    BY <1>1, <2>1
  <2>. HIDE DEF p
  <2>. QED
    BY <2>2, <2>3
<1>. HIDE DEF p, e, exp
<1>7. Times(n, El(p)) = 1 /\ El(p) \in Element
  <2>1. El(p) \in Element /\ El(n) = n /\ Times(El(p), El(n)) = El(p * n)
    <3>1. n \in Int
      BY <1>1
    <3>. QED
      BY <1>1, <1>6, <3>1, ElIs
  <2>2. El(Power(n, Prime - 1)) = 1
    BY Fermat
  <2>3. Times(n, El(p)) = Times(El(p), n)
    BY <1>1, <2>1, TimesIs
  <2>. QED
    BY <1>6, <2>1, <2>2, <2>3
<1>8. El(p) = Inverted(n)
  BY <1>7, InverseIs
<1>. QED
  BY <1>3, <1>4, <1>5, <1>8

-----------------------------------------------------------------------------
(* Bytes and halves of limbs *)

\* The limbs are made of bytes, and of halves.
LEMMA LimbPartsAre ==
    /\ LimbBytes \in Nat \ {0} /\ ByteBase \in Nat \ {0} /\ Base = Power(ByteBase, LimbBytes)
    /\ HalfBase \in Nat \ {0} /\ Base = Power(HalfBase, 2) /\ Base = HalfBase * HalfBase
<1>. DEFINE b == LimbBits \div LimbBytes
            h == LimbBits \div 2
<1>1. /\ LimbBytes \in Nat \ {0} /\ LimbBits \in Nat \ {0} /\ LimbBits % LimbBytes = 0
      /\ LimbBits % 2 = 0
  BY LimbAssumption
<1>2. b \in Nat /\ LimbBits = b * LimbBytes
  BY <1>1, Divides
<1>3. h \in Nat /\ LimbBits = h * 2
  BY <1>1
<1>. HIDE DEF b, h
<1>4. \A i \in Nat : Power(2, i) \in Nat \ {0}
  <2>1. Power(2, 0) = 1 /\ \A i \in Nat : Power(2, i) \in Nat
    BY PowerIs
  <2>2. ASSUME NEW i \in Nat PROVE Power(2, i) >= Power(2, 0)
    <3>1. 0 \in Nat /\ 0 <= i /\ 2 \in Nat \ {0}
      OBVIOUS
    <3>. QED
      BY <3>1, PowerGrows
  <2>. QED
    BY <2>1, <2>2
<1>5. Power(Power(2, b), LimbBytes) = Power(2, b * LimbBytes)
  BY <1>1, <1>2, PowerMultiplies
<1>6. Power(Power(2, h), 2) = Power(2, h * 2)
  BY <1>3, PowerMultiplies
<1>7. ByteBase = Power(2, b) /\ HalfBase = Power(2, h) /\ Base = Power(2, LimbBits)
  BY DEF ByteBase, HalfBase, Base, b, h
<1>8. HalfBase \in Nat \ {0} /\ ByteBase \in Nat \ {0}
  BY <1>2, <1>3, <1>4, <1>7
<1>9. Power(HalfBase, 2) = HalfBase * HalfBase
  <2>1. Power(HalfBase, 0) = 1
        /\ \A i \in Nat : Power(HalfBase, i) \in Nat
                          /\ Power(HalfBase, i + 1) = Power(HalfBase, i) * HalfBase
    BY <1>8, PowerIs
  <2>2. Power(HalfBase, 0 + 1) = Power(HalfBase, 0) * HalfBase
        /\ Power(HalfBase, 1 + 1) = Power(HalfBase, 1) * HalfBase
    BY <2>1
  <2>3. 0 + 1 = 1 /\ 1 + 1 = 2
    OBVIOUS
  <2>. QED
    BY <1>8, <2>1, <2>2, <2>3
<1>10. Base = Power(ByteBase, LimbBytes)
  BY <1>2, <1>5, <1>7
<1>11. Base = Power(HalfBase, 2)
  BY <1>3, <1>6, <1>7
<1>. QED
  BY <1>1, <1>8, <1>9, <1>10, <1>11

\* Digits in a base of which the limbs are powers stand for the number.
LEMMA PartsAmountTo ==
    ASSUME NEW n \in Nat, n < WordCount, NEW b \in Nat \ {0}, NEW c \in Nat, Base = Power(b, c),
           NEW s, \A k \in 1 .. Limbs * c : s[k] = (n \div Power(b, k - 1)) % b
    PROVE  Amount(s, b, Limbs * c) = n
<1>1. Limbs \in Nat /\ Limbs * c \in Nat /\ c * Limbs = Limbs * c
  BY PrimeIs
<1>2. Amount(s, b, Limbs * c) = n % Power(b, Limbs * c)
  BY <1>1, DigitsAmountTo
<1>3. Power(Power(b, c), Limbs) = Power(b, c * Limbs)
  BY <1>1, PowerMultiplies
<1>4. Power(b, Limbs * c) = WordCount
  BY <1>1, <1>3 DEF WordCount
<1>5. n % WordCount = n
  BY FieldWords, SmallNumber
<1>. QED
  BY <1>2, <1>4, <1>5

\* The halves of the limbs are those that the kernel takes them for (msl_u256).
LEMMA MslU256Is ==
    ASSUME NEW n \in Nat, n < WordCount
    PROVE  ValueOf(MslU256(FromNat(n)), HalfBase) = n
<1>. DEFINE a == FromNat(n)
            h == HalfBase
            s == MslU256(a)
            l == Limbs
<1>1. l \in Nat \ {0} /\ l \in Nat /\ h \in Nat \ {0} /\ h \in Nat /\ Base = Power(h, 2)
      /\ Base = h * h
  BY PrimeIs, LimbPartsAre
<1>2. Power(h, 0) = 1 /\ Power(h, 1) = h
  <2>1. Power(h, 0) = 1 /\ \A i \in Nat : Power(h, i + 1) = Power(h, i) * h
    BY <1>1, PowerIs
  <2>2. Power(h, 0 + 1) = Power(h, 0) * h /\ 0 + 1 = 1
    BY <2>1
  <2>. QED
    BY <1>1, <2>1, <2>2
<1>3. a \in Words
  BY FromNatIs
<1>4. ASSUME NEW k \in 1 .. l * 2 PROVE s[k] = (n \div Power(h, k - 1)) % h
  <2>. DEFINE q == (k - 1) \div 2
              r == (k - 1) % 2
              limb == a[q + 1]
  <2>1. k \in 1 .. l * 2 /\ k \in 1 .. 2 * l /\ 2 \in Nat \ {0} /\ k \in Nat
    BY <1>1
  <2>2. q + 1 \in Index /\ (limb \div Power(h, r)) % h = (n \div Power(h, k - 1)) % h
    BY <1>1, <2>1, DigitsOfLimbs
  <2>3. q \in Int /\ (r = 0 \/ r = 1) /\ k - 1 = 2 * q + r
    BY <2>1
  <2>4. s[k] = IF k % 2 = 1 THEN a[(k + 1) \div 2] % h ELSE a[k \div 2] \div h
    BY <2>1 DEF MslU256
  <2>5. limb \in 0 .. Base - 1
    BY <1>3, <2>2 DEF Words
  <2>. HIDE DEF limb, a, h, s
  <2>6. CASE r = 0
    <3>1. k % 2 = 1 /\ (k + 1) \div 2 = q + 1
      BY <2>1, <2>3, <2>6
    <3>2. limb \div 1 = limb
      BY <2>5, <1>1
    <3>. HIDE DEF r, q
    <3>3. s[k] = limb % h
      BY <2>4, <3>1 DEF limb
    <3>. QED
      BY <1>2, <2>2, <2>6, <3>2, <3>3
  <2>7. CASE r = 1
    <3>1. k % 2 = 0 /\ k \div 2 = q + 1
      BY <2>1, <2>3, <2>7
    <3>. HIDE DEF r, q
    <3>2. s[k] = limb \div h
      BY <2>4, <3>1 DEF limb
    <3>3. limb \div h \in 0 .. h - 1
      <4>. DEFINE u == limb \div h
                  v == limb % h
      <4>1. limb \in Nat
        BY <1>1, <2>5
      <4>2. u \in Nat /\ v \in 0 .. h - 1 /\ limb = u * h + v
        BY <1>1, <4>1, Divides
      <4>. HIDE DEF u, v
      <4>3. u < h
        <5>. SUFFICES ASSUME h <= u PROVE FALSE
          BY <1>1, <4>2
        <5>1. h * h <= u * h
          BY <1>1, <4>2, FactorsAreOrdered
        <5>. DEFINE x == h * h
                    y == u * h
        <5>2. x \in Nat /\ y \in Nat /\ x <= y /\ limb = y + v /\ limb < x
          BY <1>1, <2>5, <4>2, <5>1
        <5>. HIDE DEF x, y
        <5>. QED
          BY <4>2, <5>2
      <4>. QED
        BY <1>1, <4>2, <4>3 DEF u
    <3>4. (limb \div h) % h = limb \div h
      BY <1>1, <3>3, SmallNumber
    <3>. QED
      BY <1>2, <2>2, <2>7, <3>2, <3>4
  <2>. QED
    BY <2>3, <2>6, <2>7
<1>5. Len(s) = l * 2 /\ l * 2 \in Nat
  <2>1. 2 * l \in Nat /\ 2 * l = l * 2
    BY <1>1
  <2>. QED
    BY <2>1 DEF MslU256
<1>. HIDE DEF s, h, a, l
<1>6. \A k \in 1 .. l * 2 : s[k] \in Int
  <2>1. \A x \in Int : x % h \in Int
    BY <1>1, DividesInt
  <2>2. ASSUME NEW k \in 1 .. l * 2 PROVE n \div Power(h, k - 1) \in Int
    <3>1. k - 1 \in Nat /\ 0 \in Nat /\ 0 <= k - 1
      OBVIOUS
    <3>2. Power(h, k - 1) \in Nat /\ Power(h, 0) <= Power(h, k - 1)
      BY <1>1, <3>1, PowerIs, PowerGrows
    <3>. DEFINE q == Power(h, k - 1)
    <3>3. q \in Nat \ {0}
      BY <1>2, <3>2
    <3>. HIDE DEF q
    <3>4. n \div q \in Int
      BY <3>3
    <3>. QED
      BY <3>4 DEF q
  <2>. QED
    BY <1>4, <2>1, <2>2
<1>7. ValueOf(s, h) = Amount(s, h, l * 2)
  BY <1>1, <1>5, <1>6, ValueIs
<1>8. Amount(s, h, l * 2) = n
  <2>1. 2 \in Nat
    OBVIOUS
  <2>. QED
    BY <1>1, <1>4, <2>1, PartsAmountTo DEF l
<1>. QED
  BY <1>7, <1>8 DEF s, h, a

\* The bytes of a number, the most significant one first.
BytesOf(n) ==
    [j \in 1 .. Limbs * LimbBytes |-> (n \div Power(ByteBase, Limbs * LimbBytes - j)) % ByteBase]

\* They are a sequence of bytes.
LEMMA BytesAre ==
    ASSUME NEW n \in Nat
    PROVE  /\ Limbs * LimbBytes \in Nat \ {0}
           /\ BytesOf(n) \in Seq(0 .. ByteBase - 1) /\ Len(BytesOf(n)) = Limbs * LimbBytes
           /\ \A e \in Nat : Power(ByteBase, e) \in Nat \ {0} /\ n \div Power(ByteBase, e) \in Nat
<1>. DEFINE b == ByteBase
            all == Limbs * LimbBytes
            S == 0 .. b - 1
            s == BytesOf(n)
<1>1. b \in Nat \ {0} /\ all \in Nat \ {0}
  <2>1. Limbs \in Nat \ {0} /\ LimbBytes \in Nat \ {0}
    BY PrimeIs, LimbPartsAre
  <2>2. Limbs * LimbBytes \in Nat \ {0}
    BY <2>1, FactorsAreOrdered
  <2>. QED
    BY <2>2, LimbPartsAre
<1>2. s = [j \in 1 .. all |-> (n \div Power(b, all - j)) % b]
  BY DEF BytesOf
<1>3. \A e \in Nat : Power(b, e) \in Nat \ {0} /\ n \div Power(b, e) \in Nat
  <2>. SUFFICES ASSUME NEW e \in Nat PROVE Power(b, e) \in Nat \ {0} /\ n \div Power(b, e) \in Nat
    OBVIOUS
  <2>. HIDE DEF b
  <2>1. Power(b, 0) = 1 /\ Power(b, e) \in Nat /\ Power(b, 0) <= Power(b, e)
    <3>1. 0 \in Nat /\ 0 <= e
      OBVIOUS
    <3>. QED
      BY <1>1, <3>1, PowerIs, PowerGrows
  <2>. DEFINE p == Power(b, e)
  <2>2. p \in Nat \ {0}
    BY <2>1
  <2>. HIDE DEF p
  <2>3. n \div p \in Nat
    BY <2>2, Divides, Zenon
  <2>. QED
    BY <2>2, <2>3 DEF p
<1>. HIDE DEF b, all, s
<1>4. \A j \in 1 .. all : (n \div Power(b, all - j)) % b \in S
  <2>. SUFFICES ASSUME NEW j \in 1 .. all PROVE (n \div Power(b, all - j)) % b \in S
    OBVIOUS
  <2>1. all - j \in Nat
    BY <1>1
  <2>. DEFINE x == n \div Power(b, all - j)
  <2>2. x \in Nat
    BY <1>3, <2>1
  <2>. HIDE DEF x
  <2>3. x % b \in S
    BY <1>1, <2>2, Divides
  <2>. QED
    BY <2>3 DEF x
<1>. HIDE DEF S
<1>5. s \in [1 .. all -> S]
  BY <1>2, <1>4
<1>6. s \in Seq(S) /\ Len(s) = all
  BY <1>1, <1>5
<1>. QED
  BY <1>1, <1>3, <1>6 DEF b, all, s, S

\* The bytes of a word are those of the number that it stands for (to_be_bytes).
LEMMA ToBeBytesIs ==
    ASSUME NEW n \in Nat
    PROVE  ToBeBytes(FromNat(n)) = BytesOf(n)
<1>. DEFINE a == FromNat(n)
            b == ByteBase
            c == LimbBytes
            all == Limbs * LimbBytes
            S == 0 .. b - 1
            s == BytesOf(n)
            cut == [i \in 0 .. Limbs |-> i * c]
            Part(i) == SubSeq(s, cut[i - 1] + 1, cut[i])
            l == Limbs
<1>1. /\ b \in Nat \ {0} /\ c \in Nat \ {0} /\ c \in Nat /\ Base = Power(b, c)
      /\ l \in Nat \ {0} /\ l \in Nat /\ a \in Words
  BY PrimeIs, LimbPartsAre, FromNatIs
<1>2. all \in Nat \ {0} /\ s \in Seq(S) /\ Len(s) = all /\ all = l * c
  BY BytesAre
<1>3. \A j \in 1 .. all : s[j] = (n \div Power(b, all - j)) % b
  BY DEF BytesOf
<1>. HIDE DEF s, a, b, all
<1>4. \A i \in 0 .. l : i * c \in 0 .. all /\ i * c \in Nat
  <2>. SUFFICES ASSUME NEW i \in 0 .. l PROVE i * c \in 0 .. all /\ i * c \in Nat
    OBVIOUS
  <2>1. i \in Nat /\ i <= l
    BY <1>1
  <2>2. i * c <= l * c
    BY <1>1, <2>1, FactorsAreOrdered
  <2>3. i * c \in Nat
    BY <1>1, <2>1
  <2>. QED
    BY <1>2, <2>2, <2>3
<1>5. \A i \in 1 .. l : i - 1 \in 0 .. l /\ i \in 0 .. l /\ (i - 1) * c + c = i * c
                        /\ i - 1 \in Nat
  BY <1>1
<1>6. ASSUME NEW i \in 1 .. l PROVE Part(i) = BytesOfLimb(a[l - i + 1])
  <2>. DEFINE lo == (i - 1) * c
              hi == i * c
              limb == a[l - i + 1]
              t == [k \in 1 .. c |-> (limb \div Power(b, c - k)) % b]
  <2>1. lo \in Nat /\ hi \in Nat /\ hi = lo + c /\ hi <= all /\ cut[i - 1] = lo /\ cut[i] = hi
    BY <1>4, <1>5
  <2>2. BytesOfLimb(limb) = t
    BY DEF BytesOfLimb, b
  <2>3. ASSUME NEW k \in 1 .. c PROVE s[lo + k] = t[k]
    <3>. DEFINE u == (l - i) * c + (c - k)
                j == u + 1
                q == l - i
                r == c - k
    <3>1. q \in Nat /\ q \in Int /\ q <= l - 1 /\ r \in 0 .. c - 1 /\ r \in Nat
      BY <1>1
    <3>2. all = u + (lo + k) /\ u \in Nat /\ lo + k \in 1 .. all
      <4>1. l * c = (l - i) * c + (i - 1) * c + c
        BY <1>1
      <4>2. (l - i) * c \in Nat
        BY <1>1, <3>1
      <4>. DEFINE x == (l - i) * c
                  y == l * c
      <4>3. x \in Nat /\ y = x + lo + c /\ y = all /\ u = x + (c - k)
        BY <1>2, <4>1, <4>2
      <4>. HIDE DEF x, y, lo, hi, u
      <4>. QED
        BY <1>1, <2>1, <4>3
    <3>3. u \div c = q /\ u % c = r
      <4>1. (q * c + r) \div c = q /\ (q * c + r) % c = r
        <5>. HIDE DEF q, r
        <5>. QED
          BY <1>1, <3>1, QuotientOfInt, RemainderOfInt, Zenon
      <4>. QED
        BY <4>1
    <3>. HIDE DEF u, lo, hi
    <3>4. j \in 1 .. l * c /\ j - 1 = u
      BY <1>2, <2>1, <3>2
    <3>. HIDE DEF j
    <3>5. (a[(j - 1) \div c + 1] \div Power(b, (j - 1) % c)) % b = (n \div Power(b, j - 1)) % b
      BY <1>1, <3>4, DigitsOfLimbs DEF a, l
    <3>. DEFINE d == (n \div Power(b, u)) % b
    <3>6. (a[q + 1] \div Power(b, r)) % b = d
      <4>. HIDE DEF q, r
      <4>. QED
        BY <3>3, <3>4, <3>5
    <3>. HIDE DEF d
    <3>7. t[k] = d
      BY <3>6
    <3>8. s[lo + k] = d
      <4>1. all - (lo + k) = u
        BY <1>2, <2>1, <3>2
      <4>2. s[lo + k] = (n \div Power(b, all - (lo + k))) % b
        BY <1>3, <3>2
      <4>. QED
        BY <4>1, <4>2 DEF d
    <3>. QED
      BY <3>7, <3>8
  <2>. HIDE DEF t, lo, hi
  <2>4. SubSeq(s, lo + 1, hi) \in Seq(S) /\ Len(SubSeq(s, lo + 1, hi)) = c
        /\ \A k \in 1 .. c : SubSeq(s, lo + 1, hi)[k] = s[lo + k]
    <3>. DEFINE m == lo + 1
                v == SubSeq(s, m, hi)
    <3>1. m \in Int /\ hi \in Int /\ hi - m + 1 = c /\ m <= hi
          /\ \A k \in 1 .. c : k \in 1 .. hi - m + 1 /\ m + k - 1 = lo + k
      BY <1>1, <2>1
    <3>2. \A k \in m .. hi : s[k] \in S
      <4>1. \A k \in m .. hi : k \in 1 .. all
        BY <1>2, <2>1
      <4>. HIDE DEF m, S
      <4>. QED
        BY <1>2, <4>1, ElementOfSeq
    <3>. HIDE DEF m, S
    <3>3. v \in Seq(S) /\ Len(v) = (IF m <= hi THEN hi - m + 1 ELSE 0)
          /\ \A k \in 1 .. hi - m + 1 : v[k] = s[m + k - 1]
      BY <3>1, <3>2, SubSeqProperties
    <3>. HIDE DEF v
    <3>4. \A k \in 1 .. c : v[k] = s[lo + k]
      BY <3>1, <3>3
    <3>. QED
      BY <3>1, <3>3, <3>4 DEF v, m
  <2>5. t \in Seq(S) /\ Len(t) = c
    <3>. DEFINE v == SubSeq(s, lo + 1, hi)
    <3>1. \A k \in 1 .. c : v[k] \in S
      <4>. HIDE DEF v, S
      <4>. QED
        BY <2>4, ElementOfSeq DEF v
    <3>2. \A k \in 1 .. c : t[k] \in S
      <4>. HIDE DEF S
      <4>. QED
        BY <2>3, <2>4, <3>1
    <3>3. t = [k \in 1 .. c |-> t[k]]
      BY DEF t
    <3>. HIDE DEF S
    <3>4. t \in [1 .. c -> S]
      BY <3>2, <3>3
    <3>. QED
      BY <1>1, <3>4
  <2>6. SubSeq(s, lo + 1, hi) = t
    <3>. HIDE DEF S
    <3>. QED
      BY <2>3, <2>4, <2>5, SeqEqual
  <2>. QED
    BY <2>1, <2>2, <2>6
<1>7. cut \in [0 .. l -> 0 .. Len(s)] /\ cut[0] = 0 /\ cut[l] = Len(s)
      /\ \A i \in 1 .. l : cut[i - 1] <= cut[i]
  <2>1. \A i \in 0 .. l : cut[i] = i * c
    OBVIOUS
  <2>2. cut \in [0 .. l -> 0 .. Len(s)]
    BY <1>2, <1>4
  <2>3. cut[0] = 0 /\ cut[l] = Len(s)
    BY <1>1, <1>2, <2>1
  <2>4. \A i \in 1 .. l : (i - 1) * c \in Nat /\ i * c = (i - 1) * c + c
    BY <1>4, <1>5
  <2>5. \A i \in 1 .. l : cut[i - 1] = (i - 1) * c /\ cut[i] = i * c
    BY <1>5, <2>1
  <2>6. ASSUME NEW i \in 1 .. l PROVE cut[i - 1] <= cut[i]
    <3>. DEFINE x == (i - 1) * c
                y == i * c
    <3>1. x \in Nat /\ y = x + c /\ cut[i - 1] = x /\ cut[i] = y
      BY <2>4, <2>5
    <3>. HIDE DEF x, y, cut
    <3>. QED
      BY <1>1, <3>1
  <2>. QED
    BY <2>2, <2>3, <2>6
<1>8. ToBeBytes(a) = FlattenSeq([i \in 1 .. l |-> Part(i)])
  <2>1. ToBeBytes(a) = FlattenSeq([i \in 1 .. l |-> BytesOfLimb(a[l - i + 1])])
    BY DEF ToBeBytes, Index
  <2>. HIDE DEF Part, l
  <2>2. [i \in 1 .. l |-> BytesOfLimb(a[l - i + 1])] = [i \in 1 .. l |-> Part(i)]
    BY <1>6
  <2>. QED
    BY <2>1, <2>2
<1>. HIDE DEF cut, S
<1>9. FlattenSeq([i \in 1 .. l |-> Part(i)]) = s
  BY <1>1, <1>2, <1>7, FlattenIs
<1>. QED
  BY <1>8, <1>9 DEF s, a

\* From the last byte back to the first they are the digits of the number.
LEMMA ReversedBytes ==
    ASSUME NEW n \in Nat
    PROVE  /\ Reverse(BytesOf(n)) \in Seq(0 .. ByteBase - 1)
           /\ Len(Reverse(BytesOf(n))) = Limbs * LimbBytes
           /\ \A j \in 1 .. Limbs * LimbBytes :
                Reverse(BytesOf(n))[j] = (n \div Power(ByteBase, j - 1)) % ByteBase
<1>. DEFINE b == ByteBase
            all == Limbs * LimbBytes
            s == BytesOf(n)
            S == 0 .. b - 1
            t == Reverse(s)
<1>1. all \in Nat \ {0} /\ s \in Seq(S) /\ Len(s) = all
  BY BytesAre
<1>2. \A j \in 1 .. all : s[j] = (n \div Power(b, all - j)) % b
  BY DEF BytesOf
<1>3. t = [j \in 1 .. Len(s) |-> s[(Len(s) - j) + 1]]
  BY DEF Reverse
<1>. HIDE DEF all, b, s, t, S
<1>4. \A j \in 1 .. all : (all - j) + 1 \in 1 .. all /\ all - ((all - j) + 1) = j - 1
  BY <1>1
<1>5. \A j \in 1 .. all : s[(all - j) + 1] \in S
  BY <1>1, <1>4, ElementOfSeq
<1>6. t \in [1 .. all -> S]
  BY <1>1, <1>3, <1>5
<1>7. t \in Seq(S) /\ Len(t) = all
  BY <1>1, <1>6
<1>8. \A j \in 1 .. all : t[j] = (n \div Power(b, j - 1)) % b
  <2>. SUFFICES ASSUME NEW j \in 1 .. all PROVE t[j] = (n \div Power(b, j - 1)) % b
    OBVIOUS
  <2>. DEFINE i == (all - j) + 1
  <2>1. i \in 1 .. all /\ all - i = j - 1
    BY <1>4
  <2>2. t[j] = s[i]
    BY <1>1, <1>3
  <2>. HIDE DEF i
  <2>3. s[i] = (n \div Power(b, all - i)) % b
    BY <1>2, <2>1
  <2>. QED
    BY <2>1, <2>2, <2>3
<1>. QED
  BY <1>7, <1>8 DEF all, b, s, t, S

\* The bytes stand for the number that they were made of.
LEMMA BytesAmountTo ==
    ASSUME NEW n \in Nat, n < WordCount
    PROVE  ValueOf(Reverse(ToBeBytes(FromNat(n))), ByteBase) = n
<1>. DEFINE b == ByteBase
            c == LimbBytes
            all == Limbs * c
            t == Reverse(BytesOf(n))
<1>1. ToBeBytes(FromNat(n)) = BytesOf(n)
  BY ToBeBytesIs
<1>2. all \in Nat /\ t \in Seq(0 .. b - 1) /\ Len(t) = all
      /\ \A j \in 1 .. all : t[j] = (n \div Power(b, j - 1)) % b
  BY ReversedBytes, BytesAre
<1>3. b \in Nat \ {0} /\ c \in Nat /\ Base = Power(b, c)
  BY LimbPartsAre
<1>. HIDE DEF t, b, c
<1>4. Amount(t, b, all) = n
  BY <1>2, <1>3, PartsAmountTo
<1>5. \A j \in 1 .. all : t[j] \in Int
  <2>. DEFINE S == 0 .. b - 1
  <2>1. \A x \in S : x \in Int
    OBVIOUS
  <2>2. t \in Seq(S)
    BY <1>2
  <2>. HIDE DEF S, all
  <2>. QED
    BY <1>2, <2>1, <2>2, ElementOfSeq
<1>. HIDE DEF all
<1>6. ValueOf(t, b) = n
  BY <1>2, <1>3, <1>4, <1>5, ValueIs
<1>. QED
  BY <1>1, <1>6 DEF t, b

\* A word is read back from its bytes (from_be_bytes after to_be_bytes).
LEMMA FromBeBytesIs ==
    ASSUME NEW n \in Nat
    PROVE  FromBeBytes(ToBeBytes(FromNat(n))) = FromNat(n)
<1>. DEFINE b == ByteBase
            c == LimbBytes
            l == Limbs
            all == l * c
            s == BytesOf(n)
            S == 0 .. b - 1
            a == FromNat(n)
            From(i) == (l - i) * c
            Piece(i) == SubSeq(s, From(i) + 1, (l - i + 1) * c)
<1>1. /\ b \in Nat \ {0} /\ c \in Nat \ {0} /\ c \in Nat /\ Base = Power(b, c)
      /\ l \in Nat \ {0} /\ a \in Words /\ Base \in Nat \ {0}
  BY PrimeIs, LimbPartsAre, FromNatIs
<1>2. ToBeBytes(a) = s
  BY ToBeBytesIs
<1>3. all \in Nat \ {0} /\ s \in Seq(S) /\ Len(s) = all
      /\ \A j \in 1 .. all : s[j] = (n \div Power(b, all - j)) % b
  BY BytesAre DEF BytesOf
<1>4. FromBeBytes(s) = [i \in 1 .. l |-> ValueOf(Reverse(Piece(i)), b)]
  BY DEF FromBeBytes, Index
<1>. HIDE DEF s, a, b
<1>5. ASSUME NEW i \in 1 .. l PROVE ValueOf(Reverse(Piece(i)), b) = a[i]
  <2>. DEFINE lo == From(i)
              hi == (l - i + 1) * c
              m == lo + 1
              v == Piece(i)
              t == Reverse(v)
              e == (i - 1) * c
              w == n \div Power(b, e)
  <2>1. lo \in Nat /\ hi \in Nat /\ e \in Nat /\ hi = lo + c /\ hi + e = all /\ i - 1 \in Nat
    <3>1. l - i \in Nat /\ i - 1 \in Nat
      BY <1>1
    <3>2. (l - i) * c \in Nat /\ (i - 1) * c \in Nat
      BY <1>1, <3>1
    <3>3. (l - i + 1) * c = (l - i) * c + c /\ l * c = (l - i) * c + c + (i - 1) * c
      BY <1>1
    <3>. DEFINE x == (l - i) * c
                y == (i - 1) * c
                z == (l - i + 1) * c
    <3>4. x \in Nat /\ y \in Nat /\ z = x + c /\ all = x + c + y
      BY <3>2, <3>3
    <3>. HIDE DEF x, y, z, all
    <3>5. z \in Nat /\ z + y = all
      BY <1>1, <3>4
    <3>. QED
      BY <3>1, <3>4, <3>5 DEF x, y, z
  <2>2. v = SubSeq(s, m, hi)
    OBVIOUS
  <2>. HIDE DEF v, lo, hi, e, all
  <2>3. m \in Int /\ hi \in Int /\ hi - m + 1 = c /\ m <= hi
        /\ \A k \in 1 .. c : k \in 1 .. hi - m + 1 /\ m + k - 1 = lo + k /\ lo + k \in 1 .. all
    BY <1>1, <1>3, <2>1
  <2>4. \A k \in m .. hi : s[k] \in S
    <3>1. \A k \in m .. hi : k \in 1 .. all
      BY <1>3, <2>1
    <3>. HIDE DEF m, S
    <3>. QED
      BY <1>3, <3>1, ElementOfSeq
  <2>. HIDE DEF m, S
  <2>5. v \in Seq(S) /\ Len(v) = (IF m <= hi THEN hi - m + 1 ELSE 0)
        /\ \A k \in 1 .. hi - m + 1 : v[k] = s[m + k - 1]
    BY <2>2, <2>3, <2>4, SubSeqProperties
  <2>6. Len(v) = c /\ \A k \in 1 .. c : v[k] = s[lo + k]
    BY <2>3, <2>5
  <2>7. t = [k \in 1 .. c |-> v[(c - k) + 1]]
    BY <2>6 DEF Reverse
  <2>. HIDE DEF t
  <2>8. \A k \in 1 .. c : (c - k) + 1 \in 1 .. c
    BY <1>1
  <2>9. t \in [1 .. c -> S]
    <3>1. \A k \in 1 .. c : v[k] \in S
      BY <2>5, <2>6, ElementOfSeq
    <3>. QED
      BY <2>7, <2>8, <3>1
  <2>10. Len(t) = c
    BY <1>1, <2>9
  <2>11. Power(b, e) \in Nat \ {0} /\ w \in Nat
    BY <2>1, BytesAre DEF b
  <2>. HIDE DEF w
  <2>12. \A k \in 1 .. c : t[k] = (w \div Power(b, k - 1)) % b
    <3>. SUFFICES ASSUME NEW k \in 1 .. c PROVE t[k] = (w \div Power(b, k - 1)) % b
      OBVIOUS
    <3>. DEFINE j == (c - k) + 1
                f == k - 1
                p == Power(b, e)
                q == Power(b, f)
    <3>1. j \in 1 .. c /\ f \in Nat
      BY <1>1, <2>8
    <3>2. lo + j \in 1 .. all /\ all - (lo + j) = e + f
      BY <1>1, <1>3, <2>1
    <3>3. t[k] = s[lo + j]
      BY <2>6, <2>7, <3>1
    <3>. HIDE DEF j, f
    <3>4. s[lo + j] = (n \div Power(b, e + f)) % b
      <4>1. s[lo + j] = (n \div Power(b, all - (lo + j))) % b
        BY <1>3, <3>2
      <4>. QED
        BY <3>2, <4>1
    <3>5. p \in Nat \ {0} /\ q \in Nat \ {0}
      BY <2>1, <3>1, BytesAre DEF b
    <3>6. Power(b, e + f) = p * q
      BY <1>1, <2>1, <3>1, PowerAdds
    <3>7. w = n \div p
      BY DEF w
    <3>. HIDE DEF p, q
    <3>8. (n \div p) \div q = n \div (p * q)
      BY <3>5, QuotientTwice
    <3>9. w \div q = n \div Power(b, e + f)
      BY <3>6, <3>7, <3>8
    <3>10. t[k] = (w \div q) % b
      BY <3>3, <3>4, <3>9
    <3>. QED
      BY <3>10 DEF q, f
  <2>13. \A k \in 1 .. c : t[k] \in Int
    <3>1. \A x \in S : x \in Int
      BY DEF S
    <3>. QED
      BY <2>9, <3>1
  <2>14. ValueOf(t, b) = Amount(t, b, c)
    BY <1>1, <2>10, <2>13, ValueIs
  <2>15. Amount(t, b, c) = w % Power(b, c)
    BY <1>1, <2>11, <2>12, DigitsAmountTo
  <2>16. a[i] = (n \div Power(Base, i - 1)) % Base
    BY LimbsAre DEF a, l, Index
  <2>17. Power(Base, i - 1) = Power(b, e)
    BY <1>1, <2>1, PowerMultiplies DEF e
  <2>. QED
    BY <1>1, <2>14, <2>15, <2>16, <2>17 DEF w, t, v
<1>6. a = [i \in 1 .. l |-> a[i]]
  BY <1>1 DEF Words, Index
<1>. HIDE DEF Piece
<1>7. FromBeBytes(s) = a
  BY <1>4, <1>5, <1>6
<1>. QED
  BY <1>2, <1>7 DEF a

-----------------------------------------------------------------------------
(* The field is the one that the limbs stand for *)

\* Sums, differences and products of words are those of the elements.
LEMMA WordsCompute ==
    ASSUME NEW m \in Element, NEW n \in Element
    PROVE  /\ ToNat(FieldAdd(FromNat(m), FromNat(n))) = Plus(m, n)
           /\ ToNat(FieldSub(FromNat(m), FromNat(n))) = Minus(m, n)
           /\ ToNat(FieldMul(FromNat(m), FromNat(n))) = Times(m, n)
<1>1. \A k \in Element : FromNat(k) \in Words /\ ToNat(FromNat(k)) = k /\ k \in Nat /\ k < Prime
  BY FieldWords
<1>2. Plus(m, n) \in Element /\ Minus(m, n) \in Element /\ Times(m, n) \in Element
  <2>1. m \in Int /\ n \in Int /\ Prime \in Nat \ {0}
    BY <1>1, FieldWords
  <2>2. m + n \in Int /\ m - n \in Int /\ m * n \in Int
    BY <2>1
  <2>3. (m + n) % Prime \in 0 .. Prime - 1 /\ (m - n) % Prime \in 0 .. Prime - 1
        /\ (m * n) % Prime \in 0 .. Prime - 1
    BY <2>1, <2>2, DividesInt
  <2>. QED
    BY <2>3 DEF Plus, Minus, Times, Element
<1>3. FieldAdd(FromNat(m), FromNat(n)) = FromNat(Plus(m, n))
  BY FieldAddIs
<1>4. FieldMul(FromNat(m), FromNat(n)) = FromNat(Times(m, n))
  BY FieldMulIs
<1>5. FieldSub(FromNat(m), FromNat(n)) = FromNat(Minus(m, n))
  <2>. DEFINE a == FromNat(m)
              b == FromNat(n)
  <2>1. a \in Words /\ ToNat(a) = m /\ m \in Nat /\ m < Prime
    BY <1>1
  <2>2. b \in Words /\ ToNat(b) = n
    BY <1>1
  <2>. HIDE DEF a, b
  <2>3. FieldSub(a, b) = FromNat((ToNat(a) - ToNat(b)) % Prime)
    BY <2>1, <2>2, FieldWords, FieldSubIs
  <2>. QED
    BY <2>1, <2>2, <2>3 DEF a, b, Minus
<1>. QED
  BY <1>1, <1>2, <1>3, <1>4, <1>5

\* An element and its negation, and its inverse, in words.
LEMMA WordsInvert ==
    ASSUME NEW n \in Element \ {0}
    PROVE  /\ FieldAdd(FromNat(n), FieldNeg(FromNat(n))) = Zero
           /\ ToNat(FieldInv(FromNat(n))) = Inverted(n)
<1>1. \A k \in Element : FromNat(k) \in Words /\ ToNat(FromNat(k)) = k /\ k \in Nat /\ k < Prime
  BY FieldWords
<1>2. FieldNeg(FromNat(n)) = FromNat(Prime - n)
  BY FieldNegIs
<1>3. Prime - n \in Element /\ n \in Nat /\ Prime \in Nat \ {0}
  BY <1>1, FieldWords DEF Element
<1>4. FieldAdd(FromNat(n), FromNat(Prime - n)) = FromNat(Plus(n, Prime - n))
  BY <1>3, FieldAddIs
<1>5. Plus(n, Prime - n) = 0
  <2>1. n + (Prime - n) = Prime /\ Prime % Prime = 0
    BY <1>3
  <2>. QED
    BY <2>1 DEF Plus
<1>6. Inverted(n) \in Element /\ FieldInv(FromNat(n)) = FromNat(Inverted(n))
  BY FieldInvIs, InverseIs
<1>. QED
  BY <1>1, <1>2, <1>4, <1>5, <1>6 DEF Zero

\* A number of twice the limbs is reduced to the element that it leaves.
LEMMA WordsReduce ==
    ASSUME NEW r \in [1 .. 2 * Limbs -> 0 .. Base - 1]
    PROVE  ToNat(Reduce512(r)) = ValueOf(r, Base) % Prime
<1>. DEFINE n == 2 * Limbs
            S == 0 .. Base - 1
            v == Amount(r, Base, n)
<1>1. n \in Nat /\ Base \in Nat
  BY PrimeIs
<1>2. (\A i \in 1 .. n : r[i] \in S) /\ \A x \in S : x \in Int
  OBVIOUS
<1>3. \A i \in 1 .. n : r[i] \in Int
  <2>. HIDE DEF S, n
  <2>. QED
    BY <1>2
<1>4. Len(r) = n
  <2>. HIDE DEF n
  <2>. QED
    BY <1>1 DEF n
<1>5. Reduce512(r) = FromNat(v % Prime)
  BY <1>2, Reduce512Is
<1>. HIDE DEF n
<1>6. ValueOf(r, Base) = v /\ ValueOf(r, Base) \in Int
  BY <1>1, <1>3, <1>4, ValueIs
<1>. HIDE DEF v
<1>7. v % Prime \in Element
  BY <1>6, FieldWords, DividesInt DEF Element
<1>. QED
  BY <1>5, <1>6, <1>7, FieldWords

\* An element survives the way through bytes, and through halves of limbs.
LEMMA WordsTravel ==
    ASSUME NEW n \in Element
    PROVE  /\ FromBeBytes(ToBeBytes(FromNat(n))) = FromNat(n)
           /\ ValueOf(Reverse(ToBeBytes(FromNat(n))), ByteBase) = n
           /\ ValueOf(MslU256(FromNat(n)), HalfBase) = n
<1>1. n \in Nat /\ n < WordCount
  BY FieldWords
<1>. QED
  BY <1>1, FromBeBytesIs, BytesAmountTo, MslU256Is

\* The words compute in the field: the reduction of a double-width number, the five
\* operations, and the conversions to bytes and to the GPU's limbs and back
\* (crypto/u256.rs), for every number of limbs, every width and every prime of that form.
THEOREM FieldIsExactAlways ==
    FieldIsExact
<1>1. \A r \in [1 .. 2 * Limbs -> 0 .. Base - 1] :
        ToNat(Reduce512(r)) = ValueOf(r, Base) % Prime
  BY WordsReduce
<1>2. \A m, n \in 0 .. Prime - 1 :
        /\ ToNat(FieldAdd(FromNat(m), FromNat(n))) = Plus(m, n)
        /\ ToNat(FieldSub(FromNat(m), FromNat(n))) = Minus(m, n)
        /\ ToNat(FieldMul(FromNat(m), FromNat(n))) = Times(m, n)
  BY WordsCompute DEF Element
<1>3. \A n \in 1 .. Prime - 1 :
        /\ FieldAdd(FromNat(n), FieldNeg(FromNat(n))) = Zero
        /\ ToNat(FieldInv(FromNat(n))) = Inverted(n)
        /\ FromBeBytes(ToBeBytes(FromNat(n))) = FromNat(n)
        /\ ValueOf(Reverse(ToBeBytes(FromNat(n))), ByteBase) = n
        /\ ValueOf(MslU256(FromNat(n)), HalfBase) = n
  <2>. SUFFICES ASSUME NEW n \in 1 .. Prime - 1
                PROVE  /\ FieldAdd(FromNat(n), FieldNeg(FromNat(n))) = Zero
                       /\ ToNat(FieldInv(FromNat(n))) = Inverted(n)
                       /\ FromBeBytes(ToBeBytes(FromNat(n))) = FromNat(n)
                       /\ ValueOf(Reverse(ToBeBytes(FromNat(n))), ByteBase) = n
                       /\ ValueOf(MslU256(FromNat(n)), HalfBase) = n
    OBVIOUS
  <2>1. n \in Element \ {0}
    BY FieldWords DEF Element
  <2>. QED
    BY <2>1, WordsInvert, WordsTravel
<1>. QED
  BY <1>1, <1>2, <1>3 DEF FieldIsExact

-----------------------------------------------------------------------------
(* The points are on the curve *)

\* A point of the curve, by its coordinates.
OnCurve(x, y) == El(y * y) = El(x * x * x + 7)

\* What the slope of a chord, or of a tangent, has to do with the points that it is of.
SlopeRest(l, x1, y1, x2) == x2 * x2 + x2 * x1 + x1 * x1 - l * (l * (x2 - x1) + 2 * y1)

\* The cubic less the square of the line, at two places.
LineCuts(l, x1, y1, x2) ==
    (x2 * x2 * x2 + 7) - (l * (x2 - x1) + y1) * (l * (x2 - x1) + y1)
      = ((x1 * x1 * x1 + 7) - y1 * y1) + (x2 - x1) * SlopeRest(l, x1, y1, x2)

\* Multiples of what vanishes vanish.
LEMMA ElVanishes ==
    ASSUME NEW a \in Int, NEW b \in Int, NEW c \in Int, El(a) = 0, El(b) = 0
    PROVE  El(a + c * b) = 0
<1>1. El(c) \in Element /\ c * b \in Int
  BY ElIs
<1>2. Times(El(c), 0) = 0 /\ 0 \in Element
  BY <1>1, TimesIs
<1>3. El(c * b) = 0
  BY <1>2, ElIs
<1>4. El(a + c * b) = Plus(El(a), El(c * b))
  <2>. DEFINE d == c * b
  <2>1. d \in Int
    BY <1>1
  <2>. HIDE DEF d
  <2>2. El(a + d) = Plus(El(a), El(d))
    BY <2>1, ElIs
  <2>. QED
    BY <2>2 DEF d
<1>5. Plus(0, 0) = El(0 + 0) /\ El(0) = 0
  <2>1. El(0) = 0
    BY <1>2, ElIs
  <2>2. Plus(El(0), El(0)) = El(0 + 0)
    BY ElIs
  <2>. QED
    BY <2>1, <2>2
<1>. QED
  BY <1>3, <1>4, <1>5

\* The cubic, less the square of the line through a point, has the point as a root.
LEMMA LineMeetsCubic ==
    ASSUME NEW l \in Int, NEW x1 \in Int, NEW y1 \in Int, NEW x2 \in Int
    PROVE  LineCuts(l, x1, y1, x2)
BY DEF SlopeRest, LineCuts

\* The third point of the line has the same rest as the second.
LEMMA ThirdRest ==
    ASSUME NEW l \in Int, NEW x1 \in Int, NEW y1 \in Int, NEW x2 \in Int
    PROVE  SlopeRest(l, x1, y1, ThirdX(l, x1, x2)) = SlopeRest(l, x1, y1, x2)
BY DEF SlopeRest, ThirdX

\* The rest vanishes for the slope of two points of the curve, or of the tangent to one.
LEMMA RestVanishes ==
    ASSUME NEW x1 \in Element, NEW y1 \in Element, NEW x2 \in Element, NEW y2 \in Element,
           OnCurve(x1, y1), OnCurve(x2, y2), NEW l \in Int,
           x1 # x2 => El(l * (x2 - x1)) = El(y2 - y1),
           x1 = x2 => El(l * (2 * y1)) = El(3 * x1 * x1)
    PROVE  El(SlopeRest(l, x1, y1, x2)) = 0
<1>. DEFINE g == SlopeRest(l, x1, y1, x2)
<1>1. x1 \in Int /\ y1 \in Int /\ x2 \in Int /\ y2 \in Int
      /\ El(x1) = x1 /\ El(x2) = x2 /\ El(y1) = y1 /\ El(y2) = y2
  BY ElementIs
<1>2. g \in Int
  BY <1>1 DEF SlopeRest
<1>3. CASE x1 = x2
  <2>. DEFINE a == 3 * x1 * x1
              b == l * (2 * y1)
  <2>1. a \in Int /\ b \in Int
    BY <1>1
  <2>2. g = a - b
    BY <1>1, <1>3 DEF SlopeRest
  <2>3. El(a) = El(b)
    BY <1>3
  <2>. HIDE DEF a, b, g
  <2>4. El(a - b) = 0
    BY <2>1, <2>3, ElZero
  <2>. QED
    BY <2>2, <2>4 DEF g
<1>4. CASE x1 # x2
  <2>. DEFINE d == x2 - x1
              u == l * d + y1
              f1 == (x1 * x1 * x1 + 7) - y1 * y1
              f2 == (x2 * x2 * x2 + 7) - u * u
  <2>1. d \in Int /\ l * d \in Int /\ u \in Int
    BY <1>1
  <2>2. El(d) # 0
    <3>1. El(x2 - x1) = 0 <=> El(x2) = El(x1)
      BY <1>1, ElZero
    <3>. QED
      BY <1>1, <1>4, <3>1
  <2>3. El(u) = El(y2)
    <3>. DEFINE m == l * d
                e == y2 - y1
    <3>1. m \in Int /\ e \in Int /\ El(m) = El(e)
      BY <1>1, <1>4, <2>1
    <3>2. u = y1 + m /\ y2 = y1 + e
      BY <1>1, <2>1
    <3>. HIDE DEF m, e
    <3>3. y1 \in Int
      BY <1>1
    <3>4. El(y1 + m) = El(y1 + e)
      BY <3>1, <3>3, ElSame
    <3>. QED
      BY <3>2, <3>4
  <2>4. El(f1) = 0
    <3>. DEFINE a == x1 * x1 * x1 + 7
                b == y1 * y1
    <3>1. a \in Int /\ b \in Int /\ El(a) = El(b)
      BY <1>1 DEF OnCurve
    <3>2. f1 = a - b
      OBVIOUS
    <3>. HIDE DEF a, b
    <3>3. El(a - b) = 0
      BY <3>1, ElZero
    <3>. QED
      BY <3>2, <3>3
  <2>. HIDE DEF u
  <2>5. El(f2) = 0
    <3>. DEFINE a == x2 * x2 * x2 + 7
                b == u * u
    <3>1. El(u * u) = El(y2 * y2)
      <4>1. Times(El(u), El(u)) = El(u * u) /\ Times(El(y2), El(y2)) = El(y2 * y2)
        BY <1>1, <2>1, ElIs
      <4>. QED
        BY <2>3, <4>1
    <3>2. a \in Int /\ b \in Int /\ El(a) = El(b)
      BY <1>1, <2>1, <3>1 DEF OnCurve
    <3>3. f2 = a - b
      OBVIOUS
    <3>. HIDE DEF a, b
    <3>4. El(a - b) = 0
      BY <3>2, ElZero
    <3>. QED
      BY <3>3, <3>4
  <2>6. f2 = f1 + d * g
    BY <1>1, LineMeetsCubic DEF u, LineCuts
  <2>7. f1 \in Int /\ f2 \in Int
    BY <1>1, <2>1
  <2>. HIDE DEF f1, f2, g, d
  <2>8. El(g * d) = 0
    <3>. DEFINE minus == -1
    <3>0. minus \in Int /\ minus * f1 = -f1
      BY <2>7
    <3>. HIDE DEF minus
    <3>1. El(f2 + minus * f1) = 0
      BY <2>4, <2>5, <2>7, <3>0, ElVanishes
    <3>. DEFINE p == d * g
                q == g * d
    <3>2. p \in Int /\ q = p
      BY <1>2, <2>1
    <3>. HIDE DEF p, q
    <3>3. f2 + minus * f1 = p
      BY <2>6, <2>7, <3>0, <3>2 DEF p
    <3>. QED
      BY <3>1, <3>2, <3>3 DEF q
  <2>9. El(g) # 0 => El(g * d) # 0
    BY <1>2, <2>1, <2>2, ElProduct
  <2>. QED
    BY <2>8, <2>9 DEF g
<1>. QED
  BY <1>3, <1>4

\* The sum of two points of the curve is on it.
LEMMA ThirdIsOnCurve ==
    ASSUME NEW x1 \in Element, NEW y1 \in Element, NEW x2 \in Element, NEW y2 \in Element,
           OnCurve(x1, y1), OnCurve(x2, y2), NEW l \in Int,
           x1 # x2 => El(l * (x2 - x1)) = El(y2 - y1),
           x1 = x2 => El(l * (2 * y1)) = El(3 * x1 * x1),
           NEW X, X = ThirdX(l, x1, x2), NEW Y, Y = ThirdY(l, x1, y1, X)
    PROVE  X \in Int /\ Y \in Int /\ OnCurve(X, Y)
<1>. DEFINE g == SlopeRest(l, x1, y1, x2)
            a == X * X * X + 7
            b == Y * Y
            f1 == (x1 * x1 * x1 + 7) - y1 * y1
<1>1. x1 \in Int /\ y1 \in Int /\ x2 \in Int /\ y2 \in Int
  BY ElementIs
<1>2. X \in Int
  BY <1>1 DEF ThirdX
<1>3. Y \in Int /\ Y = l * (x1 - X) - y1
  BY <1>1, <1>2 DEF ThirdY
<1>4. g \in Int /\ El(g) = 0
  <2>1. g \in Int
    BY <1>1 DEF SlopeRest
  <2>. QED
    BY <2>1, RestVanishes
<1>5. SlopeRest(l, x1, y1, X) = g
  BY <1>1, ThirdRest
<1>6. a - b = f1 + (X - x1) * g
  <2>. DEFINE v == l * (X - x1) + y1
              c == X * X * X + 7
              h == (X - x1) * g
  <2>1. c - v * v = f1 + (X - x1) * SlopeRest(l, x1, y1, X)
    <3>1. l \in Int /\ x1 \in Int /\ y1 \in Int
      BY <1>1
    <3>. HIDE DEF g
    <3>2. LineCuts(l, x1, y1, X)
      BY <1>2, <3>1, LineMeetsCubic
    <3>. QED
      BY <3>2, Zenon DEF LineCuts
  <2>2. v * v = Y * Y
    <3>1. v = -Y /\ v \in Int
      BY <1>1, <1>2, <1>3
    <3>. HIDE DEF v
    <3>. QED
      BY <1>3, <3>1
  <2>3. (X - x1) * SlopeRest(l, x1, y1, X) = h
    BY <1>5
  <2>. HIDE DEF v, g
  <2>. QED
    BY <2>1, <2>2, <2>3
<1>7. El(f1) = 0
  <2>. DEFINE m == x1 * x1 * x1 + 7
              n == y1 * y1
  <2>1. m \in Int /\ n \in Int /\ El(m) = El(n)
    BY <1>1 DEF OnCurve
  <2>2. f1 = m - n
    OBVIOUS
  <2>. HIDE DEF m, n
  <2>3. El(m - n) = 0
    BY <2>1, ElZero
  <2>. QED
    BY <2>2, <2>3
<1>8. f1 \in Int /\ X - x1 \in Int /\ a \in Int /\ b \in Int
  BY <1>1, <1>2, <1>3
<1>. HIDE DEF f1, g
<1>9. El(f1 + (X - x1) * g) = 0
  <2>. DEFINE c == X - x1
  <2>1. c \in Int
    BY <1>8
  <2>. HIDE DEF c
  <2>2. f1 \in Int
    BY <1>8
  <2>3. El(f1 + c * g) = 0
    BY <1>4, <1>7, <2>1, <2>2, ElVanishes
  <2>. QED
    BY <2>3 DEF c
<1>. HIDE DEF a, b
<1>10. El(a) = El(b)
  BY <1>6, <1>8, <1>9, ElZero
<1>. QED
  BY <1>2, <1>3, <1>10 DEF OnCurve, a, b

\* What is_valid says of a finite point.
LEMMA ValidIs ==
    ASSUME NEW X \in Int, NEW Y \in Int
    PROVE  IsValid256(Affine(El(X), El(Y))) <=> OnCurve(X, Y)
<1>. DEFINE p == Affine(El(X), El(Y))
            x == El(X)
            y == El(Y)
<1>1. p.x = x /\ p.y = y /\ p.infinity = FALSE
  BY DEF Affine
<1>2. Squared(x) = El(X * X) /\ Squared(y) = El(Y * Y) /\ X * X \in Int /\ X * X * X \in Int
  BY ElTwice
<1>3. Times(El(X * X), x) = El(X * X * X)
  <2>. DEFINE q == X * X
  <2>1. q \in Int
    BY <1>2
  <2>. HIDE DEF q
  <2>2. Times(El(q), El(X)) = El(q * X)
    BY <2>1, ElIs
  <2>. QED
    BY <2>2 DEF q
<1>4. Plus(El(X * X * X), 7) = El(X * X * X + 7)
  <2>. DEFINE q == X * X * X
  <2>1. q \in Int
    BY <1>2
  <2>2. 7 \in Element /\ 7 \in Int
    BY FieldWords DEF Element
  <2>3. El(7) = 7
    BY <2>2, ElIs
  <2>. HIDE DEF q
  <2>4. Plus(El(q), El(7)) = El(q + 7)
    BY <2>1, ElIs
  <2>. QED
    BY <2>3, <2>4 DEF q
<1>. DEFINE left == El(Y * Y)
            right == El(X * X * X + 7)
<1>5. Squared(p.y) = left /\ Plus(Times(Squared(p.x), p.x), 7) = right
  BY <1>1, <1>2, <1>3, <1>4
<1>6. OnCurve(X, Y) <=> left = right
  BY DEF OnCurve
<1>. HIDE DEF p, left, right
<1>. QED
  BY <1>1, <1>5, <1>6, Zenon DEF IsValid256, p

\* Adding points of the curve does not leave it.
LEMMA SumIsValid ==
    ASSUME NEW a \in CurvePoints, NEW b \in CurvePoints, IsValid256(a), IsValid256(b)
    PROVE  IsValid256(SumOf(a, b))
<1>1. IsValid256(InfinityAffine)
  BY DEF IsValid256, InfinityAffine
<1>2. CASE a = InfinityAffine \/ b = InfinityAffine
  BY <1>2, SumIsPoint
<1>3. CASE a # InfinityAffine /\ b # InfinityAffine
  <2>1. \E x, y \in Element : a = Affine(x, y) /\ a.x = x /\ a.y = y /\ a.infinity = FALSE
    BY <1>3, PointIs
  <2>2. \E x, y \in Element : b = Affine(x, y) /\ b.x = x /\ b.y = y /\ b.infinity = FALSE
    BY <1>3, PointIs
  <2>3. PICK x1 \in Element, y1 \in Element :
          a = Affine(x1, y1) /\ a.x = x1 /\ a.y = y1 /\ a.infinity = FALSE
    BY <2>1
  <2>4. PICK x2 \in Element, y2 \in Element :
          b = Affine(x2, y2) /\ b.x = x2 /\ b.y = y2 /\ b.infinity = FALSE
    BY <2>2
  <2>5. OnCurve(x1, y1) /\ OnCurve(x2, y2)
    <3>1. x1 \in Int /\ y1 \in Int /\ El(x1) = x1 /\ El(y1) = y1
      BY ElementIs
    <3>2. x2 \in Int /\ y2 \in Int /\ El(x2) = x2 /\ El(y2) = y2
      BY ElementIs
    <3>3. IsValid256(Affine(El(x1), El(y1))) <=> OnCurve(x1, y1)
      BY <3>1, ValidIs
    <3>4. IsValid256(Affine(El(x2), El(y2))) <=> OnCurve(x2, y2)
      BY <3>2, ValidIs
    <3>5. IsValid256(Affine(x1, y1)) /\ IsValid256(Affine(x2, y2))
      BY <2>3, <2>4
    <3>. QED
      BY <3>1, <3>2, <3>3, <3>4, <3>5
  <2>6. CASE x1 = x2 => y1 = y2 /\ y1 # 0
    <3>1. PICK l \in Int :
             /\ x1 # x2 => El(l * (x2 - x1)) = El(y2 - y1)
             /\ x1 = x2 => El(l * (2 * y1)) = El(3 * x1 * x1)
             /\ SumOf(Affine(x1, y1), Affine(x2, y2))
                  = Affine(El(ThirdX(l, x1, x2)), El(ThirdY(l, x1, y1, ThirdX(l, x1, x2))))
      BY <2>6, SumIs
    <3>. DEFINE X == ThirdX(l, x1, x2)
                Y == ThirdY(l, x1, y1, X)
    <3>2. X \in Int /\ Y \in Int /\ OnCurve(X, Y)
      BY <2>5, <3>1, ThirdIsOnCurve
    <3>. HIDE DEF Y
    <3>3. IsValid256(Affine(El(X), El(Y)))
      BY <3>2, ValidIs
    <3>. QED
      BY <2>3, <2>4, <3>1, <3>3 DEF Y
  <2>7. CASE ~(x1 = x2 => y1 = y2 /\ y1 # 0)
    <3>1. a.x = b.x /\ (a.y # b.y \/ a.y = 0)
      BY <2>3, <2>4, <2>7
    <3>2. SumOf(a, b) = InfinityAffine
      BY <2>3, <2>4, <3>1, Zenon DEF SumOf
    <3>. QED
      BY <1>1, <3>2
  <2>. QED
    BY <2>6, <2>7
<1>. QED
  BY <1>2, <1>3

\* Every multiple of the generator is on the curve.
LEMMA MultiplesAreValid ==
    \A k \in Numbers : IsValid256(Multiple[k])
<1>. DEFINE last == CurveOrder - 1
            T == {k \in 0 .. last : IsValid256(Multiple[k])}
<1>1. last \in Nat /\ Numbers = 0 .. last
  BY OrderIs DEF Numbers
<1>2. 0 \in T
  <2>1. IsValid256(InfinityAffine)
    BY DEF IsValid256, InfinityAffine
  <2>2. Multiple[0] = InfinityAffine /\ 0 \in 0 .. last
    BY <1>1, MultipleIs
  <2>. QED
    BY <2>1, <2>2
<1>3. ASSUME NEW i \in 1 .. last, i - 1 \in T PROVE i \in T
  <2>1. i \in Numbers \ {0} /\ i - 1 \in Numbers
    BY <1>1
  <2>2. Multiple[i] = SumOf(Multiple[i - 1], G) /\ Multiple[i - 1] \in CurvePoints
        /\ G \in CurvePoints
    BY <2>1, MultipleUnfolds, MultipleIs
  <2>3. IsValid256(Multiple[i - 1]) /\ IsValid256(G)
    BY <1>3, GeneratorAssumption
  <2>4. IsValid256(Multiple[i])
    BY <2>2, <2>3, SumIsValid
  <2>. QED
    BY <1>1, <2>1, <2>4
<1>. HIDE DEF T, last
<1>4. \A i \in 0 .. last : i \in T
  BY <1>1, <1>2, <1>3, InductionTo
<1>. QED
  BY <1>1, <1>4 DEF T

-----------------------------------------------------------------------------
(* The scan of the CPU and the self-tests *)

\* The keys of the range are numbers that have a point, and its blocks lie in it.
LEMMA KeysAreNumbers ==
    /\ \A k \in Keys : k \in Nat /\ k \in Numbers /\ RangeMin <= k /\ k <= RangeMax
    /\ \A k \in RangeMin .. RangeMax : k \in Keys
    /\ RangeMin \in Nat /\ RangeMax \in Nat /\ BlockSize \in Nat \ {0}
    /\ BlockStart(0) = RangeMin /\ BlockStart(1) = RangeMin + BlockSize
    /\ RangeMin + BlockSize - 1 <= RangeMax
<1>1. /\ RangeMin \in Nat /\ BlockSize \in Nat \ {0} /\ RangeMin > 0 /\ RangeMax < CurveOrder
      /\ CurveOrder \in Nat /\ TotalBlocks \in Nat \ {0}
  BY SearchAssumption, FilterAssumption DEF TotalBlocks
<1>2. TotalBlocks * BlockSize \in Nat /\ 1 * BlockSize <= TotalBlocks * BlockSize
  BY <1>1, FactorsAreOrdered
<1>3. RangeMax = RangeMin + TotalBlocks * BlockSize - 1
  BY DEF RangeMax
<1>. DEFINE all == TotalBlocks * BlockSize
<1>4. all \in Nat /\ BlockSize <= all /\ RangeMax = RangeMin + all - 1
  BY <1>1, <1>2, <1>3
<1>. HIDE DEF all
<1>5. RangeMax \in Nat /\ RangeMin + BlockSize - 1 <= RangeMax
  BY <1>1, <1>4
<1>6. BlockStart(0) = RangeMin /\ BlockStart(1) = RangeMin + BlockSize
  BY <1>1 DEF BlockStart
<1>. QED
  BY <1>1, <1>5, <1>6 DEF Keys, Numbers

\* What is compared for a key (Hash160FromPubkey33 of its compressed point).
LEMMA HashesAre ==
    ASSUME NEW k \in Numbers
    PROVE  /\ HashOf[PublicKeyOf[k]] = Hash160FromPubkey33(ToCompressed(PublicKeyOf[k]))
           /\ PrivkeyToAddress(k).hash160 = HashOf[PublicKeyOf[k]]
<1>1. PublicKeyOf[k] \in Points /\ ScalarMulG(FromNat(k)) = PublicKeyOf[k]
  BY PublicKeysAre DEF Points
<1>2. HashOf[PublicKeyOf[k]] = Hash160FromPubkey33(ToCompressed(PublicKeyOf[k]))
  BY <1>1 DEF HashOf
<1>3. PrivkeyToAddress(k).hash160 = Hash160FromPubkey33(ToCompressed(PublicKeyOf[k]))
  BY <1>1 DEF PrivkeyToAddress, PubkeyToAddress
<1>. QED
  BY <1>2, <1>3

\* The scan comes to the points of the keys, one after the other.
LEMMA ScannedPointsAre ==
    ASSUME NEW first \in Numbers, NEW count \in Nat \ {0}, first + count <= CurveOrder
    PROVE  LET points == Walk256(ToJacobian(ScalarMulG(FromNat(first))), G, count)
           IN  /\ DOMAIN points = 1 .. count
               /\ \A i \in 1 .. count : /\ first + i - 1 \in Numbers
                                        /\ ToAffine(points[i]) = PublicKeyOf[first + i - 1]
<1>. DEFINE points == Walk256(ToJacobian(ScalarMulG(FromNat(first))), G, count)
            walk == Walk256(ToJacobian(PublicKeyOf[first]), Multiple[1 % CurveOrder], count)
<1>1. points = walk
  <2>1. ScalarMulG(FromNat(first)) = PublicKeyOf[first]
    BY PublicKeysAre
  <2>2. 1 % CurveOrder = 1 /\ Multiple[1] = G
    BY OrderIs, MultipleIs
  <2>. QED
    BY <2>1, <2>2
<1>. HIDE DEF points
<1>2. /\ walk \in Seq(JacobianPoints) /\ Len(walk) = count
      /\ [i \in 1 .. count |-> ToAffine(walk[i])]
           = [i \in 1 .. count |-> PublicKeyOf[(first + (i - 1) * 1) % CurveOrder]]
  BY WalkedPointsAre
<1>. HIDE DEF walk
<1>3. DOMAIN walk = 1 .. count
  BY <1>2
<1>4. ASSUME NEW i \in 1 .. count
      PROVE  /\ first + i - 1 \in Numbers
             /\ ToAffine(walk[i]) = PublicKeyOf[first + i - 1]
  <2>. DEFINE n == first + i - 1
  <2>1. n \in Numbers /\ first + (i - 1) * 1 = n
    BY OrderIs DEF Numbers
  <2>2. n % CurveOrder = n
    BY <2>1, OrderIs
  <2>3. ToAffine(walk[i]) = PublicKeyOf[(first + (i - 1) * 1) % CurveOrder]
    BY <1>2
  <2>. HIDE DEF n
  <2>. QED
    BY <2>1, <2>2, <2>3 DEF n
<1>. QED
  BY <1>1, <1>3, <1>4 DEF points

\* The scan finds the key whose hash it was told, wherever it is in the part that is
\* scanned (cpu_incremental_scan).
LEMMA ScanIs ==
    ASSUME HashesAreApart, NEW first \in Keys, NEW last \in Keys, NEW secret \in first .. last
    PROVE  CpuIncrementalScan(first, last, HashOf[PublicKeyOf[secret]]) = secret
<1>. DEFINE count == last - first + 1
            points == Walk256(ToJacobian(ScalarMulG(FromNat(first))), G, count)
            hash == HashOf[PublicKeyOf[secret]]
            place == secret - first + 1
            hits == {n \in DOMAIN points :
                       Hash160FromPubkey33(ToCompressed(ToAffine(points[n]))) = hash}
<1>1. /\ first \in Nat /\ last \in Nat /\ secret \in Nat /\ first \in Numbers
      /\ first <= secret /\ secret <= last
      /\ secret \in Keys /\ last < CurveOrder /\ CurveOrder \in Nat
  <2>1. first \in Nat /\ first \in Numbers /\ RangeMin <= first
    BY KeysAreNumbers
  <2>2. last \in Nat /\ last \in Numbers /\ last <= RangeMax
    BY KeysAreNumbers
  <2>3. secret \in RangeMin .. RangeMax
    BY <2>1, <2>2, KeysAreNumbers
  <2>4. secret \in Keys /\ secret \in Nat
    BY <2>3, KeysAreNumbers
  <2>5. CurveOrder \in Nat /\ last < CurveOrder
    BY <2>2, OrderIs DEF Numbers
  <2>. QED
    BY <2>1, <2>2, <2>4, <2>5
<1>2. count \in Nat \ {0} /\ first + count <= CurveOrder /\ place \in 1 .. count
  BY <1>1
<1>3. /\ DOMAIN points = 1 .. count
      /\ \A i \in 1 .. count : /\ first + i - 1 \in Numbers
                               /\ ToAffine(points[i]) = PublicKeyOf[first + i - 1]
  <2>. HIDE DEF count
  <2>. QED
    BY <1>1, <1>2, ScannedPointsAre
<1>4. ASSUME NEW n \in 1 .. count
      PROVE  Hash160FromPubkey33(ToCompressed(ToAffine(points[n]))) = hash <=> n = place
  <2>. DEFINE k == first + n - 1
  <2>1. k \in Keys /\ (n = place <=> k = secret)
    <3>1. k \in RangeMin .. RangeMax
      BY <1>1, KeysAreNumbers
    <3>. QED
      BY <1>1, <3>1, KeysAreNumbers
  <2>2. ToAffine(points[n]) = PublicKeyOf[k] /\ k \in Numbers
    BY <1>3
  <2>. HIDE DEF k, points
  <2>3. HashOf[PublicKeyOf[k]] = Hash160FromPubkey33(ToCompressed(PublicKeyOf[k]))
    BY <2>2, HashesAre
  <2>4. HashOf[PublicKeyOf[k]] = HashOf[PublicKeyOf[secret]] => k = secret
    BY <1>1, <2>1 DEF HashesAreApart
  <2>. HIDE DEF place
  <2>. QED
    BY <2>1, <2>2, <2>3, <2>4
<1>. HIDE DEF count, points, hash, place
<1>5. hits = {place}
  BY <1>2, <1>3, <1>4
<1>. HIDE DEF hits
<1>6. Min(hits) = place
  <2>1. place \in Nat
    BY <1>1 DEF place
  <2>. QED
    BY <1>5, <2>1 DEF Min
<1>7. CpuIncrementalScan(first, last, hash) = first + place - 1
  <2>1. CpuIncrementalScan(first, last, hash)
          = IF hits = {} THEN None ELSE first + Min(hits) - 1
    BY DEF CpuIncrementalScan, hits, points, count
  <2>. QED
    BY <1>5, <1>6, <2>1
<1>8. first + place - 1 = secret
  BY <1>1 DEF place
<1>. QED
  BY <1>7, <1>8 DEF hash

\* The points are the multiples of the generator and on the curve, and the scan of the
\* CPU finds each key of the first block (derive_pubkey, is_valid, cpu_incremental_scan).
THEOREM CurveIsExactAlways ==
    ASSUME HashesAreApart
    PROVE  CurveIsExact
<1>1. \A k \in Numbers : PublicKeyOf[k] = Multiple[k] /\ IsValid256(PublicKeyOf[k])
  BY PublicKeysAre, MultiplesAreValid
<1>2. ASSUME NEW k \in KeysOf(0, BlockSize)
      PROVE  CpuIncrementalScan(BlockStart(0), BlockStart(0) + BlockSize - 1,
                                HashOf[PublicKeyOf[k]]) = k
  <2>. DEFINE first == BlockStart(0)
              last == BlockStart(0) + BlockSize - 1
  <2>1. first = RangeMin /\ last = RangeMin + BlockSize - 1
    BY KeysAreNumbers
  <2>2. first \in RangeMin .. RangeMax /\ last \in RangeMin .. RangeMax
    BY <2>1, KeysAreNumbers
  <2>3. first \in Keys /\ last \in Keys /\ k \in first .. last
    BY <2>2, KeysAreNumbers DEF KeysOf
  <2>. HIDE DEF first, last
  <2>4. CpuIncrementalScan(first, last, HashOf[PublicKeyOf[k]]) = k
    BY <2>3, ScanIs
  <2>. QED
    BY <2>4 DEF first, last
<1>. QED
  BY <1>1, <1>2 DEF CurveIsExact

\* The self-test of the CPU passes (run_mini_puzzle_test).
LEMMA CpuTestIsPassed ==
    ASSUME HashesAreApart
    PROVE  CpuTestPasses
<1>. DEFINE first == BlockStart(0)
            last == BlockStart(1) - 1
            secret == BlockStart(1) - 2
<1>1. MaxSteps \in Nat /\ MaxSteps > 1 /\ BlockSize > MaxSteps
  <2>1. MaxThreads \in Nat /\ MaxSteps \in Nat /\ MaxThreads > 1 /\ MaxSteps > 1
    BY SearchAssumption, TestAssumption
  <2>2. MaxThreads * MaxSteps \in Nat /\ 1 * MaxSteps <= MaxThreads * MaxSteps
    BY <2>1, FactorsAreOrdered
  <2>. DEFINE all == MaxThreads * MaxSteps
  <2>3. 0 \in 0 .. all - 1
    BY <2>1, <2>2
  <2>. HIDE DEF all
  <2>4. BlockStart(1) - (MaxSteps + 1) + 0 \in Keys
    BY <2>3, TestAssumption DEF all
  <2>5. RangeMin <= BlockStart(1) - (MaxSteps + 1) + 0
    BY <2>4, KeysAreNumbers
  <2>. QED
    BY <2>1, <2>5, KeysAreNumbers
<1>2. first = RangeMin /\ last = RangeMin + BlockSize - 1 /\ secret \in first .. last
  BY <1>1, KeysAreNumbers
<1>3. first \in RangeMin .. RangeMax /\ last \in RangeMin .. RangeMax
      /\ secret \in RangeMin .. RangeMax
  BY <1>2, KeysAreNumbers
<1>4. first \in Keys /\ last \in Keys /\ secret \in Numbers
  BY <1>3, KeysAreNumbers
<1>. HIDE DEF first, last, secret
<1>5. PrivkeyToAddress(secret).hash160 = HashOf[PublicKeyOf[secret]]
  BY <1>4, HashesAre
<1>6. CpuIncrementalScan(first, last, HashOf[PublicKeyOf[secret]]) = secret
  BY <1>2, <1>4, ScanIs
<1>7. RunMiniPuzzleTest(secret, first, last)
  BY <1>5, <1>6, Zenon DEF RunMiniPuzzleTest
<1>. QED
  BY <1>7 DEF CpuTestPasses, first, last, secret

\* The point at a place of a grid is that of the key that the place stands for.
LEMMA PlaceIs ==
    ASSUME NEW d, d.start \in Numbers, d.threads \in 1 .. MaxThreads, d.steps \in 1 .. MaxSteps,
           NEW t \in 0 .. d.threads - 1, NEW s \in 0 .. ThreadKeys(d, t) - 1,
           ThreadKeys(d, t) \in 1 .. d.steps, NEW from \in Numbers, from = d.start + t * d.steps,
           from + s \in Numbers
    PROVE  Candidate(d, t, s) = PublicKeyOf[from + s]
<1>. DEFINE n == ThreadKeys(d, t)
            grid == <<d.threads, d.steps>>
<1>1. n \in 1 .. d.steps /\ s \in 0 .. n - 1
  OBVIOUS
<1>. HIDE DEF n
<1>2. MaxThreads \in Nat /\ MaxSteps \in Nat
  BY SearchAssumption
<1>3. d.threads \in Nat /\ d.steps \in Nat /\ n \in 1 .. MaxSteps /\ t \in Nat
      /\ t + 1 \in 1 .. d.threads /\ (t + 1) - 1 = t
      /\ s \in Nat /\ s + 1 \in 1 .. n
  BY <1>1, <1>2
<1>4. \A k \in Numbers : k % CurveOrder = k /\ k \in Nat
  BY OrderIs
<1>5. InitialPointsOf[d.start][grid][t + 1] = PublicKeyOf[from]
  <2>1. grid \in Grids /\ grid[1] = d.threads /\ grid[2] = d.steps
    BY DEF Grids
  <2>. HIDE DEF grid
  <2>2. InitialPointsOf[d.start][grid]
          = [i \in 1 .. grid[1] |-> PublicKeyOf[(d.start + (i - 1) * grid[2]) % CurveOrder]]
    BY <2>1, InitialPointsAre
  <2>3. InitialPointsOf[d.start][grid][t + 1]
          = PublicKeyOf[(d.start + ((t + 1) - 1) * grid[2]) % CurveOrder]
    BY <1>3, <2>1, <2>2
  <2>4. d.start + ((t + 1) - 1) * grid[2] = from
    BY <1>3, <2>1
  <2>. QED
    BY <1>4, <2>3, <2>4
<1>6. CandidatesOf[PublicKeyOf[from]][n][s + 1] = PublicKeyOf[from + s]
  <2>1. CandidatesOf[PublicKeyOf[from]][n]
          = [i \in 1 .. n |-> PublicKeyOf[(from + i - 1) % CurveOrder]]
    BY <1>3, CandidatesOfAre
  <2>2. CandidatesOf[PublicKeyOf[from]][n][s + 1] = PublicKeyOf[(from + (s + 1) - 1) % CurveOrder]
    BY <1>3, <2>1
  <2>3. from + (s + 1) - 1 = from + s
    BY <1>3, <1>4
  <2>. QED
    BY <1>4, <2>2, <2>3
<1>. QED
  BY <1>5, <1>6 DEF Candidate, n, grid

\* The self-test of the GPU passes: one place of the dispatch, and only that one, is that
\* of the key (MetalSolver::self_test).
LEMMA GpuTestIsPassed ==
    ASSUME HashesAreApart
    PROVE  GpuTestPasses
<1>. DEFINE key == BlockStart(1)
            start == key - (MaxSteps + 1)
            all == MaxThreads * MaxSteps
            d == [start |-> start, threads |-> MaxThreads, steps |-> MaxSteps, valid |-> all]
            places == [thread : 0 .. MaxThreads - 1, step : 0 .. MaxSteps - 1]
            KeyAt(r) == start + r.thread * MaxSteps + r.step
            Hits(r) == HashOf[Candidate(d, r.thread, r.step)] = PrivkeyToAddress(key).hash160
<1>1. MaxThreads \in Nat /\ MaxSteps \in Nat /\ MaxThreads > 1 /\ MaxSteps > 1
  BY SearchAssumption, TestAssumption
<1>2. all \in Nat /\ \A n \in 0 .. all - 1 : start + n \in Keys
  <2>1. all \in Nat
    BY <1>1
  <2>. QED
    BY <2>1, TestAssumption
<1>3. d.start = start /\ d.threads = MaxThreads /\ d.steps = MaxSteps /\ d.valid = all
  OBVIOUS
<1>4. key \in Nat /\ start \in Int /\ key = start + (MaxSteps + 1)
  BY <1>1, KeysAreNumbers
<1>5. \A t \in 0 .. MaxThreads - 1 : /\ t \in Nat /\ t * MaxSteps \in Nat
                                     /\ t * MaxSteps + MaxSteps <= all
  <2>. SUFFICES ASSUME NEW t \in 0 .. MaxThreads - 1
                PROVE  /\ t \in Nat /\ t * MaxSteps \in Nat
                       /\ t * MaxSteps + MaxSteps <= all
    OBVIOUS
  <2>1. t \in Nat /\ t + 1 \in Nat /\ t + 1 <= MaxThreads /\ MaxSteps \in Nat \ {0}
    BY <1>1
  <2>2. (t + 1) * MaxSteps <= MaxThreads * MaxSteps
    BY <1>1, <2>1, FactorsAreOrdered
  <2>3. t * MaxSteps \in Nat /\ (t + 1) * MaxSteps = t * MaxSteps + MaxSteps
    BY <2>1, NextMultiple
  <2>. QED
    BY <2>1, <2>2, <2>3
<1>6. MaxSteps + 1 \in 0 .. all - 1 /\ 1 * MaxSteps = MaxSteps
  <2>1. 1 \in 0 .. MaxThreads - 1 /\ 1 * MaxSteps = MaxSteps
    BY <1>1
  <2>2. 1 * MaxSteps + MaxSteps <= all
    BY <1>5, <2>1
  <2>. HIDE DEF all
  <2>. QED
    BY <1>1, <1>2, <2>1, <2>2
<1>. HIDE DEF all, key, start
<1>7. key \in Keys
  BY <1>2, <1>4, <1>6
<1>. HIDE DEF d
<1>8. ASSUME NEW t \in 0 .. MaxThreads - 1, NEW s \in 0 .. MaxSteps - 1
      PROVE  /\ start + t * MaxSteps + s \in Keys
             /\ Candidate(d, t, s) = PublicKeyOf[start + t * MaxSteps + s]
  <2>. DEFINE first == t * MaxSteps
              from == start + first
  <2>1. first \in Nat /\ first + MaxSteps <= all /\ s \in Nat /\ s < MaxSteps
    BY <1>1, <1>5
  <2>2. ThreadKeys(d, t) = MaxSteps
    <3>1. ThreadKeys(d, t)
            = IF first >= all THEN 0 ELSE Lesser(MaxSteps, all - first)
      BY <1>3 DEF ThreadKeys
    <3>. HIDE DEF first
    <3>. QED
      BY <1>1, <1>2, <2>1, <3>1 DEF Lesser
  <2>. HIDE DEF first
  <2>3. first \in 0 .. all - 1 /\ first + s \in 0 .. all - 1 /\ 0 \in 0 .. all - 1
    BY <1>1, <1>2, <2>1
  <2>4. start + first \in Keys /\ start + (first + s) \in Keys /\ start + 0 \in Keys
    BY <1>2, <2>3
  <2>5. from \in Keys /\ from + s \in Keys /\ start \in Keys /\ start + first + s = from + s
    BY <1>4, <2>1, <2>4
  <2>6. from \in Numbers /\ from + s \in Numbers /\ start \in Numbers
    BY <2>5, KeysAreNumbers
  <2>7. from = d.start + t * d.steps
    BY <1>3 DEF first
  <2>. HIDE DEF from
  <2>8. Candidate(d, t, s) = PublicKeyOf[from + s]
    <3>1. d.start \in Numbers /\ d.threads \in 1 .. MaxThreads /\ d.steps \in 1 .. MaxSteps
      BY <1>1, <1>3, <2>6
    <3>2. t \in 0 .. d.threads - 1 /\ s \in 0 .. ThreadKeys(d, t) - 1
          /\ ThreadKeys(d, t) \in 1 .. d.steps
      BY <1>1, <1>3, <2>2
    <3>. QED
      BY <2>6, <2>7, <3>1, <3>2, PlaceIs
  <2>. QED
    BY <2>5, <2>8 DEF first
<1>9. ASSUME NEW r \in places
      PROVE  /\ r.thread \in 0 .. MaxThreads - 1 /\ r.step \in 0 .. MaxSteps - 1
             /\ FoundKey(d, r) = KeyAt(r)
             /\ Hits(r) <=> KeyAt(r) = key
  <2>. DEFINE t == r.thread
              s == r.step
              k == KeyAt(r)
  <2>1. t \in 0 .. MaxThreads - 1 /\ s \in 0 .. MaxSteps - 1
    OBVIOUS
  <2>2. FoundKey(d, r) = k
    BY <1>3 DEF FoundKey
  <2>3. k \in Keys /\ Candidate(d, t, s) = PublicKeyOf[k]
    BY <1>8, <2>1
  <2>4. PrivkeyToAddress(key).hash160 = HashOf[PublicKeyOf[key]]
    BY <1>7, KeysAreNumbers, HashesAre
  <2>5. HashOf[PublicKeyOf[k]] = HashOf[PublicKeyOf[key]] => k = key
    <3>. HIDE DEF k
    <3>. QED
      BY <1>7, <2>3 DEF HashesAreApart
  <2>6. Hits(r) <=> HashOf[PublicKeyOf[k]] = HashOf[PublicKeyOf[key]]
    <3>. HIDE DEF k
    <3>. QED
      BY <2>3, <2>4
  <2>7. Hits(r) <=> k = key
    <3>. HIDE DEF k, Hits
    <3>. QED
      BY <2>5, <2>6
  <2>. QED
    BY <2>1, <2>2, <2>7
<1>10. \E r \in places : KeyAt(r) = key
  <2>. DEFINE r == [thread |-> 1, step |-> 1]
  <2>1. r \in places
    BY <1>1
  <2>2. KeyAt(r) = key
    BY <1>1, <1>4, <1>6
  <2>. QED
    BY <2>1, <2>2
<1>11. {FoundKey(d, r) : r \in {r \in places : Hits(r)}} = {key}
  <2>. HIDE DEF Hits, places, KeyAt
  <2>. QED
    BY <1>9, <1>10
<1>12. GpuSelfTest(key, MaxSteps + 1)
  BY <1>11 DEF GpuSelfTest, d, start, all
<1>. QED
  BY <1>12 DEF GpuTestPasses, key

=============================================================================
