-------------------------------- MODULE U256 --------------------------------
(***************************************************************************)
(* Integers of a fixed number of limbs, least significant limb first, and  *)
(* the prime field of the curve over them.  In the code there are four     *)
(* limbs of 64 bits and the prime is 2^256 - 0x1000003D1; all that the     *)
(* carries depend on is that the prime is a power of two less a factor     *)
(* that fits a limb, so a few small limbs meet every case.                 *)
(***************************************************************************)
EXTENDS Integers, SequencesExt

CONSTANTS
    Limbs,      \* limbs of an integer
    LimbBits,   \* bits of a limb
    LimbBytes,  \* bytes of a limb
    Factor      \* what the prime lacks to a power of two

\* The n-th power of b, as the recursion that proofs unfold.
Power(b, n) ==
    LET power[i \in 0 .. n] == IF i = 0 THEN 1 ELSE power[i - 1] * b
    IN  power[n]

Base == Power(2, LimbBits)
ByteBase == Power(2, LimbBits \div LimbBytes)
Index == 1 .. Limbs
Words == [Index -> 0 .. Base - 1]

ASSUME LimbAssumption ==
    /\ Limbs \in Nat /\ Limbs > 1
    /\ LimbBits \in Nat \ {0} /\ LimbBits % 2 = 0
    /\ LimbBytes \in Nat \ {0}
    /\ LimbBits % LimbBytes = 0
    /\ Factor \in 1 .. Base - 1

-----------------------------------------------------------------------------
(* Conversions *)

Word(limbs) == SubSeq(limbs, 1, Limbs)
FromNat(n) == Word([i \in Index |-> (n \div Power(Base, i - 1)) % Base])

\* The number that limbs, or bytes, stand for: for properties only.
ValueOf(limbs, base) ==
    LET value[i \in 0 .. Len(limbs)] ==
          IF i = 0 THEN 0 ELSE value[i - 1] * base + limbs[Len(limbs) - i + 1]
    IN  value[Len(limbs)]

ToNat(a) == ValueOf(a, Base)

Prime == Power(Base, Limbs) - Factor
SECP256K1_P == FromNat(Prime)
Zero == FromNat(0)
One == FromNat(1)

\* FAULT: the bytes of a limb keep their order.
BytesOfLittleLimb(limb) ==
    [k \in 1 .. LimbBytes |-> (limb \div Power(ByteBase, k - 1)) % ByteBase]

BytesOfLimb(limb) ==
    [k \in 1 .. LimbBytes |-> (limb \div Power(ByteBase, LimbBytes - k)) % ByteBase]

ToBeBytes(a) == FlattenSeq([i \in Index |-> BytesOfLimb(a[Limbs - i + 1])])

FromBeBytes(bytes) ==
    [i \in Index |->
        ValueOf(Reverse(SubSeq(bytes, (Limbs - i) * LimbBytes + 1, (Limbs - i + 1) * LimbBytes)),
                ByteBase)]

\* The same number in limbs of half the size, for the GPU.
HalfBase == Power(2, LimbBits \div 2)
MslU256(a) ==
    [k \in 1 .. 2 * Limbs |->
        IF k % 2 = 1 THEN a[(k + 1) \div 2] % HalfBase ELSE a[k \div 2] \div HalfBase]

\* The bits, least significant first, as the loops over exponents read them.
BitsOf(a) ==
    [k \in 1 .. Limbs * LimbBits |->
        (a[(k - 1) \div LimbBits + 1] \div Power(2, (k - 1) % LimbBits)) % 2]

IsOdd(a) == a[1] % 2 = 1

-----------------------------------------------------------------------------
(* Limb arithmetic *)

\* Limb by limb, each cut to its width and the rest carried into the next; a
\* borrow is a carry of -1.
Carried(limbs, carry) ==
    LET sum[i \in 0 .. Limbs] ==
          IF i = 0 THEN carry * Base ELSE limbs[i] + sum[i - 1] \div Base
    IN  [limbs |-> Word([i \in Index |-> sum[i] % Base]), carry |-> sum[Limbs] \div Base]

\* The most significant limb that differs decides.
Gte(a, b) ==
    \A i \in Index : a[i] < b[i] => \E j \in i + 1 .. Limbs : a[j] > b[j]

AddCarry(a, b) == Carried([i \in Index |-> a[i] + b[i]], 0)
SubBorrow(a, b) == Carried([i \in Index |-> a[i] - b[i]], 0)

\* One row of the product is added to what the rows before it have left.
PlusRow(r, i, row) ==
    SubSeq(r, 1, i - 1) \o row.limbs \o <<row.carry>> \o SubSeq(r, i + Limbs + 1, 2 * Limbs)

MulWide(a, b) ==
    LET r[i \in 0 .. Limbs] ==
          IF i = 0 THEN FromNat(0) \o FromNat(0)
          ELSE LET prev == r[i - 1]
               IN  PlusRow(prev, i, Carried([j \in Index |-> a[i] * b[j] + prev[i + j - 1]], 0))
    IN  r[Limbs]

-----------------------------------------------------------------------------
(* The field *)

\* FAULT: a sum that has overflowed is not below the prime, whatever its limbs say.
OverflowIgnored(sum) == Gte(sum.limbs, SECP256K1_P)

ExceedsP(sum) == sum.carry # 0 \/ Gte(sum.limbs, SECP256K1_P)

\* A sum of two elements, and a difference, brought back into the field.
ReducedSum(sum) ==
    IF ExceedsP(sum) THEN SubBorrow(sum.limbs, SECP256K1_P).limbs ELSE sum.limbs

ReducedDifference(diff) ==
    IF diff.carry # 0 THEN AddCarry(diff.limbs, SECP256K1_P).limbs ELSE diff.limbs

FieldAdd(a, b) == ReducedSum(AddCarry(a, b))
FieldSub(a, b) == ReducedDifference(SubBorrow(a, b))

FieldNeg(a) == IF a = Zero THEN Zero ELSE FieldSub(SECP256K1_P, a)

SubtractOnce(a) == IF Gte(a, SECP256K1_P) THEN SubBorrow(a, SECP256K1_P).limbs ELSE a

\* At most two subtractions remain.
SubtractP(a) == SubtractOnce(SubtractOnce(a))

\* FAULT: the overflow of the second fold is dropped.
FoldBackOnce(folded) == folded.limbs

\* What still overflows after two folds is folded a third time.
FoldBack(folded) ==
    IF folded.carry # 0
    THEN AddCarry(folded.limbs, [Zero EXCEPT ![1] = (folded.carry * Factor) % Base]).limbs
    ELSE folded.limbs

\* The high half times the factor is added to the low half, and what overflows is
\* folded in once more, then once more.
FoldSum(sum, carry) ==
    Carried([i \in Index |-> sum.limbs[i]], (carry + sum.carry) * Factor)

FoldHigh(r, prod) ==
    FoldSum(Carried([i \in Index |-> r[i] + prod.limbs[i]], 0), prod.carry)

Reduce512(r) ==
    SubtractP(FoldBack(FoldHigh(r, Carried([i \in Index |-> r[Limbs + i] * Factor], 0))))

FieldMul(a, b) == Reduce512(MulWide(a, b))
FieldSquare(a) == FieldMul(a, a)

FieldPow(a, exp) ==
    LET bits == BitsOf(exp)
        base[k \in DOMAIN bits] == IF k = 1 THEN a ELSE FieldSquare(base[k - 1])
        res[k \in 0 .. Len(bits)] ==
          IF k = 0 THEN One
          ELSE IF bits[k] = 1 THEN FieldMul(res[k - 1], base[k]) ELSE res[k - 1]
    IN  res[Len(bits)]

\* Fermat
FieldInv(a) == IF a = Zero THEN Zero ELSE FieldPow(a, SubBorrow(SECP256K1_P, FromNat(2)).limbs)

=============================================================================
