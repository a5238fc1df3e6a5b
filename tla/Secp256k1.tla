------------------------------ MODULE Secp256k1 ------------------------------
(***************************************************************************)
(* The curve y^2 = x^3 + 7, in affine and Jacobian coordinates, and the    *)
(* points that a GPU dispatch starts from.                                 *)
(***************************************************************************)
EXTENDS U256

CONSTANTS
    GenX, GenY      \* GEN_X and GEN_Y, as numbers

-----------------------------------------------------------------------------
(* The field, on numbers: what field_add and its like compute, as U256 does    *)
(* limb by limb.  That the two agree is part of what is checked of U256.       *)

Element == 0 .. Prime - 1

Plus(a, b) == (a + b) % Prime
Minus(a, b) == (a - b) % Prime
Times(a, b) == (a * b) % Prime
Squared(a) == Times(a, a)

\* What makes the numbers modulo the prime a field.
ASSUME FieldAssumption == \A a \in Element \ {0} : \E x \in Element : Times(a, x) = 1

Inverted(a) == IF a = 0 THEN 0 ELSE CHOOSE x \in Element : Times(a, x) = 1

-----------------------------------------------------------------------------
(* Points *)

Affine(x, y) == [x |-> x, y |-> y, infinity |-> FALSE]
G == Affine(GenX, GenY)
InfinityAffine == [x |-> 0, y |-> 0, infinity |-> TRUE]

Jacobian(x, y, z) == [x |-> x, y |-> y, z |-> z, infinity |-> FALSE]
InfinityJacobian == [x |-> 1, y |-> 1, z |-> 0, infinity |-> TRUE]

ToJacobian(p) == IF p.infinity THEN InfinityJacobian ELSE Jacobian(p.x, p.y, 1)

IsValid256(p) ==
    \/ p.infinity
    \/ Squared(p.y) = Plus(Times(Squared(p.x), p.x), 7)

ASSUME GeneratorAssumption == GenX \in Element /\ GenY \in Element /\ IsValid256(G)

\* The integers take at most 32 bytes of eight bits.
ASSUME CompressedAssumption == Limbs * LimbBytes <= 32 /\ ByteBase <= 256

\* The x coordinate takes 32 bytes; shorter integers are led by zeros.
Leading == [i \in 1 .. 32 - Limbs * LimbBytes |-> 0]

ToCompressed(p) ==
    IF p.infinity THEN [i \in 1 .. 33 |-> 0]
    ELSE <<IF IsOdd(FromNat(p.y)) THEN 3 ELSE 2>> \o Leading \o ToBeBytes(FromNat(p.x))

IsFinite(p) == ~p.infinity /\ p.z # 0

\* A Jacobian point whose z has the given inverse.
Scaled(p, zInv) ==
    LET zInv2 == Squared(zInv)
    IN  Affine(Times(p.x, zInv2), Times(p.y, Times(zInv2, zInv)))

ToAffine(p) == IF IsFinite(p) THEN Scaled(p, Inverted(p.z)) ELSE InfinityAffine

-----------------------------------------------------------------------------
Twice(a) == Plus(a, a)
Thrice(a) == Plus(Twice(a), a)

\* The tangent at p has the slope m over 2 * y; s is 4 * x * y^2.
Tangent(p, m, s) ==
    LET x == Minus(Squared(m), Twice(s))
        y == Minus(Times(m, Minus(s, x)), Twice(Twice(Twice(Squared(Squared(p.y))))))
    IN  Jacobian(x, y, Twice(Times(p.y, p.z)))

Double(p) ==
    IF p.infinity \/ p.y = 0 THEN InfinityJacobian
    ELSE Tangent(p, Thrice(Squared(p.x)), Twice(Twice(Times(p.x, Squared(p.y)))))

\* The third point on a chord with the slope r / h, from its powers of h.
OnChord(s1, r, hCub, uhSq, z) ==
    LET x == Minus(Minus(Squared(r), hCub), Twice(uhSq))
    IN  Jacobian(x, Minus(Times(r, Minus(uhSq, x)), Times(s1, hCub)), z)

\* The sum of two points with different x: u and s are the coordinates of either
\* over a common z.
Chord(u1, s1, u2, s2, z) ==
    LET h == Minus(u2, u1)
    IN  OnChord(s1, Minus(s2, s1), Times(Squared(h), h), Times(u1, Squared(h)),
                Times(z, h))

\* FAULT: a point is added to itself as if to another.
FiniteSumNoDouble(p, u1, s1, u2, s2, z) == Chord(u1, s1, u2, s2, z)

FiniteSum(p, u1, s1, u2, s2, z) ==
    IF u1 # u2 THEN Chord(u1, s1, u2, s2, z)
    ELSE IF s1 = s2 THEN Double(p) ELSE InfinityJacobian

AddAffine(p, q) ==
    LET zSq == Squared(p.z)
    IN  IF p.infinity THEN ToJacobian(q)
        ELSE IF q.infinity THEN p
        ELSE FiniteSum(p, p.x, p.y, Times(q.x, zSq), Times(q.y, Times(zSq, p.z)), p.z)

AddJacobian(p, q) ==
    LET pzSq == Squared(p.z)
        qzSq == Squared(q.z)
    IN  IF p.infinity THEN q
        ELSE IF q.infinity THEN p
        ELSE FiniteSum(p, Times(p.x, qzSq), Times(p.y, Times(qzSq, q.z)),
                       Times(q.x, pzSq), Times(q.y, Times(pzSq, p.z)),
                       Times(p.z, q.z))

\* Double and add, from the least significant bit
ScalarMul(p, k) ==
    LET bits == BitsOf(k)
        current[i \in DOMAIN bits] == IF i = 1 THEN ToJacobian(p) ELSE Double(current[i - 1])
        res[i \in 0 .. Len(bits)] ==
          IF i = 0 THEN InfinityJacobian
          ELSE IF bits[i] = 1 THEN AddJacobian(res[i - 1], current[i]) ELSE res[i - 1]
    IN  ToAffine(res[Len(bits)])

ScalarMulG(k) == ScalarMul(G, k)

-----------------------------------------------------------------------------
(* The points of a dispatch *)

\* A first point and its successors at a distance.
Walk256(first, step, count) ==
    LET points[n \in 1 .. count] ==
          IF n = 1 THEN <<first>>
          ELSE LET before == points[n - 1] IN Append(before, AddAffine(Last(before), step))
    IN  points[count]

\* FAULT: a point at infinity takes part in the running product.
FactorOfAny(p) == p.z

\* Points at infinity are left out of the product and do not disturb the others.
FactorOf(p) == IF IsFinite(p) THEN p.z ELSE 1

\* batch_jacobian_to_affine: one inversion for all, by running products from the first
\* point on; the inverse of each is split off from the last point back.
BatchToAffine(ps) ==
    LET running[i \in 0 .. Len(ps)] ==
          IF i = 0 THEN 1 ELSE Times(running[i - 1], FactorOf(ps[i]))
        inv[i \in DOMAIN ps] ==
          IF i = Len(ps) THEN Inverted(running[i])
          ELSE IF IsFinite(ps[i + 1]) THEN Times(inv[i + 1], ps[i + 1].z) ELSE inv[i + 1]
    IN  [i \in DOMAIN ps |->
            IF IsFinite(ps[i]) THEN Scaled(ps[i], Times(inv[i], running[i - 1]))
            ELSE InfinityAffine]

\* precompute_initial_points: thread by thread, the steps of one apart.
InitialPoints(start, threads, steps) ==
    LET delta == ScalarMulG(FromNat(steps))
    IN  BatchToAffine(Walk256(ToJacobian(ScalarMulG(FromNat(start))), delta, threads))

\* The candidates of one thread of the kernel, from its initial point on: up to
\* batch points at a time share one inversion.
Batches(points, batch) ==
    [n \in 1 .. (Len(points) + batch - 1) \div batch |->
        SubSeq(points, (n - 1) * batch + 1,
               IF n * batch < Len(points) THEN n * batch ELSE Len(points))]

Candidates(base, count, batch) ==
    LET batches == Batches(Walk256(ToJacobian(base), G, count), batch)
    IN  FlattenSeq([n \in DOMAIN batches |-> BatchToAffine(batches[n])])

=============================================================================
