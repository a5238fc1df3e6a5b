----------------------------- MODULE BlockSearch -----------------------------
(***************************************************************************)
(* The search of one block after another: DuplicateFilter says which       *)
(* blocks are left, the random numbers or a recheck plan choose one, the   *)
(* GPU compares the hash of every key of it with the target, dispatch by   *)
(* dispatch, and a block whose keys have all been compared is marked.      *)
(*                                                                         *)
(* A dispatch is a grid of threads that compare their candidates in any    *)
(* order.  The points they compare are computed by the arithmetic of       *)
(* Secp256k1 on a small curve, where every key of the range has a point of *)
(* its own, as in the range of the puzzle.                                 *)
(***************************************************************************)
EXTENDS DuplicateFilter, Secp256k1, Address

CONSTANTS
    RangeMin,   \* RANGE_MIN, the first key
    BlockSize,  \* keys of a block
    Profiles,   \* the threads and steps of the power modes
    AffineBatch,\* AFFINE_BATCH_SIZE, points of a thread that share an inversion
    Entropy,    \* the largest random number
    Targets,    \* keys whose hash may be the target
    Watched,    \* archives of the sessions whose search is followed
    CurveOrder, \* the number of points
    MaxThreads, \* of a profile
    MaxSteps,   \* of a profile
    SampleLength\* of the byte strings that AddressIsExact is about

TotalBlocks == MaxBlock + 1
RangeMax == RangeMin + TotalBlocks * BlockSize - 1
Keys == RangeMin .. RangeMax

BlockStart(b) == RangeMin + b * BlockSize
KeysOf(b, n) == BlockStart(b) .. BlockStart(b) + n - 1

Profile == [threads : 1 .. MaxThreads, steps : 1 .. MaxSteps]

ASSUME SearchAssumption ==
    /\ RangeMin \in Nat /\ BlockSize \in Nat \ {0}
    /\ \A p \in Profiles : p \in Profile
    /\ AffineBatch \in Nat \ {0}
    /\ Entropy \in Nat /\ TotalBlocks <= Entropy
    /\ RangeMin > 0 /\ RangeMax < CurveOrder
    /\ CurveOrder \in Nat /\ MaxThreads \in Nat /\ MaxSteps \in Nat /\ MaxSteps < CurveOrder
    /\ None \notin [thread : Nat, step : Nat]

VARIABLES
    target,     \* the key of TARGET_HASH160
    cursor,     \* blocks of the archive that have been rechecked
    phase,      \* where the main loop is
    block,      \* the selected block
    done,       \* progress.completed_keys
    job,        \* the running dispatch
    compared,   \* thread -> the candidates it is through with
    result,     \* FoundResult: the thread and the step, or None
    tried       \* history: the keys of this block whose hash was compared

searchVars == <<target, cursor, phase, block, done, job, compared, result, tried>>
allVars == <<vars, searchVars>>

-----------------------------------------------------------------------------
(* The random choice of a block *)

\* FAULT: every random number is taken.
AcceptAll(v, range) == v \in 0 .. Entropy

\* Only numbers below the largest multiple of the range are taken.
Accept(v, range) == v < Entropy - (Entropy % range)

\* get_secure_uniform_u128
Draws(range, n) == {v \in 0 .. Entropy : Accept(v, range) /\ v % range = n}

-----------------------------------------------------------------------------
(* A dispatch *)

Lesser(a, b) == IF a < b THEN a ELSE b
DivCeil(a, b) == (a + b - 1) \div b

SubKeys(profile) == Lesser(BlockSize - done, profile.threads * profile.steps)

ThreadCount(keys, steps) == DivCeil(keys, steps)

\* What dispatch_exact requires.
IsDispatch(d) ==
    /\ d.threads > 0 /\ d.steps > 0 /\ d.valid > 0
    /\ d.valid <= d.threads * d.steps

\* FAULT: every thread takes all its steps.
ThreadKeysUnbounded(d, t) == d.steps

\* The threads of the kernel count from 0; the last ones may find no valid key.
ThreadKeys(d, t) ==
    IF t * d.steps >= d.valid THEN 0 ELSE Lesser(d.steps, d.valid - t * d.steps)

\* FAULT: the thread counts at one step each.
FoundKeyByThread(d, r) == d.start + r.thread + r.step

FoundKey(d, r) == d.start + r.thread * d.steps + r.step

\* What the threads compute depends on the constants alone, and is tabulated.
Numbers == 0 .. CurveOrder - 1

\* The target's hash is that of a public key.
ASSUME TargetAssumption == Targets \subseteq Numbers

PublicKeyOf == [k \in Numbers |-> ScalarMulG(FromNat(k))]
Points == {PublicKeyOf[k] : k \in Numbers}
HashOf == [p \in Points |-> Hash160FromPubkey33(ToCompressed(p))]

Grids == (1 .. MaxThreads) \X (1 .. MaxSteps)
InitialPointsOf == [k \in Numbers |-> [g \in Grids |-> InitialPoints(k, g[1], g[2])]]
CandidatesOf == [p \in Points |-> [n \in 1 .. MaxSteps |-> Candidates(p, n, AffineBatch)]]

AffinePoints == [x : Element, y : Element, infinity : BOOLEAN]

\* Every point has coordinates in the field; TLC keeps the tables it has checked this
\* of.
ASSUME PointAssumption ==
    /\ PublicKeyOf \in [Numbers -> AffinePoints]
    /\ HashOf \in [Points -> Seq(Byte)]
    /\ InitialPointsOf \in [Numbers -> [Grids -> Seq(AffinePoints)]]
    /\ CandidatesOf \in [Points -> [1 .. MaxSteps -> Seq(AffinePoints)]]

\* The step-th point of thread t.
Candidate(d, t, step) ==
    LET base == InitialPointsOf[d.start][<<d.threads, d.steps>>][t + 1]
    IN  CandidatesOf[base][ThreadKeys(d, t)][step + 1]

TargetHash == HashOf[PublicKeyOf[target]]

PubkeyToAddress(point) ==
    LET pubkey == ToCompressed(point)
    IN  [address |-> Pubkey33ToAddress(pubkey), hash160 |-> Hash160FromPubkey33(pubkey)]

PrivkeyToAddress(k) == PubkeyToAddress(ScalarMulG(FromNat(k)))

\* verify_candidate derives everything again from the key.
Verified(k) == k \in Keys /\ PrivkeyToAddress(k) = PrivkeyToAddress(target)

\* cpu_incremental_scan: the first key from first to last whose hash is the target.
CpuIncrementalScan(first, last, hash) ==
    LET points == Walk256(ToJacobian(ScalarMulG(FromNat(first))), G, last - first + 1)
        hits == {n \in DOMAIN points :
                   Hash160FromPubkey33(ToCompressed(ToAffine(points[n]))) = hash}
    IN  IF hits = {} THEN None ELSE first + Min(hits) - 1

\* run_mini_puzzle_test: the scan is told the hash of a key, and not the key.
RunMiniPuzzleTest(secret, first, last) ==
    LET wanted == PrivkeyToAddress(secret)
        found == CpuIncrementalScan(first, last, wanted.hash160)
    IN  found = secret /\ PrivkeyToAddress(found) = wanted

\* self_test: a dispatch with a known key at a point that is not the first of its
\* thread.
GpuSelfTest(key, before) ==
    LET d == [start |-> key - before, threads |-> MaxThreads, steps |-> MaxSteps,
              valid |-> MaxThreads * MaxSteps]
        places == [thread : 0 .. MaxThreads - 1, step : 0 .. MaxSteps - 1]
    IN  {FoundKey(d, r) : r \in {r \in places :
            HashOf[Candidate(d, r.thread, r.step)] = PrivkeyToAddress(key).hash160}} = {key}

\* The key before the last of the first block.
CpuTestPasses ==
    \A first \in {BlockStart(0)}, last \in {BlockStart(1) - 1}, secret \in {BlockStart(1) - 2} :
      RunMiniPuzzleTest(secret, first, last)

\* The first key of the second block, from within the first one.
GpuTestPasses ==
    \A key \in {BlockStart(1)}, before \in {MaxSteps + 1} : GpuSelfTest(key, before)

\* The grid of that dispatch has a second thread with a second step, and its keys are
\* keys of the range.
ASSUME TestAssumption ==
    /\ MaxThreads > 1 /\ MaxSteps > 1
    /\ \A n \in 0 .. MaxThreads * MaxSteps - 1 : BlockStart(1) - (MaxSteps + 1) + n \in Keys

-----------------------------------------------------------------------------
(* The main loop *)

SearchInit ==
    /\ Init
    /\ target \in Targets
    /\ cursor \in {0, BlockCount(archive)}
    /\ cursor = 0 => IsCoveredBy(archive, intervals)
    /\ phase = "boot"
    /\ block = None
    /\ done = 0
    /\ job = None
    /\ compared = <<>>
    /\ result = None
    /\ tried = {}

PendingRecheck == cursor < BlockCount(archive)

\* A process whose self-tests fail does not search.
TestCpu ==
    /\ phase = "boot"
    /\ phase' = IF CpuTestPasses THEN "gpu test" ELSE "untested"
    /\ UNCHANGED <<vars, target, cursor, block, done, job, compared, result, tried>>

TestGpu ==
    /\ phase = "gpu test"
    /\ phase' = IF GpuTestPasses THEN "idle" ELSE "untested"
    /\ UNCHANGED <<vars, target, cursor, block, done, job, compared, result, tried>>

\* The next block of the archive, whatever the filter says; then any random block
\* that the filter does not know.
Selectable(b) ==
    IF PendingRecheck THEN b = BlockAt(archive, cursor)
    ELSE Draws(TotalBlocks, b) # {} /\ ~IsScanned(b)

SelectBlock(b) ==
    /\ phase = "idle"
    /\ archive \in Watched
    /\ Selectable(b)
    /\ phase' = "block"
    /\ block' = b
    /\ done' = 0
    /\ tried' = {}
    /\ UNCHANGED <<vars, target, cursor, job, compared, result>>

\* FAULT: the part begins where the last one of the same size would have ended.
PartStartAligned(profile) == BlockStart(block) + (done \div SubKeys(profile)) * SubKeys(profile)

PartStart(profile) == BlockStart(block) + done

Dispatch(profile) ==
    LET d == [start |-> PartStart(profile), steps |-> profile.steps, valid |-> SubKeys(profile),
              threads |-> ThreadCount(SubKeys(profile), profile.steps)]
    IN  /\ phase = "block" /\ done < BlockSize
        /\ IsDispatch(d)
        /\ phase' = "gpu"
        /\ job' = d
        /\ compared' = [t \in 0 .. d.threads - 1 |-> 0]
        /\ result' = None
        /\ UNCHANGED <<vars, target, cursor, block, done, tried>>

\* One thread compares its next candidate; it returns with its last one, or when it
\* has found the key.
Compare(t) ==
    /\ phase = "gpu"
    /\ compared[t] < ThreadKeys(job, t)
    /\ \E point \in {Candidate(job, t, compared[t])} :
         /\ IF ~point.infinity /\ HashOf[point] = TargetHash
            THEN /\ result' = [thread |-> t, step |-> compared[t]]
                 /\ compared' = [compared EXCEPT ![t] = ThreadKeys(job, t)]
            ELSE /\ compared' = [compared EXCEPT ![t] = @ + 1]
                 /\ UNCHANGED result
         /\ tried' = tried \cup {k \in Numbers : PublicKeyOf[k] = point}
    /\ UNCHANGED <<vars, target, cursor, phase, block, done, job>>

\* FAULT: a part counts as soon as one thread has finished.
SomeReturned == \E t \in DOMAIN compared : compared[t] = ThreadKeys(job, t)

AllReturned == \A t \in DOMAIN compared : compared[t] = ThreadKeys(job, t)

EndDispatch ==
    /\ job' = None
    /\ compared' = <<>>
    /\ UNCHANGED <<vars, target, cursor, block, result, tried>>

\* record_completed refuses more than the block holds.
FindNothing ==
    /\ phase = "gpu" /\ AllReturned
    /\ result = None
    /\ done + job.valid <= BlockSize
    /\ done' = done + job.valid
    /\ phase' = "block"
    /\ EndDispatch

\* The GPU's candidate, verified by the CPU.
FindKey ==
    /\ phase = "gpu" /\ AllReturned
    /\ result # None
    /\ phase' = IF Verified(FoundKey(job, result)) THEN "hit" ELSE "refuted"
    /\ UNCHANGED done
    /\ EndDispatch

\* The command buffer did not complete; what its threads have done is not known.
DispatchFails ==
    /\ phase = "gpu"
    /\ phase' = "fatal"
    /\ UNCHANGED done
    /\ EndDispatch

\* complete_block
Commit ==
    /\ phase = "block" /\ done = BlockSize
    /\ Mark(block)
    /\ cursor' = IF PendingRecheck THEN cursor + 1 ELSE cursor
    /\ phase' = "idle"
    /\ UNCHANGED <<target, block, done, job, compared, result, tried>>

\* The process ends anywhere and starts again, with the marked blocks only; after a
\* hit it does not search again.
Restart ==
    /\ phase \notin {"hit", "refuted"}
    /\ Reload
    /\ phase' = "boot"
    /\ job' = None
    /\ compared' = <<>>
    /\ UNCHANGED <<target, cursor, block, done, result, tried>>

SearchNext ==
    \/ TestCpu \/ TestGpu
    \/ \E b \in Blocks : SelectBlock(b)
    \/ \E p \in Profiles : Dispatch(p)
    \/ \E t \in DOMAIN compared : Compare(t)
    \/ FindNothing \/ FindKey \/ DispatchFails
    \/ Commit
    \/ Restart

SearchSpec == SearchInit /\ [][SearchNext]_allVars

-----------------------------------------------------------------------------
(* Properties *)

\* A part of a block counts as done only when the hash of every key of it, and of no
\* other key, was compared with the target's, in whatever order the threads ran, with
\* whatever mode each part was dispatched.  The key is not among them: when it is
\* there it is reported, as itself, and the CPU agrees.
SearchIsExact ==
    /\ phase = "block" =>
         /\ tried = KeysOf(block, done)
         /\ target \notin tried
    /\ phase = "gpu" =>
         /\ tried \subseteq KeysOf(block, done + job.valid)
         /\ result = None <=> target \notin tried
         /\ result # None => FoundKey(job, result) = target
    /\ phase # "refuted"

\* The number with a * x = b modulo the prime.
Quotient(b, a) == CHOOSE x \in 0 .. Prime - 1 : (a * x - b) % Prime = 0

\* The slope of the chord through two points, or of the tangent at one.
SlopeOf(p, q) ==
    IF p = q THEN Quotient(3 * p.x * p.x, 2 * p.y) ELSE Quotient(q.y - p.y, q.x - p.x)

\* The sum of two points by the chord and tangent rule.
SumOf(p, q) ==
    IF p.infinity THEN q
    ELSE IF q.infinity THEN p
    ELSE IF p.x = q.x /\ (p.y # q.y \/ p.y = 0) THEN InfinityAffine
    ELSE LET slope == SlopeOf(p, q)
             x == (slope * slope - p.x - q.x) % Prime
         IN  Affine(x, (slope * (p.x - x) - p.y) % Prime)

\* The multiples of the generator.
Multiple[k \in Numbers] == IF k = 0 THEN InfinityAffine ELSE SumOf(Multiple[k - 1], G)

\* What the order of the generator is: as many numbers have a multiple of their own, the
\* multiples are added like the numbers, and the numbers fit the limbs.
ASSUME GroupAssumption ==
    /\ \A j, k \in Numbers : SumOf(Multiple[j], Multiple[k]) = Multiple[(j + k) % CurveOrder]
    /\ \A j, k \in Numbers : Multiple[j] = Multiple[k] => j = k
    /\ CurveOrder <= Power(Base, Limbs)

FieldIsExact ==
    /\ \A r \in [1 .. 2 * Limbs -> 0 .. Base - 1] :
         ToNat(Reduce512(r)) = ValueOf(r, Base) % Prime
    /\ \A m, n \in 0 .. Prime - 1 :
         /\ ToNat(FieldAdd(FromNat(m), FromNat(n))) = Plus(m, n)
         /\ ToNat(FieldSub(FromNat(m), FromNat(n))) = Minus(m, n)
         /\ ToNat(FieldMul(FromNat(m), FromNat(n))) = Times(m, n)
    /\ \A n \in 1 .. Prime - 1 :
         /\ FieldAdd(FromNat(n), FieldNeg(FromNat(n))) = Zero
         /\ ToNat(FieldInv(FromNat(n))) = Inverted(n)
         /\ FromBeBytes(ToBeBytes(FromNat(n))) = FromNat(n)
         /\ ValueOf(Reverse(ToBeBytes(FromNat(n))), ByteBase) = n
         /\ ValueOf(MslU256(FromNat(n)), HalfBase) = n

\* The points that the threads of a dispatch start from, and those they come to.
DispatchesAreExact ==
    \A k \in Numbers :
      /\ \A g \in Grids :
           InitialPointsOf[k][g]
             = [t \in 1 .. g[1] |-> PublicKeyOf[(k + (t - 1) * g[2]) % CurveOrder]]
      /\ \A m \in 1 .. MaxSteps :
           CandidatesOf[PublicKeyOf[k]][m]
             = [n \in 1 .. m |-> PublicKeyOf[(k + n - 1) % CurveOrder]]

\* No key of the range has the hash of a target, or of another key of the range: what
\* the search relies on, and what no proof about the arithmetic can give.
HashesAreApart ==
    \A wanted \in Targets \cup Keys, k \in Keys :
      HashOf[PublicKeyOf[k]] = HashOf[PublicKeyOf[wanted]] => k = wanted

\* Every number has a point of its own, and no key of the range but the target has the
\* target's hash.
KeysAreApart ==
    /\ \A k \in Numbers : PublicKeyOf[k].infinity <=> k = 0
    /\ \A j, k \in Numbers : PublicKeyOf[j] = PublicKeyOf[k] => j = k
    /\ HashesAreApart

CurveIsExact ==
    /\ \A k \in Numbers :
         /\ PublicKeyOf[k] = Multiple[k]
         /\ IsValid256(PublicKeyOf[k])
    /\ \A k \in KeysOf(0, BlockSize) :
         CpuIncrementalScan(BlockStart(0), BlockStart(0) + BlockSize - 1, HashOf[PublicKeyOf[k]]) = k

\* The limbs compute the field and the curve: every product of two numbers is reduced
\* to the one below the prime, whatever it carries; adding, doubling and the inversion
\* shared by a batch give the multiples of the generator, through points at infinity
\* too; the scan of the CPU finds the keys that the GPU finds; the self-tests pass;
\* and the next point of every running thread is that of the key its position stands for.
ArithmeticIsExact ==
    /\ FieldIsExact
    /\ CurveIsExact
    /\ DispatchesAreExact
    /\ KeysAreApart
    /\ phase # "untested"
    /\ phase = "gpu" =>
         \A t \in DOMAIN compared :
           compared[t] < ThreadKeys(job, t) =>
             Candidate(job, t, compared[t]) = PublicKeyOf[job.start + t * job.steps + compared[t]]

ASSUME SampleAssumption == SampleLength \in Nat

\* Strings of every length: the largest numbers, and others behind zeros.
Samples ==
    {[i \in 1 .. n |-> 255] : n \in 0 .. SampleLength}
      \cup {[i \in 1 .. n |-> IF i <= z THEN 0 ELSE (i * 41) % 256] :
              n \in {1, 2, 3, 20, 25}, z \in 0 .. 3}

\* The padded message: the blocks that went into a state, one after the other.
Padded(state) == FlattenSeq(Tail(state))

IsPadded(state, data, bitLen) ==
    /\ Len(Padded(state)) = 64 * DivCeil(Len(data) + 9, 64)
    /\ SubSeq(Padded(state), 1, Len(data) + 1) = data \o <<128>>
    /\ SubSeq(Padded(state), Len(Padded(state)) - 7, Len(Padded(state))) = bitLen
    /\ \A i \in Len(data) + 2 .. Len(Padded(state)) - 8 : Padded(state)[i] = 0

HashesAreStandard ==
    /\ \A data \in Samples :
         /\ IsPadded(Sha256State(data), data, BigEndian(8 * Len(data)))
         /\ IsPadded(Ripemd160State(data), data, LittleEndian(8 * Len(data)))
    /\ \A k \in Numbers :
         LET pubkey == ToCompressed(PublicKeyOf[k])
         IN  Hash160FromPubkey33(pubkey) = Hash160(pubkey)

\* One character of a string becomes another one.
Altered(s, k) ==
    LET i == (k % Len(s)) + 1
    IN  [s EXCEPT ![i] = (s[i] + 1 + (k % 57)) % 58]

\* An altered address has its checksum right only if it has the same data: what no
\* proof about the digits can give.
ChecksumsTell ==
    \A k \in Keys :
      LET pubkey == ToCompressed(PublicKeyOf[k])
          raw == B58Decode(Altered(Pubkey33ToAddress(pubkey), k))
      IN  ChecksumMatches(raw) => SubSeq(raw, 1, Len(raw) - 4) = <<0>> \o Hash160(pubkey)

Base58IsExact ==
    /\ \A bytes \in {s \in Samples : Len(s) <= 25} :
         B58Encode(bytes) # Panic /\ B58Decode(B58Encode(bytes)) = bytes
    /\ \A k \in Keys :
         LET pubkey == ToCompressed(PublicKeyOf[k])
             address == Pubkey33ToAddress(pubkey)
         IN  /\ B58CheckDecode(address) = <<0>> \o Hash160(pubkey)
             /\ B58CheckDecode(Altered(address, k)) = <<>>
    /\ ChecksumsTell

\* An address says which public key it is of: messages of every length are padded as
\* the standards say, the short forms of the hashes agree with the general ones, the
\* digits of Base58 fit the buffers that were sized for them, and decoding gives back
\* what was encoded and refuses it when one character has changed.
\* What a hit is verified with is the address of the target.
AddressIsExact ==
    /\ HashesAreStandard
    /\ Base58IsExact
    /\ phase = "hit" =>
         B58CheckDecode(Pubkey33ToAddress(ToCompressed(PublicKeyOf[target]))) = <<0>> \o TargetHash

DrawsAreEqual ==
    \A range \in 1 .. Entropy, n \in 0 .. Entropy - 1 :
      n < range => /\ Draws(range, n) # {}
                   /\ Cardinality(Draws(range, n)) = Cardinality(Draws(range, 0))

\* Every block is drawn by the same number of random numbers, and by one at least:
\* rejecting numbers takes none away, however the range divides the largest.  So the
\* loop can come to every block that is left, and to no other.
ChoiceIsFair ==
    /\ DrawsAreEqual
    /\ phase = "idle" /\ ~PendingRecheck => {b \in Blocks : Selectable(b)} = Blocks \ scanned

=============================================================================
