--------------------------- MODULE DuplicateFilter ---------------------------
(***************************************************************************)
(* Which blocks have been searched: a sorted list of intervals behind a    *)
(* Bloom filter, and the recheck plan that is laid over it.  The lists     *)
(* hold up to 2^46 blocks in a few intervals, so every answer is computed  *)
(* from interval ends; the properties compare the answers with the set of  *)
(* blocks the lists stand for.                                             *)
(*                                                                         *)
(* The indices are u64: MaxBlock stands for the largest.                   *)
(***************************************************************************)
EXTENDS Integers, SequencesExt, FiniteSetsExt

CONSTANTS
    MaxBlock,   \* the last block index
    Bits,       \* bits of the Bloom filter
    Hashes,     \* block -> the bits it sets
    BloomLimit, \* blocks a rebuilt filter is filled for one by one
    Histories,  \* the lists a snapshot or an archive may hold
    None        \* no block at this ordinal

Blocks == 0 .. MaxBlock

VARIABLES
    intervals,  \* IntervalSet, pairs of the first and the last block
    bloom,      \* the bits that are set
    archive,    \* the intervals of a recheck plan
    scanned     \* history: the blocks loaded or marked

vars == <<intervals, bloom, archive, scanned>>

Start(interval) == interval[1]
End(interval) == interval[2]
Length(interval) == End(interval) - Start(interval) + 1

\* The blocks a list stands for.
Coverage(list) == UNION {Start(list[i]) .. End(list[i]) : i \in DOMAIN list}

\* The number of blocks of a list, counted from its intervals.
BlockCount(list) == FoldLeft(LAMBDA n, v : n + Length(v), 0, list)

\* validate_for_block_size: no interval is reversed or out of range, and each
\* begins after the one before; neighbours need not be merged.
IsValid(list) ==
    /\ \A i \in DOMAIN list : Start(list[i]) <= End(list[i]) /\ End(list[i]) <= MaxBlock
    /\ \A i \in 2 .. Len(list) : Start(list[i]) > End(list[i - 1])

ASSUME FilterAssumption ==
    /\ MaxBlock \in Nat
    /\ Hashes \in [Blocks -> (SUBSET Bits) \ {{}}]
    /\ BloomLimit \in Nat
    /\ None \notin Blocks
    /\ \A list \in Histories : list \in Seq(Blocks \X Blocks) /\ IsValid(list)

-----------------------------------------------------------------------------
(* IntervalSet.  A partition point of a sorted list is the number of elements  *)
(* on its near side.                                                           *)

PartitionPoint(list, Near(_)) == Cardinality({i \in DOMAIN list : Near(list[i])})

Holds(list, b) == \E i \in DOMAIN list : Start(list[i]) <= b /\ b <= End(list[i])

\* FAULT: the interval that begins with the block is not looked at.
PlaceBefore(list, b) == PartitionPoint(list, LAMBDA v : Start(v) < b)

Place(list, b) == PartitionPoint(list, LAMBDA v : Start(v) <= b)

InsertBlock(list, b) ==
    LET n == Place(list, b)
        joinsLeft == n > 0 /\ End(list[n]) + 1 = b
        joinsRight == n < Len(list) /\ b + 1 = Start(list[n + 1])
    IN  IF n > 0 /\ End(list[n]) >= b THEN list
        ELSE CASE joinsLeft /\ joinsRight ->
                    RemoveAt([list EXCEPT ![n][2] = End(list[n + 1])], n + 1)
               [] joinsLeft /\ ~joinsRight -> [list EXCEPT ![n][2] = b]
               [] ~joinsLeft /\ joinsRight -> [list EXCEPT ![n + 1][1] = b]
               [] OTHER -> InsertAt(list, n + 1, <<b, b>>)

\* FAULT: an interval within the one before it cuts that one short.
MergedEndOfNext(a, b) == End(b)

MergedEnd(a, b) == IF End(a) > End(b) THEN End(a) ELSE End(b)

\* consolidate, over a list sorted by first blocks
Consolidate(list) ==
    FoldLeft(LAMBDA merged, v :
               IF merged # <<>> /\ Start(v) <= End(Last(merged)) + 1
               THEN [merged EXCEPT ![Len(merged)] = <<Start(@), MergedEnd(@, v)>>]
               ELSE Append(merged, v),
             <<>>, list)

InsertRange(list, first, last) ==
    IF first > last THEN list
    ELSE Consolidate(InsertAt(list, Place(list, first) + 1, <<first, last>>))

-----------------------------------------------------------------------------
(* The Bloom filter *)

\* FAULT: a filter that is too large to fill stays empty.
FilledOrEmpty(list) ==
    IF BlockCount(list) > BloomLimit THEN {}
    ELSE UNION {Hashes[b] : b \in Coverage(list)}

\* A large history saturates the filter, whose false positives do no harm.
Filled(list) ==
    IF BlockCount(list) > BloomLimit THEN Bits
    ELSE UNION {Hashes[b] : b \in Coverage(list)}

MayContain(b) == Hashes[b] \subseteq bloom

IsScanned(b) == MayContain(b) /\ Holds(intervals, b)

-----------------------------------------------------------------------------
(* The recheck plan *)

\* ordinal_ends
OrdinalEnd(list, n) == BlockCount(SubSeq(list, 1, n))

\* FAULT: the first block of an interval is counted on from the one before.
IntervalOfLate(list, ordinal) ==
    Cardinality({n \in DOMAIN list : OrdinalEnd(list, n) < ordinal})

IntervalOf(list, ordinal) ==
    Cardinality({n \in DOMAIN list : OrdinalEnd(list, n) <= ordinal})

BlockAt(list, ordinal) ==
    IF ordinal >= BlockCount(list) THEN None
    ELSE LET n == IntervalOf(list, ordinal)
         IN  Start(list[n + 1]) + ordinal - OrdinalEnd(list, n)

\* FAULT: neighbours that have not been merged do not continue each other.
ContinuesOverlapping(a, b) == Start(b) <= End(a)

Continues(a, b) == Start(b) <= End(a) + 1

\* Where the walk over the global list stops when it has covered one interval
\* from its first block to its last, and nowhere when it cannot.
Stops(global, from, interval) ==
    {k \in from .. Len(global) :
        /\ Start(global[from]) <= Start(interval)
        /\ \A j \in from + 1 .. k : Continues(global[j - 1], global[j])
        /\ \A j \in from .. k - 1 : End(global[j]) < End(interval)
        /\ End(global[k]) >= End(interval)}

\* is_covered_by: one walk for all intervals of the plan; 0 when it has failed.
Walk(plan, global) ==
    FoldLeft(LAMBDA at, v :
               LET from == Max({at, 1 + PartitionPoint(global, LAMBDA w : End(w) < Start(v))})
               IN  IF at = 0 \/ Stops(global, from, v) = {} THEN 0
                   ELSE Min(Stops(global, from, v)),
             1, plan)

IsCoveredBy(plan, global) == Walk(plan, global) # 0

-----------------------------------------------------------------------------
(* A start loads any valid snapshot; a search marks blocks; the next start     *)
(* reads the intervals back and fills the filter anew.                         *)

Init ==
    /\ intervals \in Histories
    /\ archive \in Histories
    /\ archive # <<>>
    /\ bloom = Filled(intervals)
    /\ scanned = Coverage(intervals)

\* FAULT: the intervals alone learn of the block.
MarkIntervals(b) ==
    /\ intervals' = InsertBlock(intervals, b)
    /\ scanned' = scanned \cup {b}
    /\ UNCHANGED <<bloom, archive>>

Mark(b) ==
    /\ intervals' = InsertBlock(intervals, b)
    /\ bloom' = bloom \cup Hashes[b]
    /\ scanned' = scanned \cup {b}
    /\ UNCHANGED archive

Reload ==
    /\ bloom' = Filled(intervals)
    /\ UNCHANGED <<intervals, archive, scanned>>

-----------------------------------------------------------------------------
(* Properties *)

\* A block is skipped if and only if it has been searched: neither merging, nor
\* the Bloom filter, nor its rebuilding or saturation at a start changes that.  The
\* list stays what the binary search and the next start's validation need: sorted,
\* disjoint and in range.  And inserting a range adds exactly its blocks, and leaves a
\* valid list.
IndexIsExact ==
    /\ IsValid(intervals)
    /\ \A b \in Blocks : IsScanned(b) <=> b \in scanned
    /\ \A first, last \in Blocks :
         LET list == InsertRange(intervals, first, last)
         IN  IsValid(list) /\ Coverage(list) = scanned \cup (first .. last)

\* A recheck visits every block of its archive once, in ascending order, and the
\* archive is accepted if and only if all its blocks are covered.
RecheckIsExact ==
    /\ \A n \in 0 .. MaxBlock + 1 : BlockAt(archive, n) = None <=> n >= BlockCount(archive)
    /\ \A n \in 1 .. BlockCount(archive) - 1 : BlockAt(archive, n - 1) < BlockAt(archive, n)
    /\ {BlockAt(archive, n) : n \in 0 .. BlockCount(archive) - 1} = Coverage(archive)
    /\ IsCoveredBy(archive, intervals) <=> Coverage(archive) \subseteq scanned

=============================================================================
