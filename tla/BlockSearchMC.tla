--------------------------- MODULE BlockSearchMC ---------------------------
(***************************************************************************)
(* Four blocks of eight keys, on the curve y^2 = x^3 + 7 modulo 61, which  *)
(* has 61 points.  The filter is small, so that false positives occur and  *)
(* histories of more than two blocks saturate it.  Every valid list of     *)
(* intervals is a history and an archive, those with unmerged neighbours   *)
(* included.                                                               *)
(***************************************************************************)
EXTENDS BlockSearch

MCHashes == [b \in Blocks |-> {b % 3, (b * b) % 3}]

\* The intervals of the blocks of S, cut before each block of B.
ListOf(S, B) ==
    LET begins == {b \in S : b - 1 \notin S \/ b \in B}
        end(b) == CHOOSE e \in b .. MaxBlock :
                    /\ b .. e \subseteq S
                    /\ (b + 1 .. e) \cap begins = {}
                    /\ e + 1 \notin S \/ e + 1 \in begins
    IN  SetToSortSeq({<<b, end(b)>> : b \in begins}, LAMBDA v, w : v[1] < w[1])

MCHistories == {ListOf(S, B) : S \in SUBSET Blocks, B \in SUBSET Blocks}

\* Two blocks with a gap.
MCWatched == {<< <<0, 0>>, <<2, 2>> >>}

\* Two threads with several steps each, and three with one.
MCProfiles == {[threads |-> 2, steps |-> 3], [threads |-> 3, steps |-> 1]}

\* The first key of the range, the last one that a short thread of block 2 reaches,
\* and the first beyond the range.
MCTargets == {16, 39, 48}
=============================================================================
