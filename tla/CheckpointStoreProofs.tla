------------------------ MODULE CheckpointStoreProofs ------------------------
(***************************************************************************)
(* For every finite set of blocks, every scope and recheck plan and any    *)
(* number of crashes: a start finds nothing that was not searched, and     *)
(* each block once; if the fsync of a file keeps its name, it finds all    *)
(* that was saved; and if no start compacts lines that are not on the disk *)
(* yet, it accepts every pair of files that a power loss may leave.        *)
(*                                                                         *)
(* Files that show the same progress are the same to the argument, so it   *)
(* is made about snapshots and sequences of lines, and the steps of the    *)
(* store are then recognised as five changes of those: nothing is lost     *)
(* from the two sets of survivors but what no longer matters, a line is    *)
(* appended, the snapshot is renewed, the journal is cut, and a power loss *)
(* picks one pair.                                                         *)
(***************************************************************************)
EXTENDS CheckpointStore, FiniteSetTheorems, SequenceTheorems, TLAPS

-----------------------------------------------------------------------------
(* What a pair of files shows *)

Cov(s, lines) == Base(s).covered \cup LineBlocks(lines)

Passed(s, lines) == {o \in Ordinals(lines) : o >= Base(s).cursor}

Cur(s, lines) == Base(s).cursor + Cardinality(Passed(s, lines))

Run(s, lines) == LastRuntime(s, lines)

\* The lines that may survive.
LineSets == {Lines(j) : j \in journals}

\* No line is ahead of what its pair shows.
Within(s, lines) ==
    /\ \A o \in Ordinals(lines) : o < Cur(s, lines)
    /\ \A i \in DOMAIN lines : lines[i].runtime <= Run(s, lines)

\* The files SS and JL may survive, l0 are the lines of the journal, and C, c and t is
\* the progress: every snapshot shows it with l0, and nothing shows more.
Files(SS, JL, l0, C, c, t) ==
    /\ \A s \in SS : Cov(s, l0) = C /\ Cur(s, l0) = c /\ Run(s, l0) = t
    /\ \A s \in SS, lines \in JL :
         /\ Cov(s, lines) \subseteq C /\ Cur(s, lines) <= c /\ Run(s, lines) <= t
         /\ Within(s, lines)

\* Nothing shows less than has been acknowledged.
Kept(SS, JL, ack) ==
    \A s \in SS, lines \in JL :
        ack.covered \subseteq Cov(s, lines) /\ ack.cursor <= Cur(s, lines)
          /\ ack.runtime <= Run(s, lines)

-----------------------------------------------------------------------------
(* The inductive invariant, in parts *)

NowCovered == Cov(snapshot, Lines(journal))
NowCursor == Cur(snapshot, Lines(journal))
NowRuntime == Run(snapshot, Lines(journal))

\* A preparation may have failed, or not have begun: there is at most the snapshot of
\* the copied history, and nothing to lose.
Unprepared == plan # <<>> /\ None \in snapshots

UnpreparedInv ==
    Unprepared =>
        /\ snapshots \subseteq {None, History(scope.history)}
        /\ journals = {None} /\ step = "down"
        /\ acked = [prepared |-> FALSE, covered |-> {}, cursor |-> 0, runtime |-> 0]

FilesInv ==
    ~Unprepared =>
        Files(snapshots, LineSets, Lines(journal), NowCovered, NowCursor, NowRuntime)

KeptInv == FsyncKeepsName => Kept(snapshots, LineSets, acked)

\* What the store has in memory is what the files show, until it is poisoned.
IsUp == step \notin {"down", "prepare"}

MemoryInv ==
    /\ step \in {"save", "truncate", "header"} => ~poisoned
    /\ total = Cardinality(covered)
    /\ IsUp => snapshot # None /\ journal # None
    /\ IsUp /\ ~poisoned => covered = NowCovered /\ cursor = NowCursor /\ runtime = NowRuntime
    /\ step \in {"truncate", "header"} =>
         snapshots = {snapshot} /\ Base(snapshot) = CurrentSnapshot
    /\ step = "header" => Lines(journal) = <<>>
    /\ step = "prepare" =>
         /\ plan # <<>> /\ snapshot = History(scope.history) /\ snapshots = {snapshot}
         /\ journal = None

CountInv == \A s \in snapshots : Base(s).total = Cardinality(Base(s).covered)

HistoryInv ==
    /\ scope.history \subseteq searched
    /\ NowCovered \subseteq searched
    /\ \A o \in 0 .. NowCursor - 1 : o \in rechecked

\* A journal without its header has no lines.
HeaderInv ==
    /\ \A j \in journals : j # None /\ ~j.header => j.lines = <<>>
    /\ step \in {"ready", "save", "truncate"} /\ ~poisoned => journal.header

AckRecord == [prepared : BOOLEAN, covered : SUBSET Blocks, cursor : Nat, runtime : Ticks]

AckedInv == acked \in AckRecord

StoreInv ==
    /\ TypeOK /\ UnpreparedInv /\ FilesInv /\ KeptInv
    /\ MemoryInv /\ CountInv /\ HistoryInv /\ HeaderInv /\ AckedInv

-----------------------------------------------------------------------------
(* The part for EveryCrashOpens *)

Covers(C, c) == \A i \in DOMAIN plan : scope.legacy \/ i <= c => plan[i] \in C

\* open_impl accepts the lines, the next line can follow them without a gap, and the
\* targets they pass are covered.
Accepted(s, lines) ==
    /\ \A i \in DOMAIN lines : LineIsValid(s, lines, i)
    /\ Ordinals(lines) # {} => Cur(s, lines) - 1 \in Ordinals(lines)
    /\ s # None => Covers(Cov(s, lines), Cur(s, lines))

AcceptedInv ==
    /\ ~Unprepared => \A s \in snapshots, lines \in LineSets : Accepted(s, lines)
    /\ \A s \in snapshots \ {None} : Covers(Base(s).covered, Base(s).cursor)
    /\ step = "save" => LineSets \subseteq {Lines(journal), <<>>}

\* The two files of a scope are there from the end of its preparation on.
PreparedInv ==
    plan # <<>> /\ acked.prepared => None \notin snapshots \cup journals

OpensInv == (LateCompaction => AcceptedInv) /\ (FsyncKeepsName => PreparedInv)

-----------------------------------------------------------------------------
(* Lemmas about the data *)

\* A scope is about blocks of the puzzle, and its plan names none of them twice.
LEMMA ScopeType ==
    ASSUME scope \in Scopes
    PROVE  /\ plan \in Seq(Blocks) /\ Len(plan) \in Nat
           /\ scope.history \subseteq Blocks /\ scope.legacy \in BOOLEAN
           /\ Cardinality(Blocks) \in Nat /\ Len(plan) <= Cardinality(Blocks)
<1>1. IsScope(scope) /\ IsFiniteSet(Blocks)
  BY StoreAssumption
<1>2. plan \in Seq(Blocks) /\ scope.history \subseteq Blocks /\ scope.legacy \in BOOLEAN
  BY <1>1 DEF IsScope, plan
<1>3. plan \in Injection(1 .. Len(plan), Blocks)
  <2>1. \A i, j \in 1 .. Len(plan) : plan[i] = plan[j] => i = j
    BY <1>1, <1>2 DEF IsScope, plan
  <2>2. plan \in [1 .. Len(plan) -> Blocks]
    BY <1>2
  <2>. QED
    BY <2>1, <2>2 DEF Injection, IsInjective
<1>4. Cardinality(1 .. Len(plan)) <= Cardinality(Blocks)
  BY <1>1, <1>3, FS_Injection
<1>5. Cardinality(1 .. Len(plan)) = Len(plan)
  BY <1>2, FS_Interval
<1>. QED
  BY <1>1, <1>2, <1>4, <1>5, FS_CardinalityType

Content == Snapshot \cup {None}

\* What a snapshot, or none, begins a replay with.
LEMMA BaseType ==
    ASSUME NEW s \in Content
    PROVE  /\ Base(s) \in Snapshot
           /\ Base(s).covered \subseteq Blocks /\ Base(s).total \in Nat
           /\ Base(s).cursor \in Cursors /\ Base(s).runtime \in Ticks
           /\ Cursors \subseteq Nat /\ Ticks \subseteq Nat
BY StoreAssumption, FS_CardinalityType DEF Content, Base, Snapshot, NewStore, Cursors, Ticks

\* The ordinals and blocks of lines are a finite set of each.
LEMMA LineTypes ==
    ASSUME NEW lines \in Seq(Record), NEW s \in Content
    PROVE  /\ Ordinals(lines) \subseteq Cursors
           /\ LineBlocks(lines) \subseteq Blocks
           /\ IsFiniteSet(Passed(s, lines)) /\ Cardinality(Passed(s, lines)) \in Nat
           /\ Cur(s, lines) \in Nat /\ Base(s).cursor <= Cur(s, lines)
           /\ Run(s, lines) \in Ticks /\ Base(s).runtime <= Run(s, lines)
           /\ Cov(s, lines) \subseteq Blocks
<1>1. \A i \in DOMAIN lines : lines[i] \in Record
  OBVIOUS
<1>2. Ordinals(lines) \subseteq Cursors /\ LineBlocks(lines) \subseteq Blocks
  BY <1>1 DEF Ordinals, LineBlocks, Record
<1>3. Cursors \subseteq Nat /\ IsFiniteSet(Cursors)
  BY StoreAssumption, FS_CardinalityType, FS_Interval DEF Cursors
<1>4. IsFiniteSet(Passed(s, lines)) /\ Cardinality(Passed(s, lines)) \in Nat
  BY <1>2, <1>3, FS_Subset, FS_CardinalityType DEF Passed
<1>5. Run(s, lines) \in Ticks /\ Base(s).runtime <= Run(s, lines)
  <2>1. lines # <<>> => lines[Len(lines)] \in Record
    BY <1>1
  <2>. QED
    BY <2>1, BaseType DEF Run, LastRuntime, MaxOf, Record
<1>. QED
  BY <1>2, <1>4, <1>5, BaseType DEF Cur, Cov

\* Replay shows what Cov, Cur and Run say, and counts every block once.
LEMMA ReplayShows ==
    ASSUME NEW s \in Content, NEW j, Lines(j) \in Seq(Record)
    PROVE  /\ Replayed(s, j).covered = Cov(s, Lines(j))
           /\ Replayed(s, j).cursor = Cur(s, Lines(j))
           /\ Replayed(s, j).runtime = Run(s, Lines(j))
           /\ Base(s).total = Cardinality(Base(s).covered) =>
                Replayed(s, j).total = Cardinality(Replayed(s, j).covered)
<1>1. SubSeq(Lines(j), 1, Len(Lines(j))) = Lines(j)
  BY SubSeqFull
<1>2. /\ IsFiniteSet(Base(s).covered) /\ IsFiniteSet(LineBlocks(Lines(j)))
  BY StoreAssumption, BaseType, LineTypes, FS_Subset
<1>3. Cardinality(Base(s).covered \cup (LineBlocks(Lines(j)) \ Base(s).covered))
        = Cardinality(Base(s).covered) + Cardinality(LineBlocks(Lines(j)) \ Base(s).covered)
  <2>. DEFINE New == LineBlocks(Lines(j)) \ Base(s).covered
  <2>1. IsFiniteSet(New) /\ Cardinality(New) \in Nat /\ Cardinality(Base(s).covered) \in Nat
    BY <1>2, FS_Subset, FS_CardinalityType
  <2>2. Base(s).covered \cap New = {}
    OBVIOUS
  <2>. HIDE DEF New
  <2>3. Cardinality(Base(s).covered \cup New)
          = Cardinality(Base(s).covered) + Cardinality(New)
              - Cardinality(Base(s).covered \cap New)
    BY <1>2, <2>1, FS_Union
  <2>4. Cardinality(Base(s).covered \cap New) = 0
    BY <2>2, FS_EmptySet
  <2>5. Cardinality(Base(s).covered \cup New) = Cardinality(Base(s).covered) + Cardinality(New)
    BY <2>1, <2>3, <2>4
  <2>. QED
    BY <2>5 DEF New
<1>4. Base(s).covered \cup (LineBlocks(Lines(j)) \ Base(s).covered)
        = Base(s).covered \cup LineBlocks(Lines(j))
  OBVIOUS
<1>. QED
  BY <1>1, <1>3, <1>4 DEF Replayed, CursorAt, Cov, Cur, Passed, Run

-----------------------------------------------------------------------------
(* What one more line changes *)

\* The elements and the beginnings of a longer journal.
LEMMA OneMoreLine ==
    ASSUME NEW lines \in Seq(Record), NEW r \in Record
    PROVE  /\ Append(lines, r) \in Seq(Record)
           /\ Len(Append(lines, r)) = Len(lines) + 1
           /\ \A i \in DOMAIN lines : Append(lines, r)[i] = lines[i]
           /\ Append(lines, r)[Len(lines) + 1] = r
           /\ Ordinals(Append(lines, r)) = Ordinals(lines) \cup ({r.ordinal} \ {None})
           /\ LineBlocks(Append(lines, r)) = LineBlocks(lines) \cup ({r.block} \ {None})
           /\ \A s : Run(s, Append(lines, r)) = MaxOf(Base(s).runtime, r.runtime)
<1>1. /\ Append(lines, r) \in Seq(Record)
      /\ Len(Append(lines, r)) = Len(lines) + 1
      /\ \A i \in DOMAIN lines : Append(lines, r)[i] = lines[i]
      /\ Append(lines, r)[Len(lines) + 1] = r
      /\ DOMAIN Append(lines, r) = DOMAIN lines \cup {Len(lines) + 1}
  OBVIOUS
<1>2. Append(lines, r) # <<>>
  BY <1>1
<1>. QED
  BY <1>1, <1>2 DEF Ordinals, LineBlocks, Run, LastRuntime

\* A line that is not ahead of the progress, with the next ordinal or none, moves the
\* cursor by one or not at all.
LEMMA OneMoreOrdinal ==
    ASSUME NEW lines \in Seq(Record), NEW r \in Record, NEW s \in Content,
           Within(s, lines), r.ordinal \in {Cur(s, lines), None}
    PROVE  Cur(s, Append(lines, r)) =
             IF r.ordinal = None THEN Cur(s, lines) ELSE Cur(s, lines) + 1
<1>a. Ordinals(Append(lines, r)) = Ordinals(lines) \cup ({r.ordinal} \ {None})
  BY OneMoreLine
<1>b. /\ Ordinals(lines) \subseteq Nat
      /\ Cur(s, lines) \in Nat /\ Base(s).cursor \in Nat /\ Base(s).cursor <= Cur(s, lines)
      /\ IsFiniteSet(Passed(s, lines)) /\ Cardinality(Passed(s, lines)) \in Nat
  BY LineTypes, BaseType
<1>1. CASE r.ordinal = None
  <2>1. Passed(s, Append(lines, r)) = Passed(s, lines)
    BY <1>a, <1>1 DEF Passed
  <2>. QED
    BY <1>1, <2>1 DEF Cur
<1>2. CASE r.ordinal # None
  <2>1. Passed(s, Append(lines, r)) = Passed(s, lines) \cup {Cur(s, lines)}
    BY <1>a, <1>b, <1>2 DEF Passed
  <2>2. Cur(s, lines) \notin Passed(s, lines)
    BY <1>b DEF Within, Passed
  <2>3. Cardinality(Passed(s, Append(lines, r))) = Cardinality(Passed(s, lines)) + 1
    BY <1>b, <2>1, <2>2, FS_AddElement
  <2>. QED
    BY <1>b, <1>2, <2>3 DEF Cur
<1>. QED
  BY <1>1, <1>2

-----------------------------------------------------------------------------
(* The five changes of the files *)

Shows(s, lines, C, c, t) == Cov(s, lines) = C /\ Cur(s, lines) = c /\ Run(s, lines) = t

\* A pair within what it shows may be shown by any snapshot that shows at least that.
IsProgress(C, c, t) == C \subseteq Blocks /\ c \in Nat /\ t \in Ticks

\* A journal without lines shows its snapshot.
LEMMA NoLinesShow ==
    ASSUME NEW s \in Content
    PROVE  /\ Shows(s, <<>>, Base(s).covered, Base(s).cursor, Base(s).runtime)
           /\ Within(s, <<>>)
<1>1. Ordinals(<<>>) = {} /\ LineBlocks(<<>>) = {} /\ Passed(s, <<>>) = {}
  BY DEF Ordinals, LineBlocks, Passed
<1>2. Base(s).cursor \in Nat /\ Cardinality({}) = 0
  BY BaseType, FS_EmptySet
<1>3. Cur(s, <<>>) = Base(s).cursor
  <2>1. Cardinality(Passed(s, <<>>)) = 0
    BY <1>1, <1>2
  <2>2. Cur(s, <<>>) = Base(s).cursor + 0
    BY <2>1 DEF Cur
  <2>. QED
    BY <1>2, <2>2
<1>4. DOMAIN <<>> = {}
  OBVIOUS
<1>. QED
  BY <1>1, <1>3, <1>4 DEF Shows, Cov, Run, LastRuntime, Within

\* A snapshot of the progress shows it with any lines that are not ahead of it.
LEMMA SnapshotShows ==
    ASSUME NEW s \in Content, NEW lines \in Seq(Record),
           NEW C, NEW c, NEW t, IsProgress(C, c, t),
           Base(s).covered = C, Base(s).cursor = c, Base(s).runtime = t,
           LineBlocks(lines) \subseteq C,
           \A o \in Ordinals(lines) : o < c,
           \A i \in DOMAIN lines : lines[i].runtime <= t
    PROVE  Shows(s, lines, C, c, t) /\ Within(s, lines)
<1>1. Passed(s, lines) = {}
  <2>1. Ordinals(lines) \subseteq Nat /\ c \in Nat
    BY LineTypes, BaseType DEF IsProgress
  <2>2. \A o \in Ordinals(lines) : ~(o >= c)
    BY <2>1
  <2>. QED
    BY <2>2 DEF Passed
<1>2. Cur(s, lines) = c
  BY <1>1, FS_EmptySet DEF Cur, IsProgress
<1>3. Cov(s, lines) = C
  BY DEF Cov
<1>4. Run(s, lines) = t
  <2>1. CASE lines = <<>>
    BY <2>1 DEF Run, LastRuntime
  <2>2. CASE lines # <<>>
    <3>1. Len(lines) \in DOMAIN lines /\ lines[Len(lines)] \in Record
      BY <2>2
    <3>2. lines[Len(lines)].runtime <= t /\ lines[Len(lines)].runtime \in Nat /\ t \in Nat
      BY <3>1, StoreAssumption DEF Record, Ticks, IsProgress
    <3>. QED
      BY <2>2, <3>2 DEF Run, LastRuntime, MaxOf
  <2>. QED
    BY <2>1, <2>2
<1>. QED
  BY <1>2, <1>3, <1>4 DEF Shows, Within

\* Files of a store are made of these.
Typed(SS, JL) == SS \subseteq Content /\ JL \subseteq Seq(Record)

\* What no pair shows more of, no line has more of.
LEMMA LinesAreWithin ==
    ASSUME NEW SS, NEW JL, Typed(SS, JL), NEW l0 \in JL, NEW s \in SS, NEW lines \in JL,
           NEW C, NEW c, NEW t, IsProgress(C, c, t), Files(SS, JL, l0, C, c, t)
    PROVE  /\ LineBlocks(lines) \subseteq C
           /\ \A o \in Ordinals(lines) : o < c
           /\ \A i \in DOMAIN lines : lines[i].runtime <= t
<1>1. /\ Cov(s, lines) \subseteq C /\ Cur(s, lines) <= c /\ Run(s, lines) <= t
      /\ Within(s, lines)
  BY DEF Files
<1>2. s \in Content /\ lines \in Seq(Record)
  BY DEF Typed
<1>3. /\ Ordinals(lines) \subseteq Nat /\ Cur(s, lines) \in Nat /\ Run(s, lines) \in Nat
      /\ c \in Nat /\ t \in Nat
  BY <1>2, LineTypes, BaseType DEF IsProgress
<1>4. \A i \in DOMAIN lines : lines[i].runtime \in Nat
  <2>1. \A i \in DOMAIN lines : lines[i] \in Record
    BY <1>2
  <2>. QED
    BY <2>1, StoreAssumption DEF Record, Ticks
<1>. QED
  BY <1>1, <1>3, <1>4 DEF Within, Cov

\* One more line: it is of the next block, or only of the runtime.
LEMMA AppendKeeps ==
    ASSUME NEW SS, NEW JL, Typed(SS, JL), NEW l0 \in JL,
           NEW C, NEW c, NEW t, IsProgress(C, c, t), Files(SS, JL, l0, C, c, t),
           NEW r \in Record, r.ordinal \in {c, None}, t <= r.runtime,
           NEW C2, C2 = C \cup ({r.block} \ {None}),
           NEW c2, c2 = IF r.ordinal = None THEN c ELSE c + 1
    PROVE  /\ Typed(SS, JL \cup {Append(l0, r)})
           /\ IsProgress(C2, c2, r.runtime)
           /\ Files(SS, JL \cup {Append(l0, r)}, Append(l0, r), C2, c2, r.runtime)
<1>1. /\ l0 \in Seq(Record) /\ Append(l0, r) \in Seq(Record)
      /\ r.runtime \in Ticks /\ r.runtime \in Nat /\ t \in Nat /\ c \in Nat /\ c2 \in Nat
      /\ c <= c2
  <2>1. l0 \in Seq(Record) /\ Append(l0, r) \in Seq(Record)
    BY OneMoreLine DEF Typed
  <2>2. r.runtime \in Ticks /\ t \in Ticks /\ Ticks \subseteq Nat
    BY StoreAssumption DEF Record, Ticks, IsProgress
  <2>3. c \in Nat /\ c2 \in Nat /\ c <= c2
    BY DEF IsProgress
  <2>. QED
    BY <2>1, <2>2, <2>3
<1>2. IsProgress(C2, c2, r.runtime) /\ C \subseteq C2
  BY <1>1 DEF IsProgress, Record
<1>3. ASSUME NEW s \in SS
      PROVE  Shows(s, Append(l0, r), C2, c2, r.runtime) /\ Within(s, Append(l0, r))
  <2>1. s \in Content /\ Within(s, l0) /\ Cov(s, l0) = C /\ Cur(s, l0) = c /\ Run(s, l0) = t
    BY DEF Files, Typed
  <2>2. Cur(s, Append(l0, r)) = c2
    BY <1>1, <2>1, OneMoreOrdinal
  <2>3. Cov(s, Append(l0, r)) = C2
    BY <1>1, <2>1, OneMoreLine DEF Cov
  <2>4. Run(s, Append(l0, r)) = r.runtime
    <3>1. Base(s).runtime <= t /\ Base(s).runtime \in Nat
      BY <1>1, <2>1, LineTypes, BaseType
    <3>2. Run(s, Append(l0, r)) = MaxOf(Base(s).runtime, r.runtime)
      BY <1>1, OneMoreLine
    <3>. QED
      BY <1>1, <3>1, <3>2 DEF MaxOf
  <2>5. \A o \in Ordinals(Append(l0, r)) : o < c2
    <3>1. Ordinals(l0) \subseteq Nat /\ \A o \in Ordinals(l0) : o < c
      BY <1>1, <2>1, LineTypes, BaseType DEF Within
    <3>2. Ordinals(Append(l0, r)) = Ordinals(l0) \cup ({r.ordinal} \ {None})
      BY <1>1, OneMoreLine
    <3>. QED
      BY <1>1, <3>1, <3>2
  <2>6. \A i \in DOMAIN Append(l0, r) : Append(l0, r)[i].runtime <= r.runtime
    <3>1. \A i \in DOMAIN l0 : l0[i] \in Record /\ l0[i].runtime <= t
      BY <1>1, <2>1 DEF Within
    <3>2. \A i \in DOMAIN l0 : l0[i].runtime \in Nat
      BY <3>1, StoreAssumption DEF Record, Ticks
    <3>3. DOMAIN Append(l0, r) = DOMAIN l0 \cup {Len(l0) + 1}
      BY <1>1
    <3>. QED
      BY <1>1, <3>1, <3>2, <3>3, OneMoreLine
  <2>. QED
    BY <2>2, <2>3, <2>4, <2>5, <2>6 DEF Shows, Within
<1>4. ASSUME NEW s \in SS, NEW lines \in JL
      PROVE  /\ Cov(s, lines) \subseteq C2 /\ Cur(s, lines) <= c2 /\ Run(s, lines) <= r.runtime
             /\ Within(s, lines)
  <2>1. s \in Content /\ lines \in Seq(Record)
    BY DEF Typed
  <2>2. Cur(s, lines) \in Nat /\ Run(s, lines) \in Nat
    BY <2>1, LineTypes, BaseType
  <2>. QED
    BY <1>1, <1>2, <2>2 DEF Files
<1>5. ASSUME NEW s \in SS
      PROVE  /\ Cov(s, Append(l0, r)) \subseteq C2 /\ Cur(s, Append(l0, r)) <= c2
             /\ Run(s, Append(l0, r)) <= r.runtime
  BY <1>1, <1>3 DEF Shows
<1>6. Typed(SS, JL \cup {Append(l0, r)})
  BY <1>1 DEF Typed
<1>7. Files(SS, JL \cup {Append(l0, r)}, Append(l0, r), C2, c2, r.runtime)
  <2>1. \A s \in SS, lines \in JL \cup {Append(l0, r)} :
          /\ Cov(s, lines) \subseteq C2 /\ Cur(s, lines) <= c2 /\ Run(s, lines) <= r.runtime
          /\ Within(s, lines)
    BY <1>3, <1>4, <1>5
  <2>. QED
    BY <1>3, <2>1 DEF Files, Shows
<1>. QED
  BY <1>2, <1>6, <1>7

\* A snapshot of the progress: it shows that with every journal there may be.
LEMMA SaveKeeps ==
    ASSUME NEW SS, NEW JL, Typed(SS, JL), NEW l0 \in JL, SS # {},
           NEW C, NEW c, NEW t, IsProgress(C, c, t), Files(SS, JL, l0, C, c, t),
           NEW s0 \in Content,
           Base(s0).covered = C, Base(s0).cursor = c, Base(s0).runtime = t
    PROVE  /\ Typed(SS \cup {s0}, JL)
           /\ \A lines \in JL : Shows(s0, lines, C, c, t)
           /\ Files(SS \cup {s0}, JL, l0, C, c, t)
<1>1. \A lines \in JL : Shows(s0, lines, C, c, t) /\ Within(s0, lines)
  <2>. SUFFICES ASSUME NEW lines \in JL PROVE Shows(s0, lines, C, c, t) /\ Within(s0, lines)
    OBVIOUS
  <2>1. PICK s \in SS : TRUE
    OBVIOUS
  <2>2. lines \in Seq(Record)
    BY DEF Typed
  <2>. QED
    BY <2>1, <2>2, LinesAreWithin, SnapshotShows
<1>2. c <= c /\ t <= t
  BY StoreAssumption DEF IsProgress, Ticks
<1>. QED
  BY <1>1, <1>2 DEF Typed, Files, Shows

\* A cut: the snapshots show the progress without a journal, so an empty one may survive.
LEMMA CutKeeps ==
    ASSUME NEW SS, NEW JL, Typed(SS, JL), NEW l0 \in JL,
           NEW C, NEW c, NEW t, IsProgress(C, c, t), Files(SS, JL, l0, C, c, t),
           \A s \in SS : Base(s).covered = C /\ Base(s).cursor = c /\ Base(s).runtime = t
    PROVE  /\ Typed(SS, JL \cup {<<>>})
           /\ Files(SS, JL \cup {<<>>}, <<>>, C, c, t)
<1>1. \A s \in SS : Shows(s, <<>>, C, c, t) /\ Within(s, <<>>)
  BY NoLinesShow DEF Typed
<1>2. c <= c /\ t <= t
  BY StoreAssumption DEF IsProgress, Ticks
<1>3. <<>> \in Seq(Record)
  OBVIOUS
<1>. QED
  BY <1>1, <1>2, <1>3 DEF Typed, Files, Shows

\* A power loss: one pair of those that may survive is there, and shows its own progress.
LEMMA OnePairRemains ==
    ASSUME NEW SS, NEW JL, Typed(SS, JL), NEW l0, NEW C, NEW c, NEW t,
           Files(SS, JL, l0, C, c, t), NEW s \in SS, NEW lines \in JL
    PROVE  Files({s}, {lines}, lines, Cov(s, lines), Cur(s, lines), Run(s, lines))
<1>1. Cur(s, lines) \in Nat /\ Run(s, lines) \in Nat
  BY LineTypes, BaseType DEF Typed
<1>. QED
  BY <1>1 DEF Files

\* What may survive can only become less.
LEMMA FewerKeep ==
    ASSUME NEW SS, NEW JL, NEW l0, NEW C, NEW c, NEW t, Files(SS, JL, l0, C, c, t),
           NEW S2 \in SUBSET SS, NEW J2 \in SUBSET JL
    PROVE  Files(S2, J2, l0, C, c, t)
BY DEF Files

\* With one journal, everything shows the progress, and that is what is acknowledged.
LEMMA ProgressIsKept ==
    ASSUME NEW SS, NEW JL, NEW l0, NEW C, NEW c, NEW t, IsProgress(C, c, t),
           Files(SS, JL, l0, C, c, t),
           NEW ack, ack.covered \subseteq C, ack.cursor <= c, ack.runtime <= t
    PROVE  Kept(SS, {l0}, ack)
BY DEF Files, Kept

-----------------------------------------------------------------------------
(* The same, with what has been acknowledged *)

Survive(SS, JL, l0, C, c, t, ack) ==
    /\ SS # {} /\ l0 \in JL
    /\ Typed(SS, JL) /\ IsProgress(C, c, t)
    /\ Files(SS, JL, l0, C, c, t)
    /\ FsyncKeepsName => Kept(SS, JL, ack)

AtMost(ack, C, c, t) == ack.covered \subseteq C /\ ack.cursor <= c /\ ack.runtime <= t

\* What has been acknowledged is not ahead of the progress.
LEMMA AckIsProgress ==
    ASSUME NEW SS, NEW JL, NEW l0, NEW C, NEW c, NEW t, NEW ack,
           Survive(SS, JL, l0, C, c, t, ack), FsyncKeepsName
    PROVE  AtMost(ack, C, c, t)
BY DEF Survive, Kept, Files, AtMost

\* What may survive can only become less.
LEMMA FewerSurvive ==
    ASSUME NEW SS, NEW JL, NEW l0, NEW C, NEW c, NEW t, NEW ack,
           Survive(SS, JL, l0, C, c, t, ack),
           NEW S2, S2 \subseteq SS, S2 # {}, NEW J2, J2 \subseteq JL, l0 \in J2
    PROVE  Survive(S2, J2, l0, C, c, t, ack)
<1>1. Files(S2, J2, l0, C, c, t)
  BY FewerKeep DEF Survive
<1>2. Typed(S2, J2) /\ (FsyncKeepsName => Kept(S2, J2, ack))
  BY DEF Survive, Typed, Kept
<1>. QED
  BY <1>1, <1>2 DEF Survive

\* One more line.
LEMMA LineSurvives ==
    ASSUME NEW SS, NEW JL, NEW l0, NEW C, NEW c, NEW t, NEW ack \in AckRecord,
           Survive(SS, JL, l0, C, c, t, ack),
           NEW r \in Record, r.ordinal \in {c, None}, t <= r.runtime,
           NEW C2, C2 = C \cup ({r.block} \ {None}),
           NEW c2, c2 = IF r.ordinal = None THEN c ELSE c + 1
    PROVE  Survive(SS, JL \cup {Append(l0, r)}, Append(l0, r), C2, c2, r.runtime, ack)
<1>. DEFINE l2 == Append(l0, r)
<1>1. /\ Typed(SS, JL \cup {l2}) /\ IsProgress(C2, c2, r.runtime)
      /\ Files(SS, JL \cup {l2}, l2, C2, c2, r.runtime)
  BY AppendKeeps DEF Survive
<1>2. ASSUME FsyncKeepsName PROVE Kept(SS, JL \cup {l2}, ack)
  <2>1. AtMost(ack, C, c, t) /\ Kept(SS, JL, ack)
    BY <1>2, AckIsProgress DEF Survive
  <2>2. C \subseteq C2 /\ c <= c2 /\ c \in Nat /\ c2 \in Nat
    BY <1>1 DEF Survive, IsProgress
  <2>3. ack.cursor \in Nat /\ ack.runtime \in Nat /\ t \in Nat /\ r.runtime \in Nat
    BY StoreAssumption DEF AckRecord, Record, Ticks, Survive, IsProgress
  <2>4. ack.covered \subseteq C2 /\ ack.cursor <= c2 /\ ack.runtime <= r.runtime
    BY <2>1, <2>2, <2>3 DEF AtMost
  <2>5. \A s \in SS : Cov(s, l2) = C2 /\ Cur(s, l2) = c2 /\ Run(s, l2) = r.runtime
    BY <1>1 DEF Files
  <2>. HIDE DEF l2
  <2>. QED
    BY <2>1, <2>4, <2>5 DEF Kept
<1>. QED
  BY <1>1, <1>2 DEF Survive

\* A snapshot of the progress.
LEMMA SaveSurvives ==
    ASSUME NEW SS, NEW JL, NEW l0, NEW C, NEW c, NEW t, NEW ack,
           Survive(SS, JL, l0, C, c, t, ack),
           NEW s0 \in Content,
           Base(s0).covered = C, Base(s0).cursor = c, Base(s0).runtime = t
    PROVE  Survive(SS \cup {s0}, JL, l0, C, c, t, ack)
<1>1. /\ Typed(SS \cup {s0}, JL) /\ Files(SS \cup {s0}, JL, l0, C, c, t)
      /\ \A lines \in JL : Shows(s0, lines, C, c, t)
  BY SaveKeeps DEF Survive
<1>2. ASSUME FsyncKeepsName PROVE Kept(SS \cup {s0}, JL, ack)
  <2>1. AtMost(ack, C, c, t) /\ Kept(SS, JL, ack)
    BY <1>2, AckIsProgress DEF Survive
  <2>. QED
    BY <1>1, <2>1 DEF Kept, AtMost, Shows
<1>. QED
  BY <1>1, <1>2 DEF Survive

\* A cut, or a new journal: the snapshots show the progress without one.
LEMMA CutSurvives ==
    ASSUME NEW SS, NEW JL, NEW l0, NEW C, NEW c, NEW t, NEW ack,
           Survive(SS, JL, l0, C, c, t, ack),
           \A s \in SS : Base(s).covered = C /\ Base(s).cursor = c /\ Base(s).runtime = t
    PROVE  Survive(SS, JL \cup {<<>>}, <<>>, C, c, t, ack)
<1>1. Typed(SS, JL \cup {<<>>}) /\ Files(SS, JL \cup {<<>>}, <<>>, C, c, t)
  BY CutKeeps DEF Survive
<1>2. ASSUME FsyncKeepsName PROVE Kept(SS, JL \cup {<<>>}, ack)
  <2>1. AtMost(ack, C, c, t) /\ Kept(SS, JL, ack)
    BY <1>2, AckIsProgress DEF Survive
  <2>2. \A s \in SS : Cov(s, <<>>) = C /\ Cur(s, <<>>) = c /\ Run(s, <<>>) = t
    BY <1>1 DEF Files
  <2>. QED
    BY <2>1, <2>2 DEF Kept, AtMost
<1>. QED
  BY <1>1, <1>2 DEF Survive

\* A power loss leaves one pair.
LEMMA OnePairSurvives ==
    ASSUME NEW SS, NEW JL, NEW l0, NEW C, NEW c, NEW t, NEW ack,
           Survive(SS, JL, l0, C, c, t, ack), NEW s \in SS, NEW lines \in JL
    PROVE  Survive({s}, {lines}, lines, Cov(s, lines), Cur(s, lines), Run(s, lines), ack)
<1>1. Files({s}, {lines}, lines, Cov(s, lines), Cur(s, lines), Run(s, lines))
  BY OnePairRemains DEF Survive
<1>2. Typed({s}, {lines}) /\ (FsyncKeepsName => Kept({s}, {lines}, ack))
  BY DEF Survive, Typed, Kept
<1>3. IsProgress(Cov(s, lines), Cur(s, lines), Run(s, lines))
  BY <1>2, LineTypes DEF Typed, IsProgress
<1>. QED
  BY <1>1, <1>2, <1>3 DEF Survive

\* When one journal can survive, the progress may be acknowledged.
LEMMA ProgressIsAcknowledged ==
    ASSUME NEW SS, NEW JL, NEW l0, NEW C, NEW c, NEW t, NEW ack,
           Survive(SS, JL, l0, C, c, t, ack), FsyncKeepsName => JL = {l0},
           NEW ack2, AtMost(ack2, C, c, t)
    PROVE  Survive(SS, JL, l0, C, c, t, ack2)
<1>1. ASSUME FsyncKeepsName PROVE Kept(SS, JL, ack2)
  <2>1. Files(SS, {l0}, l0, C, c, t) /\ JL = {l0}
    BY <1>1 DEF Survive
  <2>. QED
    BY <2>1, ProgressIsKept DEF Survive, AtMost
<1>. QED
  BY <1>1 DEF Survive

\* A snapshot that begins a replay as another one does.
LEMMA AliasSurvives ==
    ASSUME NEW SS, NEW JL, NEW l0, NEW C, NEW c, NEW t, NEW ack,
           Survive(SS, JL, l0, C, c, t, ack),
           NEW s \in SS, NEW s0 \in Content, Base(s0) = Base(s)
    PROVE  Survive(SS \cup {s0}, JL, l0, C, c, t, ack)
<1>1. \A lines : /\ Cov(s0, lines) = Cov(s, lines) /\ Cur(s0, lines) = Cur(s, lines)
                 /\ Run(s0, lines) = Run(s, lines) /\ Within(s0, lines) = Within(s, lines)
  BY DEF Cov, Cur, Passed, Run, LastRuntime, Within
<1>2. Files(SS \cup {s0}, JL, l0, C, c, t)
  BY <1>1 DEF Survive, Files
<1>3. FsyncKeepsName => Kept(SS \cup {s0}, JL, ack)
  BY <1>1 DEF Survive, Kept
<1>. QED
  BY <1>2, <1>3 DEF Survive, Typed

-----------------------------------------------------------------------------
(* The files of a state *)

\* None, or a journal whose lines have a header.
GoodJournal(j) == j = None \/ (j \in Journal /\ (~j.header => j.lines = <<>>))

GoodFiles ==
    /\ snapshot \in snapshots /\ snapshots \subseteq Content
    /\ journal \in journals /\ \A j \in journals : GoodJournal(j)

\* What is written to a journal leaves a journal.
LEMMA JournalShapes ==
    ASSUME NEW j \in Journal
    PROVE  /\ Lines(j) = j.lines /\ j.lines \in Seq(Record) /\ j # None
           /\ Torn(j) \in Journal /\ Torn(j).lines = j.lines /\ Torn(j).header = j.header
           /\ [j EXCEPT !.torn = FALSE] \in Journal
           /\ [j EXCEPT !.torn = FALSE].lines = j.lines
           /\ [j EXCEPT !.torn = FALSE].header = j.header
           /\ \A r \in Record : /\ Plus(j, r) \in Journal
                                /\ Plus(j, r).lines = Append(j.lines, r)
                                /\ Plus(j, r).header = j.header
<1>1. j # None /\ Lines(j) = j.lines /\ j.lines \in Seq(Record)
  BY NoneAssumption DEF Lines, Journal
<1>2. /\ Torn(j) \in Journal /\ Torn(j).lines = j.lines /\ Torn(j).header = j.header
  BY DEF Torn, Journal
<1>3. /\ [j EXCEPT !.torn = FALSE] \in Journal
      /\ [j EXCEPT !.torn = FALSE].lines = j.lines
      /\ [j EXCEPT !.torn = FALSE].header = j.header
  BY DEF Journal
<1>4. ASSUME NEW r \in Record
      PROVE  /\ Plus(j, r) \in Journal /\ Plus(j, r).lines = Append(j.lines, r)
             /\ Plus(j, r).header = j.header
  <2>1. Append(j.lines, r) \in Seq(Record)
    BY <1>1
  <2>. QED
    BY <2>1 DEF Plus, Journal
<1>. QED
  BY <1>1, <1>2, <1>3, <1>4

\* The two journals without lines.
LEMMA NewJournals ==
    /\ Empty \in Journal /\ Empty.lines = <<>> /\ Empty # None
    /\ Fresh \in Journal /\ Fresh.lines = <<>> /\ Fresh # None /\ Fresh.header = TRUE
    /\ GoodJournal(None) /\ GoodJournal(Empty) /\ GoodJournal(Fresh)
    /\ GoodJournal(Torn(Empty))
    /\ Lines(None) = <<>> /\ Lines(Empty) = <<>> /\ Lines(Fresh) = <<>>
    /\ Lines(Torn(Empty)) = <<>>
<1>1. <<>> \in Seq(Record)
  OBVIOUS
<1>2. /\ Empty \in Journal /\ Empty.lines = <<>>
      /\ Fresh \in Journal /\ Fresh.lines = <<>> /\ Fresh.header = TRUE
  BY <1>1 DEF Empty, Fresh, Journal
<1>3. Empty # None /\ Fresh # None
  BY <1>2, NoneAssumption
<1>4. /\ Torn(Empty) \in Journal /\ Torn(Empty).lines = <<>> /\ Torn(Empty) # None
  BY <1>2, JournalShapes
<1>5. GoodJournal(None) /\ GoodJournal(Empty) /\ GoodJournal(Fresh)
  BY <1>2 DEF GoodJournal
<1>6. GoodJournal(Torn(Empty))
  BY <1>4 DEF GoodJournal
<1>7. Lines(None) = <<>> /\ Lines(Empty) = <<>> /\ Lines(Fresh) = <<>>
  BY <1>2, <1>3 DEF Lines
<1>8. Lines(Torn(Empty)) = <<>>
  BY <1>4 DEF Lines
<1>. QED
  BY <1>2, <1>3, <1>5, <1>6, <1>7, <1>8

\* The files that may survive have their types.
LEMMA FileTypes ==
    ASSUME TypeOK, HeaderInv
    PROVE  /\ GoodFiles /\ Typed(snapshots, LineSets)
           /\ Lines(journal) \in LineSets /\ snapshots # {}
<1>1. GoodFiles
  <2>1. snapshot \in snapshots /\ snapshots \subseteq Content /\ journal \in journals
    BY DEF TypeOK, Content
  <2>2. ASSUME NEW j \in journals PROVE GoodJournal(j)
    <3>1. j = None \/ j \in Journal
      BY DEF TypeOK
    <3>2. j # None /\ ~j.header => j.lines = <<>>
      BY DEF HeaderInv
    <3>. QED
      BY <3>1, <3>2 DEF GoodJournal
  <2>. QED
    BY <2>1, <2>2 DEF GoodFiles
<1>2. ASSUME NEW j \in journals PROVE Lines(j) \in Seq(Record)
  <2>1. CASE j = None
    BY <2>1, NewJournals
  <2>2. CASE j # None
    <3>1. j \in Journal
      BY <1>1, <2>2 DEF GoodFiles, GoodJournal
    <3>. QED
      BY <3>1, JournalShapes
  <2>. QED
    BY <2>1, <2>2
<1>. QED
  BY <1>1, <1>2 DEF GoodFiles, Typed, LineSets

\* What the invariant says of the files.
LEMMA NowSurvives ==
    ASSUME StoreInv, ~Unprepared
    PROVE  Survive(snapshots, LineSets, Lines(journal),
                   NowCovered, NowCursor, NowRuntime, acked)
<1>1. Typed(snapshots, LineSets) /\ Lines(journal) \in LineSets /\ snapshots # {}
  BY FileTypes DEF StoreInv
<1>2. snapshot \in Content /\ Lines(journal) \in Seq(Record)
  BY <1>1, FileTypes DEF StoreInv, GoodFiles, Typed
<1>3. IsProgress(NowCovered, NowCursor, NowRuntime)
  BY <1>2, LineTypes DEF NowCovered, NowCursor, NowRuntime, IsProgress
<1>. QED
  BY <1>1, <1>3 DEF StoreInv, FilesInv, KeptInv, Survive

\* And what shows that it holds of the next state.
LEMMA NextSurvives ==
    ASSUME snapshot' \in snapshots', NEW C, NEW c, NEW t,
           Survive(snapshots', LineSets', Lines(journal'), C, c, t, acked')
    PROVE  /\ NowCovered' = C /\ NowCursor' = c /\ NowRuntime' = t
           /\ FilesInv' /\ KeptInv'
<1>1. NowCovered' = C /\ NowCursor' = c /\ NowRuntime' = t
  BY DEF NowCovered, NowCursor, NowRuntime, Survive, Files
<1>2. FilesInv'
  BY <1>1 DEF FilesInv, Survive
<1>. QED
  BY <1>1, <1>2 DEF KeptInv, Survive

\* A store that opens is prepared.
LEMMA OpenedIsPrepared ==
    ASSUME TypeOK, UnpreparedInv, Opens(snapshot, journal)
    PROVE  ~Unprepared
BY DEF TypeOK, UnpreparedInv, Unprepared, Opens

-----------------------------------------------------------------------------
(* Steps that show nothing new *)

Quiet == UNCHANGED <<scope, covered, total, cursor, runtime, historyVars>>

\* A synchronized journal is there, or its name never was.
LEMMA SyncedIs ==
    ASSUME NEW j
    PROVE  /\ j \in Synced(j) /\ Synced(j) \subseteq {j} \cup (journals \cap {None})
           /\ FsyncKeepsName => Synced(j) = {j}
BY DEF Synced

\* Files that hold the same lines, or fewer of the same.
LEMMA SameLines ==
    ASSUME StoreInv, ~Unprepared, scope' = scope,
           snapshots' \subseteq snapshots, snapshot' \in snapshots', journal' \in journals',
           \A j \in journals' : GoodJournal(j) /\ Lines(j) \in LineSets,
           Lines(journal') = Lines(journal)
    PROVE  /\ GoodFiles'
           /\ Survive(snapshots', LineSets', Lines(journal'),
                      NowCovered, NowCursor, NowRuntime, acked)
           /\ CountInv' /\ ~Unprepared'
<1>1. GoodFiles /\ TypeOK /\ CountInv
  BY FileTypes DEF StoreInv
<1>2. GoodFiles'
  BY <1>1 DEF GoodFiles
<1>3. LineSets' \subseteq LineSets /\ Lines(journal) \in LineSets'
  BY DEF LineSets
<1>4. Survive(snapshots', LineSets', Lines(journal), NowCovered, NowCursor, NowRuntime, acked)
  BY <1>3, NowSurvives, FewerSurvive
<1>5. CountInv' /\ ~Unprepared'
  BY <1>1 DEF CountInv, Unprepared, plan
<1>. QED
  BY <1>2, <1>4, <1>5

Steps == {"down", "prepare", "ready", "save", "truncate", "header"}

\* Where the files go on showing the same progress, and the memory is left alone.
LEMMA QuietStep ==
    ASSUME StoreInv, ~Unprepared, Quiet, step' \in Steps, poisoned' \in BOOLEAN,
           GoodFiles', CountInv', ~Unprepared',
           Survive(snapshots', LineSets', Lines(journal'),
                   NowCovered, NowCursor, NowRuntime, acked)
    PROVE  /\ TypeOK' /\ UnpreparedInv' /\ FilesInv' /\ KeptInv'
           /\ CountInv' /\ HistoryInv' /\ AckedInv'
           /\ NowCovered' = NowCovered /\ NowCursor' = NowCursor /\ NowRuntime' = NowRuntime
           /\ \A j \in journals' : j # None /\ ~j.header => j.lines = <<>>
<1>1. /\ NowCovered' = NowCovered /\ NowCursor' = NowCursor /\ NowRuntime' = NowRuntime
      /\ FilesInv' /\ KeptInv'
  <2>1. acked' = acked
    BY DEF Quiet, historyVars
  <2>2. snapshot' \in snapshots'
    BY DEF GoodFiles
  <2>. QED
    BY <2>1, <2>2, NextSurvives
<1>2. TypeOK'
  <2>1. TypeOK
    BY DEF StoreInv
  <2>2. /\ scope' \in Scopes /\ covered' \subseteq Blocks
        /\ total' \in 0 .. Cardinality(Blocks) /\ cursor' \in 0 .. Len(plan')
        /\ runtime' \in Ticks
        /\ searched' \subseteq Blocks /\ rechecked' \subseteq 0 .. Len(plan') - 1
    BY <2>1 DEF TypeOK, Quiet, historyVars, plan
  <2>3. /\ snapshot' \in snapshots' /\ \A s \in snapshots' \ {None} : s \in Snapshot
        /\ journal' \in journals' /\ \A j \in journals' \ {None} : j \in Journal
    BY DEF GoodFiles, GoodJournal, Content
  <2>. QED
    BY <2>2, <2>3 DEF TypeOK, Steps
<1>3. UnpreparedInv'
  BY DEF UnpreparedInv
<1>4. HistoryInv' /\ AckedInv'
  BY <1>1 DEF StoreInv, HistoryInv, AckedInv, Quiet, historyVars
<1>5. ASSUME NEW j \in journals', j # None, ~j.header PROVE j.lines = <<>>
  BY <1>5 DEF GoodFiles, GoodJournal
<1>. QED
  BY <1>1, <1>2, <1>3, <1>4, <1>5

-----------------------------------------------------------------------------
(* Compaction *)

\* The files of a store that is up.
LEMMA UpFiles ==
    ASSUME StoreInv, IsUp
    PROVE  /\ ~Unprepared /\ snapshot \in Snapshot /\ snapshot # None
           /\ journal \in Journal /\ journal # None
           /\ GoodFiles /\ TypeOK
<1>1. GoodFiles /\ TypeOK /\ snapshot # None /\ journal # None
  BY FileTypes DEF StoreInv, MemoryInv
<1>2. snapshot \in Snapshot /\ journal \in Journal
  BY <1>1 DEF TypeOK
<1>3. ~Unprepared
  BY DEF StoreInv, UnpreparedInv, IsUp
<1>. QED
  BY <1>1, <1>2, <1>3

\* The snapshot that a compaction saves holds the progress.
LEMMA CurrentIsProgress ==
    ASSUME StoreInv, IsUp, ~poisoned
    PROVE  /\ CurrentSnapshot \in Snapshot /\ CurrentSnapshot # None
           /\ Base(CurrentSnapshot) = CurrentSnapshot
           /\ CurrentSnapshot.covered = NowCovered /\ CurrentSnapshot.cursor = NowCursor
           /\ CurrentSnapshot.runtime = NowRuntime
           /\ CurrentSnapshot.total = Cardinality(CurrentSnapshot.covered)
<1>1. TypeOK /\ covered = NowCovered /\ cursor = NowCursor /\ runtime = NowRuntime
      /\ total = Cardinality(covered)
  BY DEF StoreInv, MemoryInv
<1>2. covered \in SUBSET Blocks /\ total \in Nat /\ cursor \in Cursors /\ runtime \in Ticks
  <2>1. /\ Cardinality(Blocks) \in Nat /\ Len(plan) \in Nat
        /\ Len(plan) <= Cardinality(Blocks)
    BY <1>1, ScopeType DEF TypeOK
  <2>. QED
    BY <1>1, <2>1 DEF TypeOK, Cursors
<1>3. CurrentSnapshot \in Snapshot
  BY <1>2 DEF CurrentSnapshot, Snapshot
<1>4. CurrentSnapshot # None
  BY <1>3, NoneAssumption
<1>5. Base(CurrentSnapshot) = CurrentSnapshot
  BY <1>4 DEF Base
<1>. QED
  BY <1>1, <1>3, <1>4, <1>5 DEF CurrentSnapshot

\* What a quiet step of a store that is up has to leave behind.
Left ==
    /\ TypeOK' /\ UnpreparedInv' /\ FilesInv' /\ KeptInv'
    /\ CountInv' /\ HistoryInv' /\ AckedInv'
    /\ NowCovered' = NowCovered /\ NowCursor' = NowCursor /\ NowRuntime' = NowRuntime
    /\ \A j \in journals' : j # None /\ ~j.header => j.lines = <<>>

\* A save of the current snapshot.
LEMMA SaveLeaves ==
    ASSUME StoreInv, step = "save", Quiet, poisoned' = poisoned, step' \in Steps,
           journal' = journal, journals' \subseteq journals, journal \in journals',
           snapshots' \subseteq snapshots \cup {CurrentSnapshot}, snapshot' \in snapshots'
    PROVE  Left
<1>1. /\ IsUp /\ ~poisoned /\ ~Unprepared /\ GoodFiles /\ TypeOK
      /\ snapshot # None /\ journal # None
  <2>1. IsUp /\ ~poisoned
    BY DEF StoreInv, MemoryInv, IsUp
  <2>. QED
    BY <2>1, UpFiles
<1>2. CurrentSnapshot \in Content /\ CurrentSnapshot # None
  BY <1>1, CurrentIsProgress DEF Content
<1>3. Survive(snapshots \cup {CurrentSnapshot}, LineSets, Lines(journal),
              NowCovered, NowCursor, NowRuntime, acked)
  BY <1>1, <1>2, NowSurvives, CurrentIsProgress, SaveSurvives
<1>4. LineSets' \subseteq LineSets /\ Lines(journal) \in LineSets'
  BY DEF LineSets
<1>5. Survive(snapshots', LineSets', Lines(journal'),
              NowCovered, NowCursor, NowRuntime, acked)
  <2>1. snapshots' # {}
    OBVIOUS
  <2>. QED
    BY <1>3, <1>4, <2>1, FewerSurvive
<1>6. GoodFiles'
  BY <1>1, <1>2 DEF GoodFiles
<1>7. CountInv'
  BY <1>1, CurrentIsProgress DEF StoreInv, CountInv
<1>8. ~Unprepared'
  BY <1>1, <1>2 DEF Unprepared, Quiet, plan
<1>9. poisoned' \in BOOLEAN
  BY <1>1 DEF TypeOK
<1>. QED
  BY <1>1, <1>5, <1>6, <1>7, <1>8, <1>9, QuietStep DEF Left

\* Where the journal has a header and the memory is what the files show.
LEMMA SaveSteps ==
    ASSUME StoreInv, SaveSnapshot \/ SaveSnapshotFails
    PROVE  StoreInv'
<1>1. /\ step = "save" /\ IsUp /\ ~poisoned /\ GoodFiles /\ snapshot # None /\ journal # None
      /\ covered = NowCovered /\ cursor = NowCursor /\ runtime = NowRuntime
      /\ total = Cardinality(covered) /\ journal.header
  <2>1. step = "save"
    BY DEF SaveSnapshot, SaveSnapshotFails
  <2>2. IsUp /\ ~poisoned /\ journal.header
    BY <2>1 DEF StoreInv, MemoryInv, HeaderInv, IsUp
  <2>3. total = Cardinality(covered)
    BY <2>2 DEF StoreInv, MemoryInv
  <2>. QED
    BY <2>1, <2>2, <2>3, UpFiles DEF StoreInv, MemoryInv
<1>2. /\ Quiet /\ poisoned' = poisoned /\ step' \in Steps /\ journal' = journal
      /\ step' \in {"ready", "truncate"}
  BY DEF SaveSnapshot, SaveSnapshotFails, SaveDurably, SaveFails, Quiet, memoryVars,
         journalVars, Steps
<1>3. journals' \subseteq journals /\ journal \in journals'
  <2>1. CASE SaveSnapshot
    BY <1>1, <2>1 DEF SaveSnapshot, SaveDurably, JournalNamed, GoodFiles
  <2>2. CASE SaveSnapshotFails
    BY <1>1, <2>2 DEF SaveSnapshotFails, SaveFails, journalVars, GoodFiles
  <2>. QED
    BY <2>1, <2>2
<1>4. /\ snapshots' \subseteq snapshots \cup {CurrentSnapshot} /\ snapshot' \in snapshots'
      /\ snapshot' \in {snapshot, CurrentSnapshot}
      /\ step' = "truncate" => snapshot' = CurrentSnapshot /\ snapshots' = {snapshot'}
  <2>1. CASE SaveSnapshot
    BY <2>1 DEF SaveSnapshot, SaveDurably, SettleSnapshot
  <2>2. CASE SaveSnapshotFails
    <3>1. step' # "truncate"
      BY <2>2 DEF SaveSnapshotFails
    <3>2. UNCHANGED snapshotVars
            \/ (snapshot' = CurrentSnapshot /\ snapshots' = snapshots \cup {CurrentSnapshot})
      BY <2>2 DEF SaveSnapshotFails, SaveFails
    <3>. QED
      BY <1>1, <3>1, <3>2 DEF GoodFiles, snapshotVars
  <2>. QED
    BY <2>1, <2>2
<1>5. Left
  BY <1>1, <1>2, <1>3, <1>4, SaveLeaves
<1>6. MemoryInv'
  <2>1. snapshot' # None /\ journal' # None /\ CurrentSnapshot' = CurrentSnapshot
    BY <1>1, <1>2, <1>4, CurrentIsProgress DEF Quiet, CurrentSnapshot
  <2>2. ~poisoned' /\ step' # "header" /\ step' # "prepare"
    BY <1>1, <1>2
  <2>3. /\ covered' = NowCovered' /\ cursor' = NowCursor' /\ runtime' = NowRuntime'
        /\ total' = Cardinality(covered')
    BY <1>1, <1>2, <1>5 DEF Left, Quiet
  <2>4. step' = "truncate" => Base(snapshot') = CurrentSnapshot /\ snapshots' = {snapshot'}
    BY <1>1, <1>4, CurrentIsProgress
  <2>. QED
    BY <1>2, <2>1, <2>2, <2>3, <2>4 DEF MemoryInv
<1>7. HeaderInv'
  BY <1>1, <1>2, <1>5 DEF Left, HeaderInv
<1>. QED
  BY <1>5, <1>6, <1>7 DEF Left, StoreInv

\* A step that leaves the lines as they are.
LEMMA LinesLeave ==
    ASSUME StoreInv, ~Unprepared, Quiet, step' \in Steps, poisoned' \in BOOLEAN,
           snapshots' \subseteq snapshots, snapshot' \in snapshots', journal' \in journals',
           \A j \in journals' : GoodJournal(j) /\ Lines(j) \in LineSets,
           Lines(journal') = Lines(journal)
    PROVE  Left
BY SameLines, QuietStep DEF Left, Quiet

\* The memory after a quiet step of a store that stays up.
LEMMA QuietMemory ==
    ASSUME StoreInv, IsUp, Quiet, Left, poisoned' \in BOOLEAN, ~poisoned' => ~poisoned,
           snapshot' # None, journal' # None, step' # "prepare",
           step' \in {"save", "truncate", "header"} => ~poisoned',
           step' \in {"truncate", "header"} =>
             snapshots' = {snapshot'} /\ Base(snapshot') = CurrentSnapshot,
           step' = "header" => Lines(journal') = <<>>
    PROVE  MemoryInv'
<1>1. CurrentSnapshot' = CurrentSnapshot
  BY DEF Quiet, CurrentSnapshot
<1>2. total' = Cardinality(covered')
  BY DEF StoreInv, MemoryInv, Quiet
<1>3. ASSUME ~poisoned'
      PROVE  covered' = NowCovered' /\ cursor' = NowCursor' /\ runtime' = NowRuntime'
  <2>1. ~poisoned
    BY <1>3
  <2>. QED
    BY <2>1 DEF StoreInv, MemoryInv, Quiet, Left
<1>. QED
  BY <1>1, <1>2, <1>3 DEF MemoryInv

\* Compaction is due, or cannot go on: the files are left alone.
LEMMA IdleSteps ==
    ASSUME StoreInv, PersistNothing \/ TruncateRefused
    PROVE  StoreInv'
<1>1. /\ IsUp /\ step \in {"ready", "truncate"} /\ ~poisoned /\ ~Unprepared
      /\ GoodFiles /\ TypeOK /\ snapshot # None /\ journal # None /\ journal.header
  <2>1. step \in {"ready", "truncate"} /\ ~poisoned
    BY DEF PersistNothing, TruncateRefused, Healthy, StoreInv, MemoryInv
  <2>2. IsUp /\ journal.header
    BY <2>1 DEF IsUp, StoreInv, HeaderInv
  <2>. QED
    BY <2>1, <2>2, UpFiles
<1>2. /\ Quiet /\ poisoned' = poisoned /\ step' \in {"ready", "save"}
      /\ snapshot' = snapshot /\ snapshots' = snapshots /\ journal' = journal
  BY DEF PersistNothing, TruncateRefused, Quiet, memoryVars, snapshotVars, journalVars
<1>3. journals' \subseteq journals /\ journal' \in journals'
  <2>1. CASE UNCHANGED journals
    BY <1>1, <1>2, <2>1 DEF GoodFiles
  <2>2. CASE journals' = Synced(journal)
    BY <1>1, <1>2, <2>2, SyncedIs DEF GoodFiles
  <2>. QED
    BY <2>1, <2>2 DEF PersistNothing, TruncateRefused, journalVars
<1>4. Left
  <2>1. \A j \in journals' : GoodJournal(j) /\ Lines(j) \in LineSets
    BY <1>1, <1>3 DEF GoodFiles, LineSets
  <2>2. poisoned' \in BOOLEAN
    BY <1>1, <1>2 DEF TypeOK
  <2>3. step' \in Steps
    BY <1>2 DEF Steps
  <2>4. snapshots' \subseteq snapshots /\ snapshot' \in snapshots'
    BY <1>1, <1>2 DEF GoodFiles
  <2>5. Lines(journal') = Lines(journal)
    BY <1>2
  <2>. QED
    BY <1>1, <1>2, <1>3, <2>1, <2>2, <2>3, <2>4, <2>5, LinesLeave
<1>5. MemoryInv'
  <2>1. poisoned' \in BOOLEAN /\ ~poisoned'
    BY <1>1, <1>2 DEF TypeOK
  <2>. QED
    BY <1>1, <1>2, <1>4, <2>1, QuietMemory
<1>6. HeaderInv'
  BY <1>1, <1>2, <1>4 DEF Left, HeaderInv
<1>. QED
  BY <1>4, <1>5, <1>6 DEF Left, StoreInv

\* The journal is cut, or was to be.
LEMMA TruncateSteps ==
    ASSUME StoreInv, TruncateJournal \/ TruncateJournalFails
    PROVE  StoreInv'
<1>1. /\ IsUp /\ step = "truncate" /\ ~poisoned /\ ~Unprepared
      /\ GoodFiles /\ TypeOK /\ snapshot # None /\ journal # None
      /\ snapshots = {snapshot} /\ Base(snapshot) = CurrentSnapshot
      /\ CurrentSnapshot.covered = NowCovered /\ CurrentSnapshot.cursor = NowCursor
      /\ CurrentSnapshot.runtime = NowRuntime
  <2>1. step = "truncate"
    BY DEF TruncateJournal, TruncateJournalFails
  <2>2. IsUp /\ ~poisoned /\ snapshots = {snapshot} /\ Base(snapshot) = CurrentSnapshot
    BY <2>1 DEF IsUp, StoreInv, MemoryInv
  <2>. QED
    BY <2>1, <2>2, UpFiles, CurrentIsProgress
<1>2. /\ Quiet /\ snapshot' = snapshot /\ snapshots' = snapshots
      /\ step' \in {"ready", "header"} /\ poisoned' \in BOOLEAN
      /\ step' = "header" => ~poisoned' /\ journal' = Empty
      /\ step' = "ready" => poisoned'
  <2>1. CASE TruncateJournal
    <3>1. poisoned' = poisoned /\ step' = "header" /\ journal' = Empty
      BY <2>1 DEF TruncateJournal, TruncateDurably, memoryVars
    <3>. QED
      BY <1>1, <2>1, <3>1 DEF TruncateJournal, Quiet, memoryVars, snapshotVars, TypeOK
  <2>2. CASE TruncateJournalFails
    <3>1. poisoned' = TRUE /\ step' = "ready"
      BY <2>2 DEF TruncateJournalFails
    <3>. QED
      BY <2>2, <3>1 DEF TruncateJournalFails, Quiet, snapshotVars
  <2>. QED
    BY <2>1, <2>2
<1>3. /\ journals' \subseteq journals \cup {Empty} /\ journal' \in journals'
      /\ journal' \in {journal, Empty}
  <2>1. CASE TruncateJournal
    <3>1. journal' = Empty /\ journals' = Synced(Empty)
      BY <2>1 DEF TruncateJournal, TruncateDurably
    <3>. QED
      BY <3>1, SyncedIs
  <2>2. CASE TruncateJournalFails
    <3>1. \/ journal' = journal /\ journals' = journals
          \/ journal' = Empty /\ journals' = journals \cup {Empty}
      BY <2>2 DEF TruncateJournalFails, TruncateFails, journalVars
    <3>. QED
      BY <1>1, <3>1 DEF GoodFiles
  <2>. QED
    BY <2>1, <2>2
<1>4. Survive(snapshots', LineSets', Lines(journal'),
              NowCovered, NowCursor, NowRuntime, acked)
  <2>1. LineSets' \subseteq LineSets \cup {<<>>} /\ Lines(journal') \in LineSets'
    BY <1>3, NewJournals DEF LineSets
  <2>2. Survive(snapshots, LineSets \cup {<<>>}, <<>>,
                NowCovered, NowCursor, NowRuntime, acked)
    BY <1>1, NowSurvives, CutSurvives
  <2>3. CASE journal' = Empty
    BY <1>2, <2>1, <2>2, <2>3, NewJournals, FewerSurvive DEF Survive
  <2>4. CASE journal' = journal /\ <<>> \notin LineSets'
    <3>1. Survive(snapshots, LineSets, Lines(journal),
                  NowCovered, NowCursor, NowRuntime, acked)
      BY <1>1, NowSurvives
    <3>2. /\ LineSets' \subseteq LineSets /\ Lines(journal) \in LineSets'
          /\ Lines(journal') = Lines(journal) /\ snapshots # {}
      BY <1>1, <2>1, <2>4
    <3>3. Survive(snapshots, LineSets', Lines(journal),
                  NowCovered, NowCursor, NowRuntime, acked)
      BY <3>1, <3>2, FewerSurvive
    <3>. QED
      BY <1>2, <3>2, <3>3
  <2>5. CASE journal' = journal /\ <<>> \in LineSets'
    <3>1. Survive(snapshots, LineSets \cup {<<>>}, Lines(journal),
                  NowCovered, NowCursor, NowRuntime, acked)
      <4>1. Survive(snapshots, LineSets, Lines(journal),
                    NowCovered, NowCursor, NowRuntime, acked)
        BY <1>1, NowSurvives
      <4>2. Files(snapshots, LineSets \cup {<<>>}, Lines(journal),
                  NowCovered, NowCursor, NowRuntime)
        BY <2>2, <4>1 DEF Survive, Files
      <4>. QED
        BY <2>2, <4>1, <4>2 DEF Survive
    <3>2. Lines(journal) \in LineSets' /\ snapshots # {} /\ Lines(journal') = Lines(journal)
      BY <1>1, <2>1, <2>5
    <3>3. Survive(snapshots, LineSets', Lines(journal),
                  NowCovered, NowCursor, NowRuntime, acked)
      BY <2>1, <3>1, <3>2, FewerSurvive
    <3>. QED
      BY <1>2, <3>2, <3>3
  <2>. QED
    BY <1>3, <2>3, <2>4, <2>5
<1>5. GoodFiles' /\ CountInv' /\ ~Unprepared'
  <2>1. \A j \in journals' : GoodJournal(j)
    BY <1>1, <1>3, NewJournals DEF GoodFiles
  <2>2. snapshot' \in snapshots' /\ snapshots' \subseteq Content
    BY <1>1, <1>2 DEF GoodFiles
  <2>3. CountInv' /\ ~Unprepared'
    BY <1>1, <1>2 DEF StoreInv, CountInv, Unprepared, Quiet, plan
  <2>. QED
    BY <1>3, <2>1, <2>2, <2>3 DEF GoodFiles
<1>6. Left
  <2>1. step' \in Steps
    BY <1>2 DEF Steps
  <2>. QED
    BY <1>1, <1>2, <1>4, <1>5, <2>1, QuietStep DEF Left
<1>7. MemoryInv'
  <2>1. journal' # None /\ (journal' = Empty => Lines(journal') = <<>>)
    BY <1>1, <1>3, NewJournals
  <2>2. snapshot' # None /\ step' # "prepare" /\ (~poisoned' => ~poisoned)
    BY <1>1, <1>2
  <2>3. step' \in {"save", "truncate", "header"} => ~poisoned'
    BY <1>2
  <2>. QED
    BY <1>1, <1>2, <1>6, <2>1, <2>2, <2>3, QuietMemory
<1>8. HeaderInv'
  BY <1>2, <1>6 DEF Left, HeaderInv
<1>. QED
  BY <1>6, <1>7, <1>8 DEF Left, StoreInv

\* A header written where there are no lines shows no more and no less.
LEMMA HeaderLines ==
    ASSUME GoodFiles, Lines(journal) = <<>>, WriteHeaderDurably \/ WriteHeaderFails
    PROVE  /\ snapshot' = snapshot /\ snapshots' \subseteq snapshots /\ snapshot' \in snapshots'
           /\ journal' \in journals' /\ Lines(journal') = Lines(journal) /\ journal' # None
           /\ \A j \in journals' : GoodJournal(j) /\ Lines(j) \in LineSets
           /\ WriteHeaderDurably => journal'.header
           /\ None \notin journals => None \notin journals'
<1>1. /\ snapshot' = snapshot /\ snapshots' \subseteq snapshots /\ snapshot' \in snapshots'
  BY DEF WriteHeaderDurably, SettleSnapshot, WriteHeaderFails, snapshotVars, GoodFiles
<1>. DEFINE New == {Empty, Torn(Empty), Fresh}
<1>2. /\ journal' \in New /\ journal' \in journals' /\ journals' \subseteq journals \cup New
      /\ WriteHeaderDurably => journal' = Fresh
  <2>1. CASE WriteHeaderDurably
    BY <2>1 DEF WriteHeaderDurably
  <2>2. CASE WriteHeaderFails
    <3>1. \/ journal' = Empty /\ journals' = journals \cup {Empty}
          \/ journal' = Torn(Empty) /\ journals' = journals \cup {Empty, Torn(Empty)}
          \/ journal' = Fresh /\ journals' = journals \cup {Empty, Torn(Empty), Fresh}
          \/ journal' = Fresh /\ journals' = Synced(Fresh)
      BY <2>2 DEF WriteHeaderFails
    <3>2. Fresh \in Synced(Fresh) /\ Synced(Fresh) \subseteq journals \cup {Fresh}
      BY SyncedIs
    <3>3. WriteHeaderDurably => journal' = Fresh
      BY DEF WriteHeaderDurably
    <3>. QED
      BY <3>1, <3>2, <3>3
  <2>. QED
    BY <2>1, <2>2
<1>3. /\ \A j \in New : GoodJournal(j) /\ Lines(j) = <<>>
      /\ Empty # None /\ Torn(Empty) # None /\ Fresh # None /\ Fresh.header
  BY NewJournals, JournalShapes, NoneAssumption
<1>4. \A j \in journals' : GoodJournal(j) /\ Lines(j) \in LineSets
  <2>1. \A j \in journals : GoodJournal(j) /\ Lines(j) \in LineSets
    BY DEF GoodFiles, LineSets
  <2>2. <<>> \in LineSets
    BY DEF GoodFiles, LineSets
  <2>. HIDE DEF New
  <2>. QED
    BY <1>2, <1>3, <2>1, <2>2
<1>5. None \notin journals => None \notin journals'
  BY <1>2, <1>3
<1>. QED
  BY <1>1, <1>2, <1>3, <1>4, <1>5

\* The new journal gets its header, or does not.
LEMMA HeaderSteps ==
    ASSUME StoreInv, WriteHeader \/ WriteHeaderPoisons
    PROVE  StoreInv'
<1>1. /\ IsUp /\ step = "header" /\ ~poisoned /\ Lines(journal) = <<>> /\ ~Unprepared
      /\ GoodFiles /\ TypeOK /\ snapshot # None
  <2>1. step = "header"
    BY DEF WriteHeader, WriteHeaderPoisons
  <2>2. IsUp /\ ~poisoned /\ Lines(journal) = <<>>
    BY <2>1 DEF IsUp, StoreInv, MemoryInv
  <2>. QED
    BY <2>1, <2>2, UpFiles
<1>2. WriteHeaderDurably \/ WriteHeaderFails
  BY DEF WriteHeader, WriteHeaderPoisons
<1>3. /\ snapshot' = snapshot /\ snapshots' \subseteq snapshots /\ snapshot' \in snapshots'
      /\ journal' \in journals' /\ Lines(journal') = Lines(journal) /\ journal' # None
      /\ \A j \in journals' : GoodJournal(j) /\ Lines(j) \in LineSets
      /\ WriteHeaderDurably => journal'.header
  BY <1>1, <1>2, HeaderLines
<1>4. Quiet /\ step' = "ready" /\ poisoned' \in BOOLEAN
  <2>1. CASE WriteHeader
    BY <1>1, <2>1 DEF WriteHeader, Quiet, memoryVars, TypeOK
  <2>2. CASE WriteHeaderPoisons
    BY <2>2 DEF WriteHeaderPoisons, Quiet
  <2>. QED
    BY <2>1, <2>2
<1>5. ~poisoned' => journal'.header
  <2>1. CASE WriteHeader
    BY <1>3, <2>1 DEF WriteHeader
  <2>2. CASE WriteHeaderPoisons
    BY <2>2 DEF WriteHeaderPoisons
  <2>. QED
    BY <2>1, <2>2
<1>6. Left
  BY <1>1, <1>3, <1>4, LinesLeave DEF Steps
<1>7. MemoryInv'
  <2>1. snapshot' # None /\ (~poisoned' => ~poisoned)
    BY <1>1, <1>3
  <2>. QED
    BY <1>1, <1>3, <1>4, <1>6, <2>1, QuietMemory
<1>8. HeaderInv'
  BY <1>5, <1>6 DEF Left, HeaderInv
<1>. QED
  BY <1>6, <1>7, <1>8 DEF Left, StoreInv

-----------------------------------------------------------------------------
(* Opening *)

\* A quiet step of a store that is down and stays down.
LEMMA DownSteps ==
    ASSUME StoreInv, Quiet, Left, step' = "down"
    PROVE  StoreInv'
<1>1. MemoryInv'
  BY DEF StoreInv, MemoryInv, IsUp, Quiet
<1>2. HeaderInv'
  BY DEF Left, HeaderInv
<1>. QED
  BY <1>1, <1>2 DEF Left, StoreInv

\* The first snapshot of a store without a scope holds nothing.
LEMMA CreateSnapshotStep ==
    ASSUME StoreInv, CreateSnapshot
    PROVE  StoreInv'
<1>1. /\ step = "down" /\ snapshot = None /\ plan = <<>> /\ ~Unprepared /\ GoodFiles /\ TypeOK
  BY FileTypes DEF CreateSnapshot, Unprepared, StoreInv
<1>2. /\ NewStore \in Content /\ Base(NewStore) = NewStore /\ Base(snapshot) = NewStore
      /\ NewStore.total = Cardinality(NewStore.covered)
  <2>1. NewStore \in Snapshot
    BY StoreAssumption, FS_CardinalityType DEF NewStore, Snapshot, Cursors, Ticks
  <2>2. Cardinality({}) = 0
    BY FS_EmptySet
  <2>3. NewStore.total = 0 /\ NewStore.covered = {}
    BY DEF NewStore
  <2>. QED
    BY <1>1, <2>1, <2>2, <2>3, NoneAssumption DEF Content, Base
<1>3. Survive(snapshots \cup {NewStore}, LineSets, Lines(journal),
              NowCovered, NowCursor, NowRuntime, acked)
  BY <1>1, <1>2, NowSurvives, AliasSurvives DEF GoodFiles
<1>4. /\ Quiet /\ poisoned' = poisoned /\ step' = "down" /\ journal' = journal
      /\ scope' = scope
  BY <1>1 DEF CreateSnapshot, Quiet, memoryVars, SaveDurably, SaveFails, journalVars
<1>5. /\ snapshots' \subseteq snapshots \cup {NewStore} /\ snapshot' \in snapshots'
      /\ journals' \subseteq journals /\ journal \in journals'
  <2>1. CASE SaveDurably(NewStore)
    BY <1>1, <2>1 DEF SaveDurably, SettleSnapshot, JournalNamed, GoodFiles
  <2>2. CASE SaveFails(NewStore)
    BY <1>1, <2>2 DEF SaveFails, snapshotVars, journalVars, GoodFiles
  <2>. QED
    BY <2>1, <2>2 DEF CreateSnapshot
<1>6. LineSets' \subseteq LineSets /\ Lines(journal) \in LineSets' /\ snapshots' # {}
  BY <1>5 DEF LineSets
<1>7. Survive(snapshots', LineSets', Lines(journal'),
              NowCovered, NowCursor, NowRuntime, acked)
  BY <1>3, <1>4, <1>5, <1>6, FewerSurvive
<1>8. GoodFiles' /\ CountInv' /\ ~Unprepared' /\ step' \in Steps
  <2>1. GoodFiles'
    BY <1>1, <1>2, <1>4, <1>5 DEF GoodFiles
  <2>2. CountInv'
    BY <1>2, <1>5 DEF StoreInv, CountInv
  <2>3. ~Unprepared'
    BY <1>1, <1>4 DEF Unprepared, plan
  <2>. QED
    BY <1>4, <2>1, <2>2, <2>3 DEF Steps
<1>9. poisoned' \in BOOLEAN
  BY <1>1, <1>4 DEF TypeOK
<1>. QED
  BY <1>1, <1>4, <1>7, <1>8, <1>9, QuietStep, DownSteps DEF Left

\* The repaired journal of an open holds the lines it held.
LEMMA TrimmedLines ==
    ASSUME GoodFiles, HasHeader
    PROVE  /\ GoodJournal(Trimmed) /\ Lines(Trimmed) = Lines(journal)
           /\ Trimmed # None /\ Trimmed.header /\ Lines(Trimmed) \in LineSets
<1>1. journal \in Journal
  BY DEF GoodFiles, GoodJournal, HasHeader
<1>2. /\ Trimmed \in Journal /\ Trimmed.lines = journal.lines /\ Trimmed.header = journal.header
      /\ Lines(journal) = journal.lines
  BY <1>1, JournalShapes DEF Trimmed
<1>3. Trimmed # None /\ Lines(Trimmed) = Trimmed.lines
  BY <1>2, JournalShapes
<1>4. Lines(journal) \in LineSets
  BY DEF GoodFiles, LineSets
<1>. QED
  BY <1>2, <1>3, <1>4 DEF GoodJournal, HasHeader

\* An open that fails after its checks leaves the files showing what they showed.
LEMMA OpenFailsSteps ==
    ASSUME StoreInv, OpenFails \/ RepairFails
    PROVE  StoreInv'
<1>1. /\ step = "down" /\ snapshot # None /\ ~Unprepared /\ GoodFiles /\ TypeOK
  BY FileTypes, OpenedIsPrepared DEF OpenFails, RepairFails, StoreInv
<1>2. Quiet /\ poisoned' = poisoned /\ step' = "down"
  BY <1>1 DEF OpenFails, RepairFails, Quiet, memoryVars
<1>3. /\ snapshots' \subseteq snapshots /\ snapshot' \in snapshots' /\ journal' \in journals'
      /\ \A j \in journals' : GoodJournal(j) /\ Lines(j) \in LineSets
      /\ Lines(journal') = Lines(journal)
  <2>1. CASE OpenFails
    <3>1. Lines(journal) = <<>>
      BY <1>1, <2>1 DEF OpenFails, HasHeader, GoodFiles, GoodJournal, Lines
    <3>. QED
      BY <1>1, <2>1, <3>1, HeaderLines DEF OpenFails
  <2>2. CASE RepairFails
    <3>1. \A j \in journals : GoodJournal(j) /\ Lines(j) \in LineSets
      BY <1>1 DEF GoodFiles, LineSets
    <3>2. /\ snapshots' = snapshots /\ snapshot' = snapshot
          /\ journal' = Trimmed /\ journals' = journals \cup {Trimmed} /\ HasHeader
      BY <2>2 DEF RepairFails, snapshotVars
    <3>. QED
      BY <1>1, <3>1, <3>2, TrimmedLines DEF GoodFiles
  <2>. QED
    BY <2>1, <2>2
<1>4. poisoned' \in BOOLEAN /\ step' \in Steps
  BY <1>1, <1>2 DEF TypeOK, Steps
<1>5. Left
  BY <1>1, <1>2, <1>3, <1>4, LinesLeave
<1>. QED
  BY <1>2, <1>5, DownSteps

\* The memory of a store, and what has been searched.
MemoryTypes ==
    /\ scope \in Scopes /\ step \in Steps
    /\ covered \subseteq Blocks /\ total \in 0 .. Cardinality(Blocks)
    /\ cursor \in 0 .. Len(plan) /\ runtime \in Ticks
    /\ searched \subseteq Blocks /\ rechecked \subseteq 0 .. Len(plan) - 1

\* With files and a memory of their types, the state has its type.
LEMMA NextTypes ==
    ASSUME GoodFiles', MemoryTypes', poisoned' \in BOOLEAN
    PROVE  TypeOK' /\ \A j \in journals' : j # None /\ ~j.header => j.lines = <<>>
<1>1. /\ snapshot' \in snapshots' /\ \A s \in snapshots' \ {None} : s \in Snapshot
      /\ journal' \in journals' /\ \A j \in journals' \ {None} : j \in Journal
  BY DEF GoodFiles, GoodJournal, Content
<1>2. ASSUME NEW j \in journals', j # None, ~j.header PROVE j.lines = <<>>
  BY <1>2 DEF GoodFiles, GoodJournal
<1>. QED
  BY <1>1, <1>2 DEF TypeOK, MemoryTypes, Steps

\* What a start loads is what the files show.
LEMMA LoadShows ==
    ASSUME StoreInv, Load
    PROVE  /\ ~Unprepared /\ snapshot # None
           /\ covered' = NowCovered /\ cursor' = NowCursor /\ runtime' = NowRuntime
           /\ total' = Cardinality(covered') /\ MemoryTypes'
           /\ ~poisoned' /\ poisoned' \in BOOLEAN /\ step' = "ready"
           /\ UNCHANGED <<scope, historyVars>>
<1>1. /\ snapshot # None /\ ~Unprepared /\ poisoned' = FALSE /\ step' = "ready"
      /\ UNCHANGED <<scope, historyVars>>
  BY OpenedIsPrepared DEF Load, StoreInv
<1>2. /\ TypeOK /\ snapshot \in Content /\ Lines(journal) \in Seq(Record)
      /\ Base(snapshot).total = Cardinality(Base(snapshot).covered)
  <2>1. GoodFiles /\ Typed(snapshots, LineSets) /\ Lines(journal) \in LineSets
    BY FileTypes DEF StoreInv
  <2>. QED
    BY <2>1 DEF Typed, GoodFiles, StoreInv, CountInv
<1>3. /\ covered' = Replayed(snapshot, journal).covered
      /\ total' = Replayed(snapshot, journal).total
      /\ cursor' = Replayed(snapshot, journal).cursor
      /\ runtime' = Replayed(snapshot, journal).runtime
  BY DEF Load
<1>4. /\ covered' = NowCovered /\ cursor' = NowCursor /\ runtime' = NowRuntime
      /\ total' = Cardinality(covered')
  BY <1>2, <1>3, ReplayShows DEF NowCovered, NowCursor, NowRuntime
<1>5. /\ NowCovered \subseteq Blocks /\ NowCursor \in Nat /\ NowRuntime \in Ticks
  BY <1>2, LineTypes DEF NowCovered, NowCursor, NowRuntime
<1>6. NowCursor <= Len(plan)
  <2>1. Len(plan) \in Nat /\ rechecked \subseteq 0 .. Len(plan) - 1
    BY <1>2, ScopeType DEF TypeOK
  <2>2. \A o \in 0 .. NowCursor - 1 : o \in rechecked
    BY DEF StoreInv, HistoryInv
  <2>3. NowCursor > Len(plan) => Len(plan) \in 0 .. NowCursor - 1
    BY <1>5, <2>1
  <2>. QED
    BY <1>5, <2>1, <2>2, <2>3
<1>7. total' \in 0 .. Cardinality(Blocks)
  <2>1. IsFiniteSet(Blocks) /\ covered' \subseteq Blocks
    BY <1>4, <1>5, StoreAssumption
  <2>2. /\ Cardinality(covered') <= Cardinality(Blocks)
        /\ Cardinality(covered') \in Nat /\ Cardinality(Blocks) \in Nat
    BY <2>1, FS_Subset, FS_CardinalityType
  <2>. QED
    BY <1>4, <2>2
<1>8. MemoryTypes'
  <2>1. scope' = scope /\ searched' = searched /\ rechecked' = rechecked /\ plan' = plan
    BY <1>1 DEF historyVars, plan
  <2>2. cursor' \in 0 .. Len(plan)
    BY <1>2, <1>4, <1>5, <1>6, ScopeType DEF TypeOK
  <2>. QED
    BY <1>1, <1>2, <1>4, <1>5, <1>7, <2>1, <2>2 DEF MemoryTypes, TypeOK, Steps
<1>. QED
  BY <1>1, <1>4, <1>8

\* A start finds a header, cuts a torn tail, or writes the header anew.
LEMMA LoadSteps ==
    ASSUME StoreInv, OpenWithHeader \/ OpenWithoutHeader
    PROVE  StoreInv'
<1>1. Load /\ GoodFiles
  BY FileTypes DEF OpenWithHeader, OpenWithoutHeader, StoreInv
<1>2. /\ ~Unprepared /\ snapshot # None
      /\ covered' = NowCovered /\ cursor' = NowCursor /\ runtime' = NowRuntime
      /\ total' = Cardinality(covered') /\ MemoryTypes'
      /\ ~poisoned' /\ poisoned' \in BOOLEAN /\ step' = "ready"
      /\ UNCHANGED <<scope, historyVars>>
  BY <1>1, LoadShows
<1>3. /\ snapshots' \subseteq snapshots /\ snapshot' \in snapshots' /\ journal' \in journals'
      /\ \A j \in journals' : GoodJournal(j) /\ Lines(j) \in LineSets
      /\ Lines(journal') = Lines(journal)
      /\ snapshot' = snapshot /\ journal' # None /\ journal'.header
  <2>1. CASE OpenWithoutHeader
    <3>1. Lines(journal) = <<>>
      BY <1>1, <2>1 DEF OpenWithoutHeader, HasHeader, GoodFiles, GoodJournal, Lines
    <3>. QED
      BY <1>1, <2>1, <3>1, HeaderLines DEF OpenWithoutHeader
  <2>2. CASE OpenWithHeader
    <3>1. \A j \in journals : GoodJournal(j) /\ Lines(j) \in LineSets
      BY <1>1 DEF GoodFiles, LineSets
    <3>2. snapshots' = snapshots /\ snapshot' = snapshot /\ HasHeader
      BY <2>2 DEF OpenWithHeader, snapshotVars
    <3>3. \/ journal' = journal /\ journals' = journals
          \/ journal' = Trimmed /\ journals' = Synced(Trimmed)
      BY <2>2 DEF OpenWithHeader, journalVars
    <3>4. /\ GoodJournal(Trimmed) /\ Lines(Trimmed) = Lines(journal)
          /\ Trimmed # None /\ Trimmed.header /\ Lines(Trimmed) \in LineSets
      BY <1>1, <3>2, TrimmedLines
    <3>5. CASE journal' = journal /\ journals' = journals
      BY <1>1, <3>1, <3>2, <3>5 DEF GoodFiles, HasHeader
    <3>6. CASE journal' = Trimmed /\ journals' = Synced(Trimmed)
      BY <1>1, <3>1, <3>2, <3>4, <3>6, SyncedIs DEF GoodFiles
    <3>. QED
      BY <3>3, <3>5, <3>6
  <2>. QED
    BY <2>1, <2>2
<1>4. /\ GoodFiles'
      /\ Survive(snapshots', LineSets', Lines(journal'),
                 NowCovered, NowCursor, NowRuntime, acked')
      /\ CountInv' /\ ~Unprepared'
  BY <1>2, <1>3, SameLines DEF historyVars
<1>5. /\ NowCovered' = NowCovered /\ NowCursor' = NowCursor /\ NowRuntime' = NowRuntime
      /\ FilesInv' /\ KeptInv'
  BY <1>3, <1>4, NextSurvives
<1>6. TypeOK' /\ \A j \in journals' : j # None /\ ~j.header => j.lines = <<>>
  BY <1>2, <1>4, NextTypes
<1>7. MemoryInv'
  BY <1>2, <1>3, <1>5 DEF MemoryInv
<1>8. UnpreparedInv' /\ HistoryInv' /\ AckedInv'
  BY <1>2, <1>4, <1>5 DEF UnpreparedInv, StoreInv, HistoryInv, AckedInv, historyVars
<1>9. HeaderInv'
  BY <1>3, <1>6 DEF HeaderInv
<1>. QED
  BY <1>4, <1>5, <1>6, <1>7, <1>8, <1>9 DEF StoreInv

-----------------------------------------------------------------------------
(* Stopping *)

\* A stopped process has no memory of the search, only its history.
LEMMA StopForgets ==
    ASSUME StoreInv, StopProcess
    PROVE  /\ MemoryTypes' /\ poisoned' \in BOOLEAN /\ step' = "down"
           /\ UNCHANGED <<scope, historyVars>> /\ total' = Cardinality(covered')
<1>1. /\ step' = "down" /\ covered' = {} /\ total' = 0 /\ cursor' = 0 /\ runtime' = 0
      /\ poisoned' = FALSE /\ UNCHANGED <<scope, historyVars>>
  BY DEF StopProcess
<1>2. TypeOK /\ Len(plan) \in Nat /\ Cardinality(Blocks) \in Nat /\ 0 \in Ticks
  BY ScopeType, StoreAssumption DEF StoreInv, TypeOK, Ticks
<1>3. plan' = plan /\ scope' = scope /\ searched' = searched /\ rechecked' = rechecked
  BY <1>1 DEF plan, historyVars
<1>4. 0 \in 0 .. Cardinality(Blocks) /\ 0 \in 0 .. Len(plan)
  BY <1>2
<1>5. MemoryTypes'
  BY <1>1, <1>2, <1>3, <1>4 DEF MemoryTypes, TypeOK, Steps
<1>. QED
  BY <1>1, <1>5, FS_EmptySet

\* A killed process leaves the files as they are.
LEMMA KillStep ==
    ASSUME StoreInv, Kill
    PROVE  StoreInv'
<1>1. /\ ~Unprepared /\ GoodFiles /\ snapshot' = snapshot /\ snapshots' = snapshots
      /\ journal' = journal /\ journals' = journals
  BY FileTypes DEF Kill, StoreInv, UnpreparedInv, snapshotVars, journalVars
<1>2. /\ MemoryTypes' /\ poisoned' \in BOOLEAN /\ step' = "down"
      /\ UNCHANGED <<scope, historyVars>> /\ total' = Cardinality(covered')
  BY StopForgets DEF Kill
<1>3. /\ GoodFiles'
      /\ Survive(snapshots', LineSets', Lines(journal'),
                 NowCovered, NowCursor, NowRuntime, acked')
      /\ CountInv' /\ ~Unprepared'
  <2>1. /\ \A j \in journals' : GoodJournal(j) /\ Lines(j) \in LineSets
        /\ snapshot' \in snapshots' /\ journal' \in journals' /\ snapshots' \subseteq snapshots
        /\ Lines(journal') = Lines(journal)
    BY <1>1 DEF GoodFiles, LineSets
  <2>. QED
    BY <1>1, <1>2, <2>1, SameLines DEF historyVars
<1>4. /\ NowCovered' = NowCovered /\ NowCursor' = NowCursor /\ NowRuntime' = NowRuntime
      /\ FilesInv' /\ KeptInv'
  BY <1>3, NextSurvives DEF GoodFiles
<1>5. TypeOK' /\ \A j \in journals' : j # None /\ ~j.header => j.lines = <<>>
  BY <1>2, <1>3, NextTypes
<1>6. MemoryInv' /\ HeaderInv'
  BY <1>2, <1>5 DEF MemoryInv, IsUp, HeaderInv
<1>7. UnpreparedInv' /\ HistoryInv' /\ AckedInv'
  BY <1>2, <1>3, <1>4 DEF UnpreparedInv, StoreInv, HistoryInv, AckedInv, historyVars
<1>. QED
  BY <1>3, <1>4, <1>5, <1>6, <1>7 DEF StoreInv

\* A snapshot alone shows what it holds.
LEMMA FirstFiles ==
    ASSUME NEW s \in Content, NEW ack,
           FsyncKeepsName => AtMost(ack, Base(s).covered, Base(s).cursor, Base(s).runtime)
    PROVE  Survive({s}, {<<>>}, <<>>, Base(s).covered, Base(s).cursor, Base(s).runtime, ack)
<1>. DEFINE C == Base(s).covered
            c == Base(s).cursor
            t == Base(s).runtime
<1>1. Shows(s, <<>>, C, c, t) /\ Within(s, <<>>) /\ IsProgress(C, c, t)
  BY NoLinesShow, BaseType DEF IsProgress
<1>2. c <= c /\ t <= t
  BY <1>1, StoreAssumption DEF IsProgress, Ticks
<1>. HIDE DEF C, c, t
<1>3. Files({s}, {<<>>}, <<>>, C, c, t)
  BY <1>1, <1>2 DEF Files, Shows
<1>4. FsyncKeepsName => Kept({s}, {<<>>}, ack)
  BY <1>1 DEF Kept, Shows, AtMost, C, c, t
<1>5. Typed({s}, {<<>>})
  <2>1. <<>> \in Seq(Record)
    OBVIOUS
  <2>. QED
    BY <2>1 DEF Typed
<1>6. Survive({s}, {<<>>}, <<>>, C, c, t, ack)
  BY <1>1, <1>3, <1>4, <1>5 DEF Survive
<1>. QED
  BY <1>6 DEF C, c, t

\* The snapshot of the copied history, and the lack of one.
LEMMA HistoryIsSnapshot ==
    ASSUME scope \in Scopes
    PROVE  LET H == History(scope.history)
           IN  /\ H \in Snapshot /\ H # None /\ Base(H) = H
               /\ H.covered = scope.history /\ H.cursor = 0 /\ H.runtime = 0
               /\ H.total = Cardinality(H.covered)
               /\ Base(None).covered = {} /\ Base(None).cursor = 0 /\ Base(None).runtime = 0
               /\ Base(None).total = Cardinality(Base(None).covered)
<1>. DEFINE H == History(scope.history)
<1>1. /\ scope.history \in SUBSET Blocks /\ 0 \in Cursors /\ 0 \in Ticks
      /\ Cardinality(scope.history) \in Nat
  <2>1. scope.history \subseteq Blocks /\ IsFiniteSet(Blocks)
    BY ScopeType, StoreAssumption
  <2>. QED
    BY <2>1, FS_Subset, FS_CardinalityType, StoreAssumption DEF Cursors, Ticks
<1>2. /\ H \in Snapshot /\ H.covered = scope.history /\ H.cursor = 0 /\ H.runtime = 0
      /\ H.total = Cardinality(H.covered)
  BY <1>1 DEF History, Snapshot
<1>3. H # None /\ Base(H) = H
  BY <1>2, NoneAssumption DEF Base
<1>4. /\ Base(None).covered = {} /\ Base(None).cursor = 0 /\ Base(None).runtime = 0
      /\ Base(None).total = 0
  BY DEF Base, NewStore
<1>5. Cardinality({}) = 0
  BY FS_EmptySet
<1>. QED
  BY <1>2, <1>3, <1>4, <1>5

Nothing == [prepared |-> FALSE, covered |-> {}, cursor |-> 0, runtime |-> 0]

\* Before there is progress, nothing is lost.
LEMMA NothingIsKept ==
    ASSUME NEW SS, NEW JL, Typed(SS, JL)
    PROVE  Kept(SS, JL, Nothing)
<1>. SUFFICES ASSUME NEW s \in SS, NEW lines \in JL
              PROVE  0 <= Cur(s, lines) /\ 0 <= Run(s, lines)
  BY DEF Kept, Nothing
<1>. QED
  BY LineTypes, BaseType DEF Typed

\* Power is lost: of each file, one of the contents that may survive does.
LEMMA PowerLossStep ==
    ASSUME StoreInv, PowerLoss
    PROVE  StoreInv'
<1>1. PICK s \in snapshots, j \in journals :
        snapshot' = s /\ snapshots' = {s} /\ journal' = j /\ journals' = {j}
  BY DEF PowerLoss
<1>2. /\ MemoryTypes' /\ poisoned' \in BOOLEAN /\ step' = "down"
      /\ UNCHANGED <<scope, historyVars>> /\ plan' = plan /\ total' = Cardinality(covered')
  BY StopForgets DEF PowerLoss, plan
<1>3. /\ TypeOK /\ GoodFiles /\ Lines(j) \in LineSets /\ s \in Content
      /\ LineSets' = {Lines(j)} /\ GoodFiles'
  <2>1. TypeOK /\ GoodFiles
    BY FileTypes DEF StoreInv
  <2>. QED
    BY <1>1, <2>1 DEF GoodFiles, LineSets
<1>4. TypeOK' /\ HeaderInv' /\ MemoryInv'
  <2>1. TypeOK' /\ \A f \in journals' : f # None /\ ~f.header => f.lines = <<>>
    BY <1>2, <1>3, NextTypes
  <2>. QED
    BY <1>2, <2>1 DEF MemoryInv, IsUp, HeaderInv
<1>5. CountInv' /\ AckedInv'
  BY <1>1, <1>2 DEF StoreInv, CountInv, AckedInv, historyVars
<1>6. CASE ~Unprepared
  <2>1. Survive(snapshots, LineSets, Lines(journal),
                NowCovered, NowCursor, NowRuntime, acked)
    BY <1>6, NowSurvives
  <2>2. Survive({s}, {Lines(j)}, Lines(j),
                Cov(s, Lines(j)), Cur(s, Lines(j)), Run(s, Lines(j)), acked)
    BY <1>3, <2>1, OnePairSurvives
  <2>3. /\ NowCovered' = Cov(s, Lines(j)) /\ NowCursor' = Cur(s, Lines(j))
        /\ FilesInv' /\ KeptInv'
    BY <1>1, <1>2, <1>3, <2>2, NextSurvives DEF historyVars
  <2>4. /\ Cov(s, Lines(j)) \subseteq NowCovered /\ Cur(s, Lines(j)) <= NowCursor
        /\ Cur(s, Lines(j)) \in Nat /\ NowCursor \in Nat
    BY <1>3, <2>1, <2>2 DEF Survive, Files, IsProgress
  <2>5. HistoryInv'
    <3>1. /\ scope.history \subseteq searched /\ NowCovered \subseteq searched
          /\ \A o \in 0 .. NowCursor - 1 : o \in rechecked
      BY DEF StoreInv, HistoryInv
    <3>2. /\ NowCovered' \subseteq searched
          /\ \A o \in 0 .. NowCursor' - 1 : o \in rechecked
      BY <2>3, <2>4, <3>1
    <3>. QED
      BY <1>2, <3>1, <3>2 DEF HistoryInv, historyVars
  <2>6. UnpreparedInv'
    BY <1>1, <1>2, <1>6 DEF UnpreparedInv, Unprepared
  <2>. QED
    BY <1>4, <1>5, <2>3, <2>5, <2>6 DEF StoreInv
<1>7. CASE Unprepared
  <2>1. /\ s \in {None, History(scope.history)} /\ j = None /\ acked = Nothing
        /\ Lines(j) = <<>>
    BY <1>7, NewJournals DEF StoreInv, UnpreparedInv, Nothing
  <2>2. /\ Base(s).covered \subseteq scope.history /\ Base(s).cursor = 0 /\ Base(s).runtime = 0
        /\ scope \in Scopes
    <3>1. scope \in Scopes
      BY <1>3 DEF TypeOK
    <3>. QED
      BY <2>1, <3>1, HistoryIsSnapshot
  <2>3. AtMost(acked, Base(s).covered, Base(s).cursor, Base(s).runtime)
    BY <2>1, <2>2 DEF Nothing, AtMost
  <2>4. Survive({s}, {<<>>}, <<>>, Base(s).covered, Base(s).cursor, Base(s).runtime, acked)
    BY <1>3, <2>3, FirstFiles
  <2>5. /\ NowCovered' = Base(s).covered /\ NowCursor' = 0 /\ FilesInv' /\ KeptInv'
    BY <1>1, <1>2, <1>3, <2>1, <2>2, <2>4, NextSurvives DEF historyVars
  <2>6. HistoryInv'
    BY <1>2, <2>2, <2>5 DEF StoreInv, HistoryInv, historyVars
  <2>7. UnpreparedInv'
    <3>1. snapshots' \subseteq {None, History(scope.history)} /\ journals' = {None}
      BY <1>1, <2>1
    <3>. QED
      BY <1>2, <2>1, <3>1 DEF UnpreparedInv, Nothing, historyVars
  <2>. QED
    BY <1>4, <1>5, <2>5, <2>6, <2>7 DEF StoreInv
<1>. QED
  BY <1>6, <1>7

-----------------------------------------------------------------------------
(* Preparation *)

\* The memory of a store that is being prepared is left alone.
LEMMA UntouchedMemory ==
    ASSUME StoreInv, UNCHANGED <<scope, memoryVars, searched, rechecked>>, step' \in Steps
    PROVE  /\ MemoryTypes' /\ poisoned' \in BOOLEAN /\ plan' = plan /\ scope' = scope
           /\ total' = Cardinality(covered')
<1>1. TypeOK /\ poisoned' = poisoned /\ total' = Cardinality(covered')
  BY DEF StoreInv, memoryVars, MemoryInv
<1>2. poisoned' \in BOOLEAN
  BY <1>1 DEF TypeOK
<1>3. MemoryTypes' /\ plan' = plan
  BY <1>1 DEF MemoryTypes, memoryVars, TypeOK, plan
<1>. QED
  BY <1>1, <1>2, <1>3

\* The snapshot of the copied history is there for good: a journal is wanted next.
LEMMA PrepareSaves ==
    ASSUME StoreInv, Prepare, SaveDurably(History(scope.history)), step' = "prepare"
    PROVE  StoreInv'
<1>. DEFINE H == History(scope.history)
<1>1. /\ Unprepared /\ TypeOK /\ GoodFiles /\ journals = {None} /\ journal = None
      /\ acked = Nothing /\ scope \in Scopes
  BY FileTypes DEF Prepare, StoreInv, UnpreparedInv, Unprepared, TypeOK, Nothing
<1>2. /\ snapshot' = H /\ snapshots' = {H} /\ journal' = None /\ journals' = {None}
      /\ UNCHANGED <<scope, memoryVars, historyVars>> /\ plan # <<>>
  BY <1>1 DEF Prepare, SaveDurably, SettleSnapshot, JournalNamed
<1>3. /\ H \in Snapshot /\ H # None /\ Base(H) = H /\ H.covered = scope.history
      /\ H.cursor = 0 /\ H.runtime = 0 /\ H.total = Cardinality(H.covered)
  BY <1>1, HistoryIsSnapshot
<1>. HIDE DEF H
<1>4. /\ MemoryTypes' /\ poisoned' \in BOOLEAN /\ plan' = plan /\ scope' = scope
      /\ total' = Cardinality(covered')
  BY <1>2, UntouchedMemory DEF Steps, historyVars
<1>5. GoodFiles' /\ LineSets' = {<<>>} /\ Lines(journal') = <<>>
  BY <1>2, <1>3, NewJournals DEF GoodFiles, LineSets, Content
<1>6. TypeOK' /\ \A f \in journals' : f # None /\ ~f.header => f.lines = <<>>
  BY <1>4, <1>5, NextTypes
<1>7. Survive({H}, {<<>>}, <<>>, H.covered, H.cursor, H.runtime, acked)
  <2>1. H \in Content
    BY <1>3 DEF Content
  <2>2. AtMost(acked, Base(H).covered, Base(H).cursor, Base(H).runtime)
    BY <1>1, <1>3 DEF AtMost, Nothing
  <2>3. Survive({H}, {<<>>}, <<>>, Base(H).covered, Base(H).cursor, Base(H).runtime, acked)
    BY <2>1, <2>2, FirstFiles
  <2>. QED
    BY <1>3, <2>3
<1>8. NowCovered' = scope.history /\ NowCursor' = 0 /\ FilesInv' /\ KeptInv'
  BY <1>2, <1>3, <1>5, <1>7, NextSurvives DEF historyVars
<1>9. MemoryInv' /\ HeaderInv'
  BY <1>2, <1>4, <1>6 DEF MemoryInv, IsUp, HeaderInv, H
<1>10. UnpreparedInv' /\ CountInv'
  BY <1>2, <1>3 DEF UnpreparedInv, Unprepared, CountInv
<1>11. HistoryInv' /\ AckedInv'
  BY <1>2, <1>8 DEF StoreInv, HistoryInv, AckedInv, historyVars
<1>. QED
  BY <1>6, <1>8, <1>9, <1>10, <1>11 DEF StoreInv

\* The save failed, or its directory entry may still be lost.
LEMMA PrepareFails ==
    ASSUME StoreInv, Prepare, SaveFails(History(scope.history)), step' = step
    PROVE  StoreInv'
<1>. DEFINE H == History(scope.history)
<1>1. /\ Unprepared /\ TypeOK /\ GoodFiles /\ journals = {None} /\ journal = None
      /\ acked = Nothing /\ scope \in Scopes /\ snapshot = None /\ step = "down"
      /\ snapshots \subseteq {None, H}
  BY FileTypes DEF Prepare, StoreInv, UnpreparedInv, Unprepared, TypeOK, Nothing
<1>2. /\ journal' = None /\ journals' = {None}
      /\ UNCHANGED <<scope, memoryVars, historyVars>> /\ plan # <<>>
      /\ snapshot' \in {None, H} /\ snapshot' \in snapshots'
      /\ None \in snapshots' /\ snapshots' \subseteq {None, H}
  BY <1>1 DEF Prepare, SaveFails, snapshotVars, journalVars, GoodFiles
<1>3. /\ H \in Snapshot /\ Base(H) = H /\ H.covered = scope.history
      /\ H.cursor = 0 /\ H.runtime = 0 /\ H.total = Cardinality(H.covered)
      /\ Base(None).covered = {} /\ Base(None).cursor = 0 /\ Base(None).runtime = 0
      /\ Base(None).total = Cardinality(Base(None).covered)
  BY <1>1, HistoryIsSnapshot
<1>. HIDE DEF H
<1>4. /\ MemoryTypes' /\ poisoned' \in BOOLEAN /\ plan' = plan /\ scope' = scope
      /\ total' = Cardinality(covered')
  BY <1>1, <1>2, UntouchedMemory DEF Steps, historyVars
<1>5. GoodFiles' /\ LineSets' = {<<>>} /\ Lines(journal') = <<>>
  BY <1>2, <1>3, NewJournals DEF GoodFiles, LineSets, Content
<1>6. TypeOK' /\ \A f \in journals' : f # None /\ ~f.header => f.lines = <<>>
  BY <1>4, <1>5, NextTypes
<1>7. Typed(snapshots', LineSets') /\ acked' = Nothing
  <2>1. <<>> \in Seq(Record)
    OBVIOUS
  <2>. QED
    BY <1>1, <1>2, <1>5, <2>1 DEF Typed, GoodFiles, historyVars
<1>8. KeptInv'
  BY <1>7, NothingIsKept DEF KeptInv
<1>9. Unprepared'
  BY <1>2, <1>4 DEF Unprepared
<1>10. UnpreparedInv' /\ FilesInv'
  <2>1. scope' = scope /\ step' = "down"
    BY <1>1, <1>4
  <2>. QED
    BY <1>2, <1>7, <1>9, <2>1 DEF UnpreparedInv, FilesInv, Nothing, H
<1>11. CountInv'
  BY <1>2, <1>3 DEF CountInv
<1>12. HistoryInv'
  <2>1. NowCovered' \subseteq scope.history /\ NowCursor' = 0
    BY <1>2, <1>3, <1>5, NoLinesShow DEF NowCovered, NowCursor, Shows, Content
  <2>. QED
    BY <1>2, <2>1 DEF StoreInv, HistoryInv, historyVars
<1>13. AckedInv' /\ MemoryInv' /\ HeaderInv'
  BY <1>1, <1>2, <1>4, <1>6 DEF StoreInv, AckedInv, historyVars, MemoryInv, IsUp, HeaderInv
<1>. QED
  BY <1>6, <1>8, <1>10, <1>11, <1>12, <1>13 DEF StoreInv

\* The preparation is done: the copied history counts as saved.
LEMMA CreateJournalStep ==
    ASSUME StoreInv, CreateJournal
    PROVE  StoreInv'
<1>. DEFINE H == History(scope.history)
<1>1. /\ TypeOK /\ GoodFiles /\ scope \in Scopes /\ plan # <<>>
      /\ snapshot = H /\ snapshots = {snapshot} /\ journal = None /\ acked \in AckRecord
  BY FileTypes DEF CreateJournal, StoreInv, MemoryInv, TypeOK, AckedInv
<1>2. /\ snapshot' = H /\ snapshots' = {H} /\ journal' = Empty /\ journals' = {Empty}
      /\ UNCHANGED <<scope, memoryVars, searched, rechecked>> /\ step' = "down"
      /\ acked' = [acked EXCEPT !.prepared = TRUE, !.covered = scope.history]
  BY <1>1 DEF CreateJournal, snapshotVars
<1>3. /\ H \in Snapshot /\ H # None /\ Base(H) = H /\ H.covered = scope.history
      /\ H.cursor = 0 /\ H.runtime = 0 /\ H.total = Cardinality(H.covered)
  BY <1>1, HistoryIsSnapshot
<1>. HIDE DEF H
<1>4. /\ MemoryTypes' /\ poisoned' \in BOOLEAN /\ plan' = plan /\ scope' = scope
      /\ total' = Cardinality(covered')
  BY <1>2, UntouchedMemory DEF Steps
<1>5. GoodFiles' /\ LineSets' = {<<>>} /\ Lines(journal') = <<>>
  BY <1>2, <1>3, NewJournals DEF GoodFiles, LineSets, Content
<1>6. TypeOK' /\ \A f \in journals' : f # None /\ ~f.header => f.lines = <<>>
  BY <1>4, <1>5, NextTypes
<1>7. /\ acked' \in AckRecord /\ acked'.covered = scope.history
      /\ acked'.cursor = acked.cursor /\ acked'.runtime = acked.runtime
  <2>1. scope.history \subseteq Blocks
    BY <1>1, ScopeType
  <2>. QED
    BY <1>1, <1>2, <2>1 DEF AckRecord
<1>8. FsyncKeepsName => AtMost(acked', H.covered, H.cursor, H.runtime)
  <2>. SUFFICES ASSUME FsyncKeepsName PROVE AtMost(acked', H.covered, H.cursor, H.runtime)
    OBVIOUS
  <2>1. H \in snapshots /\ <<>> \in LineSets
    BY <1>1, NewJournals DEF LineSets, GoodFiles
  <2>2. acked.cursor <= Cur(H, <<>>) /\ acked.runtime <= Run(H, <<>>)
    BY <2>1 DEF StoreInv, KeptInv, Kept
  <2>3. Cur(H, <<>>) = H.cursor /\ Run(H, <<>>) = H.runtime
    BY <1>3, NoLinesShow DEF Shows, Content
  <2>. QED
    BY <1>3, <1>7, <2>2, <2>3 DEF AtMost
<1>9. Survive({H}, {<<>>}, <<>>, H.covered, H.cursor, H.runtime, acked')
  BY <1>3, <1>8, FirstFiles DEF Content
<1>10. NowCovered' = scope.history /\ NowCursor' = 0 /\ FilesInv' /\ KeptInv'
  BY <1>2, <1>3, <1>5, <1>9, NextSurvives
<1>11. MemoryInv' /\ HeaderInv'
  BY <1>2, <1>4, <1>6 DEF MemoryInv, IsUp, HeaderInv
<1>12. UnpreparedInv' /\ CountInv'
  BY <1>2, <1>3 DEF UnpreparedInv, Unprepared, CountInv
<1>13. HistoryInv' /\ AckedInv'
  BY <1>2, <1>7, <1>10 DEF StoreInv, HistoryInv, AckedInv
<1>. QED
  BY <1>6, <1>10, <1>11, <1>12, <1>13 DEF StoreInv

\* Or it stopped after the snapshot: the next start refuses what there is.
LEMMA CreateJournalFailsStep ==
    ASSUME StoreInv, CreateJournalFails
    PROVE  StoreInv'
<1>1. /\ TypeOK /\ GoodFiles /\ ~Unprepared /\ journal = None
  BY FileTypes DEF CreateJournalFails, StoreInv, MemoryInv, UnpreparedInv
<1>2. /\ Quiet /\ poisoned' = poisoned /\ step' = "down"
      /\ snapshot' = snapshot /\ snapshots' = snapshots
      /\ journal' \in {journal, Empty} /\ journal' \in journals'
      /\ journals' \subseteq journals \cup {Empty}
  BY <1>1 DEF CreateJournalFails, Quiet, memoryVars, snapshotVars, journalVars, GoodFiles
<1>3. /\ \A j \in journals' : GoodJournal(j) /\ Lines(j) \in LineSets
      /\ Lines(journal') = Lines(journal)
  BY <1>1, <1>2, NewJournals DEF GoodFiles, LineSets
<1>4. poisoned' \in BOOLEAN /\ step' \in Steps /\ snapshot' \in snapshots'
  BY <1>1, <1>2 DEF TypeOK, Steps
<1>5. Left
  BY <1>1, <1>2, <1>3, <1>4, LinesLeave
<1>. QED
  BY <1>2, <1>5, DownSteps

-----------------------------------------------------------------------------
(* Appending *)

\* What a line that follows the progress makes of it.
NextCovered(r) == NowCovered \cup ({r.block} \ {None})
NextCursor(r) == IF r.ordinal = None THEN NowCursor ELSE NowCursor + 1

\* A line of the progress, durably or not.
LEMMA LineLeaves ==
    ASSUME StoreInv, Healthy, scope' = scope, UNCHANGED snapshotVars,
           NEW r \in Record, r.ordinal \in {NowCursor, None}, NowRuntime <= r.runtime,
           AppendDurably(r) \/ AppendFails(r)
    PROVE  /\ GoodFiles' /\ CountInv' /\ ~Unprepared' /\ journal' # None /\ journal'.header
           /\ \/ /\ Survive(snapshots', LineSets', Lines(journal'),
                            NowCovered, NowCursor, NowRuntime, acked)
                 /\ ~AppendDurably(r)
              \/ Survive(snapshots', LineSets', Lines(journal'),
                         NextCovered(r), NextCursor(r), r.runtime, acked)
           /\ AppendDurably(r) /\ FsyncKeepsName => LineSets' = {Lines(journal')}
<1>1. /\ IsUp /\ ~poisoned /\ ~Unprepared /\ GoodFiles /\ TypeOK
      /\ journal \in Journal /\ journal # None /\ journal.header /\ acked \in AckRecord
  <2>1. IsUp /\ ~poisoned /\ journal.header
    BY DEF Healthy, IsUp, StoreInv, HeaderInv
  <2>. QED
    BY <2>1, UpFiles DEF StoreInv, AckedInv
<1>. DEFINE Tj == Torn(journal)
            Pj == Plus(journal, r)
            l0 == Lines(journal)
<1>2. /\ Pj \in Journal /\ Pj # None /\ Pj.header /\ Lines(Pj) = Append(l0, r)
      /\ Tj \in Journal /\ Tj # None /\ Tj.header /\ Lines(Tj) = l0
      /\ GoodJournal(Tj) /\ GoodJournal(Pj)
  <2>1. /\ Tj \in Journal /\ Tj.lines = journal.lines /\ Tj.header = journal.header
        /\ l0 = journal.lines
        /\ Pj \in Journal /\ Pj.lines = Append(journal.lines, r) /\ Pj.header = journal.header
    BY <1>1, JournalShapes
  <2>2. Tj # None /\ Lines(Tj) = Tj.lines /\ Pj # None /\ Lines(Pj) = Pj.lines
    BY <2>1, JournalShapes
  <2>3. Tj.header /\ Pj.header
    BY <1>1, <2>1
  <2>. QED
    BY <2>1, <2>2, <2>3 DEF GoodJournal
<1>3. \/ journal' = journal /\ journals' = journals /\ ~AppendDurably(r)
      \/ journal' = Tj /\ journals' = journals \cup {Tj} /\ ~AppendDurably(r)
      \/ journal' = Pj /\ journals' \subseteq journals \cup {Tj, Pj} /\ journal' \in journals'
  <2>1. CASE AppendDurably(r)
    BY <2>1, SyncedIs DEF AppendDurably
  <2>2. CASE AppendFails(r) /\ ~AppendDurably(r)
    BY <2>2 DEF AppendFails, journalVars
  <2>. QED
    BY <2>1, <2>2
<1>4. Survive(snapshots, LineSets, l0, NowCovered, NowCursor, NowRuntime, acked)
  BY <1>1, NowSurvives
<1>5. Survive(snapshots, LineSets \cup {Append(l0, r)}, Append(l0, r),
              NextCovered(r), NextCursor(r), r.runtime, acked)
  BY <1>1, <1>4, LineSurvives DEF NextCovered, NextCursor
<1>. HIDE DEF Tj, Pj
<1>6. /\ snapshots' = snapshots /\ snapshot' = snapshot /\ snapshots # {}
      /\ snapshot' \in snapshots'
  BY <1>1 DEF snapshotVars, GoodFiles
<1>7. GoodFiles' /\ CountInv' /\ ~Unprepared' /\ journal' # None /\ journal'.header
  <2>1. \A j \in journals' : GoodJournal(j)
    BY <1>1, <1>2, <1>3 DEF GoodFiles
  <2>2. journal' \in journals' /\ journal' # None /\ journal'.header
    BY <1>1, <1>2, <1>3 DEF GoodFiles
  <2>3. GoodFiles'
    BY <1>1, <1>6, <2>1, <2>2 DEF GoodFiles
  <2>4. CountInv' /\ ~Unprepared'
    BY <1>1, <1>6 DEF StoreInv, CountInv, Unprepared, plan
  <2>. QED
    BY <2>2, <2>3, <2>4
<1>8. AppendDurably(r) /\ FsyncKeepsName => LineSets' = {Lines(journal')}
  BY SyncedIs DEF AppendDurably, LineSets
<1>9. CASE journal' \in {journal, Tj} /\ ~AppendDurably(r)
             /\ journals' \subseteq journals \cup {Tj}
  <2>1. LineSets' \subseteq LineSets /\ Lines(journal') = l0 /\ l0 \in LineSets'
    BY <1>1, <1>2, <1>7, <1>9 DEF LineSets, GoodFiles
  <2>2. Survive(snapshots', LineSets', Lines(journal'),
                NowCovered, NowCursor, NowRuntime, acked)
    BY <1>4, <1>6, <2>1, FewerSurvive
  <2>. QED
    BY <1>7, <1>9, <1>8, <2>2
<1>10. CASE journal' = Pj /\ journals' \subseteq journals \cup {Tj, Pj}
  <2>1. /\ LineSets' \subseteq LineSets \cup {Append(l0, r)}
        /\ Lines(journal') = Append(l0, r) /\ Append(l0, r) \in LineSets'
    BY <1>1, <1>2, <1>7, <1>10 DEF LineSets, GoodFiles
  <2>2. Survive(snapshots', LineSets', Lines(journal'),
                NextCovered(r), NextCursor(r), r.runtime, acked)
    BY <1>5, <1>6, <2>1, FewerSurvive
  <2>. QED
    BY <1>7, <1>8, <2>2
<1>. QED
  BY <1>3, <1>9, <1>10

\* A healthy store holds the progress in memory.
LEMMA HealthyMemory ==
    ASSUME StoreInv, Healthy
    PROVE  /\ step = "ready" /\ ~poisoned /\ IsUp /\ TypeOK /\ AckedInv
           /\ covered = NowCovered /\ cursor = NowCursor /\ runtime = NowRuntime
           /\ total = Cardinality(covered) /\ snapshot # None
           /\ Len(plan) \in Nat /\ Len(plan) <= Cardinality(Blocks)
           /\ Cardinality(Blocks) \in Nat /\ cursor \in Nat /\ cursor <= Len(plan)
           /\ runtime \in Nat /\ Ticks \subseteq Nat
<1>1. step = "ready" /\ ~poisoned /\ IsUp
  BY DEF Healthy, IsUp
<1>2. /\ TypeOK /\ AckedInv
      /\ covered = NowCovered /\ cursor = NowCursor /\ runtime = NowRuntime
      /\ total = Cardinality(covered) /\ snapshot # None
  BY <1>1 DEF StoreInv, MemoryInv
<1>3. /\ Len(plan) \in Nat /\ Len(plan) <= Cardinality(Blocks) /\ Cardinality(Blocks) \in Nat
  BY <1>2, ScopeType DEF TypeOK
<1>4. cursor \in 0 .. Len(plan) /\ runtime \in Ticks
  BY <1>2 DEF TypeOK
<1>. QED
  BY <1>1, <1>2, <1>3, <1>4, StoreAssumption DEF Ticks

\* The line of a completed block.
LEMMA CompletionLine ==
    ASSUME StoreInv, Healthy, NEW b \in Blocks, NEW now \in Ticks, Completable(b),
           now >= runtime
    PROVE  LET r == CompletionOf(b, now)
           IN  /\ r \in Record /\ r.ordinal \in {NowCursor, None} /\ NowRuntime <= r.runtime
               /\ r.runtime = now /\ NextCovered(r) = covered \cup {b}
               /\ NextCursor(r) = IF PendingRecheck THEN cursor + 1 ELSE cursor
<1>. DEFINE r == CompletionOf(b, now)
<1>1. /\ Len(plan) \in Nat /\ Len(plan) <= Cardinality(Blocks) /\ Cardinality(Blocks) \in Nat
      /\ cursor \in Nat /\ covered = NowCovered /\ cursor = NowCursor /\ runtime = NowRuntime
      /\ runtime \in Nat /\ Ticks \subseteq Nat
  BY HealthyMemory
<1>2. None \notin Blocks /\ None \notin Nat
  BY StoreAssumption
<1>3. /\ r.block = b /\ r.runtime = now
      /\ r.ordinal = IF PendingRecheck THEN cursor ELSE None
  BY DEF CompletionOf
<1>4. PendingRecheck => cursor \in Cursors
  BY <1>1 DEF PendingRecheck, Cursors
<1>5. r \in Record
  BY <1>4 DEF CompletionOf, Record
<1>6. r.ordinal \in {NowCursor, None} /\ NowRuntime <= r.runtime
  BY <1>1, <1>3
<1>. HIDE DEF r
<1>7. NextCovered(r) = covered \cup {b}
  BY <1>1, <1>2, <1>3 DEF NextCovered
<1>8. NextCursor(r) = IF PendingRecheck THEN cursor + 1 ELSE cursor
  BY <1>1, <1>2, <1>3 DEF NextCursor
<1>9. /\ r \in Record /\ r.ordinal \in {NowCursor, None} /\ NowRuntime <= r.runtime
      /\ r.runtime = now /\ NextCovered(r) = covered \cup {b}
      /\ NextCursor(r) = IF PendingRecheck THEN cursor + 1 ELSE cursor
  BY <1>3, <1>5, <1>6, <1>7, <1>8
<1>. QED
  BY <1>9 DEF r

\* The line of a runtime.
LEMMA RuntimeLine ==
    ASSUME StoreInv, Healthy, NEW now \in Ticks, now > runtime
    PROVE  LET r == RuntimeRecord(now)
           IN  /\ r \in Record /\ r.ordinal \in {NowCursor, None} /\ NowRuntime <= r.runtime
               /\ r.runtime = now /\ NextCovered(r) = covered /\ NextCursor(r) = cursor
<1>. DEFINE r == RuntimeRecord(now)
<1>1. /\ covered = NowCovered /\ cursor = NowCursor /\ runtime = NowRuntime
      /\ runtime \in Nat /\ Ticks \subseteq Nat
  BY HealthyMemory
<1>2. r.block = None /\ r.runtime = now /\ r.ordinal = None
  BY DEF RuntimeRecord
<1>3. r \in Record
  BY DEF RuntimeRecord, Record
<1>. HIDE DEF r
<1>4. /\ r \in Record /\ r.ordinal \in {NowCursor, None} /\ NowRuntime <= r.runtime
      /\ r.runtime = now /\ NextCovered(r) = covered /\ NextCursor(r) = cursor
  BY <1>1, <1>2, <1>3 DEF NextCovered, NextCursor
<1>. QED
  BY <1>4 DEF r

\* What has been searched, with the progress of the line.
SearchedWith(r) ==
    /\ searched \subseteq searched' /\ searched' \subseteq Blocks
    /\ rechecked \subseteq rechecked' /\ rechecked' \subseteq 0 .. Len(plan) - 1
    /\ NextCovered(r) \subseteq searched'
    /\ \A o \in 0 .. NextCursor(r) - 1 : o \in rechecked'

\* A line is durable, in memory, and acknowledged.
LEMMA AppendStep ==
    ASSUME StoreInv, Healthy, scope' = scope, UNCHANGED <<poisoned, snapshotVars>>,
           NEW r \in Record, r.ordinal \in {NowCursor, None}, NowRuntime <= r.runtime,
           AppendDurably(r), MaybeCompact, Acknowledge, SearchedWith(r),
           covered' = NextCovered(r), cursor' = NextCursor(r), runtime' = r.runtime,
           total' = Cardinality(covered'), cursor' \in 0 .. Len(plan),
           total' \in 0 .. Cardinality(Blocks)
    PROVE  StoreInv'
<1>1. /\ step = "ready" /\ ~poisoned /\ TypeOK /\ snapshot # None /\ AckedInv
  BY HealthyMemory
<1>2. /\ GoodFiles' /\ CountInv' /\ ~Unprepared' /\ journal' # None /\ journal'.header
      /\ Survive(snapshots', LineSets', Lines(journal'),
                 NextCovered(r), NextCursor(r), r.runtime, acked)
      /\ FsyncKeepsName => LineSets' = {Lines(journal')}
  BY <1>1, LineLeaves DEF AckedInv
<1>3. IsProgress(covered', cursor', runtime')
  BY <1>2 DEF Survive
<1>4. /\ acked' \in AckRecord /\ AtMost(acked', covered', cursor', runtime')
  <2>1. acked' = [prepared |-> TRUE, covered |-> covered', cursor |-> cursor',
                  runtime |-> runtime']
    BY DEF Acknowledge
  <2>2. covered' \in SUBSET Blocks /\ cursor' \in Nat /\ runtime' \in Ticks /\ runtime' \in Nat
    BY <1>3, StoreAssumption DEF IsProgress, Ticks
  <2>. QED
    BY <2>1, <2>2 DEF AckRecord, AtMost
<1>5. Survive(snapshots', LineSets', Lines(journal'), covered', cursor', runtime', acked')
  BY <1>2, <1>4, ProgressIsAcknowledged
<1>6. /\ NowCovered' = covered' /\ NowCursor' = cursor' /\ NowRuntime' = runtime'
      /\ FilesInv' /\ KeptInv'
  BY <1>2, <1>5, NextSurvives DEF GoodFiles
<1>7. step' \in {"ready", "save"} /\ ~poisoned' /\ poisoned' \in BOOLEAN /\ plan' = plan
      /\ snapshot' = snapshot
  <2>1. poisoned' = poisoned
    OBVIOUS
  <2>. QED
    BY <1>1, <2>1 DEF MaybeCompact, plan, snapshotVars, TypeOK
<1>8. MemoryTypes'
  BY <1>1, <1>3, <1>7 DEF MemoryTypes, TypeOK, Steps, SearchedWith, IsProgress
<1>9. TypeOK' /\ \A f \in journals' : f # None /\ ~f.header => f.lines = <<>>
  BY <1>2, <1>7, <1>8, NextTypes
<1>10. MemoryInv'
  BY <1>1, <1>2, <1>6, <1>7 DEF MemoryInv
<1>11. HistoryInv'
  <2>1. scope'.history \subseteq searched'
    BY DEF StoreInv, HistoryInv, SearchedWith
  <2>2. NowCovered' \subseteq searched' /\ \A o \in 0 .. NowCursor' - 1 : o \in rechecked'
    BY <1>6 DEF SearchedWith
  <2>. QED
    BY <2>1, <2>2 DEF HistoryInv
<1>12. HeaderInv' /\ UnpreparedInv' /\ AckedInv'
  BY <1>2, <1>4, <1>9 DEF HeaderInv, UnpreparedInv, AckedInv
<1>. QED
  BY <1>2, <1>6, <1>9, <1>10, <1>11, <1>12 DEF StoreInv

\* A line that may or may not be there poisons the store.
LEMMA AppendFailsStep ==
    ASSUME StoreInv, Healthy, scope' = scope, UNCHANGED snapshotVars,
           NEW r \in Record, r.ordinal \in {NowCursor, None}, NowRuntime <= r.runtime,
           AppendFails(r), Poison, SearchedWith(r)
    PROVE  StoreInv'
<1>1. /\ step = "ready" /\ ~poisoned /\ TypeOK /\ snapshot # None /\ AckedInv
      /\ total = Cardinality(covered)
  BY HealthyMemory
<1>2. /\ poisoned' = TRUE
      /\ UNCHANGED <<step, covered, total, cursor, runtime, acked>>
  BY DEF Poison
<1>3. /\ GoodFiles' /\ CountInv' /\ ~Unprepared' /\ journal' # None
      /\ \/ Survive(snapshots', LineSets', Lines(journal'),
                    NowCovered, NowCursor, NowRuntime, acked)
         \/ Survive(snapshots', LineSets', Lines(journal'),
                    NextCovered(r), NextCursor(r), r.runtime, acked)
  BY <1>1, LineLeaves DEF AckedInv
<1>4. /\ FilesInv' /\ KeptInv'
      /\ \/ NowCovered' = NowCovered /\ NowCursor' = NowCursor
         \/ NowCovered' = NextCovered(r) /\ NowCursor' = NextCursor(r)
  <2>1. snapshot' \in snapshots' /\ acked' = acked
    BY <1>2, <1>3 DEF GoodFiles
  <2>. QED
    BY <1>3, <2>1, NextSurvives
<1>5. plan' = plan /\ snapshot' = snapshot /\ poisoned' \in BOOLEAN
  BY <1>2 DEF plan, snapshotVars
<1>6. MemoryTypes'
  BY <1>1, <1>2, <1>5 DEF MemoryTypes, TypeOK, Steps, SearchedWith
<1>7. TypeOK' /\ \A f \in journals' : f # None /\ ~f.header => f.lines = <<>>
  BY <1>3, <1>5, <1>6, NextTypes
<1>8. MemoryInv'
  <2>1. poisoned' /\ step' = "ready" /\ total' = Cardinality(covered') /\ snapshot' # None
    BY <1>1, <1>2, <1>5
  <2>. QED
    BY <1>3, <2>1 DEF MemoryInv
<1>9. HistoryInv'
  <2>1. /\ scope.history \subseteq searched' /\ NowCovered \subseteq searched'
        /\ \A o \in 0 .. NowCursor - 1 : o \in rechecked'
    BY DEF StoreInv, HistoryInv, SearchedWith
  <2>2. /\ NextCovered(r) \subseteq searched'
        /\ \A o \in 0 .. NextCursor(r) - 1 : o \in rechecked'
    BY DEF SearchedWith
  <2>. QED
    BY <1>4, <2>1, <2>2 DEF HistoryInv
<1>10. HeaderInv' /\ UnpreparedInv' /\ AckedInv'
  BY <1>1, <1>2, <1>3, <1>7 DEF HeaderInv, UnpreparedInv, AckedInv
<1>. QED
  BY <1>3, <1>4, <1>7, <1>8, <1>9, <1>10 DEF StoreInv

\* A block is searched when it is to be completed.
LEMMA CompletedIsSearched ==
    ASSUME StoreInv, Healthy, NEW b \in Blocks, NEW now \in Ticks, Completable(b),
           now >= runtime, Searched(b)
    PROVE  SearchedWith(CompletionOf(b, now))
<1>. DEFINE r == CompletionOf(b, now)
<1>1. /\ TypeOK /\ covered = NowCovered /\ cursor = NowCursor
      /\ cursor \in Nat /\ Len(plan) \in Nat
  BY HealthyMemory
<1>2. /\ NextCovered(r) = covered \cup {b}
      /\ NextCursor(r) = IF PendingRecheck THEN cursor + 1 ELSE cursor
  BY CompletionLine
<1>. HIDE DEF r
<1>3. searched \subseteq searched' /\ searched' \subseteq Blocks
      /\ NextCovered(r) \subseteq searched'
  BY <1>1, <1>2 DEF Searched, TypeOK, StoreInv, HistoryInv
<1>4. rechecked \subseteq rechecked' /\ rechecked' \subseteq 0 .. Len(plan) - 1
  BY <1>1 DEF Searched, TypeOK, PendingRecheck
<1>5. \A o \in 0 .. NextCursor(r) - 1 : o \in rechecked'
  <2>1. \A o \in 0 .. cursor - 1 : o \in rechecked
    BY <1>1 DEF StoreInv, HistoryInv
  <2>2. PendingRecheck => cursor \in rechecked'
    BY DEF Searched
  <2>. QED
    BY <1>1, <1>2, <1>4, <2>1, <2>2
<1>. QED
  BY <1>3, <1>4, <1>5 DEF SearchedWith, r

\* complete_block.
LEMMA CompleteSteps ==
    ASSUME StoreInv, NEW b \in Blocks, NEW now \in Ticks,
           CompleteBlock(b, now) \/ CompleteBlockFails(b, now)
    PROVE  StoreInv'
<1>. DEFINE r == CompletionOf(b, now)
<1>1. /\ Healthy /\ Completable(b) /\ now >= runtime /\ Searched(b) /\ scope' = scope
      /\ UNCHANGED snapshotVars
  BY DEF CompleteBlock, CompleteBlockFails
<1>2. /\ r \in Record /\ r.ordinal \in {NowCursor, None} /\ NowRuntime <= r.runtime
      /\ r.runtime = now /\ NextCovered(r) = covered \cup {b}
      /\ NextCursor(r) = IF PendingRecheck THEN cursor + 1 ELSE cursor
      /\ SearchedWith(r)
  BY <1>1, CompletionLine, CompletedIsSearched
<1>3. /\ TypeOK /\ total = Cardinality(covered) /\ cursor \in Nat /\ Len(plan) \in Nat
      /\ cursor <= Len(plan) /\ covered \subseteq Blocks
  BY <1>1, HealthyMemory DEF TypeOK
<1>4. CASE CompleteBlock(b, now)
  <2>1. /\ AppendDurably(r) /\ MaybeCompact /\ Acknowledge
        /\ covered' = NextCovered(r) /\ cursor' = NextCursor(r) /\ runtime' = r.runtime
        /\ UNCHANGED <<poisoned, snapshotVars>>
    BY <1>2, <1>4 DEF CompleteBlock
  <2>2. total' = Cardinality(covered') /\ total' \in 0 .. Cardinality(Blocks)
    <3>1. /\ IsFiniteSet(Blocks) /\ IsFiniteSet(covered)
          /\ covered' = covered \cup {b} /\ covered' \subseteq Blocks
      BY <1>2, <1>3, <2>1, StoreAssumption, FS_Subset
    <3>2. Cardinality(covered \cup {b}) =
            IF b \in covered THEN Cardinality(covered) ELSE Cardinality(covered) + 1
      BY <3>1, FS_AddElement
    <3>3. total' = Cardinality(covered')
      BY <1>3, <1>4, <3>1, <3>2 DEF CompleteBlock, Counted
    <3>4. /\ Cardinality(covered') \in Nat /\ Cardinality(Blocks) \in Nat
          /\ Cardinality(covered') <= Cardinality(Blocks)
      BY <3>1, FS_Subset, FS_CardinalityType
    <3>. QED
      BY <3>3, <3>4
  <2>3. cursor' \in 0 .. Len(plan)
    BY <1>2, <1>3, <2>1 DEF PendingRecheck
  <2>. HIDE DEF r
  <2>. QED
    BY <1>1, <1>2, <2>1, <2>2, <2>3, AppendStep
<1>5. CASE CompleteBlockFails(b, now)
  <2>1. AppendFails(r) /\ Poison
    BY <1>5 DEF CompleteBlockFails
  <2>. HIDE DEF r
  <2>. QED
    BY <1>1, <1>2, <2>1, AppendFailsStep
<1>. QED
  BY <1>4, <1>5

\* persist_runtime.
LEMMA PersistSteps ==
    ASSUME StoreInv, NEW now \in Ticks, PersistRuntime(now) \/ PersistRuntimeFails(now)
    PROVE  StoreInv'
<1>. DEFINE r == RuntimeRecord(now)
<1>1. /\ Healthy /\ now > runtime /\ scope' = scope /\ UNCHANGED snapshotVars
      /\ searched' = searched /\ rechecked' = rechecked
  BY DEF PersistRuntime, PersistRuntimeFails
<1>2. /\ r \in Record /\ r.ordinal \in {NowCursor, None} /\ NowRuntime <= r.runtime
      /\ r.runtime = now /\ NextCovered(r) = covered /\ NextCursor(r) = cursor
  BY <1>1, RuntimeLine
<1>3. /\ TypeOK /\ total = Cardinality(covered) /\ covered = NowCovered /\ cursor = NowCursor
  BY <1>1, HealthyMemory
<1>4. SearchedWith(r)
  BY <1>1, <1>2, <1>3 DEF SearchedWith, StoreInv, HistoryInv, TypeOK
<1>5. CASE PersistRuntime(now)
  <2>1. /\ AppendDurably(r) /\ MaybeCompact /\ Acknowledge
        /\ covered' = NextCovered(r) /\ cursor' = NextCursor(r) /\ runtime' = r.runtime
        /\ UNCHANGED <<poisoned, snapshotVars>>
    BY <1>2, <1>5 DEF PersistRuntime
  <2>2. /\ total' = Cardinality(covered') /\ cursor' \in 0 .. Len(plan)
        /\ total' \in 0 .. Cardinality(Blocks)
    BY <1>3, <1>5 DEF PersistRuntime, TypeOK
  <2>. HIDE DEF r
  <2>. QED
    BY <1>1, <1>2, <1>4, <2>1, <2>2, AppendStep
<1>6. CASE PersistRuntimeFails(now)
  <2>1. AppendFails(r) /\ Poison
    BY <1>6 DEF PersistRuntimeFails
  <2>. HIDE DEF r
  <2>. QED
    BY <1>1, <1>2, <1>4, <2>1, AppendFailsStep
<1>. QED
  BY <1>5, <1>6

-----------------------------------------------------------------------------
(* The invariant *)

\* It holds where the program starts.
LEMMA InitStore ==
    ASSUME Init
    PROVE  StoreInv
<1>1. /\ scope \in Scopes /\ step = "down" /\ covered = {} /\ total = 0 /\ cursor = 0
      /\ runtime = 0 /\ poisoned = FALSE /\ searched = scope.history
      /\ snapshots = {snapshot} /\ journal = None /\ journals = {None} /\ rechecked = {}
      /\ acked = [prepared |-> plan = <<>>, covered |-> Base(snapshot).covered,
                  cursor |-> 0, runtime |-> 0]
      /\ snapshot \in {None, History(scope.history)}
      /\ plan # <<>> => snapshot = None
  BY DEF Init
<1>2. /\ Len(plan) \in Nat /\ Cardinality(Blocks) \in Nat /\ scope.history \subseteq Blocks
      /\ 0 \in Ticks
  BY <1>1, ScopeType, StoreAssumption DEF Ticks
<1>3. /\ snapshot \in Content /\ Base(snapshot).covered \subseteq scope.history
      /\ Base(snapshot).cursor = 0 /\ Base(snapshot).runtime = 0
      /\ Base(snapshot).total = Cardinality(Base(snapshot).covered)
      /\ plan # <<>> => Base(snapshot).covered = {}
  BY <1>1, HistoryIsSnapshot DEF Content
<1>4. TypeOK
  <2>1. 0 \in 0 .. Cardinality(Blocks) /\ 0 \in 0 .. Len(plan)
    BY <1>2
  <2>. QED
    BY <1>1, <1>2, <1>3, <2>1 DEF TypeOK, Content
<1>5. HeaderInv /\ MemoryInv /\ CountInv
  BY <1>1, <1>3, FS_EmptySet DEF HeaderInv, MemoryInv, IsUp, CountInv
<1>6. AckedInv
  <2>1. (plan = <<>>) \in BOOLEAN
    OBVIOUS
  <2>2. Base(snapshot).covered \in SUBSET Blocks
    BY <1>2, <1>3
  <2>. QED
    BY <1>1, <1>2, <2>1, <2>2 DEF AckedInv, AckRecord
<1>7. UnpreparedInv
  <2>. SUFFICES ASSUME Unprepared
                PROVE  /\ snapshots \subseteq {None, History(scope.history)}
                       /\ journals = {None} /\ step = "down"
                       /\ acked = [prepared |-> FALSE, covered |-> {}, cursor |-> 0,
                                   runtime |-> 0]
    BY DEF UnpreparedInv
  <2>1. (plan = <<>>) = FALSE /\ Base(snapshot).covered = {}
    BY <1>3 DEF Unprepared
  <2>. QED
    BY <1>1, <2>1
<1>8. LineSets = {<<>>} /\ Lines(journal) = <<>>
  BY <1>1, NewJournals DEF LineSets
<1>9. AtMost(acked, Base(snapshot).covered, Base(snapshot).cursor, Base(snapshot).runtime)
  BY <1>1, <1>3 DEF AtMost
<1>10. Survive(snapshots, LineSets, Lines(journal), Base(snapshot).covered,
               Base(snapshot).cursor, Base(snapshot).runtime, acked)
  BY <1>1, <1>3, <1>8, <1>9, FirstFiles
<1>11. /\ NowCovered = Base(snapshot).covered /\ NowCursor = Base(snapshot).cursor
       /\ NowRuntime = Base(snapshot).runtime
  BY <1>1, <1>10 DEF NowCovered, NowCursor, NowRuntime, Survive, Files
<1>12. FilesInv /\ KeptInv
  BY <1>10, <1>11 DEF FilesInv, KeptInv, Survive
<1>13. HistoryInv
  BY <1>1, <1>3, <1>11 DEF HistoryInv
<1>. QED
  BY <1>4, <1>5, <1>6, <1>7, <1>12, <1>13 DEF StoreInv

\* Every step keeps it: the five changes of the files, and the quiet ones.
THEOREM StoreStep == StoreInv /\ [Next]_vars => StoreInv'
<1>. SUFFICES ASSUME StoreInv, [Next]_vars PROVE StoreInv'
  OBVIOUS
<1>1. CASE Prepare
  <2>1. (SaveDurably(History(scope.history)) /\ step' = "prepare")
          \/ (SaveFails(History(scope.history)) /\ step' = step)
    BY <1>1 DEF Prepare
  <2>. QED
    BY <1>1, <2>1, PrepareSaves, PrepareFails
<1>2. CASE CreateJournal
  BY <1>2, CreateJournalStep
<1>3. CASE CreateJournalFails
  BY <1>3, CreateJournalFailsStep
<1>4. CASE Opening
  BY <1>4, CreateSnapshotStep, LoadSteps, OpenFailsSteps DEF Opening
<1>5. CASE Appending
  BY <1>5, CompleteSteps, PersistSteps DEF Appending
<1>6. CASE Compacting
  BY <1>6, IdleSteps, SaveSteps, TruncateSteps, HeaderSteps DEF Compacting
<1>7. CASE Kill
  BY <1>7, KillStep
<1>8. CASE PowerLoss
  BY <1>8, PowerLossStep
<1>9. CASE UNCHANGED vars
  <2>1. /\ UNCHANGED <<scope, step, memoryVars, snapshotVars, journalVars, historyVars>>
        /\ plan' = plan /\ LineSets' = LineSets /\ Lines(journal)' = Lines(journal)
        /\ CurrentSnapshot' = CurrentSnapshot
    BY <1>9 DEF vars, plan, LineSets, journalVars, CurrentSnapshot, memoryVars
  <2>2. /\ UNCHANGED <<scope, step, covered, total, cursor, runtime, poisoned, snapshot,
                       snapshots, journal, journals, searched, rechecked, acked>>
        /\ NowCovered' = NowCovered /\ NowCursor' = NowCursor /\ NowRuntime' = NowRuntime
        /\ Unprepared' = Unprepared /\ IsUp' = IsUp
    BY <2>1 DEF memoryVars, snapshotVars, journalVars, historyVars, NowCovered, NowCursor,
                NowRuntime, Unprepared, IsUp
  <2>3. TypeOK'
    BY <2>1, <2>2 DEF StoreInv, TypeOK
  <2>4. UnpreparedInv' /\ FilesInv' /\ KeptInv'
    BY <2>1, <2>2 DEF StoreInv, UnpreparedInv, FilesInv, KeptInv
  <2>5. MemoryInv' /\ CountInv' /\ HistoryInv'
    BY <2>1, <2>2 DEF StoreInv, MemoryInv, CountInv, HistoryInv
  <2>6. HeaderInv' /\ AckedInv'
    BY <2>1, <2>2 DEF StoreInv, HeaderInv, AckedInv
  <2>. QED
    BY <2>3, <2>4, <2>5, <2>6 DEF StoreInv
<1>. QED
  BY <1>1, <1>2, <1>3, <1>4, <1>5, <1>6, <1>7, <1>8, <1>9 DEF Next, Preparing

\* The files and the memory of the store are related as StoreInv says, however the
\* process is killed and power is lost.
THEOREM StoreIsSafe == Spec => []StoreInv
<1>1. Init => StoreInv
  BY InitStore
<1>2. StoreInv /\ [Next]_vars => StoreInv'
  BY StoreStep
<1>. QED
  BY <1>1, <1>2, PTL DEF Spec

-----------------------------------------------------------------------------
(* What the invariant is for *)

\* Every pair of files replays to what it shows.
LEMMA PairsReplay ==
    ASSUME StoreInv, NEW s \in snapshots, NEW j \in journals
    PROVE  /\ Replayed(s, j).covered = Cov(s, Lines(j))
           /\ Replayed(s, j).cursor = Cur(s, Lines(j))
           /\ Replayed(s, j).runtime = Run(s, Lines(j))
           /\ Replayed(s, j).total = Cardinality(Replayed(s, j).covered)
           /\ Lines(j) \in LineSets /\ s \in Content /\ Lines(j) \in Seq(Record)
<1>1. s \in Content /\ Lines(j) \in LineSets /\ Lines(j) \in Seq(Record)
  BY FileTypes DEF StoreInv, Typed, LineSets
<1>2. Base(s).total = Cardinality(Base(s).covered)
  BY DEF StoreInv, CountInv
<1>. QED
  BY <1>1, <1>2, ReplayShows

\* What was saved is found again.
LEMMA KeptIsFound ==
    ASSUME StoreInv, FsyncKeepsName
    PROVE  NothingAckedIsLost
<1>. SUFFICES ASSUME NEW s \in snapshots, NEW j \in journals
              PROVE  /\ acked.covered \subseteq Replayed(s, j).covered
                     /\ acked.cursor <= Replayed(s, j).cursor
                     /\ acked.runtime <= Replayed(s, j).runtime
  BY DEF NothingAckedIsLost
<1>. QED
  BY PairsReplay DEF StoreInv, KeptInv, Kept

\* And nothing else.
LEMMA FoundIsSearched ==
    ASSUME StoreInv
    PROVE  NothingIsInvented
<1>. SUFFICES ASSUME NEW s \in snapshots, NEW j \in journals
              PROVE  /\ Cov(s, Lines(j)) \subseteq searched
                     /\ \A o \in 0 .. Cur(s, Lines(j)) - 1 : o \in rechecked
  BY PairsReplay DEF NothingIsInvented
<1>1. /\ scope.history \subseteq searched /\ NowCovered \subseteq searched
      /\ \A o \in 0 .. NowCursor - 1 : o \in rechecked
  BY DEF StoreInv, HistoryInv
<1>2. CASE ~Unprepared
  <2>1. /\ Cov(s, Lines(j)) \subseteq NowCovered /\ Cur(s, Lines(j)) <= NowCursor
        /\ NowCursor \in Nat
    BY <1>2, PairsReplay, NowSurvives DEF Survive, Files, IsProgress
  <2>2. Cur(s, Lines(j)) \in Nat
    BY PairsReplay, LineTypes
  <2>. QED
    BY <1>1, <2>1, <2>2
<1>3. CASE Unprepared
  <2>1. s \in {None, History(scope.history)} /\ Lines(j) = <<>> /\ scope \in Scopes
    BY <1>3, NewJournals DEF StoreInv, UnpreparedInv, TypeOK
  <2>2. Base(s).covered \subseteq scope.history /\ Base(s).cursor = 0
    BY <2>1, HistoryIsSnapshot
  <2>3. Cov(s, <<>>) = Base(s).covered /\ Cur(s, <<>>) = Base(s).cursor
    BY PairsReplay, NoLinesShow DEF Shows
  <2>. QED
    BY <1>1, <2>1, <2>2, <2>3
<1>. QED
  BY <1>2, <1>3

\* Each block once.
LEMMA FoundIsCounted ==
    ASSUME StoreInv
    PROVE  CountMatchesCoverage
<1>1. total = Cardinality(covered)
  BY DEF StoreInv, MemoryInv
<1>. QED
  BY <1>1, PairsReplay DEF CountMatchesCoverage

\* Whatever the directory of the journal does, a start after any crash finds no block
\* covered and no target rechecked that was not searched, and counts each block once.
THEOREM NothingIsInventedAlways == Spec => [](NothingIsInvented /\ CountMatchesCoverage)
<1>1. StoreInv => NothingIsInvented /\ CountMatchesCoverage
  BY FoundIsSearched, FoundIsCounted
<1>. QED
  BY <1>1, StoreIsSafe, PTL

\* If the fsync of the journal keeps its name, the start also finds everything that
\* complete_block and persist_runtime returned Ok for.
THEOREM RecoveryIsExactAlways == FsyncKeepsName => (Spec => []RecoveryIsExact)
<1>. SUFFICES ASSUME FsyncKeepsName PROVE Spec => []RecoveryIsExact
  OBVIOUS
<1>1. StoreInv => RecoveryIsExact
  BY KeptIsFound, FoundIsSearched, FoundIsCounted DEF RecoveryIsExact
<1>. QED
  BY <1>1, StoreIsSafe, PTL

-----------------------------------------------------------------------------
(* Every pair of files is accepted.  About one pair: *)

\* A longer journal begins as the shorter one did.
LEMMA SameBeginning ==
    ASSUME NEW lines \in Seq(Record), NEW r \in Record, NEW i \in 0 .. Len(lines)
    PROVE  SubSeq(Append(lines, r), 1, i) = SubSeq(lines, 1, i)
<1>. DEFINE l2 == Append(lines, r)
            A == SubSeq(l2, 1, i)
            B == SubSeq(lines, 1, i)
<1>1. /\ l2 \in Seq(Record) /\ Len(l2) = Len(lines) + 1 /\ Len(lines) \in Nat
      /\ \A k \in 1 .. Len(lines) : l2[k] = lines[k]
  BY OneMoreLine
<1>. HIDE DEF l2
<1>2. /\ \A k \in 1 .. i : l2[k] \in Record /\ lines[k] \in Record /\ l2[k] = lines[k]
      /\ i \in Int /\ 1 \in Int /\ i - 1 + 1 = i
  BY <1>1
<1>3. A \in Seq(Record) /\ Len(A) = (IF 1 <= i THEN i - 1 + 1 ELSE 0)
      /\ \A k \in 1 .. i - 1 + 1 : A[k] = l2[1 + k - 1]
  BY <1>2, SubSeqProperties
<1>4. B \in Seq(Record) /\ Len(B) = (IF 1 <= i THEN i - 1 + 1 ELSE 0)
      /\ \A k \in 1 .. i - 1 + 1 : B[k] = lines[1 + k - 1]
  BY <1>2, SubSeqProperties
<1>. HIDE DEF A, B
<1>5. Len(A) = i /\ Len(B) = i
  BY <1>3, <1>4
<1>6. \A k \in 1 .. i : A[k] = l2[k] /\ B[k] = lines[k]
  BY <1>2, <1>3, <1>4
<1>7. A = B
  BY <1>2, <1>3, <1>4, <1>5, <1>6, SeqEqual
<1>. QED
  BY <1>7 DEF A, B, l2

\* The beginning of a journal has some of its ordinals, and passes some of its targets.
LEMMA Beginnings ==
    ASSUME NEW lines \in Seq(Record), NEW s \in Content, NEW i \in 0 .. Len(lines)
    PROVE  /\ Ordinals(SubSeq(lines, 1, i)) \subseteq Ordinals(lines)
           /\ CursorAt(s, lines, i) \in Nat
           /\ Base(s).cursor <= CursorAt(s, lines, i)
           /\ CursorAt(s, lines, i) <= Cur(s, lines)
           /\ CursorAt(s, lines, Len(lines)) = Cur(s, lines)
<1>. DEFINE B == SubSeq(lines, 1, i)
<1>1. \A k \in 1 .. i : lines[k] \in Record /\ k \in DOMAIN lines
  OBVIOUS
<1>2. B \in Seq(Record) /\ \A k \in DOMAIN B : k \in DOMAIN lines /\ B[k] = lines[k]
  <2>1. /\ B \in Seq(Record) /\ Len(B) = (IF 1 <= i THEN i - 1 + 1 ELSE 0)
        /\ \A k \in 1 .. i - 1 + 1 : B[k] = lines[1 + k - 1]
    BY <1>1, SubSeqProperties
  <2>. HIDE DEF B
  <2>2. Len(B) = i /\ i - 1 + 1 = i
    BY <2>1
  <2>3. \A k \in 1 .. i : B[k] = lines[k]
    BY <2>1, <2>2
  <2>. QED
    BY <1>1, <2>1, <2>2, <2>3
<1>. HIDE DEF B
<1>3. Ordinals(B) \subseteq Ordinals(lines)
  BY <1>2 DEF Ordinals
<1>4. Passed(s, B) \subseteq Passed(s, lines)
  BY <1>3 DEF Passed
<1>5. /\ IsFiniteSet(Passed(s, lines)) /\ Cardinality(Passed(s, lines)) \in Nat
      /\ Cardinality(Passed(s, B)) \in Nat /\ Base(s).cursor \in Nat
  BY <1>2, LineTypes, BaseType
<1>6. Cardinality(Passed(s, B)) <= Cardinality(Passed(s, lines))
  BY <1>4, <1>5, FS_Subset
<1>7. CursorAt(s, lines, i) = Base(s).cursor + Cardinality(Passed(s, B))
  BY DEF CursorAt, Passed, B
<1>8. CursorAt(s, lines, Len(lines)) = Cur(s, lines)
  BY SubSeqFull DEF CursorAt, Cur, Passed
<1>. QED
  BY <1>3, <1>5, <1>6, <1>7, <1>8 DEF Cur, B

\* A journal without lines is accepted where its snapshot is.
LEMMA NoLinesAccepted ==
    ASSUME NEW s \in Content, s # None => Covers(Base(s).covered, Base(s).cursor)
    PROVE  Accepted(s, <<>>)
<1>1. Cov(s, <<>>) = Base(s).covered /\ Cur(s, <<>>) = Base(s).cursor
  BY NoLinesShow DEF Shows
<1>2. Ordinals(<<>>) = {} /\ DOMAIN <<>> = {}
  BY DEF Ordinals
<1>. QED
  BY <1>1, <1>2 DEF Accepted

\* The line that completes a block, or records the runtime, may follow the progress.
Follows(r, C, c, t) ==
    /\ r.ordinal \in {c, None} /\ t <= r.runtime
    /\ r.ordinal # None => c < Len(plan) /\ plan[c + 1] = r.block /\ r.block # None
    /\ r.ordinal = None /\ r.block # None => c = Len(plan)

\* An accepted journal is accepted with one more line.
LEMMA LineAccepted ==
    ASSUME NEW s \in Content, NEW lines \in Seq(Record), Accepted(s, lines),
           NEW C, NEW c, NEW t, IsProgress(C, c, t), Shows(s, lines, C, c, t),
           Within(s, lines), NEW r \in Record, Follows(r, C, c, t), Len(plan) \in Nat
    PROVE  Accepted(s, Append(lines, r))
<1>. DEFINE l2 == Append(lines, r)
            n == Len(lines)
<1>1. /\ l2 \in Seq(Record) /\ Len(l2) = n + 1 /\ n \in Nat
      /\ \A i \in DOMAIN lines : l2[i] = lines[i]
      /\ l2[n + 1] = r /\ DOMAIN l2 = DOMAIN lines \cup {n + 1} /\ DOMAIN lines = 1 .. n
      /\ Ordinals(l2) = Ordinals(lines) \cup ({r.ordinal} \ {None})
      /\ LineBlocks(l2) = LineBlocks(lines) \cup ({r.block} \ {None})
  BY OneMoreLine
<1>2. \A i \in 0 .. n : SubSeq(l2, 1, i) = SubSeq(lines, 1, i)
  BY SameBeginning
<1>3. \A i \in 0 .. n : CursorAt(s, l2, i) = CursorAt(s, lines, i)
  BY <1>2 DEF CursorAt
<1>4. Cur(s, lines) = c /\ CursorAt(s, lines, n) = c /\ SubSeq(lines, 1, n) = lines /\ c \in Nat
  BY <1>1, Beginnings, SubSeqFull DEF Shows, IsProgress
<1>5. r.ordinal \in {Cur(s, lines), None}
  BY <1>4 DEF Follows
<1>6. Cur(s, l2) = IF r.ordinal = None THEN c ELSE c + 1
  BY <1>4, <1>5, OneMoreOrdinal
<1>. HIDE DEF l2
<1>7. ASSUME NEW i \in DOMAIN lines PROVE LineIsValid(s, l2, i)
  <2>1. LineIsValid(s, lines, i)
    BY DEF Accepted
  <2>2. i - 1 \in 0 .. n /\ (i > 1 => i - 1 \in DOMAIN lines)
    BY <1>1
  <2>3. /\ l2[i] = lines[i] /\ (i > 1 => l2[i - 1] = lines[i - 1])
        /\ SubSeq(l2, 1, i - 1) = SubSeq(lines, 1, i - 1)
        /\ CursorAt(s, l2, i - 1) = CursorAt(s, lines, i - 1)
    BY <1>1, <1>2, <1>3, <2>2
  <2>. QED
    BY <2>1, <2>3 DEF LineIsValid, OrdinalIsNext
<1>8. LineIsValid(s, l2, n + 1)
  <2>1. /\ l2[n + 1] = r /\ n + 1 - 1 = n
        /\ SubSeq(l2, 1, n) = lines /\ CursorAt(s, l2, n) = c
    BY <1>1, <1>2, <1>3, <1>4
  <2>2. n + 1 > 1 => l2[n].runtime <= r.runtime
    <3>. SUFFICES ASSUME n + 1 > 1 PROVE l2[n].runtime <= r.runtime
      OBVIOUS
    <3>1. n \in DOMAIN lines /\ l2[n] = lines[n] /\ lines[n] \in Record
      BY <1>1
    <3>2. lines[n].runtime <= t /\ t <= r.runtime
      BY <3>1 DEF Within, Shows, Follows
    <3>3. lines[n].runtime \in Nat /\ t \in Nat /\ r.runtime \in Nat
      BY <3>1, StoreAssumption DEF Record, Ticks, IsProgress
    <3>. QED
      BY <3>1, <3>2, <3>3
  <2>3. r.ordinal # None => OrdinalIsNext(s, l2, n + 1)
    <3>. SUFFICES ASSUME r.ordinal # None PROVE OrdinalIsNext(s, l2, n + 1)
      OBVIOUS
    <3>1. r.ordinal = c /\ c < Len(plan) /\ plan[c + 1] = r.block
      BY DEF Follows
    <3>2. Ordinals(lines) # {} => c - 1 \in Ordinals(lines)
      BY <1>4 DEF Accepted
    <3>3. \A e \in Ordinals(lines) : e < c
      BY <1>4 DEF Within
    <3>4. /\ l2[n + 1].ordinal = c /\ l2[n + 1].block = r.block
          /\ SubSeq(l2, 1, n + 1 - 1) = lines /\ CursorAt(s, l2, n + 1 - 1) = c /\ c <= c
      BY <1>4, <2>1, <3>1
    <3>. DEFINE o == l2[n + 1].ordinal
                earlier == Ordinals(SubSeq(l2, 1, n + 1 - 1))
    <3>5. o < Len(plan) /\ plan[o + 1] = l2[n + 1].block
      BY <3>1, <3>4
    <3>6. earlier # {} => o - 1 \in earlier /\ \A e \in earlier : e < o
      BY <3>2, <3>3, <3>4
    <3>7. o <= CursorAt(s, l2, n + 1 - 1)
      BY <3>4
    <3>. QED
      BY <3>5, <3>6, <3>7 DEF OrdinalIsNext
  <2>4. r.ordinal = None /\ r.block # None => CursorAt(s, l2, n) = Len(plan)
    BY <2>1 DEF Follows
  <2>. QED
    BY <2>1, <2>2, <2>3, <2>4 DEF LineIsValid
<1>9. Ordinals(l2) # {} => Cur(s, l2) - 1 \in Ordinals(l2)
  <2>1. CASE r.ordinal = None
    BY <1>1, <1>4, <1>6, <2>1 DEF Accepted
  <2>2. CASE r.ordinal # None
    <3>1. r.ordinal = c /\ c + 1 - 1 = c
      BY <1>4, <2>2 DEF Follows
    <3>2. c \in Ordinals(l2) /\ Cur(s, l2) = c + 1
      BY <1>1, <1>6, <2>2, <3>1
    <3>3. Cur(s, l2) - 1 = c
      BY <1>4, <3>2
    <3>. QED
      BY <3>2, <3>3
  <2>. QED
    BY <2>1, <2>2
<1>10. s # None => Covers(Cov(s, l2), Cur(s, l2))
  <2>. SUFFICES ASSUME s # None, NEW i \in DOMAIN plan, scope.legacy \/ i <= Cur(s, l2)
                PROVE  plan[i] \in Cov(s, l2)
    BY DEF Covers
  <2>1. Cov(s, l2) = Cov(s, lines) \cup ({r.block} \ {None})
    BY <1>1 DEF Cov
  <2>2. \A k \in DOMAIN plan : scope.legacy \/ k <= c => plan[k] \in Cov(s, lines)
    BY <1>4 DEF Accepted, Covers
  <2>3. CASE scope.legacy \/ i <= c
    BY <2>1, <2>2, <2>3
  <2>4. CASE ~(scope.legacy \/ i <= c)
    <3>1. i \in Nat
      BY DEF plan
    <3>2. r.ordinal # None /\ i = c + 1
      BY <1>4, <1>6, <2>4, <3>1
    <3>. QED
      BY <2>1, <3>2 DEF Follows
  <2>. QED
    BY <2>3, <2>4
<1>11. \A i \in DOMAIN l2 : LineIsValid(s, l2, i)
  BY <1>1, <1>7, <1>8
<1>. QED
  BY <1>9, <1>10, <1>11 DEF Accepted, l2

\* The lines of an accepted journal are accepted with a snapshot of what they show.
LEMMA SnapshotAccepted ==
    ASSUME NEW s \in Content, NEW lines \in Seq(Record), s # None, Accepted(s, lines),
           NEW C, NEW c, NEW t, IsProgress(C, c, t), Shows(s, lines, C, c, t),
           Within(s, lines), Len(plan) \in Nat, c <= Len(plan),
           NEW s0 \in Content,
           Base(s0).covered = C, Base(s0).cursor = c, Base(s0).runtime = t
    PROVE  Accepted(s0, lines) /\ Covers(C, c)
<1>1. /\ LineBlocks(lines) \subseteq C /\ \A o \in Ordinals(lines) : o < c
      /\ \A i \in DOMAIN lines : lines[i].runtime <= t
      /\ Cur(s, lines) = c /\ Cov(s, lines) = C /\ c \in Nat
  BY DEF Within, Shows, Cov, IsProgress
<1>2. Cur(s0, lines) = c /\ Cov(s0, lines) = C
  BY <1>1, SnapshotShows DEF Shows
<1>3. Covers(C, c)
  BY <1>1 DEF Accepted
<1>4. Ordinals(lines) # {} => c - 1 \in Ordinals(lines)
  BY <1>1 DEF Accepted
<1>5. ASSUME NEW i \in DOMAIN lines PROVE LineIsValid(s0, lines, i)
  <2>1. i - 1 \in 0 .. Len(lines) /\ lines[i] \in Record
    OBVIOUS
  <2>2. /\ CursorAt(s, lines, i - 1) <= c /\ CursorAt(s, lines, i - 1) \in Nat
        /\ CursorAt(s0, lines, i - 1) <= c /\ c <= CursorAt(s0, lines, i - 1)
        /\ CursorAt(s0, lines, i - 1) \in Nat
    BY <1>1, <1>2, <2>1, Beginnings
  <2>3. CursorAt(s0, lines, i - 1) = c
    BY <1>1, <2>2
  <2>4. LineIsValid(s, lines, i)
    BY DEF Accepted
  <2>5. lines[i].ordinal # None => OrdinalIsNext(s0, lines, i)
    <3>. SUFFICES ASSUME lines[i].ordinal # None PROVE OrdinalIsNext(s0, lines, i)
      OBVIOUS
    <3>. DEFINE o == lines[i].ordinal
    <3>1. o \in Ordinals(lines) /\ o \in Nat
      BY <2>1, LineTypes, BaseType DEF Ordinals
    <3>2. o <= CursorAt(s0, lines, i - 1)
      BY <1>1, <2>3, <3>1
    <3>3. OrdinalIsNext(s, lines, i)
      BY <2>4 DEF LineIsValid
    <3>. QED
      BY <3>2, <3>3 DEF OrdinalIsNext
  <2>6. lines[i].ordinal = None /\ lines[i].block # None =>
          CursorAt(s0, lines, i - 1) = Len(plan)
    <3>. SUFFICES ASSUME lines[i].ordinal = None, lines[i].block # None
                  PROVE  c = Len(plan)
      BY <2>3
    <3>1. CursorAt(s, lines, i - 1) = Len(plan)
      BY <2>4 DEF LineIsValid
    <3>. QED
      BY <1>1, <2>2, <3>1
  <2>. QED
    BY <2>4, <2>5, <2>6 DEF LineIsValid
<1>. QED
  BY <1>2, <1>3, <1>4, <1>5 DEF Accepted

-----------------------------------------------------------------------------
(* Every pair of files is accepted.  Step by step: *)

\* A scope is never changed, so what is accepted stays so.
LEMMA AcceptedStays ==
    ASSUME scope' = scope, NEW CONSTANT s, NEW CONSTANT lines
    PROVE  /\ Accepted(s, lines)' <=> Accepted(s, lines)
           /\ \A C, c : Covers(C, c)' <=> Covers(C, c)
<1>1. plan' = plan
  BY DEF plan
<1>2. \A C, c : Covers(C, c)' <=> Covers(C, c)
  BY <1>1 DEF Covers
<1>3. \A i : LineIsValid(s, lines, i)' <=> LineIsValid(s, lines, i)
  BY <1>1 DEF LineIsValid, OrdinalIsNext
<1>. QED
  BY <1>2, <1>3 DEF Accepted

\* What a step has to add: every new pair is accepted, and covers its targets.
LEMMA AcceptedNext ==
    ASSUME scope' = scope,
           ~Unprepared' => \A s \in snapshots', lines \in LineSets' : Accepted(s, lines),
           \A s \in snapshots' \ {None} : Covers(Base(s).covered, Base(s).cursor),
           step' = "save" => LineSets' \subseteq {Lines(journal'), <<>>}
    PROVE  AcceptedInv'
<1>1. ~Unprepared' => \A s \in snapshots', lines \in LineSets' : Accepted(s, lines)'
  BY AcceptedStays
<1>2. \A s \in snapshots' \ {None} : Covers(Base(s).covered, Base(s).cursor)'
  BY AcceptedStays
<1>. QED
  BY <1>1, <1>2 DEF AcceptedInv

\* Fewer of the same.
LEMMA AcceptedFewer ==
    ASSUME AcceptedInv, scope' = scope, snapshots' \subseteq snapshots,
           LineSets' \subseteq LineSets, StoreInv,
           step' = "save" => LineSets' \subseteq {Lines(journal'), <<>>}
    PROVE  AcceptedInv'
<1>1. \A s \in snapshots' \ {None} : Covers(Base(s).covered, Base(s).cursor)
  BY DEF AcceptedInv
<1>2. ASSUME ~Unprepared', NEW s \in snapshots', NEW lines \in LineSets'
      PROVE  Accepted(s, lines)
  <2>1. CASE ~Unprepared
    BY <2>1 DEF AcceptedInv
  <2>2. CASE Unprepared
    <3>1. lines = <<>> /\ s \in Content
      BY <1>2, <2>2, FileTypes, NewJournals
      DEF StoreInv, UnpreparedInv, LineSets, GoodFiles
    <3>. QED
      BY <1>1, <3>1, NoLinesAccepted
  <2>. QED
    BY <2>1, <2>2
<1>. QED
  BY <1>1, <1>2, AcceptedNext

\* A header, a repair, a kill or a power loss adds no line and no snapshot.
LEMMA FewerSteps ==
    ASSUME StoreInv,
           \/ CreateJournal \/ CreateJournalFails
           \/ OpenWithHeader \/ OpenWithoutHeader \/ OpenFails \/ RepairFails
           \/ WriteHeader \/ WriteHeaderPoisons \/ TruncateRefused \/ Kill \/ PowerLoss
    PROVE  /\ scope' = scope /\ snapshots' \subseteq snapshots /\ LineSets' \subseteq LineSets
           /\ step' # "save"
<1>1. GoodFiles /\ \A j \in journals : Lines(j) \in LineSets
  BY FileTypes DEF StoreInv, LineSets
<1>2. CASE CreateJournal \/ CreateJournalFails
  <2>1. journal = None /\ journals' \subseteq journals \cup {Empty} /\ snapshots' = snapshots
    BY <1>2 DEF CreateJournal, CreateJournalFails, StoreInv, MemoryInv, snapshotVars, journalVars
  <2>2. Lines(Empty) \in LineSets
    BY <1>1, <2>1, NewJournals DEF GoodFiles
  <2>. QED
    BY <1>1, <1>2, <2>1, <2>2 DEF CreateJournal, CreateJournalFails, LineSets
<1>3. CASE OpenWithHeader \/ RepairFails
  <2>1. HasHeader /\ journals' \subseteq journals \cup {Trimmed} /\ snapshots' = snapshots
    BY <1>3, SyncedIs DEF OpenWithHeader, RepairFails, snapshotVars, journalVars
  <2>2. Lines(Trimmed) \in LineSets
    BY <1>1, <2>1, TrimmedLines
  <2>3. scope' = scope /\ step' # "save"
    BY <1>3 DEF OpenWithHeader, RepairFails, Load
  <2>. QED
    BY <1>1, <2>1, <2>2, <2>3 DEF LineSets
<1>4. CASE OpenWithoutHeader \/ OpenFails \/ WriteHeader \/ WriteHeaderPoisons
  <2>1. Lines(journal) = <<>>
    <3>1. CASE ~HasHeader
      BY <1>1, <3>1 DEF HasHeader, GoodFiles, GoodJournal, Lines
    <3>2. CASE step = "header"
      BY <3>2 DEF StoreInv, MemoryInv
    <3>. QED
      BY <1>4, <3>1, <3>2 DEF OpenWithoutHeader, OpenFails, WriteHeader, WriteHeaderPoisons
  <2>2. WriteHeaderDurably \/ WriteHeaderFails
    BY <1>4 DEF OpenWithoutHeader, OpenFails, WriteHeader, WriteHeaderPoisons
  <2>3. /\ snapshots' \subseteq snapshots
        /\ \A j \in journals' : Lines(j) \in LineSets
    BY <1>1, <2>1, <2>2, HeaderLines
  <2>4. scope' = scope /\ step' # "save"
    BY <1>4 DEF OpenWithoutHeader, OpenFails, WriteHeader, WriteHeaderPoisons, Load
  <2>. QED
    BY <2>3, <2>4 DEF LineSets
<1>5. CASE TruncateRefused
  BY <1>5 DEF TruncateRefused, snapshotVars, journalVars, LineSets
<1>6. CASE Kill
  BY <1>6 DEF Kill, StopProcess, snapshotVars, journalVars, LineSets
<1>7. CASE PowerLoss
  BY <1>7 DEF PowerLoss, StopProcess, LineSets
<1>. QED
  BY <1>2, <1>3, <1>4, <1>5, <1>6, <1>7

\* A snapshot is written for a scope that was accepted, or for none.
LEMMA NewSnapshotAccepted ==
    ASSUME StoreInv, AcceptedInv, Prepare \/ CreateSnapshot
    PROVE  AcceptedInv'
<1>1. GoodFiles /\ TypeOK /\ scope \in Scopes
  BY FileTypes DEF StoreInv, TypeOK
<1>2. CASE Prepare
  <2>. DEFINE H == History(scope.history)
  <2>1. /\ Unprepared /\ journals = {None} /\ journal = None /\ snapshots \subseteq {None, H}
        /\ scope' = scope /\ Covers(H.covered, 0) /\ H.cursor = 0 /\ Base(H) = H /\ H \in Content
    <3>1. Unprepared /\ RequiredCoverage(H)
      BY <1>1, <1>2 DEF Prepare, Unprepared, GoodFiles
    <3>2. H.cursor = 0 /\ Base(H) = H /\ H \in Content
      BY <1>1, HistoryIsSnapshot DEF Content
    <3>3. Covers(H.covered, 0)
      BY <3>1, <3>2 DEF RequiredCoverage, Covers
    <3>. QED
      BY <1>2, <3>1, <3>2, <3>3 DEF Prepare, StoreInv, UnpreparedInv
  <2>2. journals' = {None} /\ snapshots' \subseteq {None, H} /\ step' # "save"
    BY <1>2, <2>1 DEF Prepare, SaveDurably, SaveFails, SettleSnapshot, JournalNamed,
       snapshotVars, journalVars
  <2>. HIDE DEF H
  <2>3. LineSets' = {<<>>}
    BY <2>2, NewJournals DEF LineSets
  <2>4. \A s \in snapshots' \ {None} : Covers(Base(s).covered, Base(s).cursor)
    BY <2>1, <2>2
  <2>5. \A s \in snapshots' : s \in Content
    BY <2>1, <2>2 DEF Content
  <2>6. \A s \in snapshots' : Accepted(s, <<>>)
    BY <2>4, <2>5, NoLinesAccepted
  <2>. QED
    BY <2>1, <2>2, <2>3, <2>4, <2>6, AcceptedNext
<1>3. CASE CreateSnapshot
  <2>1. /\ plan = <<>> /\ snapshot = None /\ scope' = scope /\ step' = "down"
        /\ ~Unprepared
    BY <1>3 DEF CreateSnapshot, Unprepared
  <2>2. journals' \subseteq journals /\ snapshots' \subseteq snapshots \cup {NewStore}
    BY <1>1, <1>3, <2>1 DEF CreateSnapshot, SaveDurably, SaveFails, SettleSnapshot,
       JournalNamed, snapshotVars, journalVars, GoodFiles
  <2>3. \A C, c : Covers(C, c)
    BY <2>1 DEF Covers
  <2>4. ASSUME NEW lines \in LineSets PROVE Accepted(NewStore, lines)
    <3>1. Accepted(None, lines)
      BY <1>1, <2>1 DEF AcceptedInv, GoodFiles
    <3>2. NewStore # None
      BY <1>1, NoneAssumption, StoreAssumption, FS_CardinalityType
      DEF NewStore, Snapshot, Cursors, Ticks
    <3>3. Base(NewStore) = Base(None)
      BY <3>2 DEF Base
    <3>4. /\ Cur(NewStore, lines) = Cur(None, lines)
          /\ \A n : CursorAt(NewStore, lines, n) = CursorAt(None, lines, n)
      BY <3>3 DEF Cur, Passed, CursorAt
    <3>5. \A i : LineIsValid(None, lines, i) => LineIsValid(NewStore, lines, i)
      BY <3>4 DEF LineIsValid, OrdinalIsNext
    <3>. QED
      BY <2>3, <3>1, <3>4, <3>5 DEF Accepted
  <2>5. LineSets' \subseteq LineSets
    BY <2>2 DEF LineSets
  <2>6. \A s \in snapshots', lines \in LineSets' : Accepted(s, lines)
    BY <2>1, <2>2, <2>4, <2>5 DEF AcceptedInv
  <2>. QED
    BY <2>1, <2>3, <2>6, AcceptedNext
<1>. QED
  BY <1>2, <1>3

\* The progress of a store is within its plan, and each of its snapshots shows it.
LEMMA NowShows ==
    ASSUME StoreInv, ~Unprepared
    PROVE  /\ IsProgress(NowCovered, NowCursor, NowRuntime)
           /\ NowCursor <= Len(plan) /\ Len(plan) \in Nat
           /\ Lines(journal) \in LineSets /\ Lines(journal) \in Seq(Record)
           /\ \A s \in snapshots :
                s \in Content /\ Within(s, Lines(journal))
                  /\ Shows(s, Lines(journal), NowCovered, NowCursor, NowRuntime)
<1>1. Survive(snapshots, LineSets, Lines(journal), NowCovered, NowCursor, NowRuntime, acked)
  BY NowSurvives
<1>2. NowCursor \in Nat /\ \A o \in 0 .. NowCursor - 1 : o \in rechecked
  BY <1>1 DEF StoreInv, HistoryInv, Survive, IsProgress
<1>3. Len(plan) \in Nat /\ rechecked \subseteq 0 .. Len(plan) - 1
  BY ScopeType DEF StoreInv, TypeOK
<1>4. NowCursor <= Len(plan)
  <2>1. NowCursor > Len(plan) => Len(plan) \in 0 .. NowCursor - 1
    BY <1>2, <1>3
  <2>. QED
    BY <1>2, <1>3, <2>1
<1>. QED
  BY <1>1, <1>3, <1>4 DEF Survive, Typed, Files, Shows

\* A compaction begins with a journal that is the only one, but for its name.
LEMMA CompactionAccepted ==
    ASSUME StoreInv, AcceptedInv, LateCompaction, PersistNothing
    PROVE  AcceptedInv'
<1>1. /\ scope' = scope /\ snapshots' = snapshots /\ journal' = journal
      /\ journals' = Synced(journal)
  BY DEF PersistNothing, snapshotVars
<1>2. GoodFiles
  BY FileTypes DEF StoreInv
<1>3. LineSets' \subseteq LineSets /\ LineSets' \subseteq {Lines(journal'), <<>>}
  BY <1>1, <1>2, SyncedIs, NewJournals DEF LineSets, GoodFiles
<1>. QED
  BY <1>1, <1>3, AcceptedFewer

\* The snapshot of the progress is accepted with the journal, and without it.
LEMMA SaveAccepted ==
    ASSUME StoreInv, AcceptedInv, SaveSnapshot \/ SaveSnapshotFails
    PROVE  AcceptedInv'
<1>1. /\ step = "save" /\ IsUp /\ ~poisoned /\ ~Unprepared /\ GoodFiles /\ snapshot # None
  <2>1. step = "save" /\ IsUp /\ ~poisoned
    BY DEF SaveSnapshot, SaveSnapshotFails, StoreInv, MemoryInv, IsUp
  <2>. QED
    BY <2>1, UpFiles
<1>2. /\ CurrentSnapshot \in Content /\ Base(CurrentSnapshot) = CurrentSnapshot
      /\ CurrentSnapshot.covered = NowCovered /\ CurrentSnapshot.cursor = NowCursor
      /\ CurrentSnapshot.runtime = NowRuntime
  BY <1>1, CurrentIsProgress DEF Content
<1>3. scope' = scope /\ step' # "save"
  BY DEF SaveSnapshot, SaveSnapshotFails
<1>4. journals' \subseteq journals /\ snapshots' \subseteq snapshots \cup {CurrentSnapshot}
  <2>1. CASE SaveSnapshot
    BY <2>1 DEF SaveSnapshot, SaveDurably, JournalNamed, SettleSnapshot
  <2>2. CASE SaveSnapshotFails
    BY <2>2 DEF SaveSnapshotFails, SaveFails, journalVars, snapshotVars
  <2>. QED
    BY <2>1, <2>2
<1>5. LineSets' \subseteq LineSets /\ LineSets' \subseteq {Lines(journal), <<>>}
  BY <1>1, <1>4 DEF LineSets, AcceptedInv
<1>6. /\ Accepted(CurrentSnapshot, Lines(journal)) /\ Covers(NowCovered, NowCursor)
  <2>1. Accepted(snapshot, Lines(journal)) /\ snapshot \in snapshots
    BY <1>1, NowShows DEF AcceptedInv, GoodFiles
  <2>. QED
    BY <1>1, <1>2, <2>1, NowShows, SnapshotAccepted
<1>7. Accepted(CurrentSnapshot, <<>>)
  BY <1>2, <1>6, NoLinesAccepted
<1>8. \A s \in snapshots', lines \in LineSets' : Accepted(s, lines)
  BY <1>1, <1>4, <1>5, <1>6, <1>7 DEF AcceptedInv
<1>9. \A s \in snapshots' \ {None} : Covers(Base(s).covered, Base(s).cursor)
  BY <1>2, <1>4, <1>6 DEF AcceptedInv
<1>. QED
  BY <1>3, <1>8, <1>9, AcceptedNext

\* The snapshot is accepted without a journal.
LEMMA TruncateAccepted ==
    ASSUME StoreInv, AcceptedInv, TruncateJournal \/ TruncateJournalFails
    PROVE  AcceptedInv'
<1>1. /\ scope' = scope /\ step' # "save" /\ snapshots' = snapshots
      /\ journals' \subseteq journals \cup {Empty, None} /\ ~Unprepared /\ GoodFiles
  <2>1. IsUp /\ scope' = scope /\ step' # "save" /\ snapshots' = snapshots
    BY DEF TruncateJournal, TruncateJournalFails, snapshotVars, IsUp
  <2>2. journals' \subseteq journals \cup {Empty, None}
    BY SyncedIs DEF TruncateJournal, TruncateDurably, TruncateJournalFails, TruncateFails,
       journalVars
  <2>. QED
    BY <2>1, <2>2, UpFiles
<1>2. LineSets' \subseteq LineSets \cup {<<>>}
  BY <1>1, NewJournals DEF LineSets
<1>3. \A s \in snapshots' \ {None} : Covers(Base(s).covered, Base(s).cursor)
  BY <1>1 DEF AcceptedInv
<1>4. \A s \in snapshots' : s \in Content
  BY <1>1 DEF GoodFiles
<1>5. \A s \in snapshots' : Accepted(s, <<>>)
  BY <1>3, <1>4, NoLinesAccepted
<1>6. \A s \in snapshots', lines \in LineSets' : Accepted(s, lines)
  BY <1>1, <1>2, <1>5 DEF AcceptedInv
<1>. QED
  BY <1>1, <1>3, <1>6, AcceptedNext

\* A line that follows the progress is accepted after every snapshot.
LEMMA AppendAccepted ==
    ASSUME StoreInv, AcceptedInv, Healthy, scope' = scope, UNCHANGED snapshotVars,
           NEW r \in Record, Follows(r, NowCovered, NowCursor, NowRuntime),
           AppendDurably(r) \/ (AppendFails(r) /\ step' = step)
    PROVE  AcceptedInv'
<1>1. /\ IsUp /\ ~Unprepared /\ GoodFiles /\ journal \in Journal /\ step = "ready"
  <2>1. IsUp /\ step = "ready"
    BY DEF Healthy, IsUp
  <2>. QED
    BY <2>1, UpFiles
<1>. DEFINE l2 == Append(Lines(journal), r)
<1>2. /\ Lines(Torn(journal)) = Lines(journal) /\ Lines(Plus(journal, r)) = l2
      /\ Lines(None) = <<>>
  <2>1. /\ Torn(journal) \in Journal /\ Torn(journal).lines = journal.lines
        /\ Plus(journal, r) \in Journal /\ Plus(journal, r).lines = Append(journal.lines, r)
        /\ Lines(journal) = journal.lines
    BY <1>1, JournalShapes
  <2>. QED
    BY <2>1, JournalShapes, NewJournals
<1>3. \/ AppendDurably(r) /\ journal' = Plus(journal, r)
           /\ journals' \subseteq {Plus(journal, r)} \cup (journals \cap {None})
      \/ step' # "save" /\ journals' \subseteq journals \cup {Torn(journal), Plus(journal, r)}
  BY <1>1, SyncedIs DEF AppendDurably, AppendFails, journalVars
<1>. HIDE DEF l2
<1>4. /\ LineSets' \subseteq LineSets \cup {l2}
      /\ step' = "save" => LineSets' \subseteq {Lines(journal'), <<>>}
  <2>1. \A j \in journals : Lines(j) \in LineSets
    BY DEF LineSets
  <2>2. Lines(journal) \in LineSets
    BY <1>1, <2>1 DEF GoodFiles
  <2>. QED
    BY <1>2, <1>3, <2>1, <2>2 DEF LineSets
<1>5. ASSUME NEW s \in snapshots PROVE Accepted(s, l2)
  <2>1. Accepted(s, Lines(journal))
    BY <1>1, NowShows DEF AcceptedInv
  <2>. QED
    BY <1>1, <2>1, NowShows, LineAccepted DEF l2
<1>6. snapshots' = snapshots
  BY DEF snapshotVars
<1>7. \A s \in snapshots', lines \in LineSets' : Accepted(s, lines)
  BY <1>1, <1>4, <1>5, <1>6 DEF AcceptedInv
<1>8. \A s \in snapshots' \ {None} : Covers(Base(s).covered, Base(s).cursor)
  BY <1>6 DEF AcceptedInv
<1>. QED
  BY <1>4, <1>7, <1>8, AcceptedNext

\* The line of a completed block follows the progress.
LEMMA CompletionFollows ==
    ASSUME StoreInv, Healthy, NEW b \in Blocks, NEW now \in Ticks, Completable(b),
           now >= runtime
    PROVE  Follows(CompletionOf(b, now), NowCovered, NowCursor, NowRuntime)
<1>. DEFINE r == CompletionOf(b, now)
<1>1. r.block = b /\ r.ordinal = IF PendingRecheck THEN cursor ELSE None
  BY DEF CompletionOf
<1>2. r.ordinal \in {NowCursor, None} /\ NowRuntime <= r.runtime
  BY CompletionLine
<1>. HIDE DEF r
<1>3. /\ cursor = NowCursor /\ cursor \in Nat /\ cursor <= Len(plan) /\ Len(plan) \in Nat
      /\ b # None
  BY HealthyMemory, StoreAssumption
<1>4. cursor # None
  BY <1>3, StoreAssumption
<1>5. CASE PendingRecheck
  <2>1. b = plan[cursor + 1]
    BY <1>5 DEF Completable
  <2>. QED
    BY <1>1, <1>2, <1>3, <1>4, <1>5, <2>1 DEF Follows, PendingRecheck, r
<1>6. CASE ~PendingRecheck
  BY <1>1, <1>2, <1>3, <1>6 DEF Follows, PendingRecheck, r
<1>. QED
  BY <1>5, <1>6

\* complete_block and persist_runtime.
LEMMA AppendingAccepted ==
    ASSUME StoreInv, AcceptedInv, Appending
    PROVE  AcceptedInv'
<1>1. PICK now \in Ticks :
        \/ \E b \in Blocks : CompleteBlock(b, now) \/ CompleteBlockFails(b, now)
        \/ PersistRuntime(now) \/ PersistRuntimeFails(now)
  BY DEF Appending
<1>2. CASE PersistRuntime(now) \/ PersistRuntimeFails(now)
  <2>1. Healthy /\ now > runtime /\ scope' = scope /\ UNCHANGED snapshotVars
    BY <1>2 DEF PersistRuntime, PersistRuntimeFails
  <2>. DEFINE r == RuntimeRecord(now)
  <2>2. /\ AppendDurably(r) \/ (AppendFails(r) /\ step' = step)
    BY <1>2 DEF PersistRuntime, PersistRuntimeFails, Poison
  <2>3. r \in Record /\ Follows(r, NowCovered, NowCursor, NowRuntime)
    <3>1. r \in Record /\ r.ordinal \in {NowCursor, None} /\ NowRuntime <= r.runtime
      BY <2>1, RuntimeLine
    <3>2. r.ordinal = None /\ r.block = None
      BY DEF RuntimeRecord
    <3>. QED
      BY <3>1, <3>2 DEF Follows
  <2>. HIDE DEF r
  <2>. QED
    BY <2>1, <2>2, <2>3, AppendAccepted
<1>3. ASSUME NEW b \in Blocks, CompleteBlock(b, now) \/ CompleteBlockFails(b, now)
      PROVE  AcceptedInv'
  <2>1. /\ Healthy /\ Completable(b) /\ now >= runtime /\ scope' = scope
        /\ UNCHANGED snapshotVars
    BY <1>3 DEF CompleteBlock, CompleteBlockFails
  <2>. DEFINE r == CompletionOf(b, now)
  <2>2. /\ AppendDurably(r) \/ (AppendFails(r) /\ step' = step)
    BY <1>3 DEF CompleteBlock, CompleteBlockFails, Poison
  <2>3. r \in Record /\ Follows(r, NowCovered, NowCursor, NowRuntime)
    BY <2>1, CompletionLine, CompletionFollows
  <2>. HIDE DEF r
  <2>. QED
    BY <2>1, <2>2, <2>3, AppendAccepted
<1>. QED
  BY <1>1, <1>2, <1>3

\* What open_impl accepts stays accepted, whatever is written, killed or lost.
THEOREM AcceptedStep ==
    StoreInv /\ AcceptedInv /\ LateCompaction /\ [Next]_vars => AcceptedInv'
<1>. SUFFICES ASSUME StoreInv, AcceptedInv, LateCompaction, [Next]_vars PROVE AcceptedInv'
  OBVIOUS
<1>1. CASE Prepare \/ CreateSnapshot
  BY <1>1, NewSnapshotAccepted
<1>2. CASE \/ CreateJournal \/ CreateJournalFails
           \/ OpenWithHeader \/ OpenWithoutHeader \/ OpenFails \/ RepairFails
           \/ WriteHeader \/ WriteHeaderPoisons \/ TruncateRefused \/ Kill \/ PowerLoss
  BY <1>2, FewerSteps, AcceptedFewer
<1>3. CASE Appending
  BY <1>3, AppendingAccepted
<1>4. CASE PersistNothing
  BY <1>4, CompactionAccepted
<1>5. CASE SaveSnapshot \/ SaveSnapshotFails
  BY <1>5, SaveAccepted
<1>6. CASE TruncateJournal \/ TruncateJournalFails
  BY <1>6, TruncateAccepted
<1>7. CASE UNCHANGED vars
  <2>1. /\ scope' = scope /\ snapshots' = snapshots /\ LineSets' = LineSets
        /\ step' = step /\ journal' = journal
    BY <1>7 DEF vars, snapshotVars, journalVars, LineSets
  <2>. QED
    BY <2>1, AcceptedFewer DEF AcceptedInv
<1>. QED
  BY <1>1, <1>2, <1>3, <1>4, <1>5, <1>6, <1>7 DEF Next, Preparing, Opening, Compacting

-----------------------------------------------------------------------------
(* Both files of a scope are there *)

\* Where a step takes neither file away.
LEMMA PreparedNext ==
    ASSUME PreparedInv, scope' = scope, acked'.prepared => acked.prepared,
           None \in snapshots' => None \in snapshots, None \in journals' => None \in journals
    PROVE  PreparedInv'
BY DEF PreparedInv, plan

\* Once a scope is prepared, no crash takes one of its files away.
THEOREM PreparedStep == StoreInv /\ PreparedInv /\ FsyncKeepsName /\ [Next]_vars => PreparedInv'
<1>. SUFFICES ASSUME StoreInv, PreparedInv, FsyncKeepsName, [Next]_vars PROVE PreparedInv'
  OBVIOUS
<1>1. GoodFiles /\ TypeOK /\ Empty # None /\ \A j : Synced(j) = {j}
  BY FileTypes, NewJournals, SyncedIs DEF StoreInv
<1>2. CASE Prepare
  <2>1. acked' = acked /\ scope' = scope /\ None \in snapshots
    BY <1>1, <1>2 DEF Prepare, historyVars, GoodFiles
  <2>. QED
    BY <2>1 DEF PreparedInv, plan
<1>3. CASE CreateJournal
  <2>1. /\ snapshots' = {History(scope.history)} /\ journals' = {Empty} /\ scope \in Scopes
    BY <1>1, <1>3 DEF CreateJournal, snapshotVars, StoreInv, MemoryInv, TypeOK
  <2>2. History(scope.history) # None
    BY <2>1, HistoryIsSnapshot
  <2>. QED
    BY <1>1, <2>1, <2>2 DEF PreparedInv
<1>4. CASE CreateJournalFails
  <2>1. acked' = acked /\ scope' = scope /\ None \in journals
    BY <1>1, <1>4 DEF CreateJournalFails, historyVars, StoreInv, MemoryInv, GoodFiles
  <2>. QED
    BY <2>1 DEF PreparedInv, plan
<1>5. CASE CreateSnapshot
  BY <1>5 DEF CreateSnapshot, PreparedInv, plan
<1>6. CASE OpenWithHeader \/ RepairFails
  <2>1. /\ HasHeader /\ journals' \subseteq journals \cup {Trimmed} /\ snapshots' = snapshots
        /\ acked' = acked /\ scope' = scope
    BY <1>1, <1>6 DEF OpenWithHeader, RepairFails, Load, snapshotVars, journalVars, historyVars
  <2>2. Trimmed # None
    BY <1>1, <2>1, TrimmedLines
  <2>. QED
    BY <2>1, <2>2, PreparedNext
<1>7. CASE OpenWithoutHeader \/ OpenFails \/ WriteHeader \/ WriteHeaderPoisons
  <2>1. Lines(journal) = <<>>
    <3>1. CASE ~HasHeader
      BY <1>1, <3>1 DEF HasHeader, GoodFiles, GoodJournal, Lines
    <3>2. CASE step = "header"
      BY <3>2 DEF StoreInv, MemoryInv
    <3>. QED
      BY <1>7, <3>1, <3>2 DEF OpenWithoutHeader, OpenFails, WriteHeader, WriteHeaderPoisons
  <2>2. /\ WriteHeaderDurably \/ WriteHeaderFails
        /\ acked' = acked /\ scope' = scope
    BY <1>7 DEF OpenWithoutHeader, OpenFails, WriteHeader, WriteHeaderPoisons, Load, historyVars
  <2>3. snapshots' \subseteq snapshots /\ (None \in journals' => None \in journals)
    BY <1>1, <2>1, <2>2, HeaderLines
  <2>. QED
    BY <2>2, <2>3, PreparedNext
<1>8. CASE Kill \/ PowerLoss \/ TruncateRefused
  <2>1. /\ acked' = acked /\ scope' = scope
        /\ snapshots' \subseteq snapshots /\ journals' \subseteq journals
    BY <1>8 DEF Kill, PowerLoss, TruncateRefused, StopProcess, snapshotVars, journalVars,
       historyVars
  <2>. QED
    BY <2>1, PreparedNext
<1>9. CASE PersistNothing
  <2>1. /\ acked' = acked /\ scope' = scope
        /\ snapshots' \subseteq snapshots /\ journals' \subseteq journals
    BY <1>1, <1>9 DEF PersistNothing, snapshotVars, historyVars, GoodFiles
  <2>. QED
    BY <2>1, PreparedNext
<1>10. CASE SaveSnapshot \/ SaveSnapshotFails
  <2>1. IsUp /\ ~poisoned
    BY <1>10 DEF SaveSnapshot, SaveSnapshotFails, StoreInv, MemoryInv, IsUp
  <2>2. CurrentSnapshot # None
    BY <2>1, CurrentIsProgress
  <2>3. /\ acked' = acked /\ scope' = scope
        /\ snapshots' \subseteq snapshots \cup {CurrentSnapshot} /\ journals' \subseteq journals
    BY <1>10 DEF SaveSnapshot, SaveSnapshotFails, SaveDurably, SaveFails, JournalNamed,
       SettleSnapshot, snapshotVars, journalVars, historyVars
  <2>. QED
    BY <2>2, <2>3, PreparedNext
<1>11. CASE TruncateJournal \/ TruncateJournalFails
  <2>1. /\ acked' = acked /\ scope' = scope
        /\ snapshots' = snapshots /\ journals' \subseteq journals \cup {Empty}
    BY <1>1, <1>11 DEF TruncateJournal, TruncateJournalFails, TruncateDurably, TruncateFails,
       snapshotVars, journalVars, historyVars
  <2>. QED
    BY <1>1, <2>1, PreparedNext
<1>12. ASSUME NEW r \in Record, Healthy, scope' = scope, UNCHANGED snapshotVars,
              AppendDurably(r) \/ (AppendFails(r) /\ acked' = acked)
       PROVE  PreparedInv'
  <2>1. IsUp
    BY <1>12 DEF Healthy, IsUp
  <2>2. ~Unprepared /\ journal \in Journal
    BY <2>1, UpFiles
  <2>3. Torn(journal) # None /\ Plus(journal, r) # None
    BY <2>2, JournalShapes, NoneAssumption
  <2>4. snapshots' = snapshots
    BY <1>12 DEF snapshotVars
  <2>5. CASE AppendDurably(r)
    <3>1. journals' = {Plus(journal, r)}
      BY <1>1, <2>5 DEF AppendDurably
    <3>. QED
      BY <1>12, <2>2, <2>3, <2>4, <3>1 DEF PreparedInv, Unprepared, plan
  <2>6. CASE AppendFails(r) /\ acked' = acked
    <3>1. journals' \subseteq journals \cup {Torn(journal), Plus(journal, r)}
      BY <2>6 DEF AppendFails, journalVars
    <3>. QED
      BY <1>12, <2>3, <2>4, <2>6, <3>1, PreparedNext
  <2>. QED
    BY <1>12, <2>5, <2>6
<1>13. CASE Appending
  <2>1. PICK now \in Ticks :
          \/ \E b \in Blocks : CompleteBlock(b, now) \/ CompleteBlockFails(b, now)
          \/ PersistRuntime(now) \/ PersistRuntimeFails(now)
    BY <1>13 DEF Appending
  <2>2. CASE PersistRuntime(now) \/ PersistRuntimeFails(now)
    <3>. DEFINE r == RuntimeRecord(now)
    <3>1. /\ Healthy /\ now > runtime /\ scope' = scope /\ UNCHANGED snapshotVars
          /\ AppendDurably(r) \/ (AppendFails(r) /\ acked' = acked)
      BY <2>2 DEF PersistRuntime, PersistRuntimeFails, Poison
    <3>2. r \in Record
      BY <3>1, RuntimeLine
    <3>. HIDE DEF r
    <3>. QED
      BY <1>12, <3>1, <3>2
  <2>3. ASSUME NEW b \in Blocks, CompleteBlock(b, now) \/ CompleteBlockFails(b, now)
        PROVE  PreparedInv'
    <3>. DEFINE r == CompletionOf(b, now)
    <3>1. /\ Healthy /\ Completable(b) /\ now >= runtime /\ scope' = scope
          /\ UNCHANGED snapshotVars
          /\ AppendDurably(r) \/ (AppendFails(r) /\ acked' = acked)
      BY <2>3 DEF CompleteBlock, CompleteBlockFails, Poison
    <3>2. r \in Record
      BY <3>1, CompletionLine
    <3>. HIDE DEF r
    <3>. QED
      BY <1>12, <3>1, <3>2
  <2>. QED
    BY <2>1, <2>2, <2>3
<1>14. CASE UNCHANGED vars
  BY <1>14 DEF vars, snapshotVars, journalVars, historyVars, PreparedInv, plan
<1>. QED
  BY <1>2, <1>3, <1>4, <1>5, <1>6, <1>7, <1>8, <1>9, <1>10, <1>11, <1>13, <1>14
  DEF Next, Preparing, Opening, Compacting

\* And where the program starts.
LEMMA InitOpens ==
    ASSUME Init
    PROVE  AcceptedInv /\ PreparedInv
<1>1. /\ snapshots = {snapshot} /\ journals = {None} /\ step = "down"
      /\ plan # <<>> => snapshot = None
      /\ acked.prepared = (plan = <<>>)
  BY DEF Init
<1>2. StoreInv
  BY InitStore
<1>3. LineSets = {<<>>}
  BY <1>1, NewJournals DEF LineSets
<1>4. \A s \in snapshots \ {None} : Covers(Base(s).covered, Base(s).cursor)
  BY <1>1 DEF Covers
<1>5. \A s \in snapshots : Accepted(s, <<>>)
  <2>1. \A s \in snapshots : s \in Content
    BY <1>2, FileTypes DEF StoreInv, GoodFiles
  <2>. QED
    BY <1>4, <2>1, NoLinesAccepted
<1>6. AcceptedInv
  BY <1>1, <1>3, <1>4, <1>5 DEF AcceptedInv
<1>7. PreparedInv
  BY <1>1 DEF PreparedInv
<1>. QED
  BY <1>6, <1>7

\* Every pair of files then opens.
LEMMA AcceptedOpens ==
    ASSUME StoreInv, AcceptedInv, PreparedInv
    PROVE  EveryCrashOpens
<1>. SUFFICES ASSUME acked.prepared, NEW s \in snapshots, NEW j \in journals
              PROVE  Opens(s, j)
  BY DEF EveryCrashOpens
<1>1. plan # <<>> => s # None /\ j # None
  BY DEF PreparedInv
<1>2. ~Unprepared
  BY <1>1 DEF Unprepared, PreparedInv
<1>3. /\ Replayed(s, j).covered = Cov(s, Lines(j)) /\ Replayed(s, j).cursor = Cur(s, Lines(j))
      /\ Lines(j) \in LineSets /\ s \in Content /\ Lines(j) \in Seq(Record)
  BY PairsReplay
<1>4. Accepted(s, Lines(j))
  BY <1>2, <1>3 DEF AcceptedInv
<1>5. Base(s).total = Cardinality(Base(s).covered)
  BY DEF StoreInv, CountInv
<1>6. Base(s).cursor <= Len(plan)
  <2>1. Cur(s, Lines(j)) <= NowCursor /\ NowCursor <= Len(plan) /\ Len(plan) \in Nat
        /\ NowCursor \in Nat
    BY <1>2, <1>3, NowSurvives, NowShows DEF Survive, Files, IsProgress
  <2>2. Base(s).cursor <= Cur(s, Lines(j)) /\ Cur(s, Lines(j)) \in Nat /\ Base(s).cursor \in Nat
    BY <1>3, LineTypes, BaseType
  <2>. QED
    BY <2>1, <2>2
<1>7. RequiredCoverage(Base(s)) /\ RequiredCoverage(Replayed(s, j))
  <2>1. CASE plan = <<>>
    BY <2>1 DEF RequiredCoverage
  <2>2. CASE plan # <<>>
    <3>1. Covers(Base(s).covered, Base(s).cursor)
      BY <1>1, <2>2 DEF AcceptedInv
    <3>2. Covers(Cov(s, Lines(j)), Cur(s, Lines(j)))
      BY <1>1, <1>4, <2>2 DEF Accepted
    <3>. QED
      BY <1>3, <3>1, <3>2 DEF RequiredCoverage, Covers
  <2>. QED
    BY <2>1, <2>2
<1>. QED
  BY <1>1, <1>4, <1>5, <1>6, <1>7 DEF Opens, Accepted

\* If the fsync of the journal keeps its name, and no start compacts lines that are
\* not on the disk yet, the next start accepts whatever a crash leaves.
THEOREM EveryCrashOpensAlways ==
    FsyncKeepsName /\ LateCompaction => (Spec => []EveryCrashOpens)
<1>. SUFFICES ASSUME FsyncKeepsName, LateCompaction PROVE Spec => []EveryCrashOpens
  OBVIOUS
<1>1. Init => StoreInv /\ AcceptedInv /\ PreparedInv
  BY InitStore, InitOpens
<1>2. /\ StoreInv /\ AcceptedInv /\ PreparedInv /\ [Next]_vars
      => (StoreInv /\ AcceptedInv /\ PreparedInv)'
  BY StoreStep, AcceptedStep, PreparedStep
<1>3. StoreInv /\ AcceptedInv /\ PreparedInv => EveryCrashOpens
  BY AcceptedOpens
<1>. QED
  BY <1>1, <1>2, <1>3, PTL DEF Spec

=============================================================================
