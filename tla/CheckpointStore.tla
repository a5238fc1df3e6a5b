-------------------------- MODULE CheckpointStore --------------------------
(***************************************************************************)
(* The durable progress of the search: a JSON snapshot and a checksummed   *)
(* journal of the blocks completed since.  The process may be killed, and  *)
(* power may be lost, between any two system calls of complete_block,      *)
(* persist_runtime, compact and open.                                      *)
(*                                                                         *)
(* A call that fails leaves the disk as a kill at that point would, so the *)
(* failures of one call stand for its crash points as well; compaction,    *)
(* which goes on after a success, is a chain of steps.                     *)
(***************************************************************************)
EXTENDS Integers, Sequences, FiniteSets

CONSTANTS
    Blocks,         \* block indices of the puzzle range
    Scopes,         \* what a store may be opened for: see IsScope
    MaxRuntime,     \* bound on the recorded runtime, in ticks
    FsyncKeepsName, \* the fsync of a file also persists its directory entry
    LateCompaction, \* what a start has replayed is on the disk before its first
                    \* compaction: it comes after an hour, or after an append
    None            \* no block, no ordinal, no file

\* The blocks the block size divides the range into; the recheck plan, an
\* ordered list of blocks that is empty without a scope; whether it is an
\* archive, whose blocks all should be counted already; and the coverage an
\* older version, or the copied history, brings along.
IsScope(s) ==
    /\ s.blocks \subseteq Blocks
    /\ s.plan \in Seq(s.blocks)
    /\ \A i, j \in DOMAIN s.plan : s.plan[i] = s.plan[j] => i = j
    /\ s.legacy \in BOOLEAN
    /\ s.history \subseteq s.blocks
    /\ s.legacy => s.plan # <<>>

ASSUME StoreAssumption ==
    /\ \A s \in Scopes : IsScope(s)
    /\ MaxRuntime \in Nat
    /\ FsyncKeepsName \in BOOLEAN
    /\ LateCompaction \in BOOLEAN
    /\ IsFiniteSet(Blocks)
    /\ None \notin Blocks \cup Int

VARIABLES
    scope,      \* what the store is opened for, by the command line
    step,       \* "down", "ready", or where preparation or compaction is
    covered,    \* filter: the blocks reported as searched
    total,      \* total_blocks
    cursor,     \* recheck.completed
    runtime,    \* total_runtime_secs
    poisoned,
    snapshot,   \* the snapshot file as the next read sees it, or None
    snapshots,  \* the contents a power loss may leave in its place
    journal,    \* the journal likewise
    journals,
    searched,   \* history: blocks completely searched, now or ever
    rechecked,  \* history: ordinals of the plan completely searched
    acked       \* history: whether the files were ever complete, and the progress
                \* complete_block or persist_runtime returned Ok for

memoryVars == <<covered, total, cursor, runtime, poisoned>>
snapshotVars == <<snapshot, snapshots>>
journalVars == <<journal, journals>>
historyVars == <<searched, rechecked, acked>>
vars == <<scope, step, memoryVars, snapshotVars, journalVars, historyVars>>

plan == scope.plan

Ticks == 0 .. MaxRuntime
Cursors == 0 .. Cardinality(Blocks)
Snapshot == [covered : SUBSET Blocks, total : Nat, cursor : Cursors, runtime : Ticks]

\* JournalRecord: a block, its place in the plan if it has one, the runtime.
Record == [block : Blocks \cup {None}, ordinal : Cursors \cup {None}, runtime : Ticks]

\* A journal holds its header line, complete lines, and perhaps a torn one.
Journal == [header : BOOLEAN, lines : Seq(Record), torn : BOOLEAN]

ASSUME NoneAssumption == None \notin Snapshot /\ None \notin Journal

Empty == [header |-> FALSE, lines |-> <<>>, torn |-> FALSE]
Fresh == [header |-> TRUE, lines |-> <<>>, torn |-> FALSE]
Torn(j) == [j EXCEPT !.torn = TRUE]
Plus(j, r) == [j EXCEPT !.lines = Append(@, r)]

TypeOK ==
    /\ scope \in Scopes
    /\ step \in {"down", "prepare", "ready", "save", "truncate", "header"}
    /\ covered \subseteq Blocks
    /\ total \in 0 .. Cardinality(Blocks)
    /\ cursor \in 0 .. Len(plan)
    /\ runtime \in Ticks
    /\ poisoned \in BOOLEAN
    /\ snapshot \in snapshots
    /\ \A s \in snapshots \ {None} : s \in Snapshot
    /\ journal \in journals
    /\ \A j \in journals \ {None} : j \in Journal
    /\ searched \subseteq Blocks
    /\ rechecked \subseteq 0 .. Len(plan) - 1

-----------------------------------------------------------------------------
(* Files *)

\* The content of the journal has been synchronized as j; its name perhaps not.
Synced(j) == IF FsyncKeepsName \/ None \notin journals THEN {j} ELSE {j, None}

\* One directory sync settles the names of both files.
SettleSnapshot == snapshots' = {snapshot'}

JournalNamed == journals \ (IF journal = None THEN {} ELSE {None})

\* FAULT: the directory of the new snapshot is not synchronized.
SaveUnsynced(s) ==
    /\ snapshot' = s
    /\ snapshots' = snapshots \cup {s}
    /\ UNCHANGED journalVars

\* save_atomic_json: a renamed file whose directory is synchronized.
SaveDurably(s) ==
    /\ snapshot' = s
    /\ SettleSnapshot
    /\ journals' = JournalNamed
    /\ UNCHANGED journal

SaveFails(s) ==
    /\ \/ UNCHANGED snapshotVars
       \/ snapshot' = s /\ snapshots' = snapshots \cup {s}
    /\ UNCHANGED journalVars

\* A line appended and synchronized.
AppendDurably(r) == journal' = Plus(journal, r) /\ journals' = Synced(Plus(journal, r))

\* Nothing, a part, or all of the line is written, and none of it synchronized.
AppendFails(r) ==
    \/ UNCHANGED journalVars
    \/ journal' = Torn(journal) /\ journals' = journals \cup {Torn(journal)}
    \/ /\ journal' = Plus(journal, r)
       /\ journals' = journals \cup {Torn(journal), Plus(journal, r)}

TruncateDurably == journal' = Empty /\ journals' = Synced(Empty)

TruncateFails ==
    \/ UNCHANGED journalVars
    \/ journal' = Empty /\ journals' = journals \cup {Empty}

\* write_header: write, sync the file, sync its directory.
WriteHeaderDurably ==
    /\ journal' = Fresh
    /\ journals' = {Fresh}
    /\ UNCHANGED snapshot
    /\ SettleSnapshot

WriteHeaderFails ==
    /\ \/ journal' = Empty /\ journals' = journals \cup {Empty}
       \/ journal' = Torn(Empty) /\ journals' = journals \cup {Empty, Torn(Empty)}
       \/ journal' = Fresh /\ journals' = journals \cup {Empty, Torn(Empty), Fresh}
       \/ journal' = Fresh /\ journals' = Synced(Fresh)
    /\ UNCHANGED snapshotVars

-----------------------------------------------------------------------------
(* Replay.  Lines are read in order; a torn last line is dropped. *)

NewStore == [covered |-> {}, total |-> 0, cursor |-> 0, runtime |-> 0]

Base(s) == IF s = None THEN NewStore ELSE s

Lines(j) == IF j = None THEN <<>> ELSE j.lines

Ordinals(lines) == {lines[i].ordinal : i \in DOMAIN lines} \ {None}

\* FAULT: lines the snapshot already holds are counted again.
CursorAtWithoutSnapshot(s, lines, n) ==
    Base(s).cursor + Cardinality(Ordinals(SubSeq(lines, 1, n)))

\* recheck.completed after the first n lines
CursorAt(s, lines, n) ==
    LET passed == {o \in Ordinals(SubSeq(lines, 1, n)) : o >= Base(s).cursor}
    IN  Base(s).cursor + Cardinality(passed)

LineBlocks(lines) == {lines[i].block : i \in DOMAIN lines} \ {None}

MaxOf(a, b) == IF a > b THEN a ELSE b

LastRuntime(s, lines) ==
    IF lines = <<>> THEN Base(s).runtime
    ELSE MaxOf(Base(s).runtime, lines[Len(lines)].runtime)

\* FAULT: a replayed block counts whether or not it is covered already.
ReplayedTwice(s, j) ==
    LET lines == Lines(j)
    IN  [covered |-> Base(s).covered \cup LineBlocks(lines),
         total   |-> Base(s).total + Cardinality(LineBlocks(lines)),
         cursor  |-> CursorAt(s, lines, Len(lines)),
         runtime |-> LastRuntime(s, lines)]

Replayed(s, j) ==
    LET lines == Lines(j)
    IN  [covered |-> Base(s).covered \cup LineBlocks(lines),
         total   |-> Base(s).total + Cardinality(LineBlocks(lines) \ Base(s).covered),
         cursor  |-> CursorAt(s, lines, Len(lines)),
         runtime |-> LastRuntime(s, lines)]

OrdinalIsNext(s, lines, i) ==
    LET o == lines[i].ordinal
        earlier == Ordinals(SubSeq(lines, 1, i - 1))
    IN  /\ o < Len(plan) /\ plan[o + 1] = lines[i].block
        /\ earlier # {} => o - 1 \in earlier /\ \A e \in earlier : e < o
        /\ o <= CursorAt(s, lines, i - 1)

LineIsValid(s, lines, i) ==
    /\ i > 1 => lines[i - 1].runtime <= lines[i].runtime
    /\ lines[i].ordinal # None => OrdinalIsNext(s, lines, i)
    /\ lines[i].ordinal = None /\ lines[i].block # None =>
         CursorAt(s, lines, i - 1) = Len(plan)

\* required_coverage_is_present: an archive lies in the history as a whole, a
\* list of targets as far as the cursor.
RequiredCoverage(state) ==
    \A i \in DOMAIN plan : scope.legacy \/ i <= state.cursor => plan[i] \in state.covered

\* open_impl accepts the pair of files.
Opens(s, j) ==
    /\ plan # <<>> => s # None /\ j # None
    /\ Base(s).total = Cardinality(Base(s).covered)
    /\ Base(s).cursor <= Len(plan)
    /\ RequiredCoverage(Base(s))
    /\ \A i \in DOMAIN Lines(j) : LineIsValid(s, Lines(j), i)
    /\ RequiredCoverage(Replayed(s, j))

-----------------------------------------------------------------------------
(* Where the program starts: no files, or the snapshot of an older version.   *)

History(blocks) ==
    [covered |-> blocks, total |-> Cardinality(blocks), cursor |-> 0, runtime |-> 0]

Init ==
    /\ scope \in Scopes
    /\ step = "down"
    /\ covered = {}
    /\ total = 0
    /\ cursor = 0
    /\ runtime = 0
    /\ poisoned = FALSE
    /\ snapshot = IF plan # <<>> \/ scope.history = {} THEN None ELSE History(scope.history)
    /\ searched = scope.history
    /\ snapshots = {snapshot}
    /\ journal = None
    /\ journals = {None}
    /\ rechecked = {}
    /\ acked = [prepared |-> plan = <<>>, covered |-> Base(snapshot).covered,
                cursor |-> 0, runtime |-> 0]

-----------------------------------------------------------------------------
(* initialize_recheck: a snapshot of the copied history, then an empty journal. *)
(* It wants neither file to exist; open_recheck wants both.  A preparation that *)
(* stopped in between is refused by each, and is never taken for a new scope.   *)

\* FAULT: the coverage of the archive is left to the next start.
PrepareUnchecked ==
    /\ step = "down"
    /\ plan # <<>> /\ snapshot = None /\ journal = None
    /\ \/ SaveDurably(History(scope.history)) /\ step' = "prepare"
       \/ SaveFails(History(scope.history)) /\ UNCHANGED step
    /\ UNCHANGED <<scope, memoryVars, historyVars>>

Prepare ==
    /\ step = "down"
    /\ plan # <<>> /\ snapshot = None /\ journal = None
    /\ RequiredCoverage(History(scope.history))
    /\ \/ SaveDurably(History(scope.history)) /\ step' = "prepare"
       \/ SaveFails(History(scope.history)) /\ UNCHANGED step
    /\ UNCHANGED <<scope, memoryVars, historyVars>>

CreateJournal ==
    /\ step = "prepare"
    /\ journal' = Empty /\ journals' = {Empty}
    /\ step' = "down"
    /\ acked' = [acked EXCEPT !.prepared = TRUE, !.covered = scope.history]
    /\ UNCHANGED <<scope, memoryVars, snapshotVars, searched, rechecked>>

CreateJournalFails ==
    /\ step = "prepare"
    /\ \/ UNCHANGED journalVars
       \/ journal' = Empty /\ journals' = journals \cup {Empty}
    /\ step' = "down"
    /\ UNCHANGED <<scope, memoryVars, snapshotVars, historyVars>>

-----------------------------------------------------------------------------
(* open_impl *)

\* A store without a snapshot begins with an empty one.
CreateSnapshot ==
    /\ step = "down"
    /\ snapshot = None /\ plan = <<>>
    /\ SaveDurably(NewStore) \/ SaveFails(NewStore)
    /\ UNCHANGED <<scope, step, memoryVars, historyVars>>

Load ==
    /\ step = "down"
    /\ snapshot # None
    /\ Opens(snapshot, journal)
    /\ LET state == Replayed(snapshot, journal)
       IN  /\ covered' = state.covered
           /\ total' = state.total
           /\ cursor' = state.cursor
           /\ runtime' = state.runtime
    /\ poisoned' = FALSE
    /\ step' = "ready"
    /\ UNCHANGED <<scope, historyVars>>

\* An absent or incomplete header is written anew.
HasHeader == journal # None /\ journal.header

Trimmed == [journal EXCEPT !.torn = FALSE]

OpenWithHeader ==
    /\ Load
    /\ HasHeader
    /\ IF journal.torn
       THEN journal' = Trimmed /\ journals' = Synced(Trimmed)
       ELSE UNCHANGED journalVars
    /\ UNCHANGED snapshotVars

OpenWithoutHeader ==
    /\ Load
    /\ ~HasHeader
    /\ WriteHeaderDurably

OpenFails ==
    /\ step = "down"
    /\ snapshot # None
    /\ Opens(snapshot, journal)
    /\ ~HasHeader
    /\ WriteHeaderFails
    /\ UNCHANGED <<scope, step, memoryVars, historyVars>>

\* The torn tail is cut, but the cut is not synchronized.
RepairFails ==
    /\ step = "down"
    /\ snapshot # None
    /\ Opens(snapshot, journal)
    /\ HasHeader /\ journal.torn
    /\ journal' = Trimmed
    /\ journals' = journals \cup {Trimmed}
    /\ UNCHANGED <<scope, step, memoryVars, snapshotVars, historyVars>>

StopProcess ==
    /\ step' = "down"
    /\ covered' = {}
    /\ total' = 0
    /\ cursor' = 0
    /\ runtime' = 0
    /\ poisoned' = FALSE
    /\ UNCHANGED <<scope, historyVars>>

Kill ==
    /\ step # "down"
    /\ StopProcess
    /\ UNCHANGED <<snapshotVars, journalVars>>

PowerLoss ==
    /\ StopProcess
    /\ \E s \in snapshots, j \in journals :
         /\ snapshot' = s /\ snapshots' = {s}
         /\ journal' = j /\ journals' = {j}

-----------------------------------------------------------------------------
(* complete_block and persist_runtime *)

Healthy == step = "ready" /\ ~poisoned

\* maybe_compact: the journal is an hour old, or a mebibyte long, or neither.
MaybeCompact == step' \in {"ready", "save"}

\* FAULT: the store stays usable after a failed append.
CarryOn == UNCHANGED <<poisoned, step, covered, total, cursor, runtime, acked>>

Poison == poisoned' = TRUE /\ UNCHANGED <<step, covered, total, cursor, runtime, acked>>

Acknowledge ==
    acked' = [prepared |-> TRUE, covered |-> covered', cursor |-> cursor', runtime |-> runtime']

PendingRecheck == cursor < Len(plan)

\* A block may complete if it is the next of the plan, or any new block after it.
Completable(b) ==
    /\ b \in scope.blocks
    /\ IF PendingRecheck THEN b = plan[cursor + 1] ELSE b \notin covered

CompletionOf(b, now) ==
    [block |-> b, ordinal |-> IF PendingRecheck THEN cursor ELSE None, runtime |-> now]

\* The block has been searched when complete_block is called.
Searched(b) ==
    /\ searched' = searched \cup {b}
    /\ rechecked' = IF PendingRecheck THEN rechecked \cup {cursor} ELSE rechecked

\* FAULT: a rechecked block is counted once more.
CountedAgain(b) == total + 1

Counted(b) == IF b \in covered THEN total ELSE total + 1

CompleteBlock(b, now) ==
    /\ Healthy
    /\ Completable(b)
    /\ now >= runtime
    /\ AppendDurably(CompletionOf(b, now))
    /\ covered' = covered \cup {b}
    /\ total' = Counted(b)
    /\ cursor' = IF PendingRecheck THEN cursor + 1 ELSE cursor
    /\ runtime' = now
    /\ MaybeCompact
    /\ Searched(b)
    /\ Acknowledge
    /\ UNCHANGED <<scope, poisoned, snapshotVars>>

CompleteBlockFails(b, now) ==
    /\ Healthy
    /\ Completable(b)
    /\ now >= runtime
    /\ AppendFails(CompletionOf(b, now))
    /\ Searched(b)
    /\ Poison
    /\ UNCHANGED <<scope, snapshotVars>>

RuntimeRecord(now) == [block |-> None, ordinal |-> None, runtime |-> now]

PersistRuntime(now) ==
    /\ Healthy
    /\ now > runtime
    /\ AppendDurably(RuntimeRecord(now))
    /\ runtime' = now
    /\ MaybeCompact
    /\ UNCHANGED <<scope, covered, total, cursor, poisoned, snapshotVars, searched, rechecked>>
    /\ Acknowledge

PersistRuntimeFails(now) ==
    /\ Healthy
    /\ now > runtime
    /\ AppendFails(RuntimeRecord(now))
    /\ Poison
    /\ UNCHANGED <<scope, snapshotVars, searched, rechecked>>

\* The runtime is unchanged: nothing to write, but compaction may be due.  The lines
\* that the start found have not been synchronized by it: only time can have done that.
PersistNothing ==
    /\ Healthy
    /\ step' = "save"
    /\ IF LateCompaction THEN journals' = Synced(journal) ELSE UNCHANGED journals
    /\ UNCHANGED <<scope, memoryVars, snapshotVars, journal, historyVars>>

-----------------------------------------------------------------------------
(* compact: save the snapshot durably, then cut the journal, then head it. *)

CurrentSnapshot ==
    [covered |-> covered, total |-> total, cursor |-> cursor, runtime |-> runtime]

SaveSnapshot ==
    /\ step = "save"
    /\ SaveDurably(CurrentSnapshot)
    /\ step' = "truncate"
    /\ UNCHANGED <<scope, memoryVars, historyVars>>

\* A failed save leaves the journal, and the store usable.
SaveSnapshotFails ==
    /\ step = "save"
    /\ SaveFails(CurrentSnapshot)
    /\ step' = "ready"
    /\ UNCHANGED <<scope, memoryVars, historyVars>>

\* The journal is no longer an exclusive regular file: it is left alone.
TruncateRefused ==
    /\ step = "truncate"
    /\ step' = "ready"
    /\ UNCHANGED <<scope, memoryVars, snapshotVars, journalVars, historyVars>>

TruncateJournal ==
    /\ step = "truncate"
    /\ TruncateDurably
    /\ step' = "header"
    /\ UNCHANGED <<scope, memoryVars, snapshotVars, historyVars>>

TruncateJournalFails ==
    /\ step = "truncate"
    /\ TruncateFails
    /\ step' = "ready"
    /\ poisoned' = TRUE
    /\ UNCHANGED <<scope, covered, total, cursor, runtime, snapshotVars, historyVars>>

WriteHeader ==
    /\ step = "header"
    /\ WriteHeaderDurably
    /\ step' = "ready"
    /\ UNCHANGED <<scope, memoryVars, historyVars>>

WriteHeaderPoisons ==
    /\ step = "header"
    /\ WriteHeaderFails
    /\ step' = "ready"
    /\ poisoned' = TRUE
    /\ UNCHANGED <<scope, covered, total, cursor, runtime, historyVars>>

-----------------------------------------------------------------------------

Opening == CreateSnapshot \/ OpenWithHeader \/ OpenWithoutHeader \/ OpenFails \/ RepairFails

Appending ==
    \E now \in Ticks :
        \/ \E b \in Blocks : CompleteBlock(b, now) \/ CompleteBlockFails(b, now)
        \/ PersistRuntime(now) \/ PersistRuntimeFails(now)

Compacting ==
    \/ PersistNothing
    \/ SaveSnapshot \/ SaveSnapshotFails
    \/ TruncateRefused \/ TruncateJournal \/ TruncateJournalFails
    \/ WriteHeader \/ WriteHeaderPoisons

Preparing == Prepare \/ CreateJournal \/ CreateJournalFails

Next == Preparing \/ Opening \/ Appending \/ Compacting \/ Kill \/ PowerLoss

Spec == Init /\ [][Next]_vars

-----------------------------------------------------------------------------
(* Safety, over every pair of files a power loss may leave.  The snapshot and *)
(* the journal survive independently of each other.                           *)

\* Whatever survives, the next start accepts it: once the files are complete, no
\* crash leaves any that open rejects as corrupt, foreign or out of order.
EveryCrashOpens == acked.prepared => \A s \in snapshots, j \in journals : Opens(s, j)

\* Progress that was reported as saved is found again after any crash.
NothingAckedIsLost ==
    \A s \in snapshots, j \in journals :
        LET state == Replayed(s, j)
        IN  /\ acked.covered \subseteq state.covered
            /\ acked.cursor <= state.cursor
            /\ acked.runtime <= state.runtime

\* No block is covered, and no target rechecked, that was not searched whole.
NothingIsInvented ==
    \A s \in snapshots, j \in journals :
        LET state == Replayed(s, j)
        IN  /\ state.covered \subseteq searched
            /\ \A o \in 0 .. state.cursor - 1 : o \in rechecked

\* A block is counted once, however often it is replayed or rechecked.
CountMatchesCoverage ==
    /\ step # "down" => total = Cardinality(covered)
    /\ \A s \in snapshots, j \in journals :
         LET state == Replayed(s, j) IN state.total = Cardinality(state.covered)

\* A start after any crash finds what was saved, nothing else, and each block once.
RecoveryIsExact == NothingAckedIsLost /\ NothingIsInvented /\ CountMatchesCoverage

=============================================================================
