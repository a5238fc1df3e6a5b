------------------------- MODULE SolverControlProofs -------------------------
(***************************************************************************)
(* For every finite puzzle range, every table of batch sizes, every start  *)
(* coverage and recheck plan and any number of HTTP connections: no part   *)
(* of a covered block was skipped, the duty shown belongs to the mode      *)
(* shown, and the process ends on its own account only with the hit saved  *)
(* and the runtime recorded.                                               *)
(***************************************************************************)
EXTENDS SolverControl, FiniteSetTheorems, TLAPS

-----------------------------------------------------------------------------
(* The inductive invariant, in parts *)

Searching == pc \in {"block", "gpu", "publish"}

\* The block being searched is still the one the plan or the choice asks for:
\* nothing but this thread writes the store, so what SelectBlock read is not
\* stale when Commit uses it.
BlockIsSelected == Searching => block \in Blocks /\ Selectable(block)

\* What counts as completed has been searched, and the key is not in it.
DoneWasSearched ==
    Searching => \A p \in 0 .. done - 1 : <<block, p>> \in searched /\ key # <<block, p>>

\* A dispatch searches something, and not beyond the end of the block.
BatchFits == pc = "gpu" => size \in 1 .. Parts - done

\* Every recorded dispatch stands for parts of a committed block, or of the one
\* being searched.
Counted == Parts * (Cardinality(covered) + cursor)

ActiveIsBounded ==
    /\ pc \in {"top", "show"} => active <= Counted
    /\ Searching => active <= Counted + done

\* A verified key waits to be saved only on the way to the loop that saves it.
PendingIsOnItsWay ==
    hit = "pending" =>
        \/ pc \in {"stop", "final", "persist"}
        \/ pc \in {"fatal", "error"} /\ after = "persist"

\* The final checkpoint holds the runtime, which does not change any more.
FinalHoldsRuntime ==
    finalSaved => saved = active /\ pc \in {"persist", "clear", "linger", "exited"}

\* A block that is complete and not covered is about to be committed, or an
\* error has ended the search and is shown.
Dropped == block # None /\ done = Parts /\ block \notin covered

DroppedIsAnError ==
    Dropped =>
        \/ pc \in {"block", "publish"}
        \/ pc \in {"fatal", "error"} /\ after # "persist" /\ hit # "pending"
        \/ pc \in {"stop", "final", "linger", "exited"} /\ lastError = "fatal" /\ hit # "pending"

-----------------------------------------------------------------------------
(* Lemmas about the data *)

\* One more block leaves room for all its parts.
LEMMA RoomForOneMore ==
    ASSUME NEW p \in Nat, NEW n \in Nat, NEW m \in Nat, n + 1 <= m
    PROVE  /\ p * n \in Nat
           /\ p * (n + 1) = p * n + p
           /\ p * n + p <= p * m
<1>1. PICK k \in Nat : m = n + 1 + k
  <2>. WITNESS m - (n + 1) \in Nat
  <2>. QED
    OBVIOUS
<1>2. p * k >= 0 /\ p * n >= 0
  OBVIOUS
<1>. QED
  BY <1>1, <1>2

\* The plan is a sequence of blocks, and sets of blocks can be counted.
LEMMA PlanType ==
    ASSUME TypeOK
    PROVE  /\ plan \in Seq(Blocks)
           /\ Len(plan) \in Nat
           /\ Cardinality(Blocks) \in Nat
           /\ IsFiniteSet(covered)
           /\ Cardinality(covered) \in Nat
           /\ Cardinality(covered) <= Cardinality(Blocks)
           /\ Dispatches = 0 .. Parts * (Cardinality(Blocks) + Len(plan))
           /\ None \notin Blocks
<1>1. plan \in Seq(Blocks) /\ IsFiniteSet(Blocks) /\ None \notin Blocks
  BY ControlAssumption DEF TypeOK, plan
<1>2. covered \in SUBSET Blocks
  BY DEF TypeOK
<1>. QED
  BY <1>1, <1>2, FS_Subset, FS_CardinalityType DEF Dispatches

\* The block being searched is one the total of the session has room for.
LEMMA BlockHasRoom ==
    ASSUME TypeOK, BlockIsSelected, Searching
    PROVE  Cardinality(covered) + cursor + 1 <= Cardinality(Blocks) + Len(plan)
<1>. USE PlanType DEF TypeOK
<1>1. CASE PendingRecheck
  BY <1>1 DEF PendingRecheck
<1>2. CASE ~PendingRecheck
  <2>1. block \in Blocks \ covered
    BY <1>2 DEF BlockIsSelected, Selectable
  <2>2. covered \cup {block} \in SUBSET Blocks
    BY <2>1
  <2>3. Cardinality(covered \cup {block}) = Cardinality(covered) + 1
    BY <2>1, FS_AddElement
  <2>4. Cardinality(covered \cup {block}) <= Cardinality(Blocks)
    BY <2>2, ControlAssumption, FS_Subset
  <2>. QED
    BY <1>2, <2>3, <2>4 DEF PendingRecheck
<1>. QED
  BY <1>1, <1>2

-----------------------------------------------------------------------------
(* Type correctness.  The bound on the dispatches needs the block at hand to *)
(* be a new one, so the types are proved together with that.                 *)

TypeInv == TypeOK /\ ActiveIsBounded /\ BlockIsSelected /\ BatchFits

\* A session starts with no block and nothing recorded, whatever it resumes.
THEOREM TypeInit == Init => TypeInv
<1>. SUFFICES ASSUME Init PROVE TypeInv
  OBVIOUS
<1>1. /\ plan \in Seq(Blocks) /\ covered \subseteq Blocks
      /\ IsFiniteSet(Blocks) /\ Parts \in Nat \ {0}
  BY ControlAssumption DEF Init, plan
<1>2. /\ Cardinality(Blocks) \in Nat /\ Cardinality(covered) \in Nat
      /\ Len(plan) \in Nat
  BY <1>1, FS_CardinalityType, FS_Subset
<1>3. 0 \in Dispatches /\ 0 <= Counted
  <2>1. Cardinality(Blocks) + Len(plan) \in Nat /\ Cardinality(covered) + 0 \in Nat
    BY <1>2
  <2>2. 0 <= Parts * (Cardinality(Blocks) + Len(plan))
    BY <1>1, <2>1, RoomForOneMore
  <2>. QED
    BY <1>1, <2>1, <2>2, RoomForOneMore DEF Dispatches, Counted, Init
<1>4. TypeOK
  <2>1. /\ pc \in Places /\ isRunning \in BOOLEAN /\ terminal \in BOOLEAN
        /\ hit \in {"absent", "pending", "saved"}
    BY DEF Init, Places
  <2>2. done \in 0 .. Parts /\ size \in 0 .. Parts /\ cursor \in 0 .. Len(plan)
    BY <1>1, <1>2 DEF Init
  <2>3. request \in [Handlers -> {"idle", "no_hit", "no_error"}]
    BY DEF Init
  <2>. QED
    BY <1>1, <1>3, <2>1, <2>2, <2>3 DEF TypeOK, Init
<1>. QED
  BY <1>3, <1>4 DEF TypeInv, ActiveIsBounded, BlockIsSelected, BatchFits, Searching, Init

\* The dispatch that ends fits into what the session has room for.
LEMMA DispatchIsBounded ==
    ASSUME TypeInv, pc = "gpu"
    PROVE  /\ active + 1 \in Dispatches
           /\ active + 1 <= Counted + (done + size)
<1>a. TypeOK /\ ActiveIsBounded /\ BlockIsSelected /\ BatchFits
  BY DEF TypeInv
<1>b. /\ Parts \in Nat /\ active \in Nat /\ done \in Nat /\ cursor \in Nat
      /\ cursor \in 0 .. Len(plan) /\ done \in 0 .. Parts /\ covered \subseteq Blocks
  BY <1>a, PlanType, ControlAssumption DEF TypeOK, Dispatches
<1>c. /\ Cardinality(Blocks) \in Nat /\ Len(plan) \in Nat /\ plan \in Seq(Blocks)
      /\ IsFiniteSet(covered) /\ Cardinality(covered) \in Nat
      /\ Dispatches = 0 .. Parts * (Cardinality(Blocks) + Len(plan))
  BY <1>a, PlanType
<1>. DEFINE n == Cardinality(covered) + cursor
            m == Cardinality(Blocks) + Len(plan)
<1>1. n \in Nat /\ m \in Nat
  BY <1>b, <1>c
<1>2. size \in 1 .. Parts - done
  BY <1>a DEF BatchFits
<1>3. active <= Parts * n + done
  BY <1>a DEF ActiveIsBounded, Searching, Counted
<1>4. n + 1 <= m
  BY <1>a, BlockHasRoom DEF Searching
<1>5. Parts * n \in Nat /\ Parts * n + Parts <= Parts * m /\ Parts * m \in Nat
  <2>. HIDE DEF n, m
  <2>. QED
    BY <1>1, <1>b, <1>4, RoomForOneMore
<1>. HIDE DEF n, m
<1>6. active + 1 <= Parts * n + (done + size) /\ active + 1 \in 0 .. Parts * m
  BY <1>1, <1>b, <1>2, <1>3, <1>5
<1>. QED
  BY <1>6, <1>c DEF Counted, n, m

\* A committed block pays for its dispatches.
LEMMA CommitCounts ==
    ASSUME TypeInv, pc = "block", done = Parts, CompleteBlock
    PROVE  active <= Counted' /\ cursor' \in 0 .. Len(plan) /\ covered' \subseteq Blocks
<1>a. TypeOK /\ ActiveIsBounded /\ BlockIsSelected /\ BatchFits
  BY DEF TypeInv
<1>b. /\ Parts \in Nat /\ active \in Nat /\ done \in Nat /\ cursor \in Nat
      /\ cursor \in 0 .. Len(plan) /\ done \in 0 .. Parts /\ covered \subseteq Blocks
  BY <1>a, PlanType, ControlAssumption DEF TypeOK, Dispatches
<1>c. /\ Cardinality(Blocks) \in Nat /\ Len(plan) \in Nat /\ plan \in Seq(Blocks)
      /\ IsFiniteSet(covered) /\ Cardinality(covered) \in Nat
      /\ Dispatches = 0 .. Parts * (Cardinality(Blocks) + Len(plan))
  BY <1>a, PlanType
<1>. DEFINE n == Cardinality(covered) + cursor
<1>1. n \in Nat
  BY <1>b, <1>c
<1>2. active <= Parts * n + Parts
  BY <1>a DEF ActiveIsBounded, Searching, Counted
<1>3. block \in Blocks /\ Selectable(block)
  BY <1>a DEF BlockIsSelected, Searching
<1>4. /\ cursor' = (IF PendingRecheck THEN cursor + 1 ELSE cursor)
      /\ covered' = covered \cup {block}
  BY DEF CompleteBlock
<1>5. Cardinality(covered') = IF block \in covered THEN Cardinality(covered)
                                                   ELSE Cardinality(covered) + 1
  BY <1>4, <1>c, FS_AddElement
<1>6. Cardinality(covered') + cursor' = n + 1 \/ Cardinality(covered') + cursor' = n + 2
  BY <1>3, <1>4, <1>5, <1>b, <1>c DEF Selectable
<1>7. Parts * (n + 1) = Parts * n + Parts /\ Parts * (n + 2) >= Parts * n + Parts
  <2>. HIDE DEF n
  <2>1. n + 1 \in Nat /\ n + 2 \in Nat /\ n + 1 <= n + 1 /\ n + 1 <= n + 2
    BY <1>1
  <2>. QED
    BY <1>1, <1>b, <2>1, RoomForOneMore
<1>8. active <= Counted'
  BY <1>1, <1>b, <1>2, <1>6, <1>7 DEF Counted
<1>9. cursor' \in 0 .. Len(plan)
  BY <1>4, <1>b, <1>c DEF PendingRecheck
<1>. QED
  BY <1>3, <1>4, <1>8, <1>9, <1>b

\* Every step preserves the types.
THEOREM TypeStep == TypeInv /\ [Next]_vars => TypeInv'
<1>. SUFFICES ASSUME TypeInv, [Next]_vars PROVE TypeInv'
  OBVIOUS
<1>a. /\ Parts \in Nat \ {0} /\ Batch \in [Modes -> 1 .. Parts] /\ None \notin Blocks
      /\ Dispatches \subseteq Nat /\ Len(plan) \in Nat /\ plan \in Seq(Blocks)
  BY PlanType, ControlAssumption DEF TypeInv, Dispatches
<1>b. Counted \in Nat
  <2>1. Cardinality(covered) + cursor \in Nat
    BY PlanType DEF TypeInv, TypeOK
  <2>. QED
    BY <1>a, <2>1, RoomForOneMore DEF Counted
<1>c. UNCHANGED <<covered, cursor>> => Counted' = Counted
  BY DEF Counted
<1>d. UNCHANGED start => Dispatches' = Dispatches /\ Len(plan') = Len(plan)
  BY DEF Dispatches, plan
<1>. USE DEF TypeInv, TypeOK, ActiveIsBounded, BlockIsSelected, BatchFits, Searching,
     Selectable, PendingRecheck, Places, constVars, progressVars, outcomeVars,
     storeVars, runVars, modeVars, GoTo, Abort, Persisted, PersistFails, PeriodicSave,
     Shared, Handled, Advance, InLoop, InBlock, plan
<1>1. CASE Leave
  BY <1>1, <1>a, <1>b, <1>c, <1>d DEF Leave
<1>2. CASE Pause
  BY <1>2, <1>a, <1>b, <1>c, <1>d DEF Pause
<1>3. CASE SelectBlock
  <2>a. 0 \in 0 .. Parts
    BY <1>a
  <2>1. pauseSaved' \in BOOLEAN
    BY <1>3 DEF SelectBlock
  <2>2. TypeOK'
    BY <1>3, <1>d, <2>a, <2>1 DEF SelectBlock
  <2>3. ActiveIsBounded'
    BY <1>3, <1>b, <1>c DEF SelectBlock
  <2>. QED
    BY <1>3, <1>d, <2>2, <2>3 DEF SelectBlock
<1>4. CASE RngFails
  BY <1>4, <1>a, <1>b, <1>c, <1>d DEF RngFails
<1>5. CASE Dispatch
  <2>1. Batch[mode] \in 1 .. Parts /\ Parts - done \in 1 .. Parts
    BY <1>5, <1>a DEF Dispatch
  <2>2. SubKeys \in 1 .. Parts - done
    BY <2>1 DEF SubKeys, MinOf
  <2>3. SubKeys \in 0 .. Parts
    BY <1>a, <2>2
  <2>4. pauseSaved' \in BOOLEAN
    BY <1>5 DEF Dispatch
  <2>5. TypeOK'
    BY <1>5, <1>d, <2>3, <2>4 DEF Dispatch
  <2>. QED
    BY <1>5, <1>c, <1>d, <2>2, <2>5 DEF Dispatch
<1>6. CASE FindNothing
  <2>1. active + 1 \in Dispatches /\ active + 1 <= Counted + (done + size)
    BY <1>6, DispatchIsBounded DEF FindNothing
  <2>2. done + size \in 0 .. Parts
    BY <1>6, <1>a DEF FindNothing
  <2>3. searched' \subseteq Blocks \X (0 .. Parts - 1)
    BY <1>6, <1>a DEF FindNothing, Batched
  <2>. QED
    BY <1>6, <1>a, <1>b, <1>c, <1>d, <2>1, <2>2, <2>3 DEF FindNothing, Recorded
<1>7. CASE FindKey
  BY <1>7, <1>a, <1>b, <1>c, <1>d DEF FindKey
<1>8. CASE DispatchFails
  BY <1>8, <1>a, <1>b, <1>c, <1>d DEF DispatchFails
<1>9. CASE Publish
  <2>1. broken' \in BOOLEAN /\ terminal' \in BOOLEAN
    BY <1>9 DEF Publish
  <2>2. TypeOK'
    BY <1>9, <1>d, <2>1 DEF Publish
  <2>. QED
    BY <1>9, <1>c, <1>d, <2>2 DEF Publish
<1>10. CASE Commit
  <2>1. CASE ~broken /\ CompleteBlock
    <3>1. active <= Counted' /\ cursor' \in 0 .. Len(plan) /\ covered' \subseteq Blocks
      BY <1>10, <2>1, CommitCounts DEF Commit
    <3>2. broken' \in BOOLEAN /\ terminal' \in BOOLEAN
      BY <1>10, <2>1 DEF Commit
    <3>3. TypeOK'
      BY <1>10, <1>d, <2>1, <3>1, <3>2 DEF Commit, CompleteBlock
    <3>. QED
      BY <1>10, <2>1, <3>1, <3>3 DEF Commit
  <2>2. CASE UNCHANGED <<covered, cursor, saved>> /\ broken' = TRUE /\ Abort("stop")
    BY <1>10, <1>a, <1>c, <1>d, <2>2 DEF Commit
  <2>. QED
    BY <1>10, <2>1, <2>2 DEF Commit
<1>11. CASE Show
  <2>1. broken' \in BOOLEAN /\ terminal' \in BOOLEAN
    BY <1>11 DEF Show
  <2>2. TypeOK'
    BY <1>11, <1>d, <2>1 DEF Show
  <2>. QED
    BY <1>11, <1>c, <2>2 DEF Show
<1>12. CASE Halt
  <2>1. isRunning' \in BOOLEAN
    BY <1>12 DEF Halt
  <2>2. TypeOK'
    BY <1>12, <1>d, <2>1 DEF Halt
  <2>. QED
    BY <1>12, <1>c, <2>2 DEF Halt
<1>13. CASE Announce
  BY <1>13, <1>a, <1>b, <1>c, <1>d DEF Announce
<1>14. CASE ShowError
  BY <1>14, <1>a, <1>b, <1>c, <1>d DEF ShowError
<1>15. CASE FinalCheckpoint
  <2>1. finalSaved' \in BOOLEAN /\ broken' \in BOOLEAN /\ terminal' \in BOOLEAN
    BY <1>15 DEF FinalCheckpoint
  <2>2. pc' \in {"persist", "linger", "fatal"} /\ after' \in {"stop", "persist", "linger"}
    BY <1>15 DEF FinalCheckpoint, AfterFinal
  <2>3. TypeOK'
    BY <1>15, <1>d, <2>1, <2>2 DEF FinalCheckpoint
  <2>. QED
    BY <2>2, <2>3
<1>16. CASE HitSaved
  BY <1>16, <1>a, <1>b, <1>c, <1>d DEF HitSaved
<1>17. CASE HitNotSaved
  BY <1>17, <1>a, <1>b, <1>c, <1>d DEF HitNotSaved
<1>18. CASE ClearError
  BY <1>18, <1>a, <1>b, <1>c, <1>d DEF ClearError
<1>19. CASE Exit
  BY <1>19, <1>a, <1>b, <1>c, <1>d DEF Exit
<1>20. ASSUME NEW h \in Handlers, StartRequested(h) PROVE TypeInv'
  BY <1>20, <1>a, <1>b, <1>c, <1>d DEF StartRequested
<1>21. ASSUME NEW h \in Handlers, StartChecked(h) PROVE TypeInv'
  BY <1>21, <1>a, <1>b, <1>c, <1>d DEF StartChecked
<1>22. ASSUME NEW h \in Handlers, StartDone(h) PROVE TypeInv'
  BY <1>22, <1>a, <1>b, <1>c, <1>d DEF StartDone
<1>23. CASE StopRequested
  <2>1. isRunning' \in BOOLEAN
    BY <1>23 DEF StopRequested
  <2>2. TypeOK'
    BY <1>23, <1>d, <2>1 DEF StopRequested
  <2>. QED
    BY <1>23, <1>c, <2>2 DEF StopRequested
<1>24. CASE ModeRequested
  BY <1>24, <1>a, <1>b, <1>c, <1>d DEF ModeRequested
<1>25. CASE Signal
  BY <1>25, <1>a, <1>b, <1>c, <1>d DEF Signal
<1>26. CASE UNCHANGED vars
  BY <1>26, <1>a, <1>b, <1>c, <1>d DEF vars
<1>. QED
  BY <1>1, <1>2, <1>3, <1>4, <1>5, <1>6, <1>7, <1>8, <1>9, <1>10, <1>11, <1>12, <1>13, <1>14, <1>15, <1>16, <1>17, <1>18, <1>19, <1>20, <1>21, <1>22, <1>23, <1>24, <1>25, <1>26
     DEF Next, Search, Finish, Web

\* The solver is type correct, its runtime included, which never exceeds one
\* tick for each part of the range and of the plan.
THEOREM TypeCorrect == Spec => []TypeInv
<1>. QED
  BY TypeInit, TypeStep, PTL DEF Spec

-----------------------------------------------------------------------------
(* The duty and the mode *)

\* publish_governor_duty writes under the mode lock, and only the duty of the
\* mode it finds there.
THEOREM DutyIsTrue == Spec => []DutyMatchesMode
<1>. USE DEF DutyMatchesMode
<1>1. Init => DutyMatchesMode
  BY DEF Init
<1>2. DutyMatchesMode /\ [Next]_vars => DutyMatchesMode'
  BY DEF Next, Search, Finish, Web, vars, modeVars, Shared, Handled, Leave, Pause,
     SelectBlock, RngFails, Dispatch, FindNothing, FindKey, DispatchFails, Publish, Commit,
     Show, Halt, Announce, ShowError, FinalCheckpoint, HitSaved, HitNotSaved, ClearError,
     Exit, StartRequested, StartChecked, StartDone, StopRequested, ModeRequested, Signal
<1>. QED
  BY <1>1, <1>2, PTL DEF Spec

-----------------------------------------------------------------------------
(* What is covered has been searched.  The parts completed so far are part   *)
(* of the invariant: they are what Commit relies on.                         *)

SearchInv == DoneWasSearched /\ CoveredWasSearched

\* Every step keeps what is covered, and what is done, within what was searched.
THEOREM SearchStep == TypeInv /\ SearchInv /\ [Next]_vars => SearchInv'
<1>. SUFFICES ASSUME TypeInv, SearchInv, [Next]_vars PROVE SearchInv'
  OBVIOUS
<1>. DEFINE Counts == (covered \ start.covered) \cup {plan[i] : i \in 1 .. cursor}
            Clear(b, p) == <<b, p>> \in searched /\ key # <<b, p>>
<1>a. /\ Parts \in Nat \ {0} /\ cursor \in Nat /\ done \in Nat
  BY PlanType, ControlAssumption DEF TypeInv, TypeOK
<1>. USE DEF SearchInv, DoneWasSearched, Searching, constVars, progressVars, outcomeVars,
     storeVars, GoTo, Abort, Persisted, PersistFails, PeriodicSave, Shared, Handled
<1>b. ASSUME UNCHANGED <<covered, cursor, key, start>>, searched \subseteq searched'
      PROVE  CoveredWasSearched'
  BY <1>b DEF CoveredWasSearched, plan
<1>c. ASSUME UNCHANGED <<block, done, key, searched>>, Searching' => Searching
      PROVE  DoneWasSearched'
  BY <1>c
<1>1. CASE Leave
  BY <1>1, <1>b, <1>c DEF Leave
<1>2. CASE Pause
  BY <1>2, <1>b, <1>c DEF Pause
<1>3. CASE SelectBlock
  <2>1. CoveredWasSearched'
    BY <1>3, <1>b DEF SelectBlock
  <2>2. 0 .. done' - 1 = {}
    BY <1>3 DEF SelectBlock
  <2>. QED
    BY <2>1, <2>2
<1>4. CASE RngFails
  BY <1>4, <1>b, <1>c DEF RngFails
<1>5. CASE Dispatch
  BY <1>5, <1>b, <1>c DEF Dispatch, InBlock
<1>6. CASE FindNothing
  <2>1. CoveredWasSearched'
    BY <1>6, <1>b DEF FindNothing
  <2>2. size \in Nat /\ done' = done + size
    BY <1>6, <1>a DEF FindNothing, Recorded, TypeInv, TypeOK
  <2>3. ASSUME NEW p \in 0 .. done' - 1 PROVE <<block, p>> \in searched' /\ key # <<block, p>>
    <3>1. CASE p \in 0 .. done - 1
      BY <1>6, <3>1 DEF FindNothing
    <3>2. CASE p \in done .. done + size - 1
      BY <1>6, <3>2 DEF FindNothing, Batched
    <3>. QED
      BY <1>a, <2>2, <3>1, <3>2
  <2>. QED
    BY <1>6, <2>1, <2>3 DEF FindNothing
<1>7. CASE FindKey
  BY <1>7, <1>b, <1>c DEF FindKey
<1>8. CASE DispatchFails
  BY <1>8, <1>b, <1>c DEF DispatchFails
<1>9. CASE Publish
  BY <1>9, <1>b, <1>c DEF Publish
<1>10. CASE Commit
  <2>1. DoneWasSearched'
    BY <1>10 DEF Commit, CompleteBlock
  <2>2. CASE UNCHANGED <<covered, cursor>>
    BY <1>10, <1>b, <2>1, <2>2 DEF Commit
  <2>3. CASE CompleteBlock
    <3>1. \A p \in 0 .. Parts - 1 : Clear(block, p)
      BY <1>10 DEF Commit
    <3>2. \A b \in Counts : \A p \in 0 .. Parts - 1 : Clear(b, p)
      BY DEF CoveredWasSearched
    <3>3. /\ PendingRecheck => block = plan[cursor + 1]
          /\ covered' = covered \cup {block}
          /\ cursor' = (IF PendingRecheck THEN cursor + 1 ELSE cursor)
          /\ UNCHANGED <<key, start, searched>> /\ plan' = plan
      BY <1>10, <2>3 DEF Commit, CompleteBlock, TypeInv, BlockIsSelected, Selectable, plan
    <3>4. Counts' \subseteq Counts \cup {block}
      BY <1>a, <3>3
    <3>5. \A b \in Counts' : \A p \in 0 .. Parts - 1 : Clear(b, p)
      BY <3>1, <3>2, <3>4
    <3>6. CoveredWasSearched'
      BY <3>3, <3>5 DEF CoveredWasSearched
    <3>. QED
      BY <2>1, <3>6
  <2>. QED
    BY <1>10, <2>2, <2>3 DEF Commit
<1>11. CASE Show
  BY <1>11, <1>b, <1>c DEF Show
<1>12. CASE Halt
  BY <1>12, <1>b, <1>c DEF Halt
<1>13. CASE Announce
  BY <1>13, <1>b, <1>c DEF Announce
<1>14. CASE ShowError
  BY <1>14, <1>b, <1>c DEF ShowError, TypeInv, TypeOK
<1>15. CASE FinalCheckpoint
  BY <1>15, <1>b, <1>c DEF FinalCheckpoint, AfterFinal
<1>16. CASE HitSaved
  BY <1>16, <1>b, <1>c DEF HitSaved
<1>17. CASE HitNotSaved
  BY <1>17, <1>b, <1>c DEF HitNotSaved
<1>18. CASE ClearError
  BY <1>18, <1>b, <1>c DEF ClearError
<1>19. CASE Exit
  BY <1>19, <1>b, <1>c DEF Exit
<1>20. ASSUME NEW h \in Handlers, StartRequested(h) PROVE SearchInv'
  BY <1>20, <1>b, <1>c DEF StartRequested
<1>21. ASSUME NEW h \in Handlers, StartChecked(h) PROVE SearchInv'
  BY <1>21, <1>b, <1>c DEF StartChecked
<1>22. ASSUME NEW h \in Handlers, StartDone(h) PROVE SearchInv'
  BY <1>22, <1>b, <1>c DEF StartDone
<1>23. CASE StopRequested
  BY <1>23, <1>b, <1>c DEF StopRequested
<1>24. CASE ModeRequested
  BY <1>24, <1>b, <1>c DEF ModeRequested
<1>25. CASE Signal
  BY <1>25, <1>b, <1>c DEF Signal
<1>26. CASE UNCHANGED vars
  BY <1>26, <1>b, <1>c DEF vars
<1>. QED
  BY <1>1, <1>2, <1>3, <1>4, <1>5, <1>6, <1>7, <1>8, <1>9, <1>10, <1>11, <1>12,
     <1>13, <1>14, <1>15, <1>16, <1>17, <1>18, <1>19, <1>20, <1>21, <1>22, <1>23, <1>24, <1>25, <1>26
     DEF Next, Search, Finish, Web

\* No part of a block is skipped: whatever the power mode, the run switch, an
\* error or a signal did between its dispatches, a block counts as covered or
\* rechecked only with each of its parts searched.
THEOREM SearchIsComplete == Spec => []CoveredWasSearched
<1>1. Init => SearchInv
  <2>. SUFFICES ASSUME Init PROVE SearchInv
    OBVIOUS
  <2>1. covered \ start.covered = {} /\ {plan[i] : i \in 1 .. cursor} = {}
    BY DEF Init
  <2>. QED
    BY <2>1 DEF Init, SearchInv, DoneWasSearched, Searching, CoveredWasSearched
<1>2. SearchInv => CoveredWasSearched
  BY DEF SearchInv
<1>. QED
  BY <1>1, <1>2, TypeCorrect, SearchStep, PTL DEF Spec

-----------------------------------------------------------------------------
(* How the process ends *)

ExitInv == PendingIsOnItsWay /\ FinalHoldsRuntime /\ DroppedIsAnError

\* Every step keeps the key on its way to be saved, the final checkpoint true,
\* and a dropped block explained by the error that is shown.
THEOREM ExitStep == TypeInv /\ ExitInv /\ [Next]_vars => ExitInv'
<1>. SUFFICES ASSUME TypeInv, ExitInv, [Next]_vars PROVE ExitInv'
  OBVIOUS
<1>a. /\ Parts \in Nat \ {0} /\ done \in Nat /\ None \notin Blocks
      /\ after \in {"stop", "linger", "persist"}
      /\ pc = "gpu" => done < Parts
  BY PlanType, ControlAssumption DEF TypeInv, TypeOK, BatchFits
<1>. USE DEF ExitInv, PendingIsOnItsWay, FinalHoldsRuntime, DroppedIsAnError, Dropped,
     constVars, progressVars, outcomeVars, storeVars, runVars, GoTo, Abort, Persisted,
     PersistFails, PeriodicSave, Shared, Handled
<1>1. CASE Leave
  BY <1>1, <1>a DEF Leave, InBlock
<1>2. CASE Pause
  <2>1. pc \in {"block", "top"} /\ (pc = "block" => done < Parts)
    BY <1>2 DEF Pause, InLoop, InBlock
  <2>2. ~Dropped /\ ~Dropped' /\ ~finalSaved /\ ~finalSaved' /\ hit # "pending"
    BY <1>2, <1>a, <2>1 DEF Pause
  <2>. QED
    BY <1>2, <2>2 DEF Pause
<1>3. CASE SelectBlock
  BY <1>3, <1>a DEF SelectBlock
<1>4. CASE RngFails
  BY <1>4, <1>a DEF RngFails
<1>5. CASE Dispatch
  <2>1. pc = "block" /\ done < Parts
    BY <1>5 DEF Dispatch, InBlock
  <2>2. ~Dropped' /\ ~finalSaved' /\ hit' # "pending"
    BY <1>5, <1>a, <2>1 DEF Dispatch
  <2>. QED
    BY <2>2
<1>6. CASE FindNothing
  BY <1>6, <1>a DEF FindNothing
<1>7. CASE FindKey
  BY <1>7, <1>a DEF FindKey
<1>8. CASE DispatchFails
  BY <1>8, <1>a DEF DispatchFails
<1>9. CASE Publish
  BY <1>9, <1>a DEF Publish
<1>10. CASE Commit
  <2>1. ~finalSaved' /\ hit' # "pending" /\ pc' \in {"show", "fatal"}
    BY <1>10 DEF Commit
  <2>2. CASE CompleteBlock
    BY <1>10, <2>1, <2>2 DEF Commit, CompleteBlock
  <2>3. CASE Abort("stop")
    BY <1>10, <2>1, <2>3 DEF Commit
  <2>. QED
    BY <1>10, <2>2, <2>3 DEF Commit
<1>11. CASE Show
  BY <1>11, <1>a DEF Show
<1>12. CASE Halt
  BY <1>12, <1>a DEF Halt
<1>13. CASE Announce
  BY <1>13, <1>a DEF Announce
<1>14. CASE ShowError
  BY <1>14, <1>a DEF ShowError
<1>15. CASE FinalCheckpoint
  <2>1. Dropped' => Dropped /\ lastError = "fatal" /\ hit # "pending"
    BY <1>15 DEF FinalCheckpoint
  <2>2. CASE Persisted /\ pc' = AfterFinal /\ finalSaved' = TRUE /\ UNCHANGED <<after, terminal>>
    BY <1>15, <2>1, <2>2 DEF FinalCheckpoint, AfterFinal
  <2>3. CASE PersistFails /\ Abort(AfterFinal)
    <3>1. ~finalSaved'
      BY <1>15, <2>3 DEF FinalCheckpoint
    <3>. QED
      BY <1>15, <2>1, <2>3, <3>1 DEF FinalCheckpoint, AfterFinal
  <2>. QED
    BY <1>15, <2>2, <2>3 DEF FinalCheckpoint
<1>16. CASE HitSaved
  BY <1>16, <1>a DEF HitSaved
<1>17. CASE HitNotSaved
  BY <1>17, <1>a DEF HitNotSaved
<1>18. CASE ClearError
  BY <1>18, <1>a DEF ClearError
<1>19. CASE Exit
  BY <1>19, <1>a DEF Exit
<1>20. ASSUME NEW h \in Handlers, StartRequested(h) PROVE ExitInv'
  BY <1>20, <1>a DEF StartRequested
<1>21. ASSUME NEW h \in Handlers, StartChecked(h) PROVE ExitInv'
  BY <1>21, <1>a DEF StartChecked
<1>22. ASSUME NEW h \in Handlers, StartDone(h) PROVE ExitInv'
  BY <1>22, <1>a DEF StartDone
<1>23. CASE StopRequested
  BY <1>23, <1>a DEF StopRequested
<1>24. CASE ModeRequested
  BY <1>24, <1>a DEF ModeRequested
<1>25. CASE Signal
  BY <1>25, <1>a DEF Signal
<1>26. CASE UNCHANGED vars
  BY <1>26, <1>a DEF vars
<1>. QED
  BY <1>1, <1>2, <1>3, <1>4, <1>5, <1>6, <1>7, <1>8, <1>9, <1>10, <1>11, <1>12,
     <1>13, <1>14, <1>15, <1>16, <1>17, <1>18, <1>19, <1>20, <1>21, <1>22, <1>23, <1>24, <1>25, <1>26
     DEF Next, Search, Finish, Web

\* The process does not end on its own account with a verified key unsaved, and
\* a final checkpoint that was written holds all the runtime and leaves out no
\* complete block but one an error is shown for.
THEOREM ExitIsSafe == Spec => []ExitIsComplete
<1>1. Init => ExitInv
  BY ControlAssumption DEF Init, ExitInv, PendingIsOnItsWay, FinalHoldsRuntime, DroppedIsAnError, Dropped
<1>2. ExitInv => ExitIsComplete
  BY DEF ExitInv, PendingIsOnItsWay, FinalHoldsRuntime, DroppedIsAnError, Dropped, ExitIsComplete
<1>. QED
  BY <1>1, <1>2, TypeCorrect, ExitStep, PTL DEF Spec
=============================================================================
