------------------------ MODULE HitPersistenceProofs ------------------------
(***************************************************************************)
(* For every number of staging names, saved names and files, and whatever  *)
(* other programs do to them: a verified key, once it is synchronized,     *)
(* survives every crash, no crash leaves a partial key under a FOUND_KEY   *)
(* name, files of other programs are left alone, and no restart searches   *)
(* on with the key in hand.  What persist does not defend is stated in the *)
(* properties: a name that is taken between its check and its use.         *)
(***************************************************************************)
EXTENDS HitPersistence, TLAPS

-----------------------------------------------------------------------------
(* The inductive invariant, in parts *)

Holding ==
    step \in {"write", "sync", "resync", "syncdir", "link", "linking", "unlink", "unlinking"}
Installing == step \in {"settle", "unlink", "unlinking", "tidy", "done"}

\* What the next read sees is among what a power loss may leave.
NowIsPossible ==
    /\ \A n \in Names : dir[n] \in dirs[n]
    /\ \A i \in Inodes : data[i] \in datas[i]

\* What other programs wrote is durable as it is.
ForeignIsDurable ==
    \A i \in Inodes : "foreign" \in datas[i] => datas[i] = {"foreign"}

\* The descriptor refers to a file of ours; it holds the staging name unless
\* another program took that.
OwnedIsOurs ==
    staged # None => "foreign" \notin datas[owned] /\ (~spoiled => dir[staged] = owned)

\* What was checked still holds when the name is used, unless another program came
\* between; then the name is gone, or leads to a file of that program.
ChecksHold ==
    /\ \A c \in {"linking", "unlinking"} :
         step = c => \/ Owns
                     \/ c \in raced /\ (dir[staged] = None \/ datas[dir[staged]] = {"foreign"})
    /\ raced # {} => spoiled

\* While it is written, compared, linked or unlinked there is a staging file.
TypeInv == TypeOK /\ (Holding => staged # None)

\* A staging file that is not complete may still be left partial by a crash;
\* one that is has been synchronized when it is about to be linked.
StagingIsOrdered ==
    /\ step \in {"write", "sync"} => ~complete
    /\ step \in {"resync", "syncdir", "link", "linking"} => complete
    /\ staged # None /\ ~complete => "partial" \in datas[owned]
    /\ step = "sync" => data[owned] = "whole"
    /\ step \in {"syncdir", "link", "linking"} => datas[owned] = {"whole"}

\* The record is under the installed name from the link on, if that linked what had
\* been checked, and durably there before the staging name is removed.
InstalledIsWhole ==
    /\ Installing => installed # None /\ dir[installed] # None
                     /\ (datas[dir[installed]] = {"whole"} \/ "linking" \in raced)
    /\ step \in {"unlink", "unlinking", "tidy", "done"} => dirs[installed] = {dir[installed]}

\* Nothing of ours gets a FOUND_KEY name before a synchronized staging name
\* leads to it.
SavedIsSecured ==
    /\ step \in {"link", "linking"} \/ installed # None \/ step = "found" => secured
    /\ \A n \in SavedNames : \A i \in dirs[n] \ {None} : datas[i] = {"foreign"} \/ secured

RecordSurvives == secured /\ ~spoiled => \E n \in Names : LeadsToRecord(n)

IInv ==
    /\ TypeInv
    /\ NowIsPossible
    /\ ForeignIsDurable
    /\ OwnedIsOurs
    /\ ChecksHold
    /\ StagingIsOrdered
    /\ InstalledIsWhole
    /\ SavedIsSecured
    /\ NoPartialKey
    /\ RecordSurvives

-----------------------------------------------------------------------------
(* Type correctness *)

\* Every attempt, failure, crash and restart preserves the types.
THEOREM TypeStep == TypeInv /\ [Next]_vars => TypeInv'
<1>. SUFFICES ASSUME TypeInv, [Next]_vars PROVE TypeInv'
  OBVIOUS
<1>a. None \notin Names /\ None \notin Inodes /\ Staged \subseteq Names /\ SavedNames \subseteq Names
      /\ MaxForeign \in Nat
  BY HitAssumption DEF Names
<1>. USE DEF TypeInv, TypeOK, Holding, Steps, Attempt, Contents, hitVars, dirVars, dataVars, historyVars,
     SetName, SyncDirectory, Fill, SyncFile, ClearStaged, Owns, HoldsRecord, StopProcess
<1>1. CASE FindHit
  BY <1>1, <1>a DEF FindHit
<1>2. CASE CreateStaged
  <2>1. PICK n \in Staged, i \in Inodes :
            /\ SetName(n, i)
            /\ data' = [data EXCEPT ![i] = "partial"]
            /\ datas' = [datas EXCEPT ![i] = {"partial"}]
            /\ staged' = n /\ owned' = i
    BY <1>2 DEF CreateStaged
  <2>2. complete' \in BOOLEAN /\ ~complete'
    BY <1>2 DEF CreateStaged
  <2>. QED
    BY <1>2, <1>a, <2>1, <2>2 DEF CreateStaged
<1>3. CASE CreateFails
  <2>1. complete' \in BOOLEAN /\ ~complete'
    BY <1>3 DEF CreateFails
  <2>. QED
    BY <1>3, <1>a, <2>1 DEF CreateFails, NeedsStaging
<1>4. CASE KeepStaged
  BY <1>4, <1>a DEF KeepStaged
<1>5. CASE StagedChanged
  BY <1>5, <1>a DEF StagedChanged
<1>6. CASE WriteStaged
  BY <1>6, <1>a DEF WriteStaged
<1>7. CASE WriteStagedFails
  BY <1>7, <1>a DEF WriteStagedFails
<1>8. CASE SyncStaged
  <2>1. complete' \in BOOLEAN
    BY <1>8 DEF SyncStaged
  <2>2. staged # None
    BY <1>8 DEF SyncStaged
  <2>. QED
    BY <1>8, <1>a, <2>1 DEF SyncStaged
<1>9. CASE SyncRecovered
  BY <1>9, <1>a DEF SyncRecovered
<1>10. CASE SyncStagedDirectory
  BY <1>10, <1>a DEF SyncStagedDirectory
<1>11. CASE Link
  BY <1>11, <1>a DEF Link
<1>12. CASE ReopenInstalled
  BY <1>12, <1>a DEF ReopenInstalled
<1>13. CASE InstalledVanished
  BY <1>13, <1>a DEF InstalledVanished
<1>14. CASE Settle
  BY <1>14, <1>a DEF Settle
<1>15. CASE Unlink
  BY <1>15, <1>a DEF Unlink
<1>16. CASE LeaveForeign
  BY <1>16, <1>a DEF LeaveForeign
<1>17. CASE Tidy
  BY <1>17, <1>a DEF Tidy
<1>18. CASE AttemptFails
  BY <1>18, <1>a DEF AttemptFails
<1>19. CASE Kill
  BY <1>19, <1>a DEF Kill
<1>20. CASE PowerLoss
  <2>1. PICK kept \in [Names -> Inodes \cup {None}], left \in [Inodes -> Contents] :
            /\ dir' = kept /\ dirs' = [n \in Names |-> {kept[n]}]
            /\ data' = left /\ datas' = [i \in Inodes |-> {left[i]}]
    BY <1>20 DEF PowerLoss
  <2>2. complete' \in BOOLEAN /\ ~complete'
    BY <1>20 DEF PowerLoss
  <2>. QED
    BY <1>20, <1>a, <2>1, <2>2 DEF PowerLoss
<1>21. CASE StartFound
  BY <1>21, <1>a DEF StartFound
<1>22. CASE StartStaged
  <2>1. PICK n \in Staged : HoldsRecord(n) /\ staged' = n /\ owned' = dir[n]
    BY <1>22 DEF StartStaged, IsRecoverable
  <2>2. complete' \in BOOLEAN
    BY <1>22 DEF StartStaged
  <2>3. owned' \in Inodes /\ staged' # None
    BY <1>a, <2>1
  <2>. QED
    BY <1>22, <1>a, <2>1, <2>2, <2>3 DEF StartStaged
<1>23. CASE StartSearch
  BY <1>23, <1>a DEF StartSearch
<1>24. ASSUME NEW n \in Names, ForeignPut(n) PROVE TypeInv'
  <2>1. spoiled' \in BOOLEAN
    BY <1>24 DEF ForeignPut, ForeignActs
  <2>2. foreignActs' \in 0 .. MaxForeign
    BY <1>24, <1>a DEF ForeignPut, ForeignActs
  <2>. QED
    BY <1>24, <1>a, <2>1, <2>2 DEF ForeignPut, ForeignActs
<1>25. ASSUME NEW n \in Names, ForeignRemove(n) PROVE TypeInv'
  <2>1. spoiled' \in BOOLEAN
    BY <1>25 DEF ForeignRemove, ForeignActs
  <2>2. foreignActs' \in 0 .. MaxForeign
    BY <1>25, <1>a DEF ForeignRemove, ForeignActs
  <2>. QED
    BY <1>25, <1>a, <2>1, <2>2 DEF ForeignRemove, ForeignActs
<1>26. CASE UNCHANGED vars
  BY <1>26, <1>a DEF vars
<1>27. CASE CheckLink
  BY <1>27, <1>a DEF CheckLink
<1>28. CASE CheckUnlink
  BY <1>28, <1>a DEF CheckUnlink
<1>29. CASE NameVanished
  BY <1>29, <1>a DEF NameVanished
<1>. QED
  BY <1>1, <1>2, <1>3, <1>4, <1>5, <1>6, <1>7, <1>8, <1>9, <1>10, <1>11, <1>12,
     <1>13, <1>14, <1>15, <1>16, <1>17, <1>18, <1>19, <1>20, <1>21, <1>22, <1>23,
     <1>24, <1>25, <1>26, <1>27, <1>28, <1>29
     DEF Next, Stage, Install, Restart, Foreign

-----------------------------------------------------------------------------
(* The files *)

FileInv == NowIsPossible /\ ForeignIsDurable /\ OwnedIsOurs /\ ChecksHold /\ StagingIsOrdered

\* Every step keeps apart what is ours and what is not, what is synchronized
\* and what a crash may still take.
THEOREM FileStep == TypeInv /\ FileInv /\ NoPartialKey /\ [Next]_vars => FileInv'
<1>. SUFFICES ASSUME TypeInv, FileInv, NoPartialKey, [Next]_vars PROVE FileInv'
  OBVIOUS
<1>a. /\ None \notin Names /\ None \notin Inodes /\ Staged \subseteq Names /\ SavedNames \subseteq Names
      /\ Staged \cap SavedNames = {}
  BY HitAssumption DEF Names
<1>. USE DEF TypeInv, TypeOK, FileInv, NowIsPossible, ForeignIsDurable, OwnedIsOurs, ChecksHold,
     StagingIsOrdered, Holding, Attempt, hitVars, dirVars, dataVars, historyVars,
     SetName, SyncDirectory, Fill, SyncFile, ClearStaged, Owns, HoldsRecord, StopProcess
<1>1. CASE FindHit
  BY <1>1, <1>a DEF FindHit
<1>2. CASE CreateStaged
  BY <1>2, <1>a DEF CreateStaged
<1>3. CASE CreateFails
  <2>1. staged' = None /\ step' = "wait"
    BY <1>3 DEF CreateFails, NeedsStaging
  <2>. QED
    BY <1>3, <1>a, <2>1 DEF CreateFails
<1>4. CASE KeepStaged
  BY <1>4, <1>a DEF KeepStaged
<1>5. CASE StagedChanged
  BY <1>5, <1>a DEF StagedChanged
<1>6. CASE WriteStaged
  BY <1>6, <1>a DEF WriteStaged
<1>7. CASE WriteStagedFails
  BY <1>7, <1>a DEF WriteStagedFails
<1>8. CASE SyncStaged
  BY <1>8, <1>a DEF SyncStaged
<1>9. CASE SyncRecovered
  BY <1>9, <1>a DEF SyncRecovered
<1>10. CASE SyncStagedDirectory
  BY <1>10, <1>a DEF SyncStagedDirectory
<1>11. CASE Link
  BY <1>11, <1>a DEF Link
<1>12. CASE ReopenInstalled
  <2>1. dir[installed] \in dirs[installed] \ {None} /\ installed \in SavedNames
    BY <1>12, <1>a DEF ReopenInstalled
  <2>2. datas[dir[installed]] = {"whole"} \/ datas[dir[installed]] = {"foreign"}
    BY <2>1 DEF NoPartialKey
  <2>3. dir[installed] \in Inodes /\ datas[dir[installed]] = {"whole"}
    BY <1>12, <1>a, <2>1, <2>2 DEF ReopenInstalled
  <2>4. UNCHANGED datas
    BY <1>12, <2>3 DEF ReopenInstalled
  <2>. QED
    BY <1>12, <1>a, <2>4 DEF ReopenInstalled
<1>13. CASE InstalledVanished
  BY <1>13, <1>a DEF InstalledVanished
<1>14. CASE Settle
  BY <1>14, <1>a DEF Settle
<1>15. CASE Unlink
  BY <1>15, <1>a DEF Unlink
<1>16. CASE LeaveForeign
  BY <1>16, <1>a DEF LeaveForeign
<1>17. CASE Tidy
  BY <1>17, <1>a DEF Tidy
<1>18. CASE AttemptFails
  BY <1>18, <1>a DEF AttemptFails
<1>19. CASE Kill
  BY <1>19, <1>a DEF Kill
<1>20. CASE PowerLoss
  BY <1>20, <1>a DEF PowerLoss
<1>21. CASE StartFound
  BY <1>21, <1>a DEF StartFound
<1>22. CASE StartStaged
  <2>1. PICK n \in Staged : HoldsRecord(n) /\ staged' = n /\ owned' = dir[n]
    BY <1>22 DEF StartStaged, IsRecoverable
  <2>2. dir[n] \in Inodes /\ "foreign" \notin datas[dir[n]]
    BY <1>a, <2>1
  <2>3. step' = "wait" /\ complete' /\ UNCHANGED <<dirVars, dataVars, historyVars>>
    BY <1>22 DEF StartStaged
  <2>. QED
    BY <1>a, <2>1, <2>2, <2>3
<1>23. CASE StartSearch
  BY <1>23, <1>a DEF StartSearch
<1>24. ASSUME NEW n \in Names, ForeignPut(n) PROVE FileInv'
  <2>1. PICK i \in Inodes :
            /\ Unused(i)
            /\ dir' = [dir EXCEPT ![n] = i] /\ dirs' = [dirs EXCEPT ![n] = {i}]
            /\ data' = [data EXCEPT ![i] = "foreign"]
            /\ datas' = [datas EXCEPT ![i] = {"foreign"}]
    BY <1>24 DEF ForeignPut
  <2>a. UNCHANGED <<step, hitVars>> /\ spoiled' = (spoiled \/ Ours(n))
    BY <1>24 DEF ForeignPut, ForeignActs
  <2>b. n = staged /\ dir[staged] = owned => Ours(n)
    BY <1>a DEF Ours
  <2>2. UNCHANGED <<step, hitVars>> /\ (n = staged /\ dir[staged] = owned => spoiled')
        /\ (spoiled => spoiled')
    BY <2>a, <2>b
  <2>3. i # owned /\ \A m \in Names : i # dir[m] /\ i \notin dirs[m]
    BY <2>1 DEF Unused
  <2>4. NowIsPossible' /\ ForeignIsDurable'
    BY <1>a, <2>1, <2>3
  <2>5. OwnedIsOurs'
    BY <1>a, <2>1, <2>2, <2>3
  <2>6. StagingIsOrdered'
    BY <1>a, <2>1, <2>2, <2>3
  <2>7. ChecksHold'
    <3>1. /\ UNCHANGED <<step, staged, owned>>
          /\ raced' = IF n = staged /\ step \in {"linking", "unlinking"} THEN raced \cup {step}
                      ELSE raced
      BY <1>24 DEF ForeignPut, ForeignActs
    <3>2. raced' # {} => spoiled'
      <4>1. CASE n = staged /\ step \in {"linking", "unlinking"}
        BY <2>2, <4>1
      <4>2. CASE ~ (n = staged /\ step \in {"linking", "unlinking"})
        BY <2>2, <3>1, <4>2
      <4>. QED
        BY <4>1, <4>2
    <3>3. ASSUME step \in {"linking", "unlinking"}
          PROVE  \/ dir'[staged] = owned
                 \/ step \in raced' /\ (dir'[staged] = None \/ datas'[dir'[staged]] = {"foreign"})
      <4>1. staged \in Names /\ staged # None
        BY <1>a, <3>3
      <4>2. CASE n = staged
        BY <2>1, <3>1, <3>3, <4>2
      <4>3. CASE n # staged
        <5>1. dir'[staged] = dir[staged] /\ i # dir[staged] /\ raced' = raced
          BY <2>1, <2>3, <3>1, <4>1, <4>3
        <5>. QED
          BY <2>1, <3>3, <4>1, <5>1
      <4>. QED
        BY <4>2, <4>3
    <3>. QED
      BY <3>1, <3>2, <3>3
  <2>. QED
    BY <2>4, <2>5, <2>6, <2>7
<1>25. ASSUME NEW n \in Names, ForeignRemove(n) PROVE FileInv'
  <2>1. dir' = [dir EXCEPT ![n] = None] /\ dirs' = [dirs EXCEPT ![n] = {None}]
        /\ UNCHANGED dataVars
    BY <1>25 DEF ForeignRemove
  <2>2. UNCHANGED <<step, hitVars>> /\ spoiled'
    BY <1>25, <1>a DEF ForeignRemove, ForeignActs
  <2>3. raced' = IF n = staged /\ step \in {"linking", "unlinking"} THEN raced \cup {step} ELSE raced
    BY <1>25 DEF ForeignRemove, ForeignActs
  <2>4. NowIsPossible' /\ ForeignIsDurable' /\ OwnedIsOurs' /\ StagingIsOrdered'
    BY <1>a, <2>1, <2>2
  <2>5. ChecksHold'
    <3>1. ASSUME step \in {"linking", "unlinking"}
          PROVE  \/ dir'[staged] = owned
                 \/ step \in raced' /\ (dir'[staged] = None \/ datas'[dir'[staged]] = {"foreign"})
      <4>1. staged \in Names /\ staged # None
        BY <1>a, <3>1
      <4>2. CASE n = staged
        BY <2>1, <2>3, <3>1, <4>2
      <4>3. CASE n # staged
        BY <2>1, <2>3, <3>1, <4>1, <4>3
      <4>. QED
        BY <4>2, <4>3
    <3>. QED
      BY <2>2, <3>1
  <2>. QED
    BY <2>4, <2>5
<1>26. CASE UNCHANGED vars
  BY <1>26, <1>a DEF vars
<1>27. CASE CheckLink
  BY <1>27, <1>a DEF CheckLink
<1>28. CASE CheckUnlink
  BY <1>28, <1>a DEF CheckUnlink
<1>29. CASE NameVanished
  BY <1>29, <1>a DEF NameVanished
<1>. QED
  BY <1>1, <1>2, <1>3, <1>4, <1>5, <1>6, <1>7, <1>8, <1>9, <1>10, <1>11, <1>12,
     <1>13, <1>14, <1>15, <1>16, <1>17, <1>18, <1>19, <1>20, <1>21, <1>22, <1>23,
     <1>24, <1>25, <1>26, <1>27, <1>28, <1>29
     DEF Next, Stage, Install, Restart, Foreign

-----------------------------------------------------------------------------
(* The saved names *)

SavedInv == InstalledIsWhole /\ SavedIsSecured /\ NoPartialKey

\* Every step keeps a FOUND_KEY name for a whole, synchronized record.
THEOREM SavedStep == TypeInv /\ FileInv /\ SavedInv /\ [Next]_vars => SavedInv'
<1>. SUFFICES ASSUME TypeInv, FileInv, SavedInv, [Next]_vars PROVE SavedInv'
  OBVIOUS
<1>a. /\ None \notin Names /\ None \notin Inodes /\ Staged \subseteq Names /\ SavedNames \subseteq Names
      /\ Staged \cap SavedNames = {}
  BY HitAssumption DEF Names
<1>. USE DEF TypeInv, TypeOK, FileInv, NowIsPossible, ForeignIsDurable, OwnedIsOurs, ChecksHold,
     StagingIsOrdered, SavedInv, InstalledIsWhole, SavedIsSecured, NoPartialKey, Installing,
     Holding, Attempt, hitVars, dirVars, dataVars, historyVars, SetName, SyncDirectory, Fill,
     SyncFile, ClearStaged, Owns, HoldsRecord, StopProcess, NeedsStaging
<1>1. CASE FindHit
  BY <1>1, <1>a DEF FindHit
<1>2. CASE CreateStaged
  <2>1. PICK n \in Staged, i \in Inodes :
            /\ Unused(i)
            /\ SetName(n, i)
            /\ data' = [data EXCEPT ![i] = "partial"]
            /\ datas' = [datas EXCEPT ![i] = {"partial"}]
    BY <1>2 DEF CreateStaged
  <2>2. step' = "write" /\ UNCHANGED <<installed, historyVars>>
    BY <1>2 DEF CreateStaged
  <2>3. \A m \in SavedNames : dirs'[m] = dirs[m] /\ i \notin dirs[m]
    BY <1>a, <2>1 DEF Unused
  <2>. QED
    BY <1>a, <2>1, <2>2, <2>3
<1>3. CASE CreateFails
  BY <1>3, <1>a DEF CreateFails
<1>4. CASE KeepStaged
  BY <1>4, <1>a DEF KeepStaged
<1>5. CASE StagedChanged
  BY <1>5, <1>a DEF StagedChanged
<1>6. CASE WriteStaged
  BY <1>6, <1>a DEF WriteStaged
<1>7. CASE WriteStagedFails
  BY <1>7, <1>a DEF WriteStagedFails
<1>8. CASE SyncStaged
  BY <1>8, <1>a DEF SyncStaged
<1>9. CASE SyncRecovered
  BY <1>9, <1>a DEF SyncRecovered
<1>10. CASE SyncStagedDirectory
  BY <1>10, <1>a DEF SyncStagedDirectory
<1>11. CASE Link
  BY <1>11, <1>a DEF Link
<1>12. CASE ReopenInstalled
  BY <1>12, <1>a DEF ReopenInstalled
<1>13. CASE InstalledVanished
  BY <1>13, <1>a DEF InstalledVanished
<1>14. CASE Settle
  BY <1>14, <1>a DEF Settle
<1>15. CASE Unlink
  BY <1>15, <1>a DEF Unlink
<1>16. CASE LeaveForeign
  BY <1>16, <1>a DEF LeaveForeign
<1>17. CASE Tidy
  BY <1>17, <1>a DEF Tidy
<1>18. CASE AttemptFails
  BY <1>18, <1>a DEF AttemptFails
<1>19. CASE Kill
  BY <1>19, <1>a DEF Kill
<1>20. CASE PowerLoss
  BY <1>20, <1>a DEF PowerLoss
<1>21. CASE StartFound
  BY <1>21, <1>a DEF StartFound
<1>22. CASE StartStaged
  BY <1>22, <1>a DEF StartStaged
<1>23. CASE StartSearch
  BY <1>23, <1>a DEF StartSearch
<1>24. ASSUME NEW n \in Names, ForeignPut(n) PROVE SavedInv'
  <2>1. PICK i \in Inodes :
            /\ Unused(i)
            /\ dir' = [dir EXCEPT ![n] = i] /\ dirs' = [dirs EXCEPT ![n] = {i}]
            /\ data' = [data EXCEPT ![i] = "foreign"]
            /\ datas' = [datas EXCEPT ![i] = {"foreign"}]
    BY <1>24 DEF ForeignPut
  <2>2. UNCHANGED <<step, installed, secured>> /\ (n # installed \/ step = "wait")
    BY <1>24 DEF ForeignPut, ForeignActs, Touchable
  <2>3. \A m \in Names : i # dir[m] /\ i \notin dirs[m]
    BY <2>1 DEF Unused
  <2>4. NoPartialKey' /\ SavedIsSecured'
    BY <1>a, <2>1, <2>2, <2>3
  <2>5. InstalledIsWhole'
    <3>1. "linking" \in raced => "linking" \in raced'
      BY <1>24 DEF ForeignPut, ForeignActs
    <3>. QED
      BY <1>a, <2>1, <2>2, <2>3, <3>1
  <2>. QED
    BY <2>4, <2>5
<1>25. ASSUME NEW n \in Names, ForeignRemove(n) PROVE SavedInv'
  <2>1. dir' = [dir EXCEPT ![n] = None] /\ dirs' = [dirs EXCEPT ![n] = {None}]
        /\ UNCHANGED dataVars
    BY <1>25 DEF ForeignRemove
  <2>2. UNCHANGED <<step, installed, secured>> /\ (n # installed \/ step = "wait")
    BY <1>25 DEF ForeignRemove, ForeignActs, Touchable
  <2>3. "linking" \in raced => "linking" \in raced'
    BY <1>25 DEF ForeignRemove, ForeignActs
  <2>. QED
    BY <1>a, <2>1, <2>2, <2>3
<1>26. CASE UNCHANGED vars
  BY <1>26, <1>a DEF vars
<1>27. CASE CheckLink
  BY <1>27, <1>a DEF CheckLink
<1>28. CASE CheckUnlink
  BY <1>28, <1>a DEF CheckUnlink
<1>29. CASE NameVanished
  BY <1>29, <1>a DEF NameVanished
<1>. QED
  BY <1>1, <1>2, <1>3, <1>4, <1>5, <1>6, <1>7, <1>8, <1>9, <1>10, <1>11, <1>12,
     <1>13, <1>14, <1>15, <1>16, <1>17, <1>18, <1>19, <1>20, <1>21, <1>22, <1>23,
     <1>24, <1>25, <1>26, <1>27, <1>28, <1>29
     DEF Next, Stage, Install, Restart, Foreign

-----------------------------------------------------------------------------
(* The record *)

\* The installed name leads to the record from the settling on, if the link took what
\* had been checked.
LEMMA InstalledLeads ==
    ASSUME TypeInv, SavedInv, step \in {"unlink", "unlinking", "tidy", "done"}, "linking" \notin raced
    PROVE  installed \in SavedNames /\ LeadsToRecord(installed)
<1>. QED
  BY DEF TypeInv, TypeOK, SavedInv, InstalledIsWhole, Installing, LeadsToRecord

\* Every step leaves a name that leads to the record, and does not resume the
\* search while there is one.
THEOREM RecordStep ==
    TypeInv /\ FileInv /\ SavedInv /\ RecordSurvives /\ [Next]_vars => RecordSurvives'
<1>. SUFFICES ASSUME TypeInv, FileInv, SavedInv, RecordSurvives, [Next]_vars,
                     secured', ~spoiled'
              PROVE  \E n \in Names : LeadsToRecord(n)'
  BY DEF RecordSurvives
<1>a. /\ None \notin Names /\ None \notin Inodes /\ Staged \subseteq Names /\ SavedNames \subseteq Names
      /\ Staged \cap SavedNames = {}
  BY HitAssumption DEF Names
<1>b. ASSUME secured, ~spoiled PROVE \E n \in Names : LeadsToRecord(n)
  BY <1>b DEF RecordSurvives
<1>. USE DEF TypeInv, TypeOK, FileInv, NowIsPossible, ForeignIsDurable, OwnedIsOurs, ChecksHold,
     StagingIsOrdered, LeadsToRecord, Holding, Attempt, hitVars, dirVars, dataVars, historyVars,
     SetName, SyncDirectory, Fill, SyncFile, ClearStaged, Owns, HoldsRecord, StopProcess
<1>1. CASE FindHit
  BY <1>1, <1>a, <1>b DEF FindHit
<1>2. CASE CreateStaged
  <2>1. PICK k \in Staged, i \in Inodes :
            /\ dir[k] = None
            /\ Unused(i)
            /\ SetName(k, i)
            /\ datas' = [datas EXCEPT ![i] = {"partial"}]
    BY <1>2 DEF CreateStaged
  <2>2. PICK n \in Names : LeadsToRecord(n)
    BY <1>2, <1>b DEF CreateStaged
  <2>3. n # k /\ i \notin dirs[n]
    BY <2>1, <2>2 DEF Unused
  <2>4. LeadsToRecord(n)'
    BY <1>a, <2>1, <2>2, <2>3
  <2>. QED
    BY <2>4
<1>3. CASE CreateFails
  BY <1>3, <1>a, <1>b DEF CreateFails
<1>4. CASE KeepStaged
  BY <1>4, <1>a, <1>b DEF KeepStaged
<1>5. CASE StagedChanged
  BY <1>5, <1>a, <1>b DEF StagedChanged
<1>6. CASE WriteStaged
  BY <1>6, <1>a, <1>b DEF WriteStaged
<1>7. CASE WriteStagedFails
  BY <1>7, <1>a, <1>b DEF WriteStagedFails
<1>8. CASE SyncStaged
  BY <1>8, <1>a, <1>b DEF SyncStaged
<1>9. CASE SyncRecovered
  BY <1>9, <1>a, <1>b DEF SyncRecovered
<1>10. CASE SyncStagedDirectory
  BY <1>10, <1>a, <1>b DEF SyncStagedDirectory
<1>11. CASE Link
  BY <1>11, <1>a, <1>b DEF Link
<1>12. CASE ReopenInstalled
  BY <1>12, <1>a, <1>b DEF ReopenInstalled
<1>13. CASE InstalledVanished
  BY <1>13, <1>a, <1>b DEF InstalledVanished
<1>14. CASE Settle
  BY <1>14, <1>a, <1>b DEF Settle
<1>15. CASE Unlink
  <2>0. "linking" \notin raced
    BY <1>15 DEF Unlink
  <2>1. installed \in SavedNames /\ LeadsToRecord(installed)
    BY <1>15, <2>0, InstalledLeads DEF Unlink
  <2>2. dirs'[installed] = dirs[installed] /\ UNCHANGED datas
    BY <1>15, <1>a, <2>1 DEF Unlink
  <2>. QED
    BY <1>15, <1>a, <2>1, <2>2 DEF Unlink
<1>16. CASE LeaveForeign
  BY <1>16, <1>a, <1>b DEF LeaveForeign
<1>17. CASE Tidy
  BY <1>17, <1>a, <1>b DEF Tidy
<1>18. CASE AttemptFails
  BY <1>18, <1>a, <1>b DEF AttemptFails
<1>19. CASE Kill
  BY <1>19, <1>a, <1>b DEF Kill
<1>20. CASE PowerLoss
  BY <1>20, <1>a, <1>b DEF PowerLoss
<1>21. CASE StartFound
  BY <1>21, <1>a, <1>b DEF StartFound
<1>22. CASE StartStaged
  BY <1>22, <1>a, <1>b DEF StartStaged
<1>23. CASE StartSearch
  BY <1>23, <1>a, <1>b DEF StartSearch
<1>24. ASSUME NEW m \in Names, ForeignPut(m) PROVE \E n \in Names : LeadsToRecord(n)'
  <2>1. PICK i \in Inodes :
            /\ Unused(i)
            /\ dirs' = [dirs EXCEPT ![m] = {i}]
            /\ datas' = [datas EXCEPT ![i] = {"foreign"}]
    BY <1>24 DEF ForeignPut
  <2>2. secured /\ ~spoiled /\ ~Ours(m)
    BY <1>24 DEF ForeignPut, ForeignActs
  <2>3. PICK n \in Names : LeadsToRecord(n)
    BY <2>2, <1>b
  <2>4. i \notin dirs[n] /\ m # n
    BY <2>1, <2>2, <2>3, <1>a DEF Unused, Ours
  <2>5. LeadsToRecord(n)'
    BY <1>a, <2>1, <2>3, <2>4
  <2>. QED
    BY <2>5
<1>25. ASSUME NEW m \in Names, ForeignRemove(m) PROVE \E n \in Names : LeadsToRecord(n)'
  <2>1. dirs' = [dirs EXCEPT ![m] = {None}] /\ UNCHANGED datas
    BY <1>25 DEF ForeignRemove
  <2>2. secured /\ ~spoiled /\ ~Ours(m)
    BY <1>25 DEF ForeignRemove, ForeignActs
  <2>3. PICK n \in Names : LeadsToRecord(n)
    BY <2>2, <1>b
  <2>4. m # n
    BY <2>2, <2>3, <1>a DEF Ours
  <2>5. LeadsToRecord(n)'
    BY <1>a, <2>1, <2>3, <2>4
  <2>. QED
    BY <2>5
<1>26. CASE UNCHANGED vars
  BY <1>26, <1>a, <1>b DEF vars
<1>27. CASE CheckLink
  BY <1>27, <1>a, <1>b DEF CheckLink
<1>28. CASE CheckUnlink
  BY <1>28, <1>a, <1>b DEF CheckUnlink
<1>29. CASE NameVanished
  BY <1>29, <1>a, <1>b DEF NameVanished
<1>. QED
  BY <1>1, <1>2, <1>3, <1>4, <1>5, <1>6, <1>7, <1>8, <1>9, <1>10, <1>11, <1>12,
     <1>13, <1>14, <1>15, <1>16, <1>17, <1>18, <1>19, <1>20, <1>21, <1>22, <1>23,
     <1>24, <1>25, <1>26, <1>27, <1>28, <1>29
     DEF Next, Stage, Install, Restart, Foreign

-----------------------------------------------------------------------------
(* The theorems *)

\* It holds when the search begins, with no key file written and nothing staged.
THEOREM InitIsSafe == Init => IInv
<1>. SUFFICES ASSUME Init PROVE IInv
  OBVIOUS
<1>1. TypeInv
  <2>1. 0 \in 0 .. MaxForeign
    BY HitAssumption
  <2>2. complete \in BOOLEAN /\ secured \in BOOLEAN /\ spoiled \in BOOLEAN /\ ~complete
    BY DEF Init
  <2>. QED
    BY <2>1, <2>2 DEF Init, TypeInv, TypeOK, Steps, Contents, Holding
<1>2. FileInv
  BY DEF Init, FileInv, NowIsPossible, ForeignIsDurable, OwnedIsOurs, ChecksHold,
     StagingIsOrdered, Owns
<1>3. SavedInv /\ RecordSurvives
  BY HitAssumption DEF Init, SavedInv, InstalledIsWhole, SavedIsSecured, NoPartialKey, Installing,
     RecordSurvives, Names
<1>. QED
  BY <1>1, <1>2, <1>3 DEF IInv, FileInv, SavedInv

\* The invariant of the whole procedure holds in every reachable state.
THEOREM HitIsSafe == Spec => []IInv
<1>1. IInv /\ [Next]_vars => IInv'
  BY TypeStep, FileStep, SavedStep, RecordStep DEF IInv, FileInv, SavedInv
<1>. QED
  BY <1>1, InitIsSafe, PTL DEF Spec

\* A key that was synchronized, or is shown as found, survives every crash, and
\* the name persist returned leads to it, unless another program took the staging
\* name between its check and the link.
THEOREM KeyIsKept == Spec => []KeySurvives
<1>1. IInv => KeySurvives
  <2>. SUFFICES ASSUME IInv PROVE KeySurvives
    OBVIOUS
  <2>1. step = "done" /\ "linking" \notin raced => installed \in SavedNames /\ LeadsToRecord(installed)
    BY InstalledLeads DEF IInv, SavedInv
  <2>2. step \in {"found", "done"} => secured
    BY DEF IInv, SavedIsSecured, InstalledIsWhole, Installing
  <2>. QED
    BY <2>1, <2>2 DEF IInv, RecordSurvives, KeySurvives
<1>. QED
  BY <1>1, HitIsSafe, PTL

\* No crash leaves a partial key under a FOUND_KEY name.
THEOREM KeyIsWhole == Spec => []NoPartialKey
<1>1. IInv => NoPartialKey
  BY DEF IInv
<1>. QED
  BY <1>1, HitIsSafe, PTL

\* No restart searches on with a key in hand.
THEOREM KeyIsFoundAgain == Spec => SearchDoesNotResume
<1>1. IInv /\ [Next]_vars => [secured /\ ~spoiled => step' # "search"]_vars
  <2>. SUFFICES ASSUME IInv, Next, secured, ~spoiled, step' = "search" PROVE FALSE
    BY DEF vars
  <2>1. PICK n \in Names : LeadsToRecord(n)
    BY DEF IInv, RecordSurvives
  <2>2. HoldsRecord(n)
    BY <2>1 DEF IInv, TypeInv, TypeOK, NowIsPossible, LeadsToRecord, HoldsRecord
  <2>3. ~StartSearch
    BY <2>2 DEF StartSearch, IsRecoverable, Names
  <2>. QED
    BY <2>3 DEF Next, Stage, Install, Restart, Foreign, FindHit, CreateStaged, CreateFails,
       NeedsStaging, KeepStaged, StagedChanged, WriteStaged, WriteStagedFails, SyncStaged,
       SyncRecovered, SyncStagedDirectory, CheckLink, Link, ReopenInstalled, InstalledVanished,
       Settle, CheckUnlink, Unlink, NameVanished, LeaveForeign, Tidy, AttemptFails, Kill, PowerLoss, StopProcess, StartFound,
       StartStaged, ForeignPut, ForeignRemove, ForeignActs
<1>. QED
  BY <1>1, HitIsSafe, PTL DEF Spec, SearchDoesNotResume

\* Files of other programs are not overwritten and keep their names, except a staging
\* name that was taken between its check and its removal.
THEOREM ForeignIsSafe == Spec => ForeignIsLeftAlone
<1>. DEFINE Kept(n) == /\ data'[dir[n]] = "foreign"
                       /\ \/ dir'[n] = dir[n]
                          \/ n = staged /\ step = "unlinking" /\ "unlinking" \in raced
                          \/ dirs[n] # {dir[n]}
            Alone == \A n \in Names :
                       dir[n] # None /\ data[dir[n]] = "foreign" /\ foreignActs' = foreignActs => Kept(n)
<1>1. IInv /\ [Next]_vars => Alone
  <2>. SUFFICES ASSUME IInv, [Next]_vars, NEW n \in Names, dir[n] # None,
                       data[dir[n]] = "foreign", foreignActs' = foreignActs
                PROVE  Kept(n)
    OBVIOUS
  <2>a. /\ None \notin Names /\ Staged \subseteq Names /\ SavedNames \subseteq Names
    BY HitAssumption DEF Names
  <2>b. /\ dir[n] \in Inodes /\ datas[dir[n]] = {"foreign"}
        /\ (staged # None => owned # dir[n])
    BY DEF IInv, TypeInv, TypeOK, NowIsPossible, ForeignIsDurable, OwnedIsOurs
  <2>. USE DEF IInv, TypeInv, TypeOK, Holding, hitVars, dirVars, dataVars, historyVars,
       SetName, SyncDirectory, Fill, SyncFile, ClearStaged, Owns, HoldsRecord, StopProcess
  <2>1. CASE FindHit
    BY <2>1, <2>a, <2>b DEF FindHit
  <2>2. CASE CreateStaged
    <3>1. PICK k \in Staged, i \in Inodes :
              dir[k] = None /\ Unused(i) /\ SetName(k, i) /\ data' = [data EXCEPT ![i] = "partial"]
      BY <2>2 DEF CreateStaged
    <3>2. k # n /\ i # dir[n]
      BY <3>1 DEF Unused
    <3>. QED
      BY <2>a, <2>b, <3>1, <3>2
  <2>3. CASE CreateFails
    BY <2>3, <2>a, <2>b DEF CreateFails
  <2>4. CASE KeepStaged
    BY <2>4, <2>a, <2>b DEF KeepStaged
  <2>5. CASE StagedChanged
    BY <2>5, <2>a, <2>b DEF StagedChanged
  <2>6. CASE WriteStaged
    BY <2>6, <2>a, <2>b DEF WriteStaged
  <2>7. CASE WriteStagedFails
    BY <2>7, <2>a, <2>b DEF WriteStagedFails
  <2>8. CASE SyncStaged
    BY <2>8, <2>a, <2>b DEF SyncStaged
  <2>9. CASE SyncRecovered
    BY <2>9, <2>a, <2>b DEF SyncRecovered
  <2>10. CASE SyncStagedDirectory
    BY <2>10, <2>a, <2>b DEF SyncStagedDirectory
  <2>11. CASE Link
    <3>1. PICK k \in SavedNames : FirstFreeCandidate(k) /\ SetName(k, dir[staged])
      BY <2>11 DEF Link
    <3>2. dir[k] = None /\ UNCHANGED data
      BY <2>11, <3>1 DEF Link, FirstFreeCandidate
    <3>. QED
      BY <2>a, <2>b, <3>1, <3>2
  <2>12. CASE ReopenInstalled
    BY <2>12, <2>a, <2>b DEF ReopenInstalled
  <2>13. CASE InstalledVanished
    BY <2>13, <2>a, <2>b DEF InstalledVanished
  <2>14. CASE Settle
    BY <2>14, <2>a, <2>b DEF Settle
  <2>15. CASE Unlink
    <3>1. n = staged => "unlinking" \in raced
      BY <2>15, <2>b DEF Unlink, ChecksHold
    <3>. QED
      BY <2>15, <2>a, <2>b, <3>1 DEF Unlink
  <2>16. CASE LeaveForeign
    BY <2>16, <2>a, <2>b DEF LeaveForeign
  <2>17. CASE Tidy
    BY <2>17, <2>a, <2>b DEF Tidy
  <2>18. CASE AttemptFails
    BY <2>18, <2>a, <2>b DEF AttemptFails
  <2>19. CASE Kill
    BY <2>19, <2>a, <2>b DEF Kill
  <2>20. CASE PowerLoss
    BY <2>20, <2>a, <2>b DEF PowerLoss
  <2>21. CASE StartFound
    BY <2>21, <2>a, <2>b DEF StartFound
  <2>22. CASE StartStaged
    BY <2>22, <2>a, <2>b DEF StartStaged
  <2>23. CASE StartSearch
    BY <2>23, <2>a, <2>b DEF StartSearch
  <2>24. ASSUME NEW m \in Names, ForeignPut(m) PROVE Kept(n)
    <3>. foreignActs' # foreignActs
      BY <2>24 DEF ForeignPut, ForeignActs
    <3>. QED
      OBVIOUS
  <2>25. ASSUME NEW m \in Names, ForeignRemove(m) PROVE Kept(n)
    <3>. foreignActs' # foreignActs
      BY <2>25 DEF ForeignRemove, ForeignActs
    <3>. QED
      OBVIOUS
  <2>26. CASE UNCHANGED vars
    BY <2>26, <2>a, <2>b DEF vars
  <2>27. CASE CheckLink
    BY <2>27, <2>a, <2>b DEF CheckLink
  <2>28. CASE CheckUnlink
    BY <2>28, <2>a, <2>b DEF CheckUnlink
  <2>29. CASE NameVanished
    BY <2>29, <2>a, <2>b DEF NameVanished
  <2>. QED
    BY <2>1, <2>2, <2>3, <2>4, <2>5, <2>6, <2>7, <2>8, <2>9, <2>10, <2>11, <2>12,
       <2>13, <2>14, <2>15, <2>16, <2>17, <2>18, <2>19, <2>20, <2>21, <2>22, <2>23,
       <2>24, <2>25, <2>26, <2>27, <2>28, <2>29
       DEF Next, Stage, Install, Restart, Foreign
<1>. QED
  BY <1>1, HitIsSafe, PTL DEF Spec, ForeignIsLeftAlone
=============================================================================
