--------------------------- MODULE HitPersistence ---------------------------
(***************************************************************************)
(* The one thing the program must never lose: a verified private key.  It  *)
(* is written to a staging file of its own, synchronized, linked to a name *)
(* that nobody holds, and only then is the staging name removed.  Any call *)
(* may fail and is retried after two seconds; the process may be killed,   *)
(* or lose power, between any two calls; and other programs of the account *)
(* may take, replace or remove the names it uses, also between the check   *)
(* of a name and the call that uses it.                                    *)
(***************************************************************************)
EXTENDS Integers, FiniteSets, Sequences

CONSTANTS
    Staged,     \* names of staging files
    Saved,      \* names of saved keys, in the order candidate_path tries them
    Inodes,     \* files the disk has room for
    MaxForeign, \* bound on what other programs do
    None        \* no file, no name

SavedNames == {Saved[k] : k \in DOMAIN Saved}
Names == Staged \cup SavedNames

ASSUME HitAssumption ==
    /\ Staged \cap SavedNames = {}
    /\ \A j, k \in DOMAIN Saved : Saved[j] = Saved[k] => j = k
    /\ MaxForeign \in Nat
    /\ None \notin Names \cup Inodes

VARIABLES
    step,       \* "search", "down", where persist is, or how it ended
    staged,     \* staged_path
    owned,      \* staged_file: the descriptor that keeps the inode alive
    complete,   \* staged_complete
    installed,  \* installed_path
    dir,        \* the directory as the next read sees it
    dirs,       \* for each name, the files a power loss may leave there
    data,       \* the content of each file as the next read sees it
    datas,      \* for each file, the contents a power loss may leave
    raced,      \* history: the calls before which the staging name was touched after its check
    secured,    \* history: a whole record and its name have been synchronized
    spoiled,    \* history: another program took a record of ours away
    foreignActs \* history: what other programs did so far

hitVars == <<staged, owned, complete, installed>>
dirVars == <<dir, dirs>>
dataVars == <<data, datas>>
historyVars == <<raced, secured, spoiled, foreignActs>>
vars == <<step, hitVars, dirVars, dataVars, historyVars>>

Contents == {"free", "partial", "whole", "foreign"}
Attempt ==
    {"write", "sync", "resync", "syncdir", "link", "linking", "settle", "unlink", "unlinking", "tidy"}
Steps == {"search", "down", "wait", "done", "found"} \cup Attempt

TypeOK ==
    /\ step \in Steps
    /\ staged \in Staged \cup {None}
    /\ owned \in Inodes \cup {None}
    /\ complete \in BOOLEAN
    /\ staged = None <=> owned = None
    /\ complete => staged # None
    /\ installed \in SavedNames \cup {None}
    /\ dir \in [Names -> Inodes \cup {None}]
    /\ dirs \in [Names -> SUBSET (Inodes \cup {None})]
    /\ data \in [Inodes -> Contents]
    /\ datas \in [Inodes -> SUBSET Contents]
    /\ raced \subseteq {"linking", "unlinking"}
    /\ secured \in BOOLEAN
    /\ spoiled \in BOOLEAN
    /\ foreignActs \in 0 .. MaxForeign

-----------------------------------------------------------------------------
(* Files and names *)

\* An inode is reused only when no name and no descriptor refers to it.
Unused(i) == i # owned /\ \A n \in Names : i # dir[n] /\ i \notin dirs[n]

SetName(n, i) ==
    /\ dir' = [dir EXCEPT ![n] = i]
    /\ dirs' = [dirs EXCEPT ![n] = @ \cup {i}]

SyncDirectory == dirs' = [n \in Names |-> {dir[n]}] /\ UNCHANGED dir

Fill(i, content) ==
    /\ data' = [data EXCEPT ![i] = content]
    /\ datas' = [datas EXCEPT ![i] = @ \cup {"partial", content}]

SyncFile(i) == datas' = [datas EXCEPT ![i] = {data[i]}] /\ UNCHANGED data

ClearStaged ==
    /\ staged' = None
    /\ owned' = None
    /\ complete' = FALSE

Owns == staged # None /\ dir[staged] = owned

Init ==
    /\ step = "search"
    /\ staged = None
    /\ owned = None
    /\ complete = FALSE
    /\ installed = None
    /\ dir = [n \in Names |-> None]
    /\ dirs = [n \in Names |-> {None}]
    /\ data = [i \in Inodes |-> "free"]
    /\ datas = [i \in Inodes |-> {"free"}]
    /\ raced = {}
    /\ secured = FALSE
    /\ spoiled = FALSE
    /\ foreignActs = 0

\* The GPU's candidate passes the CPU verification; the search is over.
FindHit ==
    /\ step = "search"
    /\ step' = "wait"
    /\ UNCHANGED <<hitVars, dirVars, dataVars, historyVars>>

-----------------------------------------------------------------------------
(* ensure_staged *)

NeedsStaging == step = "wait" /\ installed = None

\* A fresh path of our own; a replaced one is left to whoever replaced it.
CreateStaged ==
    /\ NeedsStaging
    /\ ~Owns
    /\ \E n \in {m \in Staged : dir[m] = None}, i \in {j \in Inodes : Unused(j)} :
         /\ SetName(n, i)
         /\ data' = [data EXCEPT ![i] = "partial"]
         /\ datas' = [datas EXCEPT ![i] = {"partial"}]
         /\ staged' = n
         /\ owned' = i
    /\ complete' = FALSE
    /\ step' = "write"
    /\ UNCHANGED <<installed, historyVars>>

CreateFails ==
    /\ NeedsStaging
    /\ staged # None /\ ~Owns
    /\ ClearStaged
    /\ UNCHANGED <<step, installed, dirVars, dataVars, historyVars>>

KeepStaged ==
    /\ NeedsStaging
    /\ Owns
    /\ step' = IF complete THEN "resync" ELSE "write"
    /\ UNCHANGED <<hitVars, dirVars, dataVars, historyVars>>

\* The pathname changed after the first check: a vanished one is an error of
\* open, another file is disowned.
StagedChanged ==
    /\ step \in {"write", "resync", "link"}
    /\ ~Owns
    /\ IF step # "link" /\ dir[staged] = None
       THEN UNCHANGED <<staged, owned, complete>>
       ELSE ClearStaged
    /\ step' = "wait"
    /\ UNCHANGED <<installed, dirVars, dataVars, historyVars>>

\* Truncate, restrict the mode, write the record.
WriteStaged ==
    /\ step = "write"
    /\ Owns
    /\ Fill(owned, "whole")
    /\ step' = "sync"
    /\ UNCHANGED <<hitVars, dirVars, historyVars>>

WriteStagedFails ==
    /\ step = "write"
    /\ Owns
    /\ Fill(owned, "partial")
    /\ step' = "wait"
    /\ UNCHANGED <<hitVars, dirVars, historyVars>>

SyncStaged ==
    /\ step = "sync"
    /\ SyncFile(owned)
    /\ complete' = TRUE
    /\ step' = "syncdir"
    /\ UNCHANGED <<staged, owned, installed, dirVars, historyVars>>

\* FAULT: the bytes that survived are taken to be synchronized.
TrustRecovered ==
    /\ step = "resync"
    /\ Owns /\ data[owned] = "whole"
    /\ step' = "syncdir"
    /\ UNCHANGED <<hitVars, dirVars, dataVars, historyVars>>

\* A complete staging file is compared and synchronized, never written.
SyncRecovered ==
    /\ step = "resync"
    /\ Owns /\ data[owned] = "whole"
    /\ SyncFile(owned)
    /\ step' = "syncdir"
    /\ UNCHANGED <<hitVars, dirVars, historyVars>>

SyncStagedDirectory ==
    /\ step = "syncdir"
    /\ SyncDirectory
    /\ secured' = TRUE
    /\ step' = "link"
    /\ UNCHANGED <<hitVars, dataVars, raced, spoiled, foreignActs>>

-----------------------------------------------------------------------------
(* persist *)

\* FAULT: the preferred name is replaced.
PreferredCandidate(n) == n = Saved[1]

FirstFreeCandidate(n) ==
    \E k \in DOMAIN Saved :
        n = Saved[k] /\ dir[n] = None /\ \A j \in 1 .. k - 1 : dir[Saved[j]] # None

\* FAULT: the name is linked whoever holds it.
UncheckedLink ==
    /\ step = "link"
    /\ step' = "linking"
    /\ raced' = {}
    /\ UNCHANGED <<hitVars, dirVars, dataVars, secured, spoiled, foreignActs>>

\* owns_staged_path; the name may be replaced before it is used.
CheckLink ==
    /\ step = "link"
    /\ Owns
    /\ step' = "linking"
    /\ raced' = {}
    /\ UNCHANGED <<hitVars, dirVars, dataVars, secured, spoiled, foreignActs>>

\* hard_link takes whatever the staging name leads to by now.
Link ==
    /\ step = "linking"
    /\ dir[staged] # None
    /\ \E n \in SavedNames :
         /\ FirstFreeCandidate(n)
         /\ SetName(n, dir[staged])
         /\ installed' = n
    /\ step' = "settle"
    /\ UNCHANGED <<staged, owned, complete, dataVars, historyVars>>

\* There is nothing to link, or to remove, any more: the call fails.
NameVanished ==
    /\ step \in {"linking", "unlinking"}
    /\ dir[staged] = None
    /\ step' = "wait"
    /\ UNCHANGED <<hitVars, dirVars, dataVars, historyVars>>

\* FAULT: what was linked once is taken to be saved.
ReopenAndReturn ==
    /\ step = "wait"
    /\ installed # None /\ dir[installed] # None
    /\ data[dir[installed]] = "whole"
    /\ SyncFile(dir[installed])
    /\ step' = "done"
    /\ raced' = {}
    /\ UNCHANGED <<hitVars, dirVars, secured, spoiled, foreignActs>>

\* A retry after the link: the installed record is compared and synchronized.
ReopenInstalled ==
    /\ step = "wait"
    /\ installed # None /\ dir[installed] # None
    /\ data[dir[installed]] = "whole"
    /\ SyncFile(dir[installed])
    /\ step' = "settle"
    /\ raced' = {}
    /\ UNCHANGED <<hitVars, dirVars, secured, spoiled, foreignActs>>

\* FAULT: a vanished name is an error like any other.
InstalledKept ==
    /\ step = "wait"
    /\ installed # None /\ dir[installed] = None
    /\ UNCHANGED vars

\* The name did not last; the staging link, or memory, still holds the key.
InstalledVanished ==
    /\ step = "wait"
    /\ installed # None /\ dir[installed] = None
    /\ installed' = None
    /\ UNCHANGED <<step, staged, owned, complete, dirVars, dataVars, historyVars>>

\* FAULT: the staging name is removed before the new name is synchronized.
SettleNothing ==
    /\ step = "settle"
    /\ step' = IF staged = None THEN "done" ELSE "unlink"
    /\ UNCHANGED <<hitVars, dirVars, dataVars, historyVars>>

Settle ==
    /\ step = "settle"
    /\ SyncDirectory
    /\ step' = IF staged = None THEN "done" ELSE "unlink"
    /\ UNCHANGED <<hitVars, dataVars, historyVars>>

\* FAULT: the name is removed whoever holds it.
UncheckedUnlink ==
    /\ step = "unlink"
    /\ step' = "unlinking"
    /\ UNCHANGED <<hitVars, dirVars, dataVars, historyVars>>

CheckUnlink ==
    /\ step = "unlink"
    /\ Owns
    /\ step' = "unlinking"
    /\ UNCHANGED <<hitVars, dirVars, dataVars, historyVars>>

\* remove_file takes the name from whatever it leads to by now.
Unlink ==
    /\ step = "unlinking"
    /\ dir[staged] # None
    /\ SetName(staged, None)
    /\ ClearStaged
    /\ step' = "tidy"
    /\ UNCHANGED <<installed, dataVars, historyVars>>

\* A staging name that is no longer ours is left alone, and the key is taken to be saved.
LeaveForeign ==
    /\ step = "unlink"
    /\ ~Owns
    /\ ClearStaged
    /\ step' = "done"
    /\ UNCHANGED <<installed, dirVars, dataVars, historyVars>>

Tidy ==
    /\ step = "tidy"
    /\ SyncDirectory
    /\ step' = "done"
    /\ UNCHANGED <<hitVars, dataVars, historyVars>>

\* Any other error: the candidate is kept in memory and tried again.
AttemptFails ==
    /\ step \in Attempt
    /\ step' = "wait"
    /\ UNCHANGED <<hitVars, dirVars, dataVars, historyVars>>

-----------------------------------------------------------------------------
(* Crash and restart *)

StopProcess ==
    /\ step # "down"
    /\ step' = "down"
    /\ ClearStaged
    /\ installed' = None
    /\ UNCHANGED historyVars

Kill == StopProcess /\ UNCHANGED <<dirVars, dataVars>>

PowerLoss ==
    /\ StopProcess
    /\ \E kept \in {k \in [Names -> Inodes \cup {None}] : \A n \in Names : k[n] \in dirs[n]},
          left \in {l \in [Inodes -> Contents] : \A i \in Inodes : l[i] \in datas[i]} :
         /\ dir' = kept /\ dirs' = [n \in Names |-> {kept[n]}]
         /\ data' = left /\ datas' = [i \in Inodes |-> {left[i]}]

HoldsRecord(n) == dir[n] # None /\ data[dir[n]] = "whole"

\* FAULT: only saved keys are looked for.
NoneIsRecoverable(n) == FALSE

IsRecoverable(n) == n \in Staged /\ HoldsRecord(n)

StartFound ==
    /\ step = "down"
    /\ \E n \in SavedNames : HoldsRecord(n)
    /\ step' = "found"
    /\ UNCHANGED <<hitVars, dirVars, dataVars, historyVars>>

\* recover_staged_hit: a complete record may still be unsynchronized.
StartStaged ==
    /\ step = "down"
    /\ \A n \in SavedNames : ~HoldsRecord(n)
    /\ \E n \in Staged :
         /\ IsRecoverable(n)
         /\ staged' = n
         /\ owned' = dir[n]
    /\ complete' = TRUE
    /\ step' = "wait"
    /\ UNCHANGED <<installed, dirVars, dataVars, historyVars>>

StartSearch ==
    /\ step = "down"
    /\ \A n \in SavedNames : ~HoldsRecord(n)
    /\ \A n \in Staged : ~IsRecoverable(n)
    /\ step' = "search"
    /\ UNCHANGED <<hitVars, dirVars, dataVars, historyVars>>

-----------------------------------------------------------------------------
(* Other programs of the account.  They may act between any two steps, except  *)
(* on the installed name while an attempt runs: the code does not defend that. *)

Touchable(n) == n # installed \/ step = "wait"

Ours(n) == dir[n] # None /\ data[dir[n]] # "foreign"

ForeignActs(n) ==
    /\ step \notin {"search", "done", "found"}
    /\ foreignActs < MaxForeign
    /\ foreignActs' = foreignActs + 1
    /\ Touchable(n)
    /\ spoiled' = (spoiled \/ Ours(n))
    /\ raced' = IF n = staged /\ step \in {"linking", "unlinking"} THEN raced \cup {step} ELSE raced
    /\ UNCHANGED <<step, hitVars, secured>>

ForeignPut(n) ==
    /\ ForeignActs(n)
    /\ \E i \in {j \in Inodes : Unused(j)} :
         /\ dir' = [dir EXCEPT ![n] = i] /\ dirs' = [dirs EXCEPT ![n] = {i}]
         /\ data' = [data EXCEPT ![i] = "foreign"]
         /\ datas' = [datas EXCEPT ![i] = {"foreign"}]

ForeignRemove(n) ==
    /\ ForeignActs(n)
    /\ Ours(n)
    /\ dir' = [dir EXCEPT ![n] = None] /\ dirs' = [dirs EXCEPT ![n] = {None}]
    /\ UNCHANGED dataVars

Foreign == \E n \in Names : ForeignPut(n) \/ ForeignRemove(n)

-----------------------------------------------------------------------------

Stage ==
    \/ CreateStaged \/ CreateFails \/ KeepStaged \/ StagedChanged
    \/ WriteStaged \/ WriteStagedFails \/ SyncStaged \/ SyncRecovered
    \/ SyncStagedDirectory

Install ==
    \/ CheckLink \/ Link \/ ReopenInstalled \/ InstalledVanished \/ Settle
    \/ CheckUnlink \/ Unlink \/ NameVanished \/ LeaveForeign \/ Tidy

Restart == Kill \/ PowerLoss \/ StartFound \/ StartStaged \/ StartSearch

Next == FindHit \/ Stage \/ Install \/ AttemptFails \/ Restart \/ Foreign

Spec == Init /\ [][Next]_vars

-----------------------------------------------------------------------------
(* Safety *)

LeadsToRecord(n) == \A i \in dirs[n] : i # None /\ datas[i] = {"whole"}

\* Once a whole record and its name have been synchronized, or a saved key is
\* shown, a whole record survives every crash at every later step: linking,
\* retrying, removing the staging name, recovering after a restart.  And the name
\* that persist returns holds it, whatever other programs did to the staging files,
\* with one exception that persist does not defend: a file that took the staging
\* name after its check and before the link is what is installed.
KeySurvives ==
    /\ (secured \/ step \in {"found", "done"}) /\ ~spoiled => \E n \in Names : LeadsToRecord(n)
    /\ step = "done" /\ "linking" \notin raced => LeadsToRecord(installed)

\* No crash leaves a partial key under a FOUND_KEY name: the file is
\* synchronized before it is linked, a recovered one included.
NoPartialKey ==
    \A n \in SavedNames : \A i \in dirs[n] \ {None} :
        datas[i] = {"whole"} \/ datas[i] = {"foreign"}

\* Files of other programs are not overwritten, and keep their names, also when they
\* take over a staging name or a freed inode.  The one name that persist may take from
\* them is the staging name, if they took it after its check and before it is removed;
\* and a name that persist itself linked to such a file may go with the power.
ForeignIsLeftAlone ==
    [][\A n \in Names :
         dir[n] # None /\ data[dir[n]] = "foreign" /\ foreignActs' = foreignActs
           => /\ data'[dir[n]] = "foreign"
              /\ \/ dir'[n] = dir[n]
                 \/ n = staged /\ step = "unlinking" /\ "unlinking" \in raced
                 \/ dirs[n] # {dir[n]}]_vars

\* No restart searches on with a key in hand.
SearchDoesNotResume ==
    [][secured /\ ~spoiled => step' # "search"]_vars

-----------------------------------------------------------------------------
(* Liveness.  wait_for_hit_persistence retries for ever, also after a signal to *)
(* stop; storage that fails now and then lets every kind of call succeed again. *)

Fairness ==
    /\ WF_vars(Stage \/ Install)
    /\ SF_vars(CreateStaged)
    /\ SF_vars(WriteStaged)
    /\ SF_vars(SyncStaged \/ SyncRecovered \/ ReopenInstalled)
    /\ SF_vars(SyncStagedDirectory \/ Settle \/ Tidy)
    /\ SF_vars(CheckLink \/ CheckUnlink \/ LeaveForeign)
    /\ SF_vars(Link)
    /\ SF_vars(Unlink)

FairSpec == Spec /\ Fairness

Retained == step = "wait" \/ step \in Attempt

InstalledReplaced == installed # None /\ dir[installed] # None /\ ~HoldsRecord(installed)

\* The bounds of the model, not of the disk: crashes and foreign files have
\* taken all names, or all files.
NoRoom ==
    \/ ~Owns /\ ((\A n \in Staged : dir[n] # None) \/ (\A i \in Inodes : ~Unused(i)))
    \/ installed = None /\ (\A n \in SavedNames : dir[n] # None)

\* A retained hit is saved in the end, unless the process stops or a foreign
\* file stays under the name it was installed as.
HitIsSaved == []<>(~Retained) \/ []<>InstalledReplaced \/ []<>NoRoom

=============================================================================
