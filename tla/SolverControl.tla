---------------------------- MODULE SolverControl ----------------------------
(***************************************************************************)
(* The solver process: the main thread dispatches one block after another  *)
(* to the GPU, while HTTP handlers start, stop and throttle it and a       *)
(* signal may end it at any time.  They share a few atomics and mutexes,   *)
(* taken one at a time; the main thread is modelled step by step between   *)
(* its accesses to them.                                                   *)
(*                                                                         *)
(* What the checkpoint and the hit do on disk is in CheckpointStore and    *)
(* HitPersistence; here their calls return Ok or an error.                 *)
(***************************************************************************)
EXTENDS Integers, Sequences, FiniteSets

CONSTANTS
    Blocks,     \* block indices of the puzzle range
    Parts,      \* parts a block is searched in, the smallest batch being one
    Modes,      \* power modes
    Batch,      \* mode -> the parts one dispatch searches
    Starts,     \* the coverage and recheck plan a session may begin with
    Handlers,   \* connections that may carry /api/start
    None        \* no block, no key

Key == (Blocks \X (0 .. Parts - 1)) \cup {None}

ASSUME ControlAssumption ==
    /\ IsFiniteSet(Blocks)
    /\ Parts \in Nat \ {0}
    /\ Batch \in [Modes -> 1 .. Parts]
    /\ \A s \in Starts :
         /\ s.covered \subseteq Blocks
         /\ s.plan \in Seq(Blocks)
         /\ \A i, j \in DOMAIN s.plan : s.plan[i] = s.plan[j] => i = j
    /\ None \notin Blocks \cup (Blocks \X (0 .. Parts - 1))

VARIABLES
    key,        \* where the key lies, if it lies in one of the blocks
    start,      \* what this session began with
    pc,         \* where the main thread is
    after,      \* where it goes on after set_fatal_error
    block,      \* the selected block
    done,       \* progress.completed_keys, in parts
    size,       \* sub_keys of the running dispatch, in parts
    applied,    \* requested_mode, as read before the dispatch
    active,     \* active_runtime_session, one tick a dispatch
    pauseSaved, \* pause_checkpoint_saved
    terminal,   \* terminal_state
    finalSaved, \* final_checkpoint_saved
    covered,    \* the store: covered blocks
    cursor,     \* the store: rechecked blocks
    saved,      \* the store: recorded runtime of this session
    broken,     \* the store: poisoned
    isRunning,  \* shared: is_running
    hit,        \* shared: hit, absent, pending or saved
    lastError,  \* shared: last_error
    mode,       \* shared: mode
    dutyOf,     \* shared: the mode whose duty target_gpu_duty_pct shows
    shutdown,   \* SHUTDOWN_SIGNAL
    request,    \* how far each /api/start has come
    searched    \* history: the parts searched in this session

progressVars == <<block, done, size, applied, active, pauseSaved>>
outcomeVars == <<after, terminal, finalSaved>>
storeVars == <<covered, cursor, saved, broken>>
runVars == <<isRunning, hit, lastError>>
modeVars == <<mode, dutyOf>>
constVars == <<key, start>>
vars == <<constVars, pc, progressVars, outcomeVars, storeVars, runVars, modeVars,
          shutdown, request, searched>>

plan == start.plan

Places == {"top", "block", "gpu", "publish", "commit", "show", "hit", "announce",
           "fatal", "error", "stop", "final", "persist", "clear", "linger", "exited"}

Dispatches == 0 .. Parts * (Cardinality(Blocks) + Len(plan))

TypeOK ==
    /\ key \in Key
    /\ start \in Starts
    /\ pc \in Places
    /\ after \in {"stop", "linger", "persist"}
    /\ block \in Blocks \cup {None}
    /\ done \in 0 .. Parts
    /\ size \in 0 .. Parts
    /\ applied \in Modes
    /\ active \in Dispatches
    /\ pauseSaved \in BOOLEAN
    /\ terminal \in BOOLEAN
    /\ finalSaved \in BOOLEAN
    /\ covered \subseteq Blocks
    /\ cursor \in 0 .. Len(plan)
    /\ saved \in Dispatches
    /\ broken \in BOOLEAN
    /\ isRunning \in BOOLEAN
    /\ hit \in {"absent", "pending", "saved"}
    /\ lastError \in {"none", "fatal", "storage"}
    /\ mode \in Modes
    /\ dutyOf \in Modes
    /\ shutdown \in BOOLEAN
    /\ request \in [Handlers -> {"idle", "no_hit", "no_error"}]
    /\ searched \subseteq Blocks \X (0 .. Parts - 1)

Init ==
    /\ key \in Key
    /\ start \in Starts
    /\ after = "stop"
    /\ block = None
    /\ done = 0
    /\ size = 0
    /\ mode \in Modes
    /\ applied = mode
    /\ dutyOf = mode
    /\ active = 0
    /\ pauseSaved = FALSE
    /\ finalSaved = FALSE
    /\ covered = start.covered
    /\ cursor = 0
    /\ saved = 0
    /\ broken = FALSE
    /\ lastError = "none"
    /\ shutdown = FALSE
    /\ request = [h \in Handlers |-> "idle"]
    /\ searched = {}
    /\ \/ pc = "top" /\ isRunning = TRUE /\ hit = "absent" /\ terminal = FALSE
       \/ pc = "persist" /\ isRunning = FALSE /\ hit = "pending" /\ terminal = TRUE
       \/ pc = "linger" /\ isRunning = FALSE /\ hit = "saved" /\ terminal = TRUE

-----------------------------------------------------------------------------
(* Calls into the store *)

GoTo(place) == pc' = place /\ UNCHANGED <<after, terminal, finalSaved>>

\* set_fatal_error, and then on.
Abort(next) ==
    /\ pc' = "fatal"
    /\ after' = next
    /\ terminal' = (terminal \/ next = "stop")
    /\ UNCHANGED finalSaved

\* persist_checkpoint records the runtime; a broken store refuses.
Persisted == ~broken /\ saved' = active /\ UNCHANGED <<covered, cursor, broken>>

\* The append fails, or the compaction after it.
PersistFails ==
    /\ \/ broken' = TRUE /\ UNCHANGED saved
       \/ ~broken /\ saved' = active /\ broken' \in BOOLEAN
    /\ UNCHANGED <<covered, cursor>>

\* Every ten seconds, or not now.
PeriodicSave(next) ==
    \/ UNCHANGED storeVars /\ GoTo(next)
    \/ Persisted /\ GoTo(next)
    \/ PersistFails /\ Abort("stop")

-----------------------------------------------------------------------------
(* The search loop *)

PendingRecheck == cursor < Len(plan)
IsComplete == ~PendingRecheck /\ covered = Blocks

InBlock == pc = "block" /\ done < Parts
InLoop == InBlock \/ (pc = "top" /\ ~IsComplete)

\* FAULT: a paused loop does not look at the signal.
LeaveUnlessPaused ==
    /\ \/ pc = "top" /\ ((shutdown /\ isRunning) \/ IsComplete)
       \/ InBlock /\ shutdown /\ isRunning
    /\ GoTo("stop")
    /\ UNCHANGED <<constVars, progressVars, storeVars, runVars, modeVars, shutdown,
                   request, searched>>

\* FAULT: the signal is obeyed before the complete block is committed.
LeaveAtOnce ==
    /\ \/ pc = "top" /\ (shutdown \/ IsComplete)
       \/ pc = "block" /\ shutdown
    /\ GoTo("stop")
    /\ UNCHANGED <<constVars, progressVars, storeVars, runVars, modeVars, shutdown,
                   request, searched>>

Leave ==
    /\ \/ pc = "top" /\ (shutdown \/ IsComplete)
       \/ InBlock /\ shutdown
    /\ GoTo("stop")
    /\ UNCHANGED <<constVars, progressVars, storeVars, runVars, modeVars, shutdown,
                   request, searched>>

\* A pause persists the runtime once; then the loop sleeps.
Pause ==
    /\ InLoop
    /\ ~shutdown /\ ~isRunning
    /\ ~pauseSaved
    /\ \/ Persisted /\ pauseSaved' = TRUE /\ GoTo(pc)
       \/ PersistFails /\ Abort("stop") /\ UNCHANGED pauseSaved
    /\ UNCHANGED <<constVars, block, done, size, applied, active, runVars, modeVars,
                   shutdown, request, searched>>

Running == ~shutdown /\ isRunning

\* The next block of the plan, then any random block not covered yet.
Selectable(b) == IF PendingRecheck THEN b = plan[cursor + 1] ELSE b \notin covered

SelectBlock ==
    /\ pc = "top" /\ ~IsComplete
    /\ Running
    /\ pauseSaved' = FALSE
    /\ \E b \in Blocks : Selectable(b) /\ block' = b
    /\ done' = 0
    /\ GoTo("block")
    /\ UNCHANGED <<constVars, size, applied, active, storeVars, runVars, modeVars,
                   shutdown, request, searched>>

RngFails ==
    /\ pc = "top" /\ ~IsComplete
    /\ Running
    /\ ~PendingRecheck
    /\ pauseSaved' = FALSE
    /\ Abort("stop")
    /\ UNCHANGED <<constVars, block, done, size, applied, active, storeVars, runVars,
                   modeVars, shutdown, request, searched>>

MinOf(a, b) == IF a < b THEN a ELSE b

SubKeys == MinOf(Parts - done, Batch[mode])

\* FAULT: a resumed block forgets that it was paused and saved.
DispatchAfterPause ==
    /\ InBlock
    /\ Running
    /\ applied' = mode
    /\ size' = SubKeys
    /\ GoTo("gpu")
    /\ UNCHANGED <<constVars, block, done, active, pauseSaved, storeVars, runVars,
                   modeVars, shutdown, request, searched>>

Dispatch ==
    /\ InBlock
    /\ Running
    /\ pauseSaved' = FALSE
    /\ applied' = mode
    /\ size' = SubKeys
    /\ GoTo("gpu")
    /\ UNCHANGED <<constVars, block, done, active, storeVars, runVars, modeVars,
                   shutdown, request, searched>>

Batched == {<<block, p>> : p \in done .. done + size - 1}

\* FAULT: what was dispatched is computed again from the mode of now.
RecordedByMode == done + SubKeys

Recorded == done + size

\* The GPU reports no key, and there is none in the batch.
FindNothing ==
    /\ pc = "gpu"
    /\ key \notin Batched
    /\ searched' = searched \cup Batched
    /\ done' = Recorded
    /\ active' = active + 1
    /\ GoTo("publish")
    /\ UNCHANGED <<constVars, block, size, applied, pauseSaved, storeVars, runVars,
                   modeVars, shutdown, request>>

\* The key, verified by the CPU.
FindKey ==
    /\ pc = "gpu"
    /\ key \in Batched
    /\ GoTo("hit")
    /\ UNCHANGED <<constVars, progressVars, storeVars, runVars, modeVars, shutdown,
                   request, searched>>

\* A dispatch fails, or the CPU turns the candidate down.
DispatchFails ==
    /\ pc = "gpu"
    /\ Abort("stop")
    /\ UNCHANGED <<constVars, progressVars, storeVars, runVars, modeVars, shutdown,
                   request, searched>>

\* FAULT: the duty is published whatever has been requested meanwhile.
PublishLate ==
    /\ pc = "publish"
    /\ dutyOf' = applied
    /\ PeriodicSave("block")
    /\ UNCHANGED <<constVars, progressVars, runVars, mode, shutdown, request, searched>>

\* publish_governor_duty compares under the mode lock.
Publish ==
    /\ pc = "publish"
    /\ dutyOf' = IF mode = applied THEN applied ELSE dutyOf
    /\ PeriodicSave("block")
    /\ UNCHANGED <<constVars, progressVars, runVars, mode, shutdown, request, searched>>

CompleteBlock ==
    /\ covered' = covered \cup {block}
    /\ cursor' = IF PendingRecheck THEN cursor + 1 ELSE cursor
    /\ saved' = active

\* complete_block may fail before the block counts, or in the compaction after.
Commit ==
    /\ pc = "block" /\ done = Parts
    /\ \/ ~broken /\ CompleteBlock /\ UNCHANGED broken /\ GoTo("show")
       \/ ~broken /\ CompleteBlock /\ broken' \in BOOLEAN /\ Abort("stop")
       \/ UNCHANGED <<covered, cursor, saved>> /\ broken' = TRUE /\ Abort("stop")
    /\ UNCHANGED <<constVars, progressVars, runVars, modeVars, shutdown, request, searched>>

\* The totals are shown, and the loop goes on.
Show ==
    /\ pc = "show"
    /\ PeriodicSave("top")
    /\ UNCHANGED <<constVars, progressVars, runVars, modeVars, shutdown, request, searched>>

-----------------------------------------------------------------------------
(* How the search ends *)

Shared(place) ==
    /\ pc' = place
    /\ UNCHANGED <<constVars, progressVars, storeVars, modeVars, shutdown, request, searched>>

\* is_running first, then what has happened.
Halt ==
    /\ \/ pc = "hit" /\ Shared("announce")
       \/ pc = "fatal" /\ Shared("error")
       \/ pc = "stop" /\ Shared("final")
    /\ isRunning' = FALSE
    /\ UNCHANGED <<after, terminal, finalSaved, hit, lastError>>

Announce ==
    /\ pc = "announce"
    /\ Shared("stop")
    /\ hit' = "pending"
    /\ terminal' = TRUE
    /\ UNCHANGED <<after, finalSaved, isRunning, lastError>>

ShowError ==
    /\ pc = "error"
    /\ Shared(after)
    /\ lastError' = "fatal"
    /\ UNCHANGED <<after, terminal, finalSaved, isRunning, hit>>

AfterFinal == IF hit = "pending" THEN "persist" ELSE "linger"

FinalCheckpoint ==
    /\ pc = "final"
    /\ \/ Persisted /\ pc' = AfterFinal /\ finalSaved' = TRUE /\ UNCHANGED <<after, terminal>>
       \/ PersistFails /\ Abort(AfterFinal)
    /\ UNCHANGED <<constVars, progressVars, runVars, modeVars, shutdown, request, searched>>

\* wait_for_hit_persistence
HitSaved ==
    /\ pc = "persist"
    /\ Shared("clear")
    /\ hit' = "saved"
    /\ UNCHANGED <<after, terminal, finalSaved, isRunning, lastError>>

\* FAULT: a signal ends the retries.
HitNotSavedUnlessSignalled ==
    /\ pc = "persist"
    /\ Shared(IF shutdown THEN "linger" ELSE "persist")
    /\ lastError' = "storage"
    /\ UNCHANGED <<after, terminal, finalSaved, isRunning, hit>>

HitNotSaved ==
    /\ pc = "persist"
    /\ Shared("persist")
    /\ lastError' = "storage"
    /\ UNCHANGED <<after, terminal, finalSaved, isRunning, hit>>

ClearError ==
    /\ pc = "clear"
    /\ Shared("linger")
    /\ lastError' = "none"
    /\ UNCHANGED <<after, terminal, finalSaved, isRunning, hit>>

Exit ==
    /\ pc = "linger"
    /\ terminal => shutdown
    /\ Shared("exited")
    /\ UNCHANGED <<after, terminal, finalSaved, runVars>>

-----------------------------------------------------------------------------
(* The HTTP handlers and the signal *)

Handled ==
    UNCHANGED <<constVars, pc, progressVars, outcomeVars, storeVars, shutdown, searched>>

Advance(h, place) == request' = [request EXCEPT ![h] = place]

\* /api/start looks at the hit, then at the error, then starts.
StartRequested(h) ==
    /\ request[h] = "idle" /\ hit = "absent"
    /\ Advance(h, "no_hit")
    /\ Handled /\ UNCHANGED <<runVars, modeVars>>

StartChecked(h) ==
    /\ request[h] = "no_hit"
    /\ Advance(h, IF lastError = "none" THEN "no_error" ELSE "idle")
    /\ Handled /\ UNCHANGED <<runVars, modeVars>>

StartDone(h) ==
    /\ request[h] = "no_error"
    /\ Advance(h, "idle")
    /\ isRunning' = TRUE
    /\ Handled /\ UNCHANGED <<hit, lastError, modeVars>>

StopRequested ==
    /\ isRunning
    /\ isRunning' = FALSE
    /\ Handled /\ UNCHANGED <<hit, lastError, modeVars, request>>

\* request_mode holds the mode lock while it sets the duty.
ModeRequested ==
    /\ \E m \in Modes \ {mode} : mode' = m /\ dutyOf' = m
    /\ Handled /\ UNCHANGED <<runVars, request>>

Signal ==
    /\ ~shutdown
    /\ shutdown' = TRUE
    /\ UNCHANGED <<constVars, pc, progressVars, outcomeVars, storeVars, runVars,
                   modeVars, request, searched>>

-----------------------------------------------------------------------------

Search ==
    \/ Leave \/ Pause \/ SelectBlock \/ RngFails \/ Dispatch
    \/ FindNothing \/ FindKey \/ DispatchFails \/ Publish \/ Commit \/ Show

Finish ==
    \/ Halt \/ Announce \/ ShowError \/ FinalCheckpoint
    \/ HitSaved \/ HitNotSaved \/ ClearError \/ Exit

Alive == pc # "exited"

Web ==
    /\ Alive
    /\ \/ \E h \in Handlers : StartRequested(h) \/ StartChecked(h) \/ StartDone(h)
       \/ StopRequested \/ ModeRequested

Next == Search \/ Finish \/ Web \/ (Alive /\ Signal)

Spec == Init /\ [][Next]_vars

-----------------------------------------------------------------------------
(* Safety *)

\* No part of a block is skipped, whatever the power mode and the run switch
\* did between its dispatches: a block counts as covered, or as rechecked, only
\* when each of its parts has been searched, so it does not hold the key.
CoveredWasSearched ==
    \A b \in (covered \ start.covered) \cup {plan[i] : i \in 1 .. cursor} :
        \A p \in 0 .. Parts - 1 : <<b, p>> \in searched /\ key # <<b, p>>

\* The duty shown belongs to the mode shown: a dispatch that ends late does not
\* overwrite the target of a newer request.
DutyMatchesMode == dutyOf = mode

\* The process does not end on its own account with a verified key unsaved, a
\* signal during the retries included.  "Shutdown complete. Final checkpoint is
\* synchronized.": all runtime is recorded then and, unless an error ended the
\* search, a block that was complete when the signal came is not left out.
ExitIsComplete ==
    pc = "exited" =>
        /\ hit # "pending"
        /\ finalSaved =>
             /\ saved = active
             /\ lastError = "none" /\ block # None /\ done = Parts => block \in covered

\* "Dashboard remains available for the final status" (main.rs:505), which
\* "zeigt unter anderem Laufstatus" (README.md:85): once the search has ended
\* for good and all requests are answered, the status does not say "running".
EndedSearchIsNotRunning ==
    pc = "linger" /\ terminal /\ ~shutdown /\ (\A h \in Handlers : request[h] = "idle")
        => ~isRunning

-----------------------------------------------------------------------------
(* Liveness.  The main thread runs; storage lets the hit be saved in the end. *)

Fairness == WF_vars(Search \/ Finish) /\ WF_vars(HitSaved)

FairSpec == Spec /\ Fairness

\* A signal ends the process from wherever it is: paused, within a block, after
\* an error, while saving a hit.
SignalEndsProcess == shutdown ~> pc = "exited"

\* A pause records the runtime so far, the second pause of a block as well.
PauseIsSaved == (InLoop /\ ~isRunning) ~> (saved = active \/ isRunning \/ ~InLoop)

=============================================================================
