---------------------------- MODULE ClaimService ----------------------------
(***************************************************************************)
(* The claim service: it spends the puzzle coins to the wallet the owner   *)
(* typed in.  The owner asks for a preview (prepare), then sends exactly   *)
(* that preview (confirm); a thread polls the provider for the outcome.    *)
(*                                                                         *)
(* Every prepare and poll runs under the claim mutex and is one action.    *)
(* confirm holds the same mutex, but the process may be killed, or lose    *)
(* power, between its durable marker, its first outbound byte and the      *)
(* answer of the provider, so it is a chain of steps recorded in `step'.   *)
(*                                                                         *)
(* Signing is deterministic (RFC 6979), so a transaction id stands for     *)
(* what was signed: destination, fee rate and set of inputs.               *)
(***************************************************************************)
EXTENDS Integers, FiniteSets

CONSTANTS
    Destinations,   \* receiving addresses, in canonical form
    Utxos,          \* coins paid to the puzzle address
    DefaultRate,    \* DEFAULT_FEE_RATE_SAT_VB
    MaxRate,        \* MAX_FEE_RATE_SAT_VB
    Floors,         \* the fee floors the provider may announce
    Economic,       \* rate -> the coins worth spending at that rate
    Enough,         \* the input sets of at least MIN_EXPECTED_ECONOMIC_TOTAL_SAT
    MaxNotFound,    \* MAX_NOT_FOUND_POLLS
    None            \* the absent transaction, marker or address

Rates == DefaultRate .. MaxRate
Tx == [dest : Destinations, rate : Rates, inputs : SUBSET Utxos]

\* CLAIM_SUBMITTED.json; a marker of an older version has no original inputs.
Marker == [tx : Tx, outcome : {"pending", "rejected"}, hasInputs : BOOLEAN]

\* What the owner confirms: an address and the transaction of its preview.
Request == [dest : Destinations, tx : Tx]

ASSUME ClaimAssumption ==
    /\ DefaultRate \in Nat
    /\ MaxRate \in Nat
    /\ Floors \subseteq Nat
    /\ Economic \in [Rates -> SUBSET Utxos]
    /\ MaxNotFound \in Nat \ {0}
    /\ None \notin Tx \cup Marker \cup Destinations \cup Request

VARIABLES
    phase,          \* the variant of Phase
    current,        \* its transaction: prepared, submitted or confirmed
    pending,        \* its `pending' guard
    misses,         \* its not_found_polls
    reason,         \* its failure reason
    memoryMarker,   \* pending_marker
    submittedTo,    \* submitted_destination
    recoveryMisses, \* recovery_not_found_polls, capped at MaxNotFound
    disk,           \* the marker file as the next read sees it
    survivors,      \* the contents a power loss may leave in its place
    step,           \* where the running confirm is; "down" without a process
    claim,          \* the transaction this confirm rebuilt and signed
    asked,          \* destination and transaction the owner confirmed
    resubmitting,   \* confirm's local of that name
    first,          \* the provider had not been sent this transaction before
    live,           \* transactions the network may still accept or has accepted
    mined           \* transactions in the chain the provider sees

phaseVars == <<phase, current, pending, misses, reason>>
memoryVars == <<memoryMarker, submittedTo, recoveryMisses>>
diskVars == <<disk, survivors>>
opVars == <<step, claim, asked, resubmitting, first>>
netVars == <<live, mined>>
vars == <<phaseVars, memoryVars, diskVars, opVars, netVars>>

Phases == {"Idle", "AwaitingOwner", "Prepared", "Submitted", "Confirmed", "Failed"}
Reasons == {"none", "marker_unreadable", "submission_unknown",
            "submission_rejected", "submission_not_found"}
Steps == {"down", "ready", "write", "send", "reply", "query", "reject"}

TypeOK ==
    /\ phase \in Phases
    /\ current \in Tx \cup {None}
    /\ pending \in Tx \cup {None}
    /\ misses \in 0 .. MaxNotFound - 1
    /\ reason \in Reasons
    /\ memoryMarker \in Marker \cup {None}
    /\ submittedTo \in Destinations \cup {None}
    /\ recoveryMisses \in 0 .. MaxNotFound
    /\ disk \in Marker \cup {None}
    /\ survivors \subseteq Marker \cup {None}
    /\ step \in Steps
    /\ claim \in Tx \cup {None}
    /\ asked \in Request \cup {None}
    /\ resubmitting \in BOOLEAN
    /\ first \in BOOLEAN
    /\ live \subseteq Tx
    /\ mined \subseteq Tx

-----------------------------------------------------------------------------
(* The phase is replaced as a whole, as the code assigns self.phase. *)

Enter(p, tx, guard, n, why) ==
    /\ phase' = p
    /\ current' = tx
    /\ pending' = guard
    /\ misses' = n
    /\ reason' = why

AwaitOwner(guard) == Enter("AwaitingOwner", None, guard, 0, "none")
EnterPrepared(tx, guard) == Enter("Prepared", tx, guard, 0, "none")
EnterSubmitted(tx, n) == Enter("Submitted", tx, None, n, "none")
EnterConfirmed(tx) == Enter("Confirmed", tx, None, 0, "none")
Fail(why, guard) == Enter("Failed", None, guard, 0, why)

\* confirm returns and drops its locals.
EndConfirm ==
    /\ step' = "ready"
    /\ claim' = None
    /\ asked' = None
    /\ resubmitting' = FALSE
    /\ first' = FALSE

GoTo(s) == step' = s /\ UNCHANGED <<claim, asked, resubmitting, first>>

-----------------------------------------------------------------------------
(* The marker file *)

IsPending(m) == m # None /\ m.outcome = "pending"
PendingMarker(t) == [tx |-> t, outcome |-> "pending", hasInputs |-> TRUE]
RejectedMarker(t) == [tx |-> t, outcome |-> "rejected", hasInputs |-> TRUE]

\* FAULT: the directory is not synchronized.
WriteUnsynced(m) == disk' = m /\ survivors' = survivors \cup {m}

\* Renamed into place and its directory synchronized.
WriteDurably(m) == disk' = m /\ survivors' = {m}

\* An error before the rename leaves the old file; an error of the directory
\* sync leaves the new one visible, but a power loss may still undo it.
WriteFails(m) ==
    \/ UNCHANGED diskVars
    \/ disk' = m /\ survivors' = survivors \cup {m}

\* A read that fails counts as no file here, and memory stands in.
RecoveryMarker(readable) ==
    IF readable /\ IsPending(disk) THEN disk ELSE memoryMarker

-----------------------------------------------------------------------------
(* Rebuilding a transaction from a fresh snapshot of the coins *)

InputsPresent(marker, coins) ==
    marker # None /\ marker.hasInputs => marker.tx.inputs \subseteq coins

RetryPrevouts(marker, coins) ==
    IF marker # None /\ marker.hasInputs THEN marker.tx.inputs ELSE coins

Rebuild(marker, coins, dest, rate) ==
    [dest |-> dest, rate |-> rate,
     inputs |-> RetryPrevouts(marker, coins) \cap Economic[rate]]

FeeRate(marker, floor) ==
    IF marker # None THEN marker.tx.rate
    ELSE IF floor > DefaultRate THEN floor ELSE DefaultRate

-----------------------------------------------------------------------------
(* Where the program starts: no process, no marker or one an older version *)
(* left behind, whose transaction may or may not have reached the network. *)

OldMarker ==
    [tx : {t \in Tx : t.inputs \in Enough /\ t.inputs \subseteq Economic[t.rate]},
     outcome : {"pending", "rejected"}, hasInputs : {FALSE}]

Init ==
    /\ phase = "Idle"
    /\ current = None
    /\ pending = None
    /\ misses = 0
    /\ reason = "none"
    /\ memoryMarker = None
    /\ submittedTo = None
    /\ recoveryMisses = 0
    /\ disk \in OldMarker \cup {None}
    /\ survivors = {disk}
    /\ step = "down"
    /\ claim = None
    /\ asked = None
    /\ resubmitting = FALSE
    /\ first = FALSE
    /\ live \in {{}} \cup {{m.tx} : m \in {n \in {disk} : IsPending(n)}}
    /\ mined = {}

\* init_claim_service: build the service from the marker, then on_verified_hit.
Start(readable) ==
    /\ step = "down"
    /\ GoTo("ready")
    /\ IF ~readable
       THEN /\ Fail("marker_unreadable", None)
            /\ UNCHANGED memoryVars
       ELSE IF IsPending(disk)
            THEN /\ Fail("submission_unknown", disk.tx)
                 /\ memoryMarker' = disk
                 /\ submittedTo' = disk.tx.dest
                 /\ UNCHANGED recoveryMisses
            ELSE /\ AwaitOwner(None)
                 /\ UNCHANGED memoryVars
    /\ UNCHANGED <<diskVars, netVars>>

\* The process is gone, and with it everything it kept in memory.
StopProcess ==
    /\ step # "down"
    /\ Enter("Idle", None, None, 0, "none")
    /\ memoryMarker' = None
    /\ submittedTo' = None
    /\ recoveryMisses' = 0
    /\ step' = "down"
    /\ claim' = None
    /\ asked' = None
    /\ resubmitting' = FALSE
    /\ first' = FALSE
    /\ UNCHANGED netVars

Kill == StopProcess /\ UNCHANGED diskVars

PowerLoss ==
    /\ StopProcess
    /\ \E kept \in survivors : disk' = kept /\ survivors' = {kept}

-----------------------------------------------------------------------------
(* prepare *)

Preparable == step = "ready" /\ phase \in {"AwaitingOwner", "Prepared", "Failed"}

\* FAULT: a failed prepare forgets the guard.
PrepareForgets ==
    /\ Preparable
    /\ AwaitOwner(None)
    /\ UNCHANGED <<memoryVars, diskVars, opVars, netVars>>

\* Any early return: the old preview is withdrawn before the first fallible call.
PrepareFails ==
    /\ Preparable
    /\ AwaitOwner(pending)
    /\ UNCHANGED <<memoryVars, diskVars, opVars, netVars>>

Prepare(dest, floor, coins, readable) ==
    LET marker == RecoveryMarker(readable)
        rate == FeeRate(marker, floor)
        built == Rebuild(marker, coins, dest, rate)
    IN  /\ Preparable
        /\ marker # None => marker.tx.dest = dest /\ floor <= marker.tx.rate
        /\ rate <= MaxRate
        /\ InputsPresent(marker, coins)
        /\ built.inputs # {}
        /\ marker # None /\ marker.hasInputs => built = marker.tx
        /\ built.inputs \in Enough
        /\ EnterPrepared(built, pending)
        /\ UNCHANGED <<memoryVars, diskVars, opVars, netVars>>

-----------------------------------------------------------------------------
(* confirm *)

\* A repeated click on a submitted transaction: a receipt, and nothing is sent.
DuplicateReceipt(dest, t) ==
    /\ step = "ready"
    /\ phase \in {"Submitted", "Confirmed"}
    /\ t = current
    /\ dest = submittedTo

\* FAULT: only memory is consulted.
NoOtherPendingInMemory(t) == pending # None => pending = t

NoOtherPending(t) ==
    /\ IsPending(disk) => disk.tx = t
    /\ pending # None => pending = t

\* The recovery marker of confirm, whose read of the file has succeeded.
Confirmable(dest, t) ==
    /\ step = "ready"
    /\ phase = "Prepared"
    /\ dest = current.dest
    /\ t = current
    /\ NoOtherPending(t)

\* FAULT: the rebuilt transaction is compared by address and fee only.
SameAddressAndRate(built) == built.dest = current.dest /\ built.rate = current.rate

Unchanged(built) == built = current

\* The world moved on since the preview: it is withdrawn, its guard is kept.
ConfirmWithdraws(dest, t, floor, coins) ==
    LET marker == RecoveryMarker(TRUE)
        built == Rebuild(marker, coins, dest, current.rate)
    IN  /\ Confirmable(dest, t)
        /\ \/ floor > current.rate
           \/ ~InputsPresent(marker, coins)
           \/ built.inputs # {} /\ (built.inputs \notin Enough \/ ~Unchanged(built))
        /\ AwaitOwner(pending)
        /\ UNCHANGED <<memoryVars, diskVars, opVars, netVars>>

\* All checks passed; every other early return leaves the state as it was.
ConfirmRebuilds(dest, t, floor, coins) ==
    LET marker == RecoveryMarker(TRUE)
        built == Rebuild(marker, coins, dest, current.rate)
    IN  /\ Confirmable(dest, t)
        /\ floor <= current.rate
        /\ InputsPresent(marker, coins)
        /\ built.inputs \in Enough \ {{}}
        /\ Unchanged(built)
        /\ step' = "write"
        /\ claim' = built
        /\ asked' = [dest |-> dest, tx |-> t]
        /\ resubmitting' = ((IsPending(disk) /\ disk.tx = t) \/ pending = t)
        /\ UNCHANGED <<phaseVars, memoryVars, diskVars, first, netVars>>

\* FAULT: the address of an earlier submission is kept.
WriteMarkerKeepsAddress ==
    /\ step = "write"
    /\ WriteDurably(PendingMarker(current))
    /\ memoryMarker' = PendingMarker(current)
    /\ submittedTo' = IF submittedTo = None THEN current.dest ELSE submittedTo
    /\ GoTo("send")
    /\ UNCHANGED <<phaseVars, recoveryMisses, netVars>>

\* Durable before the first outbound byte.
WriteMarker ==
    /\ step = "write"
    /\ WriteDurably(PendingMarker(current))
    /\ memoryMarker' = PendingMarker(current)
    /\ submittedTo' = current.dest
    /\ GoTo("send")
    /\ UNCHANGED <<phaseVars, recoveryMisses, netVars>>

WriteMarkerFails ==
    /\ step = "write"
    /\ WriteFails(PendingMarker(current))
    /\ EndConfirm
    /\ UNCHANGED <<phaseVars, memoryVars, netVars>>

Send ==
    /\ step = "send"
    /\ step' = "reply"
    /\ first' = (claim \notin live)
    /\ live' = live \cup {claim}
    /\ UNCHANGED <<phaseVars, memoryVars, diskVars, claim, asked, resubmitting, mined>>

SubmitAccepted ==
    /\ step = "reply"
    /\ EnterSubmitted(claim, 0)
    /\ EndConfirm
    /\ UNCHANGED <<memoryVars, diskVars, netVars>>

SubmitAmbiguous ==
    /\ step = "reply"
    /\ Fail("submission_unknown", current)
    /\ EndConfirm
    /\ UNCHANGED <<memoryVars, diskVars, netVars>>

\* What a rejection means to the network: a transaction it had not been sent
\* before is refused, unless the provider keeps it in spite of its answer.
Refuse ==
    /\ \/ UNCHANGED live
       \/ first /\ claim \notin mined /\ live' = live \ {claim}
    /\ UNCHANGED mined

\* A rejected retry proves nothing about the earlier submission.
RetryRejected ==
    /\ step = "reply"
    /\ resubmitting
    /\ Refuse
    /\ Fail("submission_unknown", current)
    /\ EndConfirm
    /\ UNCHANGED <<memoryVars, diskVars>>

FirstRejected ==
    /\ step = "reply"
    /\ ~resubmitting
    /\ Refuse
    /\ GoTo("query")
    /\ UNCHANGED <<phaseVars, memoryVars, diskVars>>

-----------------------------------------------------------------------------
(* The provider's answers to a status query *)

Answers(t) ==
    {"unavailable"} \cup
        IF t \in mined THEN {"confirmed"}
        ELSE IF t \in live THEN {"pending", "notfound"} ELSE {"notfound"}

\* Right after rejecting the first submission of t, the provider knows whether
\* it keeps t: this is what the code trusts.
AnswersAfterRejection(t) ==
    IF first /\ t \in live THEN Answers(t) \ {"notfound"} ELSE Answers(t)

QueryFinds(answer) ==
    /\ step = "query"
    /\ answer \in AnswersAfterRejection(current)
    /\ \/ answer = "pending" /\ EnterSubmitted(current, 0)
       \/ answer = "confirmed" /\ EnterConfirmed(current)
       \/ answer = "unavailable" /\ Fail("submission_unknown", current)
    /\ EndConfirm
    /\ UNCHANGED <<memoryVars, diskVars, netVars>>

\* FAULT: an unanswered query counts as "not found".
QueryFindsNothingOrFails ==
    /\ step = "query"
    /\ GoTo("reject")
    /\ UNCHANGED <<phaseVars, memoryVars, diskVars, netVars>>

QueryFindsNothing ==
    /\ step = "query"
    /\ "notfound" \in AnswersAfterRejection(current)
    /\ GoTo("reject")
    /\ UNCHANGED <<phaseVars, memoryVars, diskVars, netVars>>

WriteRejection ==
    /\ step = "reject"
    /\ WriteDurably(RejectedMarker(current))
    /\ Fail("submission_rejected", None)
    /\ memoryMarker' = None
    /\ EndConfirm
    /\ UNCHANGED <<submittedTo, recoveryMisses, netVars>>

\* The safer pending guard stays in place.
WriteRejectionFails ==
    /\ step = "reject"
    /\ WriteFails(RejectedMarker(current))
    /\ Fail("submission_unknown", current)
    /\ EndConfirm
    /\ UNCHANGED <<memoryVars, netVars>>

-----------------------------------------------------------------------------
(* poll: every 60 seconds, whatever the owner does *)

\* FAULT: a prepared retry is not polled.
WatchedUnlessPrepared ==
    IF phase \in {"Submitted", "Confirmed"} THEN current
    ELSE IF phase = "Prepared" THEN None ELSE pending

Watched == IF phase \in {"Submitted", "Confirmed"} THEN current ELSE pending

PollConfirmed ==
    /\ EnterConfirmed(Watched)
    /\ recoveryMisses' = 0

PollPending ==
    /\ EnterSubmitted(Watched, 0)
    /\ recoveryMisses' = 0

\* Not found in the two phases of a submission that was answered: misses is 0 in Confirmed.
PollMissesSubmission ==
    /\ phase \in {"Submitted", "Confirmed"}
    /\ IF misses + 1 >= MaxNotFound
       THEN Fail("submission_not_found", Watched)
       ELSE EnterSubmitted(Watched, misses + 1)
    /\ UNCHANGED recoveryMisses

\* FAULT: only answered submissions are counted.
PollMissesRecoveryUncounted ==
    phase \in {"AwaitingOwner", "Failed"} /\ UNCHANGED <<phaseVars, recoveryMisses>>

\* Not found while a guard is pending; a prepared retry stays usable.
PollMissesRecovery ==
    LET next == IF recoveryMisses < MaxNotFound THEN recoveryMisses + 1 ELSE MaxNotFound
    IN  /\ phase \in {"AwaitingOwner", "Failed"}
        /\ recoveryMisses' = next
        /\ IF next >= MaxNotFound THEN Fail("submission_not_found", Watched)
           ELSE UNCHANGED phaseVars

Poll(answer) ==
    /\ step = "ready"
    /\ Watched # None
    /\ answer \in Answers(Watched)
    /\ \/ answer = "confirmed" /\ PollConfirmed
       \/ answer = "pending" /\ PollPending
       \/ answer = "notfound" /\ (PollMissesSubmission \/ PollMissesRecovery)
    /\ UNCHANGED <<memoryMarker, submittedTo, diskVars, opVars, netVars>>

-----------------------------------------------------------------------------
(* The network: a live transaction is mined, or its block is reorganized away. *)

Mine ==
    /\ \E t \in live \ mined : mined' = mined \cup {t}
    /\ UNCHANGED <<phaseVars, memoryVars, diskVars, opVars, live>>

Reorganize ==
    /\ mined # {}
    /\ mined' = {}
    /\ UNCHANGED <<phaseVars, memoryVars, diskVars, opVars, live>>

-----------------------------------------------------------------------------

OwnerActs ==
    \/ PrepareFails
    \/ \E dest \in Destinations, floor \in Floors, coins \in SUBSET Utxos :
          \/ \E readable \in BOOLEAN : Prepare(dest, floor, coins, readable)
          \/ \E t \in Tx : ConfirmWithdraws(dest, t, floor, coins)
          \/ \E t \in Tx : ConfirmRebuilds(dest, t, floor, coins)

ConfirmSteps ==
    \/ WriteMarker \/ WriteMarkerFails
    \/ Send
    \/ SubmitAccepted \/ SubmitAmbiguous \/ RetryRejected \/ FirstRejected
    \/ \E answer \in {"pending", "confirmed", "unavailable"} : QueryFinds(answer)
    \/ QueryFindsNothing
    \/ WriteRejection \/ WriteRejectionFails

PollThread == \E answer \in {"confirmed", "pending", "notfound"} : Poll(answer)

Environment == Kill \/ PowerLoss \/ Mine \/ Reorganize

Next ==
    \/ \E readable \in BOOLEAN : Start(readable)
    \/ OwnerActs
    \/ ConfirmSteps
    \/ PollThread
    \/ Environment

Spec == Init /\ [][Next]_vars

-----------------------------------------------------------------------------
(* Safety *)

\* At most one transaction is ever outstanding: whatever crashes, retries,
\* failed reads and undone renames happen between confirm and poll, no second
\* transaction is sent while the network may still accept an earlier one.
SingleLive == \A s, t \in live : s = t

\* A transaction the network may accept is guarded on disk by its own pending
\* marker, in every content a power loss may leave (write before the first
\* outbound byte; only a proven rejection lifts it).
DurableGuard == \A t \in live : \A m \in survivors : IsPending(m) /\ m.tx = t

\* What a running service guards in memory is what its poll thread asks about, whatever
\* prepares fail, previews are withdrawn and confirms end in between.  A start that cannot
\* read the marker guards nothing in memory and is not covered: it watches nothing.
WatchedGuard == step = "ready" /\ memoryMarker # None => Watched = memoryMarker.tx

\* What the owner is told of a submission is true: a repeated confirm answers with
\* a receipt only for the transaction that is out, and only to the address it pays,
\* also after a restart; and "rejected", after which address and fee may change, is
\* said only when nothing is out.
OwnerIsToldTheTruth ==
    /\ \A dest \in Destinations, t \in Tx :
         DuplicateReceipt(dest, t) => live = {t} /\ t.dest = dest
    /\ reason = "submission_rejected" => live = {}

-----------------------------------------------------------------------------
(* Action properties *)

\* A byte leaves only for the exact preview the owner confirmed in the confirm
\* that is running: neither prepare, nor poll, nor a restart sends anything.
OnlyConfirmedPreviewIsSent ==
    [][\A t \in live' \ live : asked # None /\ t = asked.tx /\ t.dest = asked.dest]_vars

-----------------------------------------------------------------------------
(* The service implements the write-ahead claim of OneClaim: what is out is    *)
(* what the network may accept, what is guarded are the pending transactions   *)
(* a restart can find.                                                         *)

Guarded == {t \in Tx : \E m \in survivors : IsPending(m) /\ m.tx = t}
Bare == \E m \in survivors : ~IsPending(m)

Abstract == INSTANCE OneClaim WITH out <- live, guard <- Guarded, bare <- Bare

\* Every start, crash, retry and undone rename of the service is a step of OneClaim, or none.
ImplementsOneClaim == Abstract!Spec

-----------------------------------------------------------------------------
(* Liveness.  A confirm runs on under its mutex; the poll thread, which waits *)
(* for that mutex, gets it and an answer again and again.                     *)

Fairness == WF_vars(ConfirmSteps) /\ SF_vars(PollThread)

FairSpec == Spec /\ Fairness

\* A guarded transaction that is mined for good is reported as confirmed, and
\* stays so, also when the owner keeps preparing and confirming meanwhile; one the
\* network never shows is reported as missing, unless a prepared retry keeps the
\* owner's screen.
OutcomeIsReported ==
    /\ <>[](step # "down" /\ memoryMarker # None /\ memoryMarker.tx \in mined)
         => <>[](phase = "Confirmed" /\ current \in mined)
    /\ <>[](step = "ready" /\ phase # "Prepared" /\ Watched # None /\ live = {})
         => <>(reason = "submission_not_found")

=============================================================================
