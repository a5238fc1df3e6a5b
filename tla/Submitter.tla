------------------------------ MODULE Submitter ------------------------------
(***************************************************************************)
(* What the claim service is told by those it submits its transaction to,   *)
(* and what is the case there.  A peer takes a transaction or refuses it,    *)
(* knows it, forgets it, or sees it mined; a request that nobody waits for   *)
(* any more may still arrive.                                               *)
(***************************************************************************)
EXTENDS Integers

CONSTANTS
    Txs,        \* transactions
    Heights,    \* heights of blocks
    MaxRate,    \* u64::MAX
    None

VARIABLES
    call,       \* the call of the service that is running or was the last, or None
    outcome,    \* what it returns, or None
    submitted,  \* transactions that have left the machine
    known,      \* those the peer has taken
    mined,      \* transaction -> height of its block, or None
    decision    \* history: what the peer has decided or knew for this call, or None

worldVars == <<submitted, known, mined>>
submitterVars == <<call, outcome, worldVars, decision>>

SubmitterInit ==
    /\ call = None
    /\ outcome = None
    /\ submitted = {}
    /\ known = {}
    /\ mined = [t \in Txs |-> None]
    /\ decision = None

\* One call at a time: the service is behind a mutex.
Begin(c) ==
    /\ call = None \/ outcome # None
    /\ call' = c
    /\ outcome' = None
    /\ decision' = None

Return(result) ==
    /\ call # None /\ outcome = None
    /\ outcome' = result

\* The state of a transaction as its peer sees it.
Seen(t) ==
    CASE mined[t] # None -> <<"confirmed", mined[t]>>
      [] mined[t] = None /\ t \in known -> <<"pending">>
      [] OTHER -> <<"unknown">>

ArrivesLate(t) ==
    /\ t \in submitted \ known
    /\ known' = known \cup {t}
    /\ UNCHANGED <<call, outcome, submitted, mined, decision>>

IsMined(t, h) ==
    /\ t \in known
    /\ mined[t] = None
    /\ mined' = [mined EXCEPT ![t] = h]
    /\ UNCHANGED <<call, outcome, submitted, known, decision>>

Forgets(t) ==
    /\ t \in known
    /\ mined[t] = None
    /\ known' = known \ {t}
    /\ UNCHANGED <<call, outcome, submitted, mined, decision>>

World == \E t \in Txs : ArrivesLate(t) \/ Forgets(t) \/ \E h \in Heights : IsMined(t, h)

-----------------------------------------------------------------------------

\* The service acts on what it is told, so a definite outcome is one that the peer has
\* decided for this very call: a receipt for a transaction it has taken, a rejection for
\* one it has refused (or, the node of the rehearsal, has in a block already), a status or
\* the outputs that it saw.  Whatever may have been sent and is not answered like that is
\* ambiguous.
OutcomeIsEarned ==
    outcome # None =>
      CASE outcome.kind = "receipt" -> call.op = "submit" /\ decision = <<"taken">>
        [] outcome.kind = "rejected" -> call.op = "submit" /\ decision \in {<<"refused">>, <<"in chain">>}
        [] outcome.kind = "status" -> call.op = "status" /\ decision = outcome.seen
        [] outcome.kind = "coins" -> call.op = "coins" /\ decision = <<"listed", outcome.coins>>
        [] outcome.kind = "sent" -> call.op = "alert" /\ decision = <<"taken">>
        [] OTHER -> TRUE

\* The fee floor is the least whole rate that no quoted rate exceeds, or the largest there
\* is.  Rates are quoted in halves of a unit.
FloorIsEnough ==
    outcome # None /\ outcome.kind = "floor" =>
      /\ decision[1] = "quoted"
      /\ outcome.rate = MaxRate \/ \A r \in decision[2] : r <= 2 * outcome.rate
      /\ \E r \in decision[2] : r > 2 * (outcome.rate - 1)
=============================================================================
