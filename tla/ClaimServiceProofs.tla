------------------------- MODULE ClaimServiceProofs -------------------------
(***************************************************************************)
(* For every set of addresses, coins and fee floors: the claim service is  *)
(* type correct, keeps at most one transaction outstanding, guards it      *)
(* durably on disk, sends only what the owner confirmed, and implements    *)
(* the write-ahead claim of module OneClaim.                               *)
(***************************************************************************)
EXTENDS ClaimService, TLAPS

-----------------------------------------------------------------------------
(* Lemmas about the data *)

\* A transaction rebuilt for a known address and rate is a transaction.
LEMMA RebuildType ==
    ASSUME NEW m \in Marker \cup {None}, NEW coins \in SUBSET Utxos,
           NEW dest \in Destinations, NEW rate \in Rates
    PROVE  Rebuild(m, coins, dest, rate) \in Tx
<1>1. RetryPrevouts(m, coins) \in SUBSET Utxos
  BY ClaimAssumption DEF RetryPrevouts, Marker, Tx
<1>2. Economic[rate] \in SUBSET Utxos
  BY ClaimAssumption
<1>. QED
  BY <1>1, <1>2 DEF Rebuild, Tx

\* The fee rate of a preview is a rate as soon as it passes the upper bound.
LEMMA FeeRateType ==
    ASSUME NEW m \in Marker \cup {None}, NEW floor \in Floors,
           FeeRate(m, floor) <= MaxRate
    PROVE  FeeRate(m, floor) \in Rates
<1>1. CASE m # None
  <2>1. m.tx.rate \in Rates
    BY <1>1 DEF Marker, Tx
  <2>. QED
    BY <1>1, <2>1 DEF FeeRate
<1>2. CASE m = None
  <2>1. floor \in Nat /\ DefaultRate \in Nat /\ MaxRate \in Nat
    BY ClaimAssumption
  <2>2. FeeRate(m, floor) = IF floor > DefaultRate THEN floor ELSE DefaultRate
    BY <1>2 DEF FeeRate
  <2>. QED
    BY <2>1, <2>2 DEF Rates
<1>. QED
  BY <1>1, <1>2

\* The markers confirm writes are markers, and they are not None.
LEMMA MarkerType ==
    ASSUME NEW t \in Tx
    PROVE  /\ PendingMarker(t) \in Marker
           /\ RejectedMarker(t) \in Marker
           /\ IsPending(PendingMarker(t))
           /\ PendingMarker(t).tx = t
           /\ PendingMarker(t) # None
<1>1. PendingMarker(t) \in Marker /\ RejectedMarker(t) \in Marker
  BY DEF PendingMarker, RejectedMarker, Marker
<1>2. PendingMarker(t) # None
  BY <1>1, ClaimAssumption
<1>. QED
  BY <1>1, <1>2 DEF PendingMarker, IsPending

-----------------------------------------------------------------------------
(* Type correctness.  A confirm past its checks holds a transaction, and it  *)
(* is the one on the owner's screen.                                         *)

Running == step \notin {"down", "ready"}

Confirming ==
    Running =>
        /\ phase = "Prepared"
        /\ current \in Tx
        /\ claim = current
        /\ asked \in Request
        /\ asked.tx = claim
        /\ asked.dest = claim.dest

Prepared == phase = "Prepared" => current \in Tx

TypeInv == TypeOK /\ Confirming /\ Prepared

\* The initial states, with or without a marker of an older version, are typed.
THEOREM TypeInit == Init => TypeInv
<1>. SUFFICES ASSUME Init PROVE TypeInv
  OBVIOUS
<1>1. disk \in Marker \cup {None}
  BY DEF Init, OldMarker, Marker
<1>2. live \subseteq Tx
  BY <1>1 DEF Init, IsPending, Marker
<1>3. 0 \in 0 .. MaxNotFound /\ 0 \in 0 .. MaxNotFound - 1
  BY ClaimAssumption
<1>. QED
  BY <1>1, <1>2, <1>3 DEF Init, TypeInv, TypeOK, Confirming, Prepared, Running,
     Phases, Reasons, Steps

\* Every step preserves the types.
THEOREM TypeStep == TypeInv /\ [Next]_vars => TypeInv'
<1>. SUFFICES ASSUME TypeInv, [Next]_vars PROVE TypeInv'
  OBVIOUS
<1>. USE DEF TypeInv, TypeOK, Prepared, Confirming, Running
<1>a. /\ 0 \in 0 .. MaxNotFound /\ MaxNotFound \in 0 .. MaxNotFound
      /\ 0 \in 0 .. MaxNotFound - 1
  BY ClaimAssumption
<1>b. DefaultRate \in Nat /\ MaxRate \in Nat /\ MaxNotFound \in Nat /\ None \notin Tx
  BY ClaimAssumption
<1>1. ASSUME NEW readable \in BOOLEAN, Start(readable) PROVE TypeInv'
  <2>1. disk \in Marker /\ IsPending(disk) => disk.tx \in Tx /\ disk.tx.dest \in Destinations
    BY DEF Marker, Tx
  <2>. QED
    BY <1>1, <1>a, <2>1 DEF Start, Fail, AwaitOwner, Enter, GoTo, Phases, Reasons, Steps,
       memoryVars, diskVars, netVars, IsPending
<1>2. CASE PrepareFails
  BY <1>2, <1>a DEF PrepareFails, Preparable, AwaitOwner, Enter, Phases, Reasons,
     memoryVars, diskVars, opVars, netVars
<1>3. ASSUME NEW dest \in Destinations, NEW floor \in Floors, NEW coins \in SUBSET Utxos,
             NEW readable \in BOOLEAN, Prepare(dest, floor, coins, readable)
      PROVE  TypeInv'
  <2>. DEFINE marker == RecoveryMarker(readable)
              built == Rebuild(marker, coins, dest, FeeRate(marker, floor))
  <2>1. marker \in Marker \cup {None}
    BY DEF RecoveryMarker
  <2>2. built \in Tx
    BY <1>3, <2>1, FeeRateType, RebuildType DEF Prepare
  <2>. QED
    BY <1>3, <1>a, <2>2 DEF Prepare, Preparable, EnterPrepared, Enter, Phases, Reasons,
       memoryVars, diskVars, opVars, netVars
<1>4. ASSUME NEW dest \in Destinations, NEW floor \in Floors, NEW coins \in SUBSET Utxos,
             NEW t \in Tx, ConfirmWithdraws(dest, t, floor, coins)
      PROVE  TypeInv'
  BY <1>4, <1>a DEF ConfirmWithdraws, Confirmable, AwaitOwner, Enter, Phases, Reasons,
     memoryVars, diskVars, opVars, netVars
<1>5. ASSUME NEW dest \in Destinations, NEW floor \in Floors, NEW coins \in SUBSET Utxos,
             NEW t \in Tx, ConfirmRebuilds(dest, t, floor, coins)
      PROVE  TypeInv'
  BY <1>5 DEF ConfirmRebuilds, Confirmable, Unchanged, Request, Steps, phaseVars, memoryVars,
     diskVars, netVars
<1>6. CASE WriteMarker
  <2>1. PendingMarker(current) \in Marker /\ current.dest \in Destinations
    BY <1>6, MarkerType DEF WriteMarker, Tx
  <2>. QED
    BY <1>6, <2>1 DEF WriteMarker, WriteDurably, GoTo, Steps, phaseVars, netVars
<1>7. CASE WriteMarkerFails
  <2>1. PendingMarker(current) \in Marker
    BY <1>7, MarkerType DEF WriteMarkerFails
  <2>. QED
    BY <1>7, <2>1 DEF WriteMarkerFails, WriteFails, EndConfirm, Steps, phaseVars,
       memoryVars, diskVars, netVars
<1>8. CASE Send
  BY <1>8 DEF Send, Steps, phaseVars, memoryVars, diskVars
<1>9. CASE SubmitAccepted
  BY <1>9, <1>a DEF SubmitAccepted, EnterSubmitted, Enter, EndConfirm, Phases, Reasons,
     Steps, memoryVars, diskVars, netVars
<1>10. CASE SubmitAmbiguous
  BY <1>10, <1>a DEF SubmitAmbiguous, Fail, Enter, EndConfirm, Phases, Reasons, Steps,
     memoryVars, diskVars, netVars
<1>11. CASE RetryRejected
  BY <1>11, <1>a DEF RetryRejected, Refuse, Fail, Enter, EndConfirm, Phases, Reasons,
     Steps, memoryVars, diskVars
<1>12. CASE FirstRejected
  BY <1>12 DEF FirstRejected, Refuse, GoTo, Steps, phaseVars, memoryVars, diskVars
<1>13. ASSUME NEW answer, QueryFinds(answer) PROVE TypeInv'
  BY <1>13, <1>a DEF QueryFinds, EnterSubmitted, EnterConfirmed, Fail, Enter, EndConfirm,
     Phases, Reasons, Steps, memoryVars, diskVars, netVars
<1>14. CASE QueryFindsNothing
  BY <1>14 DEF QueryFindsNothing, GoTo, Steps, phaseVars, memoryVars, diskVars, netVars
<1>15. CASE WriteRejection
  <2>1. RejectedMarker(current) \in Marker
    BY <1>15, MarkerType DEF WriteRejection
  <2>. QED
    BY <1>15, <1>a, <2>1 DEF WriteRejection, WriteDurably, Fail, Enter, EndConfirm, Phases,
       Reasons, Steps, netVars
<1>16. CASE WriteRejectionFails
  <2>1. RejectedMarker(current) \in Marker
    BY <1>16, MarkerType DEF WriteRejectionFails
  <2>. QED
    BY <1>16, <1>a, <2>1 DEF WriteRejectionFails, WriteFails, Fail, Enter, EndConfirm,
       Phases, Reasons, Steps, memoryVars, diskVars, netVars
<1>17. ASSUME NEW answer, Poll(answer) PROVE TypeInv'
  <2>1. Watched \in Tx
    BY <1>17 DEF Poll, Watched
  <2>2. ~(misses + 1 >= MaxNotFound) => misses + 1 \in 0 .. MaxNotFound - 1
    BY <1>b
  <2>3. recoveryMisses < MaxNotFound => recoveryMisses + 1 \in 0 .. MaxNotFound
    BY <1>b
  <2>4. CASE PollConfirmed
    BY <1>17, <1>a, <2>1, <2>4 DEF Poll, PollConfirmed, EnterConfirmed, Enter, Phases,
       Reasons, diskVars, opVars, netVars
  <2>5. CASE PollPending
    BY <1>17, <1>a, <2>1, <2>5 DEF Poll, PollPending, EnterSubmitted, Enter, Phases,
       Reasons, diskVars, opVars, netVars
  <2>6. CASE PollMissesSubmission
    BY <1>17, <1>a, <1>b, <2>1, <2>2, <2>6 DEF Poll, PollMissesSubmission, EnterSubmitted,
       Fail, Enter, Phases, Reasons, diskVars, opVars, netVars
  <2>7. CASE PollMissesRecovery
    BY <1>17, <1>a, <2>1, <2>3, <2>7 DEF Poll, PollMissesRecovery, Fail, Enter, Phases,
       Reasons, phaseVars, diskVars, opVars, netVars
  <2>. QED
    BY <1>17, <2>4, <2>5, <2>6, <2>7 DEF Poll
<1>18. CASE StopProcess /\ (UNCHANGED diskVars \/ (\E kept \in survivors : disk' = kept /\ survivors' = {kept}))
  BY <1>18, <1>a DEF StopProcess, Enter, Phases, Reasons, Steps, diskVars, netVars
<1>19. CASE Mine
  BY <1>19 DEF Mine, phaseVars, memoryVars, diskVars, opVars
<1>20. CASE Reorganize
  BY <1>20 DEF Reorganize, phaseVars, memoryVars, diskVars, opVars
<1>21. CASE UNCHANGED vars
  BY <1>21 DEF vars, phaseVars, memoryVars, diskVars, opVars, netVars
<1>. QED
  BY <1>1, <1>2, <1>3, <1>4, <1>5, <1>6, <1>7, <1>8, <1>9, <1>10, <1>11, <1>12, <1>13, <1>14,
     <1>15, <1>16, <1>17, <1>18, <1>19, <1>20, <1>21
     DEF Next, OwnerActs, ConfirmSteps, PollThread, Environment, Kill, PowerLoss

\* Type correctness of the claim service.
THEOREM TypeCorrect == Spec => []TypeInv
  BY TypeInit, TypeStep, PTL DEF Spec

-----------------------------------------------------------------------------
(* Safety.  The check of the marker against the transaction is what holds the *)
(* argument together: the file confirm reads is one of the contents a power   *)
(* loss may leave, and while something is out all of them name it.  So past   *)
(* the checks nothing but the claim itself can be out, and once the marker is *)
(* durable every content names the claim.                                     *)

\* What is known at each step of a confirm.
Steered ==
    /\ Running => live \subseteq {claim}
    /\ step \in {"send", "reply", "query"} => survivors = {PendingMarker(claim)}
    /\ step \in {"write", "send"} /\ ~resubmitting => live = {}
    /\ step \in {"reply", "query"} /\ ~resubmitting => first
    /\ step \in {"query", "reject"} => ~resubmitting
    /\ step = "reject" => live = {}

SafeInv ==
    /\ TypeInv
    /\ disk \in survivors
    /\ SingleLive
    /\ DurableGuard
    /\ Steered

\* A start finds at most one transaction out, the one its marker names.
THEOREM SafeInit == Init => SafeInv
<1>. SUFFICES ASSUME Init PROVE SafeInv
  OBVIOUS
<1>1. TypeInv
  BY TypeInit
<1>2. SingleLive /\ DurableGuard /\ disk \in survivors
  BY DEF Init, SingleLive, DurableGuard, IsPending
<1>3. Steered
  BY DEF Init, Steered, Running
<1>. QED
  BY <1>1, <1>2, <1>3 DEF SafeInv

\* Every step keeps the outstanding transaction alone and guarded.
THEOREM SafeStep == SafeInv /\ [Next]_vars => SafeInv'
<1>. SUFFICES ASSUME SafeInv, [Next]_vars PROVE SafeInv'
  OBVIOUS
<1>t. TypeInv /\ TypeInv'
  BY TypeStep DEF SafeInv
<1>. USE DEF SafeInv, SingleLive, DurableGuard, Steered, Running
<1>1. ASSUME NEW readable \in BOOLEAN, Start(readable) PROVE SafeInv'
  BY <1>1, <1>t DEF Start, GoTo, diskVars, netVars
<1>2. CASE PrepareFails
  BY <1>2, <1>t DEF PrepareFails, Preparable, diskVars, opVars, netVars
<1>3. ASSUME NEW dest, NEW floor, NEW coins, NEW readable,
             Prepare(dest, floor, coins, readable)
      PROVE  SafeInv'
  BY <1>3, <1>t DEF Prepare, Preparable, diskVars, opVars, netVars
<1>4. ASSUME NEW dest, NEW floor, NEW coins, NEW t, ConfirmWithdraws(dest, t, floor, coins)
      PROVE  SafeInv'
  BY <1>4, <1>t DEF ConfirmWithdraws, Confirmable, diskVars, opVars, netVars
<1>5. ASSUME NEW dest, NEW floor, NEW coins, NEW t, ConfirmRebuilds(dest, t, floor, coins)
      PROVE  SafeInv'
  <2>1. claim' = t
    BY <1>5 DEF ConfirmRebuilds, Confirmable, Unchanged
  <2>2. live # {} => IsPending(disk) /\ live = {disk.tx}
    BY DEF SafeInv
  <2>3. live \subseteq {t}
    BY <1>5, <2>2 DEF ConfirmRebuilds, Confirmable, NoOtherPending
  <2>4. live # {} => resubmitting'
    BY <1>5, <2>2 DEF ConfirmRebuilds, Confirmable, NoOtherPending
  <2>. QED
    BY <1>5, <1>t, <2>1, <2>3, <2>4 DEF ConfirmRebuilds, diskVars, netVars
<1>6. CASE WriteMarker
  <2>1. current = claim /\ claim \in Tx
    BY <1>6, <1>t DEF WriteMarker, TypeInv, Confirming
  <2>2. IsPending(PendingMarker(claim)) /\ PendingMarker(claim).tx = claim
    BY <2>1, MarkerType
  <2>. QED
    BY <1>6, <1>t, <2>1, <2>2 DEF WriteMarker, WriteDurably, GoTo, netVars
<1>7. CASE WriteMarkerFails
  <2>1. current = claim /\ claim \in Tx
    BY <1>7, <1>t DEF WriteMarkerFails, TypeInv, Confirming
  <2>2. IsPending(PendingMarker(claim)) /\ PendingMarker(claim).tx = claim
    BY <2>1, MarkerType
  <2>. QED
    BY <1>7, <1>t, <2>1, <2>2 DEF WriteMarkerFails, WriteFails, EndConfirm, diskVars, netVars
<1>8. CASE Send
  <2>1. claim \in Tx
    BY <1>8, <1>t DEF Send, TypeInv, Confirming
  <2>2. IsPending(PendingMarker(claim)) /\ PendingMarker(claim).tx = claim
    BY <2>1, MarkerType
  <2>. QED
    BY <1>8, <1>t, <2>2 DEF Send, diskVars
<1>9. CASE SubmitAccepted
  BY <1>9, <1>t DEF SubmitAccepted, EndConfirm, diskVars, netVars
<1>10. CASE SubmitAmbiguous
  BY <1>10, <1>t DEF SubmitAmbiguous, EndConfirm, diskVars, netVars
<1>11. CASE RetryRejected
  BY <1>11, <1>t DEF RetryRejected, Refuse, EndConfirm, diskVars
<1>12. CASE FirstRejected
  BY <1>12, <1>t DEF FirstRejected, Refuse, GoTo, diskVars
<1>13. ASSUME NEW answer, QueryFinds(answer) PROVE SafeInv'
  BY <1>13, <1>t DEF QueryFinds, EndConfirm, diskVars, netVars
<1>14. CASE QueryFindsNothing
  <2>1. current = claim
    BY <1>14, <1>t DEF QueryFindsNothing, TypeInv, Confirming
  <2>2. first
    BY <1>14 DEF QueryFindsNothing
  <2>3. claim \notin live
    BY <1>14, <2>1, <2>2 DEF QueryFindsNothing, AnswersAfterRejection
  <2>. QED
    BY <1>14, <1>t, <2>3 DEF QueryFindsNothing, GoTo, diskVars, netVars
<1>15. CASE WriteRejection
  BY <1>15, <1>t DEF WriteRejection, WriteDurably, EndConfirm, netVars
<1>16. CASE WriteRejectionFails
  BY <1>16, <1>t DEF WriteRejectionFails, WriteFails, EndConfirm, diskVars, netVars
<1>17. ASSUME NEW answer, Poll(answer) PROVE SafeInv'
  BY <1>17, <1>t DEF Poll, diskVars, opVars, netVars
<1>18. CASE Kill
  BY <1>18, <1>t DEF Kill, StopProcess, diskVars, netVars
<1>19. CASE PowerLoss
  BY <1>19, <1>t DEF PowerLoss, StopProcess, netVars
<1>20. CASE Mine
  BY <1>20, <1>t DEF Mine, diskVars, opVars
<1>21. CASE Reorganize
  BY <1>21, <1>t DEF Reorganize, diskVars, opVars
<1>22. CASE UNCHANGED vars
  BY <1>22, <1>t DEF vars, diskVars, opVars, netVars
<1>. QED
  BY <1>1, <1>2, <1>3, <1>4, <1>5, <1>6, <1>7, <1>8, <1>9, <1>10, <1>11, <1>12, <1>13, <1>14,
     <1>15, <1>16, <1>17, <1>18, <1>19, <1>20, <1>21, <1>22
     DEF Next, OwnerActs, ConfirmSteps, PollThread, Environment

\* The inductive invariant holds of every reachable state.
THEOREM Safe == Spec => []SafeInv
  BY SafeInit, SafeStep, PTL DEF Spec

\* Never two transactions outstanding, across crashes, power losses and retries.
THEOREM OneTransactionOut == Spec => []SingleLive
<1>1. SafeInv => SingleLive
  BY DEF SafeInv
<1>. QED
  BY <1>1, Safe, PTL

\* What is out is guarded by its own pending marker in every content of the
\* marker file that a power loss may leave.
THEOREM OutIsGuarded == Spec => []DurableGuard
<1>1. SafeInv => DurableGuard
  BY DEF SafeInv
<1>. QED
  BY <1>1, Safe, PTL

\* Only these steps change what is out.
LEMMA OtherStepsAreQuiet ==
  Next => Send \/ RetryRejected \/ FirstRejected \/ UNCHANGED live
<1>1. (\E readable \in BOOLEAN : Start(readable)) => UNCHANGED live
  BY DEF Start, netVars
<1>2. OwnerActs => UNCHANGED live
  <2>1. PrepareFails => UNCHANGED live
    BY DEF PrepareFails, netVars
  <2>2. \A dest, floor, coins, readable :
          Prepare(dest, floor, coins, readable) => UNCHANGED live
    BY DEF Prepare, netVars
  <2>3. \A dest, u, floor, coins : ConfirmWithdraws(dest, u, floor, coins) => UNCHANGED live
    BY DEF ConfirmWithdraws, netVars
  <2>4. \A dest, u, floor, coins : ConfirmRebuilds(dest, u, floor, coins) => UNCHANGED live
    BY DEF ConfirmRebuilds, netVars
  <2>. QED
    BY <2>1, <2>2, <2>3, <2>4 DEF OwnerActs
<1>3. ConfirmSteps => Send \/ RetryRejected \/ FirstRejected \/ UNCHANGED live
  BY DEF ConfirmSteps, WriteMarker, WriteMarkerFails, SubmitAccepted, SubmitAmbiguous,
     QueryFinds, QueryFindsNothing, WriteRejection, WriteRejectionFails, netVars
<1>4. PollThread => UNCHANGED live
  BY DEF PollThread, Poll, netVars
<1>5. Environment => UNCHANGED live
  BY DEF Environment, Kill, PowerLoss, StopProcess, Mine, Reorganize, netVars
<1>. QED
  BY <1>1, <1>2, <1>3, <1>4, <1>5 DEF Next

\* Only the preview the owner confirmed is ever sent.
THEOREM OnlyPreviewsAreSent == Spec => OnlyConfirmedPreviewIsSent
<1>1. SafeInv /\ [Next]_vars =>
        [\A t \in live' \ live : asked # None /\ t = asked.tx /\ t.dest = asked.dest]_vars
  <2>. SUFFICES ASSUME SafeInv, Next, NEW t \in live' \ live
                PROVE  asked # None /\ t = asked.tx /\ t.dest = asked.dest
    OBVIOUS
  <2>1. Send
    BY OtherStepsAreQuiet DEF RetryRejected, FirstRejected, Refuse
  <2>2. t = claim /\ Running
    BY <2>1 DEF Send, Running
  <2>3. asked \in Request /\ asked.tx = claim /\ asked.dest = claim.dest
    BY <2>2 DEF SafeInv, TypeInv, Confirming
  <2>4. asked # None
    BY <2>3, ClaimAssumption
  <2>. QED
    BY <2>2, <2>3, <2>4
<1>. QED
  BY <1>1, Safe, PTL DEF Spec, OnlyConfirmedPreviewIsSent

-----------------------------------------------------------------------------
(* What memory keeps, and what the owner is told.  From the durable marker to *)
(* the outcome, the marker, the guard and the address in memory are those of  *)
(* the claim that is running; so whatever the answer, the guard it leaves is  *)
(* the one the poll thread asks about.                                        *)

Sending == step \in {"send", "reply", "query", "reject"}

MemoryIsClaim ==
    /\ step = "down" => memoryMarker = None /\ pending = None
    /\ step \in {"ready", "write"} /\ memoryMarker # None => Watched = memoryMarker.tx
    /\ Sending => memoryMarker = PendingMarker(claim) /\ submittedTo = claim.dest
    /\ pending # None => submittedTo = pending.dest /\ (Running => pending = claim)

ReceiptIsTrue ==
    /\ mined \subseteq live
    /\ step = "reply" => claim \in live
    /\ step = "ready" /\ phase \in {"Submitted", "Confirmed"} =>
         current \in Tx /\ live = {current} /\ submittedTo = current.dest
    /\ reason = "submission_rejected" => phase = "Failed" /\ live = {}

OwnerInv == MemoryIsClaim /\ ReceiptIsTrue

\* What the provider says of a transaction shows that it is out.
LEMMA AnswerShowsLive ==
    ASSUME SafeInv, OwnerInv, NEW t, "pending" \in Answers(t) \/ "confirmed" \in Answers(t)
    PROVE  live = {t} /\ t \in Tx
<1>1. t \in live
  BY DEF Answers, OwnerInv, ReceiptIsTrue
<1>. QED
  BY <1>1 DEF SafeInv, SingleLive, TypeInv, TypeOK

\* Every step keeps what memory guards, and what the owner is told, true.
THEOREM OwnerStep == SafeInv /\ OwnerInv /\ [Next]_vars => OwnerInv'
<1>. SUFFICES ASSUME SafeInv, OwnerInv, [Next]_vars PROVE OwnerInv'
  OBVIOUS
<1>t. TypeInv /\ Confirming /\ Steered /\ None \notin Tx /\ None \notin Marker
  BY ClaimAssumption DEF SafeInv, TypeInv
<1>. USE DEF OwnerInv, MemoryIsClaim, ReceiptIsTrue, Sending, Running, Confirming, Watched
<1>1. ASSUME NEW readable \in BOOLEAN, Start(readable) PROVE OwnerInv'
  BY <1>1, <1>t DEF Start, GoTo, Fail, AwaitOwner, Enter, memoryVars, diskVars, netVars
<1>2. CASE PrepareFails
  BY <1>2, <1>t DEF PrepareFails, Preparable, AwaitOwner, Enter, memoryVars, diskVars, opVars,
     netVars
<1>3. ASSUME NEW dest, NEW floor, NEW coins, NEW readable,
             Prepare(dest, floor, coins, readable)
      PROVE  OwnerInv'
  BY <1>3, <1>t DEF Prepare, Preparable, EnterPrepared, Enter, memoryVars, diskVars, opVars,
     netVars
<1>4. ASSUME NEW dest, NEW floor, NEW coins, NEW t, ConfirmWithdraws(dest, t, floor, coins)
      PROVE  OwnerInv'
  BY <1>4, <1>t DEF ConfirmWithdraws, Confirmable, AwaitOwner, Enter, memoryVars, diskVars,
     opVars, netVars
<1>5. ASSUME NEW dest, NEW floor, NEW coins, NEW t, ConfirmRebuilds(dest, t, floor, coins)
      PROVE  OwnerInv'
  BY <1>5, <1>t DEF ConfirmRebuilds, Confirmable, Unchanged, NoOtherPending, phaseVars,
     memoryVars, diskVars, netVars
<1>6. CASE WriteMarker
  BY <1>6, <1>t DEF WriteMarker, GoTo, phaseVars, netVars
<1>7. CASE WriteMarkerFails
  BY <1>7, <1>t DEF WriteMarkerFails, EndConfirm, phaseVars, memoryVars, netVars
<1>8. CASE Send
  BY <1>8, <1>t DEF Send, phaseVars, memoryVars, diskVars
<1>9. CASE SubmitAccepted
  <2>1. live = {claim} /\ claim \in Tx /\ memoryMarker.tx = claim
    BY <1>9, <1>t DEF SubmitAccepted, Steered, PendingMarker
  <2>. QED
    BY <1>9, <1>t, <2>1 DEF SubmitAccepted, EnterSubmitted, Enter, EndConfirm, memoryVars,
       diskVars, netVars
<1>10. CASE SubmitAmbiguous
  BY <1>10, <1>t DEF SubmitAmbiguous, Fail, Enter, EndConfirm, PendingMarker, memoryVars,
     diskVars, netVars
<1>11. CASE RetryRejected
  BY <1>11, <1>t DEF RetryRejected, Refuse, Fail, Enter, EndConfirm, PendingMarker,
     memoryVars, diskVars
<1>12. CASE FirstRejected
  BY <1>12, <1>t DEF FirstRejected, Refuse, GoTo, phaseVars, memoryVars, diskVars
<1>13. ASSUME NEW answer, QueryFinds(answer) PROVE OwnerInv'
  <2>1. answer \in Answers(current)
    BY <1>13 DEF QueryFinds, AnswersAfterRejection
  <2>2. answer \in {"pending", "confirmed"} => live = {current} /\ current \in Tx
    BY <2>1, AnswerShowsLive
  <2>. QED
    BY <1>13, <1>t, <2>2 DEF QueryFinds, EnterSubmitted, EnterConfirmed, Fail, Enter,
       EndConfirm, PendingMarker, memoryVars, diskVars, netVars
<1>14. CASE QueryFindsNothing
  BY <1>14, <1>t DEF QueryFindsNothing, GoTo, phaseVars, memoryVars, diskVars, netVars
<1>15. CASE WriteRejection
  BY <1>15, <1>t DEF WriteRejection, Steered, Fail, Enter, EndConfirm, netVars
<1>16. CASE WriteRejectionFails
  BY <1>16, <1>t DEF WriteRejectionFails, Fail, Enter, EndConfirm, PendingMarker, memoryVars,
     netVars
<1>17. ASSUME NEW answer, Poll(answer) PROVE OwnerInv'
  <2>1. answer \in {"pending", "confirmed"} => live = {Watched} /\ Watched \in Tx
    BY <1>17, AnswerShowsLive DEF Poll
  <2>2. Watched # None /\ submittedTo = Watched.dest /\ step = "ready"
    BY <1>17 DEF Poll
  <2>3. CASE (answer = "confirmed" /\ PollConfirmed) \/ (answer = "pending" /\ PollPending)
    BY <1>17, <2>1, <2>2, <2>3 DEF Poll, PollConfirmed, PollPending, EnterConfirmed,
       EnterSubmitted, Enter, diskVars, opVars, netVars
  <2>4. CASE PollMissesSubmission
    BY <1>17, <2>2, <2>4 DEF Poll, PollMissesSubmission, EnterSubmitted, Fail, Enter,
       diskVars, opVars, netVars
  <2>5. CASE PollMissesRecovery
    BY <1>17, <2>2, <2>5 DEF Poll, PollMissesRecovery, Fail, Enter, phaseVars, diskVars,
       opVars, netVars
  <2>6. \/ answer = "confirmed" /\ PollConfirmed
        \/ answer = "pending" /\ PollPending
        \/ PollMissesSubmission \/ PollMissesRecovery
    BY <1>17 DEF Poll
  <2>. HIDE DEF OwnerInv
  <2>. QED
    BY <2>3, <2>4, <2>5, <2>6
<1>18. CASE StopProcess
  BY <1>18, <1>t DEF StopProcess, Enter, netVars
<1>19. CASE Mine
  BY <1>19, <1>t DEF Mine, phaseVars, memoryVars, diskVars, opVars
<1>20. CASE Reorganize
  BY <1>20, <1>t DEF Reorganize, phaseVars, memoryVars, diskVars, opVars
<1>21. CASE UNCHANGED vars
  BY <1>21, <1>t DEF vars, phaseVars, memoryVars, diskVars, opVars, netVars
<1>. QED
  BY <1>1, <1>2, <1>3, <1>4, <1>5, <1>6, <1>7, <1>8, <1>9, <1>10, <1>11, <1>12, <1>13, <1>14,
     <1>15, <1>16, <1>17, <1>18, <1>19, <1>20, <1>21
     DEF Next, OwnerActs, ConfirmSteps, PollThread, Environment, Kill, PowerLoss

\* Memory and the owner's screen are true in every reachable state.
THEOREM Told == Spec => []OwnerInv
<1>1. Init => OwnerInv
  BY DEF Init, OwnerInv, MemoryIsClaim, ReceiptIsTrue, Sending, Running
<1>. QED
  BY <1>1, Safe, OwnerStep, PTL DEF Spec

\* Prepare, confirm and poll never lose sight of what the service guards in memory.
THEOREM GuardIsWatched == Spec => []WatchedGuard
<1>1. OwnerInv => WatchedGuard
  BY DEF OwnerInv, MemoryIsClaim, WatchedGuard
<1>. QED
  BY <1>1, Told, PTL

\* A receipt names what is out and where it pays; "rejected" means nothing is out.
THEOREM OwnerIsTold == Spec => []OwnerIsToldTheTruth
<1>1. OwnerInv => OwnerIsToldTheTruth
  BY DEF OwnerInv, ReceiptIsTrue, OwnerIsToldTheTruth, DuplicateReceipt
<1>. QED
  BY <1>1, Told, PTL

-----------------------------------------------------------------------------
(* The service implements the write-ahead claim.                           *)

Recorded(o, g, b) == o # {} => g = o /\ ~b

\* While something is out, all that a restart may find is its pending marker.
LEMMA OutIsRecorded == SafeInv => Recorded(live, Guarded, Bare)
<1>. SUFFICES ASSUME SafeInv, NEW t \in live PROVE Guarded = live /\ ~Bare
  BY DEF Recorded
<1>1. t \in Tx /\ live = {t}
  BY DEF SafeInv, TypeInv, TypeOK, SingleLive
<1>2. \A m \in survivors : IsPending(m) /\ m.tx = t
  BY DEF SafeInv, DurableGuard
<1>3. ~Bare
  BY <1>2 DEF Bare
<1>4. disk \in survivors
  BY DEF SafeInv
<1>5. Guarded = {t}
  BY <1>1, <1>2, <1>4 DEF Guarded
<1>. QED
  BY <1>1, <1>3, <1>5

\* What a step does to the record of the abstract claim when it sends and
\* refuses nothing, whatever it writes, reads or loses.
LEMMA QuietStep ==
  ASSUME SafeInv', UNCHANGED live
  PROVE  Abstract!Next
<1>1. (SafeInv => Recorded(live, Guarded, Bare))'
  BY OutIsRecorded, PTL
<1>2. live' # {} => Guarded' = live' /\ ~Bare'
  BY <1>1 DEF Recorded
<1>3. Guarded' \subseteq Tx /\ Bare' \in BOOLEAN
  BY DEF Guarded, Bare
<1>. QED
  BY <1>2, <1>3 DEF Abstract!Next, Abstract!Record, Abstract!Protected

\* The first outbound byte follows a durable marker of the same transaction,
\* and a rejection turns down the only transaction that is out.
LEMMA SendRefines == SafeInv /\ Send => Abstract!Next
<1>. SUFFICES ASSUME SafeInv, Send PROVE Abstract!Next
  OBVIOUS
<1>1. claim \in Tx
  BY DEF Send, SafeInv, TypeInv, Confirming, Running
<1>2. survivors = {PendingMarker(claim)} /\ live \subseteq {claim}
  BY DEF Send, SafeInv, Steered, Running
<1>3. IsPending(PendingMarker(claim)) /\ PendingMarker(claim).tx = claim
  BY <1>1, MarkerType
<1>4. Guarded = {claim} /\ ~Bare
  BY <1>1, <1>2, <1>3 DEF Guarded, Bare
<1>5. UNCHANGED <<Guarded, Bare>>
  BY DEF Send, diskVars, Guarded, Bare
<1>6. live' = {claim}
  BY <1>2 DEF Send
<1>. QED
  BY <1>1, <1>2, <1>4, <1>5, <1>6 DEF Abstract!Next, Abstract!Broadcast

\* A rejection that the network meant takes the transaction off it; one that
\* it did not mean is a quiet step.
LEMMA RejectionRefines ==
  SafeInv /\ SafeInv' /\ (RetryRejected \/ FirstRejected) => Abstract!Next
<1>. SUFFICES ASSUME SafeInv, SafeInv', RetryRejected \/ FirstRejected PROVE Abstract!Next
  OBVIOUS
<1>1. CASE UNCHANGED live
  BY <1>1, QuietStep
<1>2. CASE live' = live \ {claim}
  <2>1. live \subseteq {claim}
    BY DEF RetryRejected, FirstRejected, SafeInv, Steered, Running
  <2>2. live' = {}
    BY <1>2, <2>1
  <2>3. UNCHANGED <<Guarded, Bare>>
    BY DEF RetryRejected, FirstRejected, diskVars, Guarded, Bare
  <2>. QED
    BY <2>2, <2>3 DEF Abstract!Next, Abstract!Refuse
<1>. QED
  BY <1>1, <1>2 DEF RetryRejected, FirstRejected, Refuse

\* A start after earlier lives maps to a claim whose guard names what is out.
LEMMA InitRefines == Init => Abstract!Init
<1>. SUFFICES ASSUME Init PROVE Abstract!Init
  OBVIOUS
<1>1. SafeInv
  BY SafeInit
<1>2. live # {} => Guarded = live /\ ~Bare
  BY <1>1, OutIsRecorded DEF Recorded
<1>3. Guarded \subseteq Tx /\ Bare \in BOOLEAN
  BY DEF Guarded, Bare
<1>4. live \subseteq Tx /\ \A s, t \in live : s = t
  BY <1>1 DEF SafeInv, TypeInv, TypeOK, SingleLive
<1>5. live \in {{}} \cup {{t} : t \in Tx}
  <2>1. CASE live = {}
    BY <2>1
  <2>2. ASSUME NEW t \in live PROVE live = {t} /\ t \in Tx
    BY <1>4
  <2>. QED
    BY <2>1, <2>2
<1>. QED
  BY <1>2, <1>3, <1>5 DEF Abstract!Init, Abstract!Protected

\* Whatever crashes, fails or is retried, the service behaves as a write-ahead
\* claim: one transaction out at most, recorded before it goes out and for as
\* long as the network may take it.
THEOREM Implements == Spec => ImplementsOneClaim
<1>1. SafeInv /\ SafeInv' /\ [Next]_vars => [Abstract!Next]_(Abstract!vars)
  <2>. SUFFICES ASSUME SafeInv, SafeInv', [Next]_vars
                PROVE  [Abstract!Next]_(Abstract!vars)
    OBVIOUS
  <2>1. CASE Next
    BY <2>1, SendRefines, RejectionRefines, QuietStep, OtherStepsAreQuiet
  <2>2. CASE UNCHANGED vars
    BY <2>2 DEF vars, diskVars, netVars, Abstract!vars, Guarded, Bare
  <2>. QED
    BY <2>1, <2>2
<1>. QED
  BY <1>1, InitRefines, Safe, PTL DEF Spec, ImplementsOneClaim, Abstract!Spec
=============================================================================
