-------------------------- MODULE ClaimPollHistory --------------------------
(***************************************************************************)
(* The claim service with a history of its polls: how many times in a row  *)
(* the provider has answered "not found" since the transaction was last    *)
(* sent or last seen.                                                      *)
(***************************************************************************)
EXTENDS ClaimServiceMC

VARIABLE silence

HistoryInit == Init /\ silence = 0

Heard == Send \/ \E answer \in {"confirmed", "pending"} : Poll(answer)

HistoryNext ==
    \/ Heard /\ silence' = 0
    \/ Poll("notfound") /\ silence' = IF silence < MaxNotFound THEN silence + 1 ELSE silence
    \/ Next /\ ~Send /\ ~PollThread /\ UNCHANGED silence

HistorySpec == HistoryInit /\ [][HistoryNext]_<<vars, silence>>

\* "Consecutive `NotFound` polls in `Submitted` before the claim is treated as
\* missing (at a 60-second poll interval this is about 30 minutes)": the comment
\* on MAX_NOT_FOUND_POLLS, service.rs:29.  The counter of the recovery phases is
\* not reset by a new submission, so one poll after a retry may be enough.
MissingOnlyAfterEnoughPolls ==
    [][reason # "submission_not_found" /\ reason' = "submission_not_found"
         => silence + 1 >= MaxNotFound]_<<vars, silence>>
=============================================================================
