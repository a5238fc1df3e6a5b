-------------------------- MODULE SolverControlMC --------------------------
(***************************************************************************)
(* Two blocks of two parts, a mode that searches one part a dispatch and   *)
(* a mode that searches two.  A new search, and a recheck of a block that  *)
(* is covered or not.                                                      *)
(***************************************************************************)
EXTENDS SolverControl

CONSTANTS eco, full

MCBatch == [m \in Modes |-> IF m = eco THEN 1 ELSE 2]

Session(done_, plan_) == [covered |-> done_, plan |-> plan_]

MCStarts == {Session({}, <<>>), Session({}, <<2>>), Session({1, 2}, <<2>>)}
=============================================================================
