------------------------------ MODULE OneClaim ------------------------------
(***************************************************************************)
(* What the claim service promises, whatever crashes and whatever fails: a *)
(* write-ahead claim.  A transaction goes out only when it is the only one *)
(* a restart can find recorded, the record stays while it is out, and no   *)
(* other is sent meanwhile.                                                *)
(***************************************************************************)
CONSTANT Tx

VARIABLES
    out,    \* transactions the network may accept
    guard,  \* transactions a restart may find recorded as pending
    bare    \* a restart may also find none recorded

vars == <<out, guard, bare>>

Protected(sent, recorded, lossy) == sent # {} => recorded = sent /\ ~lossy

Init ==
    /\ out \in {{}} \cup {{t} : t \in Tx}
    /\ guard \subseteq Tx
    /\ bare \in BOOLEAN
    /\ Protected(out, guard, bare)

\* Records come and go while nothing is out.
Record ==
    /\ guard' \subseteq Tx
    /\ bare' \in BOOLEAN
    /\ Protected(out, guard', bare')
    /\ UNCHANGED out

Broadcast ==
    /\ \E t \in Tx : guard = {t} /\ out \subseteq {t} /\ out' = {t}
    /\ ~bare
    /\ UNCHANGED <<guard, bare>>

\* The network turns the transaction down for good.
Refuse ==
    /\ out' = {}
    /\ UNCHANGED <<guard, bare>>

Next == Record \/ Broadcast \/ Refuse

Spec == Init /\ [][Next]_vars
=============================================================================
