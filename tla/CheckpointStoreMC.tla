------------------------- MODULE CheckpointStoreMC -------------------------
(***************************************************************************)
(* Two or three blocks.  A new store, one with a history, two targets that *)
(* are not covered, three of which one is, an archive of two counted       *)
(* blocks, and one that the history lacks; plans are not in ascending      *)
(* order, as an interval list would be.                                    *)
(***************************************************************************)
EXTENDS CheckpointStore

Scope(b, p, archive, old) == [blocks |-> b, plan |-> p, legacy |-> archive, history |-> old]

MCScopes ==
    {Scope({1, 2}, <<>>, FALSE, {}), Scope(Blocks, <<>>, FALSE, {1}),
     Scope({1, 2}, <<2, 1>>, FALSE, {}), Scope(Blocks, <<2, 1, 3>>, FALSE, {1}),
     Scope(Blocks, <<2, 1>>, TRUE, {1, 2}), Scope({1, 2}, <<2, 1>>, TRUE, {1})}
=============================================================================
