--------------------------- MODULE ClaimInputsMC ---------------------------
(***************************************************************************)
(* Five transactions, the last of them made up; the cache holds two, and   *)
(* not the longest.  At rate 1 a second coin does not pay the longer input *)
(* count, and three more do; five inputs exceed the limit in the worst     *)
(* case, and not with short signatures.  At rate 2 only the largest coins  *)
(* are worth their inputs.  The lists are true, or name a foreign output,  *)
(* a wrong amount, an output or an id that does not exist, two amounts of  *)
(* one output, or an unconfirmed coin; or both name what was made up.      *)
(***************************************************************************)
EXTENDS ClaimInputs

Pay(value) == [pays |-> TRUE, value |-> value]
Other(value) == [pays |-> FALSE, value |-> value]

MCOutputs == <<<<Pay(9), Other(5)>>, <<Pay(3), Pay(3)>>, <<Pay(3)>>, <<Pay(4)>>,
               <<Pay(9)>>>>
MCRawLength == <<1, 1, 3, 4, 2>>

Listing(tx, vout, value) == [tx |-> tx, vout |-> vout, value |-> value, confirmed |-> TRUE]
Unconfirmed(e) == [e EXCEPT !.confirmed = FALSE]

Large == Listing(1, 1, 9)
Small == {Listing(2, 1, 3), Listing(2, 2, 3)}

MCLists ==
    {{Large}, Small, Small \cup {Large}, Small \cup {Large, Listing(3, 1, 3)},
     Small \cup {Large, Listing(3, 1, 3), Listing(4, 1, 4)},
     {Large, Unconfirmed(Listing(3, 1, 3))}, {Large, Listing(1, 1, 8)},
     {Listing(1, 1, 8)}, {Listing(1, 2, 5)}, {Large, Listing(3, 2, 3)}, {Large, Listing(5, 1, 9)},
     {Listing(6, 1, 9)}}
=============================================================================
