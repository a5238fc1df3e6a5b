--------------------------- MODULE ClaimNetworkMC ---------------------------
(***************************************************************************)
(* Two transactions, pipes that are shorter than requests and answers, and  *)
(* requests of other callers that are not, or only almost, those permitted. *)
(***************************************************************************)
EXTENDS ClaimNetwork, TLC

CONSTANTS t1, t2

MCTxidOf == (t1 :> "txid1" @@ t2 :> "txid2")

MCQuotes ==
    {[effective_rate |-> 3], [effective_rate |-> 2, slipstream_rate |-> 5, other |-> 9],
     [slipstream_rate |-> 0, submit_fee_rate |-> 1], [submit_fee_rate |-> Bad, effective_rate |-> 1],
     [effective_rate |-> -1], [effective_rate |-> 8], [effective_rate |-> 20], [other |-> 1]}

MCOthers ==
    {GetOf(<<"https://", Mempool, "/api/tx/", "txid1", "/hex">>),
     GetOf(<<"https://", Mempool, "/api/tx/", "bad", "/hex">>),
     GetOf(<<"https://", Blockstream, ".example", "/api/address/TARGET/utxo">>),
     GetOf(<<"http://", Blockstream, "/api/address/TARGET/utxo">>),
     GetOf(<<"https://", "user", "@", Slipstream, "/api/rates">>),
     GetOf(<<"https://", Slipstream>>),
     GetOf(<<"https://", Slipstream, "/api/rates", "%">>),
     GetOf(Https(Slipstream, <<"/api/transactions">>)),
     [PostOf(Https(Slipstream, <<"/api/transactions">>), 1) EXCEPT !.body = Nil],
     [PostOf(Https(Slipstream, <<"/api/transactions">>), 1) EXCEPT !.body.data = "@file"]}
=============================================================================
