---------------------------- MODULE RegtestClient ----------------------------
(***************************************************************************)
(* The submitter of the rehearsal: a Bitcoin Core node on the loopback       *)
(* interface, asked by JSON-RPC over a connection of its own for every       *)
(* question, and only after it has said that its chain is regtest.           *)
(***************************************************************************)
EXTENDS Submitter, Sequences

CONSTANT Coins  \* outputs that may pay the address of the rehearsal

VARIABLES
    rpc,        \* the question the client is at; "idle" outside
    reply,      \* the result or the error that has come for it, or None
    coins,      \* outputs whose transaction it has still to ask for
    chain,      \* the chain of the node
    floorVar    \* REHEARSAL_FEE_FLOOR: absent, "bad", or a number

ASSUME RegtestAssumption == None # {}

regtestOnlyVars == <<rpc, reply, coins, chain, floorVar>>
regtestVars == <<submitterVars, regtestOnlyVars>>

Result(value) == [ok |-> TRUE, value |-> value]
RpcError(number) == [ok |-> FALSE, error |-> "Rpc", code |-> number]
Transport == [ok |-> FALSE, error |-> "Transport", code |-> 0]
Decode == [ok |-> FALSE, error |-> "Decode", code |-> 0]

\* Bytes that keep coming, each within the timeout of a read: no deadline and no limit
\* ends the call.
Endless == [ok |-> FALSE, error |-> "Endless", code |-> 0]

RegtestInit ==
    /\ rpc = "idle"
    /\ reply = None
    /\ coins = {}
    /\ chain \in {"regtest", "main"}
    /\ floorVar \in {None, -1, 0, 1}

Ask(question) == rpc' = question /\ reply' = None

-----------------------------------------------------------------------------
(* RpcClient::call: a connection, one request, and the answer read to its end *)

Comes(answer) ==
    /\ reply' = answer
    /\ UNCHANGED <<call, outcome, rpc, coins, chain, floorVar>>

\* No connection, a timeout, a connection that closes too early, an answer that is no
\* JSON or does not end: what has been asked for may have happened all the same.
Lost == reply' \in {Transport, Decode, Endless} /\ UNCHANGED <<call, outcome, rpc, coins, chain, floorVar>>

NodeNotReached ==
    /\ rpc # "idle" /\ reply = None
    /\ Comes(Transport)
    /\ UNCHANGED <<worldVars, decision>>

NodeBreaksOff ==
    /\ rpc # "idle" /\ reply = Endless
    /\ Comes(Transport) \/ Comes(Decode)
    /\ UNCHANGED <<worldVars, decision>>

NodeTellsChain ==
    /\ rpc = "getblockchaininfo" /\ reply = None
    /\ Comes(Result(chain)) \/ Lost
    /\ UNCHANGED <<worldVars, decision>>

NodeTakes ==
    /\ rpc = "sendrawtransaction" /\ reply = None
    /\ mined[call.tx] = None
    /\ submitted' = submitted \cup {call.tx}
    /\ known' = known \cup {call.tx}
    /\ decision' = <<"taken">>
    /\ Comes(Result(call.tx)) \/ Lost
    /\ UNCHANGED mined

\* -26 for a transaction the node does not want, -25 for one whose inputs it does not find.
NodeRefuses ==
    /\ rpc = "sendrawtransaction" /\ reply = None
    /\ call.tx \notin known
    /\ submitted' = submitted \cup {call.tx}
    /\ decision' = <<"refused">>
    /\ (\E number \in {-25, -26} : Comes(RpcError(number))) \/ Lost
    /\ UNCHANGED <<known, mined>>

\* It is still starting, or fails at it, before or after the transaction is taken.
NodeFails ==
    /\ rpc = "sendrawtransaction" /\ reply = None
    /\ submitted' = submitted \cup {call.tx}
    /\ known' \in {known, known \cup {call.tx}}
    /\ Comes(RpcError(-28))
    /\ UNCHANGED <<mined, decision>>

\* Of a transaction in a block -27 says so, and -25 that its inputs are spent.
NodeHasMined ==
    /\ rpc = "sendrawtransaction" /\ reply = None
    /\ mined[call.tx] # None
    /\ submitted' = submitted \cup {call.tx}
    /\ decision' = <<"in chain">>
    /\ (\E number \in {-25, -27} : Comes(RpcError(number))) \/ Lost
    /\ UNCHANGED <<known, mined>>

NodeLooksUp ==
    /\ rpc = "getrawtransaction" /\ reply = None
    /\ call.op = "status"
    /\ decision' = Seen(call.tx)
    /\ \/ Seen(call.tx)[1] = "unknown" /\ Comes(RpcError(-5))
       \/ Seen(call.tx)[1] = "pending" /\ Comes(Result(0))
       \/ Seen(call.tx)[1] = "confirmed" /\ Comes(Result(1))
       \/ Comes(RpcError(-28))
       \/ Lost
    /\ UNCHANGED worldVars

NodeTellsHeight ==
    /\ rpc = "getblockheader" /\ reply = None
    /\ Comes(Result(mined[call.tx])) \/ Comes(RpcError(-5)) \/ Lost
    /\ UNCHANGED <<worldVars, decision>>

\* The outputs it lists, or an answer without them.
NodeScans ==
    /\ rpc = "scantxoutset" /\ reply = None
    /\ \E list \in SUBSET Coins :
         decision' = <<"listed", list>> /\ (Comes(Result(list)) \/ Comes(Result(None)) \/ Lost)
    /\ UNCHANGED worldVars

\* An output whose transaction it has may be spent meanwhile, or look other than listed.
NodeGivesRaw ==
    /\ rpc = "getrawtransaction" /\ reply = None
    /\ call.op = "coins"
    /\ (\E valid \in BOOLEAN : Comes(Result(valid))) \/ Comes(RpcError(-5)) \/ Lost
    /\ UNCHANGED <<worldVars, decision>>

Node ==
    \/ NodeNotReached \/ NodeBreaksOff \/ NodeTellsChain
    \/ NodeTakes \/ NodeRefuses \/ NodeHasMined \/ NodeFails
    \/ NodeLooksUp \/ NodeTellsHeight \/ NodeScans \/ NodeGivesRaw

-----------------------------------------------------------------------------
(* The client *)

Arrived == reply \notin {None, Endless}

Ends(result) == Return(result) /\ Ask("idle")

NetError == IF reply.error = "Transport" THEN "Transport" ELSE "BadResponse"

Unknown(error) == [kind |-> "ambiguous", error |-> error]
NoStatus(error) == [kind |-> "error", error |-> error]

\* fee_floor_sat_vb asks nobody; -1 stands for a variable that is no number.
AskFloor ==
    /\ rpc = "idle"
    /\ call' = [op |-> "floor", tx |-> None]
    /\ call = None \/ outcome # None
    /\ outcome' = CASE floorVar = None -> [kind |-> "floor", rate |-> 1]
                    [] floorVar = -1 -> NoStatus("InvalidInput")
                    [] OTHER -> [kind |-> "floor", rate |-> floorVar]
    /\ decision' = <<"quoted", {IF floorVar = None THEN 2 ELSE 2 * floorVar}>>
    /\ UNCHANGED <<worldVars, regtestOnlyVars>>

AskSubmit(t) ==
    /\ rpc = "idle"
    /\ Begin([op |-> "submit", tx |-> t])
    /\ Ask("getblockchaininfo")
    /\ UNCHANGED <<worldVars, coins, chain, floorVar>>

AskStatus(t) ==
    /\ rpc = "idle"
    /\ Begin([op |-> "status", tx |-> t])
    /\ Ask("getrawtransaction")
    /\ UNCHANGED <<worldVars, coins, chain, floorVar>>

AskCoins ==
    /\ rpc = "idle"
    /\ Begin([op |-> "coins", tx |-> None])
    /\ Ask("getblockchaininfo")
    /\ UNCHANGED <<worldVars, coins, chain, floorVar>>

\* FAULT: any chain will do.
IsRegtestOrOther == reply.ok

IsRegtest == reply.ok /\ reply.value = "regtest"

CheckChain ==
    /\ rpc = "getblockchaininfo" /\ Arrived
    /\ IF IsRegtest
       THEN /\ Ask(IF call.op = "submit" THEN "sendrawtransaction" ELSE "scantxoutset")
            /\ UNCHANGED outcome
       ELSE Ends(Unknown(IF reply.ok THEN "BadResponse" ELSE NetError))
    /\ UNCHANGED <<call, worldVars, decision, coins, chain, floorVar>>

\* FAULT: every error of the node is a rejection.
ClassifyAny(number) == [kind |-> "rejected"]

\* classify_rpc_submit_error
Classify(number) ==
    IF number \in -27 .. -25 THEN [kind |-> "rejected"] ELSE Unknown("BadResponse")

TakeSubmitted ==
    /\ rpc = "sendrawtransaction" /\ Arrived
    /\ Ends(CASE reply.ok -> IF reply.value = call.tx THEN [kind |-> "receipt"]
                             ELSE Unknown("SubmitTxidMismatch")
              [] ~reply.ok /\ reply.error = "Rpc" -> Classify(reply.code)
              [] OTHER -> Unknown(NetError))
    /\ UNCHANGED <<call, worldVars, decision, coins, chain, floorVar>>

TakeStatus ==
    /\ rpc = "getrawtransaction" /\ Arrived
    /\ call.op = "status"
    /\ CASE reply.ok /\ reply.value = 0 -> Ends([kind |-> "status", seen |-> <<"pending">>])
         [] reply.ok /\ reply.value # 0 -> Ask("getblockheader") /\ UNCHANGED outcome
         [] ~reply.ok /\ reply.code = -5 -> Ends([kind |-> "status", seen |-> <<"unknown">>])
         [] OTHER -> Ends(NoStatus(NetError))
    /\ UNCHANGED <<call, worldVars, decision, coins, chain, floorVar>>

TakeHeight ==
    /\ rpc = "getblockheader" /\ Arrived
    /\ Ends(IF reply.ok THEN [kind |-> "status", seen |-> <<"confirmed", reply.value>>]
            ELSE NoStatus(NetError))
    /\ UNCHANGED <<call, worldVars, decision, coins, chain, floorVar>>

ListedCoins == decision[2]

\* fetch_verified_prevouts: every output of the list, or none.
TakeScan ==
    /\ rpc = "scantxoutset" /\ Arrived
    /\ CASE reply.ok /\ reply.value \notin {None, {}} ->
              Ask("getrawtransaction") /\ coins' = reply.value /\ UNCHANGED outcome
         [] reply.ok /\ reply.value = {} ->
              Ends([kind |-> "coins", coins |-> {}]) /\ UNCHANGED coins
         [] OTHER ->
              Ends(NoStatus(IF reply.ok THEN "BadResponse" ELSE NetError)) /\ UNCHANGED coins
    /\ UNCHANGED <<call, worldVars, decision, chain, floorVar>>

\* FAULT: an output that cannot be verified is left out.
TakeRawLeavingOut ==
    /\ rpc = "getrawtransaction" /\ Arrived
    /\ call.op = "coins"
    /\ \E c \in coins :
         /\ coins' = coins \ {c}
         /\ IF coins' = {}
            THEN Ends([kind |-> "coins",
                       coins |-> IF reply.ok THEN ListedCoins ELSE ListedCoins \ {c}])
            ELSE Ask("getrawtransaction") /\ UNCHANGED outcome
    /\ UNCHANGED <<call, worldVars, decision, chain, floorVar>>

TakeRaw ==
    /\ rpc = "getrawtransaction" /\ Arrived
    /\ call.op = "coins"
    /\ IF reply.ok /\ reply.value
       THEN \E c \in coins :
              /\ coins' = coins \ {c}
              /\ IF coins' = {} THEN Ends([kind |-> "coins", coins |-> ListedCoins])
                 ELSE Ask("getrawtransaction") /\ UNCHANGED outcome
       ELSE Ends(NoStatus(IF reply.ok THEN "PrevTxDecode" ELSE NetError)) /\ coins' = {}
    /\ UNCHANGED <<call, worldVars, decision, chain, floorVar>>

Asking ==
    \/ AskFloor \/ AskCoins
    \/ \E t \in Txs : AskSubmit(t) \/ AskStatus(t)

Taking == CheckChain \/ TakeSubmitted \/ TakeStatus \/ TakeHeight \/ TakeScan \/ TakeRaw
=============================================================================
