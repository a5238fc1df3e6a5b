---------------------------- MODULE ClaimNetwork ----------------------------
(***************************************************************************)
(* The claim service's two ways to the network, each with what answers at    *)
(* its other end.  The program uses Slipstream: a peer that takes, refuses    *)
(* and forgets transactions and mines them, and proxies on the way that       *)
(* answer for it or break the connection.  The rehearsal uses a local node.   *)
(***************************************************************************)
EXTENDS SlipstreamClient, RegtestClient

CONSTANT
    Sizes       \* sizes of bodies: one that is usual, the largest, and one that is too large

\* What a proxy or a peer in trouble may say instead of the answer.
Troubles ==
    [status : {200, 400, 502}, body : {Junk}, size : Sizes]
    \cup [status : {200}, body : {Binary}, size : {1}]
    \cup [status : {302, 404}, body : {[message |-> "no"]}, size : {1}]

Says(status, body) == {[status |-> status, body |-> body, size |-> 1]}

\* Everything that may come as an answer.
Bodies ==
    {Junk, Binary} \cup Quotes \cup [ok : BOOLEAN]
    \cup [status : {"success", "error"}, message : Txids \cup {"min relay fee not met", "refused"}]
    \cup [is_success : {FALSE}, message : {"refused"}]
    \cup [message : {"no", "Transaction not found"}]
    \cup [txid : Txids, confirmed : BOOLEAN]
    \cup [txid : Txids, confirmed : {TRUE}, height : Heights]

AnswerSet == [status : {200, 302, 400, 404, 502}, body : Bodies, size : Sizes \cup {1}]

ASSUME AnswerAssumption == Sizes \subseteq Nat \ {0} /\ Nil \notin AnswerSet

Submission(result, message) == [status |-> result, message |-> message]

TakenAnswers(t) == Says(200, Submission("success", TxidOf[t])) \cup Troubles

RefusedAnswers ==
    Says(400, Submission("error", "min relay fee not met"))
    \cup Says(400, [is_success |-> FALSE, message |-> "refused"])
    \cup Says(200, Submission("error", "refused"))
    \cup {a \in Troubles : a.status # 200}

\* Answers of one that has not seen the transaction, or has mistaken it for another.
UnseenAnswers(t) ==
    Troubles \cup {[status |-> 200, body |-> Submission("success", TxidOf[u]), size |-> 1] :
                   u \in Txs \ {t}}

StatusAnswers(t) ==
    CASE Seen(t)[1] = "unknown" -> Says(400, [message |-> "Transaction not found"])
      [] Seen(t)[1] = "pending" -> Says(200, [txid |-> TxidOf[t], confirmed |-> FALSE])
      [] Seen(t)[1] = "confirmed" ->
           Says(200, [txid |-> TxidOf[t], confirmed |-> TRUE, height |-> mined[t]])
           \cup Says(200, [txid |-> TxidOf[t], confirmed |-> TRUE])

\* An answer that is about another transaction.
StrayAnswers(t) ==
    UNION {Says(200, [txid |-> TxidOf[u], confirmed |-> FALSE]) : u \in Txs \ {t}}

Quoted(quote) == {quote[k] : k \in {l \in DOMAIN quote \cap RateKeys : quote[l] # Bad}}

\* The peer decides and answers; the answer comes whole, or breaks off.
AnswersWith(a) == Answered(a) \/ Breaks(a, a.size - 1)

PeerTakes(t) ==
    /\ known' = known \cup {t}
    /\ decision' = <<"taken">>
    /\ \E a \in TakenAnswers(t) : AnswersWith(a)
    /\ UNCHANGED mined

PeerRefuses(t) ==
    /\ t \notin known
    /\ decision' = <<"refused">>
    /\ \E a \in RefusedAnswers : AnswersWith(a)
    /\ UNCHANGED <<known, mined>>

PeerMisses(t) ==
    /\ \E a \in UnseenAnswers(t) : AnswersWith(a)
    /\ UNCHANGED <<known, mined, decision>>

PeerLooksUp(t) ==
    /\ decision' = Seen(t)
    /\ \E a \in StatusAnswers(t) \cup Troubles \cup StrayAnswers(t) : AnswersWith(a)
    /\ UNCHANGED <<known, mined>>

PeerQuotes ==
    \E quote \in Quotes :
      /\ decision' = <<"quoted", Quoted(quote)>>
      /\ \E a \in Says(200, quote) \cup Troubles : AnswersWith(a)
      /\ UNCHANGED <<known, mined>>

PeerAlerts ==
    /\ \/ /\ decision' = <<"taken">>
          /\ \E a \in Says(200, [ok |-> TRUE]) \cup Troubles : AnswersWith(a)
       \/ /\ decision' = <<"refused">>
          /\ \E a \in Says(200, [ok |-> FALSE]) \cup Says(400, [ok |-> FALSE]) \cup Troubles : AnswersWith(a)
    /\ UNCHANGED <<known, mined>>

Peer ==
    /\ UNCHANGED <<call, outcome, submitted>>
    /\ CASE call.op = "submit" -> PeerTakes(call.tx) \/ PeerRefuses(call.tx) \/ PeerMisses(call.tx)
         [] call.op = "status" -> PeerLooksUp(call.tx)
         [] call.op = "floor" -> PeerQuotes
         [] call.op = "alert" -> PeerAlerts
         [] call.op = "other" ->
              (\E a \in Troubles : AnswersWith(a)) /\ UNCHANGED <<known, mined, decision>>

\* What has left the machine may be taken later.
SendRequest ==
    /\ Send
    /\ submitted' = IF call.op = "submit" THEN submitted \cup {call.tx} ELSE submitted
    /\ UNCHANGED <<call, outcome, known, mined, decision>>

VARIABLE backend    \* the submitter of this process

networkVars == <<backend, slipstreamVars, regtestOnlyVars>>

NetworkInit ==
    /\ TransportInit /\ SubmitterInit /\ RegtestInit
    /\ backend \in {"slipstream", "regtest"}
    /\ backend = "slipstream" => chain = "main" /\ floorVar = None

Calling ==
    \/ \E c \in Calls : Call(c)
    \/ \E r \in Others : CallOther(r)
    \/ \E e \in {"ConfigFormat", "ConfigPermissions"} : AlertUnconfigured(e)

Untouched == UNCHANGED submitterVars

Curl ==
    \/ (ReadConfig \/ Fails(0) \/ WriteOutput) /\ Untouched
    \/ SendRequest

Working ==
    \/ Transporting /\ Untouched
    \/ Curl
    \/ Answer

Slipstreaming ==
    \/ Calling
    \/ Working
    \/ (ReadFails \/ Dies) /\ Untouched
    \/ child = "sent" /\ Peer

NetworkNext ==
    \/ backend = "slipstream" /\ Slipstreaming /\ UNCHANGED <<backend, regtestOnlyVars>>
    \/ backend = "regtest" /\ (Asking \/ Node \/ Taking) /\ UNCHANGED <<backend, transportVars>>
    \/ World /\ UNCHANGED <<backend, transportVars, regtestOnlyVars>>

\* The program and its curl run on, and curl gives up after --max-time; a peer need not
\* answer.  A node that sends nothing is given up after the timeout of a read.
NetworkSpec ==
    /\ NetworkInit /\ [][NetworkNext]_networkVars
    /\ WF_slipstreamVars(Transporting /\ Untouched)
    /\ WF_slipstreamVars(Curl)
    /\ WF_slipstreamVars(Answer)
    /\ WF_regtestVars(NodeNotReached)
    /\ WF_regtestVars(Taking)

-----------------------------------------------------------------------------
(* Properties *)

\* A response is what the peer has answered, whole and with its status: an answer cut by a
\* timeout, by a process that died or by the limit is an error, although curl writes the
\* status behind it all the same; and it is too large only when it exceeds the limit.
ResponseIsExact ==
    stage = "returned" =>
      /\ response.ok =>
           /\ code = 0
           /\ answer # Nil
           /\ <<response.status, response.body>> = <<answer.status, answer.body>>
           /\ got = answer.size + StatusLine
           /\ answer.size <= MaxBody
      /\ response = Error("ResponseTooLarge") => answer # Nil /\ answer.size > MaxBody

EsploraPaths ==
    {<<"/api/address/TARGET/utxo">>} \cup {<<"/api/tx/", t, "/hex">> : t \in Txids}

SlipstreamPaths ==
    {<<"/api/rates">>} \cup {<<"/api/transactions/status?tx_id=", t>> : t \in Txids}

Gets(host, paths) == {[method |-> "Get", url |-> Https(host, p)] : p \in paths}

Posts(host, paths) == {[method |-> "PostJson", url |-> Https(host, p)] : p \in paths}

Permitted ==
    Gets(Mempool, EsploraPaths) \cup Gets(Blockstream, EsploraPaths)
    \cup Gets(Slipstream, SlipstreamPaths)
    \cup Posts(Slipstream, {<<"/api/transactions">>})
    \cup Posts(Telegram, {<<"/bot", t, "/sendMessage">> : t \in Tokens})

\* Whatever execute is asked for, only the requests of the claim leave the machine, each
\* to its own host; and those do not stay behind for their form.  The rehearsal gives its
\* transaction to no node of another chain.
OnlyPermittedLeaves ==
    /\ backend = "regtest" /\ submitted # {} => chain = "regtest"
    /\ sent # Nil => sent \in Permitted
    /\ stage = "returned" /\ response = Error("NotAllowed") => Visible(request) \notin Permitted

\* Every call returns, whether or not its peer answers and whatever the sizes of pipes and
\* bodies, and leaves no process behind.  The rehearsal's calls do so too, unless the
\* node sends without an end: their only timeout is that of a single read.
CallsReturn ==
    /\ stage # "idle" ~> stage = "idle" /\ child = "none"
    /\ rpc # "idle" ~> rpc = "idle" \/ reply = Endless
=============================================================================
