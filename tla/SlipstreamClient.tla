--------------------------- MODULE SlipstreamClient ---------------------------
(***************************************************************************)
(* The submitter of the running program: Slipstream over HTTPS, with the     *)
(* parsing of its answers, the fee floor, and the test alert by Telegram.    *)
(*                                                                         *)
(* JSON is a record with the members the program reads; a member that is     *)
(* absent or of another type is None, and Junk is what is no JSON.  The      *)
(* peer is honest, but what answers for it may be a proxy.                   *)
(***************************************************************************)
EXTENDS CurlTransport, Submitter

CONSTANTS
    TxidOf,     \* transaction -> its id
    Token,      \* bot token of the owner
    Bad,        \* member of another type
    Junk,       \* text that is no JSON
    Quotes,     \* rates that Slipstream may quote
    Others      \* requests of other callers of execute

slipstreamVars == <<transportVars, submitterVars>>

ASSUME SlipstreamAssumption ==
    /\ TxidOf \in [Txs -> Txids]
    /\ \A t, u \in Txs : TxidOf[t] = TxidOf[u] => t = u
    /\ Token \in Tokens
    /\ MaxRate \in Nat
    /\ MaxBody \in Nat \ {0} /\ StatusLine \in Nat \ {0} /\ Pipe \in Nat \ {0}
    /\ \A r \in Others : r.method \in Methods /\ r.url \in Seq({r.url[i] : i \in DOMAIN r.url})

-----------------------------------------------------------------------------
(* Requests *)

Calls == [op : {"submit", "status"}, tx : Txs] \cup [op : {"floor", "alert"}, tx : {None}]

Https(host, path) == <<"https://", host>> \o path

GetOf(url) == [method |-> "Get", url |-> url, body |-> Nil]

PostOf(url, size) == [method |-> "PostJson", url |-> url, body |-> [data |-> "json", size |-> size]]

\* A transaction is longer than the pipe.
RequestOf(c) ==
    CASE c.op = "submit" -> PostOf(Https(Slipstream, <<"/api/transactions">>), Pipe + 1)
      [] c.op = "status" ->
           GetOf(Https(Slipstream, <<"/api/transactions/status?tx_id=", TxidOf[c.tx]>>))
      [] c.op = "floor" -> GetOf(Https(Slipstream, <<"/api/rates">>))
      [] c.op = "alert" -> PostOf(Https(Telegram, <<"/bot", Token, "/sendMessage">>), 1)

Call(c) ==
    /\ Begin(c)
    /\ Execute(RequestOf(c))
    /\ UNCHANGED worldVars

CallOther(r) ==
    /\ Begin([op |-> "other", tx |-> None])
    /\ Execute(r)
    /\ UNCHANGED worldVars

\* send_text reads its configuration first, and gives up when it is not there, may be
\* read by others, or holds no token or no private chat.
AlertUnconfigured(error) ==
    /\ Begin([op |-> "alert", tx |-> None])
    /\ stage = "idle"
    /\ stage' = "returned"
    /\ response' = Error(error)
    /\ UNCHANGED <<request, curlVars, got, sent, worldVars>>

-----------------------------------------------------------------------------
(* Answers *)

\* serde_json of a body; a member is read from a record only.
Member(body, key) == IF body # Junk /\ key \in DOMAIN body THEN body[key] ELSE None

Ambiguous(error) == [kind |-> "ambiguous", error |-> error]
Failed(error) == [kind |-> "error", error |-> error]

ParseSubmitSuccess(body, txid) ==
    CASE Member(body, "status") = "success" /\ Member(body, "message") = txid -> [kind |-> "receipt"]
      [] Member(body, "status") = "success" /\ Member(body, "message") \notin {txid, None} ->
           Ambiguous("SubmitTxidMismatch")
      [] OTHER -> Ambiguous("BadResponse")

\* FAULT: every 400 is a rejection.
ParseSubmitRejectionAny(body) == [kind |-> "rejected"]

ParseSubmitRejection(body) ==
    IF Member(body, "status") = "error" \/ Member(body, "is_success") = FALSE
    THEN [kind |-> "rejected"]
    ELSE Ambiguous("BadResponse")

SubmitOutcome(t) ==
    CASE ~response.ok -> Ambiguous(response.error)
      [] response.ok /\ response.status = 200 -> ParseSubmitSuccess(response.body, TxidOf[t])
      [] response.ok /\ response.status = 400 -> ParseSubmitRejection(response.body)
      [] OTHER -> Ambiguous("HttpStatus")

Status(seen) == [kind |-> "status", seen |-> seen]

\* FAULT: the id in the answer is not compared.
ParseStatusOkOfAny(body, txid) ==
    CASE Member(body, "confirmed") = TRUE /\ Member(body, "height") # None ->
           Status(<<"confirmed", body.height>>)
      [] Member(body, "confirmed") = FALSE -> Status(<<"pending">>)
      [] OTHER -> Failed("BadResponse")

ParseStatusOk(body, txid) ==
    CASE Member(body, "txid") # txid -> Failed("BadResponse")
      [] Member(body, "txid") = txid /\ Member(body, "confirmed") = TRUE ->
           IF Member(body, "height") = None THEN Failed("BadResponse")
           ELSE Status(<<"confirmed", body.height>>)
      [] Member(body, "txid") = txid /\ Member(body, "confirmed") = FALSE -> Status(<<"pending">>)
      [] OTHER -> Failed("BadResponse")

ParseStatusNotFound(body) ==
    IF Member(body, "message") = "Transaction not found" THEN Status(<<"unknown">>)
    ELSE Failed("BadResponse")

StatusOutcome(t) ==
    CASE ~response.ok -> Failed(response.error)
      [] response.ok /\ response.status = 200 -> ParseStatusOk(response.body, TxidOf[t])
      [] response.ok /\ response.status = 400 -> ParseStatusNotFound(response.body)
      [] OTHER -> Failed("HttpStatus")

RateKeys == {"effective_rate", "slipstream_rate", "submit_fee_rate"}

ASSUME RatesAssumption ==
    \A q \in Quotes, k \in RateKeys : k \in DOMAIN q => q[k] \in Int \cup {Bad}

\* A member that is absent is no value of another.
ASSUME AbsentAssumption ==
    /\ None \notin {"success", "error", "Transaction not found"} \cup Txids
    /\ None \notin BOOLEAN
    /\ None \notin Int \cup {Bad}

\* FAULT: a rate is cut to a whole number.
CeilDown(halves) == halves \div 2

Ceil(halves) == (halves + 1) \div 2

Least(a, b) == IF a <= b THEN a ELSE b

\* A rate is absent, or no number, or a number of halves; u64::MAX as f64 is the
\* number after it, and the cast back brings that down to the largest again.
IsRate(raw) == raw # Bad /\ raw >= 0 /\ Ceil(raw) <= MaxRate + 1

RateOf(raw) == Least(Ceil(raw), MaxRate)

FloorOf(body) ==
    LET quoted == {k \in RateKeys : Member(body, k) # None}
    IN  IF quoted = {} \/ \E k \in quoted : ~IsRate(body[k]) THEN Failed("BadResponse")
        ELSE [kind |-> "floor",
              rate |-> CHOOSE r \in {RateOf(body[k]) : k \in quoted} :
                           \A k \in quoted : RateOf(body[k]) <= r]

FloorOutcome ==
    CASE ~response.ok -> Failed(response.error)
      [] response.ok /\ response.status = 200 -> FloorOf(response.body)
      [] OTHER -> Failed("HttpStatus")

AlertOutcome ==
    CASE ~response.ok -> Failed(response.error)
      [] response.ok /\ response.status # 200 -> Failed("HttpStatus")
      [] response.ok /\ response.status = 200 ->
           IF Member(response.body, "ok") = TRUE THEN [kind |-> "sent"] ELSE Failed("BadResponse")

OutcomeOf(c) ==
    CASE c.op = "submit" -> SubmitOutcome(c.tx)
      [] c.op = "status" -> StatusOutcome(c.tx)
      [] c.op = "floor" -> FloorOutcome
      [] c.op = "alert" -> AlertOutcome
      [] c.op = "other" -> [kind |-> "other"]

Answer ==
    /\ Done
    /\ Return(OutcomeOf(call))
    /\ UNCHANGED <<call, decision, worldVars>>
=============================================================================
