------------------------------ MODULE AllowList ------------------------------
(***************************************************************************)
(* The requests the claim may send.  A URL is a sequence of pieces: the     *)
(* scheme, the words and characters of the authority, and a path whose      *)
(* pieces are fixed texts, transaction ids and bot tokens.  The pieces in   *)
(* Slashed begin with a slash, the others hold none.                        *)
(***************************************************************************)
EXTENDS Integers, Sequences

CONSTANTS
    Txids,      \* texts of 64 lower-case hex digits
    Tokens      \* texts of the form of a bot token

Mempool == "mempool.space"
Blockstream == "blockstream.info"
Slipstream == "slipstream.mara.com"
Telegram == "api.telegram.org"

Methods == {"Get", "PostJson"}

Slashed == {"/", "/api/address/TARGET/utxo", "/api/tx/", "/hex", "/api/rates",
            "/api/transactions/status?tx_id=", "/api/transactions", "/bot", "/sendMessage"}

\* Characters and texts that make a URL unusable wherever they stand.
Unusable == {"non-ascii", "{", "[", "%", "#", "control", ".."}

ASSUME AllowListAssumption == (Txids \cup Tokens) \cap Unusable = {}

IsEsploraHost(host) == host = <<Mempool>> \/ host = <<Blockstream>>

IsUtxoGet(host, path) == IsEsploraHost(host) /\ path = <<"/api/address/TARGET/utxo">>

\* What is left without the prefix and the suffix has to be one id.
IsTxHexGet(host, path) ==
    IsEsploraHost(host) /\ \E t \in Txids : path = <<"/api/tx/", t, "/hex">>

IsRatesGet(host, path) == host = <<Slipstream>> /\ path = <<"/api/rates">>

IsStatusGet(host, path) ==
    host = <<Slipstream>> /\ \E t \in Txids : path = <<"/api/transactions/status?tx_id=", t>>

IsSlipstreamSubmit(host, path) == host = <<Slipstream>> /\ path = <<"/api/transactions">>

IsTelegramSend(host, path) ==
    host = <<Telegram>> /\ \E t \in Tokens : path = <<"/bot", t, "/sendMessage">>

IsPermitted(method, host, path) ==
    CASE method = "Get" ->
           IsUtxoGet(host, path) \/ IsTxHexGet(host, path)
           \/ IsRatesGet(host, path) \/ IsStatusGet(host, path)
      [] method = "PostJson" -> IsSlipstreamSubmit(host, path) \/ IsTelegramSend(host, path)

\* The length of the authority: the pieces after the scheme and before the first slash.
AuthorityLength(url) ==
    CHOOSE n \in 0 .. Len(url) - 2 :
        /\ url[n + 2] \in Slashed
        /\ \A i \in 2 .. n + 1 : url[i] \notin Slashed

\* FAULT: a host is known by how it begins.
HostOfPrefix(url) == SubSeq(url, 2, 2)

HostOf(url) == SubSeq(url, 2, AuthorityLength(url) + 1)

PathOf(url) == SubSeq(url, AuthorityLength(url) + 2, Len(url))

IsAllowed(method, url) ==
    /\ \A i \in 1 .. Len(url) : url[i] \notin Unusable
    /\ Len(url) > 0 /\ Head(url) = "https://"
    /\ \E i \in 2 .. Len(url) : url[i] \in Slashed
    /\ \A i \in 1 .. Len(HostOf(url)) : HostOf(url)[i] \notin {"@", ":", "UPPER"}
    /\ IsPermitted(method, HostOf(url), PathOf(url))
=============================================================================
