---------------------------- MODULE ClaimInputs ----------------------------
(***************************************************************************)
(* The coins of the puzzle address as two public sources list them.  Both  *)
(* lists must agree, every funding transaction is fetched and recognised   *)
(* by its id, and the amounts are read from it and not from the lists.     *)
(* Funding transactions stay in a bounded cache from one claim operation   *)
(* to the next.  Then the claim is built from the coins and verified.      *)
(*                                                                         *)
(* A source may be down, behind or wrong, in a list or in a transaction:   *)
(* it may even serve a transaction that was made up, under the id that     *)
(* this has.  Operations run one at a time under the claim mutex.          *)
(***************************************************************************)
EXTENDS ClaimTransaction

CONSTANTS
    Outputs,    \* for each transaction, in the chain or made up, what its outputs pay
    RawLength,  \* for each transaction, its size in bytes
    Lists,      \* what a source may list: sets of Entry
    Rates,      \* fee rates
    MaxEntries, \* MAX_RAW_CACHE_ENTRIES
    MaxBytes    \* MAX_RAW_CACHE_BYTES

\* Transactions are named by their ids.
Servable == DOMAIN Outputs

\* EsploraUtxo.  A transaction id need not be that of a transaction.
Entry == [tx : Nat, vout : Nat, value : Nat, confirmed : BOOLEAN]
Output == [pays : BOOLEAN, value : Nat]
Coin == [tx : Servable, vout : Nat, value : Nat]
Claim == [inputs : SUBSET [tx : Servable, vout : Nat], output : Nat, size : Nat]

ASSUME InputsAssumption ==
    /\ Servable \subseteq Nat
    /\ \A t \in Servable : Outputs[t] \in Seq(Output)
    /\ RawLength \in [Servable -> Nat \ {0}]
    /\ \A list \in Lists : list \subseteq Entry /\ IsFiniteSet(list)
    /\ Rates \subseteq Nat \ {0}
    /\ MaxEntries \in Nat \ {0} /\ MaxBytes \in Nat
    /\ Absent \notin Nat /\ Absent \notin Lists /\ Absent \notin Claim

VARIABLES
    transactions, \* cache: raw transactions by their id
    order,        \* cache: ids, the oldest first
    bytes,        \* cache: the size of all of them
    step,         \* "idle", "load", "build"
    lists,        \* the two lists of this fetch
    reliable,     \* the sources that serve whatever can be served in this fetch
    raws,         \* raw_by_txid
    accepted,     \* prevouts of the snapshot
    rate,         \* the fee rate of the built claim
    claim,        \* the built transaction, or Absent
    failure       \* where the fetch failed, or "none"

cacheVars == <<transactions, order, bytes>>
fetchVars == <<lists, reliable, raws, accepted, rate>>
vars == <<cacheVars, step, fetchVars, claim, failure>>

Sources == {1, 2}

NoRaws == [t \in {} |-> t]

TypeOK ==
    /\ DOMAIN transactions \subseteq Servable
    /\ \A t \in DOMAIN transactions : transactions[t] \in Servable
    /\ order \in Seq(Servable) /\ Len(order) <= MaxEntries
    /\ bytes \in 0 .. MaxBytes
    /\ step \in {"idle", "load", "build"}
    /\ lists \in [Sources -> Lists \cup {Absent}]
    /\ reliable \subseteq Sources
    /\ DOMAIN raws \subseteq Servable
    /\ \A t \in DOMAIN raws : raws[t] \in Servable
    /\ accepted \subseteq Coin
    /\ rate \in Rates \cup {Absent}
    /\ claim # Absent => claim \in Claim /\ claim.inputs \subseteq Outpoints(accepted)
    /\ failure \in {"none", "lists", "raw", "prevout"}

Init ==
    /\ transactions = NoRaws
    /\ order = <<>>
    /\ bytes = 0
    /\ step = "idle"
    /\ lists = [s \in Sources |-> Absent]
    /\ reliable = {}
    /\ raws = NoRaws
    /\ accepted = {}
    /\ rate = Absent
    /\ claim = Absent
    /\ failure = "none"

-----------------------------------------------------------------------------
(* RawTxCache *)

BytesOf(ids) == MapThenSumSet(LAMBDA t : RawLength[t], ids)

\* Dropping the n oldest makes room for the transaction.
MakesRoom(n, t) ==
    /\ Len(order) - n < MaxEntries
    /\ bytes - BytesOf({order[i] : i \in 1 .. n}) + RawLength[t] <= MaxBytes

\* How many are dropped: the least number that helps, or all of them.
Dropped(t) ==
    CHOOSE n \in 0 .. Len(order) :
        /\ MakesRoom(n, t) \/ n = Len(order)
        /\ \A m \in 0 .. n - 1 : ~MakesRoom(m, t)

\* FAULT: the sizes of what is dropped are not subtracted.
InsertKeepsBytes(t, raw) ==
    IF RawLength[t] > MaxBytes \/ t \in DOMAIN transactions
    THEN UNCHANGED cacheVars
    ELSE LET n == Dropped(t)
             kept == DOMAIN transactions \ {order[i] : i \in 1 .. n}
         IN  /\ transactions' = [u \in kept \cup {t} |-> IF u = t THEN raw ELSE transactions[u]]
             /\ order' = Append(SubSeq(order, n + 1, Len(order)), t)
             /\ bytes' = bytes + RawLength[t]

\* FAULT: what is dropped from the order stays in the map.
InsertKeepsDropped(t, raw) ==
    IF RawLength[t] > MaxBytes \/ t \in DOMAIN transactions
    THEN UNCHANGED cacheVars
    ELSE LET n == Dropped(t)
             known == DOMAIN transactions \cup {t}
         IN  /\ transactions' = [u \in known |-> IF u = t THEN raw ELSE transactions[u]]
             /\ order' = Append(SubSeq(order, n + 1, Len(order)), t)
             /\ bytes' = bytes - BytesOf({order[i] : i \in 1 .. n}) + RawLength[t]

Insert(t, raw) ==
    IF RawLength[t] > MaxBytes \/ t \in DOMAIN transactions
    THEN UNCHANGED cacheVars
    ELSE LET n == Dropped(t)
             gone == {order[i] : i \in 1 .. n}
             kept == DOMAIN transactions \ gone
         IN  /\ transactions' = [u \in kept \cup {t} |-> IF u = t THEN raw ELSE transactions[u]]
             /\ order' = Append(SubSeq(order, n + 1, Len(order)), t)
             /\ bytes' = bytes - BytesOf(gone) + RawLength[t]

-----------------------------------------------------------------------------
(* fetch_verified_prevouts *)

Confirmed(list) == {e \in list : e.confirmed}

\* unique_confirmed: one outpoint with two values makes the list unusable.
IsUnique(list) ==
    \A a, b \in Confirmed(list) : Outpoint(a) = Outpoint(b) => a.value = b.value

\* FAULT: the second source may know more.
AgreeOnFirst(a, b) == IsUnique(a) /\ IsUnique(b) /\ Confirmed(a) \subseteq Confirmed(b)

Agree(a, b) == IsUnique(a) /\ IsUnique(b) /\ Confirmed(a) = Confirmed(b)

Fail(where) ==
    /\ step' = "idle"
    /\ failure' = where
    /\ raws' = NoRaws
    /\ accepted' = {}
    /\ rate' = Absent
    /\ claim' = Absent

\* Each source lists, or does not answer; some serve every transaction this time.
FetchLists ==
    /\ step = "idle"
    /\ \E a, b \in Lists, s \in SUBSET Sources :
         /\ Agree(a, b)
         /\ lists' = [i \in Sources |-> IF i = 1 THEN a ELSE b]
         /\ reliable' = s
    /\ step' = "load"
    /\ raws' = NoRaws
    /\ accepted' = {}
    /\ rate' = Absent
    /\ claim' = Absent
    /\ failure' = "none"
    /\ UNCHANGED cacheVars

FetchListsFails ==
    /\ step = "idle"
    /\ \E a, b \in Lists \cup {Absent} :
         Absent \notin {a, b} => ~Agree(a, b)
    /\ Fail("lists")
    /\ lists' = [s \in Sources |-> Absent]
    /\ reliable' = {}
    /\ UNCHANGED cacheVars

Listed == Confirmed(lists[1])

Wanted == {e.tx : e \in Listed}

\* What source s may answer: bytes of some transaction, or nothing that is one.
Answers(s, t) == IF s \in reliable /\ t \in Servable THEN {t} ELSE Servable \cup {Absent}

\* FAULT: the second source is asked only if the first gives no transaction.
FallbackOnError(t, first, second) == IF first # Absent THEN first ELSE second

\* load_raw_tx: the second source is asked if the first gives anything but t.
Fallback(t, first, second) == IF first = t THEN first ELSE second

LoadCached(t) ==
    /\ step = "load"
    /\ t \in Wanted \ DOMAIN raws
    /\ t \in DOMAIN transactions
    /\ raws' = [u \in DOMAIN raws \cup {t} |-> IF u = t THEN transactions[t] ELSE raws[u]]
    /\ UNCHANGED <<cacheVars, step, lists, reliable, accepted, rate, claim, failure>>

LoadFetched(t) ==
    /\ step = "load"
    /\ t \in Wanted \ DOMAIN raws
    /\ t \notin DOMAIN transactions
    /\ \E first \in Answers(1, t), second \in Answers(2, t) :
         LET raw == Fallback(t, first, second)
         IN  /\ raw = t
             /\ raws' = [u \in DOMAIN raws \cup {t} |-> IF u = t THEN raw ELSE raws[u]]
             /\ Insert(t, raw)
    /\ UNCHANGED <<step, lists, reliable, accepted, rate, claim, failure>>

LoadFails(t) ==
    /\ step = "load"
    /\ t \in Wanted \ DOMAIN raws
    /\ t \notin DOMAIN transactions
    /\ \E first \in Answers(1, t), second \in Answers(2, t) : Fallback(t, first, second) # t
    /\ Fail("raw")
    /\ UNCHANGED <<cacheVars, lists, reliable>>

\* FAULT: any output of the transaction will do.
IsOutput(e, raw) == raw = e.tx /\ e.vout \in DOMAIN Outputs[raw]

\* verify_prevout: the id, the output and whom it pays.
IsPrevout(e, raw) ==
    /\ raw = e.tx
    /\ e.vout \in DOMAIN Outputs[raw]
    /\ Outputs[raw][e.vout].pays

\* The amount is that of the output, and the lists must have named it.
IsVerified(e) == IsPrevout(e, raws[e.tx]) /\ Outputs[raws[e.tx]][e.vout].value = e.value

AllLoaded == step = "load" /\ Wanted \subseteq DOMAIN raws

VerifyPrevouts ==
    /\ AllLoaded
    /\ \A e \in Listed : IsVerified(e)
    /\ accepted' =
         {[tx |-> e.tx, vout |-> e.vout, value |-> Outputs[raws[e.tx]][e.vout].value] :
            e \in Listed}
    /\ step' = "build"
    /\ raws' = NoRaws
    /\ UNCHANGED <<cacheVars, lists, reliable, rate, claim, failure>>

VerifyPrevoutsFails ==
    /\ AllLoaded
    /\ \E e \in Listed : ~IsVerified(e)
    /\ Fail("prevout")
    /\ UNCHANGED <<cacheVars, lists, reliable>>

\* build_signed_claim, which ends with verify_signed_claim.
Build ==
    /\ step = "build"
    /\ step' = "idle"
    /\ \E r \in Rates :
         /\ rate' = r
         /\ \E built \in Built(accepted, r) :
              claim' = IF built # Absent /\ Verified(built, accepted, r) THEN built ELSE Absent
    /\ UNCHANGED <<cacheVars, lists, reliable, raws, accepted, failure>>

-----------------------------------------------------------------------------

Loading ==
    \E t \in Wanted : LoadCached(t) \/ LoadFetched(t) \/ LoadFails(t)

Next ==
    \/ FetchLists \/ FetchListsFails
    \/ step = "load" /\ Loading
    \/ VerifyPrevouts \/ VerifyPrevoutsFails
    \/ Build

Spec == Init /\ [][Next]_vars

-----------------------------------------------------------------------------
(* Safety *)

\* The accepted coins are those that both sources list as confirmed, all of them
\* and no other; and each is an output of the transaction that has the listed id, pays
\* the puzzle address and has the amount it counts with, whatever outputs and amounts the
\* lists name (fetch_verified_prevouts, verify_prevout).  That the transaction is in the
\* chain is what both lists say; nothing else tells.
CoinsAreAgreedAndExact ==
    /\ step = "build" \/ rate # Absent =>
         \A s \in Sources :
             accepted = {[tx |-> e.tx, vout |-> e.vout, value |-> e.value] :
                           e \in Confirmed(lists[s])}
    /\ \A c \in accepted :
         /\ c.vout \in DOMAIN Outputs[c.tx]
         /\ Outputs[c.tx][c.vout] = [pays |-> TRUE, value |-> c.value]

\* The cache: its three fields agree through every insertion and eviction, both of its
\* limits hold, and under an id it has the transaction with that id and nothing else
\* (RawTxCache).
CacheIsSound ==
    /\ Len(order) <= MaxEntries /\ bytes <= MaxBytes
    /\ DOMAIN transactions = {order[i] : i \in DOMAIN order}
    /\ Cardinality(DOMAIN transactions) = Len(order)
    /\ bytes = BytesOf(DOMAIN transactions)
    /\ \A t \in DOMAIN transactions : transactions[t] = t

\* One source that serves transactions is enough, whatever the other one answers and
\* however small the cache is, unless an id is listed that no transaction has
\* (load_raw_tx).
OneSourceSuffices ==
    failure = "raw" => reliable = {} \/ \E e \in Listed : e.tx \notin Servable

\* No set of the accepted coins pays more than the claim, and when none is built
\* because it would not pay, no set of them would (select_prevouts).
SelectionIsBest ==
    rate # Absent =>
        LET Pays(least) == \E coins \in SUBSET accepted \ {{}} : PayoutOf(coins, rate) >= least
        IN  IF claim # Absent THEN ~Pays(claim.output + 1)
            ELSE Pays(Dust) => IsTooLarge(Cardinality(SelectPrevouts(accepted, rate)))

\* The verifier accepts no other choice of inputs or amount than that of the claim, and
\* this one with any signatures.  Without a claim it accepts only what the builder gave
\* up for its worst case and what is in fact within the limit (verify_signed_claim).
VerifierAcceptsOnlyBuilt ==
    rate # Absent =>
        \A coins \in SUBSET accepted, output \in 0 .. ValueOf(accepted) :
          \A size \in ActualSizes(Cardinality(coins)) :
            LET transaction == Transaction(coins, output, size)
                passes == Verified(transaction, accepted, rate)
            IN  IF claim # Absent
                THEN passes <=> transaction = [claim EXCEPT !.size = size]
                ELSE passes => IsTooLarge(Cardinality(coins)) /\ size <= MaxSize
=============================================================================
