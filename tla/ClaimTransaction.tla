-------------------------- MODULE ClaimTransaction --------------------------
(***************************************************************************)
(* Which coins a claim spends and what it pays: the choice of coins, the   *)
(* builder, and the verifier that judges a built transaction once more.    *)
(*                                                                         *)
(* The fee is computed from the worst case of the size; a signature may be *)
(* shorter, and the verifier measures the transaction it is given.  What   *)
(* signatures say, the order of the inputs and the destination are left    *)
(* out.                                                                    *)
(***************************************************************************)
EXTENDS Integers, FiniteSets, Sequences, FiniteSetsExt, SequencesExt

CONSTANTS
    InputSize,  \* P2PKH_INPUT_MAX_VSIZE
    InputMin,   \* the size of an input with the shortest signature
    FixedSize,  \* the size of everything but the inputs and their count
    Jump,       \* the input count whose encoding is two bytes longer
    MaxSize,    \* MAX_CLAIM_WEIGHT_WU, as a size
    Dust,       \* the least output the network relays
    Absent      \* no transaction

ASSUME SizeAssumption ==
    /\ {InputSize, FixedSize, Jump, MaxSize} \subseteq Nat \ {0}
    /\ InputMin \in 0 .. InputSize
    /\ Dust \in Nat

Outpoint(coin) == [tx |-> coin.tx, vout |-> coin.vout]
Outpoints(coins) == {Outpoint(coin) : coin \in coins}
ValueOf(coins) == MapThenSumSet(LAMBDA coin : coin.value, coins)

-----------------------------------------------------------------------------
(* policy.rs *)

CompactSize(n) == IF n < Jump THEN 1 ELSE 3

MaxVsize(n) == FixedSize + CompactSize(n) + n * InputSize

\* What a transaction of n inputs may measure.
ActualSizes(n) == FixedSize + CompactSize(n) + n * InputMin .. MaxVsize(n)

Fee(n, rate) == MaxVsize(n) * rate

IsEconomic(coin, rate) == coin.value > InputSize * rate

PayoutOf(coins, rate) == ValueOf(coins) - Fee(Cardinality(coins), rate)

\* The most valuable coin first; equal ones by outpoint.
Precedes(a, b) ==
    \/ a.value > b.value
    \/ a.value = b.value /\ a.tx < b.tx
    \/ a.value = b.value /\ a.tx = b.tx /\ a.vout < b.vout

\* Every economic coin at the place that the number of those before it gives it.
Ranked(coins, rate) ==
    LET economic == {coin \in coins : IsEconomic(coin, rate)}
    IN  [n \in 1 .. Cardinality(economic) |->
           CHOOSE coin \in economic :
             Cardinality({other \in economic : Precedes(other, coin)}) = n - 1]

First(ranked, n) == {ranked[i] : i \in 1 .. n}

\* FAULT: the first prefix that does not gain ends the search.
BestUntilLoss(ranked, rate) ==
    LET Gains(n) == PayoutOf(First(ranked, n), rate) > PayoutOf(First(ranked, n - 1), rate)
    IN  {n \in DOMAIN ranked :
           /\ PayoutOf(First(ranked, n), rate) >= 0
           /\ \A m \in 2 .. n : Gains(m)
           /\ n = Len(ranked) \/ ~Gains(n + 1)}

\* The prefixes that pay most, the shortest of them; none if no prefix pays its fee.
Best(ranked, rate) ==
    {n \in DOMAIN ranked :
       /\ PayoutOf(First(ranked, n), rate) >= 0
       /\ \A m \in DOMAIN ranked :
            PayoutOf(First(ranked, m), rate) <= PayoutOf(First(ranked, n), rate)
       /\ \A m \in 1 .. n - 1 :
            PayoutOf(First(ranked, m), rate) < PayoutOf(First(ranked, n), rate)}

\* Errors and an empty choice are the same to the callers.
SelectPrevouts(coins, rate) ==
    LET ranked == Ranked(coins, rate)
    IN  UNION {First(ranked, n) : n \in Best(ranked, rate)}

IsTooLarge(n) == MaxVsize(n) > MaxSize

-----------------------------------------------------------------------------
(* builder.rs and verify.rs *)

Transaction(coins, output, size) ==
    [inputs |-> Outpoints(coins), output |-> output, size |-> size]

\* build_signed_claim: what it may return, as signatures differ in length, or Absent
\* for one of its errors.  Its callers keep the rate within its limits; coins are
\* distinct and pay the key's address.
Built(coins, rate) ==
    LET chosen == SelectPrevouts(coins, rate)
        output == PayoutOf(chosen, rate)
    IN  IF chosen = {} \/ IsTooLarge(Cardinality(chosen)) \/ output < Dust
        THEN {Absent}
        ELSE {Transaction(chosen, output, size) : size \in ActualSizes(Cardinality(chosen))}

\* FAULT: any fee that is high enough will do.
CheckFeeFloor(spent, output, rate) ==
    ValueOf(spent) - output >= Fee(Cardinality(spent), rate)

CheckFee(spent, output, rate) ==
    ValueOf(spent) - output = Fee(Cardinality(spent), rate)

\* verify_signed_claim chooses the coins again, trusts no total of the builder, and
\* weighs the transaction itself.
Verified(transaction, coins, rate) ==
    LET chosen == SelectPrevouts(coins, rate)
        spent == {coin \in coins : Outpoint(coin) \in transaction.inputs}
    IN  /\ chosen # {}
        /\ transaction.size <= MaxSize
        /\ transaction.inputs = Outpoints(chosen)
        /\ transaction.output <= ValueOf(spent)
        /\ CheckFee(spent, transaction.output, rate)
        /\ transaction.output >= Dust
=============================================================================
