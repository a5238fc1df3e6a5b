------------------------- MODULE ClaimSourcesProofs -------------------------
(***************************************************************************)
(* What a claim may rely on of what it is told, from the selection of its  *)
(* inputs down to the bytes of an answer.                                  *)
(*                                                                         *)
(* ClaimInputs: for all transactions, every pair of sources and every size *)
(* of the cache.  ClaimNetwork: whatever goes wrong on the way to the         *)
(* network - a curl process that fails or dies, an answer that is cut,     *)
(* late, too large or a proxy's, a node of another chain - the claim       *)
(* service is told nothing that its peer has not decided, and nothing but  *)
(* the requests of the claim leaves the machine; for all transactions,     *)
(* rates, limits, pipes and sizes of bodies.  That proof follows a         *)
(* request: what is allowed (AllowList), the process and the bytes between *)
(* it and execute (CurlTransport), the answer of the peer against its      *)
(* decision, and what is parsed of it (SlipstreamClient); then the         *)
(* questions of the rehearsal (RegtestClient).                             *)
(***************************************************************************)
EXTENDS ClaimInputs, ClaimNetwork, FiniteSetTheorems, SequenceTheorems, WellFoundedInduction, TLAPS

-----------------------------------------------------------------------------
(* The inputs of a claim *)

CoinOf(e) == [tx |-> e.tx, vout |-> e.vout, value |-> e.value]

\* Bytes are kept only under the id they were recognised by.
Recognised ==
    /\ DOMAIN raws \cup DOMAIN transactions \subseteq Servable
    /\ \A t \in DOMAIN raws : raws[t] = t
    /\ \A t \in DOMAIN transactions : transactions[t] = t

\* What is known of the sources while a fetch goes on and after it failed.
FetchKnown ==
    /\ reliable \subseteq Sources
    /\ step \in {"idle", "load", "build"}
    /\ step # "idle" => failure = "none" /\ rate = Absent /\ lists[1] \in Lists
    /\ step # "idle" \/ rate # Absent => Confirmed(lists[1]) = Confirmed(lists[2])

\* Outside a finished fetch nothing is accepted.
AcceptedKnown ==
    /\ step = "build" \/ rate # Absent => accepted = {CoinOf(e) : e \in Listed}
    /\ ~(step = "build" \/ rate # Absent) => accepted = {}

\* Every accepted coin is an output that pays the puzzle address, with its amount.
CoinsAreExact ==
    \A c \in accepted :
        /\ c.vout \in DOMAIN Outputs[c.tx]
        /\ Outputs[c.tx][c.vout] = [pays |-> TRUE, value |-> c.value]

IInv == Recognised /\ FetchKnown /\ AcceptedKnown /\ CoinsAreExact /\ OneSourceSuffices

\* The initial state satisfies the invariant.
LEMMA InitInv == Init => IInv
  BY SMT DEF Init, IInv, Recognised, FetchKnown, AcceptedKnown, CoinsAreExact,
     OneSourceSuffices, NoRaws, Sources

\* An insertion keeps the cache free of bytes under a wrong id.
LEMMA InsertRecognises ==
  ASSUME NEW t, Insert(t, t), \A u \in DOMAIN transactions : transactions[u] = u
  PROVE  /\ DOMAIN transactions' \subseteq DOMAIN transactions \cup {t}
         /\ \A u \in DOMAIN transactions' : transactions'[u] = u
  BY DEF Insert, cacheVars

\* A reliable source has the last word on what is loaded.
LEMMA ReliableAnswers ==
  ASSUME NEW t \in Servable, reliable \subseteq Sources, reliable # {},
         NEW first \in Answers(1, t), NEW second \in Answers(2, t)
  PROVE  Fallback(t, first, second) = t
  BY DEF Answers, Fallback, Sources

\* A fetch that fails leaves nothing accepted.
LEMMA FailInv ==
  ASSUME IInv, NEW where, Fail(where), where # "raw", UNCHANGED cacheVars, reliable' \subseteq Sources
  PROVE  IInv'
  BY DEF IInv, Recognised, FetchKnown, AcceptedKnown, CoinsAreExact, OneSourceSuffices,
     Fail, NoRaws, cacheVars

\* Every step preserves the invariant.
LEMMA NextInv == IInv /\ [Next]_vars => IInv'
<1> SUFFICES ASSUME IInv, [Next]_vars PROVE IInv' OBVIOUS
<1> USE DEF IInv
<1>1. CASE FetchLists
  BY <1>1 DEF FetchLists, Recognised, FetchKnown, AcceptedKnown, CoinsAreExact,
     OneSourceSuffices, NoRaws, cacheVars, Agree, Sources
<1>2. CASE FetchListsFails
  BY <1>2, FailInv DEF FetchListsFails
<1>3. ASSUME NEW t, LoadCached(t) PROVE IInv'
  BY <1>3 DEF LoadCached, Recognised, FetchKnown, AcceptedKnown, CoinsAreExact,
     OneSourceSuffices, cacheVars, Listed
<1>4. ASSUME NEW t, LoadFetched(t) PROVE IInv'
  <2>1. PICK first \in Answers(1, t), second \in Answers(2, t) : Fallback(t, first, second) = t
    BY <1>4 DEF LoadFetched
  <2>2. t \in Nat /\ step = "load"
    BY <1>4, InputsAssumption DEF LoadFetched, FetchKnown, Wanted, Listed, Confirmed, Entry
  <2>3. t \in Servable
    BY <2>1, <2>2, InputsAssumption DEF Answers, Fallback
  <2>4. Insert(t, t) /\ raws' = [u \in DOMAIN raws \cup {t} |-> IF u = t THEN t ELSE raws[u]]
    BY <1>4 DEF LoadFetched
  <2>5. Recognised'
    BY <2>3, <2>4, InsertRecognises DEF Recognised
  <2> QED
    BY <1>4, <2>5 DEF LoadFetched, FetchKnown, AcceptedKnown, CoinsAreExact,
       OneSourceSuffices, Listed
<1>5. ASSUME NEW t, LoadFails(t) PROVE IInv'
  <2>1. PICK first \in Answers(1, t), second \in Answers(2, t) : Fallback(t, first, second) # t
    BY <1>5 DEF LoadFails
  <2>2. reliable = {} \/ t \notin Servable
    BY <2>1, ReliableAnswers DEF FetchKnown
  <2>3. \E e \in Listed : e.tx = t
    BY <1>5 DEF LoadFails, Wanted
  <2>4. OneSourceSuffices'
    BY <1>5, <2>2, <2>3 DEF LoadFails, OneSourceSuffices, Listed
  <2> QED
    BY <1>5, <2>4 DEF LoadFails, Fail, NoRaws, Recognised, FetchKnown, AcceptedKnown,
       CoinsAreExact, cacheVars
<1>6. CASE VerifyPrevouts
  <2>1. /\ step = "load" /\ Wanted \subseteq DOMAIN raws
        /\ \A e \in Listed : IsVerified(e)
        /\ UNCHANGED <<transactions, order, bytes, lists, reliable, rate, claim, failure>>
    BY <1>6 DEF VerifyPrevouts, AllLoaded, cacheVars
  <2>2. \A e \in Listed : /\ raws[e.tx] = e.tx
                          /\ e.vout \in DOMAIN Outputs[e.tx]
                          /\ Outputs[e.tx][e.vout].pays
                          /\ Outputs[e.tx][e.vout].value = e.value
    BY <2>1 DEF IsVerified, IsPrevout
  <2>3. accepted' = {CoinOf(e) : e \in Listed}
    BY <1>6, <2>2 DEF VerifyPrevouts, CoinOf
  <2>4. ASSUME NEW e \in Listed
        PROVE  Outputs[e.tx][e.vout] = [pays |-> TRUE, value |-> e.value]
    <3>1. e.tx \in Servable
      BY <2>1 DEF Wanted, Recognised
    <3>2. Outputs[e.tx][e.vout] \in Output
      <4>1. Outputs[e.tx] \in Seq(Output)
        BY <3>1, InputsAssumption
      <4>2. e.vout \in DOMAIN Outputs[e.tx]
        BY <2>2
      <4> QED
        BY <4>1, <4>2
    <3> QED
      BY <2>2, <3>2 DEF Output
  <2>5. CoinsAreExact'
    <3> SUFFICES ASSUME NEW c \in accepted'
                 PROVE  /\ c.vout \in DOMAIN Outputs[c.tx]
                        /\ Outputs[c.tx][c.vout] = [pays |-> TRUE, value |-> c.value]
      BY DEF CoinsAreExact
    <3>1. PICK e \in Listed : c = CoinOf(e)
      BY <2>3
    <3>2. c.tx = e.tx /\ c.vout = e.vout /\ c.value = e.value
      BY <3>1 DEF CoinOf
    <3> QED
      BY <3>2, <2>2, <2>4
  <2>6. Recognised'
    BY <1>6, <2>1 DEF VerifyPrevouts, Recognised, NoRaws
  <2>7. step' = "build"
    BY <1>6 DEF VerifyPrevouts
  <2> QED
    BY <2>1, <2>3, <2>5, <2>6, <2>7 DEF FetchKnown, AcceptedKnown, OneSourceSuffices, Listed
<1>7. CASE VerifyPrevoutsFails
  BY <1>7, FailInv DEF VerifyPrevoutsFails, FetchKnown
<1>8. CASE Build
  <2>1. PICK r \in Rates : rate' = r
    BY <1>8 DEF Build
  <2>2. r # Absent
    BY InputsAssumption
  <2>3. /\ step = "build" /\ step' = "idle"
        /\ UNCHANGED <<transactions, order, bytes, lists, reliable, raws, accepted, failure>>
    BY <1>8 DEF Build, cacheVars
  <2> QED
    BY <2>1, <2>2, <2>3 DEF Recognised, FetchKnown, AcceptedKnown, CoinsAreExact,
       OneSourceSuffices, Listed
<1>9. CASE UNCHANGED vars
  BY <1>9 DEF vars, cacheVars, fetchVars, Recognised, FetchKnown, AcceptedKnown, CoinsAreExact,
     OneSourceSuffices, Listed
<1> QED
  BY <1>1, <1>2, <1>3, <1>4, <1>5, <1>6, <1>7, <1>8, <1>9 DEF Next, Loading

\* The invariant holds of every reachable state.
THEOREM FetchIsSafe == Spec => []IInv
  BY InitInv, NextInv, PTL DEF Spec

\* The accepted coins are exactly those that both sources list as confirmed, and each is an
\* output of the transaction with the listed id, pays the puzzle address and has the amount
\* it counts with, whatever outputs and amounts the lists name (fetch_verified_prevouts,
\* verify_prevout).
THEOREM CoinsAreSafe == Spec => []CoinsAreAgreedAndExact
<1>1. IInv => CoinsAreAgreedAndExact
  <2> SUFFICES ASSUME IInv PROVE CoinsAreAgreedAndExact
    OBVIOUS
  <2>1. ASSUME step = "build" \/ rate # Absent, NEW s \in Sources
        PROVE  accepted = {CoinOf(e) : e \in Confirmed(lists[s])}
    BY <2>1 DEF IInv, FetchKnown, AcceptedKnown, Listed, Sources
  <2> QED
    BY <2>1 DEF IInv, CoinsAreExact, CoinsAreAgreedAndExact, CoinOf
<1> QED
  BY <1>1, FetchIsSafe, PTL

\* A fetch whose lists name ids of transactions fails for want of one only if no source
\* serves them, whatever the bounds of the cache (load_raw_tx).
THEOREM OneSourceIsEnough == Spec => []OneSourceSuffices
<1>1. IInv => OneSourceSuffices
  BY DEF IInv
<1> QED
  BY <1>1, FetchIsSafe, PTL

\* The cache never holds other bytes under an id than the transaction with that id.
THEOREM CacheIsAuthentic == Spec => [](\A t \in DOMAIN transactions : transactions[t] = t)
<1>1. IInv => \A t \in DOMAIN transactions : transactions[t] = t
  BY DEF IInv, Recognised
<1> QED
  BY <1>1, FetchIsSafe, PTL

-----------------------------------------------------------------------------
(* The cache.  What it counts is a sum over a set, which the library folds in  *)
(* an order that it chooses.                                                   *)

\* A set of natural numbers that is not empty has a least element.
LEMMA LeastExists ==
    ASSUME NEW T, T \subseteq Nat, T # {}
    PROVE  \E n \in T : \A m \in T : n <= m
<1>. DEFINE R == OpToRel(<, Nat)
<1>1. IsWellFoundedOn(R, Nat)
  BY NatLessThanWellFounded
<1>2. \A m, n \in Nat : m < n => <<m, n>> \in R
  BY DEF OpToRel
<1>. HIDE DEF R
<1>3. \E n \in T : \A m \in T : ~ (<<m, n>> \in R)
  BY <1>1, WFMin
<1>4. PICK n \in T : \A m \in T : ~ (<<m, n>> \in R)
  BY <1>3
<1>5. \A m \in T : ~ (m < n)
  BY <1>2, <1>4
<1>6. \A m \in T : n <= m
  BY <1>5
<1>. QED
  BY <1>6

\* A set of finite sets that is not empty has one with the fewest elements.
LEMMA SmallestExists ==
    ASSUME NEW F, F # {}, \A s \in F : IsFiniteSet(s)
    PROVE  \E s \in F : \A t \in F : Cardinality(s) <= Cardinality(t)
<1>1. \A s \in F : Cardinality(s) \in Nat
  BY FS_CardinalityType
<1>2. PICK n \in {Cardinality(s) : s \in F} : \A m \in {Cardinality(s) : s \in F} : n <= m
  BY <1>1, LeastExists
<1>. QED
  BY <1>2

\* What goes down to a smaller set from every set it holds of is not true of any.
LEMMA NoDescent ==
    ASSUME NEW S, IsFiniteSet(S), NEW F \in SUBSET SUBSET S, {} \notin F,
           \A s \in F : s # {} => \E x \in s : s \ {x} \in F
    PROVE  F = {}
<1>. SUFFICES ASSUME F # {} PROVE FALSE
  OBVIOUS
<1>1. \A s \in F : IsFiniteSet(s)
  BY FS_Subset
<1>2. PICK s \in F : \A t \in F : Cardinality(s) <= Cardinality(t)
  BY <1>1, SmallestExists
<1>3. PICK x \in s : s \ {x} \in F
  BY <1>2
<1>4. IsFiniteSet(s) /\ Cardinality(s \ {x}) = Cardinality(s) - 1 /\ Cardinality(s) \in Nat
  BY <1>1, <1>2, <1>3, FS_RemoveElement, FS_CardinalityType
<1>5. Cardinality(s) <= Cardinality(s \ {x})
  BY <1>2, <1>3
<1>. QED
  BY <1>4, <1>5

\* The sums of the weights of all subsets, one element at a time and in any order.
IsSum(f, w, S) ==
    /\ f \in [SUBSET S -> Nat]
    /\ f[{}] = 0
    /\ \A s \in SUBSET S : \A x \in s : f[s] = w[x] + f[s \ {x}]

\* There are such sums for every finite set.
LEMMA SumExists ==
    ASSUME NEW S, IsFiniteSet(S), NEW w \in [S -> Nat]
    PROVE  \E f : IsSum(f, w, S)
<1>. DEFINE F == {s \in SUBSET S : ~ \E f : IsSum(f, w, s)}
<1>1. F = {} => \E f : IsSum(f, w, S)
  OBVIOUS
<1>2. {} \notin F
  <2>. DEFINE f == [t \in SUBSET {} |-> 0]
  <2>1. IsSum(f, w, {})
    BY DEF IsSum
  <2>. QED
    BY <2>1
<1>3. SUFFICES ASSUME NEW s \in F, NEW x \in s, s \ {x} \notin F PROVE FALSE
  <2>1. \A s \in F : s # {} => \E x \in s : s \ {x} \in F
    BY <1>3
  <2>. HIDE DEF F
  <2>2. F \in SUBSET SUBSET S
    BY DEF F
  <2>. QED
    BY <1>1, <1>2, <2>1, <2>2, NoDescent
<1>. DEFINE r == s \ {x}
<1>6. PICK f : IsSum(f, w, r)
  BY <1>3
<1>7. w[x] \in Nat
  OBVIOUS
<1>. DEFINE g == [t \in SUBSET s |-> IF x \in t THEN w[x] + f[t \ {x}] ELSE f[t]]
<1>8. \A t \in SUBSET s : t \ {x} \in SUBSET r /\ (x \notin t => t \in SUBSET r)
  OBVIOUS
<1>9. g \in [SUBSET s -> Nat] /\ g[{}] = 0
  BY <1>6, <1>7, <1>8 DEF IsSum
<1>10. ASSUME NEW t \in SUBSET s, NEW y \in t PROVE g[t] = w[y] + g[t \ {y}]
  <2>0. w[y] \in Nat
    OBVIOUS
  <2>1. CASE x \notin t
    <3>1. t \in SUBSET r /\ x \notin t \ {y} /\ t \ {y} \in SUBSET s
      BY <2>1
    <3>. QED
      BY <3>1, <2>1, <1>6 DEF IsSum
  <2>2. CASE x \in t /\ y = x
    <3>1. t \ {x} \in SUBSET s /\ x \notin t \ {x}
      OBVIOUS
    <3>. QED
      BY <3>1, <2>2
  <2>3. CASE x \in t /\ y # x
    <3>1. /\ t \ {x} \in SUBSET r /\ y \in t \ {x} /\ t \ {y} \in SUBSET s /\ x \in t \ {y}
          /\ (t \ {x}) \ {y} = (t \ {y}) \ {x} /\ (t \ {x}) \ {y} \in SUBSET r
      BY <2>3
    <3>2. f[t \ {x}] = w[y] + f[(t \ {x}) \ {y}] /\ f[(t \ {x}) \ {y}] \in Nat
      BY <3>1, <1>6 DEF IsSum
    <3>3. g[t] = w[x] + f[t \ {x}] /\ g[t \ {y}] = w[x] + f[(t \ {y}) \ {x}]
      BY <2>3, <3>1
    <3>4. f[(t \ {x}) \ {y}] = f[(t \ {y}) \ {x}]
      BY <3>1
    <3>. HIDE DEF g
    <3>5. \A a, b, c \in Nat : a + (b + c) = b + (a + c)
      OBVIOUS
    <3>6. g[t] = w[x] + (w[y] + f[(t \ {y}) \ {x}])
      BY <3>2, <3>3, <3>4
    <3>7. f[(t \ {y}) \ {x}] \in Nat
      BY <3>2, <3>4
    <3>. QED
      BY <3>3, <3>5, <3>6, <3>7, <1>7, <2>0
  <2>. QED
    BY <2>1, <2>2, <2>3
<1>11. IsSum(g, w, s)
  <2>. HIDE DEF g
  <2>. QED
    BY <1>9, <1>10 DEF IsSum
<1>. QED
  BY <1>11

\* What a fold does: it takes some element, and goes on with the others.
IsFold(g, w, S) ==
    /\ g[{}] = 0
    /\ \A s \in SUBSET S : s # {} => \E x \in s : g[s] = w[x] + g[s \ {x}]

\* Whichever element a fold takes next, it computes these sums.
LEMMA FoldIsSum ==
    ASSUME NEW S, IsFiniteSet(S), NEW w, NEW f, IsSum(f, w, S), NEW g, IsFold(g, w, S)
    PROVE  g[S] = f[S]
<1>. DEFINE F == {s \in SUBSET S : f[s] # g[s]}
<1>1. f[{}] = g[{}]
  BY DEF IsSum, IsFold
<1>2. ASSUME NEW s \in F, s # {} PROVE \E x \in s : s \ {x} \in F
  <2>1. PICK x \in s : g[s] = w[x] + g[s \ {x}]
    BY <1>2 DEF IsFold
  <2>2. f[s] = w[x] + f[s \ {x}]
    BY <2>1 DEF IsSum
  <2>. QED
    BY <2>1, <2>2
<1>3. F \in SUBSET SUBSET S /\ {} \notin F
  BY <1>1
<1>4. F = {}
  <2>. HIDE DEF F
  <2>. QED
    BY <1>2, <1>3, NoDescent
<1>. QED
  BY <1>4

\* The size of a set of transactions, in terms of a smaller one.
LEMMA BytesOfSets ==
    ASSUME NEW S \in SUBSET Servable, IsFiniteSet(S)
    PROVE  /\ BytesOf(S) \in Nat /\ BytesOf({}) = 0
           /\ \A t \in S : BytesOf(S) = RawLength[t] + BytesOf(S \ {t})
<1>. DEFINE w == [t \in S |-> RawLength[t]]
<1>1. w \in [S -> Nat]
  BY InputsAssumption
<1>2. \A t \in S : w[t] = RawLength[t]
  OBVIOUS
<1>. HIDE DEF w
<1>3. PICK f : IsSum(f, w, S)
  BY <1>1, SumExists
<1>4. ASSUME NEW s \in SUBSET S PROVE BytesOf(s) = f[s]
  <2>. DEFINE Pick(u) == CHOOSE x \in u : TRUE
              Folds(g) == g = [u \in SUBSET s |-> IF u = {} THEN 0
                                                 ELSE RawLength[Pick(u)] + g[u \ {Pick(u)}]]
              f2 == [u \in SUBSET s |-> f[u]]
              g2 == CHOOSE g : Folds(g)
  <2>1. \A u \in SUBSET s : u # {} => Pick(u) \in u
    OBVIOUS
  <2>2. IsSum(f2, w, s)
    BY <1>3 DEF IsSum
  <2>3. BytesOf(s) = g2[s]
    BY DEF BytesOf, MapThenSumSet, MapThenFoldSet
  <2>. HIDE DEF Pick
  <2>4. Folds(f2)
    <3>1. f2[{}] = 0 /\ f2 = [u \in SUBSET s |-> f2[u]]
      BY <2>2 DEF IsSum
    <3>. HIDE DEF f2
    <3>2. \A u \in SUBSET s : u # {} => f2[u] = RawLength[Pick(u)] + f2[u \ {Pick(u)}]
      BY <1>2, <2>1, <2>2 DEF IsSum
    <3>. QED
      BY <3>1, <3>2
  <2>5. Folds(g2)
    <3>. HIDE DEF Folds
    <3>. QED
      BY <2>4
  <2>. HIDE DEF g2
  <2>6. IsFold(g2, w, s)
    <3>1. g2[{}] = 0 /\ \A u \in SUBSET s : u # {} => g2[u] = RawLength[Pick(u)] + g2[u \ {Pick(u)}]
      BY <2>5
    <3>2. ASSUME NEW u \in SUBSET s, u # {} PROVE \E x \in u : g2[u] = w[x] + g2[u \ {x}]
      <4>1. Pick(u) \in u /\ w[Pick(u)] = RawLength[Pick(u)]
        BY <1>2, <2>1, <3>2
      <4>2. g2[u] = w[Pick(u)] + g2[u \ {Pick(u)}]
        BY <3>1, <3>2, <4>1
      <4>. QED
        BY <4>1, <4>2
    <3>. QED
      BY <3>1, <3>2 DEF IsFold
  <2>7. IsFiniteSet(s)
    BY FS_Subset
  <2>. HIDE DEF f2
  <2>8. g2[s] = f2[s]
    BY <2>2, <2>6, <2>7, FoldIsSum
  <2>. QED
    BY <2>3, <2>8 DEF f2
<1>. QED
  BY <1>2, <1>3, <1>4 DEF IsSum

\* The sum of a set is that of a part of it and of the rest.
LEMMA BytesOfParts ==
    ASSUME NEW S \in SUBSET Servable, IsFiniteSet(S), NEW T \in SUBSET S
    PROVE  BytesOf(S) = BytesOf(T) + BytesOf(S \ T)
<1>. DEFINE F == {s \in SUBSET S : BytesOf(s) # BytesOf(s \cap T) + BytesOf(s \ T)}
<1>1. {} \notin F
  <2>1. BytesOf({}) = 0 /\ {} \cap T = {} /\ {} \ T = {}
    BY BytesOfSets
  <2>2. BytesOf({}) = BytesOf({} \cap T) + BytesOf({} \ T)
    BY <2>1
  <2>. QED
    BY <2>2
<1>2. ASSUME NEW s \in SUBSET S, NEW x \in s, s \ {x} \notin F PROVE s \notin F
  <2>. DEFINE r == s \ {x}
  <2>1. BytesOf(r) = BytesOf(r \cap T) + BytesOf(r \ T)
    BY <1>2
  <2>2. ASSUME NEW u \in SUBSET S
        PROVE  BytesOf(u) \in Nat /\ \A y \in u : BytesOf(u) = RawLength[y] + BytesOf(u \ {y})
    <3>1. IsFiniteSet(u) /\ u \in SUBSET Servable
      BY FS_Subset
    <3>. QED
      BY <3>1, BytesOfSets
  <2>3. BytesOf(s) = RawLength[x] + BytesOf(r) /\ BytesOf(r) \in Nat /\ RawLength[x] \in Nat
    BY <2>2, InputsAssumption
  <2>4. CASE x \in T
    <3>1. r \ T = s \ T /\ r \cap T = (s \cap T) \ {x} /\ x \in s \cap T
      BY <2>4
    <3>2. /\ BytesOf(s \cap T) = RawLength[x] + BytesOf(r \cap T)
          /\ BytesOf(r \cap T) \in Nat /\ BytesOf(s \ T) \in Nat
          /\ BytesOf(r \ T) = BytesOf(s \ T)
      <4>1. s \cap T \in SUBSET S /\ r \cap T \in SUBSET S /\ s \ T \in SUBSET S
        OBVIOUS
      <4>2. BytesOf(s \cap T) = RawLength[x] + BytesOf((s \cap T) \ {x})
        BY <2>2, <3>1, <4>1
      <4>3. BytesOf(r \cap T) \in Nat /\ BytesOf(s \ T) \in Nat
        BY <2>2, <4>1
      <4>. HIDE DEF r
      <4>. QED
        BY <3>1, <4>2, <4>3
    <3>3. BytesOf(s) = BytesOf(s \cap T) + BytesOf(s \ T)
      <4>. HIDE DEF r
      <4>. QED
        BY <2>1, <2>3, <3>2
    <3>. QED
      BY <3>3
  <2>5. CASE x \notin T
    <3>1. r \cap T = s \cap T /\ r \ T = (s \ T) \ {x} /\ x \in s \ T
      BY <2>5
    <3>2. /\ BytesOf(s \ T) = RawLength[x] + BytesOf(r \ T)
          /\ BytesOf(r \ T) \in Nat /\ BytesOf(s \cap T) \in Nat
          /\ BytesOf(r \cap T) = BytesOf(s \cap T)
      BY <2>2, <3>1
    <3>3. BytesOf(s) = BytesOf(s \cap T) + BytesOf(s \ T)
      <4>. HIDE DEF r
      <4>. QED
        BY <2>1, <2>3, <3>2
    <3>. QED
      BY <3>3
  <2>. QED
    BY <2>4, <2>5
<1>3. F \in SUBSET SUBSET S /\ \A s \in F : s # {} => \E x \in s : s \ {x} \in F
  BY <1>2
<1>4. F = {}
  <2>. HIDE DEF F
  <2>. QED
    BY <1>1, <1>3, NoDescent
<1>5. S \cap T = T
  OBVIOUS
<1>. QED
  BY <1>4, <1>5

IdsOf(ids) == {ids[i] : i \in DOMAIN ids}

IsOneToOne(ids) == \A i, j \in DOMAIN ids : ids[i] = ids[j] => i = j

\* The ids in order are those of the map, each once, and the counter is their size.
CacheInv ==
    /\ order \in Seq(Servable) /\ IsOneToOne(order)
    /\ DOMAIN transactions = IdsOf(order)
    /\ bytes = BytesOf(IdsOf(order))
    /\ Len(order) <= MaxEntries /\ bytes <= MaxBytes

\* A sequence that repeats nothing has as many elements as its length.
LEMMA OneToOneCounts ==
    ASSUME NEW ids \in Seq(Servable), IsOneToOne(ids)
    PROVE  /\ IsFiniteSet(IdsOf(ids)) /\ Cardinality(IdsOf(ids)) = Len(ids)
           /\ IdsOf(ids) \in SUBSET Servable
<1>1. ids \in Bijection(1 .. Len(ids), IdsOf(ids))
  BY DEF IsOneToOne, IdsOf, Bijection, Injection, Surjection, IsInjective
<1>2. IsFiniteSet(1 .. Len(ids)) /\ Cardinality(1 .. Len(ids)) = Len(ids)
  <2>1. 1 \in Int /\ Len(ids) \in Int /\ Len(ids) >= 0
    OBVIOUS
  <2>2. Cardinality(1 .. Len(ids)) = IF 1 > Len(ids) THEN 0 ELSE Len(ids) - 1 + 1
    BY <2>1, FS_Interval
  <2>. QED
    BY <2>1, <2>2, FS_Interval, SMTT(30)
<1>3. ExistsBijection(1 .. Len(ids), IdsOf(ids))
  BY <1>1 DEF ExistsBijection
<1>. QED
  BY <1>2, <1>3, FS_Bijection DEF IdsOf

\* The eviction stops where there is room, or when nothing is left.
LEMMA DroppedIsEnough ==
    ASSUME NEW t, order \in Seq(Servable)
    PROVE  /\ Dropped(t) \in 0 .. Len(order)
           /\ MakesRoom(Dropped(t), t) \/ Dropped(t) = Len(order)
<1>. DEFINE T == {n \in 0 .. Len(order) : MakesRoom(n, t) \/ n = Len(order)}
<1>1. T \subseteq Nat /\ T # {}
  <2>1. Len(order) \in T
    OBVIOUS
  <2>. QED
    BY <2>1
<1>2. PICK n \in T : \A m \in T : n <= m
  <2>. HIDE DEF T
  <2>. QED
    BY <1>1, LeastExists
<1>3. \A m \in 0 .. n - 1 : ~ MakesRoom(m, t)
  BY <1>2
<1>4. \E k \in 0 .. Len(order) : /\ MakesRoom(k, t) \/ k = Len(order)
                                 /\ \A m \in 0 .. k - 1 : ~ MakesRoom(m, t)
  BY <1>2, <1>3
<1>. QED
  BY <1>4, Zenon DEF Dropped

\* An insertion keeps the map, the order and the counter together, and within bounds.
LEMMA InsertKeepsCache ==
    ASSUME CacheInv, NEW t \in Servable, Insert(t, t)
    PROVE  CacheInv'
<1>. DEFINE n == Dropped(t)
            gone == {order[i] : i \in 1 .. n}
            kept == DOMAIN transactions \ gone
<1>1. CASE RawLength[t] > MaxBytes \/ t \in DOMAIN transactions
  <2>1. UNCHANGED <<transactions, order, bytes>>
    BY <1>1 DEF Insert, cacheVars
  <2>. QED
    BY <2>1 DEF CacheInv
<1>2. CASE ~ (RawLength[t] > MaxBytes \/ t \in DOMAIN transactions)
  <2>1. /\ transactions' = [u \in kept \cup {t} |-> IF u = t THEN t ELSE transactions[u]]
        /\ order' = Append(SubSeq(order, n + 1, Len(order)), t)
        /\ bytes' = bytes - BytesOf(gone) + RawLength[t]
    BY <1>2 DEF Insert
  <2>2. n \in 0 .. Len(order) /\ (MakesRoom(n, t) \/ n = Len(order))
    BY DroppedIsEnough DEF CacheInv
  <2>3. order \in Seq(Servable) /\ IsOneToOne(order) /\ DOMAIN transactions = IdsOf(order)
    BY DEF CacheInv
  <2>4. t \notin IdsOf(order) /\ RawLength[t] \in Nat /\ RawLength[t] <= MaxBytes
    <3>1. RawLength[t] \in Nat /\ MaxBytes \in Nat
      BY InputsAssumption
    <3>. QED
      BY <1>2, <2>3, <3>1
  <2>. HIDE DEF n
  <2>5. gone \in SUBSET IdsOf(order)
    BY <2>2, <2>3 DEF IdsOf
  <2>6. kept = {order[i] : i \in n + 1 .. Len(order)}
    <3>1. ASSUME NEW i \in n + 1 .. Len(order) PROVE order[i] \in kept
      BY <2>2, <2>3 DEF IdsOf, IsOneToOne
    <3>2. ASSUME NEW u \in kept PROVE \E i \in n + 1 .. Len(order) : u = order[i]
      <4>1. PICK i \in 1 .. Len(order) : u = order[i]
        BY <2>3 DEF IdsOf
      <4>2. ~ (i \in 1 .. n)
        BY <4>1
      <4>3. i \in n + 1 .. Len(order)
        BY <2>2, <2>3, <4>2
      <4>. QED
        BY <4>1, <4>3
    <3>. HIDE DEF kept
    <3>. QED
      BY <3>1, <3>2
  <2>7. /\ order' \in Seq(Servable) /\ Len(order') = Len(order) - n + 1
        /\ \A i \in 1 .. Len(order) - n : order'[i] = order[i + n]
        /\ order'[Len(order) - n + 1] = t
    BY <2>1, <2>2, <2>3
  <2>8. IdsOf(order') = kept \cup {t}
    <3>1. \A i \in 1 .. Len(order) - n + 1 : order'[i] \in kept \cup {t}
      <4>. TAKE i \in 1 .. Len(order) - n + 1
      <4>1. CASE i = Len(order) - n + 1
        BY <2>7, <4>1
      <4>2. CASE i # Len(order) - n + 1
        <5>1. i \in 1 .. Len(order) - n /\ i + n \in n + 1 .. Len(order)
          BY <2>2, <2>3, <4>2
        <5>. HIDE DEF kept
        <5>. QED
          BY <2>6, <2>7, <5>1
      <4>. QED
        BY <4>1, <4>2
    <3>2. ASSUME NEW u \in kept PROVE u \in IdsOf(order')
      <4>1. PICK i \in n + 1 .. Len(order) : u = order[i]
        BY <2>6
      <4>2. i - n \in 1 .. Len(order) - n /\ (i - n) + n = i
        BY <2>2, <2>3
      <4>3. order'[i - n] = u /\ i - n \in DOMAIN order'
        BY <2>2, <2>3, <2>7, <4>1, <4>2
      <4>. QED
        BY <4>3 DEF IdsOf
    <3>3. t \in IdsOf(order')
      BY <2>2, <2>3, <2>7 DEF IdsOf
    <3>. HIDE DEF kept
    <3>. QED
      BY <2>7, <3>1, <3>2, <3>3 DEF IdsOf
  <2>9. IsOneToOne(order')
    <3>. SUFFICES ASSUME NEW i \in 1 .. Len(order) - n + 1, NEW j \in 1 .. Len(order) - n + 1,
                         order'[i] = order'[j]
                  PROVE  i = j
      BY <2>7 DEF IsOneToOne
    <3>1. \A k \in 1 .. Len(order) - n : order'[k] \in IdsOf(order) /\ k + n \in DOMAIN order
      BY <2>2, <2>3, <2>7, SMTT(30) DEF IdsOf
    <3>2. ASSUME NEW k \in 1 .. Len(order) - n + 1, order'[k] = t PROVE k = Len(order) - n + 1
      <4>1. k \in 1 .. Len(order) - n => order'[k] \in IdsOf(order)
        BY <3>1
      <4>. QED
        BY <2>2, <2>3, <2>4, <3>2, <4>1
    <3>3. CASE i # Len(order) - n + 1 /\ j # Len(order) - n + 1
      <4>1. i \in 1 .. Len(order) - n /\ j \in 1 .. Len(order) - n
        BY <2>2, <2>3, <3>3
      <4>2. order[i + n] = order[j + n] /\ i + n \in DOMAIN order /\ j + n \in DOMAIN order
        BY <2>7, <3>1, <4>1
      <4>3. i + n = j + n
        BY <2>3, <4>2 DEF IsOneToOne
      <4>. QED
        BY <2>2, <4>1, <4>3
    <3>. QED
      BY <2>7, <3>2, <3>3
  <2>10. bytes' = BytesOf(kept) + RawLength[t] /\ BytesOf(kept) \in Nat
    <3>1. IsFiniteSet(IdsOf(order)) /\ IdsOf(order) \in SUBSET Servable
      BY <2>3, OneToOneCounts
    <3>2. IsFiniteSet(kept) /\ IsFiniteSet(gone) /\ kept = IdsOf(order) \ gone
      BY <2>3, <2>5, <3>1, FS_Subset
    <3>3. BytesOf(IdsOf(order)) = BytesOf(gone) + BytesOf(kept)
      BY <2>5, <3>1, <3>2, BytesOfParts
    <3>4. BytesOf(gone) \in Nat /\ BytesOf(kept) \in Nat
      <4>1. gone \in SUBSET Servable /\ kept \in SUBSET Servable
        BY <2>3, <2>5, <3>1
      <4>. HIDE DEF gone, kept
      <4>. QED
        BY <3>2, <4>1, BytesOfSets
    <3>5. bytes = BytesOf(gone) + BytesOf(kept)
      BY <3>3 DEF CacheInv
    <3>. HIDE DEF gone, kept
    <3>. QED
      BY <2>1, <2>4, <3>4, <3>5
  <2>11. BytesOf(IdsOf(order')) = BytesOf(kept) + RawLength[t]
    <3>1. IsFiniteSet(IdsOf(order')) /\ IdsOf(order') \in SUBSET Servable
      BY <2>7, <2>9, OneToOneCounts
    <3>2. IdsOf(order') \ {t} = kept /\ t \in IdsOf(order')
      BY <2>3, <2>4, <2>8
    <3>3. BytesOf(IdsOf(order')) = RawLength[t] + BytesOf(kept)
      BY <3>1, <3>2, BytesOfSets
    <3>. HIDE DEF gone, kept
    <3>. QED
      BY <2>4, <2>10, <3>3
  <2>12. Len(order') <= MaxEntries /\ bytes' <= MaxBytes
    <3>1. CASE MakesRoom(n, t)
      <4>1. /\ Len(order) - n < MaxEntries
            /\ bytes - BytesOf(gone) + RawLength[t] <= MaxBytes
        BY <3>1 DEF MakesRoom
      <4>2. Len(order) \in Nat /\ MaxEntries \in Nat /\ n \in Nat
        BY <2>2, <2>3, InputsAssumption
      <4>. HIDE DEF gone
      <4>. QED
        BY <2>1, <2>7, <4>1, <4>2
    <3>2. CASE n = Len(order)
      <4>1. Len(order') = 1 /\ MaxEntries \in Nat \ {0}
        BY <2>3, <2>7, <3>2, InputsAssumption
      <4>2. kept = {}
        BY <2>2, <2>3, <2>6, <3>2
      <4>3. BytesOf(kept) = 0
        BY <4>2, FS_EmptySet, BytesOfSets
      <4>. HIDE DEF kept
      <4>. QED
        BY <2>4, <2>10, <4>1, <4>3
    <3>. QED
      BY <2>2, <3>1, <3>2
  <2>13. DOMAIN transactions' = kept \cup {t}
    BY <2>1
  <2>. HIDE DEF gone, kept
  <2>. QED
    BY <2>7, <2>8, <2>9, <2>10, <2>11, <2>12, <2>13 DEF CacheInv
<1>. QED
  BY <1>1, <1>2

\* Every step preserves the cache: only a fetched transaction changes it.
LEMMA CacheStep == CacheInv /\ IInv /\ [Next]_vars => CacheInv'
<1>. SUFFICES ASSUME CacheInv, IInv, [Next]_vars PROVE CacheInv'
  OBVIOUS
<1>1. CASE UNCHANGED cacheVars
  BY <1>1 DEF CacheInv, cacheVars
<1>2. ASSUME NEW t, LoadFetched(t) PROVE CacheInv'
  <2>1. PICK first \in Answers(1, t), second \in Answers(2, t) :
            Fallback(t, first, second) = t /\ Insert(t, t)
    BY <1>2 DEF LoadFetched
  <2>2. t \in Nat
    BY <1>2, InputsAssumption DEF LoadFetched, IInv, FetchKnown, Wanted, Listed,
       Confirmed, Entry
  <2>3. t \in Servable
    BY <2>1, <2>2, InputsAssumption DEF Answers, Fallback
  <2>. QED
    BY <2>1, <2>3, InsertKeepsCache
<1>. QED
  BY <1>1, <1>2 DEF Next, Loading, vars, FetchLists, FetchListsFails, LoadCached, LoadFails,
     VerifyPrevouts, VerifyPrevoutsFails, Build

\* The cache starts empty.
LEMMA CacheInit == Init => CacheInv
<1>. SUFFICES ASSUME Init PROVE CacheInv
  OBVIOUS
<1>1. order = <<>> /\ bytes = 0 /\ DOMAIN transactions = {}
  BY DEF Init, NoRaws
<1>2. order \in Seq(Servable) /\ IsOneToOne(order) /\ IdsOf(order) = {} /\ Len(order) = 0
  BY <1>1 DEF IsOneToOne, IdsOf
<1>3. BytesOf({}) = 0
  BY FS_EmptySet, BytesOfSets
<1>4. 0 <= MaxEntries /\ 0 <= MaxBytes
  BY InputsAssumption
<1>. QED
  BY <1>1, <1>2, <1>3, <1>4 DEF CacheInv

\* Through every insertion and eviction the map, the order and the byte counter agree,
\* the number of entries and of bytes stay within their limits, whatever these are,
\* and under an id is the transaction with that id (RawTxCache).
THEOREM CacheIsSoundAlways == Spec => []CacheIsSound
<1>1. CacheInv /\ IInv => CacheIsSound
  <2>. SUFFICES ASSUME CacheInv, IInv PROVE CacheIsSound
    OBVIOUS
  <2>1. Cardinality(IdsOf(order)) = Len(order)
    BY OneToOneCounts DEF CacheInv
  <2>. QED
    BY <2>1 DEF CacheInv, CacheIsSound, IdsOf, IInv, Recognised
<1>. QED
  BY <1>1, CacheInit, CacheStep, FetchIsSafe, PTL DEF Spec

-----------------------------------------------------------------------------
(* The claim.  Coins are ranked once, and the prefix that pays most is taken:  *)
(* that no other set pays more rests on sums, ranks and fees.                  *)

\* The value of a set of coins, in terms of a smaller one.
LEMMA ValueOfSets ==
    ASSUME NEW S \in SUBSET Coin, IsFiniteSet(S)
    PROVE  /\ ValueOf(S) \in Nat /\ ValueOf({}) = 0
           /\ \A c \in S : ValueOf(S) = c.value + ValueOf(S \ {c})
<1>. DEFINE w == [c \in S |-> c.value]
<1>1. w \in [S -> Nat]
  BY DEF Coin
<1>2. \A c \in S : w[c] = c.value
  OBVIOUS
<1>. HIDE DEF w
<1>3. PICK f : IsSum(f, w, S)
  BY <1>1, SumExists
<1>4. ASSUME NEW s \in SUBSET S PROVE ValueOf(s) = f[s]
  <2>. DEFINE Pick(u) == CHOOSE x \in u : TRUE
              Folds(g) == g = [u \in SUBSET s |-> IF u = {} THEN 0
                                                 ELSE Pick(u).value + g[u \ {Pick(u)}]]
              f2 == [u \in SUBSET s |-> f[u]]
              g2 == CHOOSE g : Folds(g)
  <2>1. \A u \in SUBSET s : u # {} => Pick(u) \in u
    OBVIOUS
  <2>2. IsSum(f2, w, s)
    BY <1>3 DEF IsSum
  <2>3. ValueOf(s) = g2[s]
    BY DEF ValueOf, MapThenSumSet, MapThenFoldSet
  <2>. HIDE DEF Pick
  <2>4. Folds(f2)
    <3>1. f2[{}] = 0 /\ f2 = [u \in SUBSET s |-> f2[u]]
      BY <2>2 DEF IsSum
    <3>. HIDE DEF f2
    <3>2. \A u \in SUBSET s : u # {} => f2[u] = Pick(u).value + f2[u \ {Pick(u)}]
      BY <1>2, <2>1, <2>2 DEF IsSum
    <3>. QED
      BY <3>1, <3>2
  <2>5. Folds(g2)
    <3>. HIDE DEF Folds
    <3>. QED
      BY <2>4
  <2>. HIDE DEF g2
  <2>6. IsFold(g2, w, s)
    <3>1. g2[{}] = 0 /\ \A u \in SUBSET s : u # {} => g2[u] = Pick(u).value + g2[u \ {Pick(u)}]
      BY <2>5
    <3>2. ASSUME NEW u \in SUBSET s, u # {} PROVE \E x \in u : g2[u] = w[x] + g2[u \ {x}]
      <4>1. Pick(u) \in u /\ w[Pick(u)] = Pick(u).value
        BY <1>2, <2>1, <3>2
      <4>2. g2[u] = w[Pick(u)] + g2[u \ {Pick(u)}]
        BY <3>1, <3>2, <4>1
      <4>. QED
        BY <4>1, <4>2
    <3>. QED
      BY <3>1, <3>2 DEF IsFold
  <2>7. IsFiniteSet(s)
    BY FS_Subset
  <2>. HIDE DEF f2
  <2>8. g2[s] = f2[s]
    BY <2>2, <2>6, <2>7, FoldIsSum
  <2>. QED
    BY <2>3, <2>8 DEF f2
<1>. QED
  BY <1>2, <1>3, <1>4 DEF IsSum


\* What ranks the coins orders any two of them.
LEMMA RankingIsOrder ==
    ASSUME NEW a \in Coin, NEW b \in Coin
    PROVE  /\ ~ Precedes(a, a)
           /\ a # b => (Precedes(a, b) \/ Precedes(b, a)) /\ ~ (Precedes(a, b) /\ Precedes(b, a))
           /\ Precedes(a, b) => a.value >= b.value
           /\ \A c \in Coin : Precedes(a, b) /\ Precedes(b, c) => Precedes(a, c)
<1>1. \A c \in Coin : c.tx \in Nat /\ c.vout \in Nat /\ c.value \in Nat
  BY InputsAssumption DEF Coin
<1>2. a # b => a.tx # b.tx \/ a.vout # b.vout \/ a.value # b.value
  BY DEF Coin
<1>. QED
  BY <1>1, <1>2 DEF Precedes

Economic(S, r) == {coin \in S : IsEconomic(coin, r)}

\* A ranking of a set is a list of its elements in their order.
IsRanking(ranked, E) ==
    /\ IsFiniteSet(E) /\ E \in SUBSET Coin
    /\ ranked \in [1 .. Cardinality(E) -> E]
    /\ \A c \in E : \E i \in 1 .. Cardinality(E) : ranked[i] = c
    /\ \A i, j \in 1 .. Cardinality(E) : i < j => Precedes(ranked[i], ranked[j])

\* Counting those before a coin gives every coin a place of its own.
LEMMA RankedIsRanking ==
    ASSUME NEW S \in SUBSET Coin, IsFiniteSet(S), NEW r
    PROVE  IsRanking(Ranked(S, r), Economic(S, r))
<1>. DEFINE E == Economic(S, r)
            n == Cardinality(E)
            Before(c) == {other \in E : Precedes(other, c)}
            rank == [c \in E |-> Cardinality(Before(c))]
            ranked == [i \in 1 .. n |-> CHOOSE c \in E : Cardinality(Before(c)) = i - 1]
<1>1. IsFiniteSet(E) /\ n \in Nat /\ E \in SUBSET Coin
  BY FS_Subset, FS_CardinalityType DEF Economic
<1>2. Ranked(S, r) = ranked
  BY DEF Ranked, Economic
<1>. HIDE DEF E, n
<1>3. ASSUME NEW c \in E
      PROVE  IsFiniteSet(Before(c)) /\ Cardinality(Before(c)) \in 0 .. n - 1
  <2>1. Before(c) \in SUBSET (E \ {c})
    BY <1>1, RankingIsOrder
  <2>2. IsFiniteSet(E \ {c}) /\ Cardinality(E \ {c}) = n - 1
    BY <1>1, FS_RemoveElement DEF n
  <2>. HIDE DEF Before
  <2>3. IsFiniteSet(Before(c)) /\ Cardinality(Before(c)) <= Cardinality(E \ {c})
    BY <2>1, <2>2, FS_Subset
  <2>4. Cardinality(Before(c)) \in Nat
    BY <2>3, FS_CardinalityType
  <2>. QED
    BY <1>1, <2>2, <2>3, <2>4
<1>4. ASSUME NEW a \in E, NEW b \in E, Precedes(a, b)
      PROVE  Cardinality(Before(a)) < Cardinality(Before(b))
  <2>1. Before(a) \in SUBSET Before(b) /\ a \in Before(b) /\ a \notin Before(a)
    BY <1>1, <1>4, RankingIsOrder
  <2>. HIDE DEF Before
  <2>2. Cardinality(Before(a)) <= Cardinality(Before(b)) /\ Before(a) # Before(b)
    BY <1>3, <2>1, FS_Subset
  <2>3. Cardinality(Before(a)) # Cardinality(Before(b))
    BY <1>3, <2>1, <2>2, FS_Subset
  <2>. QED
    BY <1>3, <2>2, <2>3
<1>. HIDE DEF Before
<1>5. ASSUME NEW a \in E, NEW b \in E, Cardinality(Before(a)) = Cardinality(Before(b))
      PROVE  a = b
  BY <1>1, <1>3, <1>4, <1>5, RankingIsOrder
<1>6. rank \in Injection(E, 0 .. n - 1)
  BY <1>3, <1>5 DEF Injection, IsInjective
<1>7. IsFiniteSet(0 .. n - 1) /\ Cardinality(0 .. n - 1) = n
  <2>1. Cardinality(0 .. n - 1) = IF 0 > n - 1 THEN 0 ELSE (n - 1) - 0 + 1
    BY <1>1, FS_Interval
  <2>. QED
    BY <1>1, <2>1, FS_Interval
<1>8. rank \in Surjection(E, 0 .. n - 1)
  <2>. HIDE DEF rank
  <2>. QED
    BY <1>6, <1>7, FS_Injection DEF n
<1>9. \A i \in 1 .. n : \E c \in E : Cardinality(Before(c)) = i - 1
  <2>. TAKE i \in 1 .. n
  <2>1. i - 1 \in 0 .. n - 1
    BY <1>1
  <2>. QED
    BY <1>8, <2>1 DEF Surjection
<1>10. \A i \in 1 .. n : ranked[i] \in E /\ Cardinality(Before(ranked[i])) = i - 1
  BY <1>9
<1>11. ASSUME NEW c \in E PROVE \E i \in 1 .. n : ranked[i] = c
  <2>1. Cardinality(Before(c)) + 1 \in 1 .. n
    BY <1>1, <1>3
  <2>2. Cardinality(Before(c)) \in Int
    BY <1>3
  <2>. HIDE DEF ranked
  <2>3. ranked[Cardinality(Before(c)) + 1] = c
    BY <1>5, <1>10, <2>1, <2>2
  <2>. QED
    BY <2>1, <2>3
<1>12. ASSUME NEW i \in 1 .. n, NEW j \in 1 .. n, i < j
       PROVE  Precedes(ranked[i], ranked[j])
  <2>. HIDE DEF ranked
  <2>1. ranked[i] \in E /\ ranked[j] \in E /\ ranked[i] # ranked[j]
    BY <1>1, <1>10, <1>12
  <2>2. ~ Precedes(ranked[j], ranked[i])
    <3>1. ~ (Cardinality(Before(ranked[j])) < Cardinality(Before(ranked[i])))
      BY <1>1, <1>10, <1>12
    <3>. QED
      BY <1>4, <2>1, <3>1
  <2>. QED
    BY <1>1, <2>1, <2>2, RankingIsOrder
<1>13. ranked \in [1 .. n -> E]
  BY <1>10
<1>. HIDE DEF ranked
<1>. QED
  BY <1>1, <1>2, <1>11, <1>12, <1>13 DEF IsRanking, n, E

\* The first coins of a ranking, one more at a time.
LEMMA FirstGrows ==
    ASSUME NEW ranked, NEW E, IsRanking(ranked, E), NEW i \in 1 .. Cardinality(E)
    PROVE  /\ First(ranked, 0) = {}
           /\ First(ranked, i) = First(ranked, i - 1) \cup {ranked[i]}
           /\ ranked[i] \notin First(ranked, i - 1)
           /\ First(ranked, i - 1) \in SUBSET E /\ First(ranked, i) \in SUBSET E
<1>1. Cardinality(E) \in Nat
  BY FS_CardinalityType DEF IsRanking
<1>2. \A j \in 1 .. i - 1 : ranked[j] # ranked[i]
  <2>. TAKE j \in 1 .. i - 1
  <2>1. j \in 1 .. Cardinality(E) /\ j < i
    BY <1>1
  <2>2. Precedes(ranked[j], ranked[i]) /\ ranked[i] \in Coin
    BY <2>1 DEF IsRanking
  <2>. QED
    BY <2>2, RankingIsOrder
<1>3. First(ranked, i) = First(ranked, i - 1) \cup {ranked[i]}
  <2>1. 1 .. i = (1 .. i - 1) \cup {i}
    BY <1>1
  <2>. QED
    BY <2>1 DEF First
<1>4. \A j \in 1 .. i : ranked[j] \in E
  BY <1>1 DEF IsRanking
<1>5. First(ranked, i) \in SUBSET E
  BY <1>4 DEF First
<1>6. First(ranked, 0) = {}
  BY DEF First
<1>. QED
  BY <1>2, <1>3, <1>5, <1>6 DEF First

\* A prefix has as many coins as its length.
LEMMA FirstCounts ==
    ASSUME NEW ranked, NEW E, IsRanking(ranked, E), NEW n \in 0 .. Cardinality(E)
    PROVE  /\ First(ranked, n) \in SUBSET E /\ IsFiniteSet(First(ranked, n))
           /\ Cardinality(First(ranked, n)) = n
<1>. DEFINE F == {m \in 0 .. Cardinality(E) : ~ (/\ IsFiniteSet(First(ranked, m))
                                                /\ Cardinality(First(ranked, m)) = m)}
<1>1. Cardinality(E) \in Nat
  BY FS_CardinalityType DEF IsRanking
<1>2. First(ranked, n) \in SUBSET E
  <2>1. \A j \in 1 .. n : ranked[j] \in E
    BY <1>1 DEF IsRanking
  <2>. QED
    BY <2>1 DEF First
<1>3. SUFFICES ASSUME F # {} PROVE FALSE
  BY <1>2
<1>4. PICK m \in F : \A k \in F : m <= k
  <2>. F \subseteq Nat
    BY <1>1
  <2>. HIDE DEF F
  <2>. QED
    BY <1>3, LeastExists
<1>5. First(ranked, 0) = {}
  BY DEF First
<1>6. m # 0
  BY <1>4, <1>5, FS_EmptySet
<1>7. m \in 1 .. Cardinality(E) /\ m - 1 \in 0 .. Cardinality(E) /\ m \in Nat
  BY <1>1, <1>4, <1>6
<1>8. m - 1 \notin F
  BY <1>4, <1>7
<1>9. IsFiniteSet(First(ranked, m - 1)) /\ Cardinality(First(ranked, m - 1)) = m - 1
  BY <1>7, <1>8
<1>10. /\ First(ranked, m) = First(ranked, m - 1) \cup {ranked[m]}
       /\ ranked[m] \notin First(ranked, m - 1)
  BY <1>7, FirstGrows
<1>11. IsFiniteSet(First(ranked, m)) /\ Cardinality(First(ranked, m)) = (m - 1) + 1
  BY <1>9, <1>10, FS_AddElement
<1>. QED
  BY <1>4, <1>7, <1>11

\* No set of coins of the ranking is worth more than the prefix of its size.
LEMMA PrefixIsWorthMost ==
    ASSUME NEW ranked, NEW E, IsRanking(ranked, E), NEW T \in SUBSET E
    PROVE  ValueOf(T) <= ValueOf(First(ranked, Cardinality(T)))
<1>. DEFINE n == Cardinality(E)
            F == {s \in SUBSET E : ~ (ValueOf(s) <= ValueOf(First(ranked, Cardinality(s))))}
<1>1. IsFiniteSet(E) /\ n \in Nat /\ E \in SUBSET Coin
  BY FS_CardinalityType DEF IsRanking
<1>2. ASSUME NEW s \in SUBSET E
      PROVE  /\ IsFiniteSet(s) /\ Cardinality(s) \in 0 .. n
             /\ ValueOf(s) \in Nat /\ ValueOf({}) = 0
             /\ \A c \in s : ValueOf(s) = c.value + ValueOf(s \ {c})
             /\ \A c \in s : c.value \in Nat
  <2>1. IsFiniteSet(s) /\ Cardinality(s) <= n /\ Cardinality(s) \in Nat
    BY <1>1, FS_Subset, FS_CardinalityType
  <2>2. s \in SUBSET Coin
    BY <1>1
  <2>. QED
    BY <1>1, <2>1, <2>2, ValueOfSets DEF Coin
<1>. HIDE DEF n
<1>3. {} \notin F
  <2>1. Cardinality({}) = 0 /\ First(ranked, 0) = {}
    BY FS_EmptySet DEF First
  <2>2. ValueOf({}) = 0 /\ ValueOf(First(ranked, Cardinality({}))) = 0
    BY <1>2, <2>1
  <2>. QED
    BY <2>2
<1>4. ASSUME NEW s \in SUBSET E, s # {},
             \A c \in s : s \ {c} \notin F
      PROVE  s \notin F
  <2>. DEFINE m == Cardinality(s)
              T1 == {i \in 0 .. n : s \in SUBSET First(ranked, i)}
  <2>1. T1 # {} /\ T1 \subseteq Nat
    <3>1. n \in T1
      <4>1. \A c \in s : \E i \in 1 .. n : ranked[i] = c
        BY DEF IsRanking, n
      <4>. QED
        BY <1>1, <4>1 DEF First
    <3>. QED
      BY <3>1
  <2>2. PICK i \in T1 : \A j \in T1 : i <= j
    <3>. HIDE DEF T1
    <3>. QED
      BY <2>1, LeastExists
  <2>3. i \in 1 .. n
    <3>1. i # 0
      BY <2>2, <1>4 DEF First
    <3>. QED
      BY <1>1, <2>2, <3>1
  <2>4. /\ First(ranked, i) = First(ranked, i - 1) \cup {ranked[i]}
        /\ ~ (s \in SUBSET First(ranked, i - 1))
    <3>1. i - 1 \notin T1 /\ i - 1 \in 0 .. n
      BY <1>1, <2>2, <2>3
    <3>2. First(ranked, i) = First(ranked, i - 1) \cup {ranked[i]}
      BY <2>3, FirstGrows DEF n
    <3>. QED
      BY <3>1, <3>2
  <2>5. ranked[i] \in s
    BY <2>2, <2>4
  <2>6. m \in 1 .. n /\ m <= i /\ Cardinality(s \ {ranked[i]}) = m - 1
    <3>1. IsFiniteSet(s) /\ m \in 0 .. n /\ m # 0
      BY <1>2, <1>4, FS_EmptySet
    <3>2. IsFiniteSet(First(ranked, i)) /\ Cardinality(First(ranked, i)) = i
      BY <1>1, <2>3, FirstCounts DEF n
    <3>3. m <= i
      BY <2>2, <3>2, FS_Subset
    <3>4. Cardinality(s \ {ranked[i]}) = m - 1
      BY <2>5, <3>1, FS_RemoveElement
    <3>. HIDE DEF m
    <3>. QED
      BY <1>1, <3>1, <3>3, <3>4
  <2>. HIDE DEF m, T1
  <2>7. ValueOf(s \ {ranked[i]}) <= ValueOf(First(ranked, m - 1))
    BY <1>4, <2>5, <2>6
  <2>8. ranked[i].value <= ranked[m].value /\ ranked[i].value \in Nat /\ ranked[m].value \in Nat
    <3>1. ranked[i] \in Coin /\ ranked[m] \in Coin
      BY <2>3, <2>6 DEF IsRanking, n
    <3>2. m = i \/ Precedes(ranked[m], ranked[i])
      BY <1>1, <2>3, <2>6 DEF IsRanking, n
    <3>3. ranked[i].value \in Nat /\ ranked[m].value \in Nat
      BY <3>1 DEF Coin
    <3>. QED
      BY <3>1, <3>2, <3>3, RankingIsOrder
  <2>9. ValueOf(First(ranked, m)) = ranked[m].value + ValueOf(First(ranked, m - 1))
    <3>1. /\ First(ranked, m) = First(ranked, m - 1) \cup {ranked[m]}
          /\ ranked[m] \notin First(ranked, m - 1) /\ First(ranked, m) \in SUBSET E
      BY <2>6, FirstGrows DEF n
    <3>2. First(ranked, m) \ {ranked[m]} = First(ranked, m - 1) /\ ranked[m] \in First(ranked, m)
      BY <3>1
    <3>. QED
      BY <1>2, <3>1, <3>2
  <2>10. ValueOf(s) = ranked[i].value + ValueOf(s \ {ranked[i]})
    BY <1>2, <2>5
  <2>11. /\ ValueOf(s \ {ranked[i]}) \in Nat
         /\ ValueOf(First(ranked, m - 1)) \in Nat
    <3>1. s \ {ranked[i]} \in SUBSET E /\ First(ranked, m - 1) \in SUBSET E
      BY <2>6, FirstGrows DEF n
    <3>. QED
      BY <1>2, <3>1
  <2>12. ValueOf(s) <= ValueOf(First(ranked, m))
    BY <2>7, <2>8, <2>9, <2>10, <2>11
  <2>. QED
    BY <2>12 DEF m
<1>5. \A s \in F : s # {} => \E c \in s : s \ {c} \in F
  BY <1>4
<1>6. F = {}
  <2>1. F \in SUBSET SUBSET E
    OBVIOUS
  <2>. HIDE DEF F
  <2>. QED
    BY <1>1, <1>3, <1>5, <2>1, NoDescent
<1>. QED
  BY <1>6

\* One more input costs at least its own size, and a claim without inputs costs something.
LEMMA FeeGrows ==
    ASSUME NEW r \in Nat \ {0}, NEW k \in Nat
    PROVE  /\ Fee(k, r) \in Nat /\ Fee(k, r) > 0
           /\ Fee(k + 1, r) >= Fee(k, r) + InputSize * r
<1>1. InputSize \in Nat /\ FixedSize \in Nat \ {0} /\ Jump \in Nat
  BY SizeAssumption
<1>2. CompactSize(k) \in Nat /\ CompactSize(k) <= CompactSize(k + 1) /\ CompactSize(k + 1) \in Nat
  BY <1>1 DEF CompactSize
<1>3. k * InputSize \in Nat /\ (k + 1) * InputSize = k * InputSize + InputSize
  BY <1>1
<1>4. /\ MaxVsize(k) \in Nat \ {0} /\ MaxVsize(k + 1) \in Nat
      /\ MaxVsize(k + 1) >= MaxVsize(k) + InputSize
  BY <1>1, <1>2, <1>3 DEF MaxVsize
<1>5. \A a, b, c \in Nat : a >= b + c => a * r >= b * r + c * r
  <2>. TAKE a, b, c \in Nat
  <2>. HAVE a >= b + c
  <2>1. PICK d \in Nat : a = b + c + d
    <3>1. a - (b + c) \in Nat /\ a = b + c + (a - (b + c))
      OBVIOUS
    <3>. QED
      BY <3>1
  <2>2. a * r = b * r + c * r + d * r /\ d * r \in Nat
    BY <2>1
  <2>3. b * r \in Nat /\ c * r \in Nat
    OBVIOUS
  <2>. QED
    BY <2>2, <2>3
<1>6. \A a \in Nat \ {0} : a * r \in Nat /\ a * r > 0
  OBVIOUS
<1>. QED
  BY <1>1, <1>4, <1>5, <1>6 DEF Fee

\* Coins that are not worth their input do not make a claim pay more.
LEMMA EconomicPaysMore ==
    ASSUME NEW S \in SUBSET Coin, IsFiniteSet(S), NEW r \in Nat \ {0}, NEW T \in SUBSET S
    PROVE  /\ PayoutOf(T, r) \in Int /\ PayoutOf({}, r) < 0
           /\ PayoutOf(T, r) <= PayoutOf(T \cap Economic(S, r), r)
<1>. DEFINE E == Economic(S, r)
            F == {s \in SUBSET S : ~ (PayoutOf(s, r) <= PayoutOf(s \cap E, r))}
<1>1. ASSUME NEW s \in SUBSET S
      PROVE  /\ IsFiniteSet(s) /\ Cardinality(s) \in Nat
             /\ ValueOf(s) \in Nat
             /\ \A c \in s : ValueOf(s) = c.value + ValueOf(s \ {c})
             /\ PayoutOf(s, r) \in Int
  <2>1. IsFiniteSet(s) /\ Cardinality(s) \in Nat
    BY FS_Subset, FS_CardinalityType
  <2>2. s \in SUBSET Coin
    OBVIOUS
  <2>3. ValueOf(s) \in Nat /\ \A c \in s : ValueOf(s) = c.value + ValueOf(s \ {c})
    BY <2>1, <2>2, ValueOfSets
  <2>4. Fee(Cardinality(s), r) \in Nat
    BY <2>1, FeeGrows
  <2>. QED
    BY <2>1, <2>3, <2>4 DEF PayoutOf
<1>2. PayoutOf({}, r) < 0
  <2>1. ValueOf({}) = 0 /\ Cardinality({}) = 0
    BY FS_EmptySet, ValueOfSets
  <2>2. Fee(0, r) \in Nat /\ Fee(0, r) > 0
    BY FeeGrows
  <2>. QED
    BY <2>1, <2>2 DEF PayoutOf
<1>3. {} \notin F
  <2>1. {} \cap E = {}
    OBVIOUS
  <2>2. PayoutOf({}, r) <= PayoutOf({} \cap E, r)
    BY <1>1, <2>1
  <2>. QED
    BY <2>2
<1>4. ASSUME NEW s \in F PROVE \E c \in s : s \ {c} \in F
  <2>1. PICK c \in s : c \notin E
    <3>. SUFFICES ASSUME s \subseteq E PROVE FALSE
      OBVIOUS
    <3>1. s \cap E = s /\ s \in SUBSET S
      OBVIOUS
    <3>2. PayoutOf(s, r) \in Int /\ PayoutOf(s \cap E, r) = PayoutOf(s, r)
      BY <1>1, <3>1
    <3>3. ~ (PayoutOf(s, r) <= PayoutOf(s \cap E, r))
      OBVIOUS
    <3>. HIDE DEF F, E
    <3>. QED
      BY <3>2, <3>3
  <2>2. c.value <= InputSize * r /\ c.value \in Nat /\ InputSize * r \in Nat
    <3>1. c \in Coin /\ c.value \in Nat
      BY DEF Coin
    <3>2. InputSize * r \in Nat
      BY SizeAssumption
    <3>. QED
      BY <2>1, <3>1, <3>2 DEF Economic, IsEconomic
  <2>. DEFINE t == s \ {c}
  <2>3. Cardinality(s) = Cardinality(t) + 1 /\ Cardinality(t) \in Nat
    <3>1. IsFiniteSet(s) /\ Cardinality(s) \in Nat /\ Cardinality(t) \in Nat
      BY <1>1
    <3>2. Cardinality(t) = Cardinality(s) - 1
      BY <3>1, FS_RemoveElement
    <3>. HIDE DEF t
    <3>. QED
      BY <3>1, <3>2
  <2>4. Fee(Cardinality(t) + 1, r) >= Fee(Cardinality(t), r) + InputSize * r
    BY <2>3, FeeGrows
  <2>5. ValueOf(s) = c.value + ValueOf(t) /\ ValueOf(t) \in Nat
    BY <1>1
  <2>6. Fee(Cardinality(t), r) \in Nat /\ Fee(Cardinality(s), r) \in Nat
    BY <2>3, FeeGrows
  <2>7. PayoutOf(s, r) <= PayoutOf(t, r)
    <3>. HIDE DEF t
    <3>1. Fee(Cardinality(s), r) >= Fee(Cardinality(t), r) + InputSize * r
      BY <2>3, <2>4
    <3>. QED
      BY <2>2, <2>5, <2>6, <3>1 DEF PayoutOf
  <2>8. t \cap E = s \cap E
    BY <2>1
  <2>9. /\ PayoutOf(s, r) \in Int /\ PayoutOf(t, r) \in Int /\ PayoutOf(s \cap E, r) \in Int
        /\ ~ (PayoutOf(s, r) <= PayoutOf(s \cap E, r))
    BY <1>1
  <2>10. ~ (PayoutOf(t, r) <= PayoutOf(t \cap E, r))
    <3>. HIDE DEF t, E
    <3>. QED
      BY <2>7, <2>8, <2>9
  <2>. QED
    BY <2>10
<1>5. F = {}
  <2>1. F \in SUBSET SUBSET S
    OBVIOUS
  <2>. HIDE DEF F
  <2>. QED
    BY <1>3, <1>4, <2>1, NoDescent
<1>6. PayoutOf(T, r) \in Int
  BY <1>1
<1>. QED
  BY <1>2, <1>5, <1>6

\* Finitely many whole numbers have a largest one.
LEMMA LargestExists ==
    ASSUME NEW S \in SUBSET Int, IsFiniteSet(S), S # {}
    PROVE  \E x \in S : \A y \in S : y <= x
<1>. DEFINE F == {s \in SUBSET S : s # {} /\ ~ \E x \in s : \A y \in s : y <= x}
<1>1. ASSUME NEW s \in F PROVE \E x \in s : s \ {x} \in F
  <2>1. PICK x \in s : TRUE
    OBVIOUS
  <2>2. s \ {x} # {}
    <3>. SUFFICES ASSUME s \ {x} = {} PROVE FALSE
      OBVIOUS
    <3>1. s = {x} /\ x \in Int
      OBVIOUS
    <3>2. \A y \in s : y <= x
      BY <3>1
    <3>. QED
      BY <3>2
  <2>3. ASSUME NEW z \in s \ {x}, \A y \in s \ {x} : y <= z PROVE FALSE
    <3>1. CASE x <= z
      <4>1. \A y \in s : y <= z
        BY <2>3, <3>1
      <4>. QED
        BY <4>1
    <3>2. CASE ~ (x <= z)
      <4>1. \A y \in s : y \in Int
        OBVIOUS
      <4>2. \A y \in s : y <= x
        BY <2>3, <3>2, <4>1
      <4>. QED
        BY <4>2
    <3>. QED
      BY <3>1, <3>2
  <2>. QED
    BY <2>2, <2>3
<1>2. F = {}
  <2>1. F \in SUBSET SUBSET S /\ {} \notin F
    OBVIOUS
  <2>. HIDE DEF F
  <2>. QED
    BY <1>1, <2>1, NoDescent
<1>. QED
  BY <1>2

\* What a prefix of a ranking pays.
PrefixPayout(ranked, n, r) == PayoutOf(First(ranked, n), r)

\* The choice is one prefix that pays most, if any pays its fee, and nothing otherwise.
LEMMA BestIsLargest ==
    ASSUME NEW ranked, NEW E, IsRanking(ranked, E), NEW r \in Nat \ {0}
    PROVE  \/ /\ UNION {First(ranked, n) : n \in Best(ranked, r)} = {}
              /\ \A m \in 1 .. Cardinality(E) : PrefixPayout(ranked, m, r) < 0
           \/ \E n \in 1 .. Cardinality(E) :
                /\ UNION {First(ranked, k) : k \in Best(ranked, r)} = First(ranked, n)
                /\ PrefixPayout(ranked, n, r) >= 0
                /\ \A m \in 1 .. Cardinality(E) :
                     PrefixPayout(ranked, m, r) <= PrefixPayout(ranked, n, r)
<1>. DEFINE D == 1 .. Cardinality(E)
            pays == [m \in D |-> PrefixPayout(ranked, m, r)]
            best == Best(ranked, r)
<1>1. Cardinality(E) \in Nat /\ DOMAIN ranked = D /\ IsFiniteSet(D)
  BY FS_CardinalityType, FS_Interval DEF IsRanking
<1>2. pays \in [D -> Int]
  <2>. SUFFICES ASSUME NEW m \in D PROVE PrefixPayout(ranked, m, r) \in Int
    OBVIOUS
  <2>1. First(ranked, m) \in SUBSET Coin /\ IsFiniteSet(First(ranked, m))
    BY <1>1, FirstCounts DEF IsRanking
  <2>. QED
    BY <2>1, EconomicPaysMore DEF PrefixPayout
<1>3. best = {n \in D : /\ pays[n] >= 0
                        /\ \A m \in D : pays[m] <= pays[n]
                        /\ \A m \in 1 .. n - 1 : pays[m] < pays[n]}
  <2>1. \A n \in D : pays[n] = PayoutOf(First(ranked, n), r)
    BY DEF PrefixPayout
  <2>2. \A n \in D : \A m \in 1 .. n - 1 : m \in D
    BY <1>1
  <2>3. best = {n \in D : /\ PayoutOf(First(ranked, n), r) >= 0
                          /\ \A m \in D : PayoutOf(First(ranked, m), r)
                                            <= PayoutOf(First(ranked, n), r)
                          /\ \A m \in 1 .. n - 1 : PayoutOf(First(ranked, m), r)
                                                     < PayoutOf(First(ranked, n), r)}
    BY <1>1 DEF Best
  <2>. HIDE DEF pays, D, best
  <2>. QED
    BY <2>1, <2>2, <2>3
<1>. HIDE DEF pays, best
<1>4. CASE \A m \in D : pays[m] < 0
  <2>1. best = {}
    BY <1>2, <1>3, <1>4
  <2>. QED
    BY <1>4, <2>1 DEF pays, best
<1>5. CASE \E m \in D : ~ (pays[m] < 0)
  <2>. DEFINE V == {pays[m] : m \in D}
  <2>1. IsFiniteSet(V)
    <3>1. pays \in Surjection(D, V)
      BY <1>2 DEF Surjection
    <3>. HIDE DEF V, D
    <3>. QED
      BY <1>1, <3>1, FS_Surjection
  <2>2. PICK v \in V : \A y \in V : y <= v
    <3>1. V \in SUBSET Int /\ V # {}
      BY <1>2, <1>5
    <3>. HIDE DEF V
    <3>. QED
      BY <2>1, <3>1, LargestExists
  <2>3. v >= 0 /\ v \in Int /\ \A m \in D : pays[m] <= v
    <3>1. v \in Int /\ \A m \in D : pays[m] <= v /\ pays[m] \in Int
      BY <1>2, <2>2
    <3>2. PICK m \in D : ~ (pays[m] < 0)
      BY <1>5
    <3>3. v >= 0
      BY <3>1, <3>2
    <3>. QED
      BY <3>1, <3>3
  <2>4. PICK n \in {m \in D : pays[m] = v} : \A k \in {m \in D : pays[m] = v} : n <= k
    <3>1. {m \in D : pays[m] = v} # {} /\ {m \in D : pays[m] = v} \subseteq Nat
      BY <2>2
    <3>. QED
      BY <3>1, LeastExists
  <2>5. \A m \in 1 .. n - 1 : pays[m] < pays[n]
    <3>. TAKE m \in 1 .. n - 1
    <3>1. m \in D /\ ~ (n <= m)
      BY <1>1, <2>4
    <3>2. pays[m] # v
      BY <2>4, <3>1
    <3>. QED
      BY <1>2, <2>3, <2>4, <3>1, <3>2
  <2>6. n \in best
    BY <1>3, <2>3, <2>4, <2>5
  <2>7. ASSUME NEW k \in best PROVE k = n
    <3>1. pays[k] = v /\ k \in D /\ n \in D
      BY <1>2, <1>3, <2>3, <2>4
    <3>2. n <= k
      BY <2>4, <3>1
    <3>3. ~ (n \in 1 .. k - 1)
      BY <1>3, <2>3, <2>4, <3>1
    <3>. QED
      BY <1>1, <3>1, <3>2, <3>3
  <2>8. UNION {First(ranked, k) : k \in best} = First(ranked, n)
    BY <2>6, <2>7
  <2>9. \A m \in D : pays[m] = PrefixPayout(ranked, m, r)
    BY DEF pays
  <2>. QED
    BY <2>3, <2>4, <2>8, <2>9 DEF best
<1>. QED
  BY <1>4, <1>5

\* SelectPrevouts chooses the coins that pay most, and none only if no coins pay their
\* own fee.
LEMMA SelectionPaysMost ==
    ASSUME NEW S \in SUBSET Coin, IsFiniteSet(S), NEW r \in Nat \ {0}
    PROVE  LET chosen == SelectPrevouts(S, r)
           IN  /\ chosen \in SUBSET S
               /\ chosen = {} => \A T \in SUBSET S : PayoutOf(T, r) < 0
               /\ chosen # {} => /\ PayoutOf(chosen, r) >= 0
                                 /\ \A T \in SUBSET S : PayoutOf(T, r) <= PayoutOf(chosen, r)
<1>. DEFINE E == Economic(S, r)
            ranked == Ranked(S, r)
            chosen == SelectPrevouts(S, r)
            Payout(n) == PrefixPayout(ranked, n, r)
<1>1. IsRanking(ranked, E) /\ E \in SUBSET S
  BY RankedIsRanking DEF Economic
<1>2. chosen = UNION {First(ranked, n) : n \in Best(ranked, r)}
  BY DEF SelectPrevouts
<1>3. \A T \in SUBSET S : PayoutOf(T, r) \in Int
  BY EconomicPaysMore
<1>4. Cardinality(E) \in Nat
  BY <1>1, FS_CardinalityType DEF IsRanking
<1>5. ASSUME NEW n \in 1 .. Cardinality(E) PROVE First(ranked, n) \in SUBSET S /\ Payout(n) \in Int
  <2>1. First(ranked, n) \in SUBSET S
    BY <1>1, <1>4, FirstCounts
  <2>. QED
    BY <1>3, <2>1 DEF PrefixPayout
<1>6. ASSUME NEW T \in SUBSET S
      PROVE  \/ PayoutOf(T, r) < 0
             \/ \E n \in 1 .. Cardinality(E) : PayoutOf(T, r) <= Payout(n)
  <2>. DEFINE U == T \cap E
              n == Cardinality(U)
  <2>1. PayoutOf(T, r) <= PayoutOf(U, r)
    BY EconomicPaysMore
  <2>2. CASE U = {}
    <3>1. PayoutOf(U, r) < 0
      BY <2>2, EconomicPaysMore
    <3>2. PayoutOf(T, r) \in Int /\ PayoutOf(U, r) \in Int
      BY <1>3
    <3>3. PayoutOf(T, r) < 0
      BY <2>1, <3>1, <3>2
    <3>. QED
      BY <3>3
  <2>3. CASE U # {}
    <3>1. n \in 1 .. Cardinality(E)
      <4>1. IsFiniteSet(E) /\ U \in SUBSET E
        BY <1>1 DEF IsRanking
      <4>2. IsFiniteSet(U) /\ n <= Cardinality(E) /\ n \in Nat
        BY <4>1, FS_Subset, FS_CardinalityType
      <4>3. n # 0
        BY <2>3, <4>2, FS_EmptySet
      <4>. HIDE DEF n
      <4>. QED
        BY <1>4, <4>2, <4>3
    <3>2. ValueOf(U) <= ValueOf(First(ranked, n))
      BY <1>1, PrefixIsWorthMost
    <3>3. Cardinality(First(ranked, n)) = n
      BY <1>1, <1>4, <3>1, FirstCounts
    <3>4. ValueOf(U) \in Nat /\ ValueOf(First(ranked, n)) \in Nat
      <4>1. U \in SUBSET Coin /\ IsFiniteSet(U)
        BY FS_Subset
      <4>2. First(ranked, n) \in SUBSET Coin /\ IsFiniteSet(First(ranked, n))
        BY <1>1, <1>4, <3>1, FirstCounts DEF IsRanking
      <4>. QED
        BY <4>1, <4>2, ValueOfSets
    <3>5. Fee(n, r) \in Nat
      <4>1. n \in Nat
        BY <1>4, <3>1
      <4>. QED
        BY <4>1, FeeGrows
    <3>6. PayoutOf(U, r) <= Payout(n)
      <4>1. PayoutOf(U, r) = ValueOf(U) - Fee(n, r)
        BY DEF PayoutOf
      <4>2. Payout(n) = ValueOf(First(ranked, n)) - Fee(n, r)
        BY <3>3 DEF PayoutOf, PrefixPayout
      <4>. HIDE DEF U, n, Payout
      <4>. QED
        BY <3>2, <3>4, <3>5, <4>1, <4>2
    <3>7. PayoutOf(T, r) <= Payout(n)
      <4>1. PayoutOf(T, r) \in Int /\ PayoutOf(U, r) \in Int /\ Payout(n) \in Int
        BY <1>3, <1>5, <3>1
      <4>. HIDE DEF U, n, Payout
      <4>. QED
        BY <2>1, <3>6, <4>1
    <3>. QED
      BY <3>1, <3>7
  <2>. QED
    BY <2>2, <2>3
<1>7. \/ chosen = {} /\ \A m \in 1 .. Cardinality(E) : Payout(m) < 0
      \/ \E n \in 1 .. Cardinality(E) :
           /\ chosen = First(ranked, n) /\ Payout(n) >= 0
           /\ \A m \in 1 .. Cardinality(E) : Payout(m) <= Payout(n)
  BY <1>1, <1>2, BestIsLargest
<1>. HIDE DEF E, ranked, chosen, Payout
<1>8. CASE chosen = {} /\ \A m \in 1 .. Cardinality(E) : Payout(m) < 0
  <2>1. ASSUME NEW T \in SUBSET S PROVE PayoutOf(T, r) < 0
    <3>1. PayoutOf(T, r) \in Int
      BY <1>3
    <3>. QED
      BY <1>5, <1>6, <1>8, <3>1
  <2>. QED
    BY <1>8, <2>1 DEF chosen
<1>9. CASE \E n \in 1 .. Cardinality(E) :
             /\ chosen = First(ranked, n) /\ Payout(n) >= 0
             /\ \A m \in 1 .. Cardinality(E) : Payout(m) <= Payout(n)
  <2>1. PICK n \in 1 .. Cardinality(E) :
             /\ chosen = First(ranked, n) /\ Payout(n) >= 0
             /\ \A m \in 1 .. Cardinality(E) : Payout(m) <= Payout(n)
    BY <1>9
  <2>2. chosen \in SUBSET S /\ PayoutOf(chosen, r) = Payout(n) /\ Payout(n) \in Int
    BY <1>5, <2>1 DEF Payout, PrefixPayout
  <2>3. ASSUME NEW T \in SUBSET S PROVE PayoutOf(T, r) <= PayoutOf(chosen, r)
    <3>1. PayoutOf(T, r) \in Int
      BY <1>3
    <3>2. CASE PayoutOf(T, r) < 0
      BY <2>1, <2>2, <3>1, <3>2
    <3>3. CASE \E m \in 1 .. Cardinality(E) : PayoutOf(T, r) <= Payout(m)
      <4>1. PICK m \in 1 .. Cardinality(E) : PayoutOf(T, r) <= Payout(m)
        BY <3>3
      <4>2. Payout(m) <= Payout(n) /\ Payout(m) \in Int
        BY <1>5, <2>1
      <4>. QED
        BY <2>2, <3>1, <4>1, <4>2
    <3>. QED
      BY <1>6, <3>2, <3>3
  <2>4. chosen # {}
    <3>1. PayoutOf({}, r) < 0
      BY EconomicPaysMore
    <3>. QED
      BY <2>1, <2>2, <3>1
  <2>. QED
    BY <2>1, <2>2, <2>3, <2>4 DEF chosen
<1>. QED
  BY <1>7, <1>8, <1>9

\* The coins of a snapshot: finitely many, no two of one outpoint.
IsSnapshot(S) ==
    /\ S \in SUBSET Coin /\ IsFiniteSet(S)
    /\ \A a, b \in S : Outpoint(a) = Outpoint(b) => a = b

\* Distinct coins have as many outpoints, and a set of outpoints names its coins.
LEMMA OutpointsNameCoins ==
    ASSUME NEW S, IsSnapshot(S), NEW T \in SUBSET S
    PROVE  /\ Cardinality(Outpoints(T)) = Cardinality(T)
           /\ {coin \in S : Outpoint(coin) \in Outpoints(T)} = T
           /\ \A U \in SUBSET S : Outpoints(T) = Outpoints(U) => T = U
<1>1. \A a, b \in S : Outpoint(a) = Outpoint(b) => a = b
  BY DEF IsSnapshot
<1>2. ASSUME NEW U \in SUBSET S, NEW a \in S
      PROVE  Outpoint(a) \in Outpoints(U) <=> a \in U
  BY <1>1 DEF Outpoints
<1>3. \A U \in SUBSET S : Outpoints(T) = Outpoints(U) => T = U
  <2>. TAKE U \in SUBSET S
  <2>. HAVE Outpoints(T) = Outpoints(U)
  <2>1. \A a \in S : a \in T <=> a \in U
    BY <1>2
  <2>. QED
    BY <2>1
<1>4. Cardinality(Outpoints(T)) = Cardinality(T)
  <2>. DEFINE f == [a \in T |-> Outpoint(a)]
  <2>1. IsFiniteSet(T)
    BY FS_Subset DEF IsSnapshot
  <2>2. f \in Bijection(T, Outpoints(T))
    BY <1>1 DEF Bijection, Injection, Surjection, IsInjective, Outpoints
  <2>3. ExistsBijection(T, Outpoints(T))
    BY <2>2 DEF ExistsBijection
  <2>. QED
    BY <2>1, <2>3, FS_Bijection
<1>. QED
  BY <1>2, <1>3, <1>4

\* A transaction measures at most what the builder counts with.
LEMMA SizesAreNumbers ==
    ASSUME NEW n \in Nat, NEW size \in ActualSizes(n)
    PROVE  size \in Nat /\ MaxVsize(n) \in Nat /\ size <= MaxVsize(n)
<1>1. /\ InputMin \in Nat /\ InputSize \in Nat /\ FixedSize \in Nat
  BY SizeAssumption
<1>2. n * InputMin \in Nat /\ n * InputSize \in Nat
  BY <1>1
<1>3. CompactSize(n) \in Nat
  BY DEF CompactSize
<1>. QED
  BY <1>1, <1>2, <1>3 DEF ActualSizes, MaxVsize

\* The verifier accepts a transaction exactly if it spends the choice, pays what this
\* yields, and is itself within the limit.
LEMMA VerifiedIsChosen ==
    ASSUME NEW S, IsSnapshot(S), NEW r \in Nat \ {0},
           NEW picked \in SUBSET S, NEW output \in Nat, NEW size
    PROVE  Verified(Transaction(picked, output, size), S, r)
             <=> /\ SelectPrevouts(S, r) # {} /\ picked = SelectPrevouts(S, r)
                 /\ size <= MaxSize
                 /\ output = PayoutOf(SelectPrevouts(S, r), r)
                 /\ output >= Dust
<1>. DEFINE chosen == SelectPrevouts(S, r)
            t == Transaction(picked, output, size)
<1>1. t.inputs = Outpoints(picked) /\ t.output = output /\ t.size = size
  BY DEF Transaction
<1>2. S \in SUBSET Coin /\ IsFiniteSet(S)
  BY DEF IsSnapshot
<1>3. chosen \in SUBSET S
  BY <1>2, SelectionPaysMost
<1>. HIDE DEF chosen
<1>4. \A T \in SUBSET S : /\ ValueOf(T) \in Nat /\ Fee(Cardinality(T), r) \in Nat
                          /\ PayoutOf(T, r) = ValueOf(T) - Fee(Cardinality(T), r)
  <2>. TAKE T \in SUBSET S
  <2>1. IsFiniteSet(T) /\ T \in SUBSET Coin /\ Cardinality(T) \in Nat
    BY <1>2, FS_Subset, FS_CardinalityType
  <2>2. ValueOf(T) \in Nat
    BY <2>1, ValueOfSets
  <2>3. Fee(Cardinality(T), r) \in Nat
    BY <2>1, FeeGrows
  <2>. QED
    BY <2>2, <2>3 DEF PayoutOf
<1>5. Verified(t, S, r) <=>
        /\ chosen # {} /\ picked = chosen /\ size <= MaxSize
        /\ output <= ValueOf(chosen) /\ ValueOf(chosen) - output = Fee(Cardinality(chosen), r)
        /\ output >= Dust
  <2>1. /\ {coin \in S : Outpoint(coin) \in t.inputs} = picked
        /\ Cardinality(t.inputs) = Cardinality(picked)
        /\ t.inputs = Outpoints(chosen) <=> picked = chosen
    <3>1. t.inputs = Outpoints(chosen) <=> picked = chosen
      BY <1>1, <1>3, OutpointsNameCoins
    <3>. HIDE DEF t
    <3>. QED
      BY <1>1, <3>1, OutpointsNameCoins
  <2>2. Verified(t, S, r) <=>
          /\ chosen # {} /\ size <= MaxSize /\ picked = chosen
          /\ output <= ValueOf(picked) /\ ValueOf(picked) - output = Fee(Cardinality(picked), r)
          /\ output >= Dust
    <3>. HIDE DEF t
    <3>. QED
      BY <1>1, <2>1 DEF Verified, CheckFee, chosen
  <2>. HIDE DEF t
  <2>. QED
    BY <2>2
<1>6. ASSUME picked = chosen
      PROVE  /\ output <= ValueOf(chosen)
             /\ ValueOf(chosen) - output = Fee(Cardinality(chosen), r)
             <=> output = PayoutOf(chosen, r)
  BY <1>3, <1>4
<1>. HIDE DEF t
<1>. QED
  BY <1>5, <1>6 DEF t, chosen

\* What the builder returns is Absent, for one of its errors, or a transaction that spends
\* the choice, pays what this yields and fits in the worst case.
LEMMA BuiltIsChosen ==
    ASSUME NEW S, IsSnapshot(S), NEW r \in Nat \ {0}, NEW built \in Built(S, r)
    PROVE  LET chosen == SelectPrevouts(S, r)
               gives == chosen # {} /\ ~ IsTooLarge(Cardinality(chosen)) /\ PayoutOf(chosen, r) >= Dust
           IN  /\ chosen \in SUBSET S
               /\ PayoutOf(chosen, r) \in Int
               /\ gives <=> built # Absent
               /\ gives => /\ PayoutOf(chosen, r) \in Nat
                           /\ \E size \in ActualSizes(Cardinality(chosen)) :
                                built = Transaction(chosen, PayoutOf(chosen, r), size)
<1>. DEFINE chosen == SelectPrevouts(S, r)
            gives == chosen # {} /\ ~ IsTooLarge(Cardinality(chosen)) /\ PayoutOf(chosen, r) >= Dust
<1>1. S \in SUBSET Coin /\ IsFiniteSet(S)
  BY DEF IsSnapshot
<1>2. chosen \in SUBSET S
  BY <1>1, SelectionPaysMost
<1>. HIDE DEF chosen
<1>3. PayoutOf(chosen, r) \in Int
  BY <1>1, <1>2, EconomicPaysMore
<1>4. Dust \in Nat
  BY SizeAssumption
<1>5. CASE ~ gives
  <2>1. built = Absent
    <3>1. chosen = {} \/ IsTooLarge(Cardinality(chosen)) \/ PayoutOf(chosen, r) < Dust
      BY <1>3, <1>4, <1>5
    <3>. QED
      BY <3>1 DEF Built, chosen
  <2>. HIDE DEF gives
  <2>. QED
    BY <1>2, <1>3, <1>5, <2>1 DEF chosen, gives
<1>6. CASE gives
  <2>1. PayoutOf(chosen, r) \in Nat
    BY <1>3, <1>4, <1>6
  <2>2. ~ (chosen = {} \/ IsTooLarge(Cardinality(chosen)) \/ PayoutOf(chosen, r) < Dust)
    BY <1>3, <1>4, <1>6
  <2>3. PICK size \in ActualSizes(Cardinality(chosen)) :
            built = Transaction(chosen, PayoutOf(chosen, r), size)
    BY <2>2 DEF Built, chosen
  <2>4. size \in Nat
    <3>1. Cardinality(chosen) \in Nat
      BY <1>1, <1>2, FS_Subset, FS_CardinalityType
    <3>. QED
      BY <3>1, SizesAreNumbers
  <2>5. built \in Claim
    <3>1. Outpoints(chosen) \in SUBSET [tx : Servable, vout : Nat]
      BY <1>1, <1>2 DEF Outpoints, Outpoint, Coin
    <3>. QED
      BY <2>1, <2>3, <2>4, <3>1 DEF Transaction, Claim
  <2>6. built # Absent
    BY <2>5, InputsAssumption
  <2>7. \E z \in ActualSizes(Cardinality(chosen)) :
            built = Transaction(chosen, PayoutOf(chosen, r), z)
    BY <2>3
  <2>. HIDE DEF gives
  <2>. QED
    BY <1>2, <1>3, <1>6, <2>1, <2>6, <2>7 DEF chosen, gives
<1>. QED
  BY <1>5, <1>6

\* What is built rests on the coins of one snapshot, and is what the builder makes of
\* them and the verifier lets through.
ClaimInv ==
    /\ step # "idle" => lists[1] \in Lists /\ IsUnique(lists[1])
    /\ step = "build" \/ rate # Absent => IsSnapshot(accepted)
    /\ rate # Absent =>
         /\ rate \in Rates
         /\ \E built \in Built(accepted, rate) :
              claim = IF built # Absent /\ Verified(built, accepted, rate) THEN built ELSE Absent

\* The coins of a list that names no outpoint twice are a snapshot.
LEMMA ListedIsSnapshot ==
    ASSUME NEW list \in Lists, IsUnique(list), \A e \in Confirmed(list) : e.tx \in Servable
    PROVE  IsSnapshot({CoinOf(e) : e \in Confirmed(list)})
<1>. DEFINE L == Confirmed(list)
            S == {CoinOf(e) : e \in L}
            f == [e \in L |-> CoinOf(e)]
<1>1. L \in SUBSET Entry /\ IsFiniteSet(L)
  BY InputsAssumption, FS_Subset DEF Confirmed
<1>2. \A a, b \in L : Outpoint(a) = Outpoint(b) => a.value = b.value
  BY DEF IsUnique
<1>. HIDE DEF L
<1>3. S \in SUBSET Coin
  BY <1>1 DEF CoinOf, Coin, Entry, L
<1>4. IsFiniteSet(S)
  <2>1. f \in Surjection(L, S)
    BY DEF Surjection
  <2>. HIDE DEF f, S
  <2>. QED
    BY <1>1, <2>1, FS_Surjection
<1>5. ASSUME NEW a \in S, NEW b \in S, Outpoint(a) = Outpoint(b) PROVE a = b
  <2>1. PICK d \in L, e \in L : a = CoinOf(d) /\ b = CoinOf(e)
    OBVIOUS
  <2>2. d.tx = e.tx /\ d.vout = e.vout
    BY <1>5, <2>1 DEF CoinOf, Outpoint
  <2>3. d.value = e.value
    BY <1>2, <2>2 DEF Outpoint
  <2>. QED
    BY <2>1, <2>2, <2>3 DEF CoinOf
<1>. HIDE DEF S
<1>. QED
  BY <1>3, <1>4, <1>5 DEF IsSnapshot, S, L

\* Every step keeps this.
LEMMA ClaimStep == ClaimInv /\ IInv /\ [Next]_vars => ClaimInv'
<1>. SUFFICES ASSUME ClaimInv, IInv, [Next]_vars PROVE ClaimInv'
  OBVIOUS
<1>1. CASE FetchLists
  <2>1. PICK a \in Lists, b \in Lists :
            Agree(a, b) /\ lists' = [i \in Sources |-> IF i = 1 THEN a ELSE b]
    BY <1>1 DEF FetchLists
  <2>2. lists'[1] = a
    BY <2>1 DEF Sources
  <2>. QED
    BY <1>1, <2>1, <2>2 DEF FetchLists, ClaimInv, Agree
<1>2. ASSUME NEW where, Fail(where) PROVE ClaimInv'
  BY <1>2 DEF Fail, ClaimInv
<1>3. CASE UNCHANGED <<step, lists, accepted, rate, claim>>
  BY <1>3 DEF ClaimInv
<1>4. CASE VerifyPrevouts
  <2>1. /\ step = "load" /\ Wanted \subseteq DOMAIN raws /\ step' = "build"
        /\ UNCHANGED <<lists, rate>>
        /\ \A e \in Listed : raws[e.tx] = e.tx /\ Outputs[e.tx][e.vout].value = e.value
    <3>1. \A e \in Listed : IsVerified(e)
      BY <1>4 DEF VerifyPrevouts
    <3>. QED
      BY <1>4, <3>1 DEF VerifyPrevouts, AllLoaded, IsVerified, IsPrevout
  <2>2. accepted' = {CoinOf(e) : e \in Listed}
    BY <1>4, <2>1 DEF VerifyPrevouts, CoinOf
  <2>3. \A e \in Confirmed(lists[1]) : e.tx \in Servable
    BY <2>1 DEF Wanted, Listed, IInv, Recognised
  <2>4. IsSnapshot(accepted')
    BY <2>1, <2>2, <2>3, ListedIsSnapshot DEF ClaimInv, Listed
  <2>5. rate = Absent
    BY <2>1 DEF IInv, FetchKnown
  <2>. QED
    BY <2>1, <2>4, <2>5 DEF ClaimInv
<1>5. CASE Build
  <2>1. PICK r \in Rates :
          /\ rate' = r
          /\ \E built \in Built(accepted, r) :
               claim' = IF built # Absent /\ Verified(built, accepted, r) THEN built ELSE Absent
    BY <1>5 DEF Build
  <2>2. step = "build" /\ step' = "idle" /\ UNCHANGED accepted
    BY <1>5 DEF Build
  <2>3. \E built \in Built(accepted', rate') :
           claim' = IF built # Absent /\ Verified(built, accepted', rate') THEN built ELSE Absent
    BY <2>1, <2>2
  <2>. QED
    BY <2>1, <2>2, <2>3 DEF ClaimInv
<1>. QED
  BY <1>1, <1>2, <1>3, <1>4, <1>5 DEF Next, Loading, vars, fetchVars, FetchListsFails,
     LoadCached, LoadFetched, LoadFails, VerifyPrevoutsFails

\* Under a rate, the claim is what the builder made of the snapshot.
LEMMA ClaimIsBuilt ==
    ASSUME ClaimInv, rate # Absent
    PROVE  IsSnapshot(accepted) /\ rate \in Nat \ {0} /\ claim \in Built(accepted, rate)
<1>1. IsSnapshot(accepted) /\ rate \in Nat \ {0}
  BY InputsAssumption DEF ClaimInv
<1>2. PICK built \in Built(accepted, rate) :
          claim = IF built # Absent /\ Verified(built, accepted, rate) THEN built ELSE Absent
  BY DEF ClaimInv
<1>3. ASSUME built # Absent PROVE Verified(built, accepted, rate)
  <2>. DEFINE chosen == SelectPrevouts(accepted, rate)
  <2>1. /\ chosen \in SUBSET accepted /\ chosen # {} /\ ~ IsTooLarge(Cardinality(chosen))
        /\ PayoutOf(chosen, rate) >= Dust /\ PayoutOf(chosen, rate) \in Nat
        /\ \E size \in ActualSizes(Cardinality(chosen)) :
             built = Transaction(chosen, PayoutOf(chosen, rate), size)
    BY <1>1, <1>3, BuiltIsChosen
  <2>. HIDE DEF chosen
  <2>2. PICK size \in ActualSizes(Cardinality(chosen)) :
            built = Transaction(chosen, PayoutOf(chosen, rate), size)
    BY <2>1
  <2>3. size <= MaxSize
    <3>1. Cardinality(chosen) \in Nat
      BY <1>1, <2>1, FS_Subset, FS_CardinalityType DEF IsSnapshot
    <3>2. size \in Nat /\ MaxVsize(Cardinality(chosen)) \in Nat /\ size <= MaxVsize(Cardinality(chosen))
      BY <3>1, SizesAreNumbers
    <3>. QED
      BY <2>1, <3>2, SizeAssumption DEF IsTooLarge
  <2>4. Verified(Transaction(chosen, PayoutOf(chosen, rate), size), accepted, rate)
    BY <1>1, <2>1, <2>3, VerifiedIsChosen DEF chosen
  <2>. QED
    BY <2>2, <2>4
<1>. QED
  BY <1>1, <1>2, <1>3

\* The claim starts with nothing.
LEMMA ClaimInit == Init => ClaimInv
  BY DEF Init, ClaimInv

\* The verifier accepts no other choice of inputs or amount than that of the claim, and this
\* one with any signatures; without a claim it accepts only what the builder gave up for its
\* worst case, and what is in fact within the limit (verify_signed_claim).
THEOREM OnlyBuiltIsAccepted == Spec => []VerifierAcceptsOnlyBuilt
<1>1. ClaimInv => VerifierAcceptsOnlyBuilt
  <2>. SUFFICES ASSUME ClaimInv, rate # Absent,
                       NEW picked \in SUBSET accepted, NEW output \in 0 .. ValueOf(accepted),
                       NEW size \in ActualSizes(Cardinality(picked))
                PROVE  IF claim # Absent
                       THEN Verified(Transaction(picked, output, size), accepted, rate)
                              <=> Transaction(picked, output, size) = [claim EXCEPT !.size = size]
                       ELSE Verified(Transaction(picked, output, size), accepted, rate)
                              => IsTooLarge(Cardinality(picked)) /\ size <= MaxSize
    BY DEF VerifierAcceptsOnlyBuilt
  <2>. DEFINE chosen == SelectPrevouts(accepted, rate)
  <2>1. IsSnapshot(accepted) /\ rate \in Nat \ {0} /\ claim \in Built(accepted, rate)
    BY ClaimIsBuilt
  <2>2. output \in Nat
    <3>1. ValueOf(accepted) \in Nat
      BY <2>1, ValueOfSets DEF IsSnapshot
    <3>. QED
      BY <3>1
  <2>3. Verified(Transaction(picked, output, size), accepted, rate)
          <=> /\ chosen # {} /\ picked = chosen /\ size <= MaxSize
              /\ output = PayoutOf(chosen, rate) /\ output >= Dust
    BY <2>1, <2>2, VerifiedIsChosen
  <2>4. /\ chosen \in SUBSET accepted
        /\ (chosen # {} /\ ~ IsTooLarge(Cardinality(chosen)) /\ PayoutOf(chosen, rate) >= Dust)
             <=> claim # Absent
        /\ claim # Absent => \E z \in ActualSizes(Cardinality(chosen)) :
                               claim = Transaction(chosen, PayoutOf(chosen, rate), z)
    BY <2>1, BuiltIsChosen
  <2>. HIDE DEF chosen
  <2>5. CASE claim # Absent
    <3>1. Transaction(picked, output, size) = [claim EXCEPT !.size = size]
            <=> picked = chosen /\ output = PayoutOf(chosen, rate)
      <4>1. [claim EXCEPT !.size = size] = Transaction(chosen, PayoutOf(chosen, rate), size)
        BY <2>4, <2>5 DEF Transaction
      <4>2. Outpoints(picked) = Outpoints(chosen) <=> picked = chosen
        BY <2>1, <2>4, OutpointsNameCoins
      <4>3. Transaction(picked, output, size) = Transaction(chosen, PayoutOf(chosen, rate), size)
              <=> Outpoints(picked) = Outpoints(chosen) /\ output = PayoutOf(chosen, rate)
        BY DEF Transaction
      <4>. QED
        BY <4>1, <4>2, <4>3
    <3>2. picked = chosen => size <= MaxSize
      <4>1. Cardinality(picked) \in Nat
        BY <2>1, FS_Subset, FS_CardinalityType DEF IsSnapshot
      <4>2. /\ size \in Nat /\ MaxVsize(Cardinality(picked)) \in Nat
            /\ size <= MaxVsize(Cardinality(picked))
        BY <4>1, SizesAreNumbers
      <4>. QED
        BY <2>4, <2>5, <4>2, SizeAssumption DEF IsTooLarge
    <3>. QED
      BY <2>3, <2>4, <2>5, <3>1, <3>2
  <2>6. CASE claim = Absent
    BY <2>3, <2>4, <2>6
  <2>. QED
    BY <2>5, <2>6
<1>. QED
  BY <1>1, ClaimInit, ClaimStep, FetchIsSafe, PTL DEF Spec

\* No set of the accepted coins pays more than the claim, and when none is built because
\* it would not pay, no set of them would: taking the most valuable coins one after the
\* other misses nothing, although the fee of a prefix may jump (select_prevouts).
THEOREM BestIsSelected == Spec => []SelectionIsBest
<1>1. ClaimInv => SelectionIsBest
  <2>. DEFINE chosen == SelectPrevouts(accepted, rate)
              Pays(least) == \E picked \in SUBSET accepted \ {{}} : PayoutOf(picked, rate) >= least
  <2>. SUFFICES ASSUME ClaimInv, rate # Absent
                PROVE  IF claim # Absent THEN ~ Pays(claim.output + 1)
                       ELSE Pays(Dust) => IsTooLarge(Cardinality(chosen))
    BY DEF SelectionIsBest
  <2>1. IsSnapshot(accepted) /\ rate \in Nat \ {0} /\ claim \in Built(accepted, rate)
    BY ClaimIsBuilt
  <2>a. /\ (chosen # {} /\ ~ IsTooLarge(Cardinality(chosen)) /\ PayoutOf(chosen, rate) >= Dust)
             <=> claim # Absent
        /\ claim # Absent => \E z \in ActualSizes(Cardinality(chosen)) :
                               claim = Transaction(chosen, PayoutOf(chosen, rate), z)
    BY <2>1, BuiltIsChosen
  <2>2. accepted \in SUBSET Coin /\ IsFiniteSet(accepted)
    BY <2>1 DEF IsSnapshot
  <2>3. /\ chosen \in SUBSET accepted
        /\ chosen = {} => \A T \in SUBSET accepted : PayoutOf(T, rate) < 0
        /\ chosen # {} => \A T \in SUBSET accepted :
                             PayoutOf(T, rate) <= PayoutOf(chosen, rate)
    BY <2>1, <2>2, SelectionPaysMost
  <2>4. Dust \in Nat /\ \A T \in SUBSET accepted : PayoutOf(T, rate) \in Int
    BY <2>1, <2>2, EconomicPaysMore, SizeAssumption
  <2>5. CASE claim # Absent
    <3>1. chosen # {} /\ claim.output = PayoutOf(chosen, rate)
      BY <2>a, <2>5 DEF Transaction
    <3>2. \A T \in SUBSET accepted : ~ (PayoutOf(T, rate) >= PayoutOf(chosen, rate) + 1)
      BY <2>3, <2>4, <3>1
    <3>. HIDE DEF chosen
    <3>. QED
      BY <2>5, <3>1, <3>2
  <2>6. CASE claim = Absent
    <3>. SUFFICES ASSUME NEW picked \in SUBSET accepted, PayoutOf(picked, rate) >= Dust,
                         ~ IsTooLarge(Cardinality(chosen))
                  PROVE  FALSE
      BY <2>6
    <3>1. chosen # {} /\ ~ (PayoutOf(chosen, rate) < Dust)
      <4>1. PayoutOf(picked, rate) \in Int /\ ~ (PayoutOf(picked, rate) < 0)
        BY <2>4
      <4>2. chosen # {}
        BY <2>3, <4>1
      <4>3. PayoutOf(picked, rate) <= PayoutOf(chosen, rate) /\ PayoutOf(chosen, rate) \in Int
        BY <2>3, <2>4, <4>2
      <4>. HIDE DEF chosen
      <4>. QED
        BY <2>4, <4>1, <4>2, <4>3
    <3>2. PayoutOf(chosen, rate) >= Dust
      <4>1. PayoutOf(chosen, rate) \in Int
        BY <2>3, <2>4
      <4>. HIDE DEF chosen
      <4>. QED
        BY <2>4, <3>1, <4>1
    <3>. HIDE DEF chosen
    <3>. QED
      BY <2>a, <2>6, <3>1, <3>2
  <2>. QED
    BY <2>5, <2>6
<1>. QED
  BY <1>1, ClaimInit, ClaimStep, FetchIsSafe, PTL DEF Spec

-----------------------------------------------------------------------------
(* The way to the network and back *)

IsSequence(u) == u \in Seq({u[i] : i \in DOMAIN u})

\* The host of a URL that has one ends before the first piece with a slash.
LEMMA AuthorityIsFirst ==
    ASSUME NEW S, NEW u \in Seq(S), \E i \in 2 .. Len(u) : u[i] \in Slashed
    PROVE  /\ AuthorityLength(u) \in 0 .. Len(u) - 2
           /\ u[AuthorityLength(u) + 2] \in Slashed
           /\ \A i \in 2 .. AuthorityLength(u) + 1 : u[i] \notin Slashed
<1>. DEFINE T == {i \in 2 .. Len(u) : u[i] \in Slashed}
<1>1. PICK i \in T : \A j \in T : i <= j
  <2>1. T \subseteq Nat /\ T # {}
    OBVIOUS
  <2>. HIDE DEF T
  <2>. QED
    BY <2>1, LeastExists
<1>2. i - 2 \in 0 .. Len(u) - 2 /\ u[(i - 2) + 2] \in Slashed
  OBVIOUS
<1>3. \A j \in 2 .. (i - 2) + 1 : u[j] \notin Slashed
  BY <1>1
<1>4. \E n \in 0 .. Len(u) - 2 : /\ u[n + 2] \in Slashed
                                /\ \A j \in 2 .. n + 1 : u[j] \notin Slashed
  BY <1>2, <1>3
<1>. QED
  BY <1>4 DEF AuthorityLength

\* What a URL of a scheme, a host and a path consists of.
LEMMA HttpsIsSequence ==
    ASSUME NEW S, "https://" \in S, NEW h \in S, NEW p \in Seq(S)
    PROVE  /\ Https(h, p) \in Seq(S) /\ Len(Https(h, p)) = 2 + Len(p)
           /\ Https(h, p)[1] = "https://" /\ Https(h, p)[2] = h
           /\ \A i \in 1 .. Len(p) : Https(h, p)[i + 2] = p[i]
<1>1. <<"https://", h>> \in Seq(S) /\ Len(<<"https://", h>>) = 2
  OBVIOUS
<1>. QED
  BY <1>1 DEF Https

\* A URL with the scheme, a host of one piece and a path is those three.
LEMMA UrlOfParts ==
    ASSUME NEW S, NEW u \in Seq(S), Len(u) > 0, u[1] = "https://",
           \E i \in 2 .. Len(u) : u[i] \in Slashed,
           NEW h, HostOf(u) = <<h>>
    PROVE  u = Https(h, PathOf(u))
<1>. DEFINE n == AuthorityLength(u)
            p == PathOf(u)
<1>1. n \in 0 .. Len(u) - 2
  BY AuthorityIsFirst
<1>. HIDE DEF n
<1>2. SubSeq(u, 2, n + 1) = <<h>>
  BY DEF HostOf, n
<1>3. Len(SubSeq(u, 2, n + 1)) = 1 /\ SubSeq(u, 2, n + 1)[1] = h
  <2>1. Len(<<h>>) = 1 /\ <<h>>[1] = h
    OBVIOUS
  <2>. QED
    BY <2>1, <1>2, Zenon
<1>4. Len(SubSeq(u, 2, n + 1)) = n
  BY <1>1
<1>5. n = 1 /\ u[2] = h
  BY <1>1, <1>3, <1>4
<1>6. p = SubSeq(u, 3, Len(u))
  BY <1>5 DEF PathOf, n
<1>7. /\ p \in Seq(S) /\ Len(p) = Len(u) - 2
      /\ \A i \in 1 .. Len(p) : p[i] = u[i + 2]
  BY <1>1, <1>5, <1>6
<1>. HIDE DEF p
<1>8. "https://" \in S /\ h \in S
  BY <1>1, <1>5
<1>9. /\ Https(h, p) \in Seq(S) /\ Len(Https(h, p)) = 2 + Len(p)
      /\ Https(h, p)[1] = "https://" /\ Https(h, p)[2] = h
      /\ \A i \in 1 .. Len(p) : Https(h, p)[i + 2] = p[i]
  <2>1. "https://" \in S
    BY <1>8
  <2>2. h \in S
    BY <1>8
  <2>3. p \in Seq(S)
    BY <1>7
  <2>. QED
    BY <2>1, <2>2, <2>3, HttpsIsSequence
<1>10. Len(u) = Len(Https(h, p))
  BY <1>7, <1>9
<1>11. ASSUME NEW i \in 1 .. Len(u) PROVE u[i] = Https(h, p)[i]
  <2>1. CASE i \in {1, 2}
    BY <2>1, <1>5, <1>9
  <2>2. CASE i \notin {1, 2}
    <3>1. i - 2 \in 1 .. Len(p) /\ (i - 2) + 2 = i
      BY <2>2, <1>7
    <3>2. p[i - 2] = u[(i - 2) + 2] /\ Https(h, p)[(i - 2) + 2] = p[i - 2]
      BY <3>1, <1>7, <1>9
    <3>. QED
      BY <3>1, <3>2
  <2>. QED
    BY <2>1, <2>2
<1>12. u = Https(h, p)
  BY <1>9, <1>10, <1>11, SeqEqual
<1>. QED
  BY <1>12 DEF p

\* Host and path of a URL are what it was made of.
LEMMA PartsOfUrl ==
    ASSUME NEW S, "https://" \in S, NEW h \in S, NEW p \in Seq(S),
           Len(p) > 0, h \notin Slashed, p[1] \in Slashed
    PROVE  HostOf(Https(h, p)) = <<h>> /\ PathOf(Https(h, p)) = p
<1>. DEFINE u == Https(h, p)
<1>1. /\ u \in Seq(S) /\ Len(u) = 2 + Len(p) /\ u[2] = h
      /\ \A i \in 1 .. Len(p) : u[i + 2] = p[i]
  BY HttpsIsSequence
<1>. HIDE DEF u
<1>2. u[3] \in Slashed
  <2>1. 1 \in 1 .. Len(p) /\ 1 + 2 = 3
    OBVIOUS
  <2>. QED
    BY <2>1, <1>1
<1>3. AuthorityLength(u) = 1
  <2>1. 3 \in 2 .. Len(u)
    BY <1>1
  <2>2. /\ AuthorityLength(u) \in 0 .. Len(u) - 2
        /\ u[AuthorityLength(u) + 2] \in Slashed
        /\ \A i \in 2 .. AuthorityLength(u) + 1 : u[i] \notin Slashed
    BY <2>1, <1>1, <1>2, AuthorityIsFirst
  <2>3. AuthorityLength(u) # 0
    BY <2>2, <1>1
  <2>4. ~ (AuthorityLength(u) > 1)
    BY <2>2, <1>2
  <2>. QED
    BY <2>2, <2>3, <2>4
<1>4. HostOf(u) = SubSeq(u, 2, 2) /\ PathOf(u) = SubSeq(u, 3, Len(u))
  BY <1>3 DEF HostOf, PathOf
<1>5. SubSeq(u, 2, 2) = <<h>>
  <2>1. /\ SubSeq(u, 2, 2) \in Seq(S) /\ Len(SubSeq(u, 2, 2)) = Len(<<h>>)
        /\ <<h>> \in Seq(S) /\ SubSeq(u, 2, 2)[1] = h /\ <<h>>[1] = h
        /\ Len(<<h>>) = 1
    BY <1>1
  <2>2. \A i \in 1 .. Len(SubSeq(u, 2, 2)) : SubSeq(u, 2, 2)[i] = <<h>>[i]
    BY <2>1
  <2>. QED
    BY <2>1, <2>2, SeqEqual
<1>6. SubSeq(u, 3, Len(u)) = p
  <2>1. SubSeq(u, 3, Len(u)) \in Seq(S) /\ Len(SubSeq(u, 3, Len(u))) = Len(p)
    BY <1>1
  <2>2. \A i \in 1 .. Len(SubSeq(u, 3, Len(u))) : SubSeq(u, 3, Len(u))[i] = p[i]
    BY <1>1
  <2>. QED
    BY <2>1, <2>2, SeqEqual
<1>. QED
  BY <1>4, <1>5, <1>6 DEF u

\* A request of a permitted form is allowed, if no piece of it is unusable.
LEMMA FormIsAllowed ==
    ASSUME NEW S, "https://" \in S, NEW h \in S, NEW p \in Seq(S), NEW m,
           Len(p) > 0, h \notin Slashed, p[1] \in Slashed,
           h \notin {"@", ":", "UPPER"}, S \cap Unusable = {},
           IsPermitted(m, <<h>>, p)
    PROVE  IsAllowed(m, Https(h, p))
<1>. DEFINE u == Https(h, p)
<1>1. /\ u \in Seq(S) /\ Len(u) = 2 + Len(p) /\ u[1] = "https://"
      /\ \A i \in 1 .. Len(p) : u[i + 2] = p[i]
  BY HttpsIsSequence
<1>2. HostOf(u) = <<h>> /\ PathOf(u) = p
  BY PartsOfUrl
<1>. HIDE DEF u
<1>3. \A i \in 1 .. Len(u) : u[i] \notin Unusable
  BY <1>1
<1>4. Len(u) > 0 /\ Head(u) = "https://"
  BY <1>1
<1>5. \E i \in 2 .. Len(u) : u[i] \in Slashed
  <2>1. 1 \in 1 .. Len(p) /\ 1 + 2 \in 2 .. Len(u)
    BY <1>1
  <2>. QED
    BY <2>1, <1>1
<1>6. \A i \in 1 .. Len(HostOf(u)) : HostOf(u)[i] \notin {"@", ":", "UPPER"}
  BY <1>2
<1>7. IsPermitted(m, HostOf(u), PathOf(u))
  BY <1>2
<1>8. IsAllowed(m, u)
  BY <1>3, <1>4, <1>5, <1>6, <1>7 DEF IsAllowed
<1>. QED
  BY <1>8 DEF u

\* What is allowed is one of the requests of the claim.
LEMMA AllowedIsPermitted ==
    ASSUME NEW m \in Methods, NEW u, IsSequence(u), IsAllowed(m, u)
    PROVE  [method |-> m, url |-> u] \in Permitted
<1>. DEFINE S == {u[i] : i \in DOMAIN u}
            p == PathOf(u)
<1>1. u \in Seq(S)
  BY DEF IsSequence
<1>. HIDE DEF S
<1>2. /\ Len(u) > 0 /\ u[1] = "https://"
      /\ \E i \in 2 .. Len(u) : u[i] \in Slashed
      /\ IsPermitted(m, HostOf(u), p)
  BY <1>1 DEF IsAllowed
<1>3. \A h : HostOf(u) = <<h>> => u = Https(h, p)
  BY <1>1, <1>2, UrlOfParts
<1>. HIDE DEF p
<1>4. CASE m = "Get"
  <2>1. \/ IsUtxoGet(HostOf(u), p) \/ IsTxHexGet(HostOf(u), p)
        \/ IsRatesGet(HostOf(u), p) \/ IsStatusGet(HostOf(u), p)
    BY <1>2, <1>4 DEF IsPermitted
  <2>2. CASE IsUtxoGet(HostOf(u), p) \/ IsTxHexGet(HostOf(u), p)
    <3>1. PICK h \in {Mempool, Blockstream} : HostOf(u) = <<h>>
      BY <2>2 DEF IsUtxoGet, IsTxHexGet, IsEsploraHost
    <3>2. u = Https(h, p) /\ p \in EsploraPaths
      BY <2>2, <3>1, <1>3 DEF IsUtxoGet, IsTxHexGet, EsploraPaths
    <3>3. [method |-> m, url |-> u] \in Gets(h, EsploraPaths)
      BY <3>2, <1>4 DEF Gets
    <3>. QED
      BY <3>1, <3>3 DEF Permitted
  <2>3. CASE IsRatesGet(HostOf(u), p) \/ IsStatusGet(HostOf(u), p)
    <3>1. u = Https(Slipstream, p) /\ p \in SlipstreamPaths
      BY <2>3, <1>3 DEF IsRatesGet, IsStatusGet, SlipstreamPaths
    <3>2. [method |-> m, url |-> u] \in Gets(Slipstream, SlipstreamPaths)
      BY <3>1, <1>4 DEF Gets
    <3>. QED
      BY <3>2 DEF Permitted
  <2>. QED
    BY <2>1, <2>2, <2>3
<1>5. CASE m = "PostJson"
  <2>1. IsSlipstreamSubmit(HostOf(u), p) \/ IsTelegramSend(HostOf(u), p)
    BY <1>2, <1>5 DEF IsPermitted
  <2>2. CASE IsSlipstreamSubmit(HostOf(u), p)
    <3>1. [method |-> m, url |-> u] \in Posts(Slipstream, {<<"/api/transactions">>})
      BY <2>2, <1>3, <1>5 DEF IsSlipstreamSubmit, Posts
    <3>. QED
      BY <3>1 DEF Permitted
  <2>3. CASE IsTelegramSend(HostOf(u), p)
    <3>1. p \in {<<"/bot", t, "/sendMessage">> : t \in Tokens} /\ u = Https(Telegram, p)
      BY <2>3, <1>3 DEF IsTelegramSend
    <3>2. [method |-> m, url |-> u]
          \in Posts(Telegram, {<<"/bot", t, "/sendMessage">> : t \in Tokens})
      BY <3>1, <1>5 DEF Posts
    <3>. QED
      BY <3>2 DEF Permitted
  <2>. QED
    BY <2>1, <2>2, <2>3
<1>. QED
  BY <1>4, <1>5 DEF Methods

\* None of the requests of the claim is refused for its form.
LEMMA PermittedIsAllowed ==
    ASSUME NEW m, NEW u, [method |-> m, url |-> u] \in Permitted
    PROVE  IsAllowed(m, u)
<1>1. \A h, p, w : [method |-> m, url |-> u] = [method |-> w, url |-> Https(h, p)]
                  => m = w /\ u = Https(h, p)
  OBVIOUS
<1>2. CASE \E h \in {Mempool, Blockstream} : [method |-> m, url |-> u] \in Gets(h, EsploraPaths)
  <2>1. PICK h \in {Mempool, Blockstream}, p \in EsploraPaths : m = "Get" /\ u = Https(h, p)
    BY <1>1, <1>2 DEF Gets
  <2>2. CASE p = <<"/api/address/TARGET/utxo">>
    <3>. DEFINE S == {"https://", h, "/api/address/TARGET/utxo"}
    <3>1. p \in Seq(S) /\ Len(p) = 1 /\ p[1] = "/api/address/TARGET/utxo"
      BY <2>2
    <3>2. S \cap Unusable = {}
      BY DEF Unusable, Mempool, Blockstream
    <3>3. IsPermitted(m, <<h>>, p)
      BY <2>1, <2>2 DEF IsPermitted, IsUtxoGet, IsEsploraHost
    <3>. QED
      BY <2>1, <3>1, <3>2, <3>3, FormIsAllowed DEF Mempool, Blockstream, Slashed
  <2>3. CASE \E t \in Txids : p = <<"/api/tx/", t, "/hex">>
    <3>1. PICK t \in Txids : p = <<"/api/tx/", t, "/hex">>
      BY <2>3
    <3>. DEFINE S == {"https://", h, "/api/tx/", t, "/hex"}
    <3>2. p \in Seq(S) /\ Len(p) = 3 /\ p[1] = "/api/tx/"
      BY <3>1
    <3>3. S \cap Unusable = {}
      BY AllowListAssumption DEF Unusable, Mempool, Blockstream
    <3>4. IsPermitted(m, <<h>>, p)
      BY <2>1, <3>1 DEF IsPermitted, IsTxHexGet, IsEsploraHost
    <3>. QED
      BY <2>1, <3>2, <3>3, <3>4, FormIsAllowed DEF Mempool, Blockstream, Slashed
  <2>. QED
    BY <2>1, <2>2, <2>3 DEF EsploraPaths
<1>3. CASE [method |-> m, url |-> u] \in Gets(Slipstream, SlipstreamPaths)
  <2>1. PICK p \in SlipstreamPaths : m = "Get" /\ u = Https(Slipstream, p)
    BY <1>1, <1>3 DEF Gets
  <2>2. CASE p = <<"/api/rates">>
    <3>. DEFINE S == {"https://", Slipstream, "/api/rates"}
    <3>1. p \in Seq(S) /\ Len(p) = 1 /\ p[1] = "/api/rates"
      BY <2>2
    <3>2. S \cap Unusable = {}
      BY DEF Unusable, Slipstream
    <3>3. IsPermitted(m, <<Slipstream>>, p)
      BY <2>1, <2>2 DEF IsPermitted, IsRatesGet
    <3>. QED
      BY <2>1, <3>1, <3>2, <3>3, FormIsAllowed DEF Slipstream, Slashed
  <2>3. CASE \E t \in Txids : p = <<"/api/transactions/status?tx_id=", t>>
    <3>1. PICK t \in Txids : p = <<"/api/transactions/status?tx_id=", t>>
      BY <2>3
    <3>. DEFINE S == {"https://", Slipstream, "/api/transactions/status?tx_id=", t}
    <3>2. p \in Seq(S) /\ Len(p) = 2 /\ p[1] = "/api/transactions/status?tx_id="
      BY <3>1
    <3>3. S \cap Unusable = {}
      BY AllowListAssumption DEF Unusable, Slipstream
    <3>4. IsPermitted(m, <<Slipstream>>, p)
      BY <2>1, <3>1 DEF IsPermitted, IsStatusGet
    <3>. QED
      BY <2>1, <3>2, <3>3, <3>4, FormIsAllowed DEF Slipstream, Slashed
  <2>. QED
    BY <2>1, <2>2, <2>3 DEF SlipstreamPaths
<1>4. CASE [method |-> m, url |-> u] \in Posts(Slipstream, {<<"/api/transactions">>})
  <2>. DEFINE p == <<"/api/transactions">>
              S == {"https://", Slipstream, "/api/transactions"}
  <2>1. m = "PostJson" /\ u = Https(Slipstream, p)
    BY <1>1, <1>4 DEF Posts
  <2>2. p \in Seq(S) /\ Len(p) = 1 /\ p[1] = "/api/transactions"
    OBVIOUS
  <2>3. S \cap Unusable = {}
    BY DEF Unusable, Slipstream
  <2>4. IsPermitted(m, <<Slipstream>>, p)
    BY <2>1 DEF IsPermitted, IsSlipstreamSubmit
  <2>. HIDE DEF p
  <2>. QED
    BY <2>1, <2>2, <2>3, <2>4, FormIsAllowed DEF Slipstream, Slashed
<1>5. CASE [method |-> m, url |-> u]
           \in Posts(Telegram, {<<"/bot", t, "/sendMessage">> : t \in Tokens})
  <2>1. PICK t \in Tokens :
            m = "PostJson" /\ u = Https(Telegram, <<"/bot", t, "/sendMessage">>)
    BY <1>1, <1>5 DEF Posts
  <2>. DEFINE p == <<"/bot", t, "/sendMessage">>
              S == {"https://", Telegram, "/bot", t, "/sendMessage"}
  <2>2. p \in Seq(S) /\ Len(p) = 3 /\ p[1] = "/bot"
    OBVIOUS
  <2>3. S \cap Unusable = {}
    BY AllowListAssumption DEF Unusable, Telegram
  <2>4. IsPermitted(m, <<Telegram>>, p)
    BY <2>1 DEF IsPermitted, IsTelegramSend
  <2>5. u = Https(Telegram, p)
    BY <2>1
  <2>. HIDE DEF p
  <2>. QED
    BY <2>5, <2>2, <2>3, <2>4, FormIsAllowed DEF Telegram, Slashed
<1>. QED
  BY <1>2, <1>3, <1>4, <1>5 DEF Permitted

-----------------------------------------------------------------------------
(* The inductive invariant: the transport *)

\* execute is within a request exactly as long as there is a curl process.
StageInv ==
    /\ stage \in {"idle", "write", "read", "wait", "returned"}
    /\ child \in {"none", "config", "connect", "sent", "output", "exited"}
    /\ stage \in {"idle", "returned"} => child = "none"
    /\ stage \notin {"idle", "returned"} => child # "none"
    /\ stage = "wait" => child = "exited" /\ pipe = 0

Written == left + pipe + got

\* What curl has written, is in the pipe or was read is never more than an answer with its
\* status line, and it is that answer if curl ends well.
BytesInv ==
    /\ left \in Nat /\ pipe \in Nat /\ got \in 0 .. MaxOutput
    /\ answer # Nil => answer.size \in Nat /\ Written <= answer.size + StatusLine
    /\ answer = Nil => Written <= StatusLine
    /\ stage = "idle" \/ child \in {"config", "connect", "sent"} =>
         answer = Nil /\ left = 0 /\ pipe = 0 /\ got = 0 /\ code = 0
    /\ child \in {"output", "exited"} /\ code = 0 =>
         answer # Nil /\ Written = answer.size + StatusLine
    /\ child = "exited" /\ code = 0 => left = 0

\* A response is an error, or the text of the answer.
ResponseInv ==
    stage = "returned" /\ response.ok => answer.body # Binary

\* Only what may leave is given to a curl process.
RequestInv ==
    /\ child # "none" => Visible(request) \in Permitted
    /\ sent # Nil => sent \in Permitted
    /\ stage = "returned" /\ response = Error("NotAllowed") => Visible(request) \notin Permitted

-----------------------------------------------------------------------------
(* The inductive invariant: what the answer says and what was decided *)

\* The rate is the least whole one that no quoted rate exceeds.
RateFits(least, d) ==
    /\ d[1] = "quoted"
    /\ least = MaxRate \/ \A r \in d[2] : r <= 2 * least
    /\ \E r \in d[2] : r > 2 * (least - 1)

SubmitFits(a, d) ==
    LET txid == TxidOf[call.tx]
    IN  /\ /\ a.status = 200
           /\ Member(a.body, "status") = "success"
           /\ Member(a.body, "message") = txid
           => d = <<"taken">>
        /\ /\ a.status = 400
           /\ Member(a.body, "status") = "error" \/ Member(a.body, "is_success") = FALSE
           => d = <<"refused">>

StatusFits(a, d) ==
    /\ a.status = 200 /\ Member(a.body, "txid") = TxidOf[call.tx] =>
         /\ Member(a.body, "confirmed") = TRUE /\ Member(a.body, "height") # None =>
              d = <<"confirmed", a.body.height>>
         /\ Member(a.body, "confirmed") = FALSE => d = <<"pending">>
    /\ a.status = 400 /\ Member(a.body, "message") = "Transaction not found" =>
         d = <<"unknown">>

FloorFits(a, d) ==
    a.status = 200 /\ FloorOf(a.body).kind = "floor" => RateFits(FloorOf(a.body).rate, d)

AlertFits(a, d) ==
    a.status = 200 /\ Member(a.body, "ok") = TRUE => d = <<"taken">>

\* Whatever answers, a definite answer to the running call is the decision of its peer.
AnswerInv ==
    answer # Nil /\ answer.body # Binary =>
      /\ call.op = "submit" => SubmitFits(answer, decision)
      /\ call.op = "status" => StatusFits(answer, decision)
      /\ call.op = "floor" => FloorFits(answer, decision)
      /\ call.op = "alert" => AlertFits(answer, decision)

CallInv ==
    stage # "idle" => outcome = None /\ (call \in Calls \/ call.op = "other")

OutcomeInv == OutcomeIsEarned /\ FloorIsEnough

-----------------------------------------------------------------------------
(* The inductive invariant: the rehearsal *)

Questions ==
    {"idle", "getblockchaininfo", "sendrawtransaction", "getrawtransaction", "getblockheader",
     "scantxoutset"}

\* A process has one of the two clients, and the other one is at rest.
BackendInv ==
    /\ backend \in {"slipstream", "regtest"}
    /\ backend = "slipstream" => rpc = "idle"
    /\ backend = "regtest" => stage = "idle"
    /\ mined \in [Txs -> Heights \cup {None}]
    /\ floorVar \in {None, -1, 0, 1}
    /\ backend = "regtest" /\ submitted # {} => chain = "regtest"

\* What the client knows at each of its questions.
QuestionInv ==
    /\ rpc \in Questions
    /\ rpc # "idle" => outcome = None
    /\ rpc = "getblockchaininfo" => call.op \in {"submit", "coins"}
    /\ rpc = "sendrawtransaction" => call.op = "submit" /\ chain = "regtest"
    /\ rpc = "scantxoutset" => call.op = "coins"
    /\ rpc = "getrawtransaction" =>
         \/ call.op = "status" /\ call.tx \in Txs
         \/ call.op = "coins" /\ decision = <<"listed", decision[2]>>
    /\ rpc = "getblockheader" =>
         /\ call.op = "status" /\ call.tx \in Txs
         /\ mined[call.tx] # None
         /\ decision = <<"confirmed", mined[call.tx]>>

\* What it may conclude from the reply.
ReplyInv ==
    reply # None =>
      /\ rpc = "getblockchaininfo" => (reply.ok => reply.value = chain)
      /\ rpc = "sendrawtransaction" =>
           /\ reply.ok => decision = <<"taken">>
           /\ ~reply.ok /\ reply.error = "Rpc" /\ reply.code \in -27 .. -25 =>
                decision \in {<<"refused">>, <<"in chain">>}
      /\ rpc = "scantxoutset" =>
           (reply.ok /\ reply.value # None => decision = <<"listed", reply.value>>)
      /\ rpc = "getrawtransaction" /\ call.op = "status" =>
           /\ reply.ok /\ reply.value = 0 => decision = <<"pending">>
           /\ reply.ok /\ reply.value # 0 =>
                mined[call.tx] # None /\ decision = <<"confirmed", mined[call.tx]>>
           /\ ~reply.ok /\ reply.code = -5 => decision = <<"unknown">>
      /\ rpc = "getblockheader" => (reply.ok => reply.value = mined[call.tx])

-----------------------------------------------------------------------------

TransportInv == StageInv /\ BytesInv /\ ResponseInv /\ RequestInv /\ ResponseIsExact

RegtestInv == BackendInv /\ QuestionInv /\ ReplyInv

NetworkInv == TransportInv /\ AnswerInv /\ CallInv /\ OutcomeInv /\ RegtestInv

-----------------------------------------------------------------------------
(* Steps of a request *)

\* The requests the client makes are the claim's.
LEMMA RequestsArePermitted ==
    ASSUME NEW c \in Calls
    PROVE  Visible(RequestOf(c)) \in Permitted
<1>1. CASE c.op = "submit"
  <2>1. Visible(RequestOf(c))
        = [method |-> "PostJson", url |-> Https(Slipstream, <<"/api/transactions">>)]
    BY <1>1 DEF RequestOf, PostOf, Visible
  <2>. QED
    BY <2>1 DEF Posts, Permitted
<1>2. CASE c.op = "status"
  <2>1. TxidOf[c.tx] \in Txids
    <3>1. c.tx \in Txs
      BY <1>2 DEF Calls
    <3>. QED
      BY <3>1, SlipstreamAssumption
  <2>2. Visible(RequestOf(c))
        = [method |-> "Get",
           url |-> Https(Slipstream, <<"/api/transactions/status?tx_id=", TxidOf[c.tx]>>)]
    BY <1>2 DEF RequestOf, GetOf, Visible
  <2>3. <<"/api/transactions/status?tx_id=", TxidOf[c.tx]>> \in SlipstreamPaths
    BY <2>1 DEF SlipstreamPaths
  <2>4. Visible(RequestOf(c)) \in Gets(Slipstream, SlipstreamPaths)
    BY <2>2, <2>3 DEF Gets
  <2>. QED
    BY <2>4 DEF Permitted
<1>3. CASE c.op = "floor"
  <2>1. Visible(RequestOf(c)) = [method |-> "Get", url |-> Https(Slipstream, <<"/api/rates">>)]
    BY <1>3 DEF RequestOf, GetOf, Visible
  <2>2. Visible(RequestOf(c)) \in Gets(Slipstream, SlipstreamPaths)
    BY <2>1 DEF Gets, SlipstreamPaths
  <2>. QED
    BY <2>2 DEF Permitted
<1>4. CASE c.op = "alert"
  <2>1. Visible(RequestOf(c))
        = [method |-> "PostJson", url |-> Https(Telegram, <<"/bot", Token, "/sendMessage">>)]
    BY <1>4 DEF RequestOf, PostOf, Visible
  <2>2. <<"/bot", Token, "/sendMessage">> \in {<<"/bot", t, "/sendMessage">> : t \in Tokens}
    BY SlipstreamAssumption
  <2>3. Visible(RequestOf(c))
        \in Posts(Telegram, {<<"/bot", t, "/sendMessage">> : t \in Tokens})
    BY <2>1, <2>2 DEF Posts
  <2>. QED
    BY <2>3 DEF Permitted
<1>. QED
  BY <1>1, <1>2, <1>3, <1>4 DEF Calls

\* A request the program may be asked for: one of the claim's or of the other callers.
Requested(r) == Visible(r) \in Permitted \/ r \in Others

\* Such a request is allowed exactly if it is the claim's.
LEMMA AllowedExactly ==
    ASSUME NEW r, Requested(r)
    PROVE  IsAllowed(r.method, r.url) <=> Visible(r) \in Permitted
<1>1. Visible(r) = [method |-> r.method, url |-> r.url]
  BY DEF Visible
<1>2. Visible(r) \in Permitted => IsAllowed(r.method, r.url)
  BY <1>1, PermittedIsAllowed
<1>3. ASSUME r \in Others, IsAllowed(r.method, r.url) PROVE Visible(r) \in Permitted
  <2>1. r.method \in Methods /\ IsSequence(r.url)
    BY <1>3, SlipstreamAssumption DEF IsSequence
  <2>. QED
    BY <1>1, <1>3, <2>1, AllowedIsPermitted
<1>. QED
  BY <1>2, <1>3 DEF Requested

\* Texts that are no answer of the peer's, and quotes, are bodies.
LEMMA TroubledBodies ==
    Junk \in Bodies /\ Binary \in Bodies /\ Quotes \subseteq Bodies /\ [message |-> "no"] \in Bodies
BY DEF Bodies

\* What is said in one piece is an answer.
LEMMA SaidIsAnswer ==
    ASSUME NEW body \in Bodies
    PROVE  Says(200, body) \subseteq AnswerSet /\ Says(400, body) \subseteq AnswerSet
BY DEF AnswerSet, Says

\* And has the status and the body that it says.
LEMMA SaidIsSaid ==
    ASSUME NEW status, NEW body, NEW a \in Says(status, body)
    PROVE  a.status = status /\ a.body = body
BY DEF Says

\* The bodies of the answers.
LEMMA BodiesOfAnswers ==
    /\ {Junk, Binary} \cup Quotes \subseteq Bodies
    /\ \A result \in {"success", "error"} :
         \A message \in Txids \cup {"min relay fee not met", "refused"} :
            Submission(result, message) \in Bodies
    /\ [is_success |-> FALSE, message |-> "refused"] \in Bodies
    /\ [message |-> "no"] \in Bodies /\ [message |-> "Transaction not found"] \in Bodies
    /\ [ok |-> TRUE] \in Bodies /\ [ok |-> FALSE] \in Bodies
    /\ \A id \in Txids : /\ [txid |-> id, confirmed |-> FALSE] \in Bodies
                         /\ [txid |-> id, confirmed |-> TRUE] \in Bodies
    /\ \A id \in Txids, h \in Heights :
         [txid |-> id, confirmed |-> TRUE, height |-> h] \in Bodies
<1>1. {Junk, Binary} \cup Quotes \subseteq Bodies
  BY DEF Bodies
<1>2. ASSUME NEW result \in {"success", "error"},
             NEW message \in Txids \cup {"min relay fee not met", "refused"}
      PROVE  Submission(result, message) \in Bodies
  BY DEF Bodies, Submission
<1>3. [is_success |-> FALSE, message |-> "refused"] \in Bodies
  BY DEF Bodies
<1>4. [message |-> "no"] \in Bodies /\ [message |-> "Transaction not found"] \in Bodies
  BY DEF Bodies
<1>5. [ok |-> TRUE] \in Bodies /\ [ok |-> FALSE] \in Bodies
  BY DEF Bodies
<1>6. ASSUME NEW id \in Txids
      PROVE  /\ [txid |-> id, confirmed |-> FALSE] \in Bodies
             /\ [txid |-> id, confirmed |-> TRUE] \in Bodies
  BY DEF Bodies
<1>7. ASSUME NEW id \in Txids, NEW h \in Heights
      PROVE  [txid |-> id, confirmed |-> TRUE, height |-> h] \in Bodies
  BY DEF Bodies
<1>. QED
  BY <1>1, <1>2, <1>3, <1>4, <1>5, <1>6, <1>7

\* What a proxy may say is an answer.
LEMMA TroublesAreAnswers == Troubles \subseteq AnswerSet
<1>1. ASSUME NEW a \in [status : {200, 400, 502}, body : {Junk}, size : Sizes]
      PROVE  a \in AnswerSet
  <2>1. a.status \in {200, 400, 502} /\ a.body \in {Junk} /\ a.size \in Sizes
    OBVIOUS
  <2>2. a = [status |-> a.status, body |-> a.body, size |-> a.size]
    OBVIOUS
  <2>3. a.status \in {200, 302, 400, 404, 502}
    BY <2>1
  <2>4. a.body \in Bodies
    BY <2>1, TroubledBodies
  <2>5. a.size \in Sizes \cup {1}
    BY <2>1
  <2>. QED
    BY <2>2, <2>3, <2>4, <2>5 DEF AnswerSet
<1>2. ASSUME NEW a \in [status : {200}, body : {Binary}, size : {1}]
      PROVE  a \in AnswerSet
  <2>1. a.status \in {200} /\ a.body \in {Binary} /\ a.size \in {1}
    OBVIOUS
  <2>2. a = [status |-> a.status, body |-> a.body, size |-> a.size]
    OBVIOUS
  <2>3. a.status \in {200, 302, 400, 404, 502}
    BY <2>1
  <2>4. a.body \in Bodies
    BY <2>1, TroubledBodies
  <2>5. a.size \in Sizes \cup {1}
    BY <2>1
  <2>. QED
    BY <2>2, <2>3, <2>4, <2>5 DEF AnswerSet
<1>3. ASSUME NEW a \in [status : {302, 404}, body : {[message |-> "no"]}, size : {1}]
      PROVE  a \in AnswerSet
  <2>1. a.status \in {302, 404} /\ a.body \in {[message |-> "no"]} /\ a.size \in {1}
    OBVIOUS
  <2>2. a = [status |-> a.status, body |-> a.body, size |-> a.size]
    OBVIOUS
  <2>3. a.status \in {200, 302, 400, 404, 502}
    BY <2>1
  <2>4. a.body \in Bodies
    BY <2>1, TroubledBodies
  <2>5. a.size \in Sizes \cup {1}
    BY <2>1
  <2>. QED
    BY <2>2, <2>3, <2>4, <2>5 DEF AnswerSet
<1>. QED
  BY <1>1, <1>2, <1>3 DEF Troubles

\* So is whatever a peer says.
LEMMA PeerAnswers ==
    ASSUME CallInv, BackendInv, stage # "idle"
    PROVE  Peer => \E a \in AnswerSet : AnswersWith(a)
<1>. SUFFICES ASSUME Peer PROVE \E a \in AnswerSet : AnswersWith(a)
  OBVIOUS
<1>1. call.op \in {"submit", "status"} => call.tx \in Txs /\ TxidOf[call.tx] \in Txids
  BY SlipstreamAssumption DEF CallInv, Calls
<1>2. \A t \in Txs : TxidOf[t] \in Txids
  BY SlipstreamAssumption
<1>3. CASE call.op = "submit"
  <2>1. TakenAnswers(call.tx) \subseteq AnswerSet
    <3>1. Submission("success", TxidOf[call.tx]) \in Bodies
      BY <1>1, <1>3, BodiesOfAnswers
    <3>. QED
      BY <3>1, SaidIsAnswer, TroublesAreAnswers DEF TakenAnswers
  <2>2. RefusedAnswers \subseteq AnswerSet
    <3>. DEFINE low == Submission("error", "min relay fee not met")
                no == Submission("error", "refused")
                bad == [is_success |-> FALSE, message |-> "refused"]
    <3>1. low \in Bodies /\ no \in Bodies /\ bad \in Bodies
      <4>1. /\ "error" \in {"success", "error"}
            /\ "min relay fee not met" \in Txids \cup {"min relay fee not met", "refused"}
            /\ "refused" \in Txids \cup {"min relay fee not met", "refused"}
        OBVIOUS
      <4>. QED
        BY <4>1, BodiesOfAnswers, Zenon
    <3>. HIDE DEF low, no, bad
    <3>2. Says(400, low) \subseteq AnswerSet /\ Says(200, no) \subseteq AnswerSet
          /\ Says(400, bad) \subseteq AnswerSet
      BY <3>1, SaidIsAnswer, ZenonT(60)
    <3>3. {a \in Troubles : a.status # 200} \subseteq AnswerSet
      BY TroublesAreAnswers
    <3>. QED
      BY <3>2, <3>3, ZenonT(60) DEF RefusedAnswers, low, no, bad
  <2>3. UnseenAnswers(call.tx) \subseteq AnswerSet
    <3>1. ASSUME NEW u \in Txs
          PROVE  [status |-> 200, body |-> Submission("success", TxidOf[u]), size |-> 1]
                 \in AnswerSet
      <4>1. Submission("success", TxidOf[u]) \in Bodies
        BY <1>2, BodiesOfAnswers
      <4>. QED
        BY <4>1, SaidIsAnswer DEF Says
    <3>. QED
      BY <3>1, TroublesAreAnswers DEF UnseenAnswers
  <2>. QED
    BY <1>3, <2>1, <2>2, <2>3 DEF Peer, PeerTakes, PeerRefuses, PeerMisses
<1>4. CASE call.op = "status"
  <2>1. StatusAnswers(call.tx) \subseteq AnswerSet
    <3>1. CASE Seen(call.tx)[1] = "unknown"
      <4>1. Says(400, [message |-> "Transaction not found"]) \subseteq AnswerSet
        <5>1. [message |-> "Transaction not found"] \in Bodies
          BY BodiesOfAnswers
        <5>. QED
          BY <5>1, SaidIsAnswer
      <4>. QED
        BY <4>1, <3>1 DEF StatusAnswers
    <3>2. CASE Seen(call.tx)[1] = "pending"
      <4>1. [txid |-> TxidOf[call.tx], confirmed |-> FALSE] \in Bodies
        BY <1>1, <1>4, BodiesOfAnswers
      <4>2. Says(200, [txid |-> TxidOf[call.tx], confirmed |-> FALSE]) \subseteq AnswerSet
        BY <4>1, SaidIsAnswer
      <4>. QED
        BY <4>2, <3>2 DEF StatusAnswers
    <3>3. CASE Seen(call.tx)[1] = "confirmed"
      <4>1. mined[call.tx] \in Heights
        BY <3>3, <1>1, <1>4 DEF Seen, BackendInv
      <4>2. [txid |-> TxidOf[call.tx], confirmed |-> TRUE] \in Bodies
        BY <1>1, <1>4, BodiesOfAnswers
      <4>3. [txid |-> TxidOf[call.tx], confirmed |-> TRUE, height |-> mined[call.tx]] \in Bodies
        BY <4>1, <1>1, <1>4, BodiesOfAnswers
      <4>4. Says(200, [txid |-> TxidOf[call.tx], confirmed |-> TRUE]) \subseteq AnswerSet
        BY <4>2, SaidIsAnswer
      <4>5. Says(200, [txid |-> TxidOf[call.tx], confirmed |-> TRUE, height |-> mined[call.tx]])
            \subseteq AnswerSet
        BY <4>3, SaidIsAnswer
      <4>. QED
        BY <4>4, <4>5, <3>3 DEF StatusAnswers
    <3>. QED
      BY <3>1, <3>2, <3>3 DEF Seen
  <2>2. StrayAnswers(call.tx) \subseteq AnswerSet
    <3>1. ASSUME NEW u \in Txs
          PROVE  Says(200, [txid |-> TxidOf[u], confirmed |-> FALSE]) \subseteq AnswerSet
      <4>1. [txid |-> TxidOf[u], confirmed |-> FALSE] \in Bodies
        BY <1>2, BodiesOfAnswers
      <4>. QED
        BY <4>1, SaidIsAnswer
    <3>. QED
      BY <3>1 DEF StrayAnswers
  <2>. QED
    BY <1>4, <2>1, <2>2, TroublesAreAnswers DEF Peer, PeerLooksUp
<1>5. CASE call.op = "floor"
  <2>1. PICK quote \in Quotes : \E a \in Says(200, quote) \cup Troubles : AnswersWith(a)
    BY <1>5 DEF Peer, PeerQuotes
  <2>2. Says(200, quote) \subseteq AnswerSet
    <3>1. quote \in Bodies
      BY BodiesOfAnswers
    <3>. QED
      BY <3>1, SaidIsAnswer
  <2>. QED
    BY <2>1, <2>2, TroublesAreAnswers
<1>6. CASE call.op = "alert"
  <2>1. /\ Says(200, [ok |-> TRUE]) \subseteq AnswerSet
        /\ Says(200, [ok |-> FALSE]) \subseteq AnswerSet
        /\ Says(400, [ok |-> FALSE]) \subseteq AnswerSet
    <3>1. [ok |-> TRUE] \in Bodies /\ [ok |-> FALSE] \in Bodies
      BY BodiesOfAnswers
    <3>. QED
      BY <3>1, SaidIsAnswer
  <2>. QED
    BY <1>6, <2>1, TroublesAreAnswers DEF Peer, PeerAlerts
<1>7. CASE call.op = "other"
  BY <1>7, TroublesAreAnswers DEF Peer
<1>. QED
  BY <1>3, <1>4, <1>5, <1>6, <1>7 DEF CallInv, Calls

\* What happens to a request: the steps of the program, of its curl and of what answers.
TransportNext ==
    \/ \E r : Requested(r) /\ Execute(r)
    \/ \E e \in {"ConfigFormat", "ConfigPermissions"} : AlertUnconfigured(e)
    \/ WriteConfig \/ WriteFails \/ WriteEnds
    \/ ReadOutput \/ ReadTooMuch \/ ReadFails \/ ReadEnds \/ Wait \/ Done
    \/ ReadConfig \/ Send \/ Fails(0) \/ WriteOutput \/ Dies
    \/ \E a \in AnswerSet : AnswersWith(a)

\* The steps of the network are such steps, or leave the transport alone.
LEMMA TransportSteps ==
    ASSUME CallInv, BackendInv, StageInv, [NetworkNext]_networkVars
    PROVE  TransportNext \/ UNCHANGED transportVars
<1>1. CASE \E c \in Calls : Call(c)
  BY <1>1, RequestsArePermitted DEF Call, Requested, TransportNext
<1>2. CASE \E r \in Others : CallOther(r)
  BY <1>2 DEF CallOther, Requested, TransportNext
<1>3. CASE Working
  BY <1>3 DEF Working, Curl, SendRequest, Answer, Transporting, TransportNext
<1>4. CASE child = "sent" /\ Peer
  <2>1. stage # "idle"
    BY <1>4 DEF StageInv
  <2>. QED
    BY <2>1, <1>4, PeerAnswers DEF TransportNext
<1>5. CASE Slipstreaming
  BY <1>1, <1>2, <1>3, <1>4, <1>5 DEF Slipstreaming, Calling, TransportNext
<1>. QED
  BY <1>5 DEF NetworkNext, networkVars, slipstreamVars

-----------------------------------------------------------------------------
(* The transport *)

\* The stages of execute and of its process go together.
LEMMA StageStep ==
    ASSUME StageInv, BytesInv, TransportNext \/ UNCHANGED transportVars
    PROVE  StageInv'
<1>. USE DEF StageInv
<1>1. ASSUME NEW r, Execute(r) PROVE StageInv'
  BY <1>1 DEF Execute, NewChild, Returns, curlVars
<1>2. ASSUME NEW e, AlertUnconfigured(e) PROVE StageInv'
  BY <1>2 DEF AlertUnconfigured, curlVars
<1>3. CASE WriteConfig \/ WriteEnds
  BY <1>3 DEF WriteConfig, WriteEnds, IsAlive, curlVars
<1>4. CASE WriteFails \/ ReadTooMuch \/ ReadFails
  BY <1>4 DEF WriteFails, ReadTooMuch, ReadFails, KillAndReap, Reap, Returns
<1>5. CASE ReadOutput \/ ReadEnds
  BY <1>5 DEF ReadOutput, ReadEnds, curlVars
<1>6. CASE Wait
  BY <1>6 DEF Wait, Reap, Returns
<1>7. CASE Done
  BY <1>7 DEF Done, NewChild
<1>8. CASE ReadConfig \/ Send \/ Fails(0)
  BY <1>8 DEF ReadConfig, Send, Fails
<1>9. CASE WriteOutput
  BY <1>9 DEF WriteOutput
<1>10. CASE Dies
  BY <1>10 DEF Dies, IsAlive, Exit
<1>11. ASSUME NEW a \in AnswerSet, AnswersWith(a) PROVE StageInv'
  BY <1>11 DEF AnswersWith, Answered, Breaks
<1>12. CASE UNCHANGED transportVars
  BY <1>12 DEF transportVars, curlVars
<1>. QED
  BY <1>1, <1>2, <1>3, <1>4, <1>5, <1>6, <1>7, <1>8, <1>9, <1>10, <1>11, <1>12
     DEF TransportNext

\* Sizes of answers are numbers, and no answer is Nil.
LEMMA AnswersAreSized ==
    ASSUME NEW a \in AnswerSet
    PROVE  a # Nil /\ a.size \in Nat \ {0}
<1>1. a # Nil
  BY AnswerAssumption
<1>2. a.size \in Sizes \cup {1}
  BY DEF AnswerSet
<1>3. Sizes \cup {1} \subseteq Nat \ {0}
  BY AnswerAssumption
<1>. QED
  BY <1>1, <1>2, <1>3

\* No byte appears from nowhere, and none is lost on the way from a curl that ends well.
LEMMA BytesStep ==
    ASSUME StageInv, BytesInv, TransportNext \/ UNCHANGED transportVars
    PROVE  BytesInv'
<1>. USE SlipstreamAssumption DEF StageInv, BytesInv, Written, MaxOutput
<1>1. ASSUME NEW r, Execute(r) PROVE BytesInv'
  BY <1>1 DEF Execute, NewChild, Returns, curlVars
<1>2. ASSUME NEW e, AlertUnconfigured(e) PROVE BytesInv'
  BY <1>2 DEF AlertUnconfigured, curlVars
<1>3. CASE WriteConfig \/ WriteEnds
  BY <1>3 DEF WriteConfig, WriteEnds, IsAlive, curlVars
<1>4. CASE WriteFails \/ ReadTooMuch \/ ReadFails
  BY <1>4 DEF WriteFails, ReadTooMuch, ReadFails, KillAndReap, Reap, Returns
<1>5. CASE ReadOutput
  <2>1. left' = left /\ pipe' = pipe - 1 /\ got' = got + 1 /\ pipe > 0 /\ got < MaxBody + StatusLine
    BY <1>5 DEF ReadOutput
  <2>2. /\ pipe' \in Nat /\ got' \in 0 .. MaxBody + StatusLine
        /\ left' + pipe' + got' = left + pipe + got
    BY <2>1
  <2>3. stage # "idle" /\ child \notin {"config", "connect", "sent"}
    BY <1>5 DEF ReadOutput
  <2>4. UNCHANGED <<stage, child, code, answer, left>>
    BY <1>5 DEF ReadOutput
  <2>. QED
    BY <2>2, <2>3, <2>4
<1>13. CASE ReadEnds
  BY <1>13 DEF ReadEnds, curlVars
<1>6. CASE Wait
  BY <1>6 DEF Wait, Reap, Returns
<1>7. CASE Done
  BY <1>7 DEF Done, NewChild
<1>8. CASE ReadConfig \/ Send \/ Fails(0)
  BY <1>8 DEF ReadConfig, Send, Fails
<1>9. CASE WriteOutput
  BY <1>9, SMTT(30) DEF WriteOutput
<1>10. CASE Dies
  BY <1>10 DEF Dies, IsAlive, Exit
<1>11. ASSUME NEW a \in AnswerSet, AnswersWith(a) PROVE BytesInv'
  BY <1>11, AnswersAreSized DEF AnswersWith, Answered, Breaks
<1>12. CASE UNCHANGED transportVars
  BY <1>12 DEF transportVars, curlVars
<1>. QED
  BY <1>1, <1>2, <1>3, <1>4, <1>5, <1>6, <1>7, <1>8, <1>9, <1>10, <1>11, <1>12, <1>13
     DEF TransportNext

\* Errors and responses are told apart by ok, and errors by what they say.
LEMMA ErrorsDiffer ==
    /\ \A e : ~ Error(e).ok
    /\ \A status, body : Ok(status, body).ok /\ \A e : Ok(status, body) # Error(e)
    /\ \A e, f : Error(e) = Error(f) => e = f
<1>1. \A e : Error(e).ok = FALSE /\ Error(e).error = e
  BY DEF Error
<1>2. \A status, body : Ok(status, body).ok = TRUE
  BY DEF Ok
<1>. QED
  BY <1>1, <1>2

\* What is parsed of a curl that has ended well is the answer.
LEMMA ParsedIsExact ==
    ASSUME StageInv, BytesInv, Wait
    PROVE  /\ response'.ok => /\ code' = 0 /\ answer' # Nil /\ answer'.body # Binary
                            /\ <<response'.status, response'.body>> = <<answer'.status, answer'.body>>
                            /\ got' = answer'.size + StatusLine
                            /\ answer'.size <= MaxBody
           /\ response' # Error("ResponseTooLarge") /\ response' # Error("NotAllowed")
<1>1. response' = Parsed /\ UNCHANGED <<code, answer, got>> /\ stage = "wait" /\ child = "exited"
  BY DEF Wait, Returns, Reap
<1>2. CASE code # 0 \/ answer.body = Binary
  <2>1. response' = Error("Transport") \/ response' = Error("BadResponse")
    BY <1>1, <1>2 DEF Parsed
  <2>. QED
    BY <2>1, ErrorsDiffer
<1>3. CASE code = 0 /\ answer.body # Binary
  <2>1. response' = Ok(answer.status, answer.body)
    BY <1>1, <1>3 DEF Parsed
  <2>2. response'.status = answer.status /\ response'.body = answer.body
    BY <2>1 DEF Ok
  <2>3. answer # Nil /\ left = 0 /\ pipe = 0 /\ left + pipe + got = answer.size + StatusLine
    BY <1>1, <1>3 DEF StageInv, BytesInv, Written
  <2>4. got = answer.size + StatusLine /\ answer.size <= MaxBody
    BY <2>3, SlipstreamAssumption DEF BytesInv, MaxOutput
  <2>. QED
    BY <1>1, <1>3, <2>1, <2>2, <2>3, <2>4, ErrorsDiffer
<1>. QED
  BY <1>2, <1>3

\* Only an answer above the limit is more than is read.
LEMMA TooLargeIsTrue ==
    ASSUME StageInv, BytesInv, ReadTooMuch
    PROVE  answer # Nil /\ answer.size > MaxBody
<1>1. got = MaxBody + StatusLine /\ pipe > 0
  BY DEF ReadTooMuch, MaxOutput
<1>2. left + pipe + got > MaxBody + StatusLine
  BY <1>1, SlipstreamAssumption DEF BytesInv
<1>. QED
  BY <1>2, SlipstreamAssumption DEF BytesInv, Written

\* A response is the answer, whole, or an error that says what was wrong.
LEMMA ResponseStep ==
    ASSUME StageInv, BytesInv, ResponseInv, ResponseIsExact,
           TransportNext \/ UNCHANGED transportVars
    PROVE  ResponseInv' /\ ResponseIsExact'
<1>. DEFINE Good == ResponseInv' /\ ResponseIsExact'
<1>. USE DEF ResponseInv, ResponseIsExact
<1>1. ASSUME NEW r, Execute(r) PROVE Good
  <2>1. \/ stage' = "write"
        \/ \E e \in {"NotAllowed", "InvalidInput", "Spawn"} : response' = Error(e)
    BY <1>1 DEF Execute, Returns
  <2>. QED
    BY <2>1, ErrorsDiffer
<1>2. ASSUME NEW e \in {"ConfigFormat", "ConfigPermissions"}, AlertUnconfigured(e) PROVE Good
  <2>1. response' = Error(e)
    BY <1>2 DEF AlertUnconfigured
  <2>. QED
    BY <2>1, ErrorsDiffer
<1>3. CASE WriteFails \/ ReadFails
  <2>1. response' = Error("Transport")
    BY <1>3 DEF WriteFails, ReadFails, KillAndReap, Returns
  <2>. QED
    BY <2>1, ErrorsDiffer
<1>4. CASE ReadTooMuch
  <2>1. response' = Error("ResponseTooLarge") /\ UNCHANGED answer
    BY <1>4 DEF ReadTooMuch, KillAndReap, Returns, Reap
  <2>2. answer # Nil /\ answer.size > MaxBody
    BY <1>4, TooLargeIsTrue
  <2>. QED
    BY <2>1, <2>2, ErrorsDiffer
<1>5. CASE Wait
  BY <1>5, ParsedIsExact
<1>6. CASE WriteConfig \/ WriteEnds \/ ReadOutput \/ ReadEnds
  <2>1. stage' # "returned"
    BY <1>6 DEF WriteConfig, WriteEnds, ReadOutput, ReadEnds
  <2>. QED
    BY <2>1
<1>7. CASE Done
  BY <1>7 DEF Done
<1>8. CASE ReadConfig \/ Send \/ Fails(0) \/ WriteOutput \/ Dies
  <2>1. child # "none" /\ UNCHANGED stage
    BY <1>8 DEF ReadConfig, Send, Fails, WriteOutput, Dies, IsAlive
  <2>. QED
    BY <2>1 DEF StageInv
<1>9. ASSUME NEW a \in AnswerSet, AnswersWith(a) PROVE Good
  <2>1. child # "none" /\ UNCHANGED stage
    BY <1>9 DEF AnswersWith, Answered, Breaks
  <2>. QED
    BY <2>1 DEF StageInv
<1>10. CASE UNCHANGED transportVars
  BY <1>10 DEF transportVars, curlVars
<1>. QED
  BY <1>1, <1>2, <1>3, <1>4, <1>5, <1>6, <1>7, <1>8, <1>9, <1>10 DEF TransportNext

\* Only the requests of the claim get to a curl process, and from there to the network.
LEMMA RequestStep ==
    ASSUME StageInv, BytesInv, RequestInv, TransportNext \/ UNCHANGED transportVars
    PROVE  RequestInv'
<1>. USE DEF RequestInv
<1>1. ASSUME NEW r, Requested(r), Execute(r) PROVE RequestInv'
  <2>1. request' = r /\ UNCHANGED sent /\ child = "none"
    BY <1>1 DEF Execute, StageInv
  <2>2. Visible(request)' = Visible(r)
    BY <2>1 DEF Visible
  <2>3. IsAllowed(r.method, r.url) <=> Visible(r) \in Permitted
    BY <1>1, AllowedExactly
  <2>4. CASE ~IsAllowed(r.method, r.url)
    <3>1. UNCHANGED child
      BY <1>1, <2>4 DEF Execute, curlVars
    <3>. QED
      BY <2>1, <2>2, <2>3, <2>4, <3>1
  <2>5. CASE IsAllowed(r.method, r.url)
    <3>1. stage' = "write" \/ \E e \in {"InvalidInput", "Spawn"} : response' = Error(e)
      BY <1>1, <2>5 DEF Execute, Returns
    <3>2. ~ (stage' = "returned" /\ response' = Error("NotAllowed"))
      BY <3>1, ErrorsDiffer
    <3>. QED
      BY <2>1, <2>2, <2>3, <2>5, <3>2
  <2>. QED
    BY <2>4, <2>5
<1>2. ASSUME NEW e \in {"ConfigFormat", "ConfigPermissions"}, AlertUnconfigured(e)
      PROVE  RequestInv'
  <2>1. response' = Error(e) /\ UNCHANGED <<request, child, sent>>
    BY <1>2 DEF AlertUnconfigured, curlVars
  <2>. QED
    BY <2>1, ErrorsDiffer DEF Visible
<1>3. CASE WriteFails \/ ReadFails \/ ReadTooMuch
  <2>1. /\ response' = Error("Transport") \/ response' = Error("ResponseTooLarge")
        /\ child' = "none" /\ UNCHANGED <<request, sent>>
    BY <1>3 DEF WriteFails, ReadFails, ReadTooMuch, KillAndReap, Returns, Reap
  <2>. QED
    BY <2>1, ErrorsDiffer
<1>4. CASE Wait
  <2>1. child' = "none" /\ UNCHANGED <<request, sent>> /\ response' # Error("NotAllowed")
    BY <1>4, ParsedIsExact DEF Wait, Reap
  <2>. QED
    BY <2>1
<1>5. CASE WriteConfig \/ WriteEnds \/ ReadOutput \/ ReadEnds
  <2>1. stage' # "returned" /\ UNCHANGED <<request, child, sent>>
    BY <1>5 DEF WriteConfig, WriteEnds, ReadOutput, ReadEnds, curlVars
  <2>. QED
    BY <2>1 DEF Visible
<1>6. CASE Done
  <2>1. stage' = "idle" /\ child' = child /\ sent' = Nil /\ child = "none"
    BY <1>6 DEF Done, NewChild, StageInv
  <2>. QED
    BY <2>1
<1>7. CASE Send
  <2>1. sent' = Visible(request) /\ UNCHANGED <<stage, request>> /\ child # "none"
    BY <1>7 DEF Send
  <2>. QED
    BY <2>1 DEF StageInv, Visible
<1>8. CASE ReadConfig \/ Fails(0) \/ WriteOutput \/ Dies
  <2>1. UNCHANGED <<stage, request, sent>> /\ child # "none"
    BY <1>8 DEF ReadConfig, Fails, WriteOutput, Dies, IsAlive
  <2>. QED
    BY <2>1 DEF StageInv, Visible
<1>9. ASSUME NEW a \in AnswerSet, AnswersWith(a) PROVE RequestInv'
  <2>1. UNCHANGED <<stage, request, sent>> /\ child # "none"
    BY <1>9 DEF AnswersWith, Answered, Breaks
  <2>. QED
    BY <2>1 DEF StageInv, Visible
<1>10. CASE UNCHANGED transportVars
  BY <1>10 DEF transportVars, curlVars, Visible
<1>. QED
  BY <1>1, <1>2, <1>3, <1>4, <1>5, <1>6, <1>7, <1>8, <1>9, <1>10 DEF TransportNext

-----------------------------------------------------------------------------
(* The answer and the decision *)

\* A running call is one of the service's, or another caller's.
LEMMA CallStep ==
    ASSUME StageInv, BackendInv, CallInv, [NetworkNext]_networkVars
    PROVE  CallInv'
<1>. USE DEF CallInv
<1>1. ASSUME NEW c \in Calls, Call(c) PROVE CallInv'
  BY <1>1 DEF Call, Begin
<1>2. ASSUME NEW r, CallOther(r) PROVE CallInv'
  BY <1>2 DEF CallOther, Begin
<1>3. ASSUME NEW e, AlertUnconfigured(e) PROVE CallInv'
  BY <1>3 DEF AlertUnconfigured, Begin, Calls
<1>4. ASSUME UNCHANGED <<call, outcome>>, stage # "idle" \/ UNCHANGED stage PROVE CallInv'
  BY <1>4
<1>5. CASE Working
  <2>1. CASE Answer
    BY <2>1 DEF Answer, Done
  <2>2. CASE ~Answer
    <3>1. UNCHANGED <<call, outcome>>
      BY <1>5, <2>2 DEF Working, Untouched, submitterVars, Curl, SendRequest
    <3>2. stage # "idle" \/ UNCHANGED stage
      BY <1>5, <2>2 DEF Working, Transporting, Curl, SendRequest, WriteConfig, WriteFails,
           WriteEnds, ReadOutput, ReadTooMuch, ReadEnds, Wait, ReadConfig, Fails, WriteOutput, Send
    <3>. QED
      BY <3>1, <3>2, <1>4
  <2>. QED
    BY <2>1, <2>2
<1>6. CASE (ReadFails \/ Dies) /\ Untouched
  BY <1>6, <1>4 DEF ReadFails, Dies, Untouched, submitterVars
<1>7. CASE child = "sent" /\ Peer
  BY <1>7, <1>4 DEF Peer, StageInv
<1>8. CASE Slipstreaming
  BY <1>1, <1>2, <1>3, <1>5, <1>6, <1>7, <1>8 DEF Slipstreaming, Calling
<1>9. CASE backend = "regtest" /\ UNCHANGED transportVars
  BY <1>9 DEF BackendInv, transportVars
<1>10. CASE World /\ UNCHANGED transportVars
  BY <1>10, <1>4 DEF World, ArrivesLate, Forgets, IsMined, transportVars
<1>11. CASE UNCHANGED networkVars
  BY <1>11, <1>4 DEF networkVars, slipstreamVars, transportVars, submitterVars
<1>. QED
  BY <1>8, <1>9, <1>10, <1>11 DEF NetworkNext

\* What is no JSON has no members.
LEMMA JunkIsEmpty == \A k : Member(Junk, k) = None
BY DEF Member

\* The members of a record, unless it stands for no JSON; and None where it has none.
LEMMA MembersOfSubmission ==
    ASSUME NEW result, NEW message
    PROVE  /\ Member(Submission(result, message), "status") \in {result, None}
           /\ Member(Submission(result, message), "message") \in {message, None}
           /\ Member(Submission(result, message), "is_success") = None
BY DEF Member, Submission

\* What is no text of JSON with a definite status is Junk.
LEMMA TroublesSayNothing ==
    ASSUME NEW a \in Troubles, a.status \in {200, 400}, a.body # Binary
    PROVE  a.body = Junk
BY DEF Troubles

\* None is no member the client looks for.
LEMMA AbsentIsNothing ==
    /\ None # "success" /\ None # "error" /\ None # "Transaction not found"
    /\ \A t \in Txs : None # TxidOf[t]
BY AbsentAssumption, SlipstreamAssumption

\* Nor is it a truth value.
LEMMA AbsentIsNoTruth == None # TRUE /\ None # FALSE
BY AbsentAssumption

\* Whoever answers a submission for the peer, it does not decide.
LEMMA TroubledSubmission ==
    ASSUME NEW a \in Troubles, a.body # Binary, call.tx \in Txs, NEW d
    PROVE  SubmitFits(a, d)
<1>1. CASE a.status \in {200, 400}
  <2>1. a.body = Junk
    BY <1>1, TroublesSayNothing
  <2>2. \A k : Member(a.body, k) = None
    BY <2>1, JunkIsEmpty
  <2>3. Member(a.body, "status") # "success" /\ Member(a.body, "status") # "error"
    BY <2>2, AbsentIsNothing, Zenon
  <2>4. ~ (Member(a.body, "is_success") = FALSE)
    BY <2>2, AbsentIsNoTruth, Zenon
  <2>. QED
    BY <2>3, <2>4, Zenon DEF SubmitFits
<1>2. CASE a.status \notin {200, 400}
  BY <1>2 DEF SubmitFits
<1>. QED
  BY <1>1, <1>2

\* The peer has taken the transaction and says so, or something else is heard.
LEMMA TakenFits ==
    ASSUME NEW a \in TakenAnswers(call.tx), a.body # Binary, call.tx \in Txs,
           NEW d, d = <<"taken">>
    PROVE  SubmitFits(a, d)
<1>1. CASE a \in Troubles
  BY <1>1, TroubledSubmission
<1>2. CASE a \in Says(200, Submission("success", TxidOf[call.tx]))
  BY <1>2 DEF Says, SubmitFits
<1>. QED
  BY <1>1, <1>2 DEF TakenAnswers

\* It has refused it.
LEMMA RefusedFits ==
    ASSUME NEW a \in RefusedAnswers, a.body # Binary, call.tx \in Txs,
           NEW d, d = <<"refused">>
    PROVE  SubmitFits(a, d)
<1>1. CASE a \in Troubles
  BY <1>1, TroubledSubmission
<1>2. CASE a \in Says(200, Submission("error", "refused"))
  <2>1. a.status = 200 /\ a.body = Submission("error", "refused")
    BY <1>2 DEF Says
  <2>2. Member(a.body, "status") # "success"
    <3>1. Member(a.body, "status") \in {"error", None}
      BY <2>1, MembersOfSubmission
    <3>. QED
      BY <3>1, AbsentIsNothing
  <2>. QED
    BY <2>1, <2>2 DEF SubmitFits
<1>3. CASE a.status = 400
  BY <1>3 DEF SubmitFits
<1>4. \/ a \in Troubles \/ a \in Says(200, Submission("error", "refused"))
      \/ a \in Says(400, Submission("error", "min relay fee not met"))
      \/ a \in Says(400, [is_success |-> FALSE, message |-> "refused"])
  BY Zenon DEF RefusedAnswers
<1>5. \A body : a \in Says(400, body) => a.status = 400
  BY DEF Says
<1>. QED
  BY <1>1, <1>2, <1>3, <1>4, <1>5

\* It has not seen it, and what is heard is about another.
LEMMA UnseenFits ==
    ASSUME NEW a \in UnseenAnswers(call.tx), a.body # Binary, call.tx \in Txs, NEW d
    PROVE  SubmitFits(a, d)
<1>1. CASE a \in Troubles
  BY <1>1, TroubledSubmission
<1>2. ASSUME NEW u \in Txs \ {call.tx},
             a = [status |-> 200, body |-> Submission("success", TxidOf[u]), size |-> 1]
      PROVE  SubmitFits(a, d)
  <2>1. a.status = 200 /\ a.body = Submission("success", TxidOf[u])
    BY <1>2
  <2>2. TxidOf[u] # TxidOf[call.tx]
    BY <1>2, SlipstreamAssumption
  <2>3. Member(a.body, "message") # TxidOf[call.tx]
    <3>1. Member(a.body, "message") \in {TxidOf[u], None}
      BY <2>1, MembersOfSubmission
    <3>. QED
      BY <3>1, <2>2, AbsentIsNothing
  <2>. QED
    BY <2>1, <2>3 DEF SubmitFits
<1>. QED
  BY <1>1, <1>2 DEF UnseenAnswers

\* The members of a status, unless it stands for no JSON.
LEMMA MembersOfStatus ==
    ASSUME NEW id
    PROVE  /\ Member([txid |-> id, confirmed |-> FALSE], "txid") \in {id, None}
           /\ ~ (Member([txid |-> id, confirmed |-> FALSE], "confirmed") = TRUE)
           /\ Member([txid |-> id, confirmed |-> TRUE], "height") = None
           /\ ~ (Member([txid |-> id, confirmed |-> TRUE], "confirmed") = FALSE)
           /\ \A h : ~ (Member([txid |-> id, confirmed |-> TRUE, height |-> h], "confirmed") = FALSE)
<1>1. Member([txid |-> id, confirmed |-> FALSE], "txid") \in {id, None}
  BY DEF Member
<1>2. ~ (Member([txid |-> id, confirmed |-> FALSE], "confirmed") = TRUE)
  BY AbsentIsNoTruth DEF Member
<1>3. Member([txid |-> id, confirmed |-> TRUE], "height") = None
  BY DEF Member
<1>4. ~ (Member([txid |-> id, confirmed |-> TRUE], "confirmed") = FALSE)
  BY AbsentIsNoTruth DEF Member
<1>5. ASSUME NEW h
      PROVE  ~ (Member([txid |-> id, confirmed |-> TRUE, height |-> h], "confirmed") = FALSE)
  BY AbsentIsNoTruth DEF Member
<1>. QED
  BY <1>1, <1>2, <1>3, <1>4, <1>5

\* Whoever answers a question for the peer, it does not know.
LEMMA TroubledStatus ==
    ASSUME NEW a \in Troubles, a.body # Binary, call.tx \in Txs, NEW d
    PROVE  StatusFits(a, d)
<1>1. CASE a.status \in {200, 400}
  <2>1. a.body = Junk
    BY <1>1, TroublesSayNothing
  <2>2. \A k : Member(a.body, k) = None
    BY <2>1, JunkIsEmpty
  <2>3. Member(a.body, "txid") # TxidOf[call.tx]
    BY <2>2, AbsentIsNothing
  <2>4. Member(a.body, "message") # "Transaction not found"
    BY <2>2, AbsentIsNothing
  <2>. QED
    BY <2>3, <2>4, Zenon DEF StatusFits
<1>2. CASE a.status \notin {200, 400}
  BY <1>2 DEF StatusFits
<1>. QED
  BY <1>1, <1>2

\* A status is that of the transaction that was asked for, when it was asked for.
LEMMA LookedUpFits ==
    ASSUME NEW a \in StatusAnswers(call.tx) \cup Troubles \cup StrayAnswers(call.tx),
           a.body # Binary, call.tx \in Txs, NEW d, d = Seen(call.tx)
    PROVE  StatusFits(a, d)
<1>. DEFINE txid == TxidOf[call.tx]
<1>1. CASE a \in Troubles
  BY <1>1, TroubledStatus
<1>2. CASE a \in StrayAnswers(call.tx)
  <2>1. PICK u \in Txs \ {call.tx} : a \in Says(200, [txid |-> TxidOf[u], confirmed |-> FALSE])
    BY <1>2 DEF StrayAnswers
  <2>2. a.status = 200 /\ a.body = [txid |-> TxidOf[u], confirmed |-> FALSE]
    BY <2>1 DEF Says
  <2>3. Member(a.body, "txid") # TxidOf[call.tx]
    <3>1. Member(a.body, "txid") \in {TxidOf[u], None}
      BY <2>2, MembersOfStatus
    <3>2. TxidOf[u] # TxidOf[call.tx]
      BY SlipstreamAssumption
    <3>. QED
      BY <3>1, <3>2, AbsentIsNothing
  <2>4. a.status # 400
    BY <2>2
  <2>. QED
    BY <2>3, <2>4, Zenon DEF StatusFits
<1>3. CASE a \in StatusAnswers(call.tx)
  <2>1. CASE Seen(call.tx)[1] = "unknown"
    <3>1. a.status = 400
      <4>1. a \in Says(400, [message |-> "Transaction not found"])
        BY <1>3, <2>1 DEF StatusAnswers
      <4>2. \A body : a \in Says(400, body) => a.status = 400
        BY SaidIsSaid
      <4>. QED
        BY <4>1, <4>2, Zenon
    <3>2. d = <<"unknown">>
      BY <2>1 DEF Seen
    <3>3. a.status # 200
      BY <3>1
    <3>. QED
      BY <3>2, <3>3, Zenon DEF StatusFits
  <2>2. CASE Seen(call.tx)[1] = "pending"
    <3>1. a \in Says(200, [txid |-> txid, confirmed |-> FALSE])
      BY <1>3, <2>2 DEF StatusAnswers
    <3>2. a.status = 200 /\ a.status # 400 /\ a.body = [txid |-> txid, confirmed |-> FALSE]
      BY <3>1 DEF Says
    <3>3. d = <<"pending">>
      BY <2>2 DEF Seen
    <3>4. ~ (Member(a.body, "confirmed") = TRUE)
      <4>1. a.body = [txid |-> txid, confirmed |-> FALSE]
        BY <3>2
      <4>2. ~ (Member([txid |-> txid, confirmed |-> FALSE], "confirmed") = TRUE)
        BY MembersOfStatus
      <4>. QED
        BY <4>1, <4>2, Zenon
    <3>. QED
      BY <3>2, <3>3, <3>4, Zenon DEF StatusFits
  <2>3. CASE Seen(call.tx)[1] = "confirmed"
    <3>1. \/ a \in Says(200, [txid |-> txid, confirmed |-> TRUE, height |-> mined[call.tx]])
          \/ a \in Says(200, [txid |-> txid, confirmed |-> TRUE])
      BY <1>3, <2>3 DEF StatusAnswers
    <3>2. d = <<"confirmed", mined[call.tx]>>
      BY <2>3 DEF Seen
    <3>3. CASE a \in Says(200, [txid |-> txid, confirmed |-> TRUE, height |-> mined[call.tx]])
      <4>1. /\ a.status = 200 /\ a.status # 400
            /\ a.body = [txid |-> txid, confirmed |-> TRUE, height |-> mined[call.tx]]
        BY <3>3 DEF Says
      <4>2. a.body.height = mined[call.tx]
        BY <4>1
      <4>3. ~ (Member(a.body, "confirmed") = FALSE)
        <5>1. a.body = [txid |-> txid, confirmed |-> TRUE, height |-> mined[call.tx]]
          BY <4>1
        <5>2. ~ (Member([txid |-> txid, confirmed |-> TRUE, height |-> mined[call.tx]],
                        "confirmed") = FALSE)
          BY MembersOfStatus
        <5>. QED
          BY <5>1, <5>2, Zenon
      <4>4. d = <<"confirmed", a.body.height>>
        BY <3>2, <4>2
      <4>5. a.status # 400
        BY <4>1
      <4>. QED
        BY <4>3, <4>4, <4>5, Zenon DEF StatusFits
    <3>4. CASE a \in Says(200, [txid |-> txid, confirmed |-> TRUE])
      <4>1. a.status = 200 /\ a.status # 400 /\ a.body = [txid |-> txid, confirmed |-> TRUE]
        BY <3>4 DEF Says
      <4>2. Member(a.body, "height") = None
        <5>1. Member([txid |-> txid, confirmed |-> TRUE], "height") = None
          BY MembersOfStatus
        <5>. QED
          BY <4>1, <5>1
      <4>3. ~ (Member(a.body, "confirmed") = FALSE)
        <5>1. a.body = [txid |-> txid, confirmed |-> TRUE]
          BY <4>1
        <5>2. ~ (Member([txid |-> txid, confirmed |-> TRUE], "confirmed") = FALSE)
          BY MembersOfStatus
        <5>. QED
          BY <5>1, <5>2, Zenon
      <4>4. a.status # 400
        BY <4>1
      <4>. QED
        BY <4>2, <4>3, <4>4, Zenon DEF StatusFits
    <3>. QED
      BY <3>1, <3>3, <3>4
  <2>. QED
    BY <2>1, <2>2, <2>3 DEF Seen
<1>. QED
  BY <1>1, <1>2, <1>3

\* The owner is told of an alert that Telegram has taken.
LEMMA AlertedFits ==
    ASSUME NEW a, NEW d, a.body # Binary,
           \/ d = <<"taken">>
           \/ a \in Says(200, [ok |-> FALSE]) \cup Says(400, [ok |-> FALSE]) \cup Troubles
    PROVE  AlertFits(a, d)
<1>1. CASE a \in Troubles
  <2>1. CASE a.status \in {200, 400}
    <3>1. Member(a.body, "ok") = None
      BY <1>1, <2>1, TroublesSayNothing, JunkIsEmpty
    <3>. QED
      BY <3>1, AbsentIsNoTruth, Zenon DEF AlertFits
  <2>2. CASE a.status # 200
    BY <2>2 DEF AlertFits
  <2>. QED
    BY <2>1, <2>2
<1>2. CASE a \in Says(200, [ok |-> FALSE]) \cup Says(400, [ok |-> FALSE])
  <2>1. a.body = [ok |-> FALSE]
    <3>1. \A status : a \in Says(status, [ok |-> FALSE]) => a.body = [ok |-> FALSE]
      BY DEF Says
    <3>. QED
      BY <1>2, <3>1
  <2>2. ~ (Member([ok |-> FALSE], "ok") = TRUE)
    BY AbsentIsNoTruth DEF Member
  <2>. QED
    BY <2>1, <2>2, Zenon DEF AlertFits
<1>3. CASE d = <<"taken">>
  BY <1>3 DEF AlertFits
<1>. QED
  BY <1>1, <1>2, <1>3

\* Half a unit or less is what rounding up adds.
LEMMA CeilIsClose ==
    ASSUME NEW raw \in Nat
    PROVE  Ceil(raw) \in Nat /\ raw <= 2 * Ceil(raw) /\ 2 * Ceil(raw) <= raw + 1
BY DEF Ceil

\* The rates a floor is made of are those that were quoted, and the largest of them counts.
LEMMA FloorOfQuote ==
    ASSUME NEW quote \in Quotes, FloorOf(quote).kind = "floor"
    PROVE  LET least == FloorOf(quote).rate
           IN  /\ \A q \in Quoted(quote) : q \in Nat /\ RateOf(q) <= least
               /\ \E q \in Quoted(quote) : RateOf(q) = least
<1>. DEFINE quoted == {k \in RateKeys : Member(quote, k) # None}
            rates == {RateOf(quote[k]) : k \in quoted}
            IsLargest(r) == \A k \in quoted : RateOf(quote[k]) <= r
            floor == CHOOSE r \in rates : IsLargest(r)
<1>1. quoted # {} /\ (\A k \in quoted : IsRate(quote[k])) /\ FloorOf(quote).rate = floor
  <2>1. FloorOf(quote) = IF quoted = {} \/ \E k \in quoted : ~IsRate(quote[k])
                         THEN Failed("BadResponse") ELSE [kind |-> "floor", rate |-> floor]
    BY DEF FloorOf
  <2>2. Failed("BadResponse").kind # "floor"
    BY DEF Failed
  <2>3. [kind |-> "floor", rate |-> floor].rate = floor
    OBVIOUS
  <2>. HIDE DEF quoted, floor
  <2>. QED
    BY <2>1, <2>2, <2>3
<1>2. ASSUME NEW k \in quoted
      PROVE  k \in DOMAIN quote /\ quote[k] \in Nat /\ RateOf(quote[k]) \in Nat
  <2>1. k \in DOMAIN quote /\ k \in RateKeys
    BY <1>2 DEF Member
  <2>2. quote[k] \in Int \cup {Bad}
    BY <2>1, RatesAssumption
  <2>3. quote[k] \in Nat
    BY <1>1, <2>2 DEF IsRate
  <2>. QED
    BY <2>1, <2>3, CeilIsClose, SlipstreamAssumption DEF RateOf, Least
<1>3. Quoted(quote) = {quote[k] : k \in quoted}
  <2>1. ASSUME NEW l \in DOMAIN quote \cap RateKeys, quote[l] # Bad PROVE l \in quoted
    <3>1. quote[l] \in Int
      BY <2>1, RatesAssumption
    <3>2. quote[l] # None
      BY <3>1, AbsentAssumption
    <3>3. PICK k \in quoted : TRUE
      BY <1>1
    <3>4. quote # Junk
      BY <3>3 DEF Member
    <3>. QED
      BY <3>2, <3>4 DEF Member
  <2>2. ASSUME NEW k \in quoted PROVE k \in DOMAIN quote \cap RateKeys /\ quote[k] # Bad
    BY <1>1, <1>2 DEF IsRate
  <2>3. quoted = {l \in DOMAIN quote \cap RateKeys : quote[l] # Bad}
    BY <2>1, <2>2
  <2>. QED
    BY <2>3 DEF Quoted
<1>4. \E r \in rates : IsLargest(r)
  <2>. DEFINE asked(k) == RateOf(quote[k])
  <2>1. \A k \in quoted : asked(k) \in Nat
    BY <1>2
  <2>2. \A k \in quoted : k = "effective_rate" \/ k = "slipstream_rate" \/ k = "submit_fee_rate"
    BY DEF RateKeys
  <2>3. \E k \in quoted : \A l \in quoted : asked(l) <= asked(k)
    <3>. HIDE DEF quoted, asked
    <3>. QED
      BY <1>1, <2>1, <2>2
  <2>. QED
    BY <2>3
<1>5. floor \in rates /\ IsLargest(floor)
  BY <1>4
<1>. HIDE DEF floor, quoted
<1>. QED
  BY <1>1, <1>2, <1>3, <1>5

\* The floor is the least whole rate that no quoted rate exceeds, or the largest there is.
LEMMA QuotedFits ==
    ASSUME NEW quote \in Quotes, NEW a \in Says(200, quote) \cup Troubles, a.body # Binary,
           NEW d, d = <<"quoted", Quoted(quote)>>
    PROVE  FloorFits(a, d)
<1>1. CASE a \in Troubles
  <2>1. CASE a.status = 200
    <3>1. \A k : Member(a.body, k) = None
      BY <1>1, <2>1, TroublesSayNothing, JunkIsEmpty
    <3>2. FloorOf(a.body) = Failed("BadResponse")
      BY <3>1 DEF FloorOf
    <3>3. FloorOf(a.body).kind # "floor"
      BY <3>2 DEF Failed
    <3>. QED
      BY <3>3 DEF FloorFits
  <2>2. CASE a.status # 200
    BY <2>2 DEF FloorFits
  <2>. QED
    BY <2>1, <2>2
<1>2. CASE a \in Says(200, quote)
  <2>. DEFINE least == FloorOf(quote).rate
  <2>. SUFFICES ASSUME FloorOf(quote).kind = "floor" PROVE RateFits(least, d)
    BY <1>2, SaidIsSaid DEF FloorFits
  <2>1. /\ \A q \in Quoted(quote) : q \in Nat /\ RateOf(q) <= least
        /\ \E q \in Quoted(quote) : RateOf(q) = least
    BY FloorOfQuote
  <2>2. ASSUME NEW q \in Nat
        PROVE  /\ Ceil(q) \in Nat /\ q <= 2 * Ceil(q) /\ 2 * Ceil(q) <= q + 1
               /\ RateOf(q) \in Nat /\ RateOf(q) <= MaxRate /\ RateOf(q) <= Ceil(q)
               /\ RateOf(q) = MaxRate \/ RateOf(q) = Ceil(q)
    <3>1. Ceil(q) \in Nat /\ q <= 2 * Ceil(q) /\ 2 * Ceil(q) <= q + 1
      BY CeilIsClose
    <3>2. RateOf(q) = IF Ceil(q) <= MaxRate THEN Ceil(q) ELSE MaxRate
      BY DEF RateOf, Least
    <3>. QED
      BY <3>1, <3>2, SlipstreamAssumption
  <2>3. d[1] = "quoted" /\ d[2] = Quoted(quote)
    OBVIOUS
  <2>4. PICK q \in Quoted(quote) : RateOf(q) = least
    BY <2>1
  <2>5. q \in Nat /\ least \in Nat /\ least <= MaxRate /\ q > 2 * (least - 1)
    <3>1. q \in Nat
      BY <2>1, <2>4
    <3>2. /\ Ceil(q) \in Nat /\ 2 * Ceil(q) <= q + 1
          /\ least \in Nat /\ least <= MaxRate /\ least <= Ceil(q)
      BY <3>1, <2>2, <2>4
    <3>. HIDE DEF least
    <3>. QED
      BY <3>1, <3>2, SlipstreamAssumption
  <2>6. ASSUME least # MaxRate, NEW r \in Quoted(quote) PROVE r <= 2 * least
    <3>1. r \in Nat /\ RateOf(r) <= least
      BY <2>1
    <3>2. RateOf(r) = Ceil(r)
      <4>1. RateOf(r) \in Nat /\ (RateOf(r) = MaxRate \/ RateOf(r) = Ceil(r))
        BY <3>1, <2>2
      <4>. HIDE DEF least
      <4>. QED
        BY <4>1, <3>1, <2>5, <2>6, SlipstreamAssumption
    <3>. HIDE DEF least
    <3>. QED
      BY <3>1, <3>2, <2>2, <2>5
  <2>. HIDE DEF least
  <2>. QED
    BY <2>3, <2>5, <2>6 DEF RateFits
<1>. QED
  BY <1>1, <1>2

\* The answer to a call agrees with the decision of its peer.
LEMMA PeerFits ==
    ASSUME CallInv, BackendInv, StageInv, BytesInv, child = "sent", Peer
    PROVE  AnswerInv'
<1>1. UNCHANGED call /\ stage # "idle" /\ (call \in Calls \/ call.op = "other")
  BY DEF Peer, StageInv, CallInv
<1>2. \A a : AnswersWith(a) => answer' = a
  BY DEF AnswersWith, Answered, Breaks
<1>3. CASE call.op = "submit"
  <2>1. call.tx \in Txs
    BY <1>1, <1>3 DEF Calls
  <2>2. ASSUME answer'.body # Binary PROVE SubmitFits(answer', decision')
    <3>1. CASE PeerTakes(call.tx)
      BY <3>1, <1>2, <2>1, <2>2, TakenFits DEF PeerTakes
    <3>2. CASE PeerRefuses(call.tx)
      BY <3>2, <1>2, <2>1, <2>2, RefusedFits DEF PeerRefuses
    <3>3. CASE PeerMisses(call.tx)
      BY <3>3, <1>2, <2>1, <2>2, UnseenFits DEF PeerMisses
    <3>. QED
      BY <1>3, <3>1, <3>2, <3>3 DEF Peer
  <2>3. SubmitFits(answer', decision') => SubmitFits(answer, decision)'
    BY <1>1 DEF SubmitFits
  <2>. QED
    BY <1>1, <1>3, <2>2, <2>3 DEF AnswerInv
<1>4. CASE call.op = "status"
  <2>1. call.tx \in Txs
    BY <1>1, <1>4 DEF Calls
  <2>2. decision' = Seen(call.tx)
        /\ answer' \in StatusAnswers(call.tx) \cup Troubles \cup StrayAnswers(call.tx)
    BY <1>2, <1>4 DEF Peer, PeerLooksUp
  <2>3. answer'.body # Binary => StatusFits(answer', decision')
    BY <2>1, <2>2, LookedUpFits
  <2>4. StatusFits(answer', decision') => StatusFits(answer, decision)'
    BY <1>1 DEF StatusFits
  <2>. QED
    BY <1>1, <1>4, <2>3, <2>4 DEF AnswerInv
<1>5. CASE call.op = "floor"
  <2>1. PICK quote \in Quotes : /\ decision' = <<"quoted", Quoted(quote)>>
                                /\ answer' \in Says(200, quote) \cup Troubles
    BY <1>2, <1>5 DEF Peer, PeerQuotes
  <2>2. answer'.body # Binary => FloorFits(answer', decision')
    BY <2>1, QuotedFits
  <2>3. FloorFits(answer', decision') => FloorFits(answer, decision)'
    BY DEF FloorFits, RateFits
  <2>. QED
    BY <1>1, <1>5, <2>2, <2>3 DEF AnswerInv
<1>6. CASE call.op = "alert"
  <2>1. \/ decision' = <<"taken">>
        \/ answer' \in Says(200, [ok |-> FALSE]) \cup Says(400, [ok |-> FALSE]) \cup Troubles
    BY <1>2, <1>6 DEF Peer, PeerAlerts
  <2>2. answer'.body # Binary => AlertFits(answer', decision')
    BY <2>1, AlertedFits
  <2>3. AlertFits(answer', decision') => AlertFits(answer, decision)'
    BY DEF AlertFits
  <2>. QED
    BY <1>1, <1>6, <2>2, <2>3 DEF AnswerInv
<1>7. CASE call.op = "other"
  BY <1>1, <1>7 DEF AnswerInv
<1>. QED
  BY <1>1, <1>3, <1>4, <1>5, <1>6, <1>7 DEF Calls

\* A definite answer agrees with the decision as long as its call runs.
LEMMA AnswerStep ==
    ASSUME StageInv, BytesInv, BackendInv, CallInv, AnswerInv, [NetworkNext]_networkVars
    PROVE  AnswerInv'
<1>1. ASSUME answer' = Nil PROVE AnswerInv'
  BY <1>1 DEF AnswerInv
<1>2. ASSUME UNCHANGED <<answer, call, decision>> PROVE AnswerInv'
  BY <1>2, ZenonT(60) DEF AnswerInv, SubmitFits, StatusFits, FloorFits, AlertFits, RateFits
<1>3. ASSUME NEW r, Execute(r) PROVE AnswerInv'
  <2>1. answer' = Nil
    BY <1>3 DEF Execute, NewChild, curlVars, BytesInv
  <2>. QED
    BY <2>1, <1>1
<1>4. ASSUME NEW e, AlertUnconfigured(e) PROVE AnswerInv'
  <2>1. answer' = Nil
    BY <1>4 DEF AlertUnconfigured, curlVars, BytesInv
  <2>. QED
    BY <2>1, <1>1
<1>5. CASE Calling
  BY <1>3, <1>4, <1>5 DEF Calling, Call, CallOther
<1>6. CASE Working
  <2>1. CASE Answer
    BY <2>1, <1>1 DEF Answer, Done, NewChild
  <2>2. CASE Transporting /\ Untouched
    BY <2>2, <1>2 DEF Transporting, Untouched, submitterVars, WriteConfig, WriteFails, WriteEnds,
         ReadOutput, ReadTooMuch, ReadEnds, Wait, KillAndReap, Reap, curlVars
  <2>3. CASE (ReadConfig \/ Fails(0) \/ WriteOutput) /\ Untouched
    BY <2>3, <1>2 DEF Untouched, submitterVars, ReadConfig, Fails, WriteOutput
  <2>4. CASE SendRequest
    BY <2>4, <1>2 DEF SendRequest, Send
  <2>. QED
    BY <1>6, <2>1, <2>2, <2>3, <2>4 DEF Working, Curl
<1>7. CASE (ReadFails \/ Dies) /\ Untouched
  BY <1>7, <1>2 DEF ReadFails, Dies, Untouched, submitterVars, KillAndReap, Reap
<1>8. CASE child = "sent" /\ Peer
  BY <1>8, PeerFits
<1>9. CASE Slipstreaming
  BY <1>5, <1>6, <1>7, <1>8, <1>9 DEF Slipstreaming
<1>10. CASE backend = "regtest" /\ UNCHANGED transportVars
  <2>1. answer' = Nil
    BY <1>10 DEF BackendInv, BytesInv, transportVars, curlVars
  <2>. QED
    BY <2>1, <1>1
<1>11. CASE World /\ UNCHANGED transportVars
  BY <1>11, <1>2 DEF World, ArrivesLate, Forgets, IsMined, transportVars, curlVars
<1>12. CASE UNCHANGED networkVars
  BY <1>12, <1>2 DEF networkVars, slipstreamVars, transportVars, curlVars, submitterVars
<1>. QED
  BY <1>9, <1>10, <1>11, <1>12 DEF NetworkNext

-----------------------------------------------------------------------------
(* The rehearsal *)

\* The steps of the rehearsal.
RegtestNext == (Asking \/ Node \/ Taking) /\ UNCHANGED <<backend, transportVars>>

\* What the peer answers does not touch what the rehearsal has.
LEMMA PeerKeeps ==
    ASSUME CallInv, StageInv, child = "sent", Peer
    PROVE  UNCHANGED <<call, outcome, submitted, mined>>
BY DEF CallInv, StageInv, Calls, Peer, PeerTakes, PeerRefuses, PeerMisses, PeerLooksUp, PeerQuotes,
   PeerAlerts

\* A step of the running program leaves blocks alone.
LEMMA SlipstreamKeeps ==
    ASSUME CallInv, StageInv, Slipstreaming
    PROVE  UNCHANGED mined
<1>1. CASE Calling
  BY <1>1 DEF Calling, Call, CallOther, AlertUnconfigured, worldVars
<1>2. CASE Working
  BY <1>2 DEF Working, Curl, SendRequest, Untouched, submitterVars, Answer, worldVars
<1>3. CASE (ReadFails \/ Dies) /\ Untouched
  BY <1>3 DEF Untouched, submitterVars, worldVars
<1>4. CASE child = "sent" /\ Peer
  BY <1>4, PeerKeeps
<1>. QED
  BY <1>1, <1>2, <1>3, <1>4 DEF Slipstreaming

\* The world mines what has not been mined.
LEMMA WorldKeeps ==
    ASSUME World, BackendInv
    PROVE  /\ UNCHANGED <<call, outcome, submitted, decision>>
           /\ mined' \in [Txs -> Heights \cup {None}]
           /\ \A t \in Txs : mined[t] # None => mined'[t] = mined[t]
<1>1. CASE \E t \in Txs : ArrivesLate(t) \/ Forgets(t)
  BY <1>1 DEF ArrivesLate, Forgets, BackendInv
<1>2. CASE \E t \in Txs, h \in Heights : IsMined(t, h)
  BY <1>2 DEF IsMined, BackendInv
<1>. QED
  BY <1>1, <1>2 DEF World

\* The answers of the node are told apart by ok.
LEMMA RepliesDiffer ==
    /\ \A v : Result(v).ok /\ Result(v).value = v
    /\ \A n : ~ RpcError(n).ok /\ RpcError(n).error = "Rpc" /\ RpcError(n).code = n
    /\ ~ Transport.ok /\ Transport.error = "Transport" /\ Transport.code = 0
    /\ ~ Decode.ok /\ Decode.error = "Decode" /\ Decode.code = 0
    /\ ~ Endless.ok /\ Endless.error = "Endless" /\ Endless.code = 0
<1>1. \A v : Result(v).ok = TRUE /\ Result(v).value = v
  BY DEF Result
<1>2. \A n : RpcError(n).ok = FALSE /\ RpcError(n).error = "Rpc" /\ RpcError(n).code = n
  BY DEF RpcError
<1>3. Transport.ok = FALSE /\ Transport.error = "Transport" /\ Transport.code = 0
  BY DEF Transport
<1>4. Decode.ok = FALSE /\ Decode.error = "Decode" /\ Decode.code = 0
  BY DEF Decode
<1>5. Endless.ok = FALSE /\ Endless.error = "Endless" /\ Endless.code = 0
  BY DEF Endless
<1>. QED
  BY <1>1, <1>2, <1>3, <1>4, <1>5

\* A process keeps its client, and gives its transaction to a node of regtest only.
LEMMA BackendStep ==
    ASSUME StageInv, CallInv, BackendInv, QuestionInv, [NetworkNext]_networkVars
    PROVE  BackendInv'
<1>1. CASE backend = "slipstream" /\ Slipstreaming /\ UNCHANGED <<backend, regtestOnlyVars>>
  BY <1>1, SlipstreamKeeps DEF BackendInv, regtestOnlyVars
<1>2. CASE backend = "regtest" /\ RegtestNext
  <2>. USE DEF BackendInv
  <2>1. UNCHANGED <<backend, stage>>
    BY <1>2 DEF RegtestNext, transportVars
  <2>2. CASE Asking
    BY <1>2, <2>1, <2>2 DEF Asking, AskFloor, AskCoins, AskSubmit, AskStatus, regtestOnlyVars,
         worldVars
  <2>3. CASE Node
    <3>1. UNCHANGED <<mined, floorVar, chain>>
      BY <2>3 DEF Node, NodeNotReached, NodeBreaksOff, NodeTellsChain, NodeTakes, NodeRefuses, NodeHasMined,
           NodeFails, NodeLooksUp, NodeTellsHeight, NodeScans, NodeGivesRaw, Comes, Lost, worldVars
    <3>2. UNCHANGED submitted \/ rpc = "sendrawtransaction"
      BY <2>3 DEF Node, NodeNotReached, NodeBreaksOff, NodeTellsChain, NodeTakes, NodeRefuses, NodeHasMined,
           NodeFails, NodeLooksUp, NodeTellsHeight, NodeScans, NodeGivesRaw, Comes, Lost, worldVars
    <3>. QED
      BY <1>2, <2>1, <3>1, <3>2 DEF QuestionInv
  <2>4. CASE Taking
    BY <1>2, <2>1, <2>4 DEF Taking, CheckChain, TakeSubmitted, TakeStatus, TakeHeight, TakeScan,
         TakeRaw, worldVars
  <2>. QED
    BY <1>2, <2>2, <2>3, <2>4 DEF RegtestNext
<1>3. CASE World /\ UNCHANGED <<backend, transportVars, regtestOnlyVars>>
  BY <1>3, WorldKeeps DEF BackendInv, transportVars, regtestOnlyVars
<1>4. CASE UNCHANGED networkVars
  BY <1>4 DEF BackendInv, networkVars, slipstreamVars, transportVars, submitterVars, worldVars,
       regtestOnlyVars
<1>. QED
  BY <1>1, <1>2, <1>3, <1>4 DEF NetworkNext, RegtestNext

\* The reply to a question is what the peer has decided or known for it.
LEMMA NodeStep ==
    ASSUME BackendInv, QuestionInv, ReplyInv, Node
    PROVE  QuestionInv' /\ ReplyInv'
<1>1. UNCHANGED <<call, outcome, rpc, chain, mined>>
  BY DEF Node, NodeNotReached, NodeBreaksOff, NodeTellsChain, NodeTakes, NodeRefuses, NodeHasMined,
     NodeFails, NodeLooksUp, NodeTellsHeight, NodeScans, NodeGivesRaw, Comes, Lost, worldVars
<1>2. CASE NodeNotReached
  <2>1. UNCHANGED decision /\ reply' = Transport
    BY <1>2 DEF NodeNotReached, Comes
  <2>2. QuestionInv'
    BY <1>1, <2>1 DEF QuestionInv
  <2>3. ~ reply'.ok /\ reply'.error # "Rpc" /\ reply'.code # -5
    BY <2>1, RepliesDiffer
  <2>. QED
    BY <2>2, <2>3 DEF ReplyInv
<1>3. CASE NodeTellsChain
  <2>1. rpc = "getblockchaininfo" /\ UNCHANGED decision
        /\ reply' \in {Result(chain), Transport, Decode, Endless}
    BY <1>3 DEF NodeTellsChain, Comes, Lost
  <2>. QED
    BY <1>1, <2>1, RepliesDiffer DEF QuestionInv, ReplyInv
<1>4. CASE NodeTakes
  <2>1. /\ rpc = "sendrawtransaction" /\ decision' = <<"taken">>
        /\ reply' \in {Result(call.tx), Transport, Decode, Endless}
    BY <1>4 DEF NodeTakes, Comes, Lost
  <2>2. QuestionInv'
    BY <1>1, <2>1 DEF QuestionInv
  <2>3. reply'.ok \/ reply'.error # "Rpc"
    BY <2>1, RepliesDiffer
  <2>. QED
    BY <1>1, <2>1, <2>2, <2>3 DEF ReplyInv
<1>5. CASE NodeRefuses
  <2>1. /\ rpc = "sendrawtransaction" /\ decision' = <<"refused">>
        /\ reply' \in {RpcError(-25), RpcError(-26), Transport, Decode, Endless}
    BY <1>5 DEF NodeRefuses, Comes, Lost
  <2>. QED
    BY <1>1, <2>1, RepliesDiffer DEF QuestionInv, ReplyInv
<1>6. CASE NodeHasMined
  <2>1. /\ rpc = "sendrawtransaction" /\ decision' = <<"in chain">>
        /\ reply' \in {RpcError(-25), RpcError(-27), Transport, Decode, Endless}
    BY <1>6 DEF NodeHasMined, Comes, Lost
  <2>. QED
    BY <1>1, <2>1, RepliesDiffer DEF QuestionInv, ReplyInv
<1>7. CASE NodeFails
  <2>1. rpc = "sendrawtransaction" /\ UNCHANGED decision /\ reply' = RpcError(-28)
    BY <1>7 DEF NodeFails, Comes
  <2>2. QuestionInv'
    BY <1>1, <2>1 DEF QuestionInv
  <2>3. ~ reply'.ok /\ reply'.code \notin -27 .. -25
    BY <2>1, RepliesDiffer
  <2>. QED
    BY <1>1, <2>1, <2>2, <2>3 DEF ReplyInv
<1>8. CASE NodeLooksUp
  <2>1. /\ rpc = "getrawtransaction" /\ call.op = "status" /\ decision' = Seen(call.tx)
        /\ \/ Seen(call.tx)[1] = "unknown" /\ reply' = RpcError(-5)
           \/ Seen(call.tx)[1] = "pending" /\ reply' = Result(0)
           \/ Seen(call.tx)[1] = "confirmed" /\ reply' = Result(1)
           \/ reply' \in {RpcError(-28), Transport, Decode, Endless}
    BY <1>8 DEF NodeLooksUp, Comes, Lost
  <2>2. /\ Seen(call.tx)[1] = "unknown" => decision' = <<"unknown">>
        /\ Seen(call.tx)[1] = "pending" => decision' = <<"pending">>
        /\ Seen(call.tx)[1] = "confirmed" =>
             mined[call.tx] # None /\ decision' = <<"confirmed", mined[call.tx]>>
    BY <2>1 DEF Seen
  <2>3. QuestionInv'
    BY <1>1, <2>1 DEF QuestionInv
  <2>. QED
    BY <1>1, <2>1, <2>2, <2>3, RepliesDiffer DEF ReplyInv
<1>9. CASE NodeTellsHeight
  <2>1. rpc = "getblockheader" /\ UNCHANGED decision
        /\ reply' \in {Result(mined[call.tx]), RpcError(-5), Transport, Decode, Endless}
    BY <1>9 DEF NodeTellsHeight, Comes, Lost
  <2>. QED
    BY <1>1, <2>1, RepliesDiffer DEF QuestionInv, ReplyInv
<1>10. CASE NodeScans
  <2>1. PICK list \in SUBSET Coins :
          /\ rpc = "scantxoutset" /\ decision' = <<"listed", list>>
          /\ reply' \in {Result(list), Result(None), Transport, Decode, Endless}
    BY <1>10 DEF NodeScans, Comes, Lost
  <2>. QED
    BY <1>1, <2>1, RepliesDiffer DEF QuestionInv, ReplyInv
<1>11. CASE NodeGivesRaw
  <2>1. rpc = "getrawtransaction" /\ call.op = "coins" /\ UNCHANGED decision
    BY <1>11 DEF NodeGivesRaw
  <2>. QED
    BY <1>1, <2>1 DEF QuestionInv, ReplyInv
<1>12. CASE NodeBreaksOff
  <2>1. UNCHANGED decision /\ reply' \in {Transport, Decode}
    BY <1>12 DEF NodeBreaksOff, Comes
  <2>2. QuestionInv'
    BY <1>1, <2>1 DEF QuestionInv
  <2>3. ~ reply'.ok /\ reply'.error # "Rpc" /\ reply'.code # -5
    BY <2>1, RepliesDiffer
  <2>. QED
    BY <2>2, <2>3 DEF ReplyInv
<1>. QED
  BY <1>2, <1>3, <1>4, <1>5, <1>6, <1>7, <1>8, <1>9, <1>10, <1>11, <1>12 DEF Node

\* The client asks on with what it knows.
LEMMA TakingStep ==
    ASSUME QuestionInv, ReplyInv, Taking
    PROVE  QuestionInv' /\ ReplyInv'
<1>1. reply # None /\ UNCHANGED <<call, chain, mined, decision>>
  BY DEF Taking, Arrived, CheckChain, TakeSubmitted, TakeStatus, TakeHeight, TakeScan, TakeRaw, worldVars
<1>2. ASSUME NEW result, Ends(result) PROVE QuestionInv' /\ ReplyInv'
  BY <1>2 DEF Ends, Ask, QuestionInv, Questions, ReplyInv
<1>3. CASE CheckChain
  <2>1. CASE IsRegtest
    <3>1. /\ chain = "regtest" /\ UNCHANGED outcome /\ reply' = None
          /\ rpc = "getblockchaininfo"
          /\ rpc' = IF call.op = "submit" THEN "sendrawtransaction" ELSE "scantxoutset"
      BY <1>1, <1>3, <2>1 DEF CheckChain, IsRegtest, ReplyInv, Ask
    <3>. QED
      BY <1>1, <3>1 DEF QuestionInv, Questions, ReplyInv
  <2>2. CASE ~IsRegtest
    BY <1>2, <1>3, <2>2 DEF CheckChain
  <2>. QED
    BY <2>1, <2>2
<1>4. CASE TakeSubmitted
  BY <1>2, <1>4 DEF TakeSubmitted
<1>5. CASE TakeStatus
  <2>1. CASE \E result : Ends(result)
    BY <1>2, <2>1
  <2>2. CASE reply.ok /\ reply.value # 0 /\ Ask("getblockheader") /\ UNCHANGED outcome
    <3>1. rpc = "getrawtransaction" /\ call.op = "status"
      BY <1>5 DEF TakeStatus
    <3>2. mined[call.tx] # None /\ decision = <<"confirmed", mined[call.tx]>>
      BY <1>1, <2>2, <3>1 DEF ReplyInv
    <3>3. call.tx \in Txs /\ outcome = None
      BY <3>1 DEF QuestionInv
    <3>. QED
      BY <1>1, <2>2, <3>1, <3>2, <3>3 DEF QuestionInv, Questions, ReplyInv, Ask
  <2>. QED
    BY <1>5, <2>1, <2>2 DEF TakeStatus
<1>6. CASE TakeHeight
  BY <1>2, <1>6 DEF TakeHeight
<1>7. CASE TakeScan
  <2>1. CASE \E result : Ends(result)
    BY <1>2, <2>1
  <2>2. CASE /\ reply.ok /\ reply.value \notin {None, {}}
             /\ Ask("getrawtransaction") /\ UNCHANGED outcome
    <3>1. rpc = "scantxoutset"
      BY <1>7 DEF TakeScan
    <3>2. decision = <<"listed", reply.value>>
      BY <1>1, <2>2, <3>1 DEF ReplyInv
    <3>3. decision = <<"listed", decision[2]>> /\ call.op = "coins" /\ outcome = None
      BY <3>1, <3>2 DEF QuestionInv
    <3>. QED
      BY <1>1, <2>2, <3>3 DEF QuestionInv, Questions, ReplyInv, Ask
  <2>. QED
    BY <1>7, <2>1, <2>2 DEF TakeScan
<1>8. CASE TakeRaw
  <2>1. CASE \E result : Ends(result)
    BY <1>2, <2>1
  <2>2. CASE Ask("getrawtransaction") /\ UNCHANGED outcome
    <3>1. rpc = "getrawtransaction" /\ call.op = "coins"
      BY <1>8 DEF TakeRaw
    <3>. QED
      BY <1>1, <2>2, <3>1 DEF QuestionInv, Questions, ReplyInv, Ask
  <2>. QED
    BY <1>8, <2>1, <2>2 DEF TakeRaw
<1>. QED
  BY <1>3, <1>4, <1>5, <1>6, <1>7, <1>8 DEF Taking

\* What the client knows at its questions, and what the replies tell, stays true.
LEMMA RegtestStep ==
    ASSUME StageInv, CallInv, RegtestInv, [NetworkNext]_networkVars
    PROVE  RegtestInv'
<1>. USE DEF RegtestInv
<1>1. BackendInv'
  BY BackendStep
<1>. SUFFICES QuestionInv' /\ ReplyInv'
  BY <1>1
<1>2. ASSUME rpc' = "idle" PROVE QuestionInv' /\ ReplyInv'
  BY <1>2 DEF QuestionInv, Questions, ReplyInv
<1>3. CASE backend = "slipstream" /\ Slipstreaming /\ UNCHANGED <<backend, regtestOnlyVars>>
  BY <1>2, <1>3 DEF BackendInv, regtestOnlyVars
<1>4. CASE backend = "regtest" /\ RegtestNext
  <2>1. CASE Asking
    <3>1. CASE AskFloor
      BY <1>2, <3>1 DEF AskFloor, regtestOnlyVars
    <3>2. CASE AskCoins
      BY <3>2, Zenon DEF AskCoins, Begin, Ask, QuestionInv, Questions, ReplyInv
    <3>3. ASSUME NEW t \in Txs, AskSubmit(t) PROVE QuestionInv' /\ ReplyInv'
      BY <3>3 DEF AskSubmit, Begin, Ask, QuestionInv, Questions, ReplyInv
    <3>4. ASSUME NEW t \in Txs, AskStatus(t) PROVE QuestionInv' /\ ReplyInv'
      BY <3>4 DEF AskStatus, Begin, Ask, QuestionInv, Questions, ReplyInv
    <3>. QED
      BY <2>1, <3>1, <3>2, <3>3, <3>4 DEF Asking
  <2>. QED
    BY <1>4, <2>1, NodeStep, TakingStep DEF RegtestNext
<1>5. CASE World /\ UNCHANGED <<backend, transportVars, regtestOnlyVars>>
  <2>1. UNCHANGED <<rpc, reply, chain, call, outcome, decision>>
    BY <1>5, WorldKeeps DEF regtestOnlyVars
  <2>2. \A t \in Txs : mined[t] # None => mined'[t] = mined[t]
    BY <1>5, WorldKeeps
  <2>3. QuestionInv'
    BY <2>1, <2>2 DEF QuestionInv
  <2>4. ReplyInv'
    <3>1. CASE rpc = "getrawtransaction" /\ call.op = "status"
      <4>1. call.tx \in Txs
        BY <3>1 DEF QuestionInv
      <4>. QED
        BY <2>1, <2>2, <3>1, <4>1 DEF ReplyInv
    <3>2. CASE rpc = "getblockheader"
      <4>1. call.tx \in Txs /\ mined[call.tx] # None
        BY <3>2 DEF QuestionInv
      <4>. QED
        BY <2>1, <2>2, <3>2, <4>1 DEF ReplyInv
    <3>. QED
      BY <2>1, <3>1, <3>2 DEF ReplyInv
  <2>. QED
    BY <2>3, <2>4
<1>6. CASE UNCHANGED networkVars
  <2>1. UNCHANGED <<rpc, reply, chain, call, outcome, decision, mined>>
    BY <1>6 DEF networkVars, slipstreamVars, submitterVars, worldVars, regtestOnlyVars
  <2>. QED
    BY <2>1 DEF QuestionInv, ReplyInv
<1>. QED
  BY <1>1, <1>3, <1>4, <1>5, <1>6 DEF NetworkNext, RegtestNext

-----------------------------------------------------------------------------
(* The outcome *)

\* What is no answer to act on.
LEMMA NoAnswerIsDefinite ==
    \A e : Ambiguous(e).kind = "ambiguous" /\ Failed(e).kind = "error"
BY DEF Ambiguous, Failed

\* A receipt is for the answer that names the transaction.
LEMMA ReceiptParsed ==
    ASSUME NEW b, NEW txid
    PROVE  LET o == ParseSubmitSuccess(b, txid)
           IN  \/ /\ o.kind = "receipt"
                  /\ Member(b, "status") = "success" /\ Member(b, "message") = txid
               \/ o.kind = "ambiguous"
<1>. DEFINE o == ParseSubmitSuccess(b, txid)
<1>1. CASE Member(b, "status") = "success" /\ Member(b, "message") = txid
  <2>1. o = [kind |-> "receipt"]
    BY <1>1 DEF ParseSubmitSuccess
  <2>2. o.kind = "receipt"
    BY <2>1
  <2>. QED
    BY <1>1, <2>2
<1>2. CASE ~ (Member(b, "status") = "success" /\ Member(b, "message") = txid)
  <2>1. o = Ambiguous("SubmitTxidMismatch") \/ o = Ambiguous("BadResponse")
    BY <1>2 DEF ParseSubmitSuccess
  <2>. QED
    BY <2>1, NoAnswerIsDefinite
<1>. QED
  BY <1>1, <1>2

\* A rejection is for the answer that says so.
LEMMA RejectionParsed ==
    ASSUME NEW b
    PROVE  LET o == ParseSubmitRejection(b)
           IN  \/ /\ o.kind = "rejected"
                  /\ Member(b, "status") = "error" \/ Member(b, "is_success") = FALSE
               \/ o.kind = "ambiguous"
<1>. DEFINE o == ParseSubmitRejection(b)
            Says400 == Member(b, "status") = "error" \/ Member(b, "is_success") = FALSE
<1>1. o = IF Says400 THEN [kind |-> "rejected"] ELSE Ambiguous("BadResponse")
  BY Zenon DEF ParseSubmitRejection
<1>2. [kind |-> "rejected"].kind = "rejected"
  OBVIOUS
<1>3. (Says400 /\ o.kind = "rejected") \/ o.kind = "ambiguous"
  <2>. HIDE DEF Says400, o
  <2>. QED
    BY <1>1, <1>2, NoAnswerIsDefinite
<1>. QED
  BY <1>3, Zenon

\* A status is for the answer that names the transaction and its state.
LEMMA StatusParsed ==
    ASSUME NEW b, NEW txid
    PROVE  LET o == ParseStatusOk(b, txid)
           IN  \/ /\ o.kind = "status" /\ Member(b, "txid") = txid
                  /\ \/ /\ Member(b, "confirmed") = TRUE /\ Member(b, "height") # None
                        /\ o.seen = <<"confirmed", b.height>>
                     \/ Member(b, "confirmed") = FALSE /\ o.seen = <<"pending">>
               \/ o.kind = "error"
<1>. DEFINE o == ParseStatusOk(b, txid)
            Named == Member(b, "txid") = txid
            Yes == Member(b, "confirmed") = TRUE
            No == Member(b, "confirmed") = FALSE
            High == Member(b, "height") # None
<1>1. \/ Named /\ Yes /\ High /\ o = Status(<<"confirmed", b.height>>)
      \/ Named /\ No /\ o = Status(<<"pending">>)
      \/ o = Failed("BadResponse")
  <2>1. o = CASE ~Named -> Failed("BadResponse")
              [] Named /\ Yes ->
                   IF ~High THEN Failed("BadResponse") ELSE Status(<<"confirmed", b.height>>)
              [] Named /\ No -> Status(<<"pending">>)
              [] OTHER -> Failed("BadResponse")
    BY Zenon DEF ParseStatusOk
  <2>. HIDE DEF o, Named, Yes, No, High
  <2>. QED
    BY <2>1
<1>2. \A seen : Status(seen).kind = "status" /\ Status(seen).seen = seen
  BY DEF Status
<1>3. \/ Named /\ Yes /\ High /\ o.kind = "status" /\ o.seen = <<"confirmed", b.height>>
      \/ Named /\ No /\ o.kind = "status" /\ o.seen = <<"pending">>
      \/ o.kind = "error"
  <2>. HIDE DEF o, Named, Yes, No, High
  <2>. QED
    BY <1>1, <1>2, NoAnswerIsDefinite
<1>. QED
  BY <1>3, Zenon

\* Nothing is known of a transaction that is said not to be found.
LEMMA NotFoundParsed ==
    ASSUME NEW b
    PROVE  LET o == ParseStatusNotFound(b)
           IN  \/ /\ o.kind = "status" /\ o.seen = <<"unknown">>
                  /\ Member(b, "message") = "Transaction not found"
               \/ o.kind = "error"
BY NoAnswerIsDefinite DEF ParseStatusNotFound, Status

\* A floor is made of quotes, or there is none.
LEMMA FloorParsed ==
    ASSUME NEW b
    PROVE  FloorOf(b).kind \in {"floor", "error"}
<1>. DEFINE quoted == {k \in RateKeys : Member(b, k) # None}
            least == CHOOSE r \in {RateOf(b[k]) : k \in quoted} :
                        \A k \in quoted : RateOf(b[k]) <= r
<1>1. FloorOf(b) = IF quoted = {} \/ \E k \in quoted : ~IsRate(b[k])
                   THEN Failed("BadResponse") ELSE [kind |-> "floor", rate |-> least]
  BY DEF FloorOf
<1>2. [kind |-> "floor", rate |-> least].kind = "floor"
  OBVIOUS
<1>. HIDE DEF quoted, least
<1>. QED
  BY <1>1, <1>2, NoAnswerIsDefinite

\* A response that is no error is an answer of text.
LEMMA ResponseIsAnswer ==
    ASSUME stage = "returned", response.ok, ResponseIsExact, ResponseInv
    PROVE  /\ answer # Nil /\ answer.body # Binary
           /\ response.status = answer.status /\ response.body = answer.body
BY DEF ResponseIsExact, ResponseInv

\* A receipt and a rejection are what the peer has decided.
LEMMA SubmissionIsEarned ==
    ASSUME stage = "returned", ResponseIsExact, ResponseInv, AnswerInv, call.op = "submit"
    PROVE  LET o == SubmitOutcome(call.tx)
           IN  \/ o.kind = "receipt" /\ decision = <<"taken">>
               \/ o.kind = "rejected" /\ decision = <<"refused">>
               \/ o.kind = "ambiguous"
<1>. DEFINE o == SubmitOutcome(call.tx)
<1>1. CASE ~ response.ok
  <2>1. o = Ambiguous(response.error)
    BY <1>1 DEF SubmitOutcome
  <2>. QED
    BY <2>1, NoAnswerIsDefinite
<1>2. CASE response.ok /\ response.status \notin {200, 400}
  <2>1. o = Ambiguous("HttpStatus")
    BY <1>2 DEF SubmitOutcome
  <2>. QED
    BY <2>1, NoAnswerIsDefinite
<1>3. CASE response.ok /\ response.status = 200
  <2>1. SubmitFits(answer, decision) /\ answer.status = 200 /\ response.body = answer.body
    BY <1>3, ResponseIsAnswer DEF AnswerInv
  <2>2. o = ParseSubmitSuccess(answer.body, TxidOf[call.tx])
    BY <1>3, <2>1 DEF SubmitOutcome
  <2>3. /\ Member(answer.body, "status") = "success"
        /\ Member(answer.body, "message") = TxidOf[call.tx]
        => decision = <<"taken">>
    BY <2>1, Zenon DEF SubmitFits
  <2>. QED
    BY <2>2, <2>3, ReceiptParsed
<1>4. CASE response.ok /\ response.status = 400
  <2>1. SubmitFits(answer, decision) /\ answer.status = 400 /\ response.body = answer.body
    BY <1>4, ResponseIsAnswer DEF AnswerInv
  <2>2. o = ParseSubmitRejection(answer.body)
    BY <1>4, <2>1 DEF SubmitOutcome
  <2>3. Member(answer.body, "status") = "error" \/ Member(answer.body, "is_success") = FALSE
        => decision = <<"refused">>
    BY <2>1, Zenon DEF SubmitFits
  <2>. QED
    BY <2>2, <2>3, RejectionParsed, Zenon
<1>. QED
  BY <1>1, <1>2, <1>3, <1>4

\* A status is what the peer saw.
LEMMA StatusIsEarned ==
    ASSUME stage = "returned", ResponseIsExact, ResponseInv, AnswerInv, call.op = "status"
    PROVE  LET o == StatusOutcome(call.tx)
           IN  (o.kind = "status" /\ o.seen = decision) \/ o.kind = "error"
<1>. DEFINE o == StatusOutcome(call.tx)
<1>1. CASE ~ response.ok
  <2>1. o = Failed(response.error)
    BY <1>1 DEF StatusOutcome
  <2>. QED
    BY <2>1, NoAnswerIsDefinite
<1>2. CASE response.ok /\ response.status \notin {200, 400}
  <2>1. o = Failed("HttpStatus")
    BY <1>2 DEF StatusOutcome
  <2>. QED
    BY <2>1, NoAnswerIsDefinite
<1>3. CASE response.ok /\ response.status = 200
  <2>1. StatusFits(answer, decision) /\ answer.status = 200 /\ response.body = answer.body
    BY <1>3, ResponseIsAnswer DEF AnswerInv
  <2>2. o = ParseStatusOk(answer.body, TxidOf[call.tx])
    BY <1>3, <2>1 DEF StatusOutcome
  <2>. DEFINE Named == Member(answer.body, "txid") = TxidOf[call.tx]
              Yes == Member(answer.body, "confirmed") = TRUE
              No == Member(answer.body, "confirmed") = FALSE
              High == Member(answer.body, "height") # None
  <2>3. Named => /\ Yes /\ High => decision = <<"confirmed", answer.body.height>>
                 /\ No => decision = <<"pending">>
    BY <2>1, Zenon DEF StatusFits
  <2>4. LET p == ParseStatusOk(answer.body, TxidOf[call.tx])
        IN  \/ /\ p.kind = "status" /\ Named
               /\ \/ Yes /\ High /\ p.seen = <<"confirmed", answer.body.height>>
                  \/ No /\ p.seen = <<"pending">>
            \/ p.kind = "error"
    BY StatusParsed, Zenon
  <2>. HIDE DEF Named, Yes, No, High
  <2>. QED
    BY <2>2, <2>3, <2>4
<1>4. CASE response.ok /\ response.status = 400
  <2>1. StatusFits(answer, decision) /\ answer.status = 400 /\ response.body = answer.body
    BY <1>4, ResponseIsAnswer DEF AnswerInv
  <2>2. o = ParseStatusNotFound(answer.body)
    BY <1>4, <2>1 DEF StatusOutcome
  <2>3. Member(answer.body, "message") = "Transaction not found" => decision = <<"unknown">>
    BY <2>1, Zenon DEF StatusFits
  <2>. QED
    BY <2>2, <2>3, NotFoundParsed
<1>. QED
  BY <1>1, <1>2, <1>3, <1>4

\* A floor fits the quotes.
LEMMA FloorIsEarned ==
    ASSUME stage = "returned", ResponseIsExact, ResponseInv, AnswerInv, call.op = "floor"
    PROVE  LET o == FloorOutcome
           IN  (o.kind = "floor" /\ RateFits(o.rate, decision)) \/ o.kind = "error"
<1>. DEFINE o == FloorOutcome
<1>1. CASE ~ response.ok
  <2>1. o = Failed(response.error)
    BY <1>1 DEF FloorOutcome
  <2>. QED
    BY <2>1, NoAnswerIsDefinite
<1>2. CASE response.ok /\ response.status # 200
  <2>1. o = Failed("HttpStatus")
    BY <1>2 DEF FloorOutcome
  <2>. QED
    BY <2>1, NoAnswerIsDefinite
<1>3. CASE response.ok /\ response.status = 200
  <2>1. FloorFits(answer, decision) /\ answer.status = 200 /\ response.body = answer.body
    BY <1>3, ResponseIsAnswer DEF AnswerInv
  <2>2. o = FloorOf(answer.body)
    BY <1>3, <2>1 DEF FloorOutcome
  <2>. QED
    BY <2>1, <2>2, FloorParsed DEF FloorFits
<1>. QED
  BY <1>1, <1>2, <1>3

\* An alert is sent that Telegram has taken.
LEMMA AlertIsEarned ==
    ASSUME stage = "returned", ResponseIsExact, ResponseInv, AnswerInv, call.op = "alert"
    PROVE  LET o == AlertOutcome
           IN  (o.kind = "sent" /\ decision = <<"taken">>) \/ o.kind = "error"
<1>. DEFINE o == AlertOutcome
<1>1. CASE ~ response.ok
  <2>1. o = Failed(response.error)
    BY <1>1 DEF AlertOutcome
  <2>. QED
    BY <2>1, NoAnswerIsDefinite
<1>2. CASE response.ok /\ response.status # 200
  <2>1. o = Failed("HttpStatus")
    BY <1>2 DEF AlertOutcome
  <2>. QED
    BY <2>1, NoAnswerIsDefinite
<1>3. CASE response.ok /\ response.status = 200
  <2>. DEFINE IsOk == Member(answer.body, "ok") = TRUE
  <2>1. AlertFits(answer, decision) /\ answer.status = 200 /\ response.body = answer.body
    BY <1>3, ResponseIsAnswer DEF AnswerInv
  <2>2. o = IF IsOk THEN [kind |-> "sent"] ELSE Failed("BadResponse")
    BY <1>3, <2>1 DEF AlertOutcome
  <2>3. IsOk => decision = <<"taken">>
    BY <2>1, Zenon DEF AlertFits
  <2>4. [kind |-> "sent"].kind = "sent"
    OBVIOUS
  <2>. HIDE DEF IsOk
  <2>. QED
    BY <2>2, <2>3, <2>4, NoAnswerIsDefinite
<1>. QED
  BY <1>1, <1>2, <1>3

\* What is neither definite nor a floor is nothing to be wrong about.
LEMMA IndefiniteIsEarned ==
    ASSUME outcome'.kind \in {"ambiguous", "error", "other"}
    PROVE  OutcomeInv'
BY DEF OutcomeInv, OutcomeIsEarned, FloorIsEnough

\* A call of the running program returns what its peer has decided for it.
LEMMA AnswerIsEarned ==
    ASSUME CallInv, ResponseIsExact, ResponseInv, AnswerInv, Answer
    PROVE  OutcomeInv'
<1>1. /\ stage = "returned" /\ (call \in Calls \/ call.op = "other")
      /\ outcome' = OutcomeOf(call) /\ UNCHANGED <<call, decision>>
  BY DEF Answer, Done, Return, CallInv
<1>2. CASE call.op = "submit"
  <2>1. outcome' = SubmitOutcome(call.tx)
    BY <1>1, <1>2 DEF OutcomeOf
  <2>2. \/ outcome'.kind = "receipt" /\ decision = <<"taken">>
        \/ outcome'.kind = "rejected" /\ decision = <<"refused">>
        \/ outcome'.kind = "ambiguous"
    BY <1>1, <1>2, <2>1, SubmissionIsEarned
  <2>. QED
    BY <1>1, <1>2, <2>2, IndefiniteIsEarned DEF OutcomeInv, OutcomeIsEarned, FloorIsEnough
<1>3. CASE call.op = "status"
  <2>1. outcome' = StatusOutcome(call.tx)
    BY <1>1, <1>3 DEF OutcomeOf
  <2>2. (outcome'.kind = "status" /\ outcome'.seen = decision) \/ outcome'.kind = "error"
    BY <1>1, <1>3, <2>1, StatusIsEarned
  <2>. QED
    BY <1>1, <1>3, <2>2, IndefiniteIsEarned DEF OutcomeInv, OutcomeIsEarned, FloorIsEnough
<1>4. CASE call.op = "floor"
  <2>1. outcome' = FloorOutcome
    BY <1>1, <1>4 DEF OutcomeOf
  <2>2. (outcome'.kind = "floor" /\ RateFits(outcome'.rate, decision)) \/ outcome'.kind = "error"
    BY <1>1, <1>4, <2>1, FloorIsEarned
  <2>3. ASSUME outcome'.kind = "floor", RateFits(outcome'.rate, decision) PROVE OutcomeInv'
    BY <1>1, <2>3 DEF OutcomeInv, OutcomeIsEarned, FloorIsEnough, RateFits
  <2>. QED
    BY <2>2, <2>3, IndefiniteIsEarned
<1>5. CASE call.op = "alert"
  <2>1. outcome' = AlertOutcome
    BY <1>1, <1>5 DEF OutcomeOf
  <2>2. (outcome'.kind = "sent" /\ decision = <<"taken">>) \/ outcome'.kind = "error"
    BY <1>1, <1>5, <2>1, AlertIsEarned
  <2>. QED
    BY <1>1, <1>5, <2>2, IndefiniteIsEarned DEF OutcomeInv, OutcomeIsEarned, FloorIsEnough
<1>6. CASE call.op = "other"
  <2>1. outcome' = [kind |-> "other"]
    BY <1>1, <1>6 DEF OutcomeOf
  <2>2. outcome'.kind = "other"
    BY <2>1
  <2>. QED
    BY <2>2, IndefiniteIsEarned
<1>. QED
  BY <1>1, <1>2, <1>3, <1>4, <1>5, <1>6 DEF Calls

\* The floor of the rehearsal is its variable, or 1.
LEMMA RehearsedFloor ==
    ASSUME AskFloor, BackendInv
    PROVE  OutcomeInv'
<1>1. /\ call'.op = "floor"
      /\ outcome' = CASE floorVar = None -> [kind |-> "floor", rate |-> 1]
                      [] floorVar = -1 -> NoStatus("InvalidInput")
                      [] OTHER -> [kind |-> "floor", rate |-> floorVar]
      /\ decision' = <<"quoted", {IF floorVar = None THEN 2 ELSE 2 * floorVar}>>
  BY DEF AskFloor
<1>. None \notin Int
  BY AbsentAssumption, Zenon
<1>2. \A n \in Int : n \in {0, 1} => n # None /\ n # -1
  OBVIOUS
<1>3. None # -1
  OBVIOUS
<1>4. CASE floorVar = -1
  <2>1. outcome' = NoStatus("InvalidInput")
    BY <1>1, <1>3, <1>4
  <2>2. outcome'.kind = "error"
    BY <2>1 DEF NoStatus
  <2>. QED
    BY <2>2, IndefiniteIsEarned
<1>5. ASSUME NEW n \in Nat, outcome' = [kind |-> "floor", rate |-> n],
             decision' = <<"quoted", {2 * n}>>
      PROVE  OutcomeInv'
  <2>1. outcome'.kind = "floor" /\ outcome'.rate = n
    BY <1>5
  <2>2. decision'[1] = "quoted" /\ decision'[2] = {2 * n}
    BY <1>5
  <2>3. 2 * n <= 2 * n /\ 2 * n > 2 * (n - 1)
    OBVIOUS
  <2>. QED
    BY <2>1, <2>2, <2>3 DEF OutcomeInv, OutcomeIsEarned, FloorIsEnough
<1>6. CASE floorVar = None
  <2>1. outcome' = [kind |-> "floor", rate |-> 1] /\ decision' = <<"quoted", {2 * 1}>>
    BY <1>1, <1>3, <1>6
  <2>. QED
    BY <2>1, <1>5
<1>7. CASE floorVar \in {0, 1}
  <2>1. floorVar # None /\ floorVar # -1 /\ floorVar \in Nat
    BY <1>2, <1>7
  <2>2. outcome' = [kind |-> "floor", rate |-> floorVar] /\ decision' = <<"quoted", {2 * floorVar}>>
    BY <1>1, <2>1
  <2>. QED
    BY <2>1, <2>2, <1>5
<1>. QED
  BY <1>4, <1>6, <1>7 DEF BackendInv

\* A question of the rehearsal that ends a call ends it with what its node has said.
LEMMA TakingIsEarned ==
    ASSUME QuestionInv, ReplyInv, OutcomeInv, Taking
    PROVE  OutcomeInv'
<1>1. reply # None /\ UNCHANGED <<call, decision>>
  BY DEF Taking, Arrived, CheckChain, TakeSubmitted, TakeStatus, TakeHeight, TakeScan, TakeRaw
<1>2. ASSUME UNCHANGED outcome PROVE OutcomeInv'
  BY <1>1, <1>2 DEF OutcomeInv, OutcomeIsEarned, FloorIsEnough
<1>3. \A result : Ends(result) => outcome' = result
  BY DEF Ends, Return
<1>4. \A e : Unknown(e).kind = "ambiguous" /\ NoStatus(e).kind = "error"
  BY DEF Unknown, NoStatus
<1>5. CASE CheckChain
  BY <1>2, <1>3, <1>4, <1>5, IndefiniteIsEarned DEF CheckChain
<1>6. CASE TakeSubmitted
  <2>1. rpc = "sendrawtransaction" /\ call.op = "submit"
    BY <1>6 DEF TakeSubmitted, QuestionInv
  <2>2. CASE reply.ok
    <3>1. decision = <<"taken">>
      BY <1>1, <2>1, <2>2 DEF ReplyInv
    <3>2. outcome' = [kind |-> "receipt"] \/ outcome' = Unknown("SubmitTxidMismatch")
      BY <1>3, <1>6, <2>2 DEF TakeSubmitted
    <3>3. outcome'.kind \in {"receipt", "ambiguous"}
      BY <3>2, <1>4
    <3>. QED
      BY <1>1, <2>1, <3>1, <3>3 DEF OutcomeInv, OutcomeIsEarned, FloorIsEnough
  <2>3. CASE ~ reply.ok /\ reply.error = "Rpc"
    <3>1. outcome' = Classify(reply.code)
      BY <1>3, <1>6, <2>3 DEF TakeSubmitted
    <3>2. CASE reply.code \in -27 .. -25
      <4>1. decision \in {<<"refused">>, <<"in chain">>}
        BY <1>1, <2>1, <2>3, <3>2 DEF ReplyInv
      <4>2. outcome'.kind = "rejected"
        BY <3>1, <3>2 DEF Classify
      <4>. QED
        BY <1>1, <2>1, <4>1, <4>2 DEF OutcomeInv, OutcomeIsEarned, FloorIsEnough
    <3>3. CASE reply.code \notin -27 .. -25
      <4>1. outcome' = Unknown("BadResponse")
        BY <3>1, <3>3 DEF Classify
      <4>. QED
        BY <4>1, <1>4, IndefiniteIsEarned
    <3>. QED
      BY <3>2, <3>3
  <2>4. CASE ~ reply.ok /\ reply.error # "Rpc"
    <3>1. outcome' = Unknown(NetError)
      BY <1>3, <1>6, <2>4 DEF TakeSubmitted
    <3>. QED
      BY <3>1, <1>4, IndefiniteIsEarned
  <2>. QED
    BY <2>2, <2>3, <2>4
<1>7. CASE TakeStatus
  <2>1. rpc = "getrawtransaction" /\ call.op = "status"
    BY <1>7 DEF TakeStatus
  <2>2. CASE reply.ok /\ reply.value = 0
    <3>1. decision = <<"pending">>
      BY <1>1, <2>1, <2>2 DEF ReplyInv
    <3>2. outcome' = [kind |-> "status", seen |-> <<"pending">>]
      BY <1>3, <1>7, <2>2 DEF TakeStatus
    <3>3. outcome'.kind = "status" /\ outcome'.seen = <<"pending">>
      BY <3>2
    <3>. QED
      BY <1>1, <2>1, <3>1, <3>3 DEF OutcomeInv, OutcomeIsEarned, FloorIsEnough
  <2>3. CASE reply.ok /\ reply.value # 0
    BY <1>2, <1>7, <2>3 DEF TakeStatus
  <2>4. CASE ~ reply.ok /\ reply.code = -5
    <3>1. decision = <<"unknown">>
      BY <1>1, <2>1, <2>4 DEF ReplyInv
    <3>2. outcome' = [kind |-> "status", seen |-> <<"unknown">>]
      BY <1>3, <1>7, <2>4 DEF TakeStatus
    <3>3. outcome'.kind = "status" /\ outcome'.seen = <<"unknown">>
      BY <3>2
    <3>. QED
      BY <1>1, <2>1, <3>1, <3>3 DEF OutcomeInv, OutcomeIsEarned, FloorIsEnough
  <2>5. CASE ~ reply.ok /\ reply.code # -5
    <3>1. outcome' = NoStatus(NetError)
      BY <1>3, <1>7, <2>5 DEF TakeStatus
    <3>. QED
      BY <3>1, <1>4, IndefiniteIsEarned
  <2>. QED
    BY <2>2, <2>3, <2>4, <2>5
<1>8. CASE TakeHeight
  <2>1. call.op = "status" /\ decision = <<"confirmed", mined[call.tx]>>
    BY <1>8 DEF TakeHeight, QuestionInv
  <2>2. CASE reply.ok
    <3>1. decision = <<"confirmed", reply.value>>
      BY <1>1, <1>8, <2>1, <2>2 DEF TakeHeight, ReplyInv
    <3>2. outcome' = [kind |-> "status", seen |-> <<"confirmed", reply.value>>]
      BY <1>3, <1>8, <2>2 DEF TakeHeight
    <3>3. outcome'.kind = "status" /\ outcome'.seen = <<"confirmed", reply.value>>
      BY <3>2
    <3>. QED
      BY <1>1, <2>1, <3>1, <3>3 DEF OutcomeInv, OutcomeIsEarned, FloorIsEnough
  <2>3. CASE ~ reply.ok
    <3>1. outcome' = NoStatus(NetError)
      BY <1>3, <1>8, <2>3 DEF TakeHeight
    <3>. QED
      BY <3>1, <1>4, IndefiniteIsEarned
  <2>. QED
    BY <2>2, <2>3
<1>9. CASE TakeScan
  <2>1. rpc = "scantxoutset" /\ call.op = "coins"
    BY <1>9 DEF TakeScan, QuestionInv
  <2>2. CASE reply.ok /\ reply.value \notin {None, {}}
    BY <1>2, <1>9, <2>2 DEF TakeScan
  <2>3. CASE reply.ok /\ reply.value = {}
    <3>1. decision = <<"listed", {}>>
      BY <1>1, <2>1, <2>3, RegtestAssumption DEF ReplyInv
    <3>2. outcome' = [kind |-> "coins", coins |-> {}]
      BY <1>3, <1>9, <2>3 DEF TakeScan
    <3>3. outcome'.kind = "coins" /\ outcome'.coins = {}
      BY <3>2
    <3>. QED
      BY <1>1, <2>1, <3>1, <3>3 DEF OutcomeInv, OutcomeIsEarned, FloorIsEnough
  <2>4. CASE ~ reply.ok \/ reply.value = None
    <3>1. outcome' = NoStatus("BadResponse") \/ outcome' = NoStatus(NetError)
      BY <1>3, <1>9, <2>4, RegtestAssumption DEF TakeScan
    <3>. QED
      BY <3>1, <1>4, IndefiniteIsEarned
  <2>. QED
    BY <2>2, <2>3, <2>4
<1>10. CASE TakeRaw
  <2>1. call.op = "coins" /\ decision = <<"listed", ListedCoins>>
    BY <1>10 DEF TakeRaw, QuestionInv, ListedCoins
  <2>2. \/ outcome' = [kind |-> "coins", coins |-> ListedCoins] \/ UNCHANGED outcome
        \/ \E e : outcome' = NoStatus(e)
    BY <1>3, <1>10 DEF TakeRaw
  <2>3. CASE outcome' = [kind |-> "coins", coins |-> ListedCoins]
    <3>1. outcome'.kind = "coins" /\ outcome'.coins = ListedCoins
      BY <2>3
    <3>. QED
      BY <1>1, <2>1, <3>1 DEF OutcomeInv, OutcomeIsEarned, FloorIsEnough
  <2>. QED
    BY <2>2, <2>3, <1>2, <1>4, IndefiniteIsEarned
<1>. QED
  BY <1>5, <1>6, <1>7, <1>8, <1>9, <1>10 DEF Taking

\* A call that ends ends with what its peer has decided, and that is not changed afterwards.
LEMMA OutcomeStep ==
    ASSUME TransportInv, AnswerInv, CallInv, OutcomeInv, RegtestInv, [NetworkNext]_networkVars
    PROVE  OutcomeInv'
<1>. USE DEF TransportInv, RegtestInv
<1>1. ASSUME outcome' = None PROVE OutcomeInv'
  BY <1>1 DEF OutcomeInv, OutcomeIsEarned, FloorIsEnough
<1>2. ASSUME UNCHANGED <<call, outcome, decision>> PROVE OutcomeInv'
  BY <1>2 DEF OutcomeInv, OutcomeIsEarned, FloorIsEnough
<1>3. CASE backend = "slipstream" /\ Slipstreaming
  <2>1. CASE Calling
    BY <1>1, <2>1 DEF Calling, Call, CallOther, AlertUnconfigured, Begin
  <2>2. CASE Working
    <3>1. CASE Answer
      BY <3>1, AnswerIsEarned
    <3>2. CASE ~Answer
      BY <1>2, <2>2, <3>2 DEF Working, Curl, SendRequest, Untouched, submitterVars
    <3>. QED
      BY <3>1, <3>2
  <2>3. CASE (ReadFails \/ Dies) /\ Untouched
    BY <1>2, <2>3 DEF Untouched, submitterVars
  <2>4. CASE child = "sent" /\ Peer
    <3>1. outcome = None /\ UNCHANGED outcome
      BY <2>4, PeerKeeps DEF CallInv, StageInv
    <3>. QED
      BY <3>1, <1>1
  <2>. QED
    BY <1>3, <2>1, <2>2, <2>3, <2>4 DEF Slipstreaming
<1>4. CASE backend = "regtest" /\ RegtestNext
  <2>1. CASE Asking
    <3>1. CASE AskFloor
      BY <3>1, RehearsedFloor
    <3>2. CASE AskCoins \/ \E t \in Txs : AskSubmit(t) \/ AskStatus(t)
      BY <1>1, <3>2 DEF AskCoins, AskSubmit, AskStatus, Begin
    <3>. QED
      BY <2>1, <3>1, <3>2 DEF Asking
  <2>2. CASE Node
    <3>1. rpc # "idle" /\ UNCHANGED outcome
      BY <2>2 DEF Node, NodeNotReached, NodeBreaksOff, NodeTellsChain, NodeTakes, NodeRefuses, NodeHasMined,
           NodeFails, NodeLooksUp, NodeTellsHeight, NodeScans, NodeGivesRaw, Comes, Lost
    <3>. QED
      BY <3>1, <1>1 DEF QuestionInv
  <2>. QED
    BY <1>4, <2>1, <2>2, TakingIsEarned DEF RegtestNext
<1>5. CASE World
  BY <1>2, <1>5, WorldKeeps
<1>6. CASE UNCHANGED networkVars
  BY <1>2, <1>6 DEF networkVars, slipstreamVars, submitterVars
<1>. QED
  BY <1>3, <1>4, <1>5, <1>6 DEF NetworkNext, RegtestNext

-----------------------------------------------------------------------------
(* The theorems *)

\* Nothing has been asked for at the beginning.
LEMMA NetworkInitInv == NetworkInit => NetworkInv
<1>. SUFFICES ASSUME NetworkInit PROVE NetworkInv
  OBVIOUS
<1>. USE DEF NetworkInit, TransportInit, SubmitterInit, RegtestInit
<1>1. StageInv /\ ResponseInv /\ ResponseIsExact
  BY DEF StageInv, ResponseInv, ResponseIsExact
<1>2. BytesInv
  BY SlipstreamAssumption DEF BytesInv, Written, MaxOutput
<1>3. RequestInv
  BY DEF RequestInv
<1>4. AnswerInv /\ CallInv
  BY DEF AnswerInv, CallInv
<1>5. OutcomeInv
  BY DEF OutcomeInv, OutcomeIsEarned, FloorIsEnough
<1>6. BackendInv
  BY DEF BackendInv
<1>7. QuestionInv /\ ReplyInv
  BY DEF QuestionInv, Questions, ReplyInv
<1>. QED
  BY <1>1, <1>2, <1>3, <1>4, <1>5, <1>6, <1>7 DEF NetworkInv, TransportInv, RegtestInv

\* The invariant is inductive.
LEMMA NetworkNextInv == NetworkInv /\ [NetworkNext]_networkVars => NetworkInv'
<1>. SUFFICES ASSUME NetworkInv, [NetworkNext]_networkVars PROVE NetworkInv'
  OBVIOUS
<1>. USE DEF NetworkInv, TransportInv, RegtestInv
<1>1. TransportNext \/ UNCHANGED transportVars
  BY TransportSteps
<1>2. StageInv' /\ BytesInv'
  BY <1>1, StageStep, BytesStep
<1>3. ResponseInv' /\ ResponseIsExact'
  BY <1>1, ResponseStep
<1>4. RequestInv'
  BY <1>1, RequestStep
<1>5. AnswerInv' /\ CallInv'
  BY AnswerStep, CallStep
<1>6. OutcomeInv'
  BY OutcomeStep
<1>7. RegtestInv'
  BY RegtestStep
<1>. QED
  BY <1>2, <1>3, <1>4, <1>5, <1>6, <1>7

\* All of it holds in every behaviour, whatever the peers, the proxies, the processes and the
\* node do.
THEOREM NetworkIsSafe == NetworkSpec => []NetworkInv
BY NetworkInitInv, NetworkNextInv, PTL DEF NetworkSpec

\* A response is what the peer has answered, whole and with its status, for every size of
\* pipes, bodies and limits.
THEOREM ResponsesAreExact == NetworkSpec => []ResponseIsExact
<1>1. NetworkInv => ResponseIsExact
  BY DEF NetworkInv, TransportInv
<1>. QED
  BY <1>1, NetworkIsSafe, PTL

\* Whatever execute is asked for, only the requests of the claim leave the machine, and the
\* rehearsal gives its transaction to no node of another chain.
THEOREM NothingElseLeaves == NetworkSpec => []OnlyPermittedLeaves
<1>1. NetworkInv => OnlyPermittedLeaves
  BY DEF NetworkInv, TransportInv, RequestInv, RegtestInv, BackendInv, OnlyPermittedLeaves
<1>. QED
  BY <1>1, NetworkIsSafe, PTL

\* A definite outcome is one that the peer has decided for this very call.
THEOREM OutcomesAreEarned == NetworkSpec => []OutcomeIsEarned
<1>1. NetworkInv => OutcomeIsEarned
  BY DEF NetworkInv, OutcomeInv
<1>. QED
  BY <1>1, NetworkIsSafe, PTL

\* The fee floor is the least whole rate that no quoted rate exceeds, or the largest there is.
THEOREM FloorsAreEnough == NetworkSpec => []FloorIsEnough
<1>1. NetworkInv => FloorIsEnough
  BY DEF NetworkInv, OutcomeInv
<1>. QED
  BY <1>1, NetworkIsSafe, PTL

=============================================================================
