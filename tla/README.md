# Puzzle71 solver: TLA+ models and proofs

The solver searches a fixed key range in random blocks on a GPU, keeps its
progress in a snapshot and a journal, writes a key it finds to disk, and offers a
local dashboard from which the owner, after a hit, claims the coins. These modules
model the parts of the program that keep state: the claim and its two ways to the
network, the checkpoint, the hit file, the control of the search, the dashboard and the
sharing of the claim between its threads, and the search of a block itself, from the
index of searched blocks down to the arithmetic. Paths below are relative to the
repository.

## 1. Inventory

| Component | State | Operations | Shares or calls |
| --- | --- | --- | --- |
| Claim service, `src/claim/service.rs`, `policy.rs` | phase, pending marker in memory, `CLAIM_SUBMITTED.json`, two poll counters | new, on_verified_hit, prepare, confirm, poll | Esplora and Slipstream clients, builder, verifier; always called under the claim mutex |
| Claim access, `src/web/server.rs`, `main.rs` | claim mutex, claim snapshot, hit status | init_claim_service, poll thread, current_claim_snapshot, with_claim_service | one thread per HTTP connection, the poll thread, the main thread |
| Checkpoint store, `src/search/store.rs`, `checkpoint.rs` | covered blocks, recheck cursor, runtime, poison flag; snapshot file and journal | initialize_recheck, open, complete_block, persist_runtime, compact | called by the main thread alone |
| Duplicate filter and recheck plan, `src/search/duplicate_filter.rs`, `recheck.rs` | interval list, Bloom bits; the plan's intervals and cumulated lengths | insert, insert_range, is_scanned, mark_scanned, from_intervals, block_at, is_covered_by | used by the store and the choice of blocks |
| Hit persistence, `src/hit_handler.rs`, `claim/key.rs` | staged path, descriptor, installed path; key files | verify, persist, recover_staged_hit, find_verified_found_key | main thread; directory shared with other programs |
| Solver control, `src/main.rs`, `web/server.rs`, `search/block_progress.rs`, `profile.rs` | the current block and its progress, is_running, mode, duty, hit, last_error, signal flag | main loop, /api/start, /api/stop, /api/mode, SIGINT/SIGTERM | store, hit persistence, web threads |
| Coin selection, `src/claim/policy.rs`, `prevout.rs` | none | select_prevouts, verify_prevout | prepare and confirm |
| Esplora client, `src/claim/net/esplora.rs` | cache of raw transactions: map, order, bytes | fetch_verified_prevouts, load_raw_tx, insert | called by prepare and confirm under the claim mutex; two public servers |
| Builder and verifier, `src/claim/builder.rs`, `verify.rs` | none | build and sign, verify | confirm |
| Address, code word, secrets, `src/claim/destination.rs`, `code.rs`, `memory.rs` | none | parse, compare, wipe | prepare and confirm |
| Slipstream client, Telegram, `src/claim/net/slipstream.rs`, `telegram.rs` | none | fee_floor_sat_vb, submit, status, send_text | transport |
| HTTP transport and allow list, `src/claim/net/http.rs`, `allowlist.rs` | a curl process and its pipes for the time of a call | execute, is_allowed | curl, external services |
| Rehearsal, `src/bin/rehearsal.rs` | none | the same interface over a local node: submit, status, fetch_verified_prevouts | Bitcoin Core |
| Web server, `src/web/server.rs` | request buffers, the self-test flag | read_http_request, the checks, the routes | handlers named above |
| Metal engine, CPU engine, `src/metal_engine/`, `src/crypto/cpu_engine.rs` | GPU buffers | dispatch_exact, scan, self_test | main loop |
| Crypto, `src/crypto/` | none | limbs, field, curve, hashes, Base58 | engines, addresses |
| Choice of a block, `src/search/rng.rs` | none | get_secure_uniform_u128, select_random_block_start | main loop |
| Power, CLI, terminal, benchmark, page, macOS wallet, scripts | none that outlives a call, or display only | | |

### How they interact

The main thread selects a block, dispatches parts of it to the GPU, and reports a
finished block to the store. HTTP threads change `is_running`, the mode and the duty
through `SharedSolverState` while it does so; a signal sets a flag that the loop
reads. A hit ends the search; the key is retried onto disk until it is there, then
the claim service is put into the claim mutex and the poll thread is spawned. HTTP
handlers only *try* that mutex; the poll thread waits for it; a status that finds it
taken answers from the snapshot.

### What is hard about it

* **Crash and power loss**: three sets of files (marker, checkpoint, key) are changed
  by chains of system calls, each of which may fail, be cut off or be undone by a
  power loss when it was not synced.
* **Ambiguity**: a submission that gets no answer may have been accepted. The program
  may neither send something else nor forget it.
* **Interleaving**: dashboard, main loop, poll thread and signal share atomics and
  mutexes that are taken one at a time; mode, run flag, error and hit can change
  between any two of them.
* **Retries for ever** and calls that hang with the claim mutex held.
* **Answers that are not what they seem**: from a proxy, cut off with a status line
  behind them, about another transaction.
* **Boundaries**: merging intervals, ordinals over cumulated lengths, threads of a
  dispatch with fewer keys, carries, padding, limits of buffers and pipes.

### What makes each component correct

* Claim: never two transactions out; what is out is recorded durably before the first
  byte and until it is really refused; only the confirmed preview goes out; receipts
  and rejections tell the truth; a mined or vanished transaction is reported.
* Store: every crash leaves files that open; nothing acknowledged is lost, nothing
  invented, nothing counted twice.
* Hit: once whole and synced, the key survives; "saved" means durable, and the returned
  name leads to the key; no partial file is taken for the key; foreign files are left alone
  (both but for a staging name that is replaced between its check and its use); a restart
  does not search on with the key in hand; a retry makes progress.
* Control: what is covered was searched in every part; the published duty is that of
  the mode; a signal always ends the process, with the key and the checkpoint saved.
* Dashboard: a request is read exactly, whatever pieces it comes in; a refusal has
  changed nothing; a status never goes back and is answered while an operation hangs;
  polling goes on.
* Network: a definite outcome was decided by the peer for this very call, everything
  else is ambiguous; the fee floor is no less than any quoted rate; only the requests of
  the claim leave the machine; a call returns and leaves no process behind (in the rehearsal,
  unless its node sends without an end).
* Coins: only what both sources list as confirmed is spent, each an output of the
  transaction that has the listed id, which pays the puzzle address, with the amount it has
  there; no other choice of them pays more; the verifier accepts no other choice or amount.
* Search: a block is skipped exactly if it was searched; a recheck visits exactly
  its archive; every key of a part is compared, and no other, before the part counts; the
  arithmetic is that of the curve; every block that is left is equally likely.

## 2. Modules

| Module | Models | Checked by |
| --- | --- | --- |
| `OneClaim` | abstract specification of the claim: write-ahead, one at a time | refined by `ClaimService` |
| `ClaimService` | claim service, marker file, provider, crash, power loss | `ClaimServiceMC`, `ClaimPollHistory`, `ClaimServiceProofs` |
| `ClaimAccess` | claim mutex, snapshot, poll thread, claim routes | `Dashboard`, `DashboardProofs` |
| `Dashboard` | connections: reading, checks, routes; with `ClaimAccess` behind them | `DashboardMC`, `DashboardProofs` |
| `AllowList` | permitted requests: operators | `CurlTransport`, `ClaimSourcesProofs` |
| `CurlTransport` | one request: curl process, pipes, limits | `ClaimNetwork` |
| `Submitter` | what the claim service is told, and what is the case at the peer | `ClaimNetwork` |
| `SlipstreamClient` | requests and answers of Slipstream and Telegram | `ClaimNetwork` |
| `RegtestClient` | the rehearsal's client of a local node, and that node | `ClaimNetwork` |
| `ClaimNetwork` | both clients with what answers at the other end | `ClaimNetworkMC`, `ClaimSourcesProofs` |
| `ClaimTransaction` | choice of coins, builder, verifier: operators | `ClaimInputs` |
| `ClaimInputs` | two sources, raw transaction cache, verified coins, the claim built from them | `ClaimInputsMC`, `ClaimSourcesProofs` |
| `CheckpointStore` | preparation of a recheck, snapshot, journal, compaction, replay | `CheckpointStoreMC`, `CheckpointStoreProofs` |
| `DuplicateFilter` | interval list, Bloom filter, plan lookup | `BlockSearch`, `BlockSearchProofs` |
| `U256`, `Secp256k1` | limbs and prime field; curve, batch of initial points: operators | `BlockSearch`, `ArithmeticProofs` |
| `Address` | padding and blocks of the hashes, Base58Check: operators | `BlockSearch`, `BlockSearchProofs` |
| `BlockSearch` | choice of a block, dispatches, threads, comparison, marking | `BlockSearchMC`, `BlockSearchProofs` |
| `HitPersistence` | key files, retry, recovery, foreign programs | `HitPersistenceMC`, `HitPersistenceProofs` |
| `SolverControl` | main loop, dashboard, signal | `SolverControlMC`, `SolverControlProofs` |

Each component is checked with the neighbours it calls reduced to their outcomes
(`ok` or an error, a version, an answer): the claim under its mutex is one version
counter in `ClaimAccess`, the store is a set of blocks in `SolverControl`, and what
those outcomes may be is what `ClaimService`, `CheckpointStore` and `HitPersistence`
model in detail. What `ClaimService` takes for granted of a receipt, a rejection and a
status is what `ClaimNetwork` shows of the clients.

### ClaimService

`phase`, `current`, `pending`, `misses` and `reason` are the enum `Phase` and its
fields; `memoryMarker`, `submittedTo` and `recoveryMisses` the fields of the service;
`disk` is the marker file as read now and `survivors` the contents a power loss may
leave. `prepare` and `poll` run under the mutex and are one action each, with one
disjunct for each way out. `confirm` is a chain (`step`): check and rebuild, write
the marker, send, answer, query after a rejection, write the rejection. `Kill` and
`PowerLoss` may fall between any two steps; `Start` models construction with a
readable or unreadable marker. `live` is what the network may still accept, `mined`
what the provider sees in the chain; both belong to the environment.

A transaction is a record of address, fee rate and inputs: signing is deterministic,
so these fix its id. Which coins are worth spending at a rate is a constant
(`Economic`), as is which sets of coins reach the expected total (`Enough`).

Assumed of the outside: nobody else removes the marker; a first submission that is
answered "rejected" and is then unknown to the provider is not accepted later.

### ClaimTransaction and ClaimInputs

`SelectPrevouts` ranks the economic coins and takes the prefix that pays most, as the
code does; the reference definition is the best of *all* sets of coins. `Jump` is the
input count whose encoding takes two more bytes (253 in the code), so the payout of
growing prefixes may fall and rise again. `Built` and `Verified` are the builder and the
verifier, which chooses the coins again and wants the exact fee. The builder gives up when
the worst case of the size exceeds the limit (`IsTooLarge`); what a transaction really
measures depends on its signatures (`ActualSizes`), and the verifier weighs that. So near the
limit the verifier would accept a transaction the builder does not make;
`VerifierAcceptsOnlyBuilt` names that case.

`ClaimInputs` is one fetch after another: both lists (`FetchLists`), one raw transaction
at a time from the cache, the first or the second source (`LoadCached`, `LoadFetched`,
`LoadFails`), the verification of every coin, then `Build`. The bytes of a transaction are
modelled by which transaction they are, since an id is a hash; a list may name an id that
belongs to no transaction. `Outputs` has transactions of the chain and made-up ones, which
the code cannot tell apart: bytes that hash to the id are enough. Two sources that list
and serve the same made-up transaction are therefore believed, in the code as in the
model, and `CoinsAreAgreedAndExact` claims no more than agreement and exactness. A source
that is not in `reliable` may answer with any transaction or with nothing that is one. The
three fields of the cache are kept apart, as in the code, and eviction drops from the
front until number and size fit.

### CheckpointStore

`snapshot`/`snapshots` and `journal`/`journals` are each the file as read now and the
set of contents that may survive a power loss. `save_atomic_json` (write, sync,
rename, sync directory) is `SaveDurably` or `SaveFails`, whose survivors include the
old and the new file. A journal is its header line, its lines, and perhaps a torn
one. Compaction is the chain snapshot, truncation, header, because the process may
stop between them. `open` replays the journal over the snapshot (`Replayed`) with the
code's ordering checks; `Opens` is the condition under which it does not refuse. A
failing append poisons the store. `initialize_recheck` is `Prepare` (the snapshot of the
copied history) and `CreateJournal`; stopped in between, the scope is refused by
preparation and by opening until its owner clears it, so the runs do not check for
deadlock. A temporary file that a failed save leaves, which also refuses a second
preparation, is left out. `FsyncKeepsName` says whether syncing a file also
makes its new name durable, as the journalling file systems in use do; the run
`checkpoint_name` looks at one where it does not. `LateCompaction` says that what a start
has replayed has reached the disk before the first compaction: the code compacts an
hour after the start, or once the journal has 1 MiB, and only a journal that has them at
the start can be compacted before any append syncs the replayed lines (`checkpoint_gap`).
Power may be lost while the process is down as well, right after a kill. `complete_block` for a block that
is already covered and not rechecked records runtime only, and is the action
`PersistRuntime`.

### HitPersistence

Names and files (inodes) are separate; `dir`/`dirs` and `data`/`datas` hold the current
and the possible surviving state of each. One attempt of `persist` is a chain of system
calls (`step`), each of which may fail and end the attempt; the main loop retries. Foreign
programs may put or remove files at any name between two calls, `MaxForeign` times, except
under the installed name during an attempt. The check of the staging name
(`owns_staged_path`) and the call that uses it are two steps, `CheckLink` and `Link`,
`CheckUnlink` and `Unlink`: what is there by then is linked or removed, whosever it is.
The code says that it does not defend this window (`hit_handler.rs:133`). `raced` is
history: in which of the two windows the staging name was touched. `KeySurvives` speaks of
the returned name, and `ForeignIsLeftAlone` of a foreign file at the staging name, where
it was not. That a whole record stays on the disk is claimed as long as no other program
has taken one of ours away (`spoiled`). A hard link is two names of one file.
`IsRecoverable` is what a restart accepts as a staged key.

### SolverControl

`pc` is where the main thread is between two of its accesses to shared state; one
dispatch is one step; a block has `Parts` parts and a dispatch covers `Batch[mode]` of
them. The store is its coverage, cursor, recorded runtime and poison flag, and each
call may fail. `/api/start` is three steps per handler, as the code reads the hit, then
the error, then stores the flag; `/api/stop` and `/api/mode` are atomic as in the code,
where `request_mode` holds the mode's lock while it publishes the duty.
`CHECK_DEADLOCK FALSE` in its configurations: the process exits.

### ClaimAccess and Dashboard

`slot` is the version of the service in the mutex, `snapshot` the version shown,
`holder` the thread in the mutex. A panic while a thread holds it poisons it; every
later user takes the content all the same. `known` and `answered` are history: what
had been answered when a request came.

`Dashboard` puts the connections before it. A request is a record of what the checks
look at, with sizes instead of bytes; `received` grows by pieces of at most `Buffer`
bytes, and after each the loop of `read_http_request` decides with what it has
(`IsWhole`, `IsRefused`). `Admission` is the chain of checks of host, origin and type in
their order; each route is an action, the claim routes are those of `ClaimAccess`. A peer
may stop at any byte, or send nothing at all, until the read times out. `acted` is
history: whose request has changed something.

### AllowList, CurlTransport, Submitter, SlipstreamClient, RegtestClient, ClaimNetwork

A URL is a sequence of pieces, so that a host that only begins like a permitted one, a
user name or a longer path can be told apart without characters. `CurlTransport` counts
bytes: the configuration goes through one pipe, the answer with its status line through
another, each holds `Pipe` bytes, and curl reads all of its input before it connects. It
may end with an error after any part of an answer, which it then writes out with a
status line all the same, or be killed. `KillAndReap` is the way out of every error of
the reader.

`Submitter` holds the interface both clients implement and the world behind it: what has
left the machine (`submitted`) may be taken later although nobody waits for it, what is
`known` may be forgotten or mined. `decision` is history: what the peer decided or saw for
the running call. A Slipstream answer is a record of the JSON members the client reads;
`ClaimNetwork` lets the peer take, refuse or miss a submission and a proxy answer for it.
The node of the rehearsal answers question by question over connections of their own
(`rpc`, `reply`), each of which may break after the node has acted; it may be on a wrong
chain, which stays the same for a run: that another node takes over between the question
for the chain and the submission is not modelled. An answer may also be `Endless`: the
client has a timeout for each read and no deadline or limit for all of them, so a node
that keeps sending keeps the call. `backend` is which of the two clients the process has.

### DuplicateFilter and BlockSearch

The operators of `DuplicateFilter` are translated from the code (partition points,
merging, cumulated lengths) and are compared with the set of blocks the lists stand for.
The Bloom filter is a set of bits with hash functions that collide, so wrong "maybe"
answers occur.

`U256` keeps the limbs, carries and foldings of the code for any number and size of
limbs. `Secp256k1` keeps the formulas and special cases of the curve over numbers modulo
the prime, and `FieldIsExact` (part of `ArithmeticIsExact`) shows for every operand that
the limbs compute these numbers. `Address` keeps the padding, block boundaries,
endianness and buffer sizes; the compression functions are abstract: a state is the list
of blocks that went in. `BlockSearch` passes the self-tests of the CPU and of the GPU and
then searches one block after another: the main loop takes a batch for the mode of the
moment, threads compare their candidates in any order, a thread whose candidate hits
writes the result and stops, the CPU confirms it, and a restart may come between any two
steps. The GPU kernel does the same arithmetic in limbs of 32 bits, which is not modelled
apart from this.

## 3. Runs

| Run | Configuration | Distinct states | Shows |
| --- | --- | --- | --- |
| `claim` | `ClaimService.cfg` | 23,367 | safety, refinement of `OneClaim`, reporting of mined and missing transactions |
| `claim_poll_history` | `ClaimPollHistory.cfg` | stops at the violation | finding 1 |
| `claim_inputs` | `ClaimInputs.cfg` | 2,277 | agreed and exact coins, the cache, the best choice, the verifier |
| `checkpoint_crash` | `CheckpointStore.cfg` | 85,419 | crash safety of the store and of its preparation |
| `checkpoint_name` | `CheckpointName.cfg` | stops at the violation | finding 2 |
| `checkpoint_gap` | `CheckpointGap.cfg` | stops at the violation | finding 3 |
| `hit` | `HitPersistence.cfg` | 20,087 | crash safety of the key file, and the retry saves the key |
| `solver` | `SolverControl.cfg` | 231,142 | control of the search, its end and its pauses |
| `solver_status` | `SolverControlStatus.cfg` | stops at the violation | finding 4 |
| `dashboard` | `Dashboard.cfg` | 171,890 | reading, refusals, snapshot, status and polling |
| `block_search` | `BlockSearch.cfg` | 58,173 | the search of blocks, its index and its arithmetic |
| `claim_network` | `ClaimNetwork.cfg` | 446,441 | outcomes, fee floor, responses, permitted requests, calls that return |

Every property of a passing run has a mutant: an operator marked `FAULT` in the
module, a plausible slip in the code it stands beside, under which the property fails.
`PROJECT.json` lists them.

### Bounds and why they are enough

* `claim`: two addresses (a second claim needs one), three coins (one needed for the
  expected total, one that may appear, one worth spending only at the lowest rate), two
  fee rates and floors below, between and above them, three polls until a transaction is
  missing (first, one in between, last). No bound on crashes, retries, prepares
  or confirmations: the state is finite without one. `ClaimPollHistory.cfg` has one
  address and two coins, all that its one property needs.
* `claim_inputs`: five transactions, one of them made up, of which the cache holds two at
  most and not the longest (both eviction limits and the refusal occur); two rates: at one
  the second coin alone does not raise the payout and the third does, and five are
  too large in the worst case and not with short signatures; twelve lists: true, foreign
  output, wrong amount, missing output, made-up and missing transaction, two amounts of one
  output, unconfirmed.
* `checkpoint_crash`: up to three blocks, six scopes (new, with history, target list
  of two, target list of three with a covered block, archive, archive that its history
  lacks), runtime 0 or 1. Three journal lines are enough for a replayed line before, at
  and after the snapshot's, and three targets for a gap between two ordinals.
* `hit`: two staging names (a restart while one is taken), two final names (the first
  taken by someone else), two files (one of ours and a foreign one, or one of an earlier
  life), two foreign acts (put and remove, or two names). No symmetry, since the run
  checks liveness.
* `solver`: two blocks of two parts, one mode that takes one part per dispatch and
  one that takes two, new search, recheck of an uncovered and of a covered block; one
  `/api/start` at a time, any number of stops and mode changes.
* `dashboard`: two connections and two versions of the snapshot: one connection that works
  (every way to be refused, bodies and headers below, at and above small limits, the
  self-test) and one whose status or self-test overlaps it. The requests of `Slow` arrive in
  any pieces, so every boundary is cut; the others arrive at once.
* `block_search`: four blocks of eight keys, every set of them and every way to cut it
  into intervals that touch or not; three Bloom bits, saturated by more than two blocks;
  three limbs of two bits with the prime 61, over which the curve has 61 points: every
  element, every double-width product and every point is compared; two threads with
  three steps and three with one, so that a block ends within a thread, and batches of two
  points; targets at the first key, at the end of a short thread and beyond the range. Byte
  strings of up to 130 bytes for the padding.
* `claim_network`: two transactions (an answer may be about the other one), a pipe of two
  bytes with a limit of three, bodies within, at and above it, eight quotes, ten requests
  that are permitted, almost permitted or not; one height, two outputs at the node.

### Fairness and why the code justifies it

* `ClaimService`: a confirm runs on by itself (weak fairness of its steps). The poll
  thread polls every 60 seconds and waits for the mutex (strong fairness of a poll that
  gets an answer; a poll whose query fails changes nothing). Owner, crash and network
  have none.
* `HitPersistence`: `wait_for_hit_persistence` retries for ever; weak fairness of the
  attempt, strong fairness of success for each kind of call (create, write, sync a file,
  sync the directory, check the name, link, unlink): storage may fail any number of times,
  but a call that is tried again and again succeeds some time. `HitIsSaved` excludes the
  cases in which it cannot: a foreign file stays under the installed name, or all
  names or files of the model are taken.
* `SolverControl`: the main thread runs, and saving a hit succeeds some time. Requests
  and the signal have no fairness.
* `Dashboard`: connections run on, the socket's read timeout ends a read, but the calls of
  the service are not fair: one may hang for ever with the mutex held, and
  `RequestsAreAnswered` still holds. `PollsGoOn` carries its own assumption, `CallsEnd`: calls
  end, and a thread blocked on a mutex gets it in the end.
* `ClaimNetwork`: the program and curl run on, and curl gives up after `--max-time`, so a peer
  that never answers has no fairness. A read from the node ends with its timeout (weak
  fairness of `NodeNotReached`), but an `Endless` answer does not, and `CallsReturn` leaves it
  out. Death of curl, the peers and the network have none.
* `BlockSearch` has safety properties only.

## 4. Proofs

Eight modules hold theorems, about every value of the constants that their named
assumptions allow. Each one rests on an inductive invariant that a run of TLC checked
first; its `...Step` theorem or lemma has one step per action. The assumptions say
which type a constant has and that `None` is none of the values it stands beside;
where they say more, that is named below.

### The claim

`ClaimServiceProofs`, for every set of addresses and coins, every table of economic
coins, every fee floor and every number of polls (`ClaimAssumption`):

| Theorem | Statement |
| --- | --- |
| `TypeCorrect` | `Spec => []TypeInv`: `TypeOK`, and what a running confirm and a prepared phase know |
| `Safe` | `Spec => []SafeInv`, the inductive invariant |
| `OneTransactionOut` | `Spec => []SingleLive` |
| `OutIsGuarded` | `Spec => []DurableGuard` |
| `OnlyPreviewsAreSent` | `Spec => OnlyConfirmedPreviewIsSent` |
| `Told` | `Spec => []OwnerInv`: memory and screen against what is out |
| `GuardIsWatched` | `Spec => []WatchedGuard` |
| `OwnerIsTold` | `Spec => []OwnerIsToldTheTruth` |
| `Implements` | `Spec => ImplementsOneClaim`, the refinement of `OneClaim` |

`SingleLive` alone is not inductive: a confirm that is past its check could send while
something else is out. `SafeInv` adds what rules this out.

1. `DurableGuard`: every content the marker file may have after a power loss is the
   pending marker of what is out; so the check of a later confirm, which reads `disk`, one
   of those contents, finds it.
2. `Steered`: a confirm that has passed the check works on the only transaction that
   may be out, and from the write on the marker it wrote is the only survivor.
3. Types: `claim` is the prepared transaction and has the address the owner asked for.

`OwnerInv` adds, over `SafeInv`, that the marker in memory is that of the claim it guards
(`MemoryIsClaim`, from which `WatchedGuard` follows; a start that cannot read the marker
guards nothing in memory, and `WatchedGuard` says nothing of it) and that what the screen
says of a transaction was true when the provider said it and still is (`ReceiptIsTrue`).
For the refinement, `OutIsRecorded` turns the invariant into the abstract record;
`QuietStep` covers every step that leaves `live` alone, `SendRefines` the first outbound
byte, `RejectionRefines` the refusal. `OtherStepsAreQuiet` says that no other step changes
`live`.

### The coins

`ClaimSourcesProofs`, for all transactions, every set of lists, both sources and every size of
the cache (`SizeAssumption`, `InputsAssumption`):

| Theorem | Statement |
| --- | --- |
| `FetchIsSafe` | `Spec => []IInv`, the inductive invariant |
| `CoinsAreSafe` | `Spec => []CoinsAreAgreedAndExact` |
| `OneSourceIsEnough` | `Spec => []OneSourceSuffices` |
| `CacheIsAuthentic` | the cache holds under an id only the transaction with that id |
| `CacheIsSoundAlways` | `Spec => []CacheIsSound` |
| `OnlyBuiltIsAccepted` | `Spec => []VerifierAcceptsOnlyBuilt` |
| `BestIsSelected` | `Spec => []SelectionIsBest` |

`IInv` adds to the properties that everything loaded or cached was recognised by
its id (`Recognised`), that both lists agree as long as something rests on them
(`FetchKnown`), and that nothing is accepted outside a finished fetch (`AcceptedKnown`).
`CacheInv` says that the queue of the cache names each of its transactions once; `ClaimInv`
that accepted coins are finitely many and that what was built is what these coins give.
`VerifiedIsChosen` and `BuiltIsChosen` say that both sides come to the same inputs and
amount, whatever the signatures measure.

Bytes and values are sums, which the code accumulates and the model folds over a set.
`NoDescent` takes the place of induction: a set of sets from each of which one can go down to
a smaller one does not exist, so no set is the first whose sum is wrong (`FoldIsSum`).
`RankedIsRanking` shows that the coin with `n - 1` coins before it is the `n`-th,
`PrefixIsWorthMost` that of all sets of as many coins the first ones are worth most, and
`SelectionPaysMost` adds that a coin not worth its fee never helps (`EconomicPaysMore`): so
no set pays more than the best prefix, wherever the encoding of the input count grows. Lists are finite (`InputsAssumption`).

### The network

`ClaimSourcesProofs`, for all transactions, rates, limits, pipes and sizes of bodies:

| Theorem | Statement |
| --- | --- |
| `NetworkIsSafe` | `NetworkSpec => []NetworkInv`, the inductive invariant |
| `ResponsesAreExact` | `NetworkSpec => []ResponseIsExact` |
| `NothingElseLeaves` | `NetworkSpec => []OnlyPermittedLeaves` |
| `OutcomesAreEarned` | `NetworkSpec => []OutcomeIsEarned` |
| `FloorsAreEnough` | `NetworkSpec => []FloorIsEnough` |
| `AllowedExactly` | a request of the claim or of another caller is allowed exactly if it is the claim's |

The invariant follows a request. `StageInv` ties the stage of `execute` to its process;
`BytesInv` counts what curl has still to write, what is in the pipe and what was read:
their sum is the answer with its status line if curl ends well, and never more, so a
reader that finds the pipe empty behind a curl that has ended well has all of it.
`RequestInv` says that a process exists only for a permitted request; the lemma under it
(`AllowedExactly`) is about the parser: a URL is allowed exactly if it is `https`, one of
the four hosts and one of that host's paths. `AnswerInv` is the heart of
`OutcomeIsEarned`: as long as a call runs, an answer that would be parsed as definite
agrees with the decision of the peer, whoever sent it. It is stated for what the parser
looks at (`SubmitFits`, `StatusFits`, `FloorFits`, `AlertFits`), so that the lemmas about the
parser and those about the peer meet in it. `QuestionInv` and `ReplyInv` are the same for
the rehearsal, question by question; `CallInv` keeps decisions out of calls that have
returned.

Assumed beyond types: ids of different transactions differ (`SlipstreamAssumption`: they
are hashes); no id or bot token is one of the texts that make a URL unusable
(`AllowListAssumption`: they are hex digits, or letters, digits, colon, dash and
underscore); a quoted rate is a number of halves or no number (`RatesAssumption`);
what stands for an absent member is no member (`AbsentAssumption`); a body has at least
one byte (`AnswerAssumption`).

### The checkpoint

`CheckpointStoreProofs`, for every finite set of blocks, every set of scopes and any
number of crashes (`StoreAssumption`, `NoneAssumption`):

| Theorem | Statement |
| --- | --- |
| `StoreIsSafe` | `Spec => []StoreInv`, the inductive invariant |
| `NothingIsInventedAlways` | `Spec => [](NothingIsInvented /\ CountMatchesCoverage)` |
| `RecoveryIsExactAlways` | `FsyncKeepsName => (Spec => []RecoveryIsExact)` |
| `EveryCrashOpensAlways` | `FsyncKeepsName /\ LateCompaction => (Spec => []EveryCrashOpens)` |

The properties speak of the pairs of files a power loss may leave, and a replay of each.
So does the invariant: `Cov`, `Cur` and `Run` are what a snapshot with a sequence of
lines shows, `Files` says that every surviving snapshot shows the present progress with
the present lines and that no pair shows more, `Kept` that none shows less than was
acknowledged. The steps of the store are then five changes of such sets: survivors
are dropped, a line is appended, the snapshot is renewed, the journal is cut, one pair
is picked. The last two theorems have as hypotheses the constants whose other values are
findings 2 and 3: without them the statements are false, and the runs `checkpoint_name`
and `checkpoint_gap` show it.

For `EveryCrashOpens` that is not enough, since a replay may refuse what it shows.
`AcceptedInv` adds that every pair passes the checks of the replay, that the next line
would follow it without a gap, and that the targets it passes are covered; `PreparedInv`
that both files are there once the preparation was acknowledged.

### The hit

`HitPersistenceProofs`, for every number of staging names, saved names, files and foreign
acts (`HitAssumption`):

| Theorem | Statement |
| --- | --- |
| `HitIsSafe` | `Spec => []IInv`, the inductive invariant |
| `KeyIsKept` | `Spec => []KeySurvives` |
| `KeyIsWhole` | `Spec => []NoPartialKey` |
| `KeyIsFoundAgain` | `Spec => SearchDoesNotResume` |
| `ForeignIsSafe` | `Spec => ForeignIsLeftAlone` |

`KeySurvives` needs to know at each system call what a power loss would leave:
`StagingIsOrdered` (a complete staging file is synced before it is linked), `ChecksHold`
(from its check to its use the staging name leads to our file, unless `raced` says
otherwise), `InstalledIsWhole` (the installed name is durable before the staging name is
removed), `OwnedIsOurs` and `ForeignIsDurable` (which files are whose).

### The search's control

`SolverControlProofs`, for every finite set of blocks, every number of parts, table of
batches, start coverage and plan, and any number of connections (`ControlAssumption`):

| Theorem | Statement |
| --- | --- |
| `TypeCorrect` | `Spec => []TypeInv` |
| `DutyIsTrue` | `Spec => []DutyMatchesMode` |
| `SearchIsComplete` | `Spec => []CoveredWasSearched` |
| `ExitIsSafe` | `Spec => []ExitIsComplete` |

Even the types need an argument: the runtime counts dispatches, and is bounded only
because the block at hand is a new one (`BlockIsSelected`, `ActiveIsBounded`). `SearchInv`
adds that what counts as done was searched and does not hold the key (`DoneWasSearched`).
`ExitInv` adds that a verified key waits only on the way to the loop that saves it, that
nothing is recorded after the final checkpoint, and that a finished block that was not
recorded is an error that is shown.

### The dashboard

`DashboardProofs`, for every set of connections and of requests, every cut into pieces and
every number of operations (`AccessAssumption`, `ErrorsAssumption`):

| Theorem | Statement |
| --- | --- |
| `AccessIsSafe` | `DashboardSpec => []AccessInv` |
| `StatusIsMonotone` | `DashboardSpec => []StatusNeverGoesBack` |
| `DashboardIsSafe` | `DashboardSpec => []DashboardInv`, the inductive invariant |
| `RequestsAreReadExactly` | `DashboardSpec => []ReadingIsExact` |
| `AnswersAreEarned` | `DashboardSpec => []AnswersAreTrue` |

`AccessInv` orders the versions: what a connection knew is no newer than what was answered,
that no newer than the snapshot, that no newer than the service. It is proved about
`AccessNext`, of which every step of the server is one (`ServerSteps`). `ReadingInv` says
how much of a request has been read at each place of its handling, `ActingInv` what it may
have changed there.

### The search

`BlockSearchProofs`, for every number and size of blocks, valid history and archive, set of
hash functions of the filter, grid and width of the random numbers (`FilterAssumption`,
`SearchAssumption`):

| Theorem | Statement |
| --- | --- |
| `IndexIsKept` | `SearchSpec => []IndexInv`, the inductive invariant of the index |
| `IndexIsExactAlways` | `SearchSpec => []IndexIsExact` |
| `RecheckIsExactAlways` | `SearchSpec => []RecheckIsExact` |
| `ChoiceIsFairAlways` | `SearchSpec => []ChoiceIsFair` |
| `SearchIsExactAlways` | `SearchSpec => []SearchIsExact`, given `HashesAreApart` |
| `ArithmeticIsExactAlways` | `SearchSpec => []ArithmeticIsExact`, given `HashesAreApart` |

`IndexInv` says that the list is valid, stands for what has been searched and is known to
the filter. What changes a list is a splice (`IsSplice`): some neighbouring intervals give
way to one. `SpliceHolds` and `SpliceValid` say once what a splice holds and when it is
valid; each branch of `InsertBlock`, and each turn of the joining of `InsertRange`, is
one of them. The lists are folded: `FoldExists` gives a function with the equations of a
fold over `1 .. n`, and the lemmas `...Unfolds` turn `Consolidate`, `BlockCount` and
`Walk` into a sequence of turns, about which a least counterexample is refuted
(`LeastExists`). The plan's ordinals grow by the length of each interval (`OrdinalEnds`),
so a binary search finds the one an ordinal lies in (`BlockAtLies`); the walk of
`IsCoveredBy` never has to go back because the plan ascends (`WalkIsExact`). The random
numbers that give a block are those that give block 0, shifted (`DrawsShift`).

`SearchInv` says of a running dispatch that its grid has a place for each of its keys,
that what its threads are through with has been tried, and that a reported place is that of
the target. Quotient and remainder by the steps of a thread give the place of a key
(`PlacesAreKeys`), and the grid fits the mode (`PartOf`), so a dispatch that has ended
without a result has tried each key. That the points computed for a
dispatch are those of its keys is a theorem of `ArithmeticProofs` (below). The one
hypothesis left, `HashesAreApart`, says that no other key has the hash of a key that is
searched for. It cannot be proved of the real hash; a key that shares the hash would be
reported as well, and its address is the same.

### The arithmetic

`ArithmeticProofs`, for every number and width of limbs, every prime `Base^Limbs - Factor`,
every curve `y^2 = x^3 + 7` over it with a generator, every grid and every batch size
(`LimbAssumption`, `FieldAssumption`, `GeneratorAssumption`, `GroupAssumption`,
`TestAssumption`):

| Theorem | Statement |
| --- | --- |
| `FieldIsExactAlways` | `FieldIsExact`: the limbs compute the numbers modulo the prime |
| `BatchInversionIsExact` | an inversion shared by a batch is that of each of its points |
| `AddAffineIsExact`, `AddJacobianIsExact` | the sum of points, in every special case |
| `ScalarMulIsExact` | doubling and adding gives the multiple of the generator |
| `DispatchesAreExactAlways` | `DispatchesAreExact`: the points of a dispatch are those of its keys |
| `CurveIsExactAlways` | `CurveIsExact`, given `HashesAreApart` |

Assumed of the constants is what makes them a field and a group: each element but 0 has an
inverse; the generator is on the curve; its multiples are as many as its order says and are
added like numbers. Two more are assumptions on numbers alone: a fold of the
reduction makes a number shorter (`Factor` is one limb), and the self-test's grid lies in
the range. TLC evaluates all of them on the run's curve.

What the model defines by recursion is unrolled by three facts that are each proved from a
least counterexample: a property of 0 that passes from each number to the next holds up to
`n` (`InductionTo`); a function with the equations of a recursion exists
(`RecursionExists`) and is the only one (`RecursionIsUnique`). With them a fold is a
sequence of partial results, and the invariant of the loop is what is shown of each.

* *Limbs.* `Amount` is what the first digits of a sequence are worth. Each loop of the code
  keeps one equation between amounts: what the finished limbs amount to, and the carry
  at its place, is what the operands amount to so far (`CarryIs`, `SubBorrowIs`, `RowIs`).
  The product is a double row of such equations (`MulWideIs`). Each fold of `Reduce512`
  leaves the remainder alone and makes the number smaller, the third leaves no more than one
  overflow (`FoldsAre`), and one subtraction ends it. `FieldPowIs` follows the bits of the
  exponent; that the power `p - 2` is the inverse takes Fermat's theorem, proved here by
  reordering a product of all elements (`OrderDoesNotMatter`, `Fermat`).
* *Points.* Jacobian coordinates stand for a point if it is theirs divided by powers of
  the third (`JacobiansOf`). The formulas are then identities between polynomials over
  the integers, reduced once at the end (`El`). The code's special cases are the places
  where a divisor vanishes.
* *Dispatches.* A walk of `n` steps is the sum with the `n`-th multiple
  (`WalkStandsFor`); flattening batches gives the points in order (`FlattenIs`,
  `BatchEnds`), whatever is left for the last batch.
* *Curve.* A line through two points of the curve meets it in a third
  (`LineMeetsCubic`, `ThirdIsOnCurve`), so all multiples are on it.

### The address

`BlockSearchProofs`, for every curve, range of keys and length of the samples, when the
coordinates of a point fit 32 bytes (`CompressedAssumption`) and the target is one of the
numbers (`TargetAssumption`):

| Theorem | Statement |
| --- | --- |
| `PaddedStateIs` | a message of any length is padded as `IsPadded` says |
| `DecodesBack` | `B58Decode(B58Encode(s)) = s`, for strings of at most 128 bytes |
| `DecodesApart` | no two strings of at most 194 digits decode alike |
| `AddressIsExactAlways` | `SearchSpec => []AddressIsExact`, given `ChecksumsTell` |

The message with its end and its length is one sequence (`Message`), and what goes
into a state is its pieces of 64 (`PaddedIs`), whether or not the length needs a block
of its own; the one-block forms for 33 and 32 bytes are the only piece of theirs
(`ShortShaIs`, `ShortRipemdIs`). A conversion between bases keeps the number it stands for: a
multiplication carries on until nothing is left (`TimesPlusIs`), so the digits after each
turn are the numeral of what was read (`ConvertedIs`), and two numerals of one number
are the same (`NumeralsAreApart`). That the digits fit the buffers compares powers: 256^n
against 58^m for the 138/100 of the encoder, and back for the 733/1000 of the decoder
(`EncodedFits`, for every length; `DecodedFits`, for at most 194 digits, far more than
the 34 of an address). Zeros in front are counted apart and written back as they were (`WrittenOnce`).

That an address with one altered character is refused rests on what no proof about digits
can give: an altered address must not have, by accident, the checksum of its own data. The
hypothesis `ChecksumsTell` says just this of the altered addresses of the run: a checksum
that matches is that of the same data. It is a part of `AddressIsExact`, so TLC checks that
the run's hash has it; that another string of digits cannot decode to the same
data and checksum is proved.

### What is only model-checked

* Liveness: the provers know nothing of fairness and `ENABLED`.
* The `TypeOK` of modules without proofs documents their variables.

## 5. Findings

1. **Polls of a former attempt count against a retry** (`claim/service.rs:683`).
   `recovery_not_found_polls` is not reset when the same claim is submitted again, so
   the retry can be reported missing after one poll; the constant's comment
   speaks of consecutive polls over about 30 minutes.
2. **The journal's name may never be synced** (`search/store.rs:513`). If the
   directory sync after the header fails or the process is killed before it, the next
   start finds the header and nothing ever syncs the directory. It matters only where
   syncing a file does not persist its name.
3. **A compaction of lines that were never synced can lock the store**
   (`search/store.rs:549`). A start replays complete lines that were never synced. If the
   journal has 1 MiB by then, the next runtime update whose runtime has not changed
   compacts without having appended, and the snapshot counts their blocks. A
   power loss before the truncation reaches the disk leaves the new snapshot and the old
   journal without those lines; the next completed block is appended behind the gap, and
   every later start refuses the journal, because an ordinal must follow the one
   before it in the file even where the snapshot has counted the missing one. No block is
   lost, but the owner has to repair files by hand, while `search/checkpoint.rs:6`
   promises "Clean recovery on crash or shutdown". It takes a recheck of three targets or
   more. The gap is what `EveryCrashOpens` needs `LateCompaction` for.
4. **"Running" after the end** (`web/server.rs:409`). A start request that read hit and
   error before the search ended stores `is_running = true` after it, and the final status
   says "running" until the process exits.

Two observations that contradict no document:

* A line of the journal that was complete but never synced is replayed and counted by
  the next start (`search/store.rs:568`); a power loss may still take it, and its block is
  searched again. What a compaction makes of such a line is finding 3.
* The rehearsal takes -25 and -27 of its node for a rejection (`bin/rehearsal.rs:554`),
  also when the node has the transaction in a block already; its test pins this. A real
  rejection of Slipstream does not have that ambiguity, so `OutcomeIsEarned` names the case.

## 6. Not modelled, and why

* Signatures and serialisation of the transaction, the rounds of the two hash
  functions: pure functions on words, covered by vectors and cross-validation. The limbs of
  32 bits of the GPU kernel, and the Metal API.
* The text of answers, alerts and rejections, the JSON of the status, the browser page.
* Destination, code word and the wiping of secrets: pure validation, or an effect no state
  shows.
* Power sampling and the smoothing of the duty, command line, terminal, benchmark, macOS
  window, scripts; of the rehearsal its arguments and key file.
* A panic inside `poll` itself (`main.rs:642`) ends the poll thread for good; `PollsGoOn` is
  stated for a thread that is alive.
* The lock file that keeps a second process out is one system call.

## 7. Plan

Done, in this order: claim service with its abstract specification; its proofs;
checkpoint store with the preparation of a recheck; hit persistence; solver control;
claim access; duplicate filter; coins, cache and the built transaction, with proofs; the
search of a block with its arithmetic; the dashboard; the claim's network; proofs about
hit persistence, solver control, the dashboard, the checkpoint store and the network;
proofs about the index, the recheck plan, the choice of a block and its search; proofs
about the limbs, the curve and the dispatches, and about the address.

Next:

1. Composition of `ClaimInputs` with the retry of `ClaimService`: the coins of the
   marker among those of a newer snapshot (`retry_prevouts`).
2. The plan file of a recheck and its source archive: what `load` accepts; the duty under
   AUTO with its smoothing.
3. Detail of `save_atomic_json` (temporary name, rename, directory) refining
   `SaveDurably`/`SaveFails`.
