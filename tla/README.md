# CHASE: a verification project in TLA+

CHASE is a blockchain execution layer. Narwhal and Tusk order batches of Ethereum
transactions; CHASE executes each ordered batch with deterministic concurrency
control (CDS) and, optionally, overlaps the execution and the persistence of
consecutive batches (EV-BLP). This directory follows a transaction from the
certificates of Narwhal to RocksDB: it models the parts where the order of steps
decides about correctness, model-checks them with TLC, and proves the main facts about
the pipeline, the recovery, the ordering and the synchronizer with TLAPS.

Paths below are relative to `src/crates/sslab-execution/` unless they start with
`narwhal/` or are named otherwise.

## The system and its parts

```
 narwhal/primary: synchronizer.rs <-> certificate_fetcher.rs  certificates, causal
                                          |
 narwhal/consensus: tusk.rs -> consensus.rs                  committed sub-dags
                                          |
 narwhal/executor: subscriber.rs                             ordered outputs
                                          |
               stack/execution_state.rs  handle_consensus_output
                                          |
      chase/executor/chase_bridge.rs     P1 Order -> P2 Exec -> P3 Commit
            |                                 |            |
      pipeline/controller.rs        chase_core.rs      cache/two_level_cache.rs
      windows and weights      simulate, graph, CDS,      L1 -> L2 -> store
                               commit, re-execute          |
                                              |            |
                       cache_overlay.rs, layered_backend.rs, RocksDB
```

| Part | Source | State | Concurrency | Status |
|---|---|---|---|---|
| Pipeline bridge | `chase/src/executor/chase_bridge.rs`, `pipeline/ev_blp.rs` | three channels, batch ids, last completed batch | three tokio tasks per call | modelled, proved |
| Window controller | `pipeline/controller.rs`, `stages.rs` | windows, weights and counts per stage, atomics | shared by the three tasks | modelled, proved |
| Two-level cache | `executor/cache/*` | active and frozen L1 tables, L2, pending pages, store | exec and commit task | modelled, proved |
| Backend stack | `cache_overlay.rs`, `stack/src/layered_backend.rs`, `rocksdb_*.rs`, memory backend | visible batch, hydrated memory, RocksDB cells | read by P2, written by P2 and P3 | storage slots modelled |
| Conflict graph | `chase/src/address_based_conflict_graph.rs` | addresses with units, sequence numbers, aborted flags | chunks built and merged by rayon | modelled |
| CDS scheduler | `chase/src/cds_scheduler.rs` | chains and epochs | its output runs in parallel | modelled |
| Batch execution | `chase/src/chase_core.rs` | global state, effect collector | rayon threads | `_execute` modelled |
| Seer | `chase/src/seer/*` | pre-execution cache, perceptron weights | the threads of a simulation | cache modelled |
| Execution state | `stack/src/execution_state.rs` | last executed index in RocksDB | one caller, crashes | modelled, proved |
| Subscriber and executor | `narwhal/executor/src` | ordered downloads, two channels | three tasks, crashes | modelled, proved |
| Tusk, consensus task | `narwhal/consensus/src/tusk.rs`, `utils.rs`, `consensus.rs` | DAG, last committed rounds, stored sub-dags | arrival order, crashes | modelled, proved |
| Synchronizer, fetcher | `narwhal/primary/src/synchronizer.rs`, `certificate_fetcher.rs` | suspended certificates, gc round, targets | acceptor, collector, fetcher, peers, crashes | modelled except for own certificates, batches and votes; proved |
| EVM, validators, types | `evm/src/*`, `crates/chase-evm` | interpreter | none of its own | inputs of the models |
| Metrics, calibration, configuration | `pipeline/metrics.rs`, `calibration.rs`, `config.rs`, `runtime.rs` | counters nobody reads back, plain values | atomics | constants, or left out |
| Sui, Move, Bullshark, the rest of Narwhal | `sui-execution`, `crates/sui-*`, `narwhal/*` | | | not modelled, see below |

## Modules

| Module | Models |
|---|---|
| `PipelineController` | windows (`zeta`), backpressure weights, in-flight counts; `tick`, `can_push`, `on_batch_enter`, `on_batch_exit` |
| `DeltaRecords` | writes, delta records, key encoding, lookup of the last record of a key, `Overwrite` as the reference meaning of a write list |
| `TwoLevelCache` | L1 as one list of records cut into tables, L2, pending pages, the store; read path, `commit_batch` and flush entry by entry |
| `LayeredBackend` | visible batch, overlay read, hydrated memory, write-through to RocksDB with the zero convention |
| `EvBlpBridge` | composes the four: the order task, `exec_worker`, `commit_worker`, their channels, joins and failures |
| `SerialBatches` | the abstract specification: batches execute one after another on the state their predecessors left; inside a batch, second executions may see its own writes |
| `EvBlpInvariant` | the inductive invariant in layers |
| `SeqFolds` | the few operators on sequences that the scheduler is written with |
| `ConflictGraph` | construction in chunks, pairwise merging, address rank, hierarchical sort, reordering |
| `CdsScheduler` | extends it by waves, dependency chains, the panics, epoch placement |
| `ChaseCore` | extends it by the parallel commit, the effect collector, the second execution and its validation |
| `Seer` | the pre-execution cache between the batches |
| `Subscriber` | consensus store, subscriber, `run_notify`, execution state, crash and restart |
| `Tusk` | the ordering of a validator over a DAG, garbage collection, recovery |
| `Synchronizer` | acceptance of certificates, suspension, garbage collection, fetching, recovery |
| `MCEvBlpBridge`, `MCChaseCore`, `MCSeer`, `MCSubscriber`, `MCTusk`, `MCSynchronizer` | instances for TLC |
| `IntervalProofs` | induction and recursion over an interval, for the proofs below |
| `EvBlpBridgeProofs`, `EvBlpOrderProofs`, `EvBlpCacheProofs` | proofs about the pipeline: types and control; counts and order; cache contents and refinement |
| `SubscriberProofs`, `SynchronizerProofs` | proofs about the recovery and the synchronizer |
| `TuskCommitProofs`, `TuskProofs` | proofs about the operators of the commit rule, and about the ordering |

### The pipeline: state and actions

`opc`, `epc` and `cpc` are the program counters of the order task, of
`exec_worker` and of `commit_worker`. An action is what a task does between two
points at which another task can observe it:

* `wait_can_push` loads the window and then the count (`OrderReadWindow`,
  `OrderCheckInFlight`); the batch enters in a third step. `on_batch_exit` loads
  the weight in one step and stores the difference in another (`loaded`).
  Order has one entering and one leaving task, so its steps are split; the
  counts of Exec and Commit are touched by one task each.
* `_execute` works in rounds: all transactions of the batch first, and when their
  writes have been applied, the aborted ones again, one epoch per round.
  `ExecRead` is one read of a slot, so that a commit, an eviction or a flush can
  happen between two reads, or between two reads of the same slot; `ExecuteRound` and
  `ExecuteBatch` end a round and the last round; `ExecApply` is one write-through,
  and the next round reads only when all are done.
* `commit_batch` takes the pages (`CommitTake`), puts entry by entry (`CommitPut`,
  `CommitPutFails`) and then fills L2 (`CommitL2`), which may evict any batches.
* `OrderFlush` and `OrderFlushFails` are `try_flush_with_retry(3)` at the end of
  a call; a flush that fails has put any prefix of the table.

What a round computes is the constant operator `Effects(b, r, view)`: a set of write
lists for round `r` of batch `b` on the values it has read from each slot. The rounds read
through the overlay, as they do when Seer's cache is off (its default is on; a
cached simulation reads nothing, which is the subject of `Seer`). Keys are abstract: `EncodeKey` is the
12-byte truncation of `delta_page.rs`, `DecodeKey` the cell a key is stored at.

### The scheduler: state and actions

A transaction is an id with a set of read and a set of written keys. A unit of an
address is the id of its transaction. `ConstructChunks` builds every chunk by a
fold of `add_tx`, `MergeRound` is one round of the pairwise merge, `SortNext`
sorts the next address (read units, then write units), `ReorderAborted` returns
the write-only aborted transactions, `StartChain`, `ExtendChain` and `ChainPanic`
are the loop of `build_conflict_free_chain_indices`, `PlaceIntoEpochs` places the
other live and the aborted transactions. The chunks share no state and every sort
is sequential, so the behaviours branch only on the batch, the number of CPUs and the
build: when the subtraction of `Address::merge` goes below zero, a build with overflow checks
stops (`OverflowPanic`) and a release build wraps and goes on (`MergeRound`).
On the seven batches of `chase/src/tests/chase_tests.rs` the model gives the schedules
that these tests expect, for 1, 2, 3, 4 and 8 CPUs.

### The commit of a batch

`ChaseCore` continues where the schedule ends. A value is the id of the transaction
that wrote it. `CommitChains`, `StartEpoch` and `ReExecute` start a parallel loop,
a sequence of `lanes`; a lane appends the effect of its current transaction to the
collector (`Record`) and then writes its slots one by one (`Persist`), so the
lanes interleave between any two slots.

What a second execution reads depends on the configuration. `memory` is never
changed: `CMemoryBackend::apply` modifies a clone and drops it. With EV-BLP off it is all
there is to read, and with Seer's cache on the second execution is answered with the
result of the first; in both cases it computes the same again. With EV-BLP on and Seer's cache
off the overlay takes a slot that neither cache level holds from RocksDB, which the batch has already written
to. `ReExecute` chooses the set of these slots (`ReadThrough`); an execution that then reads
a new value may read and write other keys (`Reexecutions`) or fail. `Validate` is
`_validate_optimistic_assumption`: what it finds invalid, and what failed, is only logged by the code
and goes to `dropped`.

`Seer` abstracts a batch to conflict-free increments of slots and keeps the three
steps of `seer_simulate_tx` apart (`Lookup`, `Simulate`, `Insert`), between which
the other threads of the batch run.

### From the consensus to the index

`Subscriber` has one variable for each place a sub-dag can be in: `unsent` (committed
and stored, `run_inner` is sending), `rx_sequence`, `waiting` (the ordered downloads),
`sending` (the loop waits in `tx_notifier.send`, and polls nothing), `rx_notify`,
`handling`. `ExecuteBatch` makes one batch persistent, `StoreIndex` writes the index
or fails. `Restart` can happen in every state; it empties the queues and fills
`waiting` from the consensus store with everything from the stored index on, or from
the beginning when the index cannot be read.

### The ordering

`Tusk` lets the certificates of a fixed DAG arrive in every order that respects
causality. `ProcessCertificate` is the whole of `process_certificate`, including the
insertion with `check_parents`, the commit of all linked leaders and the purge.
`Restart` rebuilds the state from the stores, with certificates that were stored and
had not reached the consensus; `CrashInCommit` stops after the first sub-dags of a
commit were written.

### The certificates

`Synchronizer` interleaves five tasks. A peer's `Send` and the fetcher's
`AcceptFetched` are `process_certificate_internal` up to the channel; the acceptor
looks into the store (`Receive`) and, once it has the lock, suspends or accepts
(`Process`); the collector stores the new gc round without the lock (`StoreGcRound`),
then runs `run_gc` (`RunGc`) and accepts what was waiting for collected parents, one
certificate and its descendants at a time with the lock held (`AcceptAbove`). Accepting takes the
whole cascade out of the maps at once; its certificates are then written one by one
(`StoreCertificate`) and each is sent into the bounded channel of the consensus when there is room
(`SendCertificate`), with the lock held. The consensus inserts them and commits (`Insert`, `Commit`). The
fetcher turns commands into targets (`ReceiveAncestors`) and asks one of the peers
(`Kickstart`). `Restart` may hit between any two of these steps.

## Runs

| Run | Configuration | Result | What it shows |
|---|---|---|---|
| `pipeline` | `MCEvBlpBridge` | holds, 249 351 states | every batch reads what its predecessors left or, in its second round, what it wrote itself (`ExecutesSerially`), the predecessor is visible, levels agree and pages are tracked, whatever puts fail and L2 evicts; counts are exact, the weight of Order may lose an entering batch and never keeps one that left; each call returns all results in order, under fairness always as long as a commit stays below `lambda3` |
| `core` | `MCChaseCore` | holds, 2 048 400 states | chunking is invisible while updaters are apart, degrees stay above zero and numbers are consistent for the batches that the properties name, epochs are serial, parallel threads leave one state which the collected effects reproduce, a transaction is lost only by a second execution whose epoch read a write of its batch; a batch is serializable if nothing was aborted, it is `Regular` with at most two keys in a transaction, no two chains write one key and the writers of a key commit in the order of their numbers |
| `recovery` | `MCSubscriber` | holds, 14 371 states | no gap in what is persisted, every sub-dag on its way once and in order, nothing below the stored index is executed again unless the index could not be read, everything committed is executed in the end |
| `tusk` | `MCTusk` | holds, 50 884 states | agreement, no failing expectation, causal and single commits, supported leaders are committed |
| `synchronizer` | `MCSynchronizer` | holds, 106 008 states | parents reach the consensus first and what is stored reaches it, although it is stored, sent and inserted apart; the suspended certificates wait for exactly what is missing, fetching catches up |
| `overload` | `MCEvBlpOverload` | violated | a commit at `lambda3` closes the Exec window and nobody opens it again |
| `persisted` | `MCEvBlpPersisted` | violated | RocksDB can hold an older value when `execute` returns, without any failure |
| `retained` | `MCEvBlpRetained` | violated | a batch whose commit failed has lost its pages |
| `threads` | `MCChaseThreads` | violated | two chains that commit in parallel write one key, and the thread that is later wins |
| `seer` | `MCSeer` | violated | a cached simulation is committed on a later state than its own, unless the node was restarted |
| `replay` | `MCSubscriberReplay` | violated | the sub-dag of the stored index, completely executed, is executed again by a restart |
| `panic` | `MCSynchronizerPanic` | violated | the assertion of `accept_children` that an accepted certificate is not suspended fails |

The violated runs are disagreements between the code and one of its comments,
tests or documents; `PROJECT.json` quotes the line for each. In two of them the repository is of two
minds: `narwhal/executor/src/lib.rs` replays the sub-dag of the index on purpose, while
`state.rs` promises that no transaction is processed twice; and pages that were
"retained until P₃ commit succeeds" would let a failed commit be tried again, which no code does.

The panic of the last run can be reached in two ways: a fetched certificate that is suspended
arrives after `gc_round` has moved and before `run_gc` has the lock, or it arrives later and finds
one that `run_gc` left behind, because it removes suspended certificates through the map
of missing parents only and one that nobody waits for stays suspended for ever.

### Disagreements that a passing run shows

A passing run reaches these, and its property has a premise or a form that says so. `PROJECT.json` lists
the first four as findings.

* The load of Exec is meant to close the window of Order: README.md names `lambda2` the "P₂ overload
  threshold", `config.rs` and the comment of `PipelineController` say the same, and the test
  `pipeline_backpressure_closes_window_on_overload` expects a window of 0. In the bridge the window of Order is
  computed only by `on_batch_exit(Order)`, which `exec_worker` calls between two of its batches, when nothing weighs on Exec:
  it never closes, for any `lambda2` (`OrderWindowOpen`, proved).
* README.md says that aborted transactions get the "same reordering, then re-execute". As above, the second
  execution sees what the batch has committed only with EV-BLP on, Seer's cache off and the
  slot in neither cache level; and then it may be found invalid and be dropped (`AllCommittedOnce`).
* Two transactions that depend on each other can pass the sort with one number and meet in the first wave, where
  `expect("cycle in conflict-free zone dependency graph")` fails (`ChainPanic`): one that reads {1} and writes {1,2}
  beside one that reads {2} and writes {1,3} (premises `Regular` and `TwoKeys` of `NoCycle` and `SnapshotConsistent`).
  With three keys in a transaction this needs no updater: each takes its number from a key that the other does not have.
* `Address::merge` subtracts the degree of a write unit from degrees of read units. The difference goes
  below zero for a transaction that reads and writes 1 in one chunk and one that reads {1,2} and writes 1 in the
  next (`OverflowPanic`; premise of `NoOverflow`).
* A slot that a batch zeroes reads as its hydrated value again once its record has
  left L1 and L2 (premise `ZeroSafe` of the refinement).
* When both addresses of a merge have an updater, the units of the right one are
  dropped: live transactions keep number 0 and commit first, depending on the number
  of CPUs (premise `UpdatersApart` of `MergeExact`, `Regular` of the properties about numbers). None is lost (`AllCommittedOnce`).
* The finalized zone is placed by id: a later write by number can be overwritten
  by an earlier one (premise `SequenceOrder` of `SerialBySequence`).
* `narwhal/executor/src/lib.rs` asks to "atomically persist the consensus index";
  `ChaseExecutionState` writes the index after the effects.
* `SuspendedExact` speaks of certificates above the gc round, because of what `run_gc` leaves behind.
* The acceptor's second look into the store is before the lock, so a certificate
  that the collector accepts meanwhile is accepted again and sent twice. Store and
  consensus tolerate that.
* A `Kick` without targets starts no fetch, although its comment says that fetching
  "should definitely be started".
* After a restart a leader whose support is already in the recovered DAG is committed only
  with the next certificate (`SupportedCommitted` is stated for runs without a crash).

### Bounds

* Pipeline: with three batches one can commit while one executes and one waits,
  and a value can be committed, flushed and read again in a later call; a table of two
  records and pages of one make tables freeze inside a batch; one narrow and one
  wide slot give both ways a key maps to a cell. `MCEffects` moves values between
  the slots, so a stale read is visible in a later write. `Lambda3` is above the
  bytes of a batch; at it `overload` shows that `execute` may wait for ever.
  Batches have two rounds, so that one can read between its own writes and the records that
  `exec_worker` makes of them; with `Lambda2` at the gas of a batch, Exec is overloaded by each of them.
  Two batches can wait in Order while a third executes, so an entry can fall between the load and the store of a leaving one.
* Core: all batches of three transactions with at most one read and two
  written keys of three; four-transaction batches from a mixed set that
  arrive out of order; every pair of transactions; the empty batch. One, two and four CPUs, so
  a batch is one graph or is merged from up to four. Second executions read
  none, one or all slots from RocksDB, and three pairs of other read and write sets stand for what an execution on new values does. `U32`
  is 256: the sums of degrees stay below ten, so any modulus well above behaves alike,
  and a negative difference wraps as it does in a release build. `threads`
  needs two transactions.
* Recovery: four sub-dags with two, no, one and one batches, commits of one or two at a
  time, channels of one, `MaxPending` two and two crashes: both channels and the
  downloads fill up, a restored backlog exceeds `MaxPending`, and a crash can hit
  during the recovery from another one. `replay` needs two sub-dags, one crash and no failure.
* Seer: three transactions, two of which share a fingerprint and a slot, in any division into
  batches, and one restart.
* Tusk: four authorities tolerate one fault. Five rounds have two leaders and, with a
  gc depth of three, a purge; the 96 DAGs vary the support of both leaders and the link
  between them. One crash, with up to two certificates that had not reached the consensus.
* Synchronizer: a gc depth of one and a round limit of two make collections and
  certificates that are too new happen within five rounds; one author is left behind, so
  its certificates are suspended across a collection; one of the peers lacks a
  certificate. The channel to the consensus has one slot, so the acceptor waits for it with the lock held. `Sent` restricts what arrives unasked to two certificates; all others are
  fetched. One crash.
* Deadlock is not checked: each system stops when its bounded input is used up.

### Fairness

`FairSpec` of `EvBlpBridge` assumes weak fairness of the order task, of `exec_worker`
and of `commit_worker`: each is a tokio task that is polled again as long as it can
proceed, and the sleep of `wait_can_push` ends. Nothing is assumed about the
store: every put may fail for ever. New calls of `execute` are not assumed.

`Subscriber`: weak fairness of the sending consensus task, of the executor and of
`tx_notifier.send`. The branches of the `select!` loop get strong fairness: it picks
among the ready branches at random, and a download is retried until it succeeds
("Loop forever on failure"). Crashes are bounded, commits not assumed.

`Synchronizer`: weak fairness of the acceptor, the collector, the command loop
of the fetcher, and the consensus task as far as it takes certificates from its channel. A fetch asks the peers in random order, hence strong fairness for each
peer, and the acceptor's channel serves its senders in order, hence strong fairness for
`AcceptFetched`. Sends, commits and crashes are not assumed.

## Proofs

### The pipeline

The theorems hold for every number of batches, every window and threshold, every
set of slots, every `Effects` and every pattern of failures and evictions. They
rest on the named assumptions of the modules (constants of the right
types, `None` not a value, `PageLimit` at least one) and on no others, except for the refinement.

1. `TypeCorrect`, `ControlInvariant`: `ControlInv` says where the three tasks can
   be relative to each other, what each holds, and that L1's tables are ordered.
   `TypeOK` is not inductive by itself: that a count does not fall below zero
   needs the exact position of every batch.
2. `InFlightExactTheorem`, `OrderWindowOpenTheorem`: `CountInv` relates counts, and the weights
   of Exec and Commit, to the channels and program counters. `WeightsTrackedTheorem` adds the
   weight of Order, which two tasks update and one of them in two steps: `GasInv` says that the weight
   which a leaving batch has loaded is at most that of the batches still inside, so what it stores is too.
3. `PredecessorVisibleTheorem`, `ResultsCompleteTheorem`, `PagesTrackedTheorem`:
   `OrderInv` numbers the batches in the channels consecutively.
4. `LevelsCoherentTheorem`: `ShadowInv` says that whatever the commit worker has
   taken, or may still take, is shadowed by a record of L1: tables leave L1 only
   in the flush at the end of a call, when both workers have ended. So what P3
   does to L2 and the store, completely or in part, changes no read.
5. `Refinement`: `StateInv` says that L1 and L2 show the state of the executed batches and that the
   store, below them, does so too except for writes of the executing batch; `CleanInv` that no record
   zeroes a hydrated slot; `ViewInv` that what a round has read is the value its predecessors left or
   one that its own batch has written. A round takes its abstract step when it has
   computed its writes; every other step, of any task, is a stutter.

The refinement has two premises, both necessary: `DistinctKeys`, the slots in use
have distinct truncated keys, and `ZeroSafe`, no batch writes zero to a slot that
was hydrated. Without the second a cleared slot reads as its hydrated value again. It also rests on what `EvBlpBridge`
takes as given: rounds read through the overlay (Seer's cache off), only
storage slots are read, and what a round writes is a function of what it has read (`Effects`).
`SerialBatches` leaves open which of the two values a second execution reads. That is
the code's behaviour, and it depends on evictions and on earlier batches.

### The recovery

`SubscriberProofs` holds for any number of sub-dags, batches, crashes and failures of
the index, and any capacity of the channels, from `SubscriberAssumption`. The
inductive invariant `IInv` has two parts besides the types. `OrderInv` says that
each queue holds consecutive indexes and that the queues join without a gap,
back from the latest index in the consensus store; this is `HandedOnOnce` in a form that
each action changes at one end. `ExecutedInv` says that everything below what the executor
holds has been executed, that of the sub-dag in hand at least the counted batches
were, that every sub-dag up to the stored index is executed, and that, unless a restart
could not read the index, the executor works at the sub-dag of the index or above. A restart re-establishes both parts from
the stored index alone, which is why the index must never be ahead of the execution. `NothingSkippedTheorem`,
`HandedOnOnceTheorem` and `ReplayTheorem` follow; `SubscriberTypeTheorem` states the types.

### The ordering

`TuskProofs` holds for every finite committee, every set of DAGs in which a certificate
above round 1 has a quorum of parents, every assignment of leaders, number of rounds and
crashes, and every gc depth of at least one (`TuskAssumption`). The quorum of parents is
what a voter requires of a header (`HeaderRequiresQuorum`,
`narwhal/primary/src/primary.rs`); with a depth of 0 `order_dag` would look for parents
in a round that is already collected.

The argument compares a validator with `History(parents)`, which folds the same loop over
the leaders of `Chain`, those that a validator would commit if it had the complete DAG. The lemmas of
`TuskCommitProofs` are about the operators, for every DAG:

1. `SupportedLinked`: every certificate two or more rounds above a leader with the
   support of a validity threshold is linked to it, because the supporters and the
   parents of any certificate two rounds up intersect (`QuorumMeets`).
2. `SearchWithin`, `SameCurrents`: a search from a certificate of a part of the DAG that is closed above a
   round `g` (`ClosedAbove`) stays inside of it, so `order_leaders` chooses the same leaders as
   on the complete DAG. With 1, the leaders between two commits are those of `Chain`, whether a
   validator finds them at once or one after another (`LeadersOfChain`, `LeadersToCommit`).
3. `OrderDag`, `OrderDagComplete`: `order_dag` returns the same certificates on both, and
   finds each parent it looks up.
4. `CommitSound`, `CommitsRound`: the loop commits causally, once, and ends with the last leader's round.

The inductive invariant `IInv` of `TuskProofs` says that the state is a point of that
history (`Consistent`): for some round `k` the last committed rounds and the sub-dags are those
of `History` at `k`, the known certificates are closed above the garbage collection
round, and `dag` is exactly the known ones above it. Each commit moves `k` on, a crash between two
sub-dags stops at a smaller `k`, and a restart rebuilds `dag` from the known certificates
(`CommitConsistent`, `InvCrash`, `InvRestart`). `Agreement` alone is not inductive: what the
next commit returns depends on which certificates are still in the DAG and on the last
committed rounds, not only on the sub-dags committed so far. `AgreementTheorem`,
`NoPanicTheorem`, `CausalOnceTheorem`, `SupportedCommittedTheorem` and `TuskTypeTheorem` follow.

### The synchronizer

`SynchronizerProofs` holds for every set of certificates whose parents are one round
below, any gc depth, channel capacity, response size, peers and number of crashes
(`SynchronizerAssumption`). In the inductive invariant `IInv`

* `StoreClosed`, `AcceptedClosed`: the store, and the store with the cascade that is being written, has the
  parents of what it holds above `gc_round + 1`. It is what makes a crash between the writes of a cascade harmless;
* `TransitInv`: what is stored is in the DAG or on its way (`StoreDelivered`), and whoever takes what is on its way in order
  finds the parents (`ParentsDelivered`), while the consensus collects rounds at its own pace;
* `Exact(g)`: `suspended` and `missing` are as a collection of round `g` left them. In general `g` is
  `gc_round`, but between the unlocked store of `gc_round` and the collection it is an
  earlier round (`StateInv`), and that is when the acceptor works on an old state;
* `AboveInv`: what `run_gc` returned is one round above `gc_round` and no longer suspended.

`ParentsDeliveredTheorem`, `StoreDeliveredTheorem`, `SuspendedExactTheorem`,
`AssertionsHoldTheorem` and `SynchronizerTypeTheorem` follow. `AssertionsHold` does not include the assertion
of the run `panic`, which fails. The cascade of
`accept_children` is a recursive function over rounds; the lemma `Acceptable` says what it
returns.

### Recursion in the proofs

The searches and loops of `Tusk` and `Synchronizer` are recursive functions over an interval
of rounds. `IntervalProofs` derives from the well-foundedness of the naturals that
a set with the first number of an interval, and with each number the next, contains the interval
(`IntervalInduction`), and that a function given by a first value and a step exists
(`IntervalRecursion`). Both are stated with sets and functions in place of
predicates, so that they can be applied to any recursive function of the models.

### Only model-checked

`ExecuteReturns`, `AllExecuted` and `SuspendedCaughtUp` (liveness is outside of the
prover's reach), and the run `core`: the scheduler and the commit of a batch are folds over
sequences and sets, and no proofs about them are part of the project.

## Abstractions, and what is not modelled

* Backend: storage slots only. Accounts (balance, nonce, code), `Apply::Delete` and
  `reset_storage` are left out; batch ids do not wrap. L2's byte accounting is
  an arbitrary eviction. A failing write-through may lose any of its writes.
* `EvBlpBridge` takes a round as one computation on what it reads; `ChaseCore`
  looks into it and, where no two chains write one key, justifies that:
  `StateDeterministic` and `CollectorReplays` say that the effects are one list with one outcome.
* `ChaseCore`: transactions whose simulation fails are not in the batch. The first executions of a batch
  read one state. With Seer's cache on, the result of an earlier batch may be taken
  instead, which `Seer` shows.
* Scheduler: a key stands for itself whatever its contract, as in the code,
  which drops the contract address; one key under two contracts in one
  transaction is not distinguished. The feature-gated variants
  (`last-committer-wins`, `disable-early-detection`, `disable-rescheduling`,
  `latency`, `parallelism`) are not modelled.
* `Regular`, a premise of `ReadersFirst`, `SnapshotConsistent`, `NoCycle` and `SerialBySequence`, restricts
  them to batches whose read-modify-write transactions touch one key, and in
  which no merge drops units; `TwoKeys`, a premise of the last three, allows a transaction two keys. Outside of
  them the sequence numbers are not sound. Both describe the batch alone; counters, and
  transactions that copy one key to another, meet them.
* `Seer`: the perceptrons of the VarTable are trained, but only tests call `predict`, so
  they are left out.
* `Tusk`: each authority has one unit of stake and certifies one header in a round; the
  order inside a sub-dag follows from the DAG and is left out. The leader of
  a round is a constant, as the swap table stays empty under Tusk.
* `Synchronizer`: signatures, epochs and payloads are left out, and so are own certificates,
  which take the path of fetched ones with all parents stored. Commands to the
  fetcher may overtake each other. The commit of the consensus is any even round
  whose next round has been delivered.
* `EvBlpPipeline::process_batches` is the synchronous variant of benches and
  tests. Metrics and logging have no effect on control.
* EVM interpreter, transaction validation, accounts: what a transaction reads and
  writes is an input of every model. The interpreter is sequential code whose faults
  are those of byte code semantics.
* Bullshark, Narwhal's own default ordering, is not modelled: CHASE runs on Tusk
  (`CHASE_USE_TUSK`). Proposer, certifier, workers and network are the producers of the
  certificates that `Synchronizer` and `Tusk` take as given.
* Sui and Move: the repository's README says "we only use the code under
  `crates/sslab-execution`. All other directories are unrelated to CHASE and are not compiled
  by default". They are most of the lines of the repository. The Narwhal
  parts above are modelled all the same because the execution state is called by them and
  depends on what they promise.
