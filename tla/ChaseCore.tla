------------------------------ MODULE ChaseCore ------------------------------
(***************************************************************************)
(* One run of ConcurrencyLevelManager::_execute                            *)
(* (chase/src/chase_core.rs): the schedule of the simulated batch is       *)
(* committed by parallel threads, chains first and then epoch by epoch,    *)
(* and the aborted epochs are executed again, validated and committed.     *)
(*                                                                         *)
(* A value is the transaction that wrote it, 0 before the batch.           *)
(* CMemoryBackend::apply changes a clone and drops it, so the memory stays *)
(* as it was; RocksDB and the effect collector receive the writes.  An     *)
(* execution reads the memory, or under EV-BLP with Seer's cache off the   *)
(* overlay, which takes a slot that neither cache level holds from RocksDB *)
(* (executor/cache/cache_overlay.rs): there a second execution sees what   *)
(* its own batch committed.  With Seer's cache on the second execution is  *)
(* answered with the result of the first and reads nothing, as if from the *)
(* unchanged memory; that the first may be a hit of an earlier batch, on   *)
(* an older state, is the subject of Seer.                                 *)
(***************************************************************************)
EXTENDS CdsScheduler

CONSTANTS ReadThrough,    \* sets of slots that are read from RocksDB
          Reexecutions    \* read and write sets of an execution that reads other values

ASSUME CoreAssumption == ReadThrough \subseteq SUBSET Addresses /\ Reexecutions \subseteq RwSets

VARIABLES
    memory,       \* what an execution reads
    db,           \* the slots in RocksDB
    sink,         \* effect_collector: transactions whose effects it received
    lanes,        \* the threads of a parallel loop, a sequence
    epochs,       \* finalized epochs still to commit
    retries,      \* aborted epochs still to execute again
    reexecuted,   \* rw_sets: the epoch that was executed again, none or one
    executed,     \* read and write sets of the last execution of a transaction
    seen,         \* the values that it read
    dropped       \* transactions whose second execution failed or is invalid

executionVars == <<reexecuted, executed, seen, dropped>>
coreVars == <<memory, db, sink, lanes, epochs, retries, executionVars>>
allVars == <<vars, coreVars>>

Batch == 0..Len(rw_set)

\* A thread: the transactions it still commits, whether the effect of the
\* first is in the collector, and the keys of it not written yet.
Lane == [todo : Seq(Ids), recorded : BOOLEAN, keys : SUBSET Addresses]

CoreTypeOK ==
    /\ ScheduleTypeOK
    /\ memory \in [Addresses -> Batch]
    /\ db \in [Addresses -> Batch]
    /\ sink \in Seq(Ids)
    /\ lanes \in Seq(Lane)
    /\ epochs \in Seq(Seq(Ids))
    /\ retries \in Seq(Seq(Ids))
    /\ reexecuted \in Seq(Seq(Ids)) /\ Len(reexecuted) <= 1
    /\ executed \in [Ids -> RwSets]
    /\ \A t \in Ids : seen[t] \in [executed[t].reads -> Batch]
    /\ dropped \subseteq Ids

\* simulate_tx: the values that an execution with these sets reads.
simulate(storage, rw) == [a \in rw.reads |-> storage[a]]

CoreInit ==
    /\ Init
    /\ memory = [a \in Addresses |-> 0]
    /\ db = memory
    /\ sink = <<>>
    /\ lanes = <<>>
    /\ epochs = <<>>
    /\ retries = <<>>
    /\ reexecuted = <<>>
    /\ executed = [t \in Ids |-> rw_set[t]]
    /\ seen = [t \in Ids |-> simulate(memory, rw_set[t])]
    /\ dropped = {}

Schedule ==
    /\ Next
    /\ UNCHANGED coreVars

lane(txs) == [todo |-> txs, recorded |-> FALSE, keys |-> {}]

\* into_par_iter over the transactions of an epoch.
par_iter(epoch) == [i \in DOMAIN epoch |-> lane(<<epoch[i]>>)]

\* _commit_cds_schedule starts with the conflict-free zone.
CommitChains ==
    /\ phase = "scheduled"
    /\ phase' = "committing"
    /\ lanes' = [i \in DOMAIN conflict_free_zone |-> lane(conflict_free_zone[i])]
    /\ epochs' = conflict_zone_finalized
    /\ retries' = conflict_zone_aborted
    /\ UNCHANGED <<graphVars, zoneVars, memory, db, sink, executionVars>>

------------------------------------------------------------------------------
(* The threads *)

current(i) == Head(lanes[i].todo)

\* The lane when its current transaction has been applied.
advance(i) == lane(Tail(lanes[i].todo))

\* sink.extend(effect.clone()) under the lock of the collector.
Record(i) ==
    /\ lanes[i].todo # <<>> /\ ~lanes[i].recorded
    /\ sink' = Append(sink, current(i))
    /\ lanes' = [lanes EXCEPT ![i] =
            IF executed[current(i)].writes = {} THEN advance(i)
            ELSE [lanes[i] EXCEPT !.recorded = TRUE, !.keys = executed[current(i)].writes]]
    /\ UNCHANGED <<vars, memory, db, epochs, retries, executionVars>>

\* apply_local_effect writes the slots one by one, in the order of the keys.
Persist(i) ==
    /\ lanes[i].recorded
    /\ LET a == Min(lanes[i].keys)
       IN  /\ db' = [db EXCEPT ![a] = current(i)]
           /\ lanes' = [lanes EXCEPT ![i] =
                IF @.keys = {a} THEN advance(i)
                ELSE [lanes[i] EXCEPT !.keys = @ \ {a}]]
    /\ UNCHANGED <<vars, memory, sink, epochs, retries, executionVars>>

Committed == \A i \in DOMAIN lanes : lanes[i].todo = <<>>

\* Mutant: an epoch does not wait for the one before it.
StartEpochEarly ==
    /\ phase = "committing"
    /\ epochs # <<>>
    /\ lanes' = par_iter(Head(epochs))
    /\ epochs' = Tail(epochs)
    /\ UNCHANGED <<vars, memory, db, sink, retries, executionVars>>

\* The next round of _concurrent_commit.
StartEpoch ==
    /\ phase = "committing" /\ Committed
    /\ epochs # <<>>
    /\ lanes' = par_iter(Head(epochs))
    /\ epochs' = Tail(epochs)
    /\ UNCHANGED <<vars, memory, db, sink, retries, executionVars>>

------------------------------------------------------------------------------
(* The second execution *)

\* What an execution reads when these slots are in neither cache level.
storage(through) == [a \in Addresses |-> IF a \in through THEN db[a] ELSE memory[a]]

\* _re_execute in parallel on the storage, which no thread changes meanwhile.
\* An execution that reads what the first one read gives the same sets; one
\* that reads another value may go on differently, or fail and be left out.
ReExecute ==
    /\ phase = "committing" /\ Committed /\ reexecuted = <<>>
    /\ epochs = <<>> /\ retries # <<>>
    /\ \E through \in ReadThrough :
        LET state == storage(through)
            changed == {t \in Range(Head(retries)) : simulate(state, rw_set[t]) # seen[t]}
        IN  \E failing \in SUBSET changed : \E other \in [changed \ failing -> Reexecutions] :
                /\ \A t \in changed \ failing :
                     \E a \in other[t].reads \cap rw_set[t].reads : state[a] # seen[t][a]
                /\ executed' = [t \in Ids |-> IF t \in changed \ failing THEN other[t]
                                                                        ELSE executed[t]]
                /\ seen' = [t \in Ids |-> IF t \in changed THEN simulate(state, executed'[t])
                                                           ELSE seen[t]]
                /\ reexecuted' = <<SelectSeq(Head(retries), LAMBDA t : t \notin failing)>>
                /\ dropped' = dropped \cup failing
    /\ retries' = Tail(retries)
    /\ UNCHANGED <<vars, memory, db, sink, lanes, epochs>>

validate(acc, t) ==
    IF executed[t].writes \cap acc.write_set = {}
    THEN [acc EXCEPT !.write_set = @ \cup executed[t].writes, !.valid = Append(@, t)]
    ELSE [acc EXCEPT !.invalid = @ \cup {t}]

\* _validate_optimistic_assumption.
validate_optimistic_assumption(epoch) ==
    FoldLeft(validate, [write_set |-> {}, valid |-> <<>>, invalid |-> {}], epoch)

\* The valid ones commit as one epoch, the invalid ones are only logged.
Validate ==
    /\ reexecuted # <<>>
    /\ LET result == validate_optimistic_assumption(Head(reexecuted))
       IN  /\ lanes' = par_iter(result.valid)
           /\ dropped' = dropped \cup result.invalid
    /\ reexecuted' = <<>>
    /\ UNCHANGED <<vars, memory, db, sink, epochs, retries, executed, seen>>

Finish ==
    /\ phase = "committing" /\ Committed /\ reexecuted = <<>>
    /\ epochs = <<>> /\ retries = <<>>
    /\ phase' = "done"
    /\ UNCHANGED <<graphVars, zoneVars, coreVars>>

CoreNext ==
    \/ Schedule \/ CommitChains \/ StartEpoch \/ ReExecute \/ Validate \/ Finish
    \/ \E i \in DOMAIN lanes : Record(i) \/ Persist(i)

CoreSpec == CoreInit /\ [][CoreNext]_allVars

------------------------------------------------------------------------------
(* Properties *)

Done == phase = "done"

apply_writes(state, t) ==
    [a \in Addresses |-> IF a \in executed[t].writes THEN t ELSE state[a]]

replay(txs) == FoldLeft(apply_writes, [a \in Addresses |-> 0], txs)

CommitOrder == FlattenSeq(conflict_free_zone) \o FlattenSeq(conflict_zone_finalized)
               \o FlattenSeq(conflict_zone_aborted)

\* The transactions that are not dropped, in that order.
Kept == SelectSeq(CommitOrder, LAMBDA t : t \notin dropped)

\* When no two chains write one key, RocksDB ends up as if the chains, the
\* epochs and the aborted epochs had been committed one transaction after the
\* other, whichever thread is faster.
StateDeterministic == Done /\ DisjointChains => db = replay(Kept)

\* The effects that EV-BLP turns into pages give, applied in their order, the
\* state that the threads wrote: a thread appends to the collector and writes
\* the slots in separate steps, so the two orders may differ.
CollectorReplays == Done /\ DisjointChains => replay(sink) = db

\* Every simulated transaction is committed exactly once or dropped: the aborts
\* of the construction, the merges and the sort and the return of reordered
\* transactions lose and duplicate none.  The second execution drops one only
\* when its epoch read a write of this batch: otherwise an aborted epoch passes
\* the validation as a whole.
AllCommittedOnce ==
    Done =>
        /\ Range(sink) = Ids \ dropped /\ Len(sink) + Cardinality(dropped) = Len(order)
        /\ \A t \in dropped : \E e \in Range(conflict_zone_aborted) :
             /\ t \in Range(e)
             /\ \E u \in Range(e) : \E a \in DOMAIN seen[u] : seen[u][a] # 0

\* Some serial execution of the batch reads and leaves the same values.
Serial(p) ==
    /\ \A i \in DOMAIN p : \A a \in executed[p[i]].reads :
            seen[p[i]][a] = replay(SubSeq(p, 1, i - 1))[a]
    /\ replay(p) = db

Serializable == \E p \in SetToSeqs(Ids) : Serial(p)

NothingAborted == conflict_zone_aborted = <<>>

\* The writers of a key commit in the order of their sequence numbers.
SequenceOrder ==
    \A i, j \in DOMAIN CommitOrder :
        LET t == CommitOrder[i]
            u == CommitOrder[j]
        IN  i < j /\ rw_set[t].writes \cap rw_set[u].writes # {} => sequence[t] < sequence[u]

\* The sequence numbers are what makes the commit of one snapshot correct: a
\* batch without aborts whose writers commit in their order is serializable,
\* although its transactions are executed in parallel and commit in parallel.
SerialBySequence ==
    Done /\ Regular /\ TwoKeys /\ NothingAborted /\ DisjointChains /\ SequenceOrder => Serializable

\* "Deterministic concurrency control": the state after the batch does not
\* depend on which of the parallel threads is faster.
ThreadsIrrelevant == Done => db = replay(Kept)
=============================================================================
