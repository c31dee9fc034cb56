----------------------------- MODULE EvBlpBridge -----------------------------
(***************************************************************************)
(* The asynchronous three-stage EV-BLP pipeline                            *)
(* (chase/src/executor/chase_bridge.rs with pipeline/ev_blp.rs): the order *)
(* task of EvBlpChaseBridge::execute, exec_worker and commit_worker run    *)
(* concurrently, joined by channels and throttled by the window            *)
(* controller; the cache under the EVM backend carries state from batch to *)
(* batch.                                                                  *)
(*                                                                         *)
(* Chase executes a batch in rounds (chase_core.rs, _execute): all its     *)
(* transactions, and after their writes were applied the aborted ones      *)
(* again, one epoch per round.  What a round computes from what it has     *)
(* read is the constant Effects; a batch with fewer epochs computes        *)
(* nothing in the rounds it does not need.  The rounds read through the    *)
(* overlay, as they do when Seer's cache is off; what a cached simulation  *)
(* does instead is the subject of Seer.                                    *)
(*                                                                         *)
(* One action is the code of one task between two points where another     *)
(* task could tell the difference.  An address of the controller that only *)
(* one task writes is read and written in one step with its neighbours:    *)
(* zeta["Exec"] and w["Exec"] belong to exec_worker, w["Commit"] to        *)
(* commit_worker, and only in_flight["Order"], w["Order"] and              *)
(* zeta["Order"] are shared between two tasks.                             *)
(***************************************************************************)
EXTENDS PipelineController, LayeredBackend

CONSTANTS Rounds,            \* bound on the rounds of a batch
          Effects(_, _, _),  \* the write lists a round of a batch may produce
                             \* on the values it read from each slot
          GasWeights,        \* gas weights of batches
          StoreMayFail       \* whether the store may return errors

ASSUME BridgeAssumption ==
    /\ Rounds \in Nat \ {0}
    /\ \A b \in BatchIds, r \in 1..Rounds : \A seen \in [Slots -> SUBSET Values] :
        Effects(b, r, seen) \subseteq Seq(Writes)
    /\ GasWeights \subseteq Nat
    /\ StoreMayFail \in BOOLEAN

\* try_flush_with_retry(3) at the end of execute.
MaxRetries == 3

VARIABLES
    next_batch_id,        \* EvBlpPipeline::next_batch_id
    last_exec_complete,   \* EvBlpPipeline::last_exec_complete
    opc,                  \* order task: where it is
    call_len,             \* order task: n, the batches of the call
    left,                 \* order task: batches of the call still to order
    window,               \* order task: the window can_push loaded
    attempt,              \* order task: flush attempts that failed
    exec_q, exec_tx,      \* channel order task -> exec_worker, its sender
    epc,                  \* exec_worker: where it is
    ebatch,               \* exec_worker: the PipelineBatch it handles
    loaded,               \* exec_worker: w["Order"] as on_batch_exit loaded it
    round,                \* exec_worker: the round of the execution
    view,                 \* exec_worker: what the round has read from each slot
    unapplied,            \* exec_worker: writes not yet applied to the backend
    effects,              \* effect_collector, writes of the rounds so far
    records,              \* exec_worker: records of the batch
    rest,                 \* exec_worker: records not yet paged into L1
    results,              \* ids the result collector has received
    commit_q, commit_tx,  \* channel exec_worker -> commit_worker, its sender
    cpc,                  \* commit_worker: where it is
    work,                 \* commit_worker: the CommitWork it handles
    entries,              \* commit_worker: entries of commit_batch
    stored,               \* commit_worker: entries already put
    serial                \* history: the state the executed batches left

orderVars == <<opc, call_len, left, window, attempt>>
execVars == <<epc, ebatch, loaded, round, view, unapplied, effects, records, rest>>
commitVars == <<cpc, work, entries, stored>>
idVars == <<next_batch_id, last_exec_complete>>
chanVars == <<exec_q, exec_tx, results, commit_q, commit_tx>>
vars == <<controllerVars, cacheVars, backendVars, idVars, orderVars,
          execVars, chanVars, commitVars, serial>>

PipelineBatches == [batch_id : BatchIds, gas_weight : GasWeights]
CommitWorks == [batch_id : BatchIds, delta_bytes : Nat]

ASSUME NoneAssumption ==
    None \notin PipelineBatches /\ None \notin CommitWorks /\ None \notin Seq(Records)

TypeOK ==
    /\ ControllerTypeOK
    /\ CacheTypeOK
    /\ BackendTypeOK
    /\ next_batch_id \in 1..(MaxBatch + 1)
    /\ last_exec_complete \in Nat
    /\ opc \in {"idle", "wait", "check", "enter", "join", "flush"}
    /\ call_len \in Nat
    /\ left \in Nat
    /\ window \in Nat
    /\ attempt \in 0..MaxRetries
    /\ exec_q \in Seq(PipelineBatches)
    /\ exec_tx \in {"alive", "dropped"}
    /\ epc \in {"recv", "exit_order", "wait", "exec", "pages", "exit", "done"}
    /\ ebatch \in PipelineBatches \cup {None}
    /\ loaded \in Nat
    /\ round \in 1..Rounds
    /\ view \in [Slots -> SUBSET Values]
    /\ unapplied \in Seq(Writes)
    /\ effects \in Seq(Writes)
    /\ records \in Seq(Records)
    /\ rest \in Seq(Records)
    /\ results \in Seq(BatchIds)
    /\ commit_q \in Seq(CommitWorks)
    /\ commit_tx \in {"alive", "dropped"}
    /\ cpc \in {"recv", "take", "put", "l2", "exit", "done"}
    /\ work \in CommitWorks \cup {None}
    /\ entries \in Seq(Records)
    /\ stored \in Nat
    /\ serial \in [Slots -> Values]

Nothing == [s \in Slots |-> {}]

Init ==
    /\ ControllerInit
    /\ BackendInit
    /\ next_batch_id = 1 /\ last_exec_complete = 0
    /\ opc = "idle" /\ call_len = 0 /\ left = 0 /\ window = 0 /\ attempt = 0
    /\ exec_q = <<>> /\ exec_tx = "dropped" /\ results = <<>>
    /\ commit_q = <<>> /\ commit_tx = "dropped"
    /\ epc = "done" /\ ebatch = None /\ loaded = 0 /\ round = 1 /\ view = Nothing
    /\ unapplied = <<>> /\ effects = <<>> /\ records = <<>> /\ rest = <<>>
    /\ cpc = "done" /\ work = None /\ entries = <<>> /\ stored = 0
    /\ serial = [s \in Slots |-> storage(s)]

------------------------------------------------------------------------------
(* The order task (P1) *)

\* execute(batches): the channels are opened and the workers spawned.
Execute(n) ==
    /\ opc = "idle"
    /\ next_batch_id + n <= MaxBatch + 1
    /\ opc' = "wait" /\ call_len' = n /\ left' = n
    /\ exec_tx' = "alive" /\ commit_tx' = "alive" /\ results' = <<>>
    /\ epc' = "recv" /\ cpc' = "recv"
    /\ UNCHANGED <<controllerVars, cacheVars, backendVars, idVars, window,
                   attempt, exec_q, commit_q, ebatch, loaded, round, view,
                   unapplied, effects, records, rest, work, entries, stored,
                   serial>>

\* wait_can_push(Order), the load of the window; a closed window is polled.
OrderReadWindow ==
    /\ opc = "wait"
    /\ zeta["Order"] # 0
    /\ window' = zeta["Order"]
    /\ opc' = "check"
    /\ UNCHANGED <<controllerVars, cacheVars, backendVars, idVars, call_len,
                   left, attempt, execVars, chanVars, commitVars, serial>>

\* Mutant: an open window lets every batch in.
OrderCheckNothing ==
    /\ opc = "check"
    /\ opc' = "enter"
    /\ UNCHANGED <<controllerVars, cacheVars, backendVars, idVars, call_len,
                   left, window, attempt, execVars, chanVars, commitVars,
                   serial>>

\* wait_can_push(Order), the comparison with the batches in flight.
OrderCheckInFlight ==
    /\ opc = "check"
    /\ opc' = IF in_flight["Order"] < window THEN "enter" ELSE "wait"
    /\ UNCHANGED <<controllerVars, cacheVars, backendVars, idVars, call_len,
                   left, window, attempt, execVars, chanVars, commitVars,
                   serial>>

\* alloc_batch_id, on_batch_enter(Order), send; after the last batch the
\* sender is dropped.
OrderEnter ==
    /\ opc = "enter"
    /\ \E gas \in GasWeights :
        /\ exec_q' = Append(exec_q, [batch_id |-> next_batch_id,
                                     gas_weight |-> gas])
        /\ on_batch_enter("Order", gas)
    /\ next_batch_id' = next_batch_id + 1
    /\ left' = left - 1
    /\ opc' = IF left = 1 THEN "join" ELSE "wait"
    /\ exec_tx' = IF left = 1 THEN "dropped" ELSE "alive"
    /\ UNCHANGED <<cacheVars, backendVars, last_exec_complete, call_len,
                   window, attempt, execVars, results, commit_q, commit_tx,
                   commitVars, serial>>

\* exec_handle.await and commit_handle.await.
OrderJoin ==
    /\ opc = "join"
    /\ epc = "done" /\ cpc = "done"
    /\ opc' = "flush" /\ attempt' = 0
    /\ UNCHANGED <<controllerVars, cacheVars, backendVars, idVars, call_len,
                   left, window, execVars, chanVars, commitVars, serial>>

\* try_flush_with_retry: one frozen table is flushed.
OrderFlush ==
    /\ opc = "flush"
    /\ flush_oldest
    /\ UNCHANGED <<controllerVars, backendVars, idVars, orderVars, execVars,
                   chanVars, commitVars, serial>>

\* try_flush_with_retry: the flush fails; the last failure is only reported.
OrderFlushFails ==
    /\ opc = "flush"
    /\ StoreMayFail
    /\ flush_oldest_fails
    /\ attempt' = attempt + 1
    /\ opc' = IF attempt + 1 = MaxRetries THEN "idle" ELSE "flush"
    /\ UNCHANGED <<controllerVars, backendVars, idVars, call_len, left, window,
                   execVars, chanVars, commitVars, serial>>

\* Nothing (more) to flush: execute returns the digests in id order.
OrderReturn ==
    /\ opc = "flush"
    /\ frozen = <<>>
    /\ opc' = "idle"
    /\ UNCHANGED <<controllerVars, cacheVars, backendVars, idVars, call_len,
                   left, window, attempt, execVars, chanVars, commitVars,
                   serial>>

OrderTask ==
    \/ OrderReadWindow \/ OrderCheckInFlight \/ OrderEnter
    \/ OrderJoin \/ OrderFlush \/ OrderFlushFails \/ OrderReturn

------------------------------------------------------------------------------
(* exec_worker (P2) *)

\* exec_rx.recv, and the load of on_batch_exit(Order).
ExecRecv ==
    /\ epc = "recv"
    /\ exec_q # <<>>
    /\ ebatch' = Head(exec_q) /\ exec_q' = Tail(exec_q)
    /\ loaded' = w["Order"]
    /\ epc' = "exit_order"
    /\ UNCHANGED <<controllerVars, cacheVars, backendVars, idVars, orderVars,
                   round, view, unapplied, effects, records, rest, exec_tx,
                   results, commit_q, commit_tx, commitVars, serial>>

\* The rest of on_batch_exit(Order).
ExecExitOrder ==
    /\ epc = "exit_order"
    /\ on_batch_exit("Order", ebatch.gas_weight, loaded)
    /\ epc' = "wait"
    /\ UNCHANGED <<cacheVars, backendVars, idVars, orderVars, ebatch, loaded,
                   round, view, unapplied, effects, records, rest, chanVars,
                   commitVars, serial>>

\* wait_can_push(Exec), on_batch_enter(Exec), set_visible_batch.
ExecEnter ==
    /\ epc = "wait"
    /\ can_push("Exec")
    /\ on_batch_enter("Exec", ebatch.gas_weight)
    /\ visible_batch' = last_exec_complete
    /\ epc' = "exec"
    /\ UNCHANGED <<cacheVars, inner, idVars, orderVars, ebatch, loaded, round,
                   view, unapplied, effects, records, rest, chanVars,
                   commitVars, serial>>

\* A transaction of the round reads a slot through the overlay.  Transactions
\* may read a slot at different times.
ExecRead(s) ==
    /\ epc = "exec"
    /\ unapplied = <<>>
    /\ view' = [view EXCEPT ![s] = @ \cup {storage(s)}]
    /\ UNCHANGED <<controllerVars, cacheVars, backendVars, idVars, orderVars,
                   epc, ebatch, loaded, round, unapplied, effects, records,
                   rest, chanVars, commitVars, serial>>

\* _execute, a round that is not the last: its writes are about to be applied
\* and recorded in the collector; the aborted transactions of the next epoch
\* execute again after that.
ExecuteRound ==
    /\ epc = "exec"
    /\ unapplied = <<>> /\ round < Rounds
    /\ \A s \in Slots : view[s] # {}
    /\ \E writes \in Effects(ebatch.batch_id, round, view) :
        /\ unapplied' = writes
        /\ effects' = effects \o writes
    /\ view' = Nothing /\ round' = round + 1
    /\ UNCHANGED <<controllerVars, cacheVars, backendVars, idVars, orderVars,
                   epc, ebatch, loaded, records, rest, chanVars, commitVars,
                   serial>>

\* _execute, the last round: what it writes is still to be applied; then
\* execute_batch_with_effects returns the effects of all rounds, which are
\* encoded into records.
ExecuteBatch ==
    /\ epc = "exec"
    /\ unapplied = <<>> /\ round = Rounds
    /\ \A s \in Slots : view[s] # {}
    /\ \E writes \in Effects(ebatch.batch_id, round, view) :
        /\ unapplied' = writes
        /\ records' = encode_records(effects \o writes)
        /\ rest' = encode_records(effects \o writes)
        /\ serial' = Overwrite(serial, effects \o writes)
    /\ view' = Nothing /\ effects' = <<>> /\ round' = 1
    /\ epc' = "pages"
    /\ UNCHANGED <<controllerVars, cacheVars, backendVars, idVars, orderVars,
                   ebatch, loaded, chanVars, commitVars>>

\* apply of one write of the round: the store may be written by commit_worker
\* in between.
ExecApply ==
    /\ epc \in {"exec", "pages"}
    /\ unapplied # <<>>
    /\ \E persisted \in BOOLEAN :
        /\ StoreMayFail \/ persisted
        /\ apply(Head(unapplied), persisted)
    /\ unapplied' = Tail(unapplied)
    /\ UNCHANGED <<controllerVars, l1, frozen, l2, pending, completed_batch,
                   visible_batch, idVars, orderVars, epc, ebatch, loaded, round,
                   view, effects, records, rest, chanVars, commitVars, serial>>

\* on_batch_exec_complete, write_delta_pages: the next page goes into L1.
ExecWritePage ==
    /\ epc = "pages"
    /\ unapplied = <<>> /\ rest # <<>>
    /\ LET n == page_len(rest)
       IN  /\ write_delta_page(SubSeq(rest, 1, n))
           /\ rest' = SubSeq(rest, n + 1, Len(rest))
    /\ UNCHANGED <<controllerVars, l2, db, pending, completed_batch,
                   backendVars, idVars, orderVars, epc, ebatch, loaded, round,
                   view, unapplied, effects, records, chanVars, commitVars,
                   serial>>

\* on_batch_exec_complete once all pages are in L1, set_visible_batch.
ExecComplete ==
    /\ epc = "pages"
    /\ unapplied = <<>> /\ rest = <<>>
    /\ pending' = [pending EXCEPT ![ebatch.batch_id] = records]
    /\ mark_batch_complete(ebatch.batch_id)
    /\ last_exec_complete' = ebatch.batch_id
    /\ visible_batch' = ebatch.batch_id
    /\ epc' = "exit"
    /\ UNCHANGED <<controllerVars, l1, frozen, l2, db, inner, next_batch_id,
                   orderVars, ebatch, loaded, round, view, unapplied, effects,
                   records, rest, chanVars, commitVars, serial>>

\* on_batch_exit(Exec), the result and the commit work are sent.
ExecExit ==
    /\ epc = "exit"
    /\ on_batch_exit("Exec", ebatch.gas_weight, w["Exec"])
    /\ results' = Append(results, ebatch.batch_id)
    /\ commit_q' = Append(commit_q, [batch_id |-> ebatch.batch_id,
                                     delta_bytes |-> Len(records)])
    /\ ebatch' = None /\ loaded' = 0 /\ records' = <<>>
    /\ epc' = "recv"
    /\ UNCHANGED <<cacheVars, backendVars, idVars, orderVars, round, view,
                   unapplied, effects, rest, exec_q, exec_tx, commit_tx,
                   commitVars, serial>>

\* Mutant: the worker ends with the sender, batches may be left in the channel.
ExecStopUndrained ==
    /\ epc = "recv"
    /\ exec_tx = "dropped"
    /\ epc' = "done"
    /\ commit_tx' = "dropped"
    /\ UNCHANGED <<controllerVars, cacheVars, backendVars, idVars, orderVars,
                   ebatch, loaded, round, view, unapplied, effects, records,
                   rest, exec_q, exec_tx, results, commit_q, commitVars,
                   serial>>

\* Mutant: a sender of the commit channel outlives the worker.
ExecStopKeepsSender ==
    /\ epc = "recv"
    /\ exec_q = <<>> /\ exec_tx = "dropped"
    /\ epc' = "done"
    /\ UNCHANGED <<controllerVars, cacheVars, backendVars, idVars, orderVars,
                   ebatch, loaded, round, view, unapplied, effects, records,
                   rest, chanVars, commitVars, serial>>

\* The channel is closed and drained: the worker ends and drops commit_tx.
ExecStop ==
    /\ epc = "recv"
    /\ exec_q = <<>> /\ exec_tx = "dropped"
    /\ epc' = "done"
    /\ commit_tx' = "dropped"
    /\ UNCHANGED <<controllerVars, cacheVars, backendVars, idVars, orderVars,
                   ebatch, loaded, round, view, unapplied, effects, records,
                   rest, exec_q, exec_tx, results, commit_q, commitVars,
                   serial>>

ExecWorker ==
    \/ ExecRecv \/ ExecExitOrder \/ ExecEnter
    \/ \E s \in Slots : ExecRead(s)
    \/ ExecuteRound \/ ExecuteBatch \/ ExecApply \/ ExecWritePage \/ ExecComplete
    \/ ExecExit \/ ExecStop

------------------------------------------------------------------------------
(* commit_worker (P3) *)

\* commit_rx.recv, wait_can_push(Commit), on_batch_enter(Commit).
CommitRecv ==
    /\ cpc = "recv"
    /\ commit_q # <<>>
    /\ can_push("Commit")
    /\ work' = Head(commit_q) /\ commit_q' = Tail(commit_q)
    /\ on_batch_enter("Commit", Head(commit_q).delta_bytes)
    /\ cpc' = "take"
    /\ UNCHANGED <<cacheVars, backendVars, idVars, orderVars, execVars, exec_q,
                   exec_tx, results, commit_tx, entries, stored, serial>>

\* Mutant: the pages are copied and not removed.
CommitTakeKeepsPages ==
    /\ cpc = "take"
    /\ entries' = IF pending[work.batch_id] = None THEN <<>>
                                                   ELSE pending[work.batch_id]
    /\ stored' = 0
    /\ cpc' = IF entries' = <<>> THEN "exit" ELSE "put"
    /\ UNCHANGED <<controllerVars, cacheVars, backendVars, idVars, orderVars,
                   execVars, chanVars, work, serial>>

\* commit_batch takes the pages out of pending_batch_pages.
CommitTake ==
    /\ cpc = "take"
    /\ entries' = IF pending[work.batch_id] = None THEN <<>>
                                                   ELSE pending[work.batch_id]
    /\ pending' = [pending EXCEPT ![work.batch_id] = None]
    /\ stored' = 0
    /\ cpc' = IF entries' = <<>> THEN "exit" ELSE "put"
    /\ UNCHANGED <<controllerVars, l1, frozen, l2, db, completed_batch,
                   backendVars, idVars, orderVars, execVars, chanVars, work,
                   serial>>

\* commit_batch, put_batch: one entry is stored.
CommitPut ==
    /\ cpc = "put"
    /\ put(entries[stored + 1])
    /\ stored' = stored + 1
    /\ cpc' = IF stored + 1 = Len(entries) THEN "l2" ELSE "put"
    /\ UNCHANGED <<controllerVars, l1, frozen, l2, pending, completed_batch,
                   backendVars, idVars, orderVars, execVars, chanVars, work,
                   entries, serial>>

\* commit_batch, put_batch: the store returns an error, commit_batch with it.
CommitPutFails ==
    /\ cpc = "put"
    /\ StoreMayFail
    /\ cpc' = "exit"
    /\ UNCHANGED <<controllerVars, cacheVars, backendVars, idVars, orderVars,
                   execVars, chanVars, work, entries, stored, serial>>

\* commit_batch: the stored entries enter L2.
CommitL2 ==
    /\ cpc = "l2"
    /\ insert_batch(entries)
    /\ cpc' = "exit"
    /\ UNCHANGED <<controllerVars, l1, frozen, db, pending, completed_batch,
                   backendVars, idVars, orderVars, execVars, chanVars, work,
                   entries, stored, serial>>

\* on_batch_exit(Commit).
CommitExit ==
    /\ cpc = "exit"
    /\ on_batch_exit("Commit", work.delta_bytes, w["Commit"])
    /\ work' = None /\ entries' = <<>> /\ stored' = 0
    /\ cpc' = "recv"
    /\ UNCHANGED <<cacheVars, backendVars, idVars, orderVars, execVars,
                   chanVars, serial>>

\* The channel is closed and drained.
CommitStop ==
    /\ cpc = "recv"
    /\ commit_q = <<>> /\ commit_tx = "dropped"
    /\ cpc' = "done"
    /\ UNCHANGED <<controllerVars, cacheVars, backendVars, idVars, orderVars,
                   execVars, chanVars, work, entries, stored, serial>>

CommitWorker ==
    \/ CommitRecv \/ CommitTake \/ CommitPut \/ CommitPutFails \/ CommitL2
    \/ CommitExit \/ CommitStop

------------------------------------------------------------------------------
Next ==
    \/ \E n \in BatchIds : Execute(n)
    \/ OrderTask \/ ExecWorker \/ CommitWorker

Spec == Init /\ [][Next]_vars

\* The tokio runtime polls every task that is not waiting for another one.
Fairness ==
    WF_vars(OrderTask) /\ WF_vars(ExecWorker) /\ WF_vars(CommitWorker)

FairSpec == Spec /\ Fairness

------------------------------------------------------------------------------
(* Properties *)

HeldBatch == ebatch.batch_id

Ids(queue) == {queue[i].batch_id : i \in DOMAIN queue}

\* The newest record of a key in L1 or on its way into it.
Newest(k) == lookup(l1 \o rest, k)

\* The premises under which the overlay shows the state of the predecessors:
\* the slots in use have different keys, and no write zeroes a slot that may
\* have been hydrated.
DistinctKeys ==
    \A s, t \in Slots : EncodeKey[s] = EncodeKey[t] => s = t

ZeroSafe ==
    \A b \in BatchIds, r \in 1..Rounds : \A seen \in [Slots -> SUBSET Values] :
        \A writes \in Effects(b, r, seen) : \A i \in DOMAIN writes :
            writes[i].value = Zero => Genesis[writes[i].slot] = {}

LastExecuted == IF epc = "pages" THEN HeldBatch ELSE last_exec_complete

Serial == INSTANCE SerialBatches WITH state <- serial, executed <- LastExecuted

\* The pipeline implements serial execution of the batches: whatever the commit
\* worker, the flushes, evictions and store errors do meanwhile, a batch reads
\* from each slot exactly the value its predecessors left (README: "Uncommitted
\* L1 state is visible to subsequent batches").  Only the transactions it
\* re-executes may, instead, read what the batch itself has written before: they
\* do so when the slot is in neither cache level.
ExecutesSerially == Serial!Spec

\* While a batch executes, the visible batch is its predecessor and the cache
\* has it complete, so TwoLevelCache::read never refuses a lookup.
PredecessorVisible ==
    epc = "exec" => /\ visible_batch = HeldBatch - 1
                    /\ completed_batch = HeldBatch - 1

WindowCap == IF ZetaMax = 0 THEN 1 ELSE ZetaMax

\* Each stage counts exactly the batches inside it, and no stage holds more
\* than zeta_max of them (one, when zeta_max is zero).
InFlightExact ==
    /\ in_flight["Order"] = Len(exec_q) + (IF epc = "exit_order" THEN 1 ELSE 0)
    /\ in_flight["Exec"] = IF epc \in {"exec", "pages", "exit"} THEN 1 ELSE 0
    /\ in_flight["Commit"] = IF cpc \in {"take", "put", "l2", "exit"} THEN 1 ELSE 0
    /\ \A s \in Stages : in_flight[s] <= WindowCap

\* The gas of the batches of a queue.
GasOf(queue) ==
    LET upto[n \in 0..Len(queue)] ==
            IF n = 0 THEN 0 ELSE upto[n - 1] + queue[n].gas_weight
    IN  upto[Len(queue)]

\* Two tasks update the weight of Order, and the load and the store of
\* on_batch_exit are apart: a batch that enters between them is not counted.
OrderWeightBounded ==
    w["Order"] <= GasOf(exec_q) + (IF epc = "exit_order" THEN ebatch.gas_weight ELSE 0)

WorkerWeightsExact ==
    /\ w["Exec"] = IF epc \in {"exec", "pages", "exit"} THEN ebatch.gas_weight ELSE 0
    /\ w["Commit"] = IF cpc \in {"take", "put", "l2", "exit"}
                     THEN work.delta_bytes ELSE 0

\* The weight of Exec and of Commit is that of the batch inside.  The weight of
\* Order may lose a batch to the race of on_batch_enter with on_batch_exit, but
\* is never more than that of the batches inside: none weighs for ever.
WeightsTracked == OrderWeightBounded /\ WorkerWeightsExact

\* The order window never closes, whatever lambda2 is: exec_worker leaves Order
\* only between two of its batches, when nothing weighs on Exec.  The load of
\* Exec is meant to close it (README, config.rs and the test of the controller
\* "overloaded downstream -> close window"); it does not in the bridge.
OrderWindowOpen == zeta["Order"] >= 1

\* Pages wait for P3 exactly while their batch is on its way to the commit
\* worker: none is left behind in the map when execute returns, and none that
\* commit_batch will look for is missing.
PagesTracked ==
    \A b \in BatchIds : pending[b] # None <=>
        \/ b \in Ids(commit_q)
        \/ epc = "exit" /\ b = HeldBatch
        \/ cpc = "take" /\ b = work.batch_id

\* "Per-batch delta pages retained until P3 commit succeeds": a batch whose
\* commit the store refused still has its pages, so that it can be committed
\* again.
RetainedUntilCommitted ==
    cpc = "exit" /\ stored < Len(entries) => pending[work.batch_id] = entries

\* A key that has left L1 reads the same from L2 as from the store, except one
\* that the executing batch has written already.
LevelsCoherent ==
    \A k \in Keys : /\ Newest(k) = None /\ l2[k] # None
                    /\ \A i \in DOMAIN effects : EncodeKey[effects[i].slot] # k
                    => db[DecodeKey[k]] = cell_value(l2[k])

\* When execute returns, it has a result for each batch of the call, in order.
ResultsComplete ==
    opc = "flush" =>
        results = [i \in 1..call_len |-> next_batch_id - 1 - call_len + i]

\* Every call of execute returns, whatever the store does.
ExecuteReturns == (opc = "wait") ~> (opc = "idle")

\* The windows follow the weight downstream (PipelineController's comment; its
\* test expects an open window once the load has left): a batch waiting for a
\* closed window with nothing left in Commit sees it open again.
ExecWindowReopens ==
    (epc = "wait" /\ zeta["Exec"] = 0 /\ w["Commit"] = 0) ~> (zeta["Exec"] >= 1)

\* "Chase executed and persisted consensus output": when execute has returned
\* the store holds the state its batches left.
PersistedOnReturn ==
    opc = "idle" =>
        \A s \in Slots : db[DecodeKey[EncodeKey[s]]] = cell_value(serial[s])
==============================================================================
