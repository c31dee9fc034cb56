--------------------------------- MODULE Seer ---------------------------------
(***************************************************************************)
(* Seer's pre-execution cache under ChaseCore (chase/src/seer, used by     *)
(* ConcurrencyLevelManager::_simulate and _re_execute): the threads of one *)
(* batch look their transactions up by fingerprint, simulate the ones that *)
(* miss on the state before the batch and insert the results.  The state   *)
(* is what EV-BLP makes visible between batches; a restart keeps it and    *)
(* loses the cache.                                                        *)
(***************************************************************************)
EXTENDS Naturals, FiniteSets

CONSTANTS
    Transactions,   \* the ordered transactions, each executed once
    Fingerprint,    \* TxFingerprint::from_tx: caller, target, value, data, gas
    Slot,           \* the slot that a transaction increments
    Fails,          \* Fails[t]: the call of t reverts when its slot holds this
    enable_cache,   \* SeerConfig::enable_cache
    MaxRestarts     \* bound: restarts of the node

VARIABLES
    state,      \* the committed value of each slot
    cache,      \* PreExecutionCache: fingerprint -> cached effect
    pc,         \* where the thread of each transaction stands
    effect,     \* the effect that seer_simulate_tx returns; None if reverted
    restarts

vars == <<state, cache, pc, effect, restarts>>

None == 0

Slots == {Slot[t] : t \in Transactions}

\* Two transactions of one batch do not conflict here: conflicts are the
\* subject of ChaseCore.
Batches == {txs \in SUBSET Transactions : \A t, u \in txs : Slot[t] = Slot[u] => t = u}

Init ==
    /\ state = [s \in Slots |-> 0]
    /\ cache = [f \in {} |-> None]
    /\ pc = [t \in Transactions |-> "ordered"]
    /\ effect = [t \in Transactions |-> None]
    /\ restarts = 0

Running == {t \in Transactions : pc[t] \notin {"ordered", "committed"}}

\* simulate_tx: the effect of a transaction on a snapshot.
simulate_tx(t, snapshot) ==
    IF snapshot[Slot[t]] = Fails[t] THEN None ELSE snapshot[Slot[t]] + 1

\* _simulate: one thread for each transaction of the batch.
StartBatch(txs) ==
    /\ Running = {} /\ txs # {}
    /\ \A t \in txs : pc[t] = "ordered"
    /\ pc' = [t \in Transactions |-> IF t \in txs THEN "lookup" ELSE pc[t]]
    /\ UNCHANGED <<state, cache, effect, restarts>>

\* SharedPreExecutionCache::get, under the lock of the cache.
Lookup(t) ==
    /\ pc[t] = "lookup"
    /\ IF enable_cache /\ Fingerprint[t] \in DOMAIN cache
       THEN /\ effect' = [effect EXCEPT ![t] = cache[Fingerprint[t]]]
            /\ pc' = [pc EXCEPT ![t] = "simulated"]
       ELSE pc' = [pc EXCEPT ![t] = "simulate"] /\ UNCHANGED effect
    /\ UNCHANGED <<state, cache, restarts>>

\* simulate_tx outside of the lock; a reverted transaction is not cached.
Simulate(t) ==
    /\ pc[t] = "simulate"
    /\ effect' = [effect EXCEPT ![t] = simulate_tx(t, state)]
    /\ pc' = [pc EXCEPT ![t] = IF enable_cache /\ effect'[t] # None
                               THEN "insert" ELSE "simulated"]
    /\ UNCHANGED <<state, cache, restarts>>

\* SharedPreExecutionCache::insert.
Insert(t) ==
    /\ pc[t] = "insert"
    /\ cache' = [f \in DOMAIN cache \cup {Fingerprint[t]} |->
                    IF f = Fingerprint[t] THEN effect[t] ELSE cache[f]]
    /\ pc' = [pc EXCEPT ![t] = "simulated"]
    /\ UNCHANGED <<state, effect, restarts>>

\* The effects of the batch are committed; reverted transactions have none.
Commit ==
    /\ Running # {}
    /\ \A t \in Running : pc[t] = "simulated"
    /\ state' = [s \in Slots |->
                    LET writers == {t \in Running : Slot[t] = s /\ effect[t] # None}
                    IN  IF writers = {} THEN state[s]
                        ELSE effect[CHOOSE t \in writers : TRUE]]
    /\ pc' = [t \in Transactions |-> IF t \in Running THEN "committed" ELSE pc[t]]
    /\ UNCHANGED <<cache, effect, restarts>>

\* The node restarts between two batches: SeerContext::from_env.
Restart ==
    /\ restarts < MaxRestarts
    /\ Running = {}
    /\ cache' = [f \in {} |-> None]
    /\ restarts' = restarts + 1
    /\ UNCHANGED <<state, pc, effect>>

Next ==
    \/ \E txs \in Batches : StartBatch(txs)
    \/ \E t \in Transactions : Lookup(t) \/ Simulate(t) \/ Insert(t)
    \/ Commit
    \/ Restart

Spec == Init /\ [][Next]_vars

------------------------------------------------------------------------------
\* A batch executes on the state that the batches before it left: what a
\* thread of _simulate returns is what its transaction does to that state.
\* README.md:17 promises this visibility "on the EVM read path", which a hit of
\* the cache does not take; a node that restarted between two batches, and so
\* misses, commits another state than one that did not.
SimulatesOnPredecessor ==
    \A t \in Running : pc[t] = "simulated" => effect[t] = simulate_tx(t, state)
===============================================================================
