--------------------------- MODULE LayeredBackend ---------------------------
(***************************************************************************)
(* The EVM backend of the stack: CacheOverlayBackend                       *)
(* (chase/src/executor/cache/cache_overlay.rs) over                        *)
(* PersistableCMemoryBackend (stack/src/layered_backend.rs), which writes  *)
(* every apply through to RocksDB (stack/src/rocksdb_store.rs).  Storage   *)
(* slots only; accounts are not modelled.                                  *)
(***************************************************************************)
EXTENDS TwoLevelCache

CONSTANTS Genesis      \* cell -> values it may hold when the node starts

ASSUME GenesisAssumption == Genesis \in [Cells -> SUBSET (Values \ {Zero})]

VARIABLES inner,         \* CMemoryBackend's slots
          visible_batch  \* L1Visibility::visible_batch

backendVars == <<inner, visible_batch>>

BackendTypeOK ==
    /\ inner \in [Slots -> Values]
    /\ visible_batch \in Nat

\* hydrate_memory_backend: slots of the accounts that could be loaded are
\* copied, the others read as zero.
hydrated(loaded_slots) ==
    [s \in Slots |-> IF s \in loaded_slots /\ db[s] # None THEN db[s] ELSE Zero]

\* ChaseStorage::open on what earlier runs left, an empty cache, hydration.
BackendInit ==
    /\ db \in [Cells -> Values \cup {None}]
    /\ \A c \in Cells : db[c] \in Genesis[c] \cup {None}
    /\ \E loaded_slots \in SUBSET Slots : inner = hydrated(loaded_slots)
    /\ l1 = <<>>
    /\ frozen = <<>>
    /\ l2 = [k \in Keys |-> None]
    /\ pending = [b \in BatchIds |-> None]
    /\ completed_batch = 0
    /\ visible_batch = 0

\* CacheOverlayBackend::storage.
storage(s) ==
    IF read(EncodeKey[s], visible_batch) # None
    THEN read(EncodeKey[s], visible_batch) ELSE inner[s]

\* CMemoryBackend::apply changes a clone of the account and drops it.
memory_apply == UNCHANGED inner

\* persist_applies stores the write at its slot, unless the store fails.
persist_applies(write, persisted) ==
    db' = IF persisted
          THEN [db EXCEPT ![write.slot] = cell_value(write.value)] ELSE db

\* PersistableCMemoryBackend::apply of one write; an error is only logged.
apply(write, persisted) ==
    /\ memory_apply
    /\ persist_applies(write, persisted)
=============================================================================
