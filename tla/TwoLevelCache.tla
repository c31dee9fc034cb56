---------------------------- MODULE TwoLevelCache ----------------------------
(***************************************************************************)
(* The two-level state cache of the EV-BLP pipeline (chase/src/executor/   *)
(* cache): L1 holds the delta pages of executed batches in an active and a *)
(* list of frozen MemIndexTables, L2 an LRU of committed entries, db is    *)
(* the persistent store behind RocksDbStateStore                           *)
(* (stack/src/rocksdb_state_store.rs), which addresses cells by decoded    *)
(* keys and removes a cell on a zero value.                                *)
(*                                                                         *)
(* l1 lists the records of all tables, oldest table and oldest record      *)
(* first; frozen holds the positions where the frozen tables end, and the  *)
(* active table is what follows.  Sizes are counted in records.            *)
(***************************************************************************)
EXTENDS DeltaRecords

CONSTANTS MaxBatch,         \* bound on the batches of a behaviour
          L1Capacity,       \* CacheConfig::l1_capacity_bytes, in records
          PageLimit         \* CacheConfig::deltapage_max_records.min(128)

ASSUME CacheAssumption ==
    /\ MaxBatch \in Nat
    /\ L1Capacity \in Nat
    /\ PageLimit \in Nat \ {0}

BatchIds == 1..MaxBatch

VARIABLES l1, frozen,       \* L1Cache: records, ends of the frozen tables
          l2, db,           \* L2Cache, RocksDB cells
          pending,          \* pending_batch_pages: batch id -> records
          completed_batch   \* highest batch marked complete

cacheVars == <<l1, frozen, l2, db, pending, completed_batch>>

CacheTypeOK ==
    /\ l1 \in Seq(Records)
    /\ frozen \in Seq(Nat)
    /\ l2 \in [Keys -> Values \cup {None}]
    /\ db \in [Cells -> Values \cup {None}]
    /\ pending \in [BatchIds -> Seq(Records) \cup {None}]
    /\ completed_batch \in Nat

------------------------------------------------------------------------------
(* Lookups *)

\* Mutant: the tables are searched from the oldest record on.
l1_read_oldest(k) ==
    LET found == PositionsOf(l1, k)
    IN  IF found = {} THEN None
        ELSE l1[CHOOSE i \in found : \A j \in found : i <= j].value

\* L1Cache::read: the active table, then the frozen ones from new to old, each
\* by its last record for the key: the last record of all.
l1_read(k) == lookup(l1, k)

\* The levels of TwoLevelCache::read below its visibility test.
level_read(k) ==
    IF l1_read(k) # None THEN l1_read(k)
    ELSE IF l2[k] # None THEN l2[k]
    ELSE db[DecodeKey[k]]

\* TwoLevelCache::read.
read(k, visible_up_to) ==
    IF visible_up_to > completed_batch THEN None ELSE level_read(k)

------------------------------------------------------------------------------
(* Updates *)

\* put_storage_slot: what a cell holds after a value is put.
cell_value(v) == IF v = Zero THEN None ELSE v

\* into_delta_pages: how many of the records fill the next page.
page_len(records) ==
    IF Len(records) < PageLimit THEN Len(records) ELSE PageLimit

\* Where the active table begins.
ActiveStart == IF frozen = <<>> THEN 0 ELSE frozen[Len(frozen)]

\* L1Cache::write_delta_page with freeze_active: append, then freeze the table
\* once it has reached its capacity.
write_delta_page(page) ==
    /\ l1' = l1 \o page
    /\ frozen' = IF Len(l1) + Len(page) - ActiveStart >= L1Capacity
                 THEN Append(frozen, Len(l1) + Len(page)) ELSE frozen

\* L2Cache::insert_batch: the entries are inserted in order; each insertion may
\* evict least recently used entries but never the one it inserts.
insert_batch(records) ==
    \E evicted \in SUBSET (Keys \ {records[Len(records)].key}) :
        l2' = [k \in Keys |-> IF k \in evicted THEN None
                              ELSE IF lookup(records, k) # None
                              THEN lookup(records, k) ELSE l2[k]]

\* StateStore::put of one record.
put(record) ==
    db' = [db EXCEPT ![DecodeKey[record.key]] = cell_value(record.value)]

\* Mutant: the last record is not stored.
put_batch_short(records, n) ==
    LET PutsTo(c) == {i \in 1..(n - 1) : DecodeKey[records[i].key] = c}
    IN  db' = [c \in Cells |-> IF PutsTo(c) = {} THEN db[c]
                               ELSE cell_value(records[Last(PutsTo(c))].value)]

\* StateStore::put_batch that stops with an error before record n + 1 (or
\* succeeds when n is the number of records).
put_batch(records, n) ==
    LET PutsTo(c) == {i \in 1..n : DecodeKey[records[i].key] = c}
    IN  db' = [c \in Cells |-> IF PutsTo(c) = {} THEN db[c]
                               ELSE cell_value(records[Last(PutsTo(c))].value)]

\* Mutant: the batch is not marked.
mark_batch_complete_forgotten(b) == UNCHANGED completed_batch

mark_batch_complete(b) ==
    completed_batch' = IF b > completed_batch THEN b ELSE completed_batch

OldestTable == SubSeq(l1, 1, frozen[1])

\* flush_frozen_tables, success for the oldest frozen table: stored, inserted
\* in L2, drained and removed.
flush_oldest ==
    /\ frozen # <<>>
    /\ put_batch(OldestTable, Len(OldestTable))
    /\ insert_batch(OldestTable)
    /\ l1' = SubSeq(l1, frozen[1] + 1, Len(l1))
    /\ frozen' = [i \in 1..(Len(frozen) - 1) |-> frozen[i + 1] - frozen[1]]
    /\ UNCHANGED <<pending, completed_batch>>

\* flush_frozen_tables, a put of the oldest frozen table fails: the records
\* before it are stored, the table stays in L1.
flush_oldest_fails ==
    /\ frozen # <<>>
    /\ \E n \in 0..(frozen[1] - 1) : put_batch(OldestTable, n)
    /\ UNCHANGED <<l1, frozen, l2, pending, completed_batch>>
==============================================================================
