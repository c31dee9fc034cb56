-------------------------- MODULE EvBlpCacheProofs ---------------------------
(***************************************************************************)
(* The contents of the cache levels. The argument is about Newest(k), the  *)
(* last record of a key in L1 or on its way into it: no step but the       *)
(* execution of a batch and the flush of a table changes it, and what the  *)
(* commit worker stores is shadowed by it. The pipeline implements the     *)
(* serial execution of its batches: serial, the state they left, is what   *)
(* the levels show of every slot, up to the writes of the batch that is    *)
(* executing.                                                              *)
(***************************************************************************)
EXTENDS EvBlpOrderProofs

(* A lookup answers exactly when a record has the key. *)
LEMMA LookupNone ==
    ASSUME NEW table \in Seq(Records), NEW k
    PROVE  lookup(table, k) # None <=> \E i \in DOMAIN table : table[i].key = k
<1>1. lookup(table, k) = None <=> PositionsOf(table, k) = {}
  BY LookupHit
<1> QED BY <1>1 DEF PositionsOf

(* A complete put_batch leaves in the cell of a key the last record of the   *)
(* key.                                                                      *)
LEMMA PutBatchEffect ==
    ASSUME NEW recs \in Seq(Records), put_batch(recs, Len(recs)),
           NEW k \in Keys
    PROVE  db'[DecodeKey[k]] = IF lookup(recs, k) = None THEN db[DecodeKey[k]]
                               ELSE cell_value(lookup(recs, k))
<1> DEFINE PutsTo(c) == {i \in 1..Len(recs) : DecodeKey[recs[i].key] = c}
<1>1. \A i \in 1..Len(recs) : recs[i].key \in Keys
  <2>1. \A i \in 1..Len(recs) : recs[i] \in Records
    BY ElementOfSeq
  <2> QED BY <2>1 DEF Records
<1>2. PutsTo(DecodeKey[k]) = PositionsOf(recs, k)
  BY <1>1, KeyAssumption DEF PositionsOf
<1>3. DecodeKey[k] \in Cells
  BY RecordAssumption
<1>4. db'[DecodeKey[k]] =
        IF PutsTo(DecodeKey[k]) = {} THEN db[DecodeKey[k]]
        ELSE cell_value(recs[Last(PutsTo(DecodeKey[k]))].value)
  BY Zenon, <1>3 DEF put_batch
<1>5. lookup(recs, k) = None <=> PositionsOf(recs, k) = {}
  BY LookupHit
<1> HIDE DEF PutsTo
<1> QED BY <1>2, <1>4, <1>5 DEF lookup

(* put_batch, complete or not, leaves the cells of other keys alone:         *)
(* decode_key is injective.                                                  *)
LEMMA PutBatchOther ==
    ASSUME NEW recs \in Seq(Records), NEW n \in 0..Len(recs), put_batch(recs, n),
           NEW k \in Keys, lookup(recs, k) = None
    PROVE  db'[DecodeKey[k]] = db[DecodeKey[k]]
<1>1. \A i \in 1..Len(recs) : recs[i].key \in Keys
  <2>1. \A i \in 1..Len(recs) : recs[i] \in Records
    BY ElementOfSeq
  <2> QED BY <2>1 DEF Records
<1>2. \A i \in 1..Len(recs) : recs[i].key # k
  BY LookupNone
<1>3. {i \in 1..n : DecodeKey[recs[i].key] = DecodeKey[k]} = {}
  BY <1>1, <1>2, KeyAssumption
<1>4. DecodeKey[k] \in Cells
  BY RecordAssumption
<1> QED BY <1>3, <1>4 DEF put_batch

(* One put leaves the cells of other keys alone. *)
LEMMA PutEffect ==
    ASSUME db \in [Cells -> Values \cup {None}], NEW r \in Records, put(r),
           NEW k \in Keys, k # r.key
    PROVE  db'[DecodeKey[k]] = db[DecodeKey[k]]
BY RecordAssumption, KeyAssumption DEF put, Records

(* L2Cache::insert_batch leaves a key its last record, its old entry, or     *)
(* nothing when it was evicted.                                              *)
LEMMA InsertEffect ==
    ASSUME NEW recs, insert_batch(recs), NEW k \in Keys
    PROVE  l2'[k] \in {None, IF lookup(recs, k) # None THEN lookup(recs, k) ELSE l2[k]}
BY DEF insert_batch

(* The write-through of one write leaves the cells of other keys alone. *)
LEMMA ApplyEffect ==
    ASSUME db \in [Cells -> Values \cup {None}], NEW write \in Writes,
           NEW persisted, apply(write, persisted), NEW k \in Keys,
           EncodeKey[write.slot] # k
    PROVE  db'[DecodeKey[k]] = db[DecodeKey[k]]
<1>1. write.slot \in Slots
  BY DEF Writes
<1>2. write.slot # DecodeKey[k]
  BY <1>1, KeyAssumption
<1> QED BY <1>2 DEF apply, persist_applies

USE DEF Stages, BatchIds, MaxRetries

(* Only the execution of a batch and the flush of a table change the list of *)
(* L1 records, those on their way included.                                  *)
LEMMA NewestStep ==
    ASSUME ControlInv, [Next]_vars, ~ExecuteBatch, ~OrderFlush
    PROVE  l1' \o rest' = l1 \o rest
<1> USE DEF ControlInv
<1>f. l1 \in Seq(Records) /\ rest \in Seq(Records)
  BY DEF TypeOK, CacheTypeOK
<1>1. CASE ExecWritePage
  <2> DEFINE n == page_len(rest)
             page == SubSeq(rest, 1, n)
             later == SubSeq(rest, n + 1, Len(rest))
  <2>1. page \in Seq(Records) /\ later \in Seq(Records) /\ rest = page \o later
    BY Zenon, <1>1, <1>f, PageSplit DEF ExecWritePage
  <2>2. l1' = l1 \o page /\ rest' = later
    BY <1>1 DEF ExecWritePage, write_delta_page
  <2> HIDE DEF n, page, later
  <2>3. (l1 \o page) \o later = l1 \o (page \o later)
    BY <1>f, <2>1, ConcatAssociative
  <2> QED BY <2>1, <2>2, <2>3
<1>2. CASE ~ExecWritePage
  <2>1. UNCHANGED <<l1, rest>>
    BY Zenon, <1>2 DEF Next, OrderTask, ExecWorker, CommitWorker, vars, cacheVars,
       execVars,
      Execute, OrderReadWindow, OrderCheckInFlight, OrderEnter, OrderJoin,
      OrderFlushFails, flush_oldest_fails, OrderReturn, ExecRecv, ExecExitOrder,
      ExecEnter, ExecRead, ExecuteRound, ExecApply, ExecComplete, ExecExit, ExecStop, CommitRecv, CommitTake, CommitPut, CommitPutFails,
      CommitL2, CommitExit, CommitStop
  <2> QED BY <2>1
<1> QED BY <1>1, <1>2

(* Between the page writes of two batches L1 holds all records. *)
LEMMA NewestEmpty ==
    ASSUME ControlInv, epc # "pages"
    PROVE  rest = <<>> /\ \A k : Newest(k) = l1_read(k)
<1>1. rest = <<>>
  BY DEF ControlInv, Holding
<1>2. l1 \o rest = l1
  BY <1>1, ConcatEmptySeq DEF ControlInv, TypeOK, CacheTypeOK
<1> QED BY <1>1, <1>2 DEF Newest, l1_read

(* After a batch executed, its own records are the newest. *)
LEMMA NewestExecute ==
    ASSUME ControlInv, ExecuteBatch, NEW k
    PROVE  /\ rest' \in Seq(Records)
           /\ Newest(k)' = IF lookup(rest', k) # None THEN lookup(rest', k) ELSE Newest(k)
<1>1. TypeOK'
  BY TypeExec DEF ExecWorker
<1>2. l1' = l1 /\ l1 \in Seq(Records) /\ rest' \in Seq(Records)
  BY <1>1 DEF ControlInv, TypeOK, CacheTypeOK, ExecuteBatch, cacheVars
<1>3. Newest(k) = lookup(l1, k)
  BY NewestEmpty DEF ExecuteBatch, l1_read
<1>4. lookup(l1 \o rest', k) =
        IF lookup(rest', k) # None THEN lookup(rest', k) ELSE lookup(l1, k)
  BY <1>2, LookupConcat
<1> QED BY <1>2, <1>3, <1>4 DEF Newest

(* The flush removes the oldest table: a key keeps its newest record, or     *)
(* that was in the flushed table.                                            *)
LEMMA NewestFlush ==
    ASSUME ControlInv, OrderFlush, NEW k
    PROVE  /\ OldestTable \in Seq(Records)
           /\ Newest(k) = IF Newest(k)' # None THEN Newest(k)' ELSE lookup(OldestTable, k)
<1>1. epc = "done" /\ epc' = epc /\ rest' = rest
  BY DEF ControlInv, Lifecycle, OrderFlush, execVars
<1>2. rest = <<>> /\ Newest(k) = lookup(l1, k)
  BY <1>1, NewestEmpty DEF l1_read
<1>3. /\ l1 \in Seq(Records) /\ frozen \in Seq(Nat) /\ frozen # <<>>
      /\ l1' = SubSeq(l1, frozen[1] + 1, Len(l1))
  BY DEF ControlInv, TypeOK, CacheTypeOK, OrderFlush, flush_oldest
<1>4. /\ frozen[1] \in 1..Len(l1)
      /\ OldestTable \in Seq(Records) /\ Len(OldestTable) = frozen[1]
      /\ l1' \in Seq(Records) /\ Len(l1') = Len(l1) - frozen[1]
  BY <1>3, OldestTableType DEF ControlInv
<1>5. l1 = OldestTable \o l1'
  BY ZenonT(30), <1>3, <1>4, CutSeq DEF OldestTable
<1>6. lookup(l1, k) = IF lookup(l1', k) # None THEN lookup(l1', k)
                      ELSE lookup(OldestTable, k)
  <2> HIDE DEF OldestTable
  <2> QED BY <1>4, <1>5, LookupConcat
<1>7. l1' \o rest' = l1'
  BY <1>1, <1>2, <1>4, ConcatEmptySeq
<1> QED BY <1>2, <1>4, <1>6, <1>7 DEF Newest

(* Every step keeps what commit_worker has taken, or may take, covered by    *)
(* records of L1: only the flush removes records, and execute flushes after  *)
(* commit_worker has ended.                                                  *)
LEMMA ShadowStep ==
    ASSUME ControlInv, PagesTracked, ShadowInv, [Next]_vars
    PROVE  ShadowInv'
<1> USE DEF ControlInv
<1>f. /\ l1 \in Seq(Records) /\ rest \in Seq(Records) /\ records \in Seq(Records)
      /\ pending \in [BatchIds -> Seq(Records) \cup {None}]
  BY DEF TypeOK, CacheTypeOK
<1>1. CASE ExecuteBatch
  <2>1. PICK writes \in Effects(ebatch.batch_id, round, view) :
          /\ unapplied' = writes
          /\ records' = encode_records(effects \o writes)
          /\ rest' = encode_records(effects \o writes)
    BY Zenon, <1>1 DEF ExecuteBatch
  <2>2. UNCHANGED <<l1, entries, pending>> /\ epc' = "pages"
    BY <1>1 DEF ExecuteBatch, commitVars, cacheVars
  <2>3. \A k : lookup(rest', k) # None => Newest(k)' # None
    BY <1>1, NewestExecute
  <2>4. \A i \in DOMAIN records' : lookup(rest', records'[i].key) # None
    BY <1>1, <2>1, NewestExecute, LookupNone
  <2>5. (\A i \in DOMAIN records : Newest(records[i].key) # None)'
    BY <2>3, <2>4 DEF Newest
  <2>6. effects \in Seq(Writes) /\ writes \in Seq(Writes)
    <3>1. ebatch.batch_id \in BatchIds
      BY <1>1, QueueIds DEF Holding, ExecuteBatch
    <3> QED BY Zenon, <3>1, BridgeAssumption DEF TypeOK
  <2>7. \A i \in 1..Len(writes) : /\ Len(effects) + i \in 1..Len(effects \o writes)
                                  /\ (effects \o writes)[Len(effects) + i] = writes[i]
    BY <2>6, ConcatProperties
  <2>8. (\A i \in DOMAIN unapplied : Newest(EncodeKey[unapplied[i].slot]) # None)'
    <3>1. \A i \in DOMAIN writes :
            /\ Len(effects) + i \in DOMAIN records'
            /\ records'[Len(effects) + i].key = EncodeKey[writes[i].slot]
      <4>1. DOMAIN (effects \o writes) = 1..Len(effects \o writes)
            /\ DOMAIN writes = 1..Len(writes)
        BY <2>6, ConcatProperties
      <4> QED BY <2>1, <2>7, <4>1 DEF encode_records
    <3> QED BY <2>1, <2>5, <3>1 DEF Newest
  <2> QED BY <2>2, <2>5, <2>8 DEF ShadowInv, Shadowed, l1_read
<1>10. CASE ExecuteRound
  <2>1. PICK writes \in Effects(ebatch.batch_id, round, view) :
          unapplied' = writes /\ effects' = effects \o writes
    BY Zenon, <1>10 DEF ExecuteRound
  <2>2. UNCHANGED <<l1, rest, records, entries, pending>> /\ epc' = "exec"
    BY <1>10 DEF ExecuteRound, commitVars, cacheVars
  <2>3. effects \in Seq(Writes) /\ writes \in Seq(Writes)
    <3>1. ebatch.batch_id \in BatchIds
      BY <1>10, QueueIds DEF Holding, ExecuteRound
    <3> QED BY Zenon, <3>1, BridgeAssumption DEF TypeOK
  <2>4. \A i \in DOMAIN unapplied' : \E j \in DOMAIN effects' : unapplied'[i] = effects'[j]
    <3>1. \A i \in 1..Len(writes) : /\ Len(effects) + i \in 1..Len(effects \o writes)
                                    /\ (effects \o writes)[Len(effects) + i] = writes[i]
      BY <2>3, ConcatProperties
    <3>2. DOMAIN (effects \o writes) = 1..Len(effects \o writes)
          /\ DOMAIN writes = 1..Len(writes)
      BY <2>3, ConcatProperties
    <3> QED BY Zenon, <2>1, <3>1, <3>2
  <2> QED BY <2>2, <2>4 DEF ShadowInv, Shadowed, l1_read, Newest
<1>9. CASE ExecApply
  <2>1. /\ UNCHANGED <<l1, rest, records, entries, pending, effects, epc>>
        /\ unapplied' = Tail(unapplied) /\ unapplied # <<>>
        /\ unapplied \in Seq(Writes)
    BY <1>9 DEF ExecApply, commitVars, TypeOK
  <2>2. \A i \in DOMAIN unapplied' :
            i + 1 \in DOMAIN unapplied /\ unapplied'[i] = unapplied[i + 1]
    BY <2>1
  <2>3. UNCHANGED (l1 \o rest)
    BY Zenon, <2>1
  <2>4. /\ epc' = "pages" => (\A i \in DOMAIN unapplied :
                              Newest(EncodeKey[unapplied[i].slot]) # None)'
        /\ epc' = "exec" => (\A i \in DOMAIN unapplied :
                              \E j \in DOMAIN effects : unapplied[i] = effects[j])'
    <3>1. ASSUME epc' = "pages", NEW i \in DOMAIN unapplied'
          PROVE  lookup(l1' \o rest', EncodeKey[unapplied'[i].slot]) # None
      <4>1. i + 1 \in DOMAIN unapplied /\ unapplied'[i] = unapplied[i + 1] /\ epc = "pages"
        BY Zenon, <2>1, <2>2, <3>1
      <4>2. lookup(l1 \o rest, EncodeKey[unapplied[i + 1].slot]) # None
        BY Zenon, <4>1 DEF ShadowInv, Newest
      <4> QED BY Zenon, <2>3, <4>1, <4>2
    <3>2. ASSUME epc' = "exec", NEW i \in DOMAIN unapplied'
          PROVE  \E j \in DOMAIN effects' : unapplied'[i] = effects'[j]
      <4>1. i + 1 \in DOMAIN unapplied /\ unapplied'[i] = unapplied[i + 1] /\ epc = "exec"
        BY Zenon, <2>1, <2>2, <3>2
      <4>2. \E j \in DOMAIN effects : unapplied[i + 1] = effects[j]
        BY Zenon, <4>1 DEF ShadowInv
      <4> QED BY Zenon, <2>1, <4>1, <4>2
    <3> QED BY Zenon, <3>1, <3>2 DEF Newest
  <2>5. (\A i \in DOMAIN records : Newest(records[i].key) # None)'
    BY Zenon, <2>1, <2>3 DEF ShadowInv, Newest
  <2> QED BY <2>1, <2>4, <2>5 DEF ShadowInv, Shadowed, l1_read
<1>11. CASE ExecEnter
  <2>1. UNCHANGED <<l1, rest, records, entries, pending, unapplied>> /\ epc = "wait"
        /\ epc' = "exec"
    BY <1>11 DEF ExecEnter, commitVars, cacheVars
  <2>2. unapplied' = <<>>
    BY <2>1 DEF Holding
  <2> QED BY <2>1, <2>2 DEF ShadowInv, Shadowed, l1_read, Newest
<1>2. CASE ExecWritePage
  <2> DEFINE page == SubSeq(rest, 1, page_len(rest))
  <2>1. page \in Seq(Records) /\ l1' = l1 \o page
        /\ UNCHANGED <<entries, pending, records, unapplied, epc>> /\ epc = "pages"
    BY <1>2, <1>f, PageSplit DEF ExecWritePage, write_delta_page, commitVars
  <2> HIDE DEF page
  <2>2. \A k : l1_read(k) # None => l1_read(k)' # None
    BY <1>f, <2>1, LookupConcat DEF l1_read
  <2>3. \A k : Newest(k)' = Newest(k)
    BY Zenon, <1>2, NewestStep DEF Newest, ExecWritePage, ExecuteBatch, OrderFlush,
       Lifecycle, Next, ExecWorker
  <2> QED BY <2>1, <2>2, <2>3 DEF ShadowInv, Shadowed
<1>3. CASE ExecComplete
  <2>1. /\ epc = "pages" /\ epc' = "exit" /\ rest = <<>>
        /\ UNCHANGED <<l1, rest, entries, records, unapplied>>
        /\ pending' = [pending EXCEPT ![ebatch.batch_id] = records]
    BY <1>3 DEF ExecComplete, commitVars
  <2>2. l1 \o rest = l1
    BY <1>f, <2>1, ConcatEmptySeq
  <2>3. Shadowed(records)
    BY <2>2 DEF ShadowInv, Shadowed, Newest, l1_read
  <2> QED BY <1>f, <2>1, <2>3 DEF ShadowInv, Shadowed, l1_read, Newest
<1>4. CASE ExecExit
  BY <1>4 DEF ExecExit, ShadowInv, Shadowed, l1_read, Newest, cacheVars, commitVars
<1>5. CASE CommitTake
  <2>1. /\ entries' = IF pending[work.batch_id] = None THEN <<>> ELSE pending[work.batch_id]
        /\ pending' = [pending EXCEPT ![work.batch_id] = None]
        /\ UNCHANGED <<l1, rest, records, unapplied, effects, epc>>
    BY Zenon, <1>5 DEF CommitTake, execVars
  <2>2. work.batch_id \in BatchIds
    BY <1>5, QueueIds DEF CommitTake, Holding
  <2>3. Shadowed(entries)'
    BY <1>f, <2>1, <2>2 DEF ShadowInv, Shadowed, l1_read
  <2>4. \A b \in BatchIds : pending'[b] # None => pending'[b] = pending[b]
    BY <1>f, <2>1
  <2> QED BY <2>1, <2>3, <2>4 DEF ShadowInv, Shadowed, l1_read, Newest
<1>6. CASE CommitExit
  BY <1>6 DEF CommitExit, ShadowInv, Shadowed, l1_read, Newest, cacheVars, execVars
<1>7. CASE OrderFlush
  <2>1. /\ epc = "done" /\ cpc = "done" /\ commit_q = <<>>
        /\ UNCHANGED <<entries, records, unapplied, pending, epc>>
    BY <1>7 DEF OrderFlush, flush_oldest, Lifecycle, commitVars, execVars
  <2>2. entries = <<>> /\ records = <<>> /\ unapplied = <<>>
        /\ \A b \in BatchIds : pending[b] = None
    BY <2>1 DEF Holding, PagesTracked, Ids
  <2>3. DOMAIN <<>> = {} /\ epc' = "done"
    BY <2>1
  <2> QED BY Zenon, <2>1, <2>2, <2>3 DEF ShadowInv, Shadowed
<1>8. CASE ~(\/ ExecuteBatch \/ ExecuteRound \/ ExecApply \/ ExecWritePage \/ ExecComplete
             \/ ExecExit \/ ExecEnter \/ CommitTake \/ CommitExit \/ OrderFlush)
  <2>1. UNCHANGED <<l1, rest, records, unapplied, effects, entries, pending>>
    BY Zenon, <1>8 DEF Next, OrderTask, ExecWorker, CommitWorker, vars, cacheVars,
       execVars, commitVars,
      Execute, OrderReadWindow, OrderCheckInFlight, OrderEnter, OrderJoin,
      OrderFlushFails, flush_oldest_fails, OrderReturn, ExecRecv, ExecExitOrder, ExecRead,
      ExecStop, CommitRecv, CommitPut, CommitPutFails, CommitL2, CommitStop
  <2>2. epc' \in {"exec", "pages"} => epc' = epc
    BY <1>8 DEF Next, OrderTask, ExecWorker, CommitWorker, vars, execVars,
      Execute, OrderReadWindow, OrderCheckInFlight, OrderEnter, OrderJoin,
      OrderFlushFails, OrderReturn, ExecRecv, ExecExitOrder, ExecRead,
      ExecStop, CommitRecv, CommitPut, CommitPutFails, CommitL2, CommitStop
  <2>3. UNCHANGED (l1 \o rest)
    BY Zenon, <2>1
  <2> QED BY Zenon, <2>1, <2>2, <2>3 DEF ShadowInv, Shadowed, l1_read, Newest
<1> QED BY <1>1, <1>2, <1>3, <1>4, <1>5, <1>6, <1>7, <1>8, <1>9, <1>10, <1>11

(* A write that is yet to be applied goes to a key with a record, or is one  *)
(* of the effects of the executing batch.                                    *)
LEMMA UnappliedKnown ==
    ASSUME ControlInv, ShadowInv, NEW k, Newest(k) = None,
           \A i \in DOMAIN effects : EncodeKey[effects[i].slot] # k
    PROVE  \A i \in DOMAIN unapplied : EncodeKey[unapplied[i].slot] # k
<1>1. epc \in {"exec", "pages"} \/ unapplied = <<>>
  BY DEF ControlInv, Holding
<1>2. DOMAIN <<>> = {}
  OBVIOUS
<1>3. CASE epc = "exec"
  <2> TAKE i \in DOMAIN unapplied
  <2>1. PICK j \in DOMAIN effects : unapplied[i] = effects[j]
    BY Zenon, <1>3 DEF ShadowInv
  <2> QED BY Zenon, <2>1
<1>4. CASE epc = "pages"
  BY Zenon, <1>4 DEF ShadowInv
<1> QED BY Zenon, <1>1, <1>2, <1>3, <1>4

(* What commit_worker and a failing flush store is among the entries of      *)
(* commit_batch or in L1.                                                    *)
LEMMA StoreByWorkers ==
    ASSUME ControlInv, CommitPut \/ OrderFlushFails, NEW k \in Keys,
           lookup(l1, k) = None, lookup(entries, k) = None
    PROVE  db'[DecodeKey[k]] = db[DecodeKey[k]]
<1> USE DEF ControlInv
<1>f. l1 \in Seq(Records) /\ frozen \in Seq(Nat) /\ entries \in Seq(Records)
      /\ db \in [Cells -> Values \cup {None}] /\ stored \in Nat
  BY DEF TypeOK, CacheTypeOK
<1>1. CASE CommitPut
  <2>1. stored + 1 \in 1..Len(entries)
    BY <1>1, <1>f DEF CommitPut, Holding
  <2>2. entries[stored + 1] \in Records
    BY <1>f, <2>1, ElementOfSeq
  <2>3. entries[stored + 1].key # k
    BY <1>f, <2>1, LookupNone
  <2> QED BY <1>1, <1>f, <2>2, <2>3, PutEffect DEF CommitPut
<1>2. CASE OrderFlushFails
  <2>1. PICK n \in 0..(frozen[1] - 1) : put_batch(OldestTable, n)
    BY <1>2 DEF OrderFlushFails, flush_oldest_fails
  <2>2. frozen # <<>>
    BY <1>2 DEF OrderFlushFails, flush_oldest_fails
  <2>3. /\ frozen[1] \in 1..Len(l1) /\ Len(l1) \in Nat
        /\ OldestTable \in Seq(Records) /\ Len(OldestTable) = frozen[1]
    BY <1>f, <2>2, OldestTableType
  <2>4. n \in 0..Len(OldestTable)
    BY <2>1, <2>3
  <2>5. lookup(OldestTable, k) = None
    <3>1. \A i \in 1..Len(l1) : l1[i].key # k
      BY <1>f, LookupNone
    <3>2. \A i \in 1..frozen[1] : OldestTable[i] = l1[i]
      BY <1>f, <2>3, SubSeqProperties DEF OldestTable
    <3>3. \A i \in DOMAIN OldestTable : OldestTable[i].key # k
      BY <2>3, <3>1, <3>2
    <3> QED BY <2>3, <3>3, LookupNone
  <2> QED BY <2>1, <2>3, <2>4, <2>5, PutBatchOther
<1> QED BY <1>1, <1>2

(* Outside flushes, the cell of a key changes only by a record of it in L1,  *)
(* among the entries of commit_batch, or by a write of the batch that is     *)
(* being applied.                                                            *)
LEMMA StoreOther ==
    ASSUME ControlInv, [Next]_vars, ~OrderFlush, NEW k \in Keys,
           lookup(l1, k) = None, lookup(entries, k) = None,
           \A i \in DOMAIN unapplied : EncodeKey[unapplied[i].slot] # k
    PROVE  db'[DecodeKey[k]] = db[DecodeKey[k]]
<1> USE DEF ControlInv
<1>f. l1 \in Seq(Records) /\ frozen \in Seq(Nat) /\ entries \in Seq(Records)
      /\ db \in [Cells -> Values \cup {None}] /\ stored \in Nat
      /\ unapplied \in Seq(Writes)
  BY DEF TypeOK, CacheTypeOK
<1>4. CASE ExecApply
  <2>1. Head(unapplied) \in Writes /\ EncodeKey[Head(unapplied).slot] # k
    BY <1>4, <1>f DEF ExecApply
  <2> QED BY <1>4, <1>f, <2>1, ApplyEffect DEF ExecApply
<1>1. CASE CommitPut \/ OrderFlushFails
  BY Zenon, <1>1, StoreByWorkers
<1>3. CASE ~CommitPut /\ ~OrderFlushFails /\ ~ExecApply
  <2>1. UNCHANGED db
    BY Zenon, <1>3 DEF Next, OrderTask, ExecWorker, CommitWorker, vars, cacheVars,
      Execute, OrderReadWindow, OrderCheckInFlight, OrderEnter, OrderJoin,
      OrderReturn, ExecRecv, ExecExitOrder, ExecEnter, ExecRead, ExecuteRound, ExecuteBatch,
      ExecWritePage, ExecComplete, ExecExit, ExecStop, CommitRecv, CommitTake, CommitPutFails,
      CommitL2, CommitExit, CommitStop
  <2> QED BY <2>1
<1> QED BY <1>1, <1>3, <1>4

(* Outside flushes, the entry of a key in L2 changes only by eviction or by  *)
(* the entries of commit_batch.                                              *)
LEMMA LruOther ==
    ASSUME [Next]_vars, ~OrderFlush, NEW k \in Keys, lookup(entries, k) = None
    PROVE  l2'[k] \in {None, l2[k]}
<1>1. CASE CommitL2
  BY <1>1, InsertEffect DEF CommitL2
<1>2. CASE ~CommitL2
  <2>1. UNCHANGED l2
    BY Zenon, <1>2 DEF Next, OrderTask, ExecWorker, CommitWorker, vars, cacheVars,
      Execute, OrderReadWindow, OrderCheckInFlight, OrderEnter, OrderJoin,
      OrderFlushFails, flush_oldest_fails, OrderReturn, ExecRecv, ExecExitOrder, ExecEnter, ExecRead,
      ExecuteRound, ExecuteBatch, ExecApply, ExecWritePage, ExecComplete, ExecExit, ExecStop,
      CommitRecv, CommitTake,
      CommitPut, CommitPutFails, CommitExit, CommitStop
  <2> QED BY <2>1
<1> QED BY <1>1, <1>2

(* The records of a batch cover the effects of all its rounds. *)
LEMMA EffectsRecorded ==
    ASSUME ControlInv, ExecuteBatch, NEW k, Newest(k)' = None
    PROVE  \A i \in DOMAIN effects : EncodeKey[effects[i].slot] # k
<1>1. PICK writes \in Effects(ebatch.batch_id, round, view) :
        rest' = encode_records(effects \o writes)
  BY Zenon DEF ExecuteBatch
<1>2. effects \in Seq(Writes) /\ writes \in Seq(Writes)
  <2>1. ebatch.batch_id \in BatchIds
    BY QueueIds DEF ControlInv, Holding, ExecuteBatch
  <2> QED BY Zenon, <2>1, BridgeAssumption DEF ControlInv, TypeOK
<1>3. rest' \in Seq(Records) /\ lookup(rest', k) = None
  BY Zenon, NewestExecute
<1>4. \A i \in DOMAIN rest' : rest'[i].key # k
  BY Zenon, <1>3, LookupNone
<1>5. /\ DOMAIN effects = 1..Len(effects)
      /\ DOMAIN (effects \o writes) = 1..Len(effects \o writes)
      /\ \A i \in 1..Len(effects) : i \in 1..Len(effects \o writes)
                                   /\ (effects \o writes)[i] = effects[i]
  BY <1>2, ConcatProperties
<1> TAKE i \in DOMAIN effects
<1>6. i \in DOMAIN (effects \o writes) /\ (effects \o writes)[i] = effects[i]
  BY Zenon, <1>5
<1>7. i \in DOMAIN rest' /\ rest'[i].key = EncodeKey[effects[i].slot]
  BY <1>1, <1>6 DEF encode_records
<1> QED BY Zenon, <1>4, <1>7

(* Until the last round of a batch its effects only grow. *)
LEMMA EffectsGrow ==
    ASSUME ControlInv, [Next]_vars, ~ExecuteBatch
    PROVE  \A i \in DOMAIN effects : i \in DOMAIN effects' /\ effects'[i] = effects[i]
<1>1. CASE ExecuteRound
  <2>1. PICK writes \in Effects(ebatch.batch_id, round, view) : effects' = effects \o writes
    BY Zenon, <1>1 DEF ExecuteRound
  <2>2. effects \in Seq(Writes) /\ writes \in Seq(Writes)
    <3>1. ebatch.batch_id \in BatchIds
      BY <1>1, QueueIds DEF ControlInv, Holding, ExecuteRound
    <3> QED BY Zenon, <3>1, BridgeAssumption DEF ControlInv, TypeOK
  <2> QED BY <2>1, <2>2, ConcatProperties
<1>2. CASE ~ExecuteRound
  <2>1. effects' = effects
    BY Zenon, <1>2 DEF Next, OrderTask, ExecWorker, CommitWorker, vars, execVars,
      Execute, OrderReadWindow, OrderCheckInFlight, OrderEnter, OrderJoin,
      OrderFlush, OrderFlushFails, OrderReturn, ExecRecv, ExecExitOrder, ExecEnter, ExecRead,
      ExecApply, ExecWritePage, ExecComplete, ExecExit, ExecStop, CommitRecv, CommitTake,
      CommitPut, CommitPutFails, CommitL2, CommitExit, CommitStop
  <2> QED BY <2>1
<1> QED BY <1>1, <1>2

(* Every step keeps L2 and the store coherent below L1. *)
LEMMA CoherentStep ==
    ASSUME ControlInv, ShadowInv, LevelsCoherent, [Next]_vars
    PROVE  LevelsCoherent'
<1> USE DEF ControlInv
<1>f. /\ l1 \in Seq(Records) /\ rest \in Seq(Records) /\ entries \in Seq(Records)
      /\ l2 \in [Keys -> Values \cup {None}] /\ db \in [Cells -> Values \cup {None}]
  BY DEF TypeOK, CacheTypeOK
<1> SUFFICES ASSUME NEW k \in Keys, Newest(k)' = None, l2'[k] # None,
                    \A i \in DOMAIN effects' : EncodeKey[effects'[i].slot] # k
             PROVE  db'[DecodeKey[k]] = cell_value(l2'[k])
  BY DEF LevelsCoherent, cell_value
<1>1. CASE ExecuteBatch
  <2>1. Newest(k) = None /\ l2' = l2 /\ db' = db
    BY <1>1, NewestExecute DEF ExecuteBatch, cacheVars
  <2>2. \A i \in DOMAIN effects : EncodeKey[effects[i].slot] # k
    BY <1>1, EffectsRecorded
  <2> QED BY <2>1, <2>2 DEF LevelsCoherent
<1>2. CASE OrderFlush
  <2>1. /\ put_batch(OldestTable, Len(OldestTable)) /\ insert_batch(OldestTable)
    BY <1>2 DEF OrderFlush, flush_oldest
  <2>2. OldestTable \in Seq(Records) /\ Newest(k) = lookup(OldestTable, k)
    BY <1>2, NewestFlush
  <2>3. db'[DecodeKey[k]] = IF lookup(OldestTable, k) = None THEN db[DecodeKey[k]]
                            ELSE cell_value(lookup(OldestTable, k))
    BY <2>1, <2>2, PutBatchEffect
  <2>4. l2'[k] = IF lookup(OldestTable, k) # None THEN lookup(OldestTable, k) ELSE l2[k]
    BY <2>1, InsertEffect
  <2>5. effects' = effects
    BY <1>2 DEF OrderFlush, execVars
  <2> QED BY <2>2, <2>3, <2>4, <2>5 DEF LevelsCoherent
<1>3. CASE ~ExecuteBatch /\ ~OrderFlush
  <2>1. Newest(k) = None
    BY Zenon, <1>3, NewestStep DEF Newest
  <2>0. \A i \in DOMAIN effects : EncodeKey[effects[i].slot] # k
    BY <1>3, EffectsGrow
  <2>2. lookup(l1, k) = None
    BY <1>f, <2>1, LookupConcat DEF Newest
  <2>3. lookup(entries, k) = None
    <3>1. \A i \in DOMAIN entries : entries[i].key # k
      BY <2>2 DEF ShadowInv, Shadowed, l1_read
    <3> QED BY Zenon, <1>f, <3>1, LookupNone
  <2>6. \A i \in DOMAIN unapplied : EncodeKey[unapplied[i].slot] # k
    BY Zenon, <2>0, <2>1, UnappliedKnown
  <2>4. db'[DecodeKey[k]] = db[DecodeKey[k]]
    BY Zenon, <1>3, <2>2, <2>3, <2>6, StoreOther
  <2>5. l2'[k] \in {None, l2[k]}
    BY <1>3, <2>3, LruOther
  <2> QED BY <2>0, <2>1, <2>4, <2>5 DEF LevelsCoherent
<1> QED BY <1>1, <1>2, <1>3

(* With an empty cache there is nothing to shadow and nothing to agree on. *)
LEMMA CacheInit == Init => ShadowInv /\ LevelsCoherent
<1>1. Init => ShadowInv
  <2>1. Init => /\ entries = <<>> /\ records = <<>> /\ unapplied = <<>> /\ epc = "done"
                /\ pending = [b \in BatchIds |-> None]
    BY Zenon DEF Init, BackendInit
  <2> QED BY <2>1 DEF ShadowInv, Shadowed
<1>2. Init => LevelsCoherent
  BY DEF Init, BackendInit, LevelsCoherent
<1> QED BY <1>1, <1>2

(* A key that has left L1 and that the executing batch has not written reads *)
(* the same from L2 as from the store, whatever fails, is evicted or is      *)
(* retried: an eviction from L2 never changes what TwoLevelCache::read       *)
(* answers about the batches before.                                         *)
THEOREM LevelsCoherentTheorem == Spec => []LevelsCoherent
<1>1. Init => ShadowInv /\ LevelsCoherent
  BY CacheInit
<1>2. ControlInv /\ PagesTracked /\ ShadowInv /\ LevelsCoherent /\ [Next]_vars
      => ShadowInv' /\ LevelsCoherent'
  BY ShadowStep, CoherentStep
<1> QED BY <1>1, <1>2, ControlInvariant, PagesTrackedTheorem, PTL DEF Spec

------------------------------------------------------------------------------
(* Refinement of SerialBatches *)

USE DEF Stages, BatchIds, MaxRetries

(* In clean records only a clean key reads as zero. *)
LEMMA LookupClean ==
    ASSUME NEW table \in Seq(CleanRecords), NEW k, lookup(table, k) = Zero
    PROVE  k \in CleanKeys
<1>1. table \in Seq(Records)
  <2>1. CleanRecords \subseteq Records
    BY DEF CleanRecords
  <2> QED BY <2>1
<1>2. PositionsOf(table, k) # {}
      /\ Last(PositionsOf(table, k)) \in PositionsOf(table, k)
  BY <1>1, LookupHit, RecordAssumption
<1>3. PICK i \in DOMAIN table : table[i].key = k /\ table[i].value = Zero
  BY <1>2 DEF lookup, PositionsOf
<1>4. table[i] \in CleanRecords
  BY <1>3, ElementOfSeq
<1> QED BY <1>3, <1>4 DEF CleanRecords

(* Batches that zero no hydrated slot produce clean writes. *)
LEMMA EffectsClean ==
    ASSUME ZeroSafe, ControlInv, epc = "exec",
           NEW writes \in Effects(ebatch.batch_id, round, view)
    PROVE  writes \in Seq(CleanWrites)
<1>1. ebatch.batch_id \in BatchIds /\ round \in 1..Rounds /\ view \in [Slots -> SUBSET Values]
  BY QueueIds DEF ControlInv, Holding, TypeOK
<1>2. writes \in Seq(Writes)
  BY Zenon, <1>1, BridgeAssumption
<1>3. \A i \in DOMAIN writes : writes[i].value = Zero => Genesis[writes[i].slot] = {}
  BY Zenon, <1>1 DEF ZeroSafe
<1>4. \A i \in 1..Len(writes) : writes[i] \in CleanWrites
  BY <1>2, <1>3, ElementOfSeq DEF CleanWrites
<1>5. writes \in [1..Len(writes) -> CleanWrites] /\ Len(writes) \in Nat
  BY <1>2, <1>4
<1> QED BY <1>5

(* Clean writes are encoded into clean records. *)
LEMMA EncodeClean ==
    ASSUME DistinctKeys, NEW writes \in Seq(CleanWrites)
    PROVE  encode_records(writes) \in Seq(CleanRecords)
<1>1. CleanWrites \subseteq Writes
  BY DEF CleanWrites
<1>2. \A i \in 1..Len(writes) : writes[i] \in Writes
  BY <1>1, ElementOfSeq
<1>3. \A i \in 1..Len(writes) : writes[i].value = Zero => Genesis[writes[i].slot] = {}
  BY ElementOfSeq DEF CleanWrites
<1>4. \A i \in 1..Len(writes) :
        writes[i].value = Zero => EncodeKey[writes[i].slot] \in CleanKeys
  BY Zenon, <1>2, <1>3, RecordAssumption DEF DistinctKeys, CleanKeys, Writes
<1>5. \A i \in 1..Len(writes) :
        [key |-> EncodeKey[writes[i].slot], value |-> writes[i].value] \in CleanRecords
  BY <1>2, <1>4, RecordAssumption DEF Writes, Records, CleanRecords
<1>6. DOMAIN writes = 1..Len(writes) /\ Len(writes) \in Nat
  OBVIOUS
<1>7. encode_records(writes) \in [1..Len(writes) -> CleanRecords]
  BY <1>5, <1>6 DEF encode_records
<1> QED BY <1>6, <1>7

(* Every step keeps the records clean, from the execution of a batch to L2. *)
LEMMA CleanStep ==
    ASSUME DistinctKeys, ZeroSafe, ControlInv, CleanInv, [Next]_vars
    PROVE  CleanInv'
<1> USE DEF ControlInv
<1>f. /\ l1 \in Seq(CleanRecords) /\ rest \in Seq(CleanRecords)
      /\ records \in Seq(CleanRecords) /\ entries \in Seq(CleanRecords)
      /\ effects \in Seq(CleanWrites)
      /\ pending \in [BatchIds -> Seq(CleanRecords) \cup {None}]
      /\ \A k \in Keys : l2[k] = Zero => k \in CleanKeys
      /\ \A s \in Slots : Genesis[s] = {} => inner[s] = Zero
  BY DEF CleanInv
<1>i. inner' = inner
  BY Zenon DEF Next, OrderTask, ExecWorker, CommitWorker, vars, backendVars, apply,
      memory_apply,
      Execute, OrderReadWindow, OrderCheckInFlight, OrderEnter, OrderJoin,
      OrderFlush, OrderFlushFails, OrderReturn, ExecRecv, ExecExitOrder, ExecEnter, ExecRead,
      ExecuteRound, ExecuteBatch, ExecApply, ExecWritePage, ExecComplete, ExecExit, ExecStop,
      CommitRecv, CommitTake,
      CommitPut, CommitPutFails, CommitL2, CommitExit, CommitStop
<1>1. CASE ExecuteBatch
  <2>1. PICK writes \in Effects(ebatch.batch_id, round, view) :
          /\ rest' = encode_records(effects \o writes)
          /\ records' = encode_records(effects \o writes)
    BY Zenon, <1>1 DEF ExecuteBatch
  <2>2. writes \in Seq(CleanWrites)
    BY Zenon, <1>1, EffectsClean DEF ExecuteBatch
  <2>3. encode_records(effects \o writes) \in Seq(CleanRecords)
    <3>1. effects \o writes \in Seq(CleanWrites)
      BY <1>f, <2>2, ConcatProperties
    <3> QED BY Zenon, <3>1, EncodeClean
  <2>4. UNCHANGED <<l1, l2, pending, entries>> /\ effects' = <<>>
    BY <1>1 DEF ExecuteBatch, commitVars, cacheVars
  <2>5. <<>> \in Seq(CleanWrites)
    OBVIOUS
  <2> QED BY Zenon, <1>f, <1>i, <2>1, <2>3, <2>4, <2>5 DEF CleanInv
<1>10. CASE ExecuteRound
  <2>1. PICK writes \in Effects(ebatch.batch_id, round, view) : effects' = effects \o writes
    BY Zenon, <1>10 DEF ExecuteRound
  <2>2. writes \in Seq(CleanWrites)
    BY Zenon, <1>10, EffectsClean DEF ExecuteRound
  <2>3. effects' \in Seq(CleanWrites)
    BY <1>f, <2>1, <2>2, ConcatProperties
  <2>4. UNCHANGED <<l1, l2, pending, entries, rest, records>>
    BY <1>10 DEF ExecuteRound, commitVars, cacheVars
  <2> QED BY Zenon, <1>f, <1>i, <2>3, <2>4 DEF CleanInv
<1>2. CASE ExecWritePage
  <2> DEFINE n == page_len(rest)
             page == SubSeq(rest, 1, n)
             later == SubSeq(rest, n + 1, Len(rest))
  <2>1. page \in Seq(CleanRecords) /\ later \in Seq(CleanRecords)
    BY <1>2, <1>f, PageSplit DEF ExecWritePage
  <2>2. l1' = l1 \o page /\ rest' = later /\ UNCHANGED <<l2, pending, entries, records, effects>>
    BY <1>2 DEF ExecWritePage, write_delta_page, commitVars
  <2> HIDE DEF n, page, later
  <2>3. l1' \in Seq(CleanRecords)
    BY <1>f, <2>1, <2>2, ConcatProperties
  <2> QED BY Zenon, <1>f, <1>i, <2>1, <2>2, <2>3 DEF CleanInv
<1>3. CASE ExecComplete
  <2>1. /\ UNCHANGED <<l1, l2, rest, entries, records, effects>>
        /\ pending' = [pending EXCEPT ![ebatch.batch_id] = records]
    BY <1>3 DEF ExecComplete, commitVars
  <2> QED BY Zenon, <1>f, <1>i, <2>1 DEF CleanInv
<1>4. CASE ExecExit
  <2>1. UNCHANGED <<l1, l2, rest, entries, pending, effects>> /\ records' = <<>>
    BY <1>4 DEF ExecExit, cacheVars, commitVars
  <2>2. <<>> \in Seq(CleanRecords)
    OBVIOUS
  <2> QED BY Zenon, <1>f, <1>i, <2>1, <2>2 DEF CleanInv
<1>5. CASE CommitTake
  <2>1. /\ entries' = IF pending[work.batch_id] = None THEN <<>> ELSE pending[work.batch_id]
        /\ pending' = [pending EXCEPT ![work.batch_id] = None]
        /\ UNCHANGED <<l1, l2, rest, records, effects>>
    BY Zenon, <1>5 DEF CommitTake, execVars
  <2>2. work.batch_id \in BatchIds
    BY <1>5, QueueIds DEF CommitTake, Holding
  <2>3. entries' \in Seq(CleanRecords)
    BY <1>f, <2>1, <2>2
  <2>4. pending' \in [BatchIds -> Seq(CleanRecords) \cup {None}]
    BY Zenon, <1>f, <2>1
  <2> QED BY Zenon, <1>f, <1>i, <2>1, <2>3, <2>4 DEF CleanInv
<1>6. CASE CommitL2
  <2>1. insert_batch(entries) /\ UNCHANGED <<l1, rest, records, entries, pending, effects>>
    BY <1>6 DEF CommitL2, execVars
  <2>2. ASSUME NEW k \in Keys, l2'[k] = Zero PROVE k \in CleanKeys
    BY <1>f, <2>1, <2>2, InsertEffect, LookupClean, RecordAssumption
  <2> QED BY <1>f, <1>i, <2>1, <2>2 DEF CleanInv
<1>7. CASE CommitExit
  <2>1. UNCHANGED <<l1, l2, rest, records, pending, effects>> /\ entries' = <<>>
    BY <1>7 DEF CommitExit, cacheVars, execVars
  <2> QED BY <1>f, <1>i, <2>1 DEF CleanInv
<1>8. CASE OrderFlush
  <2>1. /\ insert_batch(OldestTable) /\ frozen # <<>>
        /\ l1' = SubSeq(l1, frozen[1] + 1, Len(l1))
        /\ UNCHANGED <<rest, records, entries, pending, effects>>
    BY <1>8 DEF OrderFlush, flush_oldest, execVars, commitVars
  <2>2. frozen[1] \in 1..Len(l1)
    BY <2>1 DEF TablesOrdered, TypeOK, CacheTypeOK
  <2>3. OldestTable \in Seq(CleanRecords) /\ l1' \in Seq(CleanRecords)
    BY <1>f, <2>1, <2>2, CutSeq DEF OldestTable
  <2>4. ASSUME NEW k \in Keys, l2'[k] = Zero PROVE k \in CleanKeys
    BY Zenon, <1>f, <2>1, <2>3, <2>4, InsertEffect, LookupClean, RecordAssumption
  <2> QED BY Zenon, <1>f, <1>i, <2>1, <2>3, <2>4 DEF CleanInv
<1>9. CASE ~(\/ ExecuteBatch \/ ExecuteRound \/ ExecWritePage \/ ExecComplete \/ ExecExit
             \/ CommitTake \/ CommitL2 \/ CommitExit \/ OrderFlush)
  <2>1. UNCHANGED <<l1, l2, rest, records, entries, pending, effects>>
    BY Zenon, <1>9 DEF Next, OrderTask, ExecWorker, CommitWorker, vars, cacheVars,
       execVars, commitVars,
      Execute, OrderReadWindow, OrderCheckInFlight, OrderEnter, OrderJoin,
      OrderFlushFails, flush_oldest_fails, OrderReturn, ExecRecv, ExecExitOrder,
      ExecEnter, ExecRead, ExecApply, ExecStop, CommitRecv, CommitPut, CommitPutFails, CommitStop
  <2> QED BY <1>f, <1>i, <2>1 DEF CleanInv
<1> QED BY <1>1, <1>2, <1>3, <1>4, <1>5, <1>6, <1>7, <1>8, <1>9, <1>10

(* A slot with a clean key reads zero from the memory backend: hydration     *)
(* never gave it a value.                                                    *)
LEMMA FallThrough ==
    ASSUME CleanInv, NEW s \in Slots, EncodeKey[s] \in CleanKeys
    PROVE  inner[s] = Zero
BY DEF CleanInv, CleanKeys

(* Nothing changes the memory backend. *)
LEMMA InnerStep ==
    ASSUME [Next]_vars PROVE inner' = inner
BY Zenon DEF Next, OrderTask, ExecWorker, CommitWorker, vars, backendVars, apply,
      memory_apply,
      Execute, OrderReadWindow, OrderCheckInFlight, OrderEnter, OrderJoin,
      OrderFlush, OrderFlushFails, OrderReturn, ExecRecv, ExecExitOrder, ExecEnter, ExecRead,
      ExecuteRound, ExecuteBatch, ExecApply, ExecWritePage, ExecComplete, ExecExit, ExecStop,
      CommitRecv, CommitTake, CommitPut, CommitPutFails, CommitL2, CommitExit, CommitStop

(* What the levels show of a slot: its newest record, its entry of L2 and    *)
(* what is below agree with the state of the executed batches.               *)
SlotInv(s) ==
    LET k == EncodeKey[s]
    IN  /\ Newest(k) # None => Newest(k) = serial[s]
        /\ Newest(k) = None /\ l2[k] # None => l2[k] = serial[s]
        /\ Newest(k) = None => Below(s) \in {serial[s]} \cup Own(s)

(* A slot that is read below L1 keeps its value, or takes a value that the   *)
(* executing batch has written, when no record of L1 and no entry of         *)
(* commit_batch has its key.                                                 *)
LEMMA BelowStep ==
    ASSUME DistinctKeys, ControlInv, CleanInv, ShadowInv, [Next]_vars,
           ~OrderFlush, ~ExecuteBatch, NEW s \in Slots, Newest(EncodeKey[s]) = None
    PROVE  Below(s)' \in {Below(s)} \cup Own(s)
<1>k. PICK k \in Keys : k = EncodeKey[s]
  BY RecordAssumption
<1>f. /\ l1 \in Seq(Records) /\ rest \in Seq(Records) /\ entries \in Seq(Records)
      /\ db \in [Cells -> Values \cup {None}] /\ unapplied \in Seq(Writes)
      /\ effects \in Seq(CleanWrites)
  BY DEF ControlInv, TypeOK, CacheTypeOK, CleanInv
<1>i. inner' = inner
  BY InnerStep
<1>1. lookup(l1, k) = None
  BY <1>f, <1>k, LookupConcat DEF Newest
<1>2. lookup(entries, k) = None
  <2>1. \A i \in DOMAIN entries : entries[i].key # k
    BY <1>1 DEF ShadowInv, Shadowed, l1_read
  <2> QED BY Zenon, <1>f, <2>1, LookupNone
<1>3. CASE \A i \in DOMAIN unapplied : EncodeKey[unapplied[i].slot] # k
  <2>1. db'[DecodeKey[k]] = db[DecodeKey[k]]
    BY Zenon, <1>1, <1>2, <1>3, StoreOther
  <2> QED BY Zenon, <1>i, <1>k, <2>1 DEF Below
<1>4. CASE ExecApply /\ EncodeKey[Head(unapplied).slot] = k
  <2> DEFINE u == Head(unapplied)
  <2>1. u \in Writes /\ 1 \in DOMAIN unapplied /\ u = unapplied[1]
    BY <1>4, <1>f DEF ExecApply
  <2>2. u.slot = s
    BY <1>4, <1>k, <2>1 DEF DistinctKeys, Writes
  <2>3. epc = "exec"
    <3>1. epc = "pages" => Newest(EncodeKey[unapplied[1].slot]) # None
      BY Zenon, <2>1 DEF ShadowInv
    <3> QED BY Zenon, <1>4, <1>k, <2>1, <3>1 DEF ExecApply
  <2>4. PICK j \in DOMAIN effects : effects[j] = u
    BY Zenon, <2>1, <2>3 DEF ShadowInv
  <2>5. effects[j] \in CleanWrites
    BY <1>f, <2>4, ElementOfSeq
  <2>6. u.value \in Own(s)
    BY Zenon, <2>2, <2>4 DEF Own, WritesTo
  <2>7. u.value = Zero => inner[s] = Zero
    BY <2>2, <2>4, <2>5 DEF CleanInv, CleanWrites
  <2>8. /\ u.value \in Values
        /\ db'[DecodeKey[k]] \in {db[DecodeKey[k]], cell_value(u.value)}
    <3>1. DecodeKey[k] \in Cells
      BY RecordAssumption
    <3> HIDE DEF u
    <3>2. PICK persisted \in BOOLEAN : persist_applies(u, persisted)
      BY <1>4 DEF ExecApply, apply, u
    <3>3. \/ db' = db
          \/ db' = [db EXCEPT ![u.slot] = cell_value(u.value)]
      BY <3>2 DEF persist_applies
    <3> QED BY <1>f, <2>1, <3>1, <3>3 DEF Writes
  <2> HIDE DEF u
  <2>9. CASE db'[DecodeKey[k]] = db[DecodeKey[k]]
    BY Zenon, <1>i, <1>k, <2>9 DEF Below
  <2>10. CASE db'[DecodeKey[k]] = cell_value(u.value)
    <3>1. Below(s)' = u.value
      <4>1. Below(s)' = IF db'[DecodeKey[k]] # None THEN db'[DecodeKey[k]] ELSE inner[s]
        BY Zenon, <1>i, <1>k DEF Below
      <4> QED BY <2>7, <2>8, <2>10, <4>1, RecordAssumption DEF cell_value
    <3> QED BY <2>6, <3>1
  <2> QED BY Zenon, <2>8, <2>9, <2>10
<1>5. CASE ~ExecApply
  <2>1. CASE CommitPut \/ OrderFlushFails
    <3>1. db'[DecodeKey[k]] = db[DecodeKey[k]]
      BY Zenon, <1>1, <1>2, <2>1, StoreByWorkers
    <3> QED BY Zenon, <1>i, <1>k, <3>1 DEF Below
  <2>2. CASE ~(CommitPut \/ OrderFlushFails)
    <3>1. db' = db
      BY Zenon, <1>5, <2>2 DEF Next, OrderTask, ExecWorker, CommitWorker, vars, cacheVars,
        Execute, OrderReadWindow, OrderCheckInFlight, OrderEnter, OrderJoin,
        OrderReturn, ExecRecv, ExecExitOrder, ExecEnter, ExecRead, ExecuteRound,
        ExecWritePage, ExecComplete, ExecExit, ExecStop, CommitRecv, CommitTake, CommitPutFails,
        CommitL2, CommitExit, CommitStop
    <3> QED BY Zenon, <1>i, <1>k, <3>1 DEF Below
  <2> QED BY <2>1, <2>2
<1>6. CASE ExecApply /\ EncodeKey[Head(unapplied).slot] # k
  <2>0. unapplied # <<>>
    BY <1>6 DEF ExecApply
  <2>1. Head(unapplied) \in Writes
    BY <1>f, <2>0
  <2>2. db'[DecodeKey[k]] = db[DecodeKey[k]]
    BY <1>6, <1>f, <2>1, ApplyEffect DEF ExecApply
  <2> QED BY Zenon, <1>i, <1>k, <2>2 DEF Below
<1> QED BY <1>4, <1>5, <1>6

(* What a step leaves alone of the history and the effects. *)
LEMMA HistoryStep ==
    ASSUME ControlInv, [Next]_vars, ~ExecuteBatch
    PROVE  serial' = serial /\ \A s : Own(s) \subseteq Own(s)'
<1>1. serial' = serial
  BY Zenon DEF Next, OrderTask, ExecWorker, CommitWorker, vars,
      Execute, OrderReadWindow, OrderCheckInFlight, OrderEnter, OrderJoin,
      OrderFlush, OrderFlushFails, OrderReturn, ExecRecv, ExecExitOrder, ExecEnter, ExecRead,
      ExecuteRound, ExecApply, ExecWritePage, ExecComplete, ExecExit, ExecStop, CommitRecv,
      CommitTake, CommitPut, CommitPutFails, CommitL2, CommitExit, CommitStop
<1>2. \A i \in DOMAIN effects : i \in DOMAIN effects' /\ effects'[i] = effects[i]
  BY EffectsGrow
<1>3. ASSUME NEW s PROVE Own(s) \subseteq Own(s)'
  <2> SUFFICES ASSUME NEW i \in WritesTo(effects, s)
               PROVE  effects[i].value \in {effects'[j].value : j \in WritesTo(effects', s)}
    BY DEF Own
  <2>1. i \in DOMAIN effects /\ effects[i].slot = s
    BY DEF WritesTo
  <2>2. i \in WritesTo(effects', s) /\ effects'[i].value = effects[i].value
    BY Zenon, <1>2, <2>1 DEF WritesTo
  <2> QED BY Zenon, <2>2
<1> QED BY <1>1, <1>3

(* No step but the execution of a batch changes what the batches before have *)
(* left: commits, failing commits, flushes, evictions and page writes are    *)
(* invisible.                                                                *)
LEMMA StateStep ==
    ASSUME DistinctKeys, ControlInv, CleanInv, ShadowInv, StateInv, [Next]_vars,
           ~ExecuteBatch
    PROVE  StateInv'
<1>f. /\ l1 \in Seq(Records) /\ rest \in Seq(Records) /\ entries \in Seq(Records)
  BY DEF ControlInv, TypeOK, CacheTypeOK
<1>h. serial' = serial /\ \A s : Own(s) \subseteq Own(s)'
  BY HistoryStep
<1>i. inner' = inner
  BY InnerStep
<1> SUFFICES ASSUME NEW s \in Slots PROVE SlotInv(s)'
  BY Zenon DEF StateInv, SlotInv
<1>s. SlotInv(s)
  BY Zenon DEF StateInv, SlotInv
<1>k. PICK k \in Keys : k = EncodeKey[s]
  BY RecordAssumption
<1>1. CASE OrderFlush
  <2>1. /\ put_batch(OldestTable, Len(OldestTable)) /\ insert_batch(OldestTable)
    BY <1>1 DEF OrderFlush, flush_oldest
  <2>2. /\ OldestTable \in Seq(Records)
        /\ Newest(k) = IF Newest(k)' # None THEN Newest(k)' ELSE lookup(OldestTable, k)
    BY <1>1, NewestFlush
  <2>3. db'[DecodeKey[k]] = IF lookup(OldestTable, k) = None THEN db[DecodeKey[k]]
                            ELSE cell_value(lookup(OldestTable, k))
    BY Zenon, <2>1, <2>2, PutBatchEffect
  <2>4. l2'[k] \in {None, IF lookup(OldestTable, k) # None THEN lookup(OldestTable, k)
                                                           ELSE l2[k]}
    BY Zenon, <2>1, InsertEffect
  <2>5. CASE Newest(k)' # None
    BY Zenon, <1>h, <1>k, <1>s, <2>2, <2>5 DEF SlotInv
  <2>6. CASE Newest(k)' = None /\ lookup(OldestTable, k) = None
    <3>1. Newest(k) = None /\ l2'[k] \in {None, l2[k]}
      BY Zenon, <2>2, <2>4, <2>6
    <3>2. Below(s)' = Below(s)
      BY Zenon, <1>i, <1>k, <2>3, <2>6 DEF Below
    <3>3. /\ l2[k] # None => l2[k] = serial[s]
          /\ Below(s) \in {serial[s]} \cup Own(s)
      BY Zenon, <1>k, <1>s, <3>1 DEF SlotInv
    <3>4. /\ l2'[k] # None => l2'[k] = serial'[s]
          /\ Below(s)' \in {serial'[s]} \cup Own(s)'
      BY <1>h, <3>1, <3>2, <3>3
    <3> QED BY Zenon, <1>k, <2>6, <3>4 DEF SlotInv
  <2>7. CASE Newest(k)' = None /\ lookup(OldestTable, k) # None
    <3>1. Newest(k) = lookup(OldestTable, k) /\ Newest(k) = serial[s]
      BY Zenon, <1>k, <1>s, <2>2, <2>7 DEF SlotInv
    <3>2. l2'[k] # None => l2'[k] = serial'[s]
      BY <1>h, <2>4, <2>7, <3>1
    <3>3. Below(s)' = serial'[s]
      <4>1. Below(s)' = IF db'[DecodeKey[k]] # None THEN db'[DecodeKey[k]] ELSE inner[s]
        BY Zenon, <1>i, <1>k DEF Below
      <4>2. CASE lookup(OldestTable, k) # Zero
        BY <1>h, <2>3, <2>7, <3>1, <4>1, <4>2 DEF cell_value
      <4>3. CASE lookup(OldestTable, k) = Zero
        <5>1. lookup(l1, k) = Zero
          <6>1. Newest(k) = l1_read(k)
            BY <1>1, NewestEmpty DEF OrderFlush, ControlInv, Lifecycle
          <6> QED BY <3>1, <4>3, <6>1 DEF l1_read
        <5>2. k \in CleanKeys
          BY <5>1, LookupClean DEF CleanInv
        <5>3. inner[s] = Zero
          BY <1>k, <5>2, FallThrough
        <5> QED BY <1>h, <2>3, <2>7, <3>1, <4>1, <4>3, <5>3 DEF cell_value
      <4> QED BY <4>2, <4>3
    <3> QED BY Zenon, <1>k, <2>7, <3>2, <3>3 DEF SlotInv
  <2> QED BY Zenon, <2>5, <2>6, <2>7
<1>2. CASE ~OrderFlush
  <2>1. Newest(k)' = Newest(k)
    BY Zenon, <1>2, NewestStep DEF Newest
  <2>2. CASE Newest(k) # None
    BY Zenon, <1>h, <1>k, <1>s, <2>1, <2>2 DEF SlotInv
  <2>3. CASE Newest(k) = None
    <3>1. lookup(l1, k) = None
      BY <1>f, <2>3, LookupConcat DEF Newest
    <3>2. lookup(entries, k) = None
      <4>1. \A i \in DOMAIN entries : entries[i].key # k
        BY <3>1 DEF ShadowInv, Shadowed, l1_read
      <4> QED BY Zenon, <1>f, <4>1, LookupNone
    <3>3. l2'[k] \in {None, l2[k]}
      BY Zenon, <1>2, <3>2, LruOther
    <3>4. Below(s)' \in {Below(s)} \cup Own(s)
      BY Zenon, <1>2, <1>k, <2>3, BelowStep
    <3>5. /\ l2[k] # None => l2[k] = serial[s]
          /\ Below(s) \in {serial[s]} \cup Own(s)
      BY Zenon, <1>k, <1>s, <2>3 DEF SlotInv
    <3>6. /\ l2'[k] # None => l2'[k] = serial'[s]
          /\ Below(s)' \in {serial'[s]} \cup Own(s)'
      BY <1>h, <3>3, <3>4, <3>5
    <3> QED BY Zenon, <1>k, <2>1, <2>3, <3>6 DEF SlotInv
  <2> QED BY Zenon, <2>2, <2>3
<1> QED BY Zenon, <1>1, <1>2

(* The records of a batch bring its writes into the state: a slot it wrote   *)
(* has its last write as newest record, the others read as before.           *)
LEMMA ExecuteState ==
    ASSUME DistinctKeys, ControlInv, StateInv, ExecuteBatch
    PROVE  StateInv'
<1> SUFFICES ASSUME NEW s \in Slots PROVE SlotInv(s)'
  BY Zenon DEF StateInv, SlotInv
<1>s. SlotInv(s)
  BY Zenon DEF StateInv, SlotInv
<1>k. PICK k \in Keys : k = EncodeKey[s]
  BY RecordAssumption
<1>1. PICK writes \in Effects(ebatch.batch_id, round, view) :
        /\ rest' = encode_records(effects \o writes)
        /\ serial' = Overwrite(serial, effects \o writes)
  BY Zenon DEF ExecuteBatch
<1>2. effects \in Seq(Writes) /\ writes \in Seq(Writes)
  <2>1. ebatch.batch_id \in BatchIds
    BY QueueIds DEF ControlInv, Holding, ExecuteBatch
  <2> QED BY Zenon, <2>1, BridgeAssumption DEF ControlInv, TypeOK
<1> DEFINE all == effects \o writes
<1>3. all \in Seq(Writes) /\ rest' = encode_records(all) /\ serial' = Overwrite(serial, all)
  BY <1>1, <1>2, ConcatProperties
<1>4. WritesTo(all, s) = {} => WritesTo(effects, s) = {}
  <2>1. \A i \in DOMAIN effects : i \in DOMAIN all /\ all[i] = effects[i]
    BY <1>2, ConcatProperties
  <2> HIDE DEF all
  <2> QED BY Zenon, <2>1 DEF WritesTo
<1> HIDE DEF all
<1>5. lookup(rest', k) = IF WritesTo(all, s) = {} THEN None
                         ELSE all[Last(WritesTo(all, s))].value
  BY <1>3, <1>k, LookupEncoded DEF DistinctKeys
<1>6. Newest(k)' = IF lookup(rest', k) # None THEN lookup(rest', k) ELSE Newest(k)
  BY NewestExecute
<1>7. serial'[s] = IF WritesTo(all, s) = {} THEN serial[s]
                   ELSE all[Last(WritesTo(all, s))].value
  BY Zenon, <1>3 DEF Overwrite
<1>8. CASE WritesTo(all, s) = {}
  <2>1. Newest(k)' = Newest(k) /\ serial'[s] = serial[s]
    BY <1>5, <1>6, <1>7, <1>8
  <2>2. UNCHANGED <<l2, db, inner>>
    BY Zenon DEF ExecuteBatch, cacheVars, backendVars
  <2>3. Below(s)' = Below(s)
    BY Zenon, <2>2 DEF Below
  <2>4. Own(s) = {}
    BY <1>4, <1>8 DEF Own
  <2>5. Newest(k) = None => Below(s) = serial[s]
    BY Zenon, <1>k, <1>s, <2>4 DEF SlotInv
  <2>6. /\ Newest(k)' # None => Newest(k)' = serial'[s]
        /\ Newest(k)' = None /\ l2'[k] # None => l2'[k] = serial'[s]
        /\ Newest(k)' = None => Below(s)' = serial'[s]
    BY Zenon, <1>k, <1>s, <2>1, <2>2, <2>3, <2>5 DEF SlotInv
  <2> QED BY Zenon, <1>k, <2>6 DEF SlotInv
<1>9. CASE WritesTo(all, s) # {}
  <2>1. serial'[s] \in Values
    <3>1. serial' \in [Slots -> Values]
      BY Zenon, <1>3, OverwriteType DEF ControlInv, TypeOK
    <3> QED BY Zenon, <3>1
  <2>2. lookup(rest', k) = serial'[s] /\ serial'[s] # None
    BY <1>5, <1>7, <1>9, <2>1, RecordAssumption
  <2>3. Newest(k)' = serial'[s] /\ Newest(k)' # None
    BY Zenon, <1>6, <2>2
  <2> QED BY Zenon, <1>k, <2>3 DEF SlotInv
<1> QED BY <1>8, <1>9

(* No step but the execution of a batch changes which batch executed last. *)
LEMMA LastExecutedStep ==
    ASSUME ControlInv, OrderInv, [Next]_vars, ~ExecuteBatch
    PROVE  LastExecuted' = LastExecuted
<1>1. CASE ExecComplete
  BY <1>1 DEF ExecComplete, LastExecuted, HeldBatch
<1>2. CASE ~ExecComplete
  <2>1. /\ UNCHANGED last_exec_complete
        /\ epc = "pages" <=> epc' = "pages"
        /\ epc = "pages" => UNCHANGED ebatch
    BY Zenon, <1>2 DEF Next, OrderTask, ExecWorker, CommitWorker, vars, idVars,
       execVars, ControlInv, Lifecycle,
      Execute, OrderReadWindow, OrderCheckInFlight, OrderEnter, OrderJoin,
      OrderFlush, OrderFlushFails, OrderReturn, ExecRecv, ExecExitOrder, ExecEnter, ExecRead,
      ExecuteRound, ExecApply, ExecWritePage, ExecExit, ExecStop, CommitRecv, CommitTake,
      CommitPut, CommitPutFails, CommitL2, CommitExit, CommitStop
  <2> QED BY <2>1 DEF LastExecuted, HeldBatch
<1> QED BY <1>1, <1>2

(* CacheOverlayBackend::storage answers, while a batch executes, with the    *)
(* state of the batches before or with a write of the batch itself.          *)
LEMMA ReadIsSerial ==
    ASSUME ControlInv, OrderInv, StateInv, epc = "exec", NEW s \in Slots
    PROVE  storage(s) \in {serial[s]} \cup Own(s)
<1>s. SlotInv(s)
  BY Zenon DEF StateInv, SlotInv
<1>1. visible_batch = completed_batch /\ completed_batch \in Nat
  BY DEF ControlInv, TypeOK, CacheTypeOK, OrderInv, ExecOrder
<1>2. \A k : Newest(k) = l1_read(k)
  BY NewestEmpty
<1>3. read(EncodeKey[s], visible_batch) = level_read(EncodeKey[s])
  BY <1>1 DEF read
<1>4. storage(s) = IF Newest(EncodeKey[s]) # None THEN Newest(EncodeKey[s])
                   ELSE IF l2[EncodeKey[s]] # None THEN l2[EncodeKey[s]] ELSE Below(s)
  BY Zenon, <1>2, <1>3 DEF storage, level_read, Below
<1>5. CASE Newest(EncodeKey[s]) # None
  BY Zenon, <1>4, <1>5, <1>s DEF SlotInv
<1>6. CASE Newest(EncodeKey[s]) = None /\ l2[EncodeKey[s]] # None
  BY Zenon, <1>4, <1>6, <1>s DEF SlotInv
<1>7. CASE Newest(EncodeKey[s]) = None /\ l2[EncodeKey[s]] = None
  BY Zenon, <1>4, <1>7, <1>s DEF SlotInv
<1> QED BY Zenon, <1>5, <1>6, <1>7

(* What a round has read so far stays readable until the round has executed, *)
(* although commit_worker runs in between.                                   *)
LEMMA ViewStep ==
    ASSUME ControlInv, OrderInv, StateInv, ViewInv, [Next]_vars
    PROVE  ViewInv'
<1>1. CASE ExecuteBatch \/ ExecuteRound
  <2>1. view' = [s \in Slots |-> {}]
    BY <1>1 DEF ExecuteBatch, ExecuteRound, Nothing
  <2> QED BY <2>1 DEF ViewInv
<1>2. CASE \E s \in Slots : ExecRead(s)
  <2>1. PICK s \in Slots : ExecRead(s)
    BY <1>2
  <2>2. UNCHANGED <<serial, effects>>
    BY <2>1 DEF ExecRead
  <2>3. storage(s) \in {serial[s]} \cup Own(s)
    BY Zenon, <2>1, ReadIsSerial DEF ExecRead
  <2>4. view' = [view EXCEPT ![s] = view[s] \cup {storage(s)}]
        /\ view \in [Slots -> SUBSET Values]
    BY <2>1 DEF ExecRead, ControlInv, TypeOK
  <2>5. ASSUME NEW t \in Slots PROVE view'[t] \subseteq {serial[t]} \cup Own(t)
    <3>1. view[t] \subseteq {serial[t]} \cup Own(t)
      BY DEF ViewInv
    <3>2. CASE t = s
      <4>1. view'[t] = view[t] \cup {storage(s)}
        BY Zenon, <2>4, <3>2
      <4> QED BY <2>3, <3>1, <3>2, <4>1
    <3>3. CASE t # s
      BY Zenon, <2>4, <3>1, <3>3
    <3> QED BY <3>2, <3>3
  <2>6. \A t : Own(t)' = Own(t)
    BY Zenon, <2>2 DEF Own
  <2> QED BY Zenon, <2>2, <2>5, <2>6 DEF ViewInv
<1>3. CASE ~ExecuteBatch /\ ~ExecuteRound /\ ~(\E s \in Slots : ExecRead(s))
  <2>1. serial' = serial /\ \A s : Own(s) \subseteq Own(s)'
    BY <1>3, HistoryStep
  <2>2. UNCHANGED view
    BY Zenon, <1>3 DEF Next, OrderTask, ExecWorker, CommitWorker, vars, execVars,
      Execute, OrderReadWindow, OrderCheckInFlight, OrderEnter, OrderJoin,
      OrderFlush, OrderFlushFails, OrderReturn, ExecRecv, ExecExitOrder, ExecEnter,
      ExecApply, ExecWritePage, ExecComplete, ExecExit, ExecStop, CommitRecv, CommitTake,
      CommitPut, CommitPutFails, CommitL2, CommitExit, CommitStop
  <2> SUFFICES ASSUME NEW s \in Slots PROVE view'[s] \subseteq {serial'[s]} \cup Own(s)'
    BY Zenon DEF ViewInv
  <2>3. view[s] \subseteq {serial[s]} \cup Own(s)
    BY DEF ViewInv
  <2> QED BY <2>1, <2>2, <2>3
<1> QED BY <1>1, <1>2, <1>3

(* The data layers of the inductive invariant. *)
DataInv == ShadowInv /\ CleanInv /\ StateInv /\ ViewInv

(* What a round has read is a view of the serial specification. *)
LEMMA ViewIsSerial ==
    ASSUME ControlInv, ViewInv, \A s \in Slots : view[s] # {}
    PROVE  view \in Serial!Views
<1>1. view \in [Slots -> SUBSET Values]
  BY DEF ControlInv, TypeOK
<1>2. \A s \in Slots : view[s] \subseteq Serial!Readable(s)
  BY DEF ViewInv, Own, WritesTo, Serial!Readable
<1> QED BY <1>1, <1>2 DEF Serial!Views

(* A batch executes after its predecessor. *)
LEMMA HeldIsNext ==
    ASSUME ControlInv, OrderInv, epc = "exec"
    PROVE  LastExecuted \in Nat /\ LastExecuted < MaxBatch
           /\ ebatch.batch_id = LastExecuted + 1
<1>1. ebatch.batch_id \in BatchIds /\ last_exec_complete \in Nat
  BY QueueIds DEF ControlInv, Holding, TypeOK
<1>2. ebatch.batch_id = last_exec_complete + 1 /\ LastExecuted = last_exec_complete
  BY DEF OrderInv, ExecOrder, Uncounted, HeldBatch, LastExecuted
<1> QED BY <1>1, <1>2, CacheAssumption

(* The pipeline implements SerialBatches when the slots in use have          *)
(* different cache keys and no batch writes zero to a slot a node may have   *)
(* hydrated: for every number of batches and rounds, slots, effects, table   *)
(* and page sizes, every interleaving of the three tasks and every failure   *)
(* of the store, a batch reads from a slot what its predecessors left there, *)
(* or what an earlier round of the batch itself has written.                 *)
THEOREM Refinement == ASSUME DistinctKeys, ZeroSafe PROVE Spec => ExecutesSerially
<1>1. Init => DataInv
  <2> SUFFICES ASSUME Init PROVE DataInv
    OBVIOUS
  <2>0. /\ l1 = <<>> /\ rest = <<>> /\ records = <<>> /\ entries = <<>>
        /\ effects = <<>> /\ view = Nothing
        /\ pending = [b \in BatchIds |-> None] /\ l2 = [k \in Keys |-> None]
    BY Zenon DEF Init, BackendInit
  <2>1. CleanInv
    <3>1. \A s \in Slots : Genesis[s] = {} => inner[s] = Zero
      <4>1. PICK slots \in SUBSET Slots : inner = hydrated(slots)
        BY Zenon DEF Init, BackendInit
      <4>2. \A c \in Cells : db[c] \in Genesis[c] \cup {None}
        BY Zenon DEF Init, BackendInit
      <4> QED BY ZenonT(30), <4>1, <4>2, RecordAssumption DEF hydrated
    <3>2. <<>> \in Seq(CleanRecords) /\ <<>> \in Seq(CleanWrites)
      OBVIOUS
    <3>3. pending \in [BatchIds -> Seq(CleanRecords) \cup {None}]
      BY <2>0
    <3>4. \A k \in Keys : l2[k] = Zero => k \in CleanKeys
      BY <2>0, RecordAssumption
    <3> QED BY Zenon, <2>0, <3>1, <3>2, <3>3, <3>4 DEF CleanInv
  <2>2. ViewInv
    BY <2>0 DEF Nothing, ViewInv
  <2>3. StateInv
    <3>1. \A k : lookup(l1, k) = None /\ Newest(k) = None
      <4>1. <<>> \in Seq(Records) /\ <<>> \o <<>> = <<>> /\ DOMAIN <<>> = {}
        OBVIOUS
      <4> QED BY Zenon, <2>0, <4>1 DEF Newest, lookup, PositionsOf
    <3>2. ASSUME NEW s \in Slots PROVE Below(s) = serial[s]
      <4>1. EncodeKey[s] \in Keys
        BY RecordAssumption
      <4>2. l1_read(EncodeKey[s]) = None /\ l2[EncodeKey[s]] = None
        BY Zenon, <2>0, <3>1, <4>1 DEF l1_read
      <4>3. visible_batch = 0 /\ completed_batch = 0 /\ serial = [t \in Slots |-> storage(t)]
        BY Zenon DEF Init, BackendInit
      <4>4. read(EncodeKey[s], visible_batch) = db[DecodeKey[EncodeKey[s]]]
        BY <4>2, <4>3 DEF read, level_read
      <4>5. serial[s] = storage(s)
        BY Zenon, <4>3
      <4> QED BY Zenon, <4>4, <4>5 DEF storage, Below
    <3>3. \A s \in Slots : l2[EncodeKey[s]] = None
      BY <2>0, RecordAssumption
    <3> QED BY Zenon, <3>1, <3>2, <3>3 DEF StateInv
  <2> QED BY <2>1, <2>2, <2>3, CacheInit DEF DataInv
<1>2. ControlInv /\ OrderInv /\ PagesTracked /\ DataInv /\ [Next]_vars => DataInv'
  <2> SUFFICES ASSUME ControlInv, OrderInv, PagesTracked, DataInv, [Next]_vars PROVE DataInv'
    OBVIOUS
  <2>1. ShadowInv' /\ CleanInv' /\ ViewInv'
    BY Zenon, ShadowStep, CleanStep, ViewStep DEF DataInv
  <2>2. StateInv'
    BY Zenon, StateStep, ExecuteState DEF DataInv
  <2> QED BY Zenon, <2>1, <2>2 DEF DataInv
<1>3. Init => Serial!Init
  <2>1. Init => serial \in [Slots -> Values]
    BY TypeInit DEF TypeOK
  <2>2. Init => LastExecuted = 0 /\ round = 1 /\ effects = <<>>
    BY DEF Init, LastExecuted
  <2> QED BY <2>1, <2>2 DEF Serial!Init
<1>4. ControlInv /\ OrderInv /\ DataInv /\ [Next]_vars
      => [Serial!ExecuteRound \/ Serial!ExecuteLast]_Serial!vars
  <2> SUFFICES ASSUME ControlInv, OrderInv, DataInv, [Next]_vars
               PROVE  [Serial!ExecuteRound \/ Serial!ExecuteLast]_Serial!vars
    OBVIOUS
  <2>1. CASE ExecuteRound
    <3>1. /\ epc = "exec" /\ round < Rounds /\ round' = round + 1 /\ serial' = serial
          /\ view \in Serial!Views
      BY Zenon, <2>1, ViewIsSerial DEF ExecuteRound, DataInv
    <3>2. PICK writes \in Effects(ebatch.batch_id, round, view) : effects' = effects \o writes
      BY Zenon, <2>1 DEF ExecuteRound
    <3>3. LastExecuted' = LastExecuted
      <4>1. ~ExecuteBatch
        BY <2>1 DEF ExecuteRound, ExecuteBatch
      <4> QED BY Zenon, <4>1, LastExecutedStep
    <3>4. LastExecuted < MaxBatch /\ ebatch.batch_id = LastExecuted + 1
      BY Zenon, <3>1, HeldIsNext
    <3>5. \E v \in Serial!Views : \E writes2 \in Effects(LastExecuted + 1, round, v) :
            effects' = effects \o writes2
      BY Zenon, <3>1, <3>2, <3>4
    <3>6. Serial!ExecuteRound
      BY Zenon, <3>1, <3>3, <3>4, <3>5 DEF Serial!ExecuteRound
    <3> QED BY Zenon, <3>6
  <2>2. CASE ExecuteBatch
    <3>1. /\ epc = "exec" /\ round = Rounds /\ round' = 1 /\ effects' = <<>>
          /\ view \in Serial!Views
      BY Zenon, <2>2, ViewIsSerial DEF ExecuteBatch, DataInv
    <3>2. PICK writes \in Effects(ebatch.batch_id, round, view) :
            serial' = Overwrite(serial, effects \o writes)
      BY Zenon, <2>2 DEF ExecuteBatch
    <3>3. LastExecuted < MaxBatch /\ ebatch.batch_id = LastExecuted + 1
      BY Zenon, <3>1, HeldIsNext
    <3>4. LastExecuted' = LastExecuted + 1
      <4>1. epc' = "pages" /\ ebatch' = ebatch
        BY <2>2 DEF ExecuteBatch
      <4> QED BY <3>3, <4>1 DEF LastExecuted, HeldBatch
    <3>5. \E v \in Serial!Views : \E writes2 \in Effects(LastExecuted + 1, round, v) :
            serial' = Overwrite(serial, effects \o writes2)
      BY Zenon, <3>1, <3>2, <3>3
    <3>6. Serial!ExecuteLast
      BY Zenon, <3>1, <3>3, <3>4, <3>5 DEF Serial!ExecuteLast
    <3> QED BY Zenon, <3>6
  <2>3. CASE ~ExecuteRound /\ ~ExecuteBatch
    <3>1. UNCHANGED <<serial, round, effects>>
      BY Zenon, <2>3 DEF Next, OrderTask, ExecWorker, CommitWorker, vars, execVars,
        Execute, OrderReadWindow, OrderCheckInFlight, OrderEnter, OrderJoin,
        OrderFlush, OrderFlushFails, OrderReturn, ExecRecv, ExecExitOrder, ExecEnter, ExecRead,
        ExecApply, ExecWritePage, ExecComplete, ExecExit, ExecStop, CommitRecv, CommitTake,
        CommitPut, CommitPutFails, CommitL2, CommitExit, CommitStop
    <3>2. LastExecuted' = LastExecuted
      BY Zenon, <2>3, LastExecutedStep
    <3> QED BY Zenon, <3>1, <3>2 DEF Serial!vars
  <2> QED BY <2>1, <2>2, <2>3
<1> QED BY <1>1, <1>2, <1>3, <1>4, ControlInvariant, OrderInvariant,
           PagesTrackedTheorem, PTL DEF Spec, ExecutesSerially, Serial!Spec
==============================================================================
