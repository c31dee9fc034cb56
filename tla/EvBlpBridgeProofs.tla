-------------------------- MODULE EvBlpBridgeProofs --------------------------
(***************************************************************************)
(* The control invariant of the EV-BLP pipeline: where the order task,     *)
(* exec_worker and commit_worker can be relative to each other             *)
(* (Lifecycle), what each of them holds there (Holding), and that the      *)
(* boundaries of the frozen tables stay ordered inside L1 (TablesOrdered). *)
(* TypeOK is not inductive without it: the flush cuts L1 at a boundary,    *)
(* and the workers follow ids of batches they must be holding.             *)
(***************************************************************************)
EXTENDS EvBlpInvariant, IntervalProofs

------------------------------------------------------------------------------
(* Sequences: what the lists of records and the queues are made of.          *)

(* An element of a sequence. *)
LEMMA ElementOfSeq ==
    ASSUME NEW S, NEW s \in Seq(S), NEW i \in 1..Len(s)
    PROVE  s[i] \in S
OBVIOUS

(* Two sequences of one length with the same elements are the same. *)
LEMMA SeqEqual ==
    ASSUME NEW S, NEW s \in Seq(S), NEW t \in Seq(S), Len(s) = Len(t),
           \A i \in 1..Len(s) : s[i] = t[i]
    PROVE  s = t
OBVIOUS

(* One element more at the end. *)
LEMMA AppendProperties ==
    ASSUME NEW S, NEW s \in Seq(S), NEW e \in S
    PROVE  /\ Append(s, e) \in Seq(S) /\ Len(Append(s, e)) = Len(s) + 1
           /\ Append(s, e)[Len(s) + 1] = e
           /\ \A i \in 1..Len(s) : Append(s, e)[i] = s[i]
OBVIOUS

(* Two sequences one after the other. *)
LEMMA ConcatProperties ==
    ASSUME NEW S, NEW s \in Seq(S), NEW t \in Seq(S)
    PROVE  /\ s \o t \in Seq(S) /\ Len(s \o t) = Len(s) + Len(t)
           /\ \A i \in 1..(Len(s) + Len(t)) :
                (s \o t)[i] = IF i <= Len(s) THEN s[i] ELSE t[i - Len(s)]
OBVIOUS

(* Three sequences one after the other, and an empty one. *)
LEMMA ConcatAssociative ==
    ASSUME NEW S, NEW s \in Seq(S), NEW t \in Seq(S), NEW u \in Seq(S)
    PROVE  (s \o t) \o u = s \o (t \o u)
OBVIOUS

LEMMA ConcatEmptySeq ==
    ASSUME NEW S, NEW s \in Seq(S)
    PROVE  s \o <<>> = s /\ <<>> \o s = s
OBVIOUS

(* A part of a sequence. *)
LEMMA SubSeqProperties ==
    ASSUME NEW S, NEW s, NEW m \in Int, NEW n \in Int, \A i \in m..n : s[i] \in S
    PROVE  /\ SubSeq(s, m, n) \in Seq(S)
           /\ Len(SubSeq(s, m, n)) = IF m <= n THEN n - m + 1 ELSE 0
           /\ \A i \in 1..(n - m + 1) : SubSeq(s, m, n)[i] = s[m + i - 1]
OBVIOUS

------------------------------------------------------------------------------
(* Lists of delta records: which record a lookup finds, and how lookups see    *)
(* concatenated and encoded lists.                                            *)

(* A nonempty set of positions of a list has a greatest element, which Last *)
(* returns.                                                                 *)
LEMMA LastIsGreatest ==
    ASSUME NEW n \in Nat, NEW S \in SUBSET (1..n), S # {}
    PROVE  Last(S) \in S /\ \A j \in S : j <= Last(S)
<1> DEFINE T == {n - i : i \in S}
<1>1. T \subseteq Nat /\ T # {}
  <2>1. \A i \in S : n - i \in Nat
    OBVIOUS
  <2>2. PICK i \in S : TRUE
    BY Zenon
  <2>3. n - i \in T
    BY <2>2
  <2> QED BY <2>1, <2>3
<1>2. PICK m \in T : \A y \in T : m <= y
  BY Zenon, <1>1, LeastNatural
<1>3. PICK i \in S : m = n - i
  BY Zenon, <1>2
<1>4. \A j \in S : j <= i
  BY <1>2, <1>3
<1> QED BY Zenon, <1>4 DEF Last

(* A lookup in a list of records finds a value exactly when the key occurs. *)
LEMMA LookupHit ==
    ASSUME NEW table \in Seq(Records), NEW k
    PROVE  /\ lookup(table, k) \in Values \cup {None}
           /\ lookup(table, k) = None <=> PositionsOf(table, k) = {}
           /\ PositionsOf(table, k) # {} =>
                /\ Last(PositionsOf(table, k)) \in PositionsOf(table, k)
                /\ \A j \in PositionsOf(table, k) :
                    j <= Last(PositionsOf(table, k))
<1>1. PositionsOf(table, k) \in SUBSET (1..Len(table))
  BY DEF PositionsOf
<1>2. PositionsOf(table, k) # {} =>
        /\ Last(PositionsOf(table, k)) \in PositionsOf(table, k)
        /\ \A j \in PositionsOf(table, k) : j <= Last(PositionsOf(table, k))
  <2>1. Len(table) \in Nat
    OBVIOUS
  <2> QED BY Zenon, <1>1, <2>1, LastIsGreatest
<1>3. \A i \in PositionsOf(table, k) : table[i].value \in Values
  <2>1. \A i \in PositionsOf(table, k) : table[i] \in Records
    BY <1>1, ElementOfSeq
  <2> QED BY <2>1 DEF Records
<1>4. CASE PositionsOf(table, k) = {}
  BY <1>4 DEF lookup
<1>5. CASE PositionsOf(table, k) # {}
  BY <1>2, <1>3, <1>5, RecordAssumption DEF lookup
<1> QED BY <1>4, <1>5

(* The position a lookup stops at is determined by being the last.          *)
LEMMA LookupIs ==
    ASSUME NEW table \in Seq(Records), NEW k, NEW i \in DOMAIN table,
           table[i].key = k, \A j \in DOMAIN table : table[j].key = k => j <= i
    PROVE  lookup(table, k) = table[i].value
<1>1. i \in PositionsOf(table, k) /\ \A j \in PositionsOf(table, k) : j <= i
  BY DEF PositionsOf
<1>2. /\ Last(PositionsOf(table, k)) \in PositionsOf(table, k)
      /\ i <= Last(PositionsOf(table, k))
  BY <1>1, LookupHit
<1>3. PositionsOf(table, k) \subseteq Nat
  BY DEF PositionsOf
<1>4. Last(PositionsOf(table, k)) = i
  BY <1>1, <1>2, <1>3
<1> QED BY <1>1, <1>4 DEF lookup

(* In a concatenation the second list shadows the first.                    *)
LEMMA LookupConcat ==
    ASSUME NEW old \in Seq(Records), NEW new \in Seq(Records), NEW k
    PROVE  lookup(old \o new, k) =
            IF lookup(new, k) # None THEN lookup(new, k) ELSE lookup(old, k)
<1> DEFINE both == old \o new
<1>1. /\ both \in Seq(Records)
      /\ Len(both) = Len(old) + Len(new)
      /\ \A i \in 1..Len(both) :
            both[i] = IF i <= Len(old) THEN old[i] ELSE new[i - Len(old)]
  BY ConcatProperties
<1>2. CASE lookup(new, k) # None
  <2>1. PICK i \in PositionsOf(new, k) :
            /\ \A j \in PositionsOf(new, k) : j <= i
            /\ lookup(new, k) = new[i].value
    BY <1>2, LookupHit DEF lookup
  <2>2. /\ i \in 1..Len(new) /\ new[i].key = k
        /\ \A j \in 1..Len(new) : new[j].key = k => j <= i
    BY <2>1 DEF PositionsOf
  <2>3. /\ i + Len(old) \in DOMAIN both
        /\ both[i + Len(old)] = new[i]
        /\ \A j \in DOMAIN both : both[j].key = k => j <= i + Len(old)
    <3>1. i + Len(old) \in DOMAIN both /\ both[i + Len(old)] = new[i]
      BY <1>1, <2>2
    <3>2. ASSUME NEW j \in DOMAIN both, both[j].key = k, j > i + Len(old)
          PROVE  FALSE
      <4>1. j - Len(old) \in 1..Len(new) /\ both[j] = new[j - Len(old)]
        BY <1>1, <2>2, <3>2
      <4> QED BY <1>1, <2>2, <3>2, <4>1
    <3> QED BY <1>1, <2>2, <3>1, <3>2
  <2>4. lookup(both, k) = both[i + Len(old)].value
    <3>1. both[i + Len(old)].key = k
      BY <2>2, <2>3
    <3> HIDE DEF both
    <3> QED BY Zenon, <1>1, <2>3, <3>1, LookupIs
  <2> QED BY <1>2, <2>1, <2>3, <2>4
<1>3. CASE lookup(new, k) = None
  <2>0. PositionsOf(new, k) = {}
    BY <1>3, LookupHit
  <2>1. \A j \in 1..Len(new) : new[j].key # k
    BY <2>0 DEF PositionsOf
  <2>2. PositionsOf(both, k) = PositionsOf(old, k)
    BY <1>1, <2>1 DEF PositionsOf
  <2>3. \A i \in PositionsOf(old, k) : both[i] = old[i]
    BY <1>1 DEF PositionsOf
  <2>4. PositionsOf(old, k) # {} =>
            both[Last(PositionsOf(old, k))] = old[Last(PositionsOf(old, k))]
    BY Zenon, <2>3, LookupHit
  <2> QED BY Zenon, <1>3, <2>2, <2>4 DEF lookup
<1> QED BY <1>2, <1>3

(* applies_to_temp_buffer makes one record of each write.                   *)
LEMMA EncodeType ==
    ASSUME NEW writes \in Seq(Writes)
    PROVE  /\ encode_records(writes) \in Seq(Records)
           /\ Len(encode_records(writes)) = Len(writes)
<1>1. \A i \in 1..Len(writes) : writes[i] \in Writes
  BY ElementOfSeq
<1>2. \A i \in 1..Len(writes) :
        [key |-> EncodeKey[writes[i].slot], value |-> writes[i].value] \in Records
  BY <1>1, RecordAssumption DEF Writes, Records
<1>3. DOMAIN writes = 1..Len(writes) /\ Len(writes) \in Nat
  OBVIOUS
<1>4. encode_records(writes) \in [1..Len(writes) -> Records]
  BY <1>2, <1>3 DEF encode_records
<1> QED BY <1>3, <1>4

(* Encoding keeps the positions: with distinct keys, looking up the key of a *)
(* slot finds the last write to that slot.                                   *)
LEMMA LookupEncoded ==
    ASSUME NEW writes \in Seq(Writes), NEW s \in Slots,
           \A t \in Slots : EncodeKey[s] = EncodeKey[t] => s = t
    PROVE  lookup(encode_records(writes), EncodeKey[s]) =
            IF WritesTo(writes, s) = {} THEN None
            ELSE writes[Last(WritesTo(writes, s))].value
<1> DEFINE recs == encode_records(writes)
<1>1. \A i \in DOMAIN writes : writes[i].slot \in Slots
  <2>1. \A i \in 1..Len(writes) : writes[i] \in Writes
    BY ElementOfSeq
  <2> QED BY <2>1 DEF Writes
<1>2. PositionsOf(recs, EncodeKey[s]) = WritesTo(writes, s)
  BY <1>1 DEF PositionsOf, WritesTo, encode_records
<1>3. WritesTo(writes, s) # {} => Last(WritesTo(writes, s)) \in DOMAIN writes
  <2>1. WritesTo(writes, s) \in SUBSET (1..Len(writes)) /\ Len(writes) \in Nat
    BY DEF WritesTo
  <2>2. WritesTo(writes, s) # {} =>
            Last(WritesTo(writes, s)) \in WritesTo(writes, s)
    BY Zenon, <2>1, LastIsGreatest
  <2> QED BY <2>2 DEF WritesTo
<1>4. \A i \in DOMAIN writes : recs[i].value = writes[i].value
  BY DEF encode_records
<1> QED BY <1>2, <1>3, <1>4 DEF lookup

(* A state stays one when writes are made to it. *)
LEMMA OverwriteType ==
    ASSUME NEW state \in [Slots -> Values], NEW writes \in Seq(Writes)
    PROVE  Overwrite(state, writes) \in [Slots -> Values]
<1>1. \A s \in Slots : WritesTo(writes, s) # {} =>
          writes[Last(WritesTo(writes, s))].value \in Values
  <2> SUFFICES ASSUME NEW s \in Slots, WritesTo(writes, s) # {}
               PROVE  writes[Last(WritesTo(writes, s))].value \in Values
    OBVIOUS
  <2>1. WritesTo(writes, s) \in SUBSET (1..Len(writes)) /\ Len(writes) \in Nat
    BY DEF WritesTo
  <2>2. Last(WritesTo(writes, s)) \in WritesTo(writes, s)
    BY <2>1, LastIsGreatest
  <2>3. writes[Last(WritesTo(writes, s))] \in Writes
    BY <2>1, <2>2, ElementOfSeq
  <2> QED BY <2>3 DEF Writes
<1> QED BY <1>1 DEF Overwrite

------------------------------------------------------------------------------
(* Types *)

USE DEF Stages, BatchIds, MaxRetries

(* CacheOverlayBackend::storage always answers with a value. *)
LEMMA StorageType ==
    ASSUME CacheTypeOK, BackendTypeOK, NEW s \in Slots
    PROVE  storage(s) \in Values
<1>1. \A k \in Keys : level_read(k) \in Values \cup {None}
  <2>1. \A k \in Keys : l1_read(k) \in Values \cup {None}
    BY LookupHit DEF l1_read, CacheTypeOK
  <2> QED BY <2>1, RecordAssumption DEF level_read, CacheTypeOK
<1>2. read(EncodeKey[s], visible_batch) \in Values \cup {None}
  BY <1>1, RecordAssumption DEF read
<1> QED BY <1>2 DEF storage, BackendTypeOK

(* The state ChaseStack::open leaves, with no call of execute running, has   *)
(* the right types.                                                          *)
LEMMA TypeInit == Init => TypeOK
<1> SUFFICES ASSUME Init PROVE TypeOK
  OBVIOUS
<1>1. ControllerTypeOK
  BY DEF Init, ControllerInit, ControllerTypeOK
<1>2. inner \in [Slots -> Values]
  BY RecordAssumption DEF Init, BackendInit, hydrated
<1>3. CacheTypeOK /\ BackendTypeOK
  BY <1>2 DEF Init, BackendInit, CacheTypeOK, BackendTypeOK
<1>4. next_batch_id \in 1..(MaxBatch + 1)
  BY CacheAssumption DEF Init
<1>5. view \in [Slots -> SUBSET Values] /\ round \in 1..Rounds
  BY BridgeAssumption DEF Init, Nothing
<1>10. serial \in [Slots -> Values]
  <2>1. \A s \in Slots : storage(s) \in Values
    BY Zenon, <1>3, StorageType
  <2> QED BY <2>1 DEF Init
<1>6. /\ exec_q \in Seq(PipelineBatches) /\ commit_q \in Seq(CommitWorks)
      /\ results \in Seq(BatchIds) /\ records \in Seq(Records)
      /\ rest \in Seq(Records) /\ entries \in Seq(Records)
      /\ unapplied \in Seq(Writes) /\ effects \in Seq(Writes)
  BY DEF Init
<1>7. /\ exec_tx \in {"alive", "dropped"} /\ commit_tx \in {"alive", "dropped"}
  BY DEF Init
<1>8. /\ last_exec_complete \in Nat /\ call_len \in Nat /\ left \in Nat
      /\ window \in Nat /\ attempt \in 0..MaxRetries /\ loaded \in Nat
      /\ stored \in Nat
  BY DEF Init
<1>9. ebatch \in PipelineBatches \cup {None} /\ work \in CommitWorks \cup {None}
  BY DEF Init
<1> QED BY <1>1, <1>3, <1>4, <1>5, <1>6, <1>7, <1>8, <1>9, <1>10 DEF Init, TypeOK

(* on_batch_enter keeps the types of the controller. *)
LEMMA EnterType ==
    ASSUME ControllerTypeOK, NEW s \in Stages, NEW n \in Nat, on_batch_enter(s, n)
    PROVE  ControllerTypeOK'
BY DEF on_batch_enter, ControllerTypeOK

(* on_batch_exit keeps the types of the controller: saturating_sub and the   *)
(* new window are naturals.                                                  *)
LEMMA ExitType ==
    ASSUME ControllerTypeOK, NEW s \in Stages, NEW n \in Nat, NEW c \in Nat,
           on_batch_exit(s, n, c)
    PROVE  ControllerTypeOK'
<1>1. saturating_sub(c, n) \in Nat /\ saturating_sub(in_flight[s], 1) \in Nat
  BY DEF saturating_sub, ControllerTypeOK
<1>2. new_zeta(s) \in Nat
  <2>1. zeta[s] \in Nat /\ w[NextStage(s)] \in Nat
    BY DEF NextStage, ControllerTypeOK
  <2>2. lesser(2 * zeta[s], ZetaMax) \in Nat /\ lesser(zeta[s] + 1, ZetaMax) \in Nat
    BY <2>1, ControllerAssumption DEF lesser
  <2> QED BY Zenon, <2>2 DEF new_zeta
<1>3. zeta' \in [Stages -> Nat]
  BY <1>2 DEF on_batch_exit, tick, ControllerTypeOK
<1> QED BY <1>1, <1>3 DEF on_batch_exit, ControllerTypeOK

(* put_batch, complete or cut short by an error, leaves values or nothing in *)
(* the cells of the store.                                                   *)
LEMMA PutBatchType ==
    ASSUME NEW recs \in Seq(Records), NEW n \in 0..Len(recs),
           db \in [Cells -> Values \cup {None}], put_batch(recs, n)
    PROVE  db' \in [Cells -> Values \cup {None}]
<1> DEFINE PutsTo(c) == {i \in 1..n : DecodeKey[recs[i].key] = c}
<1>1. ASSUME NEW c \in Cells, PutsTo(c) # {}
      PROVE  cell_value(recs[Last(PutsTo(c))].value) \in Values \cup {None}
  <2>1. Len(recs) \in Nat
    OBVIOUS
  <2>2. Last(PutsTo(c)) \in 1..Len(recs)
    <3>1. PutsTo(c) \in SUBSET (1..Len(recs))
      BY <2>1
    <3>2. PutsTo(c) # {}
      BY <1>1
    <3> HIDE DEF PutsTo
    <3> QED BY Zenon, <2>1, <3>1, <3>2, LastIsGreatest
  <2>3. recs[Last(PutsTo(c))] \in Records
    BY <2>2, ElementOfSeq
  <2> QED BY <2>3 DEF cell_value, Records
<1> QED BY <1>1 DEF put_batch

(* L2Cache::insert_batch leaves values or nothing under the keys of L2. *)
LEMMA InsertBatchType ==
    ASSUME NEW recs \in Seq(Records), l2 \in [Keys -> Values \cup {None}],
           insert_batch(recs)
    PROVE  l2' \in [Keys -> Values \cup {None}]
<1>1. \A k \in Keys : lookup(recs, k) \in Values \cup {None}
  BY LookupHit
<1> QED BY <1>1 DEF insert_batch

(* Once the oldest frozen table is removed, the boundaries of the others are *)
(* still positive.                                                           *)
LEMMA TablesGrow ==
    ASSUME frozen \in Seq(Nat), TablesOrdered,
           NEW i \in 1..(Len(frozen) - 1)
    PROVE  frozen[i + 1] - frozen[1] \in Nat \ {0}
<1>1. 1 \in DOMAIN frozen /\ i + 1 \in DOMAIN frozen /\ 1 < i + 1
  OBVIOUS
<1>2. frozen[1] < frozen[i + 1]
  BY <1>1 DEF TablesOrdered
<1>3. frozen[1] \in Nat /\ frozen[i + 1] \in Nat
  BY <1>1, ElementOfSeq
<1> QED BY <1>2, <1>3

(* flush_frozen_tables cuts L1 at the first boundary into the oldest table   *)
(* and what remains.                                                         *)
LEMMA OldestTableType ==
    ASSUME l1 \in Seq(Records), frozen \in Seq(Nat), frozen # <<>>,
           TablesOrdered
    PROVE  /\ frozen[1] \in 1..Len(l1)
           /\ OldestTable \in Seq(Records)
           /\ Len(OldestTable) = frozen[1]
           /\ SubSeq(l1, frozen[1] + 1, Len(l1)) \in Seq(Records)
           /\ Len(SubSeq(l1, frozen[1] + 1, Len(l1))) = Len(l1) - frozen[1]
<1>1. frozen[1] \in 1..Len(l1) /\ Len(l1) \in Nat
  BY DEF TablesOrdered
<1> QED BY <1>1, SubSeqProperties DEF OldestTable

(* PersistableCMemoryBackend::apply keeps the types of the store and leaves  *)
(* the memory backend as it was.                                             *)
LEMMA ApplyType ==
    ASSUME db \in [Cells -> Values \cup {None}], NEW write \in Writes,
           NEW persisted, apply(write, persisted)
    PROVE  db' \in [Cells -> Values \cup {None}] /\ inner' = inner
<1>1. cell_value(write.value) \in Values \cup {None}
  BY DEF cell_value, Writes
<1> QED BY Zenon, <1>1 DEF apply, persist_applies, memory_apply

(* A list cut after its nth element: the types, the lengths, and that the    *)
(* parts make up the list.                                                   *)
LEMMA CutSeq ==
    ASSUME NEW S, NEW recs \in Seq(S), NEW n \in 1..Len(recs)
    PROVE  /\ SubSeq(recs, 1, n) \in Seq(S)
           /\ Len(SubSeq(recs, 1, n)) = n
           /\ SubSeq(recs, n + 1, Len(recs)) \in Seq(S)
           /\ Len(SubSeq(recs, n + 1, Len(recs))) = Len(recs) - n
           /\ recs = SubSeq(recs, 1, n) \o SubSeq(recs, n + 1, Len(recs))
<1>1. n \in 1..Len(recs)
  OBVIOUS
<1> DEFINE left_part == SubSeq(recs, 1, n)
           right_part == SubSeq(recs, n + 1, Len(recs))
<1>2. /\ left_part \in Seq(S) /\ Len(left_part) = n
      /\ \A i \in 1..n : left_part[i] = recs[i]
  BY <1>1, SubSeqProperties
<1>3. /\ right_part \in Seq(S) /\ Len(right_part) = Len(recs) - n
      /\ \A i \in 1..(Len(recs) - n) : right_part[i] = recs[n + i]
  BY <1>1, SubSeqProperties
<1>4. recs = left_part \o right_part
  <2> HIDE DEF left_part, right_part
  <2>0. left_part \in Seq(S) /\ right_part \in Seq(S)
    BY <1>2, <1>3
  <2>1. /\ left_part \o right_part \in Seq(S)
        /\ Len(left_part \o right_part) = Len(left_part) + Len(right_part)
        /\ \A i \in 1..(Len(left_part) + Len(right_part)) :
            (left_part \o right_part)[i] =
                IF i <= Len(left_part) THEN left_part[i]
                                       ELSE right_part[i - Len(left_part)]
    BY <2>0, ConcatProperties
  <2>2. Len(left_part \o right_part) = Len(recs)
    BY <1>1, <1>2, <1>3, <2>1
  <2>3. ASSUME NEW i \in 1..Len(recs) PROVE (left_part \o right_part)[i] = recs[i]
    <3>1. CASE i <= n
      BY <1>1, <1>2, <1>3, <2>1, <3>1
    <3>2. CASE ~(i <= n)
      <4>1. PICK j \in 1..(Len(recs) - n) : i = n + j
        BY <1>1, <3>2
      <4>2. (left_part \o right_part)[i] = right_part[j]
        <5>1. i - Len(left_part) = j
          BY <1>1, <1>2, <4>1
        <5> QED BY <1>1, <1>2, <1>3, <2>1, <3>2, <5>1
      <4> QED BY <1>1, <1>3, <4>1, <4>2
    <3> QED BY Zenon, <3>1, <3>2
  <2> QED BY Zenon, <2>1, <2>2, <2>3, SeqEqual
<1> QED BY <1>2, <1>3, <1>4

(* into_delta_pages cuts a nonempty list of records into a first page and    *)
(* the rest.                                                                 *)
LEMMA PageSplit ==
    ASSUME NEW S, NEW recs \in Seq(S), recs # <<>>
    PROVE  LET n == page_len(recs)
           IN  /\ n \in 1..Len(recs)
               /\ SubSeq(recs, 1, n) \in Seq(S)
               /\ Len(SubSeq(recs, 1, n)) = n
               /\ SubSeq(recs, n + 1, Len(recs)) \in Seq(S)
               /\ recs = SubSeq(recs, 1, n) \o SubSeq(recs, n + 1, Len(recs))
<1> DEFINE n == page_len(recs)
<1>1. n \in 1..Len(recs)
  BY CacheAssumption DEF page_len
<1> HIDE DEF n
<1>2. /\ SubSeq(recs, 1, n) \in Seq(S)
      /\ Len(SubSeq(recs, 1, n)) = n
      /\ SubSeq(recs, n + 1, Len(recs)) \in Seq(S)
      /\ recs = SubSeq(recs, 1, n) \o SubSeq(recs, n + 1, Len(recs))
  BY <1>1, CutSeq
<1> QED BY Zenon, <1>1, <1>2 DEF n

(* A call of execute keeps the types. *)
LEMMA TypeExecute ==
    ASSUME ControlInv, NEW n \in BatchIds, Execute(n) PROVE TypeOK'
<1>1. TypeOK /\ n \in Nat
  BY CacheAssumption DEF ControlInv
<1>2. ControllerTypeOK' /\ CacheTypeOK' /\ BackendTypeOK'
  BY Zenon, <1>1 DEF Execute, TypeOK, ControllerTypeOK, CacheTypeOK, BackendTypeOK,
     controllerVars, cacheVars, backendVars
<1>3. /\ (next_batch_id \in 1..(MaxBatch + 1))' /\ (last_exec_complete \in Nat)'
      /\ (opc \in {"idle", "wait", "check", "enter", "join", "flush"})'
      /\ (call_len \in Nat)' /\ (left \in Nat)' /\ (window \in Nat)'
      /\ (attempt \in 0..MaxRetries)'
  BY <1>1 DEF Execute, TypeOK, idVars
<1>4. /\ (exec_q \in Seq(PipelineBatches))' /\ (commit_q \in Seq(CommitWorks))'
      /\ (results \in Seq(BatchIds))'
  BY <1>1 DEF Execute, TypeOK
<1>5. (exec_tx \in {"alive", "dropped"})' /\ (commit_tx \in {"alive", "dropped"})'
  BY DEF Execute
<1>6. /\ epc' = "recv" /\ cpc' = "recv"
      /\ UNCHANGED <<ebatch, loaded, round, view, unapplied, effects, records, rest,
                     work, entries, stored, serial>>
  BY DEF Execute
<1> QED BY <1>1, <1>2, <1>3, <1>4, <1>5, <1>6 DEF TypeOK

(* Every step of the order task keeps the types. *)
LEMMA TypeOrder ==
    ASSUME ControlInv, OrderTask PROVE TypeOK'
<1> USE DEF ControlInv, TypeOK
<1>u. ASSUME UNCHANGED <<controllerVars, cacheVars, backendVars>>
      PROVE  ControllerTypeOK' /\ CacheTypeOK' /\ BackendTypeOK'
  BY Zenon, <1>u DEF ControllerTypeOK, CacheTypeOK, BackendTypeOK, controllerVars,
     cacheVars, backendVars
<1>1. CASE OrderReadWindow
  <2>1. zeta["Order"] \in Nat
    BY DEF ControllerTypeOK
  <2> QED BY Zenon, <1>1, <1>u, <2>1 DEF OrderReadWindow, idVars, chanVars, execVars,
             commitVars
<1>2. CASE OrderCheckInFlight
  BY <1>2, <1>u DEF OrderCheckInFlight, idVars, chanVars, execVars, commitVars
<1>3. CASE OrderEnter
  <2>1. PICK gas \in GasWeights :
            /\ exec_q' = Append(exec_q, [batch_id |-> next_batch_id,
                                         gas_weight |-> gas])
            /\ on_batch_enter("Order", gas)
    BY <1>3 DEF OrderEnter
  <2>2. next_batch_id \in BatchIds /\ left - 1 \in Nat
        /\ next_batch_id' \in 1..(MaxBatch + 1)
    BY <1>3, CacheAssumption DEF OrderEnter, Lifecycle
  <2>3. exec_q' \in Seq(PipelineBatches)
    BY <2>1, <2>2 DEF PipelineBatches
  <2>4. gas \in Nat
    BY BridgeAssumption
  <2>5. ControllerTypeOK'
    BY <2>1, <2>4, EnterType
  <2>6. CacheTypeOK' /\ BackendTypeOK'
    BY <1>3 DEF OrderEnter, CacheTypeOK, BackendTypeOK, cacheVars, backendVars
  <2> QED BY <1>3, <2>2, <2>3, <2>5, <2>6 DEF OrderEnter, execVars, commitVars
<1>4. CASE OrderJoin
  BY <1>4, <1>u DEF OrderJoin, idVars, chanVars, execVars, commitVars
<1>5. CASE OrderFlush
  <2>0. /\ OldestTable \in Seq(Records)
        /\ Len(OldestTable) \in 0..Len(OldestTable)
        /\ SubSeq(l1, frozen[1] + 1, Len(l1)) \in Seq(Records)
    <3>1. l1 \in Seq(Records) /\ frozen \in Seq(Nat) /\ frozen # <<>>
      BY <1>5 DEF OrderFlush, flush_oldest, CacheTypeOK
    <3>2. /\ OldestTable \in Seq(Records)
          /\ SubSeq(l1, frozen[1] + 1, Len(l1)) \in Seq(Records)
      BY <3>1, OldestTableType
    <3>3. Len(OldestTable) \in Nat
      BY <3>2
    <3> QED BY <3>2, <3>3
  <2>1. db' \in [Cells -> Values \cup {None}]
    BY Zenon, <1>5, <2>0, PutBatchType DEF OrderFlush, flush_oldest, CacheTypeOK
  <2>2. l2' \in [Keys -> Values \cup {None}]
    BY Zenon, <1>5, <2>0, InsertBatchType DEF OrderFlush, flush_oldest, CacheTypeOK
  <2>3. frozen' \in Seq(Nat)
    <3>1. /\ frozen \in Seq(Nat) /\ frozen # <<>>
          /\ frozen' = [i \in 1..(Len(frozen) - 1) |-> frozen[i + 1] - frozen[1]]
      BY <1>5 DEF OrderFlush, flush_oldest, CacheTypeOK
    <3>2. Len(frozen) - 1 \in Nat
      BY <3>1
    <3> QED BY <3>1, <3>2, TablesGrow
  <2>4. CacheTypeOK'
    BY Zenon, <1>5, <2>0, <2>1, <2>2, <2>3 DEF OrderFlush, flush_oldest, CacheTypeOK
  <2> QED BY <1>5, <2>4 DEF OrderFlush, orderVars, idVars, chanVars, execVars,
             commitVars, controllerVars, backendVars, ControllerTypeOK,
             BackendTypeOK
<1>6. CASE OrderFlushFails
  <2>0. /\ OldestTable \in Seq(Records) /\ Len(OldestTable) = frozen[1]
        /\ frozen[1] \in Nat
    BY <1>6, OldestTableType DEF OrderFlushFails, flush_oldest_fails, CacheTypeOK
  <2>1. db' \in [Cells -> Values \cup {None}]
    <3>1. PICK n \in 0..(frozen[1] - 1) : put_batch(OldestTable, n)
      BY <1>6 DEF OrderFlushFails, flush_oldest_fails
    <3>2. n \in 0..Len(OldestTable)
      BY <2>0, <3>1
    <3> QED BY Zenon, <2>0, <3>1, <3>2, PutBatchType DEF CacheTypeOK
  <2>2. CacheTypeOK'
    BY <1>6, <2>1 DEF OrderFlushFails, flush_oldest_fails, CacheTypeOK
  <2> QED BY <1>6, <2>2 DEF OrderFlushFails, Lifecycle, orderVars, idVars,
             chanVars, execVars, commitVars, controllerVars, backendVars,
             ControllerTypeOK, BackendTypeOK
<1>7. CASE OrderReturn
  BY <1>7, <1>u DEF OrderReturn, idVars, chanVars, execVars, commitVars
<1> QED BY Zenon, <1>1, <1>2, <1>3, <1>4, <1>5, <1>6, <1>7 DEF OrderTask

(* Every step of exec_worker keeps the types. *)
LEMMA TypeExec ==
    ASSUME ControlInv, ExecWorker PROVE TypeOK'
<1> USE DEF ControlInv, TypeOK
<1>c. ASSUME UNCHANGED controllerVars PROVE ControllerTypeOK'
  BY <1>c DEF ControllerTypeOK, controllerVars
<1>d. ASSUME UNCHANGED cacheVars PROVE CacheTypeOK'
  BY <1>d DEF CacheTypeOK, cacheVars
<1>e. ASSUME UNCHANGED backendVars PROVE BackendTypeOK'
  BY <1>e DEF BackendTypeOK, backendVars
<1>g. ebatch # None => ebatch.batch_id \in BatchIds /\ ebatch.gas_weight \in Nat
  BY Zenon, BridgeAssumption DEF PipelineBatches
<1> USE DEF orderVars, idVars, chanVars, execVars, commitVars
<1>1. CASE ExecRecv
  <2>1. Head(exec_q) \in PipelineBatches /\ Tail(exec_q) \in Seq(PipelineBatches)
    BY <1>1 DEF ExecRecv
  <2> QED BY ZenonT(30), <1>1, <1>c, <1>d, <1>e, <2>1 DEF ExecRecv, ControllerTypeOK
<1>2. CASE ExecExitOrder
  <2>1. ControllerTypeOK'
    BY <1>2, <1>g, ExitType DEF ExecExitOrder, Holding
  <2> QED BY <1>2, <1>d, <1>e, <2>1 DEF ExecExitOrder
<1>3. CASE ExecEnter
  <2>1. ControllerTypeOK'
    BY <1>3, <1>g, EnterType DEF ExecEnter, Holding
  <2>2. BackendTypeOK'
    BY <1>3 DEF ExecEnter, BackendTypeOK
  <2> QED BY <1>3, <1>d, <2>1, <2>2 DEF ExecEnter
<1>4. CASE \E s \in Slots : ExecRead(s)
  <2>1. PICK s \in Slots : ExecRead(s)
    BY <1>4
  <2>2. storage(s) \in Values
    BY StorageType
  <2>3. view' \in [Slots -> SUBSET Values]
    BY <2>1, <2>2 DEF ExecRead
  <2> QED BY <1>c, <1>d, <1>e, <2>1, <2>3 DEF ExecRead
<1>11. CASE ExecuteRound
  <2>1. ebatch.batch_id \in BatchIds /\ round + 1 \in 1..Rounds
    BY <1>11, <1>g, BridgeAssumption DEF ExecuteRound, Holding
  <2>2. PICK writes \in Effects(ebatch.batch_id, round, view) :
            unapplied' = writes /\ effects' = effects \o writes
    BY Zenon, <1>11 DEF ExecuteRound
  <2>3. writes \in Seq(Writes)
    BY Zenon, <2>1, BridgeAssumption
  <2>4. unapplied' \in Seq(Writes) /\ effects' \in Seq(Writes)
    BY <2>2, <2>3, ConcatProperties
  <2>5. view' \in [Slots -> SUBSET Values] /\ round' \in 1..Rounds
    BY <1>11, <2>1 DEF ExecuteRound, Nothing
  <2> QED BY <1>11, <1>c, <1>d, <1>e, <2>4, <2>5 DEF ExecuteRound
<1>5. CASE ExecuteBatch
  <2>1. ebatch.batch_id \in BatchIds /\ 1 \in 1..Rounds
    BY <1>5, <1>g, BridgeAssumption DEF ExecuteBatch, Holding
  <2>2. PICK writes \in Effects(ebatch.batch_id, round, view) :
            /\ unapplied' = writes
            /\ records' = encode_records(effects \o writes)
            /\ rest' = encode_records(effects \o writes)
            /\ serial' = Overwrite(serial, effects \o writes)
    BY Zenon, <1>5 DEF ExecuteBatch
  <2>3. writes \in Seq(Writes) /\ effects \o writes \in Seq(Writes)
    <3>1. writes \in Seq(Writes)
      BY Zenon, <2>1, BridgeAssumption
    <3> QED BY <3>1, ConcatProperties
  <2>4. /\ unapplied' \in Seq(Writes)
        /\ records' \in Seq(Records) /\ rest' \in Seq(Records)
    BY <2>2, <2>3, EncodeType
  <2>5. /\ view' \in [Slots -> SUBSET Values] /\ round' \in 1..Rounds
        /\ effects' \in Seq(Writes)
    BY <1>5, <2>1 DEF ExecuteBatch, Nothing
  <2>6. serial' \in [Slots -> Values]
    BY Zenon, <2>2, <2>3, OverwriteType
  <2> QED BY <1>5, <1>c, <1>d, <1>e, <2>4, <2>5, <2>6 DEF ExecuteBatch
<1>10. CASE ExecApply
  <2>1. Head(unapplied) \in Writes /\ Tail(unapplied) \in Seq(Writes)
    BY <1>10 DEF ExecApply
  <2>2. db' \in [Cells -> Values \cup {None}] /\ inner' = inner
    BY <1>10, <2>1, ApplyType DEF ExecApply, CacheTypeOK
  <2>3. CacheTypeOK' /\ BackendTypeOK'
    BY <1>10, <2>2 DEF ExecApply, CacheTypeOK, BackendTypeOK
  <2> QED BY <1>10, <1>c, <2>1, <2>3 DEF ExecApply
<1>6. CASE ExecWritePage
  <2> DEFINE n == page_len(rest)
  <2>1. /\ SubSeq(rest, 1, n) \in Seq(Records)
        /\ SubSeq(rest, n + 1, Len(rest)) \in Seq(Records)
    BY Zenon, <1>6, PageSplit DEF ExecWritePage
  <2>p. write_delta_page(SubSeq(rest, 1, n)) /\ l1 \in Seq(Records) /\ frozen \in Seq(Nat)
    BY <1>6 DEF ExecWritePage, CacheTypeOK
  <2> HIDE DEF n
  <2>2. l1' \in Seq(Records) /\ frozen' \in Seq(Nat)
    <3>1. Len(l1) + Len(SubSeq(rest, 1, n)) \in Nat
      BY <2>1, <2>p
    <3>2. frozen' \in Seq(Nat)
      <4>1. Append(frozen, Len(l1) + Len(SubSeq(rest, 1, n))) \in Seq(Nat)
        BY Zenon, <2>p, <3>1, AppendProperties
      <4>2. \/ frozen' = Append(frozen, Len(l1) + Len(SubSeq(rest, 1, n)))
            \/ frozen' = frozen
        BY Zenon, <2>p DEF write_delta_page
      <4> QED BY Zenon, <2>p, <4>1, <4>2
    <3>3. l1' \in Seq(Records)
      BY <2>1, <2>p, ConcatProperties DEF write_delta_page
    <3> QED BY <3>2, <3>3
  <2>3. rest' \in Seq(Records)
    BY <1>6, <2>1 DEF ExecWritePage, n
  <2>4. CacheTypeOK'
    BY <1>6, <2>2 DEF ExecWritePage, CacheTypeOK
  <2> QED BY <1>6, <1>c, <1>e, <2>3, <2>4 DEF ExecWritePage
<1>7. CASE ExecComplete
  <2>1. ebatch.batch_id \in BatchIds /\ ebatch.batch_id \in Nat
    BY <1>7, <1>g DEF ExecComplete, Holding
  <2>2. pending' \in [BatchIds -> Seq(Records) \cup {None}]
    BY Zenon, <1>7 DEF ExecComplete, CacheTypeOK
  <2>3. completed_batch' \in Nat
    BY <1>7, <2>1 DEF ExecComplete, mark_batch_complete, CacheTypeOK
  <2>4. CacheTypeOK'
    BY <1>7, <2>2, <2>3 DEF ExecComplete, CacheTypeOK
  <2>5. BackendTypeOK'
    BY <1>7, <2>1 DEF ExecComplete, BackendTypeOK
  <2> QED BY <1>7, <1>c, <2>1, <2>4, <2>5 DEF ExecComplete
<1>8. CASE ExecExit
  <2>1. ControllerTypeOK'
    BY Zenon, <1>8, <1>g, ExitType DEF ExecExit, Holding, ControllerTypeOK
  <2>2. results' \in Seq(BatchIds)
    BY <1>8, <1>g DEF ExecExit, Holding
  <2>3. commit_q' \in Seq(CommitWorks)
    BY <1>8, <1>g DEF ExecExit, Holding, CommitWorks
  <2> QED BY <1>8, <1>d, <1>e, <2>1, <2>2, <2>3 DEF ExecExit
<1>9. CASE ExecStop
  BY <1>9, <1>c, <1>d, <1>e DEF ExecStop
<1> QED BY Zenon, <1>1, <1>2, <1>3, <1>4, <1>5, <1>6, <1>7, <1>8, <1>9, <1>10,
           <1>11 DEF ExecWorker

(* The types of what commit_worker changes, and of what it leaves alone. *)
CommitTypes ==
    /\ commit_q \in Seq(CommitWorks)
    /\ cpc \in {"recv", "take", "put", "l2", "exit", "done"}
    /\ work \in CommitWorks \cup {None}
    /\ entries \in Seq(Records)
    /\ stored \in Nat

LEMMA CommitTypesEnough ==
    ASSUME TypeOK, ControllerTypeOK', CacheTypeOK', BackendTypeOK', CommitTypes',
           UNCHANGED <<idVars, orderVars, execVars, exec_q, exec_tx, results, commit_tx,
                       serial>>
    PROVE  TypeOK'
BY Zenon DEF TypeOK, CommitTypes, idVars, orderVars, execVars

LEMMA TypeStutter ==
    ASSUME TypeOK, UNCHANGED vars PROVE TypeOK'
<1>1. UNCHANGED <<controllerVars, cacheVars, backendVars, idVars, orderVars, execVars, chanVars,
                  commitVars, serial>>
  BY Zenon DEF vars
<1>2. ControllerTypeOK /\ CacheTypeOK /\ BackendTypeOK /\ CommitTypes
  BY Zenon DEF TypeOK, CommitTypes
<1>3. ControllerTypeOK'
  BY <1>1, <1>2 DEF ControllerTypeOK, controllerVars
<1>4. CacheTypeOK'
  BY <1>1, <1>2 DEF CacheTypeOK, cacheVars
<1>5. BackendTypeOK'
  BY <1>1, <1>2 DEF BackendTypeOK, backendVars
<1>6. CommitTypes'
  BY Zenon, <1>1, <1>2 DEF CommitTypes, commitVars, chanVars
<1>7. UNCHANGED <<exec_q, exec_tx, results, commit_tx>>
  BY Zenon, <1>1 DEF chanVars
<1> QED BY Zenon, <1>1, <1>3, <1>4, <1>5, <1>6, <1>7, CommitTypesEnough

(* Every step of commit_worker keeps the types. *)
LEMMA TypeCommit ==
    ASSUME ControlInv, CommitWorker PROVE TypeOK'
<1>t. /\ TypeOK /\ CommitTypes /\ Holding /\ CacheTypeOK /\ ControllerTypeOK
  BY Zenon DEF ControlInv, TypeOK, CommitTypes
<1>c. ASSUME UNCHANGED controllerVars PROVE ControllerTypeOK'
  BY <1>c, <1>t DEF ControllerTypeOK, controllerVars
<1>d. ASSUME UNCHANGED cacheVars PROVE CacheTypeOK'
  BY <1>d, <1>t DEF CacheTypeOK, cacheVars
<1>e. BackendTypeOK'
  <2>1. UNCHANGED backendVars
    BY Zenon DEF CommitWorker, CommitRecv, CommitTake, CommitPut, CommitPutFails, CommitL2,
       CommitExit, CommitStop
  <2>2. BackendTypeOK
    BY Zenon, <1>t DEF TypeOK
  <2> QED BY <2>1, <2>2 DEF BackendTypeOK, backendVars
<1>g. work # None => work.batch_id \in BatchIds /\ work.delta_bytes \in Nat
  BY <1>t DEF CommitTypes, CommitWorks
<1>o. ASSUME ControllerTypeOK', CacheTypeOK', CommitTypes',
             UNCHANGED <<idVars, orderVars, execVars, exec_q, exec_tx, results, commit_tx,
                         serial>>
      PROVE  TypeOK'
  BY Zenon, <1>t, <1>e, <1>o, CommitTypesEnough
<1>1. CASE CommitRecv
  <2>1. Head(commit_q) \in CommitWorks /\ Tail(commit_q) \in Seq(CommitWorks)
    BY <1>1, <1>t DEF CommitRecv, CommitTypes
  <2>2. Head(commit_q).delta_bytes \in Nat
    BY <2>1 DEF CommitWorks
  <2>3. ControllerTypeOK'
    BY Zenon, <1>1, <1>t, <2>2, EnterType DEF CommitRecv, Stages
  <2>4. CommitTypes'
    BY <1>1, <1>t, <2>1 DEF CommitRecv, CommitTypes
  <2> QED BY Zenon, <1>1, <1>d, <1>o, <2>3, <2>4 DEF CommitRecv
<1>2. CASE CommitTake
  <2>1. CommitTypes' /\ CacheTypeOK'
    <3>1. work.batch_id \in BatchIds
      BY <1>2, <1>g, <1>t DEF CommitTake, Holding
    <3>2. entries' \in Seq(Records)
      BY <1>2, <1>t, <3>1 DEF CommitTake, CacheTypeOK
    <3>3. CommitTypes'
      BY <1>2, <1>t, <3>2 DEF CommitTake, CommitTypes, chanVars
    <3>4. CacheTypeOK'
      BY Zenon, <1>2, <1>t DEF CommitTake, CacheTypeOK
    <3> QED BY <3>3, <3>4
  <2> QED BY Zenon, <1>2, <1>c, <1>o, <2>1 DEF CommitTake, chanVars
<1>3. CASE CommitPut
  <2>1. entries[stored + 1] \in Records
    BY <1>3, <1>t, ElementOfSeq DEF CommitPut, Holding, CommitTypes
  <2>2. db' \in [Cells -> Values \cup {None}]
    BY Zenon, <1>3, <1>t, <2>1 DEF CommitPut, put, cell_value, Records, CacheTypeOK
  <2>3. CacheTypeOK'
    BY <1>3, <1>t, <2>2 DEF CommitPut, CacheTypeOK
  <2>4. CommitTypes'
    BY <1>3, <1>t DEF CommitPut, CommitTypes, chanVars
  <2> QED BY Zenon, <1>3, <1>c, <1>o, <2>3, <2>4 DEF CommitPut, chanVars
<1>4. CASE CommitPutFails
  <2>1. CommitTypes'
    BY <1>4, <1>t DEF CommitPutFails, CommitTypes, chanVars
  <2> QED BY Zenon, <1>4, <1>c, <1>d, <1>o, <2>1 DEF CommitPutFails, chanVars
<1>5. CASE CommitL2
  <2>1. l2' \in [Keys -> Values \cup {None}]
    BY <1>5, <1>t, InsertBatchType DEF CommitL2, CacheTypeOK, CommitTypes
  <2>2. CacheTypeOK'
    BY <1>5, <1>t, <2>1 DEF CommitL2, CacheTypeOK
  <2>3. CommitTypes'
    BY <1>5, <1>t DEF CommitL2, CommitTypes, chanVars
  <2> QED BY Zenon, <1>5, <1>c, <1>o, <2>2, <2>3 DEF CommitL2, chanVars
<1>6. CASE CommitExit
  <2>1. ControllerTypeOK'
    BY Zenon, <1>6, <1>g, <1>t, ExitType DEF CommitExit, Holding, ControllerTypeOK
  <2>2. CommitTypes'
    BY <1>6, <1>t DEF CommitExit, CommitTypes, chanVars
  <2> QED BY Zenon, <1>6, <1>d, <1>o, <2>1, <2>2 DEF CommitExit, chanVars
<1>7. CASE CommitStop
  <2>1. CommitTypes'
    BY <1>7, <1>t DEF CommitStop, CommitTypes, chanVars
  <2> QED BY Zenon, <1>7, <1>c, <1>d, <1>o, <2>1 DEF CommitStop, chanVars
<1> QED BY Zenon, <1>1, <1>2, <1>3, <1>4, <1>5, <1>6, <1>7 DEF CommitWorker

------------------------------------------------------------------------------
(* Control *)

(* Every step of the order task keeps the life cycle of a call and what the  *)
(* tasks hold.                                                               *)
LEMMA ControlOrder ==
    ASSUME ControlInv, OrderTask PROVE Lifecycle' /\ Holding'
<1>t. /\ Lifecycle /\ Holding
      /\ left \in Nat /\ next_batch_id \in Nat /\ attempt \in 0..MaxRetries
  BY DEF ControlInv, TypeOK
<1> USE DEF Lifecycle, Holding, idVars, chanVars, execVars, commitVars, orderVars
<1>1. CASE OrderReadWindow
  BY <1>t, <1>1 DEF OrderReadWindow
<1>2. CASE OrderCheckInFlight
  BY <1>t, <1>2 DEF OrderCheckInFlight
<1>3. CASE OrderEnter
  <2>1. Holding'
    BY <1>t, <1>3 DEF OrderEnter
  <2>2. epc # "done" /\ cpc # "done"
    BY <1>t, <1>3 DEF OrderEnter
  <2>3. /\ left' = left - 1 /\ left >= 1 /\ next_batch_id' = next_batch_id + 1
        /\ opc' = IF left = 1 THEN "join" ELSE "wait"
        /\ exec_tx' = IF left = 1 THEN "dropped" ELSE "alive"
        /\ UNCHANGED <<epc, cpc, attempt, commit_q, commit_tx>>
    BY <1>t, <1>3 DEF OrderEnter
  <2>4. Lifecycle'
    BY <1>t, <2>2, <2>3, CacheAssumption
  <2> QED BY <1>t, <2>1, <2>4
<1>4. CASE OrderJoin
  BY <1>t, <1>4 DEF OrderJoin
<1>5. CASE OrderFlush
  BY <1>t, <1>5 DEF OrderFlush
<1>6. CASE OrderFlushFails
  BY <1>t, <1>6 DEF OrderFlushFails
<1>7. CASE OrderReturn
  BY <1>t, <1>7 DEF OrderReturn
<1> QED BY Zenon, <1>1, <1>2, <1>3, <1>4, <1>5, <1>6, <1>7 DEF OrderTask

(* Every step of exec_worker keeps the life cycle of a call and what the     *)
(* tasks hold.                                                               *)
LEMMA ControlExec ==
    ASSUME ControlInv, ExecWorker PROVE Lifecycle' /\ Holding'
<1>t. /\ Lifecycle /\ Holding
      /\ exec_q \in Seq(PipelineBatches)
  BY DEF ControlInv, TypeOK
<1> USE DEF Lifecycle, Holding, idVars, chanVars, execVars,
            commitVars, orderVars
<1>1. CASE ExecRecv
  <2>1. ebatch' \in PipelineBatches
    BY <1>t, <1>1 DEF ExecRecv
  <2>2. ebatch' # None
    BY <1>t, <2>1, NoneAssumption
  <2> QED BY <1>t, <1>1, <2>2 DEF ExecRecv
<1>2. CASE ExecExitOrder
  BY <1>t, <1>2 DEF ExecExitOrder
<1>3. CASE ExecEnter
  BY <1>t, <1>3 DEF ExecEnter
<1>4. CASE \E s \in Slots : ExecRead(s)
  BY <1>t, <1>4 DEF ExecRead
<1>11. CASE ExecuteRound
  BY <1>t, <1>11 DEF ExecuteRound
<1>5. CASE ExecuteBatch
  BY <1>t, <1>5 DEF ExecuteBatch
<1>10. CASE ExecApply
  BY <1>t, <1>10 DEF ExecApply
<1>6. CASE ExecWritePage
  BY <1>t, <1>6 DEF ExecWritePage
<1>7. CASE ExecComplete
  BY <1>t, <1>7 DEF ExecComplete
<1>8. CASE ExecExit
  BY <1>t, <1>8 DEF ExecExit
<1>9. CASE ExecStop
  BY <1>t, <1>9 DEF ExecStop
<1> QED BY Zenon, <1>1, <1>2, <1>3, <1>4, <1>5, <1>6, <1>7, <1>8, <1>9, <1>10,
           <1>11 DEF ExecWorker

(* Every step of commit_worker keeps the life cycle of a call and what the   *)
(* tasks hold.                                                               *)
LEMMA ControlCommit ==
    ASSUME ControlInv, CommitWorker PROVE Lifecycle' /\ Holding'
<1>t. /\ Lifecycle /\ Holding
      /\ entries \in Seq(Records) /\ stored \in Nat /\ commit_q \in Seq(CommitWorks)
  BY DEF ControlInv, TypeOK
<1> USE DEF Lifecycle, Holding, idVars, chanVars, execVars, commitVars, orderVars
<1>1. CASE CommitRecv
  <2>1. work' \in CommitWorks
    BY <1>t, <1>1 DEF CommitRecv
  <2>2. work' # None
    BY <1>t, <2>1, NoneAssumption
  <2> QED BY <1>t, <1>1, <2>2 DEF CommitRecv
<1>2. CASE CommitTake
  <2>1. TypeOK'
    BY Zenon, <1>2, TypeCommit DEF CommitWorker
  <2>2. entries' \in Seq(Records)
    BY <2>1 DEF TypeOK
  <2>3. /\ cpc' = IF entries' = <<>> THEN "exit" ELSE "put"
        /\ cpc = "take" /\ stored' = 0
    BY <1>2 DEF CommitTake
  <2>4. UNCHANGED <<idVars, orderVars, execVars, chanVars, work>>
    BY <1>2 DEF CommitTake
  <2>5. cpc' = "put" => stored' < Len(entries')
    BY <2>2, <2>3
  <2>6. Lifecycle'
    BY <1>t, <2>3, <2>4
  <2>7. Holding'
    BY <1>t, <2>3, <2>4, <2>5
  <2> QED BY Zenon, <2>6, <2>7
<1>3. CASE CommitPut
  <2>1. /\ cpc' \in {"l2", "put"} /\ cpc = "put" /\ stored' = stored + 1
        /\ cpc' = IF stored + 1 = Len(entries) THEN "l2" ELSE "put"
        /\ stored < Len(entries) /\ stored \in Nat /\ Len(entries) \in Nat
    BY <1>t, <1>3 DEF CommitPut
  <2>2. UNCHANGED <<idVars, orderVars, execVars, chanVars, work, entries>>
    BY <1>3 DEF CommitPut
  <2>3. Lifecycle'
    BY <1>t, <2>1, <2>2
  <2>4. Holding'
    BY <1>t, <2>1, <2>2
  <2> QED BY Zenon, <2>3, <2>4
<1>4. CASE CommitPutFails
  BY <1>t, <1>4 DEF CommitPutFails
<1>5. CASE CommitL2
  BY <1>t, <1>5 DEF CommitL2
<1>6. CASE CommitExit
  BY <1>t, <1>6 DEF CommitExit
<1>7. CASE CommitStop
  BY <1>t, <1>7 DEF CommitStop
<1> QED BY Zenon, <1>1, <1>2, <1>3, <1>4, <1>5, <1>6, <1>7 DEF CommitWorker

(* A call of execute starts a life cycle with tasks that hold nothing. *)
LEMMA ControlExecute ==
    ASSUME ControlInv, NEW n \in BatchIds, Execute(n) PROVE Lifecycle' /\ Holding'
<1> USE DEF ControlInv, TypeOK, Execute
<1>1. Lifecycle'
  BY CacheAssumption DEF Lifecycle, idVars
<1>2. Holding'
  BY DEF Lifecycle, Holding
<1> QED BY <1>1, <1>2

(* freeze_active appends a boundary after all others and the flush removes   *)
(* the first one, so the boundaries stay ordered.                            *)
LEMMA TablesStep ==
    ASSUME ControlInv, [Next]_vars PROVE TablesOrdered'
<1> USE DEF ControlInv
<1>f. l1 \in Seq(Records) /\ frozen \in Seq(Nat) /\ Len(l1) \in Nat
  BY DEF TypeOK, CacheTypeOK
<1>u. ASSUME UNCHANGED <<l1, frozen>> PROVE TablesOrdered'
  BY <1>u DEF TablesOrdered
<1>1. CASE OrderFlush
  <2>1. /\ frozen # <<>>
        /\ l1' = SubSeq(l1, frozen[1] + 1, Len(l1))
        /\ frozen' = [i \in 1..(Len(frozen) - 1) |-> frozen[i + 1] - frozen[1]]
    BY <1>1 DEF OrderFlush, flush_oldest
  <2>2. Len(l1') = Len(l1) - frozen[1] /\ frozen[1] \in 1..Len(l1)
    BY <1>f, <2>1, OldestTableType
  <2>3. \A i \in DOMAIN frozen' :
            /\ i \in 1..(Len(frozen) - 1) /\ i + 1 \in DOMAIN frozen
            /\ frozen'[i] = frozen[i + 1] - frozen[1]
    BY <1>f, <2>1
  <2>4. ASSUME NEW i \in DOMAIN frozen' PROVE frozen'[i] \in 1..Len(l1')
    <3>1. frozen[i + 1] - frozen[1] \in Nat \ {0}
      BY Zenon, <1>f, <2>3, TablesGrow
    <3>2. frozen[i + 1] \in 1..Len(l1)
      BY <2>3 DEF TablesOrdered
    <3>3. frozen'[i] = frozen[i + 1] - frozen[1]
      BY <2>3
    <3> HIDE DEF ControlInv
    <3> QED BY <1>f, <2>2, <3>1, <3>2, <3>3
  <2>5. ASSUME NEW i \in DOMAIN frozen', NEW j \in DOMAIN frozen', i < j
        PROVE  frozen'[i] < frozen'[j]
    <3>1. frozen[i + 1] < frozen[j + 1]
      BY <2>3, <2>5 DEF TablesOrdered
    <3>2. frozen[i + 1] \in Nat /\ frozen[j + 1] \in Nat
      BY <1>f, <2>3
    <3> QED BY <2>2, <2>3, <3>1, <3>2
  <2> QED BY <2>4, <2>5 DEF TablesOrdered
<1>2. CASE ExecWritePage
  <2> DEFINE n == page_len(rest)
             page == SubSeq(rest, 1, n)
  <2>1. n \in 1..Len(rest) /\ page \in Seq(Records) /\ Len(page) = n /\ Len(page) >= 1
    BY <1>2, PageSplit DEF ExecWritePage, TypeOK
  <2>2. write_delta_page(page)
    BY <1>2 DEF ExecWritePage
  <2> HIDE DEF n, page
  <2>3. /\ l1' = l1 \o page /\ Len(l1') = Len(l1) + Len(page)
        /\ \/ frozen' = Append(frozen, Len(l1) + Len(page))
           \/ frozen' = frozen
    BY Zenon, <1>f, <2>1, <2>2, ConcatProperties DEF write_delta_page
  <2>4. Len(page) \in Nat \ {0}
    BY <2>1
  <2>5. CASE frozen' = frozen
    BY <1>f, <2>3, <2>4, <2>5 DEF TablesOrdered
  <2>6. CASE frozen' = Append(frozen, Len(l1) + Len(page))
    <3> DEFINE end == Len(l1) + Len(page)
    <3>0. end \in Nat /\ Len(l1) < end /\ Len(l1') = end /\ Len(l1) \in Nat
      BY <1>f, <2>3, <2>4
    <3>1. /\ Len(frozen) \in Nat /\ DOMAIN frozen' = 1..(Len(frozen) + 1)
          /\ DOMAIN frozen = 1..Len(frozen)
          /\ \A i \in 1..Len(frozen) : frozen'[i] = frozen[i]
          /\ frozen'[Len(frozen) + 1] = end
      BY <1>f, <2>6, <3>0
    <3>2. \A i \in 1..Len(frozen) : frozen[i] \in 1..Len(l1)
      BY Zenon, <3>1 DEF TablesOrdered
    <3> HIDE DEF end
    <3>3. ASSUME NEW i \in DOMAIN frozen' PROVE frozen'[i] \in 1..Len(l1')
      BY <3>0, <3>1, <3>2
    <3>4. ASSUME NEW i \in DOMAIN frozen', NEW j \in DOMAIN frozen', i < j
          PROVE  frozen'[i] < frozen'[j]
      <4>1. i \in 1..Len(frozen)
        BY <3>1, <3>4
      <4>2. CASE j \in 1..Len(frozen)
        BY Zenon, <3>1, <3>4, <4>1, <4>2 DEF TablesOrdered
      <4>3. CASE j = Len(frozen) + 1
        BY <3>0, <3>1, <3>2, <4>1, <4>3
      <4> QED BY <3>1, <4>2, <4>3
    <3> QED BY Zenon, <3>3, <3>4 DEF TablesOrdered
  <2> QED BY <2>3, <2>5, <2>6
<1>3. CASE ~(OrderFlush \/ ExecWritePage)
  <2>1. UNCHANGED <<l1, frozen>>
    BY Zenon, <1>3 DEF Next, OrderTask, ExecWorker, CommitWorker, vars, cacheVars,
      Execute, OrderReadWindow, OrderCheckInFlight, OrderEnter, OrderJoin,
      OrderFlushFails, flush_oldest_fails, OrderReturn, ExecRecv, ExecExitOrder,
      ExecEnter, ExecRead, ExecuteRound, ExecuteBatch, ExecApply,
      ExecComplete, ExecExit, ExecStop, CommitRecv, CommitTake, CommitPut, CommitPutFails,
      CommitL2, CommitExit, CommitStop
  <2> QED BY <1>u, <2>1
<1> QED BY <1>1, <1>2, <1>3

(* The control invariant holds before the first call of execute. *)
LEMMA ControlInit == Init => ControlInv
<1>1. Init => Lifecycle
  BY CacheAssumption DEF Init, Lifecycle
<1>2. Init => Holding
  BY DEF Init, Holding
<1>3. Init => TablesOrdered
  BY DEF Init, BackendInit, TablesOrdered
<1> QED BY <1>1, <1>2, <1>3, TypeInit DEF ControlInv

(* The control invariant holds throughout: the workers of execute end before *)
(* it flushes and returns, a worker never ends with batches in its channel,  *)
(* and none of them acts on a batch it does not hold.                        *)
THEOREM ControlInvariant == Spec => []ControlInv
<1>1. Init => ControlInv
  BY ControlInit
<1>2. ControlInv /\ [Next]_vars => ControlInv'
  <2> SUFFICES ASSUME ControlInv, [Next]_vars PROVE TypeOK' /\ Lifecycle' /\ Holding'
    BY TablesStep DEF ControlInv
  <2>1. CASE \E n \in BatchIds : Execute(n)
    BY <2>1, TypeExecute, ControlExecute
  <2>2. CASE OrderTask
    BY <2>2, TypeOrder, ControlOrder
  <2>3. CASE ExecWorker
    BY <2>3, TypeExec, ControlExec
  <2>4. CASE CommitWorker
    BY <2>4, TypeCommit, ControlCommit
  <2>5. CASE UNCHANGED vars
    <3>1. TypeOK /\ Lifecycle /\ Holding
      BY DEF ControlInv
    <3>2. TypeOK'
      BY Zenon, <2>5, <3>1, TypeStutter
    <3>3. UNCHANGED <<exec_q, exec_tx, results, commit_q, commit_tx, opc, left, call_len, epc, ebatch,
                      unapplied, rest, records, round, view, effects, cpc, work, entries, stored, next_batch_id,
                      attempt>>
      BY Zenon, <2>5 DEF vars, idVars, orderVars, execVars, chanVars, commitVars
    <3>4. Lifecycle'
      BY <3>1, <3>3 DEF Lifecycle
    <3>5. Holding'
      BY <3>1, <3>3 DEF Holding
    <3> QED BY <3>2, <3>4, <3>5
  <2> QED BY <2>1, <2>2, <2>3, <2>4, <2>5 DEF Next
<1> QED BY <1>1, <1>2, PTL DEF Spec

(* Type correctness, for every number of batches, every window configuration *)
(* and every effect of the batches: in particular no counter of              *)
(* PipelineController goes below zero, and flush_frozen_tables never cuts a  *)
(* table beyond the end of L1.                                               *)
THEOREM TypeCorrect == Spec => []TypeOK
<1>1. ControlInv => TypeOK
  BY DEF ControlInv
<1> QED BY <1>1, ControlInvariant, PTL
==============================================================================
