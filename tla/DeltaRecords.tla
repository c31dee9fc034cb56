---------------------------- MODULE DeltaRecords ----------------------------
(***************************************************************************)
(* State writes of executed batches, the delta records they are encoded    *)
(* into and lookups in lists of them                                       *)
(* (chase/src/executor/cache/delta_page.rs, mem_index_table.rs,            *)
(* apply_buffer.rs).                                                       *)
(*                                                                         *)
(* encode_key keeps the low 12 of a slot's 32 bytes and decode_key pads    *)
(* them with zeros.  EncodeKey and DecodeKey are therefore not inverse of  *)
(* each other: a wide slot decodes to another cell of the store, and two   *)
(* slots may share a key.                                                  *)
(***************************************************************************)
EXTENDS Naturals, Sequences

CONSTANTS Slots,      \* (address, slot) pairs transactions read and write
          Cells,      \* (address, slot) pairs of the store, wider than Slots
          Keys,       \* 32-byte cache keys
          EncodeKey,  \* encode_key
          DecodeKey,  \* decode_key
          Values,     \* slot values
          Zero,       \* H256::default()
          None        \* Option::None

ASSUME RecordAssumption ==
    /\ Slots \subseteq Cells
    /\ EncodeKey \in [Slots -> Keys]
    /\ DecodeKey \in [Keys -> Cells]
    /\ Zero \in Values
    /\ None \notin Values

\* What the byte layout guarantees: encoding a decoded key gives it back.
ASSUME KeyAssumption ==
    /\ \A k \in Keys : DecodeKey[k] \in Slots => EncodeKey[DecodeKey[k]] = k
    /\ \A k1, k2 \in Keys : DecodeKey[k1] = DecodeKey[k2] => k1 = k2

Writes == [slot : Slots, value : Values]
Records == [key : Keys, value : Values]

\* The greatest of a set of positions: the entry written last.
Last(positions) ==
    CHOOSE i \in positions : \A j \in positions : j <= i

\* applies_to_temp_buffer, record_write.
encode_records(writes) ==
    [i \in DOMAIN writes |-> [key |-> EncodeKey[writes[i].slot],
                              value |-> writes[i].value]]

PositionsOf(table, k) == {i \in DOMAIN table : table[i].key = k}

\* MemIndexTable::lookup: the index leads to the last page that holds the key
\* and DeltaPage::lookup scans it backwards, so the last record wins.
lookup(table, k) ==
    IF PositionsOf(table, k) = {} THEN None
    ELSE table[Last(PositionsOf(table, k))].value

WritesTo(writes, s) == {i \in DOMAIN writes : writes[i].slot = s}

\* A state after the writes were made in order.
Overwrite(state, writes) ==
    [s \in Slots |-> IF WritesTo(writes, s) = {} THEN state[s]
                     ELSE writes[Last(WritesTo(writes, s))].value]
=============================================================================
