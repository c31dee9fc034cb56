--------------------------- MODULE EvBlpInvariant ---------------------------
(***************************************************************************)
(* The inductive invariant of the EV-BLP pipeline, in four layers that the *)
(* proofs add one after the other: control (ControlInv), the windows       *)
(* (CountInv), the order of the batches (OrderInv) and the contents of the *)
(* cache levels (ShadowInv, CleanInv).                                     *)
(***************************************************************************)
EXTENDS EvBlpBridge

------------------------------------------------------------------------------
(* Control: where the tasks can be relative to each other, what they hold.   *)

Lifecycle ==
    /\ opc \in {"wait", "check", "enter"} => left >= 1 /\ exec_tx = "alive"
    /\ opc \in {"join", "flush", "idle"} => left = 0 /\ exec_tx = "dropped"
    /\ opc \in {"flush", "idle"} => epc = "done" /\ cpc = "done"
    /\ opc = "flush" => attempt < MaxRetries
    /\ epc = "done" <=> commit_tx = "dropped"
    /\ epc = "done" => exec_q = <<>> /\ exec_tx = "dropped"
    /\ cpc = "done" => commit_q = <<>> /\ epc = "done"
    /\ next_batch_id + left <= MaxBatch + 1

Holding ==
    /\ ebatch = None <=> epc \in {"recv", "done"}
    /\ epc \notin {"pages", "exit"} => records = <<>>
    /\ epc # "pages" => rest = <<>>
    /\ epc \notin {"exec", "pages"} => unapplied = <<>>
    /\ epc # "exec" => view = Nothing /\ effects = <<>> /\ round = 1
    /\ work = None <=> cpc \in {"recv", "done"}
    /\ cpc \notin {"put", "l2", "exit"} => entries = <<>>
    /\ cpc = "put" => stored < Len(entries)
    /\ cpc = "l2" => entries # <<>>

\* The boundaries of the frozen tables grow and stay inside l1.
TablesOrdered ==
    /\ \A i \in DOMAIN frozen : frozen[i] \in 1..Len(l1)
    /\ \A i, j \in DOMAIN frozen : i < j => frozen[i] < frozen[j]

ControlInv == TypeOK /\ Lifecycle /\ Holding /\ TablesOrdered

------------------------------------------------------------------------------
(* Windows: their range, and what the check of the order task still means    *)
(* when the task enters.                                                     *)

Windows ==
    /\ zeta["Order"] \in 1..WindowCap
    /\ zeta["Exec"] \in 0..WindowCap
    /\ zeta["Commit"] = 1
    /\ opc \in {"check", "enter"} => window \in 1..WindowCap
    /\ opc = "enter" => in_flight["Order"] < window

CountInv == InFlightExact /\ WorkerWeightsExact /\ Windows

\* The weight that exec_worker has loaded is that of batches still inside Order.
GasInv ==
    /\ OrderWeightBounded
    /\ epc = "exit_order" => loaded <= GasOf(exec_q) + ebatch.gas_weight

------------------------------------------------------------------------------
(* Order: batch ids are consecutive along the pipeline.                      *)

Uncounted == epc \in {"exit_order", "wait", "exec", "pages"}

\* The last batch handed to the commit worker.
Sent == IF epc = "exit" THEN last_exec_complete - 1 ELSE last_exec_complete

\* The ids of the batches waiting for and held by exec_worker.
ExecOrder ==
    /\ \A i \in DOMAIN exec_q :
        exec_q[i].batch_id = next_batch_id - 1 - Len(exec_q) + i
    /\ Uncounted => /\ HeldBatch = last_exec_complete + 1
                    /\ next_batch_id = last_exec_complete + 2 + Len(exec_q)
    /\ ~Uncounted => next_batch_id = last_exec_complete + 1 + Len(exec_q)
    /\ epc = "exit" => HeldBatch = last_exec_complete
    /\ completed_batch = last_exec_complete
    /\ epc = "exec" => visible_batch = last_exec_complete

\* The ids of the batches waiting for and held by commit_worker.
CommitOrder ==
    /\ \A i \in DOMAIN commit_q :
        commit_q[i].batch_id = Sent - Len(commit_q) + i
    /\ work # None => work.batch_id = Sent - Len(commit_q)

\* The ids of the results of the call.
ResultOrder ==
    /\ \A i \in DOMAIN results : results[i] = Sent - Len(results) + i
    /\ opc # "idle" => Len(results) + next_batch_id + left = call_len + Sent + 1

OrderInv == ExecOrder /\ CommitOrder /\ ResultOrder

------------------------------------------------------------------------------
(* Cache contents.                                                           *)

\* Until the flush at the end of a call, what the commit worker has taken or
\* may take is still in L1, so that it never changes what a batch reads.
Shadowed(recs) == \A i \in DOMAIN recs : l1_read(recs[i].key) # None

ShadowInv ==
    /\ Shadowed(entries)
    /\ \A b \in BatchIds : pending[b] # None => Shadowed(pending[b])
    /\ \A i \in DOMAIN records : Newest(records[i].key) # None
    /\ epc = "pages" => \A i \in DOMAIN unapplied :
                           Newest(EncodeKey[unapplied[i].slot]) # None
    /\ epc = "exec" => \A i \in DOMAIN unapplied :
                          \E j \in DOMAIN effects : unapplied[i] = effects[j]

\* Records that are zero only for a slot no node starts with a value for.
CleanKeys == {k \in Keys : \A s \in Slots : EncodeKey[s] = k => Genesis[s] = {}}

CleanRecords == {r \in Records : r.value = Zero => r.key \in CleanKeys}

CleanWrites == {u \in Writes : u.value = Zero => Genesis[u.slot] = {}}

CleanInv ==
    /\ l1 \in Seq(CleanRecords)
    /\ rest \in Seq(CleanRecords)
    /\ effects \in Seq(CleanWrites)
    /\ records \in Seq(CleanRecords)
    /\ entries \in Seq(CleanRecords)
    /\ pending \in [BatchIds -> Seq(CleanRecords) \cup {None}]
    /\ \A k \in Keys : l2[k] = Zero => k \in CleanKeys
    /\ \A s \in Slots : Genesis[s] = {} => inner[s] = Zero

\* What may be read from a slot while a batch executes: the state of its
\* predecessors and what the batch has written itself.
Own(s) == {effects[i].value : i \in WritesTo(effects, s)}

\* What the store and the memory backend hold of a slot.
Below(s) ==
    IF db[DecodeKey[EncodeKey[s]]] # None THEN db[DecodeKey[EncodeKey[s]]] ELSE inner[s]

\* The levels show the state of the executed batches, except that the store may
\* have a write of the executing batch.
StateInv ==
    \A s \in Slots :
        LET k == EncodeKey[s]
        IN  /\ Newest(k) # None => Newest(k) = serial[s]
            /\ Newest(k) = None /\ l2[k] # None => l2[k] = serial[s]
            /\ Newest(k) = None => Below(s) \in {serial[s]} \cup Own(s)

ViewInv == \A s \in Slots : view[s] \subseteq {serial[s]} \cup Own(s)
=============================================================================
