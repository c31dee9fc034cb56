---------------------------- MODULE CdsScheduler ----------------------------
(***************************************************************************)
(* The schedule of one batch (chase/src/cds_scheduler.rs, and              *)
(* ScheduledInfo::build_cds_schedule of chase_core.rs): the transactions   *)
(* with the lowest sequence number become parallel dependency chains, the  *)
(* other live ones and the aborted ones are placed into epochs.            *)
(***************************************************************************)
EXTENDS ConflictGraph

VARIABLES
    phase,                    \* where _execute is
    conflict_free_zone,       \* chains of ids, the last one still growing
    conflict_zone_finalized,  \* epochs of ids
    conflict_zone_aborted     \* epochs of ids

zoneVars == <<conflict_free_zone, conflict_zone_finalized, conflict_zone_aborted>>
vars == <<graphVars, phase, zoneVars>>

ScheduleTypeOK ==
    /\ GraphTypeOK
    /\ phase \in {"construct", "sort", "chains", "scheduled", "no_graph", "overflow",
                  "cycle", "committing", "done"}
    /\ conflict_free_zone \in Seq(Seq(Ids))
    /\ conflict_zone_finalized \in Seq(Seq(Ids))
    /\ conflict_zone_aborted \in Seq(Seq(Ids))

Init ==
    /\ GraphInit
    /\ phase = "construct"
    /\ conflict_free_zone = <<>>
    /\ conflict_zone_finalized = <<>>
    /\ conflict_zone_aborted = <<>>

\* _par_construct: next().unwrap() when no simulation succeeded.
NoGraphPanic ==
    /\ phase = "construct"
    /\ order = <<>>
    /\ phase' = "no_graph"
    /\ UNCHANGED <<graphVars, zoneVars>>

BuildGraph ==
    /\ phase = "construct"
    /\ ConstructChunks \/ MergeRound
    /\ UNCHANGED <<phase, zoneVars>>

\* Address::merge in a build with overflow checks (the test and simulator
\* profiles); in a release build the degree wraps and MergeRound goes on.
OverflowPanic ==
    /\ phase = "construct"
    /\ Underflow
    /\ phase' = "overflow"
    /\ UNCHANGED <<graphVars, zoneVars>>

RankAddresses ==
    /\ phase = "construct"
    /\ AddressRank
    /\ phase' = "sort"
    /\ UNCHANGED zoneVars

SortNext ==
    /\ phase = "sort"
    /\ SortAddress
    /\ UNCHANGED <<phase, zoneVars>>

ReorderAborted ==
    /\ phase = "sort"
    /\ ranked = <<>>
    /\ Reorder
    /\ phase' = "chains"
    /\ UNCHANGED zoneVars

------------------------------------------------------------------------------
(* extract_conflict_free_chains *)

\* group_by_sequence: the first group.
FirstWave == {t \in graph.tx_list : \A u \in graph.tx_list : sequence[t] <= sequence[u]}

depends_on(t, u) == t # u /\ rw_set[t].reads \cap rw_set[u].writes # {}

InChains == UNION {Range(c) : c \in Range(conflict_free_zone)}

\* The transactions that may start a chain.
Ready == {t \in FirstWave \ InChains :
            \A u \in FirstWave : depends_on(t, u) => u \in InChains}

\* The transactions that may continue the chain being built.
Followers ==
    IF conflict_free_zone = <<>> THEN {}
    ELSE {t \in Ready : depends_on(t, Last(Last(conflict_free_zone)))}

StartChain ==
    /\ phase = "chains"
    /\ Followers = {} /\ Ready # {}
    /\ conflict_free_zone' = Append(conflict_free_zone, <<Min(Ready)>>)
    /\ UNCHANGED <<graphVars, phase, conflict_zone_finalized, conflict_zone_aborted>>

ExtendChain ==
    /\ phase = "chains"
    /\ Followers # {}
    /\ conflict_free_zone' = [conflict_free_zone EXCEPT ![Len(conflict_free_zone)] =
                                Append(@, Min(Followers))]
    /\ UNCHANGED <<graphVars, phase, conflict_zone_finalized, conflict_zone_aborted>>

\* expect("cycle in conflict-free zone dependency graph").
ChainPanic ==
    /\ phase = "chains"
    /\ Ready = {} /\ FirstWave \ InChains # {}
    /\ phase' = "cycle"
    /\ UNCHANGED <<graphVars, zoneVars>>

------------------------------------------------------------------------------
(* The conflict zone *)

\* Mutant: only the written keys are compared.
find_minimum_epoch_writes(rw, epoch_map) ==
    Min({e \in 1..(Len(epoch_map) + 1) :
            e > Len(epoch_map) \/ rw.writes \cap epoch_map[e] = {}})

\* Mutant: only the keys read are compared.
find_minimum_epoch_reads(rw, epoch_map) ==
    Min({e \in 1..(Len(epoch_map) + 1) :
            e > Len(epoch_map) \/ rw.reads \cap epoch_map[e] = {}})

\* find_minimum_epoch: the first epoch that writes none of the keys.
find_minimum_epoch(rw, epoch_map) ==
    Min({e \in 1..(Len(epoch_map) + 1) :
            \/ e > Len(epoch_map)
            \/ (rw.reads \cup rw.writes) \cap epoch_map[e] = {}})

place(acc, t) ==
    LET e == find_minimum_epoch(rw_set[t], acc.epoch_map)
    IN  IF e > Len(acc.epoch_map)
        THEN [epoch_map |-> Append(acc.epoch_map, rw_set[t].writes),
              schedule |-> Append(acc.schedule, <<t>>)]
        ELSE [epoch_map |-> [acc.epoch_map EXCEPT ![e] = @ \cup rw_set[t].writes],
              schedule |-> [acc.schedule EXCEPT ![e] = Append(@, t)]]

\* sort_unstable_by_key: the candidates in the order of their ids.
sorted_by_id(txs) ==
    CHOOSE s \in SetToSeqs(txs) : \A i, j \in DOMAIN s : i < j => s[i] < s[j]

place_into_epochs(txs) ==
    FoldLeft(place, [epoch_map |-> <<>>, schedule |-> <<>>], sorted_by_id(txs)).schedule

\* Transaction::init prepares the aborted transactions for their re-execution;
\* a reordered one keeps its flag.  The graph, which the code drops, is kept as
\* it was at the extraction.
PlaceIntoEpochs ==
    /\ phase = "chains"
    /\ FirstWave \subseteq InChains
    /\ conflict_zone_finalized' = place_into_epochs(graph.tx_list \ FirstWave)
    /\ conflict_zone_aborted' = place_into_epochs(graph.aborted_txs)
    /\ sequence' = [t \in Ids |-> IF t \in graph.aborted_txs THEN 0 ELSE sequence[t]]
    /\ aborted' = aborted \ graph.aborted_txs
    /\ phase' = "scheduled"
    /\ UNCHANGED <<inputVars, sub_graphs, ranked, read_max, write_max,
                   conflict_free_zone>>

Next ==
    \/ NoGraphPanic \/ BuildGraph \/ OverflowPanic \/ RankAddresses \/ SortNext \/ ReorderAborted
    \/ StartChain \/ ExtendChain \/ ChainPanic \/ PlaceIntoEpochs

Spec == Init /\ [][Next]_vars

------------------------------------------------------------------------------
(* Properties *)

Scheduled == phase = "scheduled"

Placed(epochs) == UNION {Range(e) : e \in Range(epochs)}

Updates(t) == rw_set[t].reads \cap rw_set[t].writes

\* No address is read and written by two transactions.
UpdatersApart == \A t, u \in Ids : t # u => Updates(t) \cap Updates(u) = {}

\* While no address has two updaters, the graph is that of the sequential
\* construct, however the batch was cut into chunks and merged.
MergeExact == Constructed /\ phase = "construct" /\ UpdatersApart
              => graph = construct(order)

\* A transaction that reads and writes one key reads no more keys than it
\* writes.
ReadsWithinWrites ==
    \A t \in Ids : Updates(t) # {} => Cardinality(rw_set[t].reads) <= Cardinality(rw_set[t].writes)

\* The degree that Address::merge subtracts is part of what it was added to, so
\* that no build stops in the merge, over all rounds of merging and although
\* the read degree is added and the write degree subtracted: for the batches
\* whose updaters read no more keys than they write, or meet in no merge.
NoOverflow ==
    ReadsWithinWrites \/ UpdatersApart \/ Len(order) <= chunk => phase # "overflow"

\* A transaction that reads and writes one key touches no other key.
SimpleUpdaters ==
    \A t \in Ids : Updates(t) # {} => rw_set[t].reads \cup rw_set[t].writes = Updates(t)
                                      /\ Cardinality(Updates(t)) = 1

\* The batches for which the sequence numbers are sound: simple updaters, and
\* no units that a merge left out.
Regular == SimpleUpdaters /\ (UpdatersApart \/ Len(order) <= chunk)

Live == graph.tx_list \ aborted

\* The sequence numbers put the readers of a key before its writers, or beside
\* them: all transactions were simulated on one snapshot.  Numbers that an
\* address gave are changed by later ones, so it takes the whole sort.
ReadersFirst ==
    phase = "sort" /\ ranked = <<>> /\ Regular =>
        \A t, u \in Live : depends_on(t, u) => sequence[t] <= sequence[u]

\* No transaction has more than two keys.
TwoKeys == \A t \in Ids : Cardinality(rw_set[t].reads \cup rw_set[t].writes) <= 2

\* Among any transactions that commit without re-execution there is one whose
\* writes none of the others has read: their simulated results belong to one
\* serial order ("abort a transaction that makes the anti-rw conflict,
\* resulting in a cycle at ACG").  With three keys a transaction can get its
\* number from a key that the others do not touch.
SnapshotConsistent ==
    phase = "chains" /\ Regular /\ TwoKeys =>
        \A S \in (SUBSET graph.tx_list) \ {{}} :
            \E t \in S : \A u \in S : ~depends_on(u, t)

\* The transactions of an epoch commit, or are executed again, in parallel:
\* in the order of their ids none reads or writes what an earlier one writes.
EpochsSerial ==
    Scheduled =>
        \A e \in Range(conflict_zone_finalized) \cup Range(conflict_zone_aborted) :
            \A i, j \in DOMAIN e : i < j =>
                rw_set[e[i]].writes \cap (rw_set[e[j]].reads \cup rw_set[e[j]].writes) = {}

\* expect("cycle in conflict-free zone dependency graph"): the transactions of
\* the first commit wave, which have one number, do not wait for each other.
NoCycle == Regular /\ TwoKeys => phase # "cycle"

InOneChain(t, u) == \E c \in Range(conflict_free_zone) : {t, u} \subseteq Range(c)

\* No two chains write one key.
DisjointChains ==
    \A t, u \in Placed(conflict_free_zone) :
        t # u /\ rw_set[t].writes \cap rw_set[u].writes # {} => InOneChain(t, u)

==============================================================================
