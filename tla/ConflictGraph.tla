---------------------------- MODULE ConflictGraph ----------------------------
(***************************************************************************)
(* The address-based conflict graph of one batch                           *)
(* (chase/src/address_based_conflict_graph.rs): its construction in chunks *)
(* that are merged pairwise, the hierarchical sort that gives transactions *)
(* their sequence numbers address by address, and the reordering of        *)
(* aborted write-only transactions.                                        *)
(*                                                                         *)
(* A unit of an address is the transaction it belongs to: a transaction    *)
(* has at most one read unit and one write unit at an address.             *)
(***************************************************************************)
EXTENDS SeqFolds

CONSTANTS Addresses,     \* the storage keys, numbers as they are compared
          Simulations,   \* records [order, rw_set] a simulation may return
          Cpus,          \* values of num_cpus::get()
          U32            \* 2^32, the modulus of the degree counters

RwSets == [reads : SUBSET Addresses, writes : SUBSET Addresses]

ASSUME GraphAssumption ==
    /\ Addresses \subseteq Nat /\ IsFiniteSet(Addresses)
    /\ \A s \in Simulations : /\ s.rw_set \in Seq(RwSets)
                              /\ s.order \in Seq(DOMAIN s.rw_set)
                              /\ Range(s.order) = DOMAIN s.rw_set
                              /\ Len(s.order) = Len(s.rw_set)
    /\ Cpus \subseteq Nat \ {0}
    /\ U32 \in Nat \ {0}

VARIABLES
    order,       \* ids of the simulated transactions, in the order they arrive
    rw_set,      \* read and write keys of a transaction (AbortInfo)
    chunk,       \* transactions per sub-graph
    sub_graphs,  \* the sub-graphs; in the end the graph is the only one
    sequence,    \* Transaction::sequence, 0: not ordered yet
    aborted,     \* transactions with AbortInfo::aborted
    ranked,      \* addresses still to sort
    read_max,    \* ReadUnits::max_seq of an address
    write_max    \* WriteUnits::max_seq of an address

inputVars == <<order, rw_set, chunk>>
graphVars == <<order, rw_set, chunk, sub_graphs, sequence, aborted, ranked,
               read_max, write_max>>

Ids == DOMAIN rw_set

Address == [in_degree : 0..(U32 - 1), out_degree : 0..(U32 - 1),
            read_units : Seq(Ids), write_units : Seq(Ids),
            first_updater_flag : BOOLEAN]

SubGraph == [addresses : [Addresses -> Address],
             tx_list : SUBSET Ids, aborted_txs : SUBSET Ids]

GraphTypeOK ==
    /\ order \in Seq(Ids)
    /\ rw_set \in Seq(RwSets)
    /\ chunk \in Nat \ {0}
    /\ sub_graphs \in Seq(SubGraph)
    /\ sequence \in [Ids -> Nat]
    /\ aborted \subseteq Ids
    /\ ranked \in Seq(Addresses)
    /\ read_max \in [Addresses -> Nat]
    /\ write_max \in [Addresses -> Nat]

\* An address nobody has a unit at; the map holds only the others.
NoUnits == [in_degree |-> 0, out_degree |-> 0, read_units |-> <<>>,
            write_units |-> <<>>, first_updater_flag |-> FALSE]

EmptyGraph == [addresses |-> [a \in Addresses |-> NoUnits],
               tx_list |-> {}, aborted_txs |-> {}]

\* Mutant: more threads than transactions.
chunk_size_rounded_down(n, ncpu) == n \div ncpu

chunk_size(n, ncpu) == IF n \div ncpu = 0 THEN 1 ELSE n \div ncpu

GraphInit ==
    /\ \E s \in Simulations : order = s.order /\ rw_set = s.rw_set
    /\ \E ncpu \in Cpus : chunk = chunk_size(Len(order), ncpu)
    /\ sub_graphs = <<>>
    /\ sequence = [t \in Ids |-> 0]
    /\ aborted = {}
    /\ ranked = <<>>
    /\ read_max = [a \in Addresses |-> 0]
    /\ write_max = [a \in Addresses |-> 0]

------------------------------------------------------------------------------
(* construct *)

co_located(rw, a) == a \in rw.reads /\ a \in rw.writes

\* _set_wr_dependencies: the dependencies of the units a transaction has at a.
read_degree(rw, a) == Cardinality(rw.writes \ {a})

\* Mutant: the key itself is counted.
write_degree_of_all(rw, a) == Cardinality(rw.reads)

write_degree(rw, a) == Cardinality(rw.reads \ {a})

\* The u32 arithmetic of the degrees.
wrap(n) == n % U32

\* _add_units_to_address and Address::add_unit.
add_units(address, a, t, rw) ==
    [in_degree |-> wrap(address.in_degree + IF a \in rw.reads THEN read_degree(rw, a) ELSE 0),
     out_degree |-> wrap(address.out_degree + IF a \in rw.writes THEN write_degree(rw, a) ELSE 0),
     read_units |-> IF a \in rw.reads THEN Append(address.read_units, t)
                                      ELSE address.read_units,
     write_units |-> IF a \in rw.writes THEN Append(address.write_units, t)
                                        ELSE address.write_units,
     first_updater_flag |-> address.first_updater_flag \/ co_located(rw, a)]

\* _check_updater_already_exist_in_same_address.
updater_exists(graph, rw) ==
    \E a \in Addresses : co_located(rw, a) /\ graph.addresses[a].first_updater_flag

\* One round of the loop of construct.
add_tx(graph, t) ==
    IF updater_exists(graph, rw_set[t])
    THEN [graph EXCEPT !.aborted_txs = @ \cup {t}]
    ELSE [graph EXCEPT
            !.addresses = [a \in Addresses |-> add_units(@[a], a, t, rw_set[t])],
            !.tx_list = @ \cup {t}]

construct(txs) == FoldLeft(add_tx, EmptyGraph, txs)

\* par_chunks: the chunks of the arrived transactions, the last may be shorter.
chunk_of(i) ==
    SubSeq(order, (i - 1) * chunk + 1,
           IF i * chunk < Len(order) THEN i * chunk ELSE Len(order))

\* Every chunk is built by a thread of its own, without common state.
ConstructChunks ==
    /\ sub_graphs = <<>> /\ order # <<>>
    /\ sub_graphs' = [i \in 1..((Len(order) + chunk - 1) \div chunk) |->
                        construct(chunk_of(i))]
    /\ aborted' = UNION {g.aborted_txs : g \in Range(sub_graphs')}
    /\ UNCHANGED <<inputVars, sequence, ranked, read_max, write_max>>

------------------------------------------------------------------------------
(* _par_construct: pairwise merging *)

both_updated(left, right, a) ==
    /\ left.addresses[a].first_updater_flag
    /\ right.addresses[a].first_updater_flag

\* The last updater: the first co-located write unit of the right address.
last_updater(right, a) ==
    LET units == right.addresses[a].write_units
    IN  units[Min({i \in DOMAIN units : co_located(rw_set[units[i]], a)})]

\* Mutant: the degrees of the other address are not all taken over.
merge_address_keeps_degree(left, right, a) ==
    LET mine == left.addresses[a]
        other == right.addresses[a]
    IN  IF both_updated(left, right, a) THEN mine
        ELSE [mine EXCEPT !.in_degree = wrap(@ + other.in_degree),
                          !.read_units = @ \o other.read_units,
                          !.write_units = @ \o other.write_units,
                          !.first_updater_flag = @ \/ other.first_updater_flag]

\* Address::merge.  When both sides have an updater the right one is aborted,
\* and the other units of the right address are left out.
merge_address(left, right, a) ==
    LET mine == left.addresses[a]
        other == right.addresses[a]
    IN  IF both_updated(left, right, a)
        THEN [mine EXCEPT !.in_degree =
                wrap(@ + other.in_degree - write_degree(rw_set[last_updater(right, a)], a))]
        ELSE [mine EXCEPT !.in_degree = wrap(@ + other.in_degree),
                          !.out_degree = wrap(@ + other.out_degree),
                          !.read_units = @ \o other.read_units,
                          !.write_units = @ \o other.write_units,
                          !.first_updater_flag = @ \/ other.first_updater_flag]

\* The degree of the last updater is more than what it is subtracted from.
underflows(left, right) ==
    \E a \in Addresses :
        /\ both_updated(left, right, a)
        /\ left.addresses[a].in_degree + right.addresses[a].in_degree
              < write_degree(rw_set[last_updater(right, a)], a)

\* AddressBasedConflictGraph::merge.
merge(left, right) ==
    [addresses |-> [a \in Addresses |-> merge_address(left, right, a)],
     tx_list |-> left.tx_list \cup right.tx_list,
     aborted_txs |-> left.aborted_txs \cup right.aborted_txs]

unwound(left, right) ==
    {last_updater(right, a) : a \in {b \in Addresses : both_updated(left, right, b)}}

\* One round of the while loop: neighbours are merged, an odd one is kept.
MergeRound ==
    /\ Len(sub_graphs) > 1
    /\ LET n == Len(sub_graphs)
           pairs == 1..(n \div 2)
       IN  /\ sub_graphs' = [i \in 1..((n + 1) \div 2) |->
                IF i \in pairs THEN merge(sub_graphs[2 * i - 1], sub_graphs[2 * i])
                               ELSE sub_graphs[n]]
           /\ aborted' = aborted \cup
                UNION {unwound(sub_graphs[2 * i - 1], sub_graphs[2 * i]) : i \in pairs}
    /\ UNCHANGED <<inputVars, sequence, ranked, read_max, write_max>>

\* A subtraction of the round goes below zero.
Underflow ==
    \E i \in 1..(Len(sub_graphs) \div 2) : underflows(sub_graphs[2 * i - 1], sub_graphs[2 * i])

Constructed == Len(sub_graphs) = 1

graph == sub_graphs[1]

------------------------------------------------------------------------------
(* hierarchcial_sort *)

InUse == {a \in Addresses : graph.addresses[a].read_units # <<>>
                             \/ graph.addresses[a].write_units # <<>>}

\* The order of _address_rank.
ranks_before(a, b) ==
    LET x == graph.addresses[a]
        y == graph.addresses[b]
    IN  \/ x.in_degree < y.in_degree
        \/ x.in_degree = y.in_degree /\ x.out_degree > y.out_degree
        \/ x.in_degree = y.in_degree /\ x.out_degree = y.out_degree /\ a < b

\* _address_rank.
address_rank ==
    CHOOSE s \in SetToSeqs(InUse) : \A i, j \in DOMAIN s : i < j => ranks_before(s[i], s[j])

AddressRank ==
    /\ Constructed
    /\ ranked' = address_rank
    /\ UNCHANGED <<inputVars, sub_graphs, sequence, aborted,
                   read_max, write_max>>

\* is_sorted.
ordered(seq, t) == seq[t] # 0
is_sorted(seq, t) == ordered(seq, t) \/ t \in aborted

reads_at(a) == graph.addresses[a].read_units
writes_at(a) == graph.addresses[a].write_units

\* ReadUnits::sort: the sequence numbers after it, and the greatest before it.
live_seqs(a) == {sequence[t] : t \in {u \in Range(reads_at(a)) :
                                        ordered(sequence, u) /\ u \notin aborted}}

min_seq(a) == IF live_seqs(a) = {} THEN 1 ELSE Min(live_seqs(a))
max_seq(a) == IF live_seqs(a) = {} THEN 1 ELSE Max(live_seqs(a))

sort_read_units(a) ==
    [t \in Ids |-> IF t \in Range(reads_at(a)) /\ ~is_sorted(sequence, t)
                   THEN min_seq(a) ELSE sequence[t]]

\* The positions of the live updaters; as readers of a they have a number.
updaters(a) ==
    {i \in DOMAIN writes_at(a) :
        LET t == writes_at(a)[i]
        IN  /\ t \notin aborted /\ ordered(sort_read_units(a), t)
            /\ co_located(rw_set[t], a)}

\* increment_and_get_max_seq: the first updater goes behind the readers.
bound(a) == max_seq(a) + (IF updaters(a) = {} THEN 0 ELSE 1)

first_updater_moved(a) ==
    IF updaters(a) = {} THEN sort_read_units(a)
    ELSE [sort_read_units(a) EXCEPT ![writes_at(a)[Min(updaters(a))]] = bound(a)]

other_updaters(a) ==
    {writes_at(a)[i] : i \in {j \in updaters(a) : \E k \in updaters(a) : k < j}}

\* Mutant: no writer is aborted.
too_early_never(a, t) == FALSE

\* A numbered transaction would write before a reader of the address.
too_early(a, t) == first_updater_moved(a)[t] < bound(a)

late_writers(a) ==
    {t \in Range(writes_at(a)) \ (aborted \cup other_updaters(a)) :
        ordered(sort_read_units(a), t) /\ too_early(a, t)}

\* A unit without a number gets the next one that no unit of the address has.
give_sequence(acc, t) ==
    IF is_sorted(acc.seq, t) THEN acc
    ELSE LET next == Min((acc.last..(acc.last + Cardinality(acc.taken))) \ acc.taken)
         IN  [seq |-> [acc.seq EXCEPT ![t] = next], last |-> next,
              taken |-> acc.taken \cup {next}]

\* Mutant: the numbers start beside the readers, not behind them.
given_sequences_beside(a) ==
    LET seq == first_updater_moved(a)
    IN  FoldLeft(give_sequence,
                 [seq |-> seq, last |-> bound(a),
                  taken |-> {seq[t] : t \in {u \in Range(writes_at(a)) : is_sorted(seq, u)}}],
                 writes_at(a))

given_sequences(a) ==
    LET seq == first_updater_moved(a)
    IN  FoldLeft(give_sequence,
                 [seq |-> seq, last |-> bound(a) + 1,
                  taken |-> {seq[t] : t \in {u \in Range(writes_at(a)) : is_sorted(seq, u)}}],
                 writes_at(a))

\* Both sorts of the next address.  The first updater that is still alive moves
\* behind the readers, other updaters and the writers before a reader abort.
SortAddress ==
    /\ ranked # <<>>
    /\ LET a == Head(ranked)
       IN  /\ sequence' = given_sequences(a).seq
           /\ aborted' = aborted \cup other_updaters(a) \cup late_writers(a)
           /\ read_max' = [read_max EXCEPT ![a] = bound(a) + 1]
           /\ write_max' = [write_max EXCEPT ![a] = given_sequences(a).last]
    /\ ranked' = Tail(ranked)
    /\ UNCHANGED <<inputVars, sub_graphs>>

------------------------------------------------------------------------------
(* reorder *)

\* Transaction::reorderable: a transaction aborted by construct has no units.
reorderable(t) ==
    /\ t \in graph.tx_list
    /\ rw_set[t].reads = {}
    /\ Cardinality(rw_set[t].writes) > 1

last_sequence(t) == Max({write_max[a] : a \in rw_set[t].writes}
                        \cup {read_max[a] : a \in rw_set[t].writes})

\* The aborted transactions leave the list; the reorderable ones return to it
\* behind everything at the addresses they write.
Reorder ==
    /\ LET targets == {t \in aborted : reorderable(t)}
       IN  /\ sub_graphs' = <<[graph EXCEPT
                !.tx_list = (@ \ aborted) \cup targets,
                !.aborted_txs = (@ \cup (aborted \cap graph.tx_list)) \ targets]>>
           /\ sequence' = [t \in Ids |-> IF t \in targets THEN last_sequence(t)
                                                          ELSE sequence[t]]
    /\ UNCHANGED <<inputVars, aborted, ranked, read_max, write_max>>

==============================================================================
