----------------------------- MODULE MCChaseCore -----------------------------
(* Batches for model checking the schedule and its commit. *)
EXTENDS ChaseCore

MCAddresses == 1..3

InOrder(n) == [i \in 1..n |-> i]

Rw(r, w) == [reads |-> r, writes |-> w]

\* Every batch of three transactions that read one key and write two at most.
Small == {rw \in RwSets : Cardinality(rw.reads) <= 1 /\ Cardinality(rw.writes) <= 2}

\* Batches of four, in one to four chunks: blind writers, readers, and
\* updaters that share keys with each other; they arrive out of order.
Mixed == {Rw({1}, {1}), Rw({1, 2}, {1}), Rw({1, 2}, {1, 3}), Rw({2}, {2, 3}),
          Rw({}, {1, 2}), Rw({1}, {3}), Rw({3}, {})}

\* Every pair of transactions on three keys.
MCPairs == [order : {InOrder(2)}, rw_set : [1..2 -> RwSets]]

\* No slot, one, or all of them are read from RocksDB, and executions that then
\* read or write other keys.
MCReadThrough == {{}, {1}, MCAddresses}
MCReexecutions == {Rw({1}, {1}), Rw({1, 2}, {3}), Rw({2}, {1, 2})}

MCBatches ==
    [order : {InOrder(3)}, rw_set : [1..3 -> Small]]
    \cup [order : {<<2, 4, 1, 3>>}, rw_set : [1..4 -> Mixed]]
    \cup MCPairs
    \cup {[order |-> <<>>, rw_set |-> <<>>]}
=============================================================================
