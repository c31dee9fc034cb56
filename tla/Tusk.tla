--------------------------------- MODULE Tusk ---------------------------------
(***************************************************************************)
(* The Tusk ordering of one validator (narwhal/consensus/src/tusk.rs,      *)
(* utils.rs, consensus.rs): certificates of a DAG arrive in some causal    *)
(* order, leaders with enough support are committed together with the      *)
(* earlier leaders they are linked to and what those refer to, the DAG is  *)
(* garbage collected, and a crash leaves what is in the stores.            *)
(***************************************************************************)
EXTENDS Naturals, FiniteSets, Sequences

CONSTANTS
    Authorities,    \* each with one unit of stake
    MaxRound,       \* bound: rounds of the DAG
    Leader,         \* Committee::leader of the even rounds
    Dags,           \* the DAGs considered: the parents of each certificate
    GcDepth,
    MaxRestarts     \* bound: crashes

\* A certificate is its round and its origin; equivocation is excluded by the
\* votes that a certificate needs.  The parents of round 1 are the genesis.
Certificates == (1..MaxRound) \X Authorities
Round(c) == c[1]
Origin(c) == c[2]

\* Committee::calculate_quorum_threshold and calculate_validity_threshold.
quorum_threshold == (2 * Cardinality(Authorities)) \div 3 + 1
validity_threshold == (Cardinality(Authorities) + 2) \div 3

\* The voters of a certificate made sure that its parents form a quorum
\* (HeaderRequiresQuorum); a depth of 0 would collect a leader's own round.
ASSUME TuskAssumption ==
    /\ IsFiniteSet(Authorities) /\ Authorities # {}
    /\ MaxRound \in Nat
    /\ Leader \in [1..MaxRound -> Authorities]
    /\ \A parents \in Dags :
        /\ parents \in [Certificates -> SUBSET Authorities]
        /\ \A c \in Certificates :
            Round(c) > 1 => Cardinality(parents[c]) >= quorum_threshold
    /\ GcDepth \in Nat \ {0} /\ MaxRestarts \in Nat

VARIABLES
    parents,         \* the DAG: the origins of the parents of a certificate
    seen,            \* certificates sent to the consensus or stored
    dag,             \* ConsensusState::dag
    last_committed,  \* the last committed round of each authority
    committed,       \* committed_sub_dags_by_index: leaders and certificates
    panicked,
    restarts

vars == <<parents, seen, dag, last_committed, committed, panicked, restarts>>

SubDags == [leader : Certificates, certificates : SUBSET Certificates]

TypeOK ==
    /\ parents \in [Certificates -> SUBSET Authorities]
    /\ dag \subseteq seen /\ seen \subseteq Certificates
    /\ last_committed \in [Authorities -> 0..MaxRound]
    /\ committed \in Seq(SubDags)
    /\ panicked \in BOOLEAN
    /\ restarts \in 0..MaxRestarts

------------------------------------------------------------------------------
(* The DAG, ConsensusRound *)

ParentsOf(P, c) == {Round(c) - 1} \X P[c]

committed_round(last) == CHOOSE r \in {last[a] : a \in Authorities} :
                            \A a \in Authorities : last[a] <= r

gc_round(round) == IF round > GcDepth THEN round - GcDepth ELSE 0

LeaderCertificate(r) == <<r, Leader[r]>>

------------------------------------------------------------------------------
(* ConsensusState *)

\* check_parents: the parents must be in the DAG unless they are collected.
parents_found(P, c, d, gc) == Round(c) <= gc + 1 \/ ParentsOf(P, c) \subseteq d

\* Mutant: one round too many is purged.
purge_parents(d, last) ==
    {c \in d : Round(c) > gc_round(committed_round(last)) + 1}

\* The end of ConsensusState::update.
purge(d, last) == {c \in d : Round(c) > gc_round(committed_round(last))}

\* ConsensusState::update for the certificates of a sub-dag.
updated(last, certificates) ==
    [a \in Authorities |->
        LET rounds == {last[a]} \cup {Round(c) : c \in {x \in certificates : Origin(x) = a}}
        IN  CHOOSE m \in rounds : \A r \in rounds : r <= m]

------------------------------------------------------------------------------
(* utils::order_dag, Tusk::linked and Tusk::order_leaders over a DAG d *)

\* From a leader down, round by round: the certificates of the set `within`
\* that are parents of those of the round above.
search(P, leader, within) ==
    LET level[n \in 0..Round(leader)] ==
            IF n = 0 THEN {leader}
            ELSE within \cap UNION {ParentsOf(P, x) : x \in level[n - 1]}
    IN  level

\* Mutant: certificates below the last committed round are not skipped.
order_dag_again(P, leader, d, last) ==
    LET gc == gc_round(Round(leader))
        ordered == UNION {search(P, leader, Certificates)[n] : n \in 0..(Round(leader) - gc - 1)}
    IN  [certificates |-> ordered,
         complete |-> \A x \in ordered : Round(x) = gc + 1 \/ ParentsOf(P, x) \subseteq d]

\* Mutant: the search does not stop at the garbage collection round.
order_dag_collected(P, leader, d, last) ==
    LET gc == gc_round(Round(leader))
        within == {p \in (0..MaxRound) \X Authorities : Round(p) >= last[Origin(p)]}
        ordered == UNION {search(P, leader, within)[n] : n \in 0..(Round(leader) - gc)}
    IN  [certificates |-> ordered, complete |-> TRUE]

\* The certificates that the search reaches, and whether it finds every
\* parent.  Their order follows from the DAG and is left out.
order_dag(P, leader, d, last) ==
    LET gc == gc_round(Round(leader))
        within == {p \in Certificates : Round(p) > last[Origin(p)]}
        ordered == UNION {search(P, leader, within)[n] : n \in 0..(Round(leader) - gc - 1)}
    IN  [certificates |-> ordered,
         complete |-> \A x \in ordered : Round(x) = gc + 1 \/ ParentsOf(P, x) \subseteq d]

linked(P, leader, prev_leader, d) ==
    prev_leader \in search(P, leader, d)[Round(leader) - Round(prev_leader)]

\* The variable `leader` of order_leaders after n rounds: the leader of an
\* even round that it is linked to takes its place.
current_leader(P, leader, d, round) ==
    LET current[n \in 0..Round(leader)] ==
            IF n = 0 THEN leader
            ELSE LET r == Round(leader) - n
                 IN  IF /\ r >= round + 2 /\ r % 2 = 0
                        /\ LeaderCertificate(r) \in d
                        /\ linked(P, current[n - 1], LeaderCertificate(r), d)
                     THEN LeaderCertificate(r)
                     ELSE current[n - 1]
    IN  current

\* Mutant: earlier leaders are left behind.
order_leaders_last(P, leader, d, round) == {leader}

\* The leaders to commit: from the leader back to the last committed round,
\* those that the one after them is linked to.
order_leaders(P, leader, d, round) ==
    {current_leader(P, leader, d, round)[n] : n \in 0..Round(leader)}

\* Where linked expects "the whole history": the rounds from an earlier
\* leader to this one are not empty.
whole_history(leader, d, round) ==
    \A r \in (round + 2)..Round(leader) :
        r % 2 = 0 /\ LeaderCertificate(r) \in d =>
            \A q \in r..Round(leader) : \E x \in d : Round(x) = q

\* The body of the loop of process_certificate that commits the leaders.
commit_leader(P, leader, s) ==
    LET ordered == order_dag(P, leader, s.dag, s.last)
        after == updated(s.last, ordered.certificates)
    IN  [dag |-> purge(s.dag, after), last |-> after,
         sub_dags |-> Append(s.sub_dags, [leader |-> leader,
                                          certificates |-> ordered.certificates]),
         complete |-> s.complete /\ ordered.complete]

\* The loop, the earliest leader first: the state after the leaders up to a
\* round.
commit_rounds(P, leaders, d, last) ==
    LET state[r \in 0..MaxRound] ==
            IF r = 0 THEN [dag |-> d, last |-> last, sub_dags |-> <<>>, complete |-> TRUE]
            ELSE IF LeaderCertificate(r) \in leaders
                 THEN commit_leader(P, LeaderCertificate(r), state[r - 1])
                 ELSE state[r - 1]
    IN  state

commit_leaders(P, leaders, d, last) == commit_rounds(P, leaders, d, last)[MaxRound]

------------------------------------------------------------------------------
(* Actions *)

Init ==
    /\ parents \in Dags
    /\ seen = {} /\ dag = {}
    /\ last_committed = [a \in Authorities |-> 0]
    /\ committed = <<>>
    /\ panicked = FALSE /\ restarts = 0

\* What the synchronizer hands on: the parents are known or collected.
Ready(c, known) ==
    /\ c \notin known
    /\ \/ Round(c) <= gc_round(committed_round(last_committed)) + 1
       \/ ParentsOf(parents, c) \subseteq known

\* Mutant: the support is counted before the certificate is inserted.
support_before(P, c, d) ==
    validity_threshold <=
        Cardinality({a \in Authorities : /\ <<Round(c), a>> \in d \ {c}
                                         /\ Leader[Round(c) - 1] \in P[<<Round(c), a>>]})

\* Whether the certificates of c's round in d support the leader before them.
support(P, c, d) ==
    validity_threshold <=
        Cardinality({a \in Authorities : /\ <<Round(c), a>> \in d
                                         /\ Leader[Round(c) - 1] \in P[<<Round(c), a>>]})

\* Whether process_certificate commits when c enters the DAG.
Committable(c, d) ==
    LET r == Round(c) - 1
    IN  /\ Round(c) > last_committed[Origin(c)]
        /\ r >= 2 /\ r % 2 = 0 /\ r > committed_round(last_committed)
        /\ LeaderCertificate(r) \in d
        /\ support(parents, c, d)

\* The leaders that it commits then.
ToCommit(c, d) ==
    order_leaders(parents, LeaderCertificate(Round(c) - 1), d,
                  committed_round(last_committed))

\* process_certificate.
ProcessCertificate(c) ==
    LET round == committed_round(last_committed)
        gc == gc_round(round)
        d == dag \cup {c}
    IN  /\ ~panicked
        /\ Ready(c, seen)
        /\ seen' = seen \cup {c}
        /\ \/ /\ Round(c) <= gc
              /\ UNCHANGED <<dag, last_committed, committed, panicked>>
           \/ /\ Round(c) > gc /\ ~Committable(c, d)
              /\ dag' = d
              /\ panicked' = ~parents_found(parents, c, dag, gc)
              /\ UNCHANGED <<last_committed, committed>>
           \/ /\ Round(c) > gc /\ Committable(c, d)
              /\ \E s \in {commit_leaders(parents, ToCommit(c, d), d, last_committed)} :
                    /\ dag' = s.dag
                    /\ last_committed' = s.last
                    /\ committed' = committed \o s.sub_dags
                    /\ panicked' = ~(/\ parents_found(parents, c, dag, gc)
                                     /\ whole_history(LeaderCertificate(Round(c) - 1), d, round)
                                     /\ s.complete)
        /\ UNCHANGED <<parents, restarts>>

\* Consensus::spawn with what the stores hold: the assertion on the last
\* sub-dag, and the DAG rebuilt above the garbage collection round.
Recover(known, last, sub_dags) ==
    LET gc == gc_round(committed_round(last))
        d == {c \in known : Round(c) > gc}
    IN  /\ dag' = d
        /\ last_committed' = last
        /\ committed' = sub_dags
        /\ panicked' = \/ \E c \in d : ~parents_found(parents, c, d, gc)
                       \/ /\ sub_dags # <<>>
                          /\ Round(sub_dags[Len(sub_dags)].leader) # committed_round(last)

\* Bound: at most two stored certificates had not reached the consensus.
Unseen ==
    LET first == {c \in Certificates : Ready(c, seen)}
    IN  {{}} \cup UNION {{{x, y} : y \in {c \in Certificates : Ready(c, seen \cup {x})} \cup {x}} :
                       x \in first}

\* A crash; the unseen certificates were stored and had not reached the
\* consensus.
Restart(unseen) ==
    /\ ~panicked
    /\ seen' = seen \cup unseen
    /\ Recover(seen', last_committed, committed)
    /\ restarts' = restarts + 1
    /\ UNCHANGED parents

\* A crash in a commit, when the sub-dags of the leaders up to round r were
\* written and others were not.
CrashInCommit(c, r) ==
    LET d == dag \cup {c}
        written == {x \in ToCommit(c, d) : Round(x) <= r}
    IN  /\ ~panicked
        /\ Ready(c, seen)
        /\ Round(c) > gc_round(committed_round(last_committed))
        /\ Committable(c, d)
        /\ LeaderCertificate(r) \in ToCommit(c, d) /\ r < Round(c) - 1
        /\ seen' = seen \cup {c}
        /\ \E s \in {commit_leaders(parents, written, d, last_committed)} :
                Recover(seen', s.last, committed \o s.sub_dags)
        /\ restarts' = restarts + 1
        /\ UNCHANGED parents

Next ==
    \/ \E c \in Certificates : ProcessCertificate(c)
    \/ /\ restarts < MaxRestarts
       /\ \/ \E unseen \in Unseen : Restart(unseen)
          \/ \E c \in Certificates, r \in 1..MaxRound : CrashInCommit(c, r)

Spec == Init /\ [][Next]_vars

------------------------------------------------------------------------------
(* Properties *)

\* The rounds whose leader the certificates of d support.
Supported(P, d) ==
    {r \in 2..(MaxRound - 1) : r % 2 = 0 /\ support(P, <<r + 1, Leader[r]>>, d)}

\* The leaders that a validator commits if it has the whole DAG at once.
Chain(P) ==
    IF Supported(P, Certificates) = {} THEN {}
    ELSE LET top == CHOOSE r \in Supported(P, Certificates) :
                        \A s \in Supported(P, Certificates) : s <= r
         IN  order_leaders(P, LeaderCertificate(top), Certificates, 0)

\* What it would commit up to each round.
History(P) == commit_rounds(P, Chain(P), Certificates, [a \in Authorities |-> 0])

Ordering == History(parents)[MaxRound].sub_dags

\* Validators agree: whatever the order in which the certificates arrive,
\* what was collected before they came, and where the validator crashed, its
\* sub-dags are the first ones of a sequence that only the DAG determines.
Agreement ==
    /\ Len(committed) <= Len(Ordering)
    /\ committed = SubSeq(Ordering, 1, Len(committed))

\* No assertion or expectation of the ordering fails: the parents that
\* check_parents and order_dag look up and the rounds that linked visits are
\* there, after a restart too, and the last sub-dag in the store matches the
\* last committed rounds.
NoPanic == ~panicked

\* No certificate of the sub-dags is committed twice, and none before a parent:
\* the parent is in the same or an earlier sub-dag, or its round was collected,
\* or a later certificate of its origin was committed before.
Causal(P, sub_dags) ==
    \A i \in DOMAIN sub_dags :
        LET before == UNION {sub_dags[j].certificates : j \in 1..(i - 1)}
            certificates == sub_dags[i].certificates
        IN  /\ certificates \cap before = {}
            /\ \A x \in certificates : \A p \in ParentsOf(P, x) :
                \/ p \in certificates \cup before
                \/ Round(p) <= gc_round(Round(sub_dags[i].leader))
                \/ \E q \in before : Origin(q) = Origin(p) /\ Round(q) > Round(p)

\* What order_dag flattened and the validator committed is causal: it is
\* committed once, and after what it refers to.
CausalOnce == Causal(parents, committed)

\* Without a crash a leader is committed, alone or behind a later one, as soon
\* as the certificates received support it.
SupportedCommitted ==
    restarts = 0 =>
        \A r \in Supported(parents, seen) : committed_round(last_committed) >= r
=============================================================================
