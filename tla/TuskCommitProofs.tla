--------------------------- MODULE TuskCommitProofs ---------------------------
(***************************************************************************)
(* What the operators of the commit rule of Tusk return, for every DAG:    *)
(* the search of order_dag, the support of leaders, order_leaders and the  *)
(* loop over the leaders it commits.                                       *)
(***************************************************************************)
EXTENDS Tusk, IntervalProofs, FiniteSetTheorems

------------------------------------------------------------------------------
(* Certificates *)

(* A certificate has a round and an origin, and is determined by them. *)
LEMMA CertificateFacts ==
    /\ \A c \in Certificates :
        /\ Round(c) \in 1..MaxRound /\ Round(c) \in Nat
        /\ Origin(c) \in Authorities /\ c = <<Round(c), Origin(c)>>
    /\ \A r \in 1..MaxRound, a \in Authorities :
        <<r, a>> \in Certificates /\ Round(<<r, a>>) = r /\ Origin(<<r, a>>) = a
BY TuskAssumption DEF Certificates, Round, Origin

(* The certificate of a leader. *)
LEMMA LeaderFacts ==
    ASSUME NEW r \in 1..MaxRound
    PROVE  /\ LeaderCertificate(r) \in Certificates
           /\ Round(LeaderCertificate(r)) = r
           /\ Origin(LeaderCertificate(r)) \in Authorities
BY TuskAssumption, CertificateFacts DEF LeaderCertificate

(* The parents are certificates of the round before, or the genesis. *)
LEMMA ParentFacts ==
    ASSUME NEW P \in Dags, NEW c \in Certificates
    PROVE  /\ \A p \in ParentsOf(P, c) :
                /\ Round(p) = Round(c) - 1 /\ Origin(p) \in P[c]
                /\ Round(p) \in Nat /\ Origin(p) \in Authorities
                /\ p = <<Round(p), Origin(p)>>
           /\ Round(c) > 1 => ParentsOf(P, c) \subseteq Certificates
           /\ \A a \in P[c] : <<Round(c) - 1, a>> \in ParentsOf(P, c)
<1>1. P[c] \subseteq Authorities
  BY TuskAssumption
<1>2. Round(c) \in 1..MaxRound
  BY CertificateFacts
<1> QED BY <1>1, <1>2, TuskAssumption DEF ParentsOf, Round, Origin, Certificates

(* The garbage collection round lies below a round and never goes back. *)
LEMMA GcRound ==
    ASSUME NEW r \in Nat
    PROVE  /\ gc_round(r) \in Nat /\ gc_round(r) <= r
           /\ r > 0 => gc_round(r) < r
           /\ \A q \in Nat : r <= q => gc_round(r) <= gc_round(q)
BY TuskAssumption DEF gc_round

(* A nonempty set of rounds has a greatest one. *)
LEMMA GreatestRound ==
    ASSUME NEW S, S \subseteq 0..MaxRound, S # {}
    PROVE  \E m \in S : \A r \in S : r <= m
<1> DEFINE T == {MaxRound - r : r \in S}
<1>0. MaxRound \in Nat
  BY TuskAssumption
<1>1. T \subseteq Nat /\ T # {}
  <2>1. \A r \in S : r \in Nat /\ r <= MaxRound
    BY <1>0
  <2>2. \A r \in S : MaxRound - r \in Nat
    BY <1>0, <2>1
  <2> QED BY Zenon, <2>2
<1>2. PICK k \in T : \A n \in T : k <= n
  <2> HIDE DEF T
  <2> QED BY Zenon, <1>1, LeastNatural
<1>3. PICK m \in S : k = MaxRound - m
  OBVIOUS
<1>4. \A r \in S : MaxRound - m <= MaxRound - r
  BY <1>2, <1>3
<1>5. \A r \in S : r <= m
  BY <1>0, <1>4
<1> QED BY Zenon, <1>5

------------------------------------------------------------------------------
(* The search from a leader *)

(* The leader, then at each step the parents of the level before, one round   *)
(* lower.                                                                    *)
Levels(level, P, leader, within) ==
    /\ level \in [0..Round(leader) -> SUBSET Certificates]
    /\ level[0] = {leader}
    /\ \A n \in 1..Round(leader) :
        level[n] = within \cap UNION {ParentsOf(P, x) : x \in level[n - 1]}
    /\ \A n \in 0..Round(leader) : \A x \in level[n] : Round(x) = Round(leader) - n

(* The levels of the search. *)
LEMMA SearchFacts ==
    ASSUME NEW P \in Dags, NEW leader \in Certificates, NEW within,
           within \subseteq Certificates
    PROVE  Levels(search(P, leader, within), P, leader, within)
<1> DEFINE hi == Round(leader)
           next(L) == within \cap UNION {ParentsOf(P, x) : x \in L}
           level == CHOOSE f : f = [n \in 0..hi |->
                                      IF n = 0 THEN {leader} ELSE next(f[n - 1])]
           G == [n \in Nat |-> [L \in SUBSET Certificates |-> next(L)]]
<1>1. search(P, leader, within) = level
  BY Zenon DEF search
<1>2. hi \in Nat /\ hi > 0
  BY CertificateFacts
<1>3. G \in [Nat -> [SUBSET Certificates -> SUBSET Certificates]]
  OBVIOUS
<1>4. \E f \in [0..hi -> SUBSET Certificates] :
        f = [n \in 0..hi |-> IF n = 0 THEN {leader} ELSE next(f[n - 1])]
  <2>1. PICK f \in [0..hi -> SUBSET Certificates] :
          f = [n \in 0..hi |-> IF n = 0 THEN {leader} ELSE G[n][f[n - 1]]]
    <3> DEFINE base == {leader}
               D == SUBSET Certificates
    <3>1. base \in D /\ G \in [Nat -> [D -> D]]
      BY <1>3
    <3>2. 0 \in Nat /\ hi \in Nat
      BY <1>2
    <3> HIDE DEF G, base, hi, D
    <3>3. \E f \in [0..hi -> D] : Recursion(f, 0, hi, base, G)
      BY <3>1, <3>2, IntervalRecursion
    <3> QED BY Zenon, <3>3 DEF base, D, Recursion
  <2>2. \A n \in 0..hi : n # 0 => G[n][f[n - 1]] = next(f[n - 1])
    <3> HIDE DEF G, next
    <3> TAKE n \in 0..hi
    <3> QED BY <1>2 DEF G
  <2>3. \A n \in 0..hi : f[n] = IF n = 0 THEN {leader} ELSE next(f[n - 1])
    <3> HIDE DEF G, next
    <3> QED BY Zenon, <2>1, <2>2
  <2>4. f = [n \in 0..hi |-> IF n = 0 THEN {leader} ELSE next(f[n - 1])]
    <3> HIDE DEF G, next
    <3> QED BY <2>3
  <2> QED BY Zenon, <2>4
<1>5. /\ level \in [0..hi -> SUBSET Certificates]
      /\ level = [n \in 0..hi |-> IF n = 0 THEN {leader} ELSE next(level[n - 1])]
  <2> HIDE DEF next, hi
  <2>1. level = [n \in 0..hi |-> IF n = 0 THEN {leader} ELSE next(level[n - 1])]
    BY Zenon, <1>4
  <2>2. PICK f \in [0..hi -> SUBSET Certificates] :
          f = [n \in 0..hi |-> IF n = 0 THEN {leader} ELSE next(f[n - 1])]
    BY Zenon, <1>4
  <2> DEFINE Q == {n \in Nat : n \in 0..hi => level[n] \subseteq Certificates}
  <2> HIDE DEF level
  <2>3. 0 \in Q
    BY <2>1, <1>2
  <2>4. \A n \in 0..hi : n > 0 /\ n - 1 \in Q => n \in Q
    <3> SUFFICES ASSUME NEW n \in 0..hi, n > 0 PROVE level[n] \subseteq Certificates
      BY <1>2
    <3>0. n # 0
      BY <1>2
    <3>1. level[n] = next(level[n - 1])
      BY Zenon, <2>1, <3>0
    <3> QED BY <3>1 DEF next
  <2>5. 0..hi \subseteq Q
    <3> HIDE DEF Q
    <3> QED BY Zenon, <1>2, <2>3, <2>4, IntervalInduction
  <2> QED BY Zenon, <2>1, <2>5
<1> HIDE DEF level
<1>6. level[0] = {leader}
  BY <1>2, <1>5
<1>7. \A n \in 1..hi : level[n] = next(level[n - 1])
  <2> HIDE DEF next, hi
  <2>1. \A n \in 1..hi : n \in 0..hi /\ n # 0
    BY <1>2
  <2> QED BY Zenon, <1>5, <2>1
<1>8. \A n \in 0..hi : \A x \in level[n] : Round(x) = hi - n
  <2> DEFINE Q == {n \in Nat : n \in 0..hi => \A x \in level[n] : Round(x) = hi - n}
  <2>1. 0 \in Q
    BY <1>2, <1>6
  <2>2. \A n \in 0..hi : n > 0 /\ n - 1 \in Q => n \in Q
    <3> SUFFICES ASSUME NEW n \in 0..hi, n > 0, n - 1 \in Q, NEW x \in level[n]
                 PROVE  Round(x) = hi - n
      BY <1>2
    <3>1. n \in 1..hi /\ n - 1 \in 0..hi /\ n \in Nat
      BY <1>2
    <3>2. PICK y \in level[n - 1] : x \in ParentsOf(P, y)
      BY <1>7, <3>1
    <3>3. y \in Certificates /\ Round(y) = hi - (n - 1)
      <4> HIDE DEF hi
      <4> QED BY <1>5, <3>1
    <3>4. Round(x) = Round(y) - 1
      BY <3>2, <3>3, ParentFacts
    <3> QED BY <1>2, <3>1, <3>3, <3>4
  <2>3. 0..hi \subseteq Q
    <3> HIDE DEF Q
    <3> QED BY Zenon, <1>2, <2>1, <2>2, IntervalInduction
  <2> QED BY <2>3, <1>2
<1> QED BY Zenon, <1>1, <1>5, <1>6, <1>7, <1>8 DEF Levels

(* A parent in `within` of a certificate of one level is in the next. *)
LEMMA NextLevel ==
    ASSUME NEW P, NEW leader, NEW within, NEW level, Levels(level, P, leader, within),
           Round(leader) \in Nat,
           NEW n \in Nat, n < Round(leader), NEW x \in level[n],
           NEW p \in ParentsOf(P, x), p \in within
    PROVE  p \in level[n + 1]
<1>1. \A k \in 1..Round(leader) : \A y \in level[k - 1] :
        ParentsOf(P, y) \cap within \subseteq level[k]
  BY DEF Levels
<1>2. n + 1 \in 1..Round(leader) /\ (n + 1) - 1 = n
  OBVIOUS
<1>3. \A y \in level[(n + 1) - 1] : ParentsOf(P, y) \cap within \subseteq level[n + 1]
  BY Zenon, <1>1, <1>2
<1> QED BY Zenon, <1>2, <1>3

(* d holds the parents of its certificates above round g + 1. *)
ClosedAbove(P, d, g) ==
    /\ d \subseteq Certificates
    /\ \A c \in d : Round(c) > g + 1 => ParentsOf(P, c) \subseteq d

(* A search from a certificate of a closed DAG stays in it above round g. *)
LEMMA SearchWithin ==
    ASSUME NEW P \in Dags, NEW d, NEW g \in Nat, ClosedAbove(P, d, g),
           NEW leader \in d, NEW within, within \subseteq Certificates,
           NEW n \in 0..Round(leader), n + g < Round(leader)
    PROVE  search(P, leader, within)[n] \subseteq d
<1> DEFINE hi == Round(leader)
           level == search(P, leader, within)
           Q == {k \in Nat : k \in 0..hi /\ k + g < hi => level[k] \subseteq d}
<1>0. leader \in Certificates /\ hi \in Nat
  BY CertificateFacts DEF ClosedAbove
<1>1. Levels(level, P, leader, within)
  BY <1>0, SearchFacts
<1> HIDE DEF level
<1> USE DEF Levels
<1>2. 0 \in Q
  BY <1>1
<1>3. \A k \in 0..hi : k > 0 /\ k - 1 \in Q => k \in Q
  <2> SUFFICES ASSUME NEW k \in 0..hi, k > 0, k - 1 \in Q, k + g < hi, NEW x \in level[k]
               PROVE  x \in d
    BY <1>0
  <2>1. k \in 1..hi /\ k - 1 \in 0..hi /\ k - 1 + g < hi
    BY <1>0
  <2>2. PICK y \in level[k - 1] : x \in ParentsOf(P, y)
    BY <1>1, <2>1
  <2>3. y \in d
    BY <2>1
  <2>4. Round(y) = hi - (k - 1)
    BY Zenon, <1>1, <2>1
  <2>5. Round(y) > g + 1
    BY <1>0, <2>1, <2>4
  <2> QED BY <2>2, <2>3, <2>5 DEF ClosedAbove
<1>4. 0..hi \subseteq Q
  <2> HIDE DEF Q
  <2> QED BY <1>0, <1>2, <1>3, IntervalInduction
<1>5. level[n] \subseteq d
  BY Zenon, <1>4
<1> QED BY Zenon, <1>5 DEF level

(* Above round g the search in a closed DAG is that in the whole DAG. *)
LEMMA SearchClosed ==
    ASSUME NEW P \in Dags, NEW d, NEW g \in Nat, ClosedAbove(P, d, g),
           NEW leader \in d, NEW n \in 0..Round(leader), n + g < Round(leader)
    PROVE  search(P, leader, d)[n] = search(P, leader, Certificates)[n]
<1> DEFINE hi == Round(leader)
           part == search(P, leader, d)
           whole == search(P, leader, Certificates)
           Q == {k \in Nat : k \in 0..hi /\ k + g < hi => part[k] = whole[k]}
<1>0. leader \in Certificates /\ hi \in Nat /\ d \subseteq Certificates
  BY CertificateFacts DEF ClosedAbove
<1>1. Levels(part, P, leader, d) /\ Levels(whole, P, leader, Certificates)
  BY <1>0, SearchFacts
<1>2. /\ part[0] = {leader} /\ whole[0] = {leader}
      /\ \A k \in 1..hi : part[k] = d \cap UNION {ParentsOf(P, x) : x \in part[k - 1]}
      /\ \A k \in 1..hi : whole[k] = Certificates
                                     \cap UNION {ParentsOf(P, x) : x \in whole[k - 1]}
  BY Zenon, <1>1 DEF Levels
<1>3. \A k \in 0..hi : k + g < hi => whole[k] \subseteq d
  BY <1>0, SearchWithin
<1> HIDE DEF part, whole
<1>4. 0 \in Q
  BY Zenon, <1>2
<1>5. \A k \in 0..hi : k > 0 /\ k - 1 \in Q => k \in Q
  <2> SUFFICES ASSUME NEW k \in 0..hi, k > 0, k - 1 \in Q, k + g < hi
               PROVE  part[k] = whole[k]
    BY <1>0
  <2>1. k \in 1..hi /\ k - 1 \in 0..hi /\ k - 1 + g < hi
    BY <1>0
  <2>2. part[k - 1] = whole[k - 1]
    BY <2>1
  <2>3. /\ part[k] = d \cap UNION {ParentsOf(P, x) : x \in whole[k - 1]}
        /\ whole[k] = Certificates \cap UNION {ParentsOf(P, x) : x \in whole[k - 1]}
    BY Zenon, <1>2, <2>1, <2>2
  <2>4. whole[k] \subseteq d
    BY <1>3
  <2> QED BY <1>0, <2>3, <2>4
<1>6. 0..hi \subseteq Q
  <2> HIDE DEF Q
  <2> QED BY <1>0, <1>4, <1>5, IntervalInduction
<1> QED BY <1>0, <1>6 DEF part, whole

------------------------------------------------------------------------------
(* Support *)

(* The authorities whose certificates in d refer to the leader of round r. *)
Supporters(P, r, d) ==
    {a \in Authorities : <<r + 1, a>> \in d /\ Leader[r] \in P[<<r + 1, a>>]}

(* A quorum of parents meets the supporters of a leader. *)
LEMMA QuorumMeets ==
    ASSUME NEW A \in SUBSET Authorities, NEW B \in SUBSET Authorities,
           Cardinality(A) >= quorum_threshold, Cardinality(B) >= validity_threshold
    PROVE  A \cap B # {} /\ A # {} /\ B # {}
<1> DEFINE n == Cardinality(Authorities)
<1>1. IsFiniteSet(A) /\ IsFiniteSet(B) /\ IsFiniteSet(A \cup B)
  BY TuskAssumption, FS_Subset
<1>2. /\ Cardinality(A) \in Nat /\ Cardinality(B) \in Nat
      /\ Cardinality(A \cap B) \in Nat /\ n \in Nat /\ n # 0
  BY <1>1, TuskAssumption, FS_CardinalityType, FS_EmptySet, FS_Subset
<1>3. Cardinality(A \cup B) = Cardinality(A) + Cardinality(B) - Cardinality(A \cap B)
  BY <1>1, FS_Union
<1>4. Cardinality(A \cup B) <= n
  BY TuskAssumption, FS_Subset
<1>5. Cardinality(A) + Cardinality(B) > n /\ Cardinality(A) > 0 /\ Cardinality(B) > 0
  <2> HIDE DEF n
  <2> QED BY <1>2 DEF quorum_threshold, validity_threshold, n
<1>6. Cardinality(A \cap B) > 0
  <2> HIDE DEF n
  <2> QED BY <1>2, <1>3, <1>4, <1>5
<1> QED BY <1>5, <1>6, FS_EmptySet

(* process_certificate compares the number of supporters with the threshold. *)
LEMMA SupportCount ==
    ASSUME NEW P \in Dags, NEW r \in 1..MaxRound, NEW c, Round(c) = r + 1, NEW d
    PROVE  support(P, c, d) <=> validity_threshold <= Cardinality(Supporters(P, r, d))
<1>1. Round(c) - 1 = r
  BY TuskAssumption
<1> QED BY Zenon, <1>1 DEF support, Supporters

(* More certificates give no less support. *)
LEMMA SupportGrows ==
    ASSUME NEW P \in Dags, NEW r \in 1..MaxRound, NEW d, NEW e, d \subseteq e,
           validity_threshold <= Cardinality(Supporters(P, r, d))
    PROVE  validity_threshold <= Cardinality(Supporters(P, r, e))
<1>1. /\ Supporters(P, r, d) \subseteq Supporters(P, r, e)
      /\ Supporters(P, r, e) \subseteq Authorities
  BY DEF Supporters
<1>2. IsFiniteSet(Supporters(P, r, e))
  BY <1>1, TuskAssumption, FS_Subset
<1>3. Cardinality(Supporters(P, r, d)) <= Cardinality(Supporters(P, r, e))
  BY <1>1, <1>2, FS_Subset
<1>4. /\ Cardinality(Supporters(P, r, d)) \in Nat /\ Cardinality(Supporters(P, r, e)) \in Nat
      /\ Cardinality(Authorities) \in Nat
  BY <1>1, <1>2, TuskAssumption, FS_Subset, FS_CardinalityType
<1>5. validity_threshold \in Nat
  BY <1>4 DEF validity_threshold
<1> QED BY <1>3, <1>4, <1>5

(* Every certificate above round 1 has a parent that supports, or is, a       *)
(* member of any set of authorities as large as the supporters of a leader.  *)
LEMMA ParentsMeet ==
    ASSUME NEW P \in Dags, NEW c \in Certificates, Round(c) > 1,
           NEW B \in SUBSET Authorities, Cardinality(B) >= validity_threshold
    PROVE  \E a \in B : <<Round(c) - 1, a>> \in ParentsOf(P, c)
<1>1. P[c] \in SUBSET Authorities /\ Cardinality(P[c]) >= quorum_threshold
  BY TuskAssumption
<1>2. PICK a \in P[c] : a \in B
  BY <1>1, QuorumMeets
<1> QED BY <1>2, ParentFacts

(* The search in the whole DAG reaches every round below the leader. *)
LEMMA SearchReaches ==
    ASSUME NEW P \in Dags, NEW leader \in Certificates, NEW n \in 0..Round(leader),
           n < Round(leader)
    PROVE  search(P, leader, Certificates)[n] # {}
<1> DEFINE hi == Round(leader)
           level == search(P, leader, Certificates)
           Q == {k \in Nat : k \in 0..hi /\ k < hi => level[k] # {}}
<1>0. hi \in Nat
  BY CertificateFacts
<1>1. Levels(level, P, leader, Certificates)
  BY SearchFacts
<1> HIDE DEF level
<1>2. 0 \in Q
  BY <1>1 DEF Levels
<1>3. \A k \in 0..hi : k > 0 /\ k - 1 \in Q => k \in Q
  <2> SUFFICES ASSUME NEW k \in 0..hi, k > 0, k - 1 \in Q, k < hi
               PROVE  level[k] # {}
    BY <1>0
  <2>1. k \in 1..hi /\ k - 1 \in 0..hi /\ k - 1 < hi
    BY <1>0
  <2>2. PICK y : y \in level[k - 1]
    BY <2>1
  <2>3. y \in Certificates /\ Round(y) = hi - (k - 1)
    BY <1>1, <2>1, <2>2 DEF Levels
  <2>4. Round(y) > 1
    BY <1>0, <2>1, <2>3
  <2>5. Cardinality(Authorities) >= validity_threshold
    BY TuskAssumption, FS_CardinalityType, FS_EmptySet DEF validity_threshold
  <2>6. PICK a \in Authorities : <<Round(y) - 1, a>> \in ParentsOf(P, y)
    BY <2>3, <2>4, <2>5, ParentsMeet
  <2>7. <<Round(y) - 1, a>> \in Certificates
    BY <2>3, <2>4, <2>6, ParentFacts
  <2> QED BY <1>1, <2>1, <2>2, <2>6, <2>7 DEF Levels
<1>4. 0..hi \subseteq Q
  <2> HIDE DEF Q
  <2> QED BY Zenon, <1>0, <1>2, <1>3, IntervalInduction
<1> QED BY <1>0, <1>4 DEF level

(* Every certificate from two rounds above on is linked to a leader with      *)
(* enough support.                                                           *)
LEMMA SupportedLinked ==
    ASSUME NEW P \in Dags, NEW r \in 1..MaxRound, NEW leader \in Certificates,
           Round(leader) >= r + 2,
           validity_threshold <= Cardinality(Supporters(P, r, Certificates))
    PROVE  linked(P, leader, LeaderCertificate(r), Certificates)
<1> DEFINE hi == Round(leader)
           level == search(P, leader, Certificates)
           n == hi - (r + 2)
           B == Supporters(P, r, Certificates)
<1>0. hi \in 1..MaxRound /\ r \in Nat /\ MaxRound \in Nat
  BY CertificateFacts, TuskAssumption
<1>1. Levels(level, P, leader, Certificates)
  BY SearchFacts
<1>2. n \in 0..hi /\ n < hi /\ n + 1 \in 1..hi /\ n + 2 \in 1..hi
  BY <1>0
<1>3. level[n] # {}
  BY <1>2, SearchReaches
<1>4. PICK x : x \in level[n]
  BY <1>3
<1> HIDE DEF level
<1>5. x \in Certificates /\ Round(x) = hi - n
  BY <1>1, <1>2, <1>4 DEF Levels
<1>6. Round(x) = r + 2 /\ Round(x) - 1 = r + 1 /\ Round(x) > 1 /\ r + 1 \in 1..MaxRound
  BY <1>0, <1>5
<1>7. PICK a \in B : <<r + 1, a>> \in ParentsOf(P, x)
  <2>1. B \in SUBSET Authorities
    BY DEF Supporters
  <2>2. Cardinality(B) >= validity_threshold
    <3>1. Cardinality(B) \in Nat /\ Cardinality(Authorities) \in Nat
      BY <2>1, TuskAssumption, FS_Subset, FS_CardinalityType
    <3>2. validity_threshold \in Nat
      BY <3>1 DEF validity_threshold
    <3> HIDE DEF B
    <3> QED BY <3>1, <3>2 DEF B
  <2> HIDE DEF B
  <2> QED BY <1>5, <1>6, <2>1, <2>2, ParentsMeet
<1>8. <<r + 1, a>> \in Certificates /\ Leader[r] \in P[<<r + 1, a>>] /\ a \in Authorities
  BY <1>7 DEF Supporters
<1>9. <<r + 1, a>> \in level[n + 1]
  <2> HIDE DEF n
  <2> QED BY <1>0, <1>1, <1>2, <1>4, <1>7, <1>8, NextLevel
<1>10. LeaderCertificate(r) \in ParentsOf(P, <<r + 1, a>>)
  <2>1. Round(<<r + 1, a>>) - 1 = r
    BY <1>0 DEF Round
  <2>2. <<r, Leader[r]>> \in ParentsOf(P, <<r + 1, a>>)
    BY <1>8, <2>1, ParentFacts
  <2> QED BY <2>2 DEF LeaderCertificate
<1>11. LeaderCertificate(r) \in level[n + 2]
  <2>1. n + 1 \in Nat /\ n + 1 < hi /\ n + 1 + 1 = n + 2 /\ hi \in Nat
    BY <1>0
  <2> HIDE DEF n
  <2>2. LeaderCertificate(r) \in level[n + 1 + 1]
    BY <1>1, <1>9, <1>10, <2>1, LeaderFacts, NextLevel
  <2> QED BY <2>1, <2>2
<1>12. n + 2 = Round(leader) - Round(LeaderCertificate(r))
  BY <1>0, LeaderFacts
<1> QED BY <1>11, <1>12 DEF linked, level

------------------------------------------------------------------------------
(* The leaders to commit *)

(* The leader of round r takes the place of l. *)
Replaces(P, l, r, d, round) ==
    /\ r >= round + 2 /\ r % 2 = 0
    /\ LeaderCertificate(r) \in d
    /\ linked(P, l, LeaderCertificate(r), d)

(* The variable of order_leaders: it starts with the leader of an even round, *)
(* holds leaders of even rounds above `round`, and each first at its round.  *)
Currents(current, P, leader, d, round) ==
    /\ current \in [0..Round(leader) -> Certificates]
    /\ current[0] = leader
    /\ \A n \in 1..Round(leader) :
        current[n] = IF Replaces(P, current[n - 1], Round(leader) - n, d, round)
                     THEN LeaderCertificate(Round(leader) - n) ELSE current[n - 1]
    /\ \A n \in 0..Round(leader) :
        /\ current[n] = LeaderCertificate(Round(current[n]))
        /\ current[n] = leader \/ current[n] \in d
        /\ Round(current[n]) % 2 = 0
        /\ Round(leader) <= Round(current[n]) + n
        /\ Round(current[n]) <= Round(leader)
        /\ Round(current[n]) = Round(leader) \/ Round(current[n]) >= round + 2
        /\ current[Round(leader) - Round(current[n])] = current[n]

(* What order_leaders goes through. *)
LEMMA CurrentFacts ==
    ASSUME NEW P \in Dags, NEW r \in 1..MaxRound, r % 2 = 0, NEW d, NEW round \in Nat
    PROVE  Currents(current_leader(P, LeaderCertificate(r), d, round),
                    P, LeaderCertificate(r), d, round)
<1> DEFINE leader == LeaderCertificate(r)
           hi == Round(leader)
           next(n, l) == IF Replaces(P, l, hi - n, d, round)
                         THEN LeaderCertificate(hi - n) ELSE l
           current == CHOOSE f : f = [n \in 0..hi |-> IF n = 0 THEN leader ELSE next(n, f[n - 1])]
           G == [n \in Nat |-> [l \in Certificates |-> next(n, l)]]
<1>1. current_leader(P, leader, d, round) = current
  BY Zenon DEF current_leader, Replaces
<1>2. hi = r /\ hi \in Nat /\ hi \in 1..MaxRound /\ leader \in Certificates
  BY LeaderFacts, TuskAssumption
<1>3. \A n \in Nat : \A l \in Certificates : next(n, l) \in Certificates
  <2> SUFFICES ASSUME NEW n \in Nat, NEW l \in Certificates,
                      Replaces(P, l, hi - n, d, round)
               PROVE  LeaderCertificate(hi - n) \in Certificates
    BY Zenon
  <2> HIDE DEF hi
  <2>1. hi - n >= round + 2
    BY DEF Replaces
  <2>2. hi - n \in 1..MaxRound
    BY <1>2, <2>1, TuskAssumption
  <2> QED BY <2>2, LeaderFacts
<1> HIDE DEF leader, hi, next
<1>4. G \in [Nat -> [Certificates -> Certificates]]
  BY <1>3
<1>5. \E f \in [0..hi -> Certificates] :
        f = [n \in 0..hi |-> IF n = 0 THEN leader ELSE next(n, f[n - 1])]
  <2>1. PICK f \in [0..hi -> Certificates] :
          f = [n \in 0..hi |-> IF n = 0 THEN leader ELSE G[n][f[n - 1]]]
    <3> HIDE DEF G
    <3>1. \E f \in [0..hi -> Certificates] : Recursion(f, 0, hi, leader, G)
      BY <1>2, <1>4, IntervalRecursion
    <3> QED BY Zenon, <3>1 DEF Recursion
  <2>2. \A n \in 0..hi : n # 0 => G[n][f[n - 1]] = next(n, f[n - 1])
    <3> TAKE n \in 0..hi
    <3> QED BY <1>2
  <2>3. \A n \in 0..hi : f[n] = IF n = 0 THEN leader ELSE next(n, f[n - 1])
    <3> HIDE DEF G
    <3> QED BY Zenon, <2>1, <2>2
  <2>4. f = [n \in 0..hi |-> IF n = 0 THEN leader ELSE next(n, f[n - 1])]
    <3> HIDE DEF G
    <3> QED BY <2>3
  <2> QED BY Zenon, <2>4
<1>6. current = [n \in 0..hi |-> IF n = 0 THEN leader ELSE next(n, current[n - 1])]
  BY Zenon, <1>5
<1> HIDE DEF current
<1>7. current[0] = leader
  BY <1>2, <1>6
<1>8. \A n \in 1..hi : current[n] = next(n, current[n - 1])
  <2>1. \A n \in 1..hi : n \in 0..hi /\ n # 0
    BY <1>2
  <2> QED BY Zenon, <1>6, <2>1
<1> DEFINE Good(n, l) ==
             /\ l \in Certificates
             /\ l = LeaderCertificate(Round(l))
             /\ l = leader \/ l \in d
             /\ Round(l) % 2 = 0
             /\ hi <= Round(l) + n
             /\ Round(l) <= hi
             /\ Round(l) = hi \/ Round(l) >= round + 2
             /\ current[hi - Round(l)] = l
           Q == {n \in Nat : n \in 0..hi => Good(n, current[n])}
<1>9. 0 \in Q
  <2>1. hi - hi = 0 /\ Round(leader) = hi
    BY <1>2 DEF hi
  <2>2. leader = LeaderCertificate(hi)
    BY <1>2 DEF leader
  <2> QED BY <1>2, <1>7, <2>1, <2>2
<1>10. \A n \in 0..hi : n > 0 /\ n - 1 \in Q => n \in Q
  <2> SUFFICES ASSUME NEW n \in 0..hi, n > 0, n - 1 \in Q PROVE Good(n, current[n])
    BY <1>2
  <2>1. n \in 1..hi /\ n \in Nat
    BY <1>2
  <2>2. Good(n - 1, current[n - 1])
    BY <1>2
  <2>3. CASE Replaces(P, current[n - 1], hi - n, d, round)
    <3>1. current[n] = LeaderCertificate(hi - n)
      BY Zenon, <1>8, <2>1, <2>3 DEF next
    <3>2. hi - n >= round + 2 /\ (hi - n) % 2 = 0 /\ current[n] \in d
      BY <2>3, <3>1 DEF Replaces
    <3>3. hi - n \in 1..MaxRound
      BY <1>2, <2>1, <3>2, TuskAssumption
    <3>4. Round(current[n]) = hi - n /\ current[n] \in Certificates
      BY <3>1, <3>3, LeaderFacts
    <3>5. hi - Round(current[n]) = n
      BY <1>2, <2>1, <3>4
    <3> QED BY <1>2, <2>1, <3>1, <3>2, <3>4, <3>5
  <2>4. CASE ~Replaces(P, current[n - 1], hi - n, d, round)
    <3>1. current[n] = current[n - 1]
      BY Zenon, <1>8, <2>1, <2>4 DEF next
    <3>2. hi <= Round(current[n - 1]) + n
      <4>1. Round(current[n - 1]) \in Nat /\ hi <= Round(current[n - 1]) + (n - 1)
        BY <2>2, CertificateFacts
      <4> QED BY <1>2, <2>1, <4>1
    <3> QED BY Zenon, <2>2, <3>1, <3>2
  <2> QED BY <2>3, <2>4
<1>11. 0..hi \subseteq Q
  <2> HIDE DEF Q
  <2> QED BY <1>2, <1>9, <1>10, IntervalInduction
<1>12. \A n \in 0..hi : Good(n, current[n])
  BY <1>11
<1>13. current \in [0..hi -> Certificates]
  BY <1>6, <1>12
<1> QED BY Zenon, <1>1, <1>7, <1>8, <1>12, <1>13 DEF Currents, next, hi, leader

(* The leaders to commit are those that the variable holds at their round. *)
LEMMA LeadersAtRound ==
    ASSUME NEW P \in Dags, NEW r \in 1..MaxRound, r % 2 = 0, NEW d, NEW round \in Nat
    PROVE  /\ order_leaders(P, LeaderCertificate(r), d, round)
                = {x \in Certificates :
                    /\ Round(x) <= r
                    /\ current_leader(P, LeaderCertificate(r), d, round)[r - Round(x)] = x}
           /\ \A x \in order_leaders(P, LeaderCertificate(r), d, round) :
                /\ x = LeaderCertificate(Round(x)) /\ Round(x) % 2 = 0
                /\ Round(x) = r \/ Round(x) >= round + 2
                /\ x = LeaderCertificate(r) \/ x \in d
           /\ LeaderCertificate(r) \in order_leaders(P, LeaderCertificate(r), d, round)
<1> DEFINE leader == LeaderCertificate(r)
           current == current_leader(P, leader, d, round)
<1>1. Currents(current, P, leader, d, round)
  BY CurrentFacts
<1>2. Round(leader) = r /\ r \in Nat
  BY LeaderFacts, TuskAssumption
<1>3. order_leaders(P, leader, d, round) = {current[n] : n \in 0..r}
  BY Zenon, <1>2 DEF order_leaders
<1> HIDE DEF current
<1>4. \A n \in 0..r :
        LET l == current[n]
        IN  /\ l \in Certificates /\ l = LeaderCertificate(Round(l)) /\ Round(l) % 2 = 0
            /\ Round(l) <= r /\ (Round(l) = r \/ Round(l) >= round + 2)
            /\ l = leader \/ l \in d
            /\ current[r - Round(l)] = l
  BY <1>1, <1>2 DEF Currents
<1>5. \A x \in Certificates : Round(x) \in Nat /\ (Round(x) <= r => r - Round(x) \in 0..r)
  BY <1>2, CertificateFacts
<1>6. 0 \in 0..r /\ current[0] = leader
  BY <1>1, <1>2 DEF Currents
<1>7. {current[n] : n \in 0..r}
        = {x \in Certificates : Round(x) <= r /\ current[r - Round(x)] = x}
  BY <1>4, <1>5
<1>8. \A x \in {current[n] : n \in 0..r} :
        /\ x = LeaderCertificate(Round(x)) /\ Round(x) % 2 = 0
        /\ Round(x) = r \/ Round(x) >= round + 2
        /\ x = leader \/ x \in d
  BY <1>4
<1>9. leader \in {current[n] : n \in 0..r}
  BY <1>6
<1> QED BY Zenon, <1>3, <1>7, <1>8, <1>9 DEF current

(* In a closed DAG a leader is linked to the same certificates above round g *)
(* as in the whole DAG, and these are in it.                                 *)
LEMMA LinkedClosed ==
    ASSUME NEW P \in Dags, NEW d, NEW g \in Nat, ClosedAbove(P, d, g),
           NEW leader \in d, NEW prev \in Certificates, Round(prev) < Round(leader),
           g < Round(prev)
    PROVE  /\ linked(P, leader, prev, d) <=> linked(P, leader, prev, Certificates)
           /\ linked(P, leader, prev, Certificates) => prev \in d
<1> DEFINE n == Round(leader) - Round(prev)
<1>1. /\ Round(leader) \in Nat /\ Round(prev) \in Nat /\ leader \in Certificates
  BY CertificateFacts DEF ClosedAbove
<1>2. n \in 0..Round(leader) /\ n + g < Round(leader)
  BY <1>1
<1>3. search(P, leader, d)[n] = search(P, leader, Certificates)[n]
  <2> HIDE DEF n
  <2> QED BY <1>2, SearchClosed
<1>4. search(P, leader, Certificates)[n] \subseteq d
  <2> HIDE DEF n
  <2> QED BY <1>2, SearchWithin
<1> QED BY Zenon, <1>3, <1>4 DEF linked

(* From a leader that the whole DAG commits, order_leaders over a closed DAG  *)
(* goes through what it goes through over the whole DAG, down to the         *)
(* committed round.                                                          *)
LEMMA SameCurrents ==
    ASSUME NEW P \in Dags, NEW d, NEW g \in Nat, ClosedAbove(P, d, g),
           NEW m \in Nat, m % 2 = 0, g <= m,
           NEW r \in 1..MaxRound, r % 2 = 0, LeaderCertificate(r) \in d,
           NEW t \in 1..MaxRound, t % 2 = 0, r <= t,
           current_leader(P, LeaderCertificate(t), Certificates, 0)[t - r]
                = LeaderCertificate(r),
           NEW n \in 0..r, m + n < r
    PROVE  current_leader(P, LeaderCertificate(r), d, m)[n]
                = current_leader(P, LeaderCertificate(t), Certificates, 0)[t - r + n]
<1> DEFINE part == current_leader(P, LeaderCertificate(r), d, m)
           whole == current_leader(P, LeaderCertificate(t), Certificates, 0)
           Q == {k \in Nat : k \in 0..r /\ m + k < r =>
                                part[k] = whole[t - r + k] /\ part[k] \in d}
<1>0. /\ r \in Nat /\ t \in Nat /\ MaxRound \in Nat
      /\ Round(LeaderCertificate(r)) = r /\ Round(LeaderCertificate(t)) = t
  BY LeaderFacts, TuskAssumption
<1>1. Currents(part, P, LeaderCertificate(r), d, m)
  BY CurrentFacts
<1>2. Currents(whole, P, LeaderCertificate(t), Certificates, 0)
  BY CurrentFacts
<1>3. whole[t - r] = LeaderCertificate(r)
  OBVIOUS
<1> HIDE DEF part, whole
<1>4. 0 \in Q
  <2>1. t - r + 0 = t - r
    BY <1>0
  <2> QED BY <1>1, <1>3, <2>1 DEF Currents
<1>5. \A k \in 0..r : k > 0 /\ k - 1 \in Q => k \in Q
  <2> SUFFICES ASSUME NEW k \in 0..r, k > 0, k - 1 \in Q, m + k < r
               PROVE  part[k] = whole[t - r + k] /\ part[k] \in d
    BY <1>0
  <2> DEFINE q == r - k
             j == t - r + k
             l == part[k - 1]
  <2>1. /\ k \in 1..r /\ k - 1 \in 0..r /\ m + (k - 1) < r
        /\ j \in 1..t /\ t - j = q /\ j - 1 = t - r + (k - 1) /\ q \in 1..MaxRound /\ q \in Nat
        /\ m < q /\ g < q
    BY <1>0
  <2>2. l = whole[j - 1] /\ l \in d
    BY <2>1
  <2>3. part[k] = IF Replaces(P, l, q, d, m) THEN LeaderCertificate(q) ELSE l
    BY Zenon, <1>0, <1>1, <2>1 DEF Currents
  <2>4. whole[j] = IF Replaces(P, whole[j - 1], t - j, Certificates, 0)
                   THEN LeaderCertificate(t - j) ELSE whole[j - 1]
    <3> HIDE DEF j, q
    <3> QED BY Zenon, <1>0, <1>2, <2>1 DEF Currents
  <2>5. whole[j] = IF Replaces(P, l, q, Certificates, 0) THEN LeaderCertificate(q) ELSE l
    <3> HIDE DEF j, q, l
    <3> QED BY Zenon, <2>1, <2>2, <2>4
  <2>6. Round(l) > q
    <3>1. r <= Round(l) + (k - 1)
      BY Zenon, <1>0, <1>1, <2>1 DEF Currents
    <3>2. Round(l) \in Nat
      BY <2>2, CertificateFacts DEF ClosedAbove
    <3> HIDE DEF l
    <3> QED BY <1>0, <2>1, <3>1, <3>2
  <2>7. LeaderCertificate(q) \in Certificates /\ Round(LeaderCertificate(q)) = q
    <3> HIDE DEF q
    <3> QED BY <2>1, LeaderFacts
  <2> HIDE DEF q, j, l
  <2>8. q % 2 = 0 => q >= m + 2 /\ q >= 0 + 2
    BY <2>1
  <2>9. /\ linked(P, l, LeaderCertificate(q), d)
             <=> linked(P, l, LeaderCertificate(q), Certificates)
        /\ linked(P, l, LeaderCertificate(q), Certificates) => LeaderCertificate(q) \in d
    BY <2>1, <2>2, <2>6, <2>7, LinkedClosed
  <2>10. Replaces(P, l, q, d, m) <=> Replaces(P, l, q, Certificates, 0)
    BY Zenon, <2>7, <2>8, <2>9 DEF Replaces
  <2>11. part[k] = whole[j]
    BY Zenon, <2>3, <2>5, <2>10
  <2>12. part[k] \in d
    BY Zenon, <2>2, <2>3 DEF Replaces
  <2> QED BY <2>11, <2>12 DEF j
<1>6. 0..r \subseteq Q
  <2> HIDE DEF Q
  <2> QED BY Zenon, <1>0, <1>4, <1>5, IntervalInduction
<1> QED BY <1>0, <1>6 DEF part, whole

------------------------------------------------------------------------------
(* The chain of leaders of a DAG *)

(* The latest supported round. *)
Top(P) == CHOOSE r \in Supported(P, Certificates) :
            \A s \in Supported(P, Certificates) : s <= r

(* A supported leader has a round, and the latest one exists. *)
LEMMA TopFacts ==
    ASSUME NEW P \in Dags, Supported(P, Certificates) # {}
    PROVE  /\ Top(P) \in Supported(P, Certificates)
           /\ \A s \in Supported(P, Certificates) : s <= Top(P)
<1>1. Supported(P, Certificates) \subseteq 0..MaxRound
  BY TuskAssumption DEF Supported
<1>2. \E r \in Supported(P, Certificates) : \A s \in Supported(P, Certificates) : s <= r
  BY <1>1, GreatestRound
<1> QED BY Zenon, <1>2 DEF Top

(* The chain is what order_leaders finds from the latest supported leader. *)
LEMMA ChainIs ==
    ASSUME NEW P \in Dags, Supported(P, Certificates) # {}
    PROVE  Chain(P) = order_leaders(P, LeaderCertificate(Top(P)), Certificates, 0)
BY Zenon DEF Chain, Top

(* The rounds of supported leaders. *)
LEMMA SupportedFacts ==
    ASSUME NEW P \in Dags, NEW d, NEW r \in Supported(P, d)
    PROVE  /\ r \in Nat /\ r \in 1..MaxRound /\ r + 1 \in 1..MaxRound /\ r >= 2 /\ r % 2 = 0
           /\ validity_threshold <= Cardinality(Supporters(P, r, d))
<1>1. /\ r \in 2..(MaxRound - 1) /\ r % 2 = 0 /\ MaxRound \in Nat
      /\ support(P, <<r + 1, Leader[r]>>, d)
  BY TuskAssumption DEF Supported
<1>2. r \in 1..MaxRound /\ Round(<<r + 1, Leader[r]>>) = r + 1
  BY <1>1 DEF Round
<1> QED BY <1>1, <1>2, SupportCount

(* The chain consists of leaders of even rounds. *)
LEMMA ChainFacts ==
    ASSUME NEW P \in Dags, NEW x \in Chain(P)
    PROVE  /\ x \in Certificates /\ x = LeaderCertificate(Round(x))
           /\ Round(x) \in 1..MaxRound /\ Round(x) \in Nat /\ Round(x) % 2 = 0
<1>1. Supported(P, Certificates) # {}
  BY DEF Chain
<1>2. Top(P) \in 1..MaxRound /\ Top(P) % 2 = 0
  BY <1>1, TopFacts, SupportedFacts
<1>3. x \in order_leaders(P, LeaderCertificate(Top(P)), Certificates, 0)
  BY <1>1, ChainIs
<1>4. x \in Certificates /\ x = LeaderCertificate(Round(x)) /\ Round(x) % 2 = 0
  BY <1>2, <1>3, LeadersAtRound
<1> QED BY <1>4, CertificateFacts

(* Every supported leader is in the chain: the leaders above it are linked to *)
(* it.                                                                       *)
LEMMA SupportedInChain ==
    ASSUME NEW P \in Dags, NEW r \in Supported(P, Certificates)
    PROVE  /\ current_leader(P, LeaderCertificate(Top(P)), Certificates, 0)[Top(P) - r]
                = LeaderCertificate(r)
           /\ LeaderCertificate(r) \in Chain(P)
<1> DEFINE t == Top(P)
           whole == current_leader(P, LeaderCertificate(t), Certificates, 0)
<1>1. t \in Supported(P, Certificates) /\ r <= t
  BY TopFacts
<1>2. /\ r \in Nat /\ r \in 1..MaxRound /\ r >= 2 /\ r % 2 = 0
      /\ validity_threshold <= Cardinality(Supporters(P, r, Certificates))
  BY SupportedFacts
<1>3. t \in 1..MaxRound /\ t \in Nat /\ t % 2 = 0
  BY <1>1, SupportedFacts
<1>4. Round(LeaderCertificate(t)) = t /\ Round(LeaderCertificate(r)) = r
      /\ LeaderCertificate(r) \in Certificates
  BY <1>2, <1>3, LeaderFacts
<1>5. Currents(whole, P, LeaderCertificate(t), Certificates, 0)
  BY <1>3, CurrentFacts
<1> HIDE DEF whole, t
<1>6. whole[t - r] = LeaderCertificate(r)
  <2>1. CASE r = t
    BY <1>3, <1>5, <2>1 DEF Currents
  <2>2. CASE r # t
    <3> DEFINE n == t - r
    <3>1. n \in 1..t /\ n - 1 \in 0..t /\ t - n = r
      BY <1>1, <1>2, <1>3, <2>2
    <3> HIDE DEF n
    <3>2. /\ whole[n] = IF Replaces(P, whole[n - 1], t - n, Certificates, 0)
                        THEN LeaderCertificate(t - n) ELSE whole[n - 1]
          /\ whole[n - 1] \in Certificates /\ Round(whole[n - 1]) % 2 = 0
          /\ t <= Round(whole[n - 1]) + (n - 1)
      BY Zenon, <1>4, <1>5, <3>1, CertificateFacts DEF Currents
    <3>3. Round(whole[n - 1]) \in Nat
      BY <3>2, CertificateFacts
    <3>4. Round(whole[n - 1]) >= r + 2
      BY <1>2, <1>3, <3>1, <3>2, <3>3
    <3>5. linked(P, whole[n - 1], LeaderCertificate(r), Certificates)
      BY <1>2, <3>2, <3>4, SupportedLinked
    <3>6. r >= 0 + 2
      BY <1>2
    <3>7. Replaces(P, whole[n - 1], r, Certificates, 0)
      BY Zenon, <1>2, <1>4, <3>5, <3>6 DEF Replaces
    <3>8. whole[n] = LeaderCertificate(r)
      BY Zenon, <3>1, <3>2, <3>7
    <3> QED BY <3>8 DEF n
  <2> QED BY <2>1, <2>2
<1>7. LeaderCertificate(r) \in order_leaders(P, LeaderCertificate(t), Certificates, 0)
  <2>1. order_leaders(P, LeaderCertificate(t), Certificates, 0)
          = {x \in Certificates : Round(x) <= t /\ whole[t - Round(x)] = x}
    BY <1>3, LeadersAtRound DEF whole
  <2> QED BY Zenon, <1>1, <1>4, <1>6, <2>1
<1> QED BY <1>6, <1>7, ChainIs DEF whole, t

(* A validator whose DAG is closed commits the members of the chain between   *)
(* the committed round and the leader.                                       *)
LEMMA LeadersOfChain ==
    ASSUME NEW P \in Dags, NEW d, NEW g \in Nat, ClosedAbove(P, d, g),
           NEW m \in Nat, m % 2 = 0, g <= m,
           NEW r \in Supported(P, Certificates), m < r, LeaderCertificate(r) \in d
    PROVE  order_leaders(P, LeaderCertificate(r), d, m)
                = {x \in Chain(P) : m < Round(x) /\ Round(x) <= r}
<1> DEFINE t == Top(P)
           part == current_leader(P, LeaderCertificate(r), d, m)
           whole == current_leader(P, LeaderCertificate(t), Certificates, 0)
<1>1. t \in Supported(P, Certificates) /\ r <= t
  BY TopFacts
<1>2. r \in Nat /\ r \in 1..MaxRound /\ r % 2 = 0
  BY SupportedFacts
<1>3. t \in 1..MaxRound /\ t \in Nat /\ t % 2 = 0
  BY <1>1, SupportedFacts
<1>4. \A n \in 0..r : m + n < r => part[n] = whole[t - r + n]
  <2>1. whole[t - r] = LeaderCertificate(r)
    BY SupportedInChain
  <2> HIDE DEF t
  <2> QED BY <1>1, <1>2, <1>3, <2>1, SameCurrents
<1>5. Chain(P) = {x \in Certificates : Round(x) <= t /\ whole[t - Round(x)] = x}
  <2>1. Chain(P) = order_leaders(P, LeaderCertificate(t), Certificates, 0)
    BY ChainIs
  <2> QED BY <1>3, <2>1, LeadersAtRound
<1> DEFINE ordered == order_leaders(P, LeaderCertificate(r), d, m)
<1>6. /\ ordered = {x \in Certificates : Round(x) <= r /\ part[r - Round(x)] = x}
      /\ \A x \in ordered : Round(x) = r \/ Round(x) >= m + 2
  BY <1>2, LeadersAtRound
<1> HIDE DEF ordered, part, whole, t
<1>7. \A x \in Certificates : m < Round(x) /\ Round(x) <= r =>
        part[r - Round(x)] = whole[t - Round(x)]
  <2> SUFFICES ASSUME NEW x \in Certificates, m < Round(x), Round(x) <= r
               PROVE  part[r - Round(x)] = whole[t - Round(x)]
    OBVIOUS
  <2>1. Round(x) \in Nat
    BY CertificateFacts
  <2>2. /\ r - Round(x) \in 0..r /\ m + (r - Round(x)) < r
        /\ t - r + (r - Round(x)) = t - Round(x)
    BY <1>2, <1>3, <2>1
  <2> QED BY <1>4, <2>2
<1>8. \A x \in ordered : x \in Certificates /\ m < Round(x) /\ Round(x) <= r
  BY <1>2, <1>6, CertificateFacts
<1>9. \A x \in Certificates : Round(x) <= r => Round(x) <= t
  BY <1>1, <1>2, <1>3, CertificateFacts
<1>10. \A x \in ordered : x \in Chain(P)
  BY Zenon, <1>5, <1>6, <1>7, <1>8, <1>9
<1>11. \A x \in Chain(P) : m < Round(x) /\ Round(x) <= r => x \in ordered
  BY Zenon, <1>5, <1>6, <1>7
<1> QED BY Zenon, <1>8, <1>10, <1>11 DEF ordered

------------------------------------------------------------------------------
(* What a commit changes *)

LastRounds == [Authorities -> 0..MaxRound]

(* The committed round is the greatest of the last committed rounds. *)
LEMMA CommittedRound ==
    ASSUME NEW last \in LastRounds
    PROVE  /\ committed_round(last) \in 0..MaxRound /\ committed_round(last) \in Nat
           /\ \A a \in Authorities : last[a] <= committed_round(last)
           /\ \E a \in Authorities : last[a] = committed_round(last)
<1> DEFINE S == {last[a] : a \in Authorities}
<1>1. S \subseteq 0..MaxRound /\ S # {}
  BY TuskAssumption DEF LastRounds
<1>2. \E m \in S : \A r \in S : r <= m
  <2> HIDE DEF S
  <2> QED BY Zenon, <1>1, GreatestRound
<1>3. \E m \in S : \A a \in Authorities : last[a] <= m
  BY <1>2
<1>4. /\ committed_round(last) \in S
      /\ \A a \in Authorities : last[a] <= committed_round(last)
  BY Zenon, <1>3 DEF committed_round
<1> QED BY <1>1, <1>4, TuskAssumption

(* The last round of an authority moves to that of its latest certificate,    *)
(* and never back.                                                           *)
MovesOn(after, last, C) ==
    /\ after \in LastRounds
    /\ \A a \in Authorities : last[a] <= after[a]
    /\ \A x \in C : Round(x) <= after[Origin(x)]
    /\ \A a \in Authorities :
        after[a] = last[a] \/ \E x \in C : Origin(x) = a /\ Round(x) = after[a]

(* ConsensusState::update. *)
LEMMA UpdatedFacts ==
    ASSUME NEW last \in LastRounds, NEW C, C \subseteq Certificates
    PROVE  MovesOn(updated(last, C), last, C)
<1> DEFINE rounds(a) == {last[a]} \cup {Round(c) : c \in {x \in C : Origin(x) = a}}
           new(a) == CHOOSE m \in rounds(a) : \A r \in rounds(a) : r <= m
<1>1. updated(last, C) = [a \in Authorities |-> new(a)]
  BY Zenon DEF updated
<1>2. \A a \in Authorities : /\ new(a) \in rounds(a) /\ rounds(a) \subseteq 0..MaxRound
                              /\ \A r \in rounds(a) : r <= new(a)
  <2> TAKE a \in Authorities
  <2>1. rounds(a) \subseteq 0..MaxRound /\ rounds(a) # {}
    BY CertificateFacts, TuskAssumption DEF LastRounds
  <2>2. \E m \in rounds(a) : \A r \in rounds(a) : r <= m
    <3> HIDE DEF rounds
    <3> QED BY <2>1, GreatestRound
  <2> HIDE DEF rounds
  <2> QED BY Zenon, <2>1, <2>2
<1> HIDE DEF new
<1>3. \A a \in Authorities : updated(last, C)[a] = new(a)
  BY <1>1
<1>4. updated(last, C) \in LastRounds
  <2>1. \A a \in Authorities : new(a) \in 0..MaxRound
    BY Zenon, <1>2
  <2> QED BY <1>1, <2>1 DEF LastRounds
<1>5. \A a \in Authorities : last[a] <= new(a)
  BY <1>2
<1>6. \A x \in C : Origin(x) \in Authorities /\ Round(x) <= new(Origin(x))
  BY <1>2, CertificateFacts
<1>7. \A a \in Authorities :
        new(a) = last[a] \/ \E x \in C : Origin(x) = a /\ Round(x) = new(a)
  BY <1>2
<1> QED BY <1>3, <1>4, <1>5, <1>6, <1>7 DEF MovesOn

(* The certificates of a sub-dag. *)
Flattened(P, leader, last) == order_dag(P, leader, Certificates, last).certificates

(* order_dag takes the leader, only certificates that are neither collected   *)
(* nor committed, and with each one the parents that are neither.            *)
LEMMA OrderDag ==
    ASSUME NEW P \in Dags, NEW leader \in Certificates, NEW last \in LastRounds
    PROVE  LET C == Flattened(P, leader, last)
               gc == gc_round(Round(leader))
           IN  /\ \A d : order_dag(P, leader, d, last).certificates = C
               /\ C \subseteq Certificates /\ leader \in C
               /\ \A x \in C : /\ gc < Round(x) /\ Round(x) <= Round(leader)
                               /\ x = leader \/ Round(x) > last[Origin(x)]
               /\ \A x \in C : \A p \in ParentsOf(P, x) :
                    Round(p) <= gc \/ Round(p) <= last[Origin(p)] \/ p \in C
<1> DEFINE C == Flattened(P, leader, last)
           gc == gc_round(Round(leader))
           within == {p \in Certificates : Round(p) > last[Origin(p)]}
           level == search(P, leader, within)
           hi == Round(leader)
<1>1. /\ \A d : order_dag(P, leader, d, last).certificates = C
      /\ C = UNION {level[n] : n \in 0..(hi - gc - 1)}
  BY DEF Flattened, order_dag
<1>2. hi \in Nat /\ hi > 0 /\ gc \in Nat /\ gc < hi
  BY CertificateFacts, GcRound
<1>3. Levels(level, P, leader, within)
  <2>1. within \subseteq Certificates
    OBVIOUS
  <2> QED BY <2>1, SearchFacts
<1> HIDE DEF C, gc, level, hi
<1>4. \A n \in 0..(hi - gc - 1) : n \in 0..hi /\ n \in Nat
  BY <1>2
<1>5. \A n \in 0..(hi - gc - 1) : level[n] \subseteq Certificates
  BY <1>3, <1>4 DEF Levels, hi
<1>6. leader \in C
  <2>1. 0 \in 0..(hi - gc - 1)
    BY <1>2
  <2>2. leader \in level[0]
    BY <1>3 DEF Levels
  <2> QED BY Zenon, <1>1, <2>1, <2>2
<1>7. \A n \in 0..(hi - gc - 1) : \A x \in level[n] :
        /\ Round(x) = hi - n /\ gc < Round(x) /\ Round(x) <= hi
        /\ x = leader \/ Round(x) > last[Origin(x)]
  <2> TAKE n \in 0..(hi - gc - 1)
  <2> TAKE x \in level[n]
  <2>1. Round(x) = hi - n
    BY Zenon, <1>3, <1>4 DEF Levels, hi
  <2>2. CASE n = 0
    BY <1>2, <1>3, <2>1, <2>2 DEF Levels
  <2>3. CASE n # 0
    <3>1. n \in 1..Round(leader)
      BY <1>2, <1>4, <2>3 DEF hi
    <3>2. x \in within
      BY <1>3, <3>1 DEF Levels
    <3> QED BY <1>2, <1>4, <2>1, <3>2
  <2> QED BY <2>2, <2>3
<1>8. \A x \in C : \A p \in ParentsOf(P, x) :
        Round(p) <= gc \/ Round(p) <= last[Origin(p)] \/ p \in C
  <2> SUFFICES ASSUME NEW x \in C, NEW p \in ParentsOf(P, x), ~(Round(p) <= gc),
                      ~(Round(p) <= last[Origin(p)])
               PROVE  p \in C
    OBVIOUS
  <2>1. PICK n \in 0..(hi - gc - 1) : x \in level[n]
    BY <1>1
  <2>2. x \in Certificates /\ Round(x) = hi - n /\ n \in Nat
    BY <1>4, <1>5, <1>7, <2>1
  <2>3. Round(p) = Round(x) - 1 /\ Round(p) \in Nat /\ Origin(p) \in Authorities
    BY <2>2, ParentFacts
  <2>4. last[Origin(p)] \in Nat
    BY <2>3, TuskAssumption DEF LastRounds
  <2>5. Round(x) > 1 /\ n + 1 \in 0..(hi - gc - 1) /\ n < hi
    BY <1>2, <2>2, <2>3
  <2>6. p \in within
    BY <2>2, <2>3, <2>4, <2>5, ParentFacts
  <2>7. p \in level[n + 1]
    <3> HIDE DEF within
    <3> QED BY <1>2, <1>3, <2>1, <2>2, <2>5, <2>6, NextLevel DEF hi
  <2> QED BY Zenon, <1>1, <2>5, <2>7
<1>9. C \subseteq Certificates
  BY <1>1, <1>5
<1>10. \A x \in C : gc < Round(x) /\ Round(x) <= hi /\ (x = leader \/ Round(x) > last[Origin(x)])
  BY <1>1, <1>7
<1> QED BY Zenon, <1>1, <1>6, <1>8, <1>9, <1>10 DEF C, gc, hi

(* order_dag finds every parent that it looks up in a DAG that is closed      *)
(* above the collected rounds.                                               *)
LEMMA OrderDagComplete ==
    ASSUME NEW P \in Dags, NEW d, NEW g \in Nat, ClosedAbove(P, d, g),
           NEW leader \in d, g <= gc_round(Round(leader)), NEW last \in LastRounds
    PROVE  order_dag(P, leader, d, last).complete = TRUE
<1> DEFINE gc == gc_round(Round(leader))
           within == {p \in Certificates : Round(p) > last[Origin(p)]}
           level == search(P, leader, within)
           hi == Round(leader)
           C == UNION {level[n] : n \in 0..(hi - gc - 1)}
<1>1. order_dag(P, leader, d, last).complete
        = \A x \in C : Round(x) = gc + 1 \/ ParentsOf(P, x) \subseteq d
  BY Zenon DEF order_dag
<1>2. leader \in Certificates /\ hi \in Nat /\ hi > 0 /\ gc \in Nat /\ gc < hi /\ g <= gc
  BY CertificateFacts, GcRound DEF ClosedAbove
<1>3. within \subseteq Certificates
  OBVIOUS
<1>4. Levels(level, P, leader, within)
  <2> HIDE DEF within
  <2> QED BY <1>2, <1>3, SearchFacts
<1>5. SUFFICES ASSUME NEW n \in 0..(hi - gc - 1), NEW x \in level[n], Round(x) # gc + 1
               PROVE  ParentsOf(P, x) \subseteq d
  BY Zenon, <1>1
<1> HIDE DEF within, gc
<1>6. n \in 0..hi /\ n \in Nat /\ n + g < hi /\ n + gc < hi
  BY <1>2
<1>7. x \in d
  BY <1>2, <1>3, <1>6, SearchWithin
<1> HIDE DEF level, hi
<1>8. Round(x) = hi - n
  BY Zenon, <1>4, <1>6 DEF Levels, hi
<1>9. Round(x) > g + 1
  <2>1. hi - n # gc + 1
    BY <1>5, <1>8
  <2>2. hi - n > g + 1
    BY <1>2, <1>6, <2>1
  <2> QED BY <1>8, <2>2
<1> QED BY <1>7, <1>9 DEF ClosedAbove

------------------------------------------------------------------------------
(* The loop that commits *)

CommitStates ==
    [dag : SUBSET Certificates, last : LastRounds, sub_dags : Seq(SubDags),
     complete : BOOLEAN]

(* What committing one leader does to the state. *)
LEMMA CommitLeader ==
    ASSUME NEW P \in Dags, NEW leader \in Certificates, NEW s \in CommitStates
    PROVE  /\ commit_leader(P, leader, s) \in CommitStates
           /\ commit_leader(P, leader, s).last
                = updated(s.last, Flattened(P, leader, s.last))
           /\ commit_leader(P, leader, s).sub_dags
                = Append(s.sub_dags, [leader |-> leader,
                                      certificates |-> Flattened(P, leader, s.last)])
           /\ commit_leader(P, leader, s).dag
                = purge(s.dag, updated(s.last, Flattened(P, leader, s.last)))
           /\ commit_leader(P, leader, s).complete
                = (s.complete /\ order_dag(P, leader, s.dag, s.last).complete)
<1> DEFINE C == Flattened(P, leader, s.last)
           after == updated(s.last, C)
           found == order_dag(P, leader, s.dag, s.last).complete
           t == commit_leader(P, leader, s)
<1>1. s.last \in LastRounds /\ s.dag \subseteq Certificates /\ s.sub_dags \in Seq(SubDags)
  BY DEF CommitStates
<1>2. order_dag(P, leader, s.dag, s.last).certificates = C /\ C \subseteq Certificates
  BY <1>1, OrderDag
<1>3. t = [dag |-> purge(s.dag, after), last |-> after,
           sub_dags |-> Append(s.sub_dags, [leader |-> leader, certificates |-> C]),
           complete |-> s.complete /\ found]
  BY Zenon, <1>2 DEF commit_leader
<1>4. after \in LastRounds
  BY <1>1, <1>2, UpdatedFacts DEF MovesOn
<1> HIDE DEF C, after, found
<1>5. purge(s.dag, after) \subseteq Certificates
  BY <1>1 DEF purge
<1>6. [leader |-> leader, certificates |-> C] \in SubDags
  BY <1>2 DEF SubDags
<1>7. Append(s.sub_dags, [leader |-> leader, certificates |-> C]) \in Seq(SubDags)
  BY <1>1, <1>6
<1>8. (s.complete /\ found) \in BOOLEAN
  OBVIOUS
<1>9. t \in CommitStates
  BY <1>3, <1>4, <1>5, <1>7, <1>8 DEF CommitStates
<1> HIDE DEF t
<1>10. /\ t.last = after /\ t.dag = purge(s.dag, after)
       /\ t.sub_dags = Append(s.sub_dags, [leader |-> leader, certificates |-> C])
  BY <1>3
<1>11. t.complete = (s.complete /\ found)
  BY Zenon, <1>3
<1> QED BY Zenon, <1>9, <1>10, <1>11 DEF C, after, found, t

(* The state of the loop after each round. *)
RoundsOf(state, P, leaders, d, last) ==
    /\ state \in [0..MaxRound -> CommitStates]
    /\ state[0] = [dag |-> d, last |-> last, sub_dags |-> <<>>, complete |-> TRUE]
    /\ \A r \in 1..MaxRound :
        state[r] = IF LeaderCertificate(r) \in leaders
                   THEN commit_leader(P, LeaderCertificate(r), state[r - 1])
                   ELSE state[r - 1]

(* The loop of process_certificate. *)
LEMMA CommitRounds ==
    ASSUME NEW P \in Dags, NEW leaders, leaders \subseteq Certificates,
           NEW d, d \subseteq Certificates, NEW last \in LastRounds
    PROVE  RoundsOf(commit_rounds(P, leaders, d, last), P, leaders, d, last)
<1> DEFINE base == [dag |-> d, last |-> last, sub_dags |-> <<>>, complete |-> TRUE]
           next(r, s) == IF LeaderCertificate(r) \in leaders
                         THEN commit_leader(P, LeaderCertificate(r), s) ELSE s
           state == CHOOSE f : f = [r \in 0..MaxRound |->
                                      IF r = 0 THEN base ELSE next(r, f[r - 1])]
           G == [r \in Nat |-> [s \in CommitStates |-> next(r, s)]]
<1>1. commit_rounds(P, leaders, d, last) = state
  BY Zenon DEF commit_rounds
<1>2. MaxRound \in Nat
  BY TuskAssumption
<1>3. base \in CommitStates
  <2>1. <<>> \in Seq(SubDags)
    OBVIOUS
  <2> QED BY <2>1 DEF CommitStates
<1>4. \A r \in Nat : \A s \in CommitStates : next(r, s) \in CommitStates
  BY Zenon, CommitLeader
<1> HIDE DEF base, next
<1>5. G \in [Nat -> [CommitStates -> CommitStates]]
  BY <1>4
<1>6. \E f \in [0..MaxRound -> CommitStates] :
        f = [r \in 0..MaxRound |-> IF r = 0 THEN base ELSE next(r, f[r - 1])]
  <2>1. PICK f \in [0..MaxRound -> CommitStates] :
          f = [r \in 0..MaxRound |-> IF r = 0 THEN base ELSE G[r][f[r - 1]]]
    <3> HIDE DEF G
    <3>1. \E f \in [0..MaxRound -> CommitStates] : Recursion(f, 0, MaxRound, base, G)
      BY <1>2, <1>3, <1>5, IntervalRecursion
    <3> QED BY Zenon, <3>1 DEF Recursion
  <2>2. \A r \in 0..MaxRound : r # 0 => G[r][f[r - 1]] = next(r, f[r - 1])
    <3> TAKE r \in 0..MaxRound
    <3> QED BY <1>2
  <2>3. \A r \in 0..MaxRound : f[r] = IF r = 0 THEN base ELSE next(r, f[r - 1])
    <3> HIDE DEF G
    <3> QED BY Zenon, <2>1, <2>2
  <2>4. f = [r \in 0..MaxRound |-> IF r = 0 THEN base ELSE next(r, f[r - 1])]
    <3> HIDE DEF G
    <3> QED BY <2>3
  <2> QED BY Zenon, <2>4
<1>7. state = [r \in 0..MaxRound |-> IF r = 0 THEN base ELSE next(r, state[r - 1])]
  BY Zenon, <1>6
<1> HIDE DEF state
<1>8. state[0] = base
  BY <1>2, <1>7
<1>9. \A r \in 1..MaxRound : state[r] = next(r, state[r - 1])
  <2>1. \A r \in 1..MaxRound : r \in 0..MaxRound /\ r # 0
    BY <1>2
  <2> QED BY Zenon, <1>7, <2>1
<1>10. state \in [0..MaxRound -> CommitStates]
  <2> DEFINE Q == {r \in Nat : r \in 0..MaxRound => state[r] \in CommitStates}
  <2>1. 0 \in Q
    BY <1>3, <1>8
  <2>2. \A r \in 0..MaxRound : r > 0 /\ r - 1 \in Q => r \in Q
    <3> SUFFICES ASSUME NEW r \in 0..MaxRound, r > 0, r - 1 \in Q
                 PROVE  state[r] \in CommitStates
      BY <1>2
    <3>1. r \in 1..MaxRound /\ r - 1 \in 0..MaxRound /\ r \in Nat
      BY <1>2
    <3> QED BY <1>4, <1>9, <3>1
  <2>3. 0..MaxRound \subseteq Q
    <3> HIDE DEF Q
    <3> QED BY <1>2, <2>1, <2>2, IntervalInduction
  <2> QED BY <1>7, <2>3
<1> QED BY Zenon, <1>1, <1>8, <1>9, <1>10 DEF RoundsOf, base, next

------------------------------------------------------------------------------
(* What the loop keeps *)

(* The certificates of the sub-dags before the i-th, and of all of them. *)
Before(sub_dags, i) == UNION {sub_dags[j].certificates : j \in 1..(i - 1)}
Flat(sub_dags) == Before(sub_dags, Len(sub_dags) + 1)

(* A sub-dag is causal after the certificates committed before. *)
CausalAfter(P, sub_dag, before) ==
    /\ sub_dag.certificates \cap before = {}
    /\ \A x \in sub_dag.certificates : \A p \in ParentsOf(P, x) :
        \/ p \in sub_dag.certificates \cup before
        \/ Round(p) <= gc_round(Round(sub_dag.leader))
        \/ \E q \in before : Origin(q) = Origin(p) /\ Round(q) > Round(p)

LEMMA CausalIs ==
    ASSUME NEW P, NEW sub_dags
    PROVE  Causal(P, sub_dags)
             <=> \A i \in DOMAIN sub_dags : CausalAfter(P, sub_dags[i], Before(sub_dags, i))
BY Zenon DEF Causal, CausalAfter, Before

(* A sub-dag that is appended comes after all others, and changes nothing     *)
(* for them.                                                                 *)
Appended(new, sub_dags, e) ==
    /\ Len(new) = Len(sub_dags) + 1 /\ Len(sub_dags) \in Nat
    /\ DOMAIN new = 1..(Len(sub_dags) + 1) /\ DOMAIN sub_dags = 1..Len(sub_dags)
    /\ new[Len(sub_dags) + 1] = e
    /\ \A i \in 1..Len(sub_dags) : new[i] = sub_dags[i]
    /\ \A i \in 1..(Len(sub_dags) + 1) : Before(new, i) = Before(sub_dags, i)
    /\ Flat(new) = Flat(sub_dags) \cup e.certificates

LEMMA AppendedSubDag ==
    ASSUME NEW sub_dags \in Seq(SubDags), NEW e \in SubDags
    PROVE  Appended(Append(sub_dags, e), sub_dags, e)
<1> DEFINE new == Append(sub_dags, e)
           n == Len(sub_dags)
<1>1. /\ Len(new) = n + 1 /\ n \in Nat /\ DOMAIN new = 1..(n + 1) /\ DOMAIN sub_dags = 1..n
      /\ new[n + 1] = e /\ \A i \in 1..n : new[i] = sub_dags[i]
  OBVIOUS
<1> HIDE DEF new, n
<1>2. \A i \in 1..(n + 1) : \A j \in 1..(i - 1) : new[j] = sub_dags[j]
  BY <1>1
<1>3. \A i \in 1..(n + 1) : Before(new, i) = Before(sub_dags, i)
  BY <1>2 DEF Before
<1>4. Flat(new) = Flat(sub_dags) \cup e.certificates
  <2>1. n + 1 + 1 - 1 = n + 1 /\ n + 1 - 1 = n
    BY <1>1
  <2>2. /\ Flat(new) = UNION {new[j].certificates : j \in 1..(n + 1)}
        /\ Flat(sub_dags) = UNION {sub_dags[j].certificates : j \in 1..n}
    BY <1>1, <2>1 DEF Flat, Before, n
  <2>3. 1..(n + 1) = (1..n) \cup {n + 1}
    BY <1>1
  <2> QED BY <1>1, <2>2, <2>3
<1> QED BY Zenon, <1>1, <1>3, <1>4 DEF Appended, new, n

(* The sub-dags are causal, the last committed rounds are the greatest        *)
(* committed ones, and the last sub-dag has the committed round.             *)
Sound(P, s) ==
    /\ s \in CommitStates
    /\ Causal(P, s.sub_dags)
    /\ \A x \in Flat(s.sub_dags) : Round(x) <= s.last[Origin(x)]
    /\ \A a \in Authorities :
        s.last[a] = 0 \/ \E x \in Flat(s.sub_dags) : Origin(x) = a /\ Round(x) = s.last[a]
    /\ IF s.sub_dags = <<>> THEN committed_round(s.last) = 0
       ELSE Round(s.sub_dags[Len(s.sub_dags)].leader) = committed_round(s.last)

(* A leader commits its round. *)
LEMMA CommitsRound ==
    ASSUME NEW P \in Dags, NEW leader \in Certificates, NEW last \in LastRounds,
           committed_round(last) < Round(leader)
    PROVE  committed_round(updated(last, Flattened(P, leader, last))) = Round(leader)
<1> DEFINE C == Flattened(P, leader, last)
           after == updated(last, C)
           m == committed_round(last)
<1>1. /\ C \subseteq Certificates /\ leader \in C
      /\ \A x \in C : Round(x) <= Round(leader)
  BY Zenon, OrderDag
<1>2. /\ after \in LastRounds
      /\ Round(leader) <= after[Origin(leader)]
      /\ \A a \in Authorities :
            after[a] = last[a] \/ \E x \in C : Origin(x) = a /\ Round(x) = after[a]
  BY <1>1, UpdatedFacts DEF MovesOn
<1>3. /\ m \in Nat /\ \A a \in Authorities : last[a] <= m
  BY CommittedRound
<1>4. Round(leader) \in Nat /\ Origin(leader) \in Authorities
  BY CertificateFacts
<1> HIDE DEF C, after, m
<1>5. \A a \in Authorities : after[a] <= Round(leader)
  <2> TAKE a \in Authorities
  <2>1. after[a] \in Nat /\ last[a] \in Nat
    BY <1>2, TuskAssumption DEF LastRounds
  <2>2. CASE after[a] = last[a]
    BY <1>3, <1>4, <2>1, <2>2 DEF m
  <2>3. CASE \E x \in C : Origin(x) = a /\ Round(x) = after[a]
    BY <1>1, <2>3
  <2> QED BY <1>2, <2>2, <2>3
<1>6. /\ committed_round(after) \in Nat
      /\ \A a \in Authorities : after[a] <= committed_round(after)
      /\ \E a \in Authorities : after[a] = committed_round(after)
  BY <1>2, CommittedRound
<1>7. committed_round(after) <= Round(leader)
  BY <1>5, <1>6
<1>8. after[Origin(leader)] <= committed_round(after) /\ after[Origin(leader)] \in Nat
  BY <1>2, <1>4, <1>6, TuskAssumption DEF LastRounds
<1>9. committed_round(after) = Round(leader)
  BY <1>2, <1>4, <1>6, <1>7, <1>8
<1> QED BY <1>9 DEF after, C

(* Committing a leader above the committed round keeps this. *)
LEMMA CommitSound ==
    ASSUME NEW P \in Dags, NEW leader \in Certificates, NEW s, Sound(P, s),
           committed_round(s.last) < Round(leader)
    PROVE  /\ Sound(P, commit_leader(P, leader, s))
           /\ committed_round(commit_leader(P, leader, s).last) = Round(leader)
<1> DEFINE t == commit_leader(P, leader, s)
           C == Flattened(P, leader, s.last)
           e == [leader |-> leader, certificates |-> C]
           gc == gc_round(Round(leader))
           old == Flat(s.sub_dags)
<1>1. s \in CommitStates /\ s.last \in LastRounds /\ s.sub_dags \in Seq(SubDags)
  BY DEF Sound, CommitStates
<1>2. /\ t \in CommitStates /\ t.last = updated(s.last, C)
      /\ t.sub_dags = Append(s.sub_dags, e)
  BY <1>1, CommitLeader
<1>3. /\ C \subseteq Certificates /\ leader \in C
      /\ \A x \in C : /\ gc < Round(x) /\ Round(x) <= Round(leader)
                      /\ x = leader \/ Round(x) > s.last[Origin(x)]
      /\ \A x \in C : \A p \in ParentsOf(P, x) :
            Round(p) <= gc \/ Round(p) <= s.last[Origin(p)] \/ p \in C
  BY Zenon, <1>1, OrderDag
<1>4. MovesOn(t.last, s.last, C)
  BY <1>1, <1>2, <1>3, UpdatedFacts
<1>5. committed_round(t.last) = Round(leader)
  BY <1>1, <1>2, CommitsRound
<1>6. e \in SubDags /\ e.leader = leader /\ e.certificates = C
  BY <1>3 DEF SubDags
<1>7. Appended(t.sub_dags, s.sub_dags, e)
  <2> HIDE DEF e
  <2> QED BY <1>1, <1>2, <1>6, AppendedSubDag
<1>8. /\ \A x \in old : Round(x) <= s.last[Origin(x)]
      /\ \A a \in Authorities :
            s.last[a] = 0 \/ \E x \in old : Origin(x) = a /\ Round(x) = s.last[a]
      /\ \A i \in DOMAIN s.sub_dags :
            CausalAfter(P, s.sub_dags[i], Before(s.sub_dags, i))
  BY Zenon, CausalIs DEF Sound
<1>9. old \subseteq Certificates
  <2>1. \A j \in 1..Len(s.sub_dags) : s.sub_dags[j] \in SubDags
    BY <1>1
  <2>2. \A j \in 1..Len(s.sub_dags) : s.sub_dags[j].certificates \subseteq Certificates
    BY <2>1 DEF SubDags
  <2>3. Len(s.sub_dags) + 1 - 1 = Len(s.sub_dags)
    BY <1>1
  <2> QED BY <2>2, <2>3 DEF Flat, Before
<1> HIDE DEF t, C, e, gc, old
<1>10. \A x \in C : Round(x) > s.last[Origin(x)]
  <2>1. s.last[Origin(leader)] <= committed_round(s.last)
        /\ s.last[Origin(leader)] \in Nat /\ committed_round(s.last) \in Nat
        /\ Round(leader) \in Nat
    BY <1>1, CertificateFacts, CommittedRound, TuskAssumption DEF LastRounds
  <2>2. Round(leader) > s.last[Origin(leader)]
    BY <2>1
  <2> QED BY Zenon, <1>3, <2>2
<1>11. CausalAfter(P, e, old)
  <2>1. C \cap old = {}
    <3> SUFFICES ASSUME NEW x \in C, x \in old PROVE FALSE
      OBVIOUS
    <3>1. Round(x) > s.last[Origin(x)] /\ Round(x) <= s.last[Origin(x)]
      BY Zenon, <1>8, <1>10
    <3>2. Round(x) \in Nat /\ s.last[Origin(x)] \in Nat
      BY <1>1, <1>3, CertificateFacts, TuskAssumption DEF LastRounds
    <3> QED BY <3>1, <3>2
  <2>2. ASSUME NEW x \in C, NEW p \in ParentsOf(P, x)
        PROVE  p \in C \cup old \/ Round(p) <= gc
               \/ \E q \in old : Origin(q) = Origin(p) /\ Round(q) > Round(p)
    <3>1. CASE Round(p) <= gc \/ p \in C
      BY <3>1
    <3>2. CASE ~(Round(p) <= gc \/ p \in C)
      <4>1. Round(p) <= s.last[Origin(p)]
        BY Zenon, <1>3, <2>2, <3>2
      <4>2. /\ Round(p) \in Nat /\ Origin(p) \in Authorities /\ p = <<Round(p), Origin(p)>>
            /\ gc \in Nat /\ s.last[Origin(p)] \in Nat
        <5>1. Round(p) \in Nat /\ Origin(p) \in Authorities /\ p = <<Round(p), Origin(p)>>
          BY Zenon, <1>3, <2>2, ParentFacts
        <5>2. gc \in Nat
          BY CertificateFacts, GcRound DEF gc
        <5>3. s.last[Origin(p)] \in Nat
          BY <1>1, <5>1, TuskAssumption DEF LastRounds
        <5> QED BY <5>1, <5>2, <5>3
      <4>3. s.last[Origin(p)] # 0
        BY <3>2, <4>1, <4>2
      <4>4. PICK q \in old : Origin(q) = Origin(p) /\ Round(q) = s.last[Origin(p)]
        BY Zenon, <1>8, <4>2, <4>3
      <4>5. q = <<Round(q), Origin(q)>> /\ Round(q) \in Nat
        BY <1>9, CertificateFacts
      <4>6. CASE Round(q) = Round(p)
        BY Zenon, <4>2, <4>4, <4>5, <4>6
      <4>7. CASE Round(q) # Round(p)
        <5>1. Round(q) > Round(p)
          BY <4>1, <4>2, <4>4, <4>5, <4>7
        <5> QED BY <4>4, <5>1
      <4> QED BY <4>6, <4>7
    <3> QED BY <3>1, <3>2
  <2> QED BY Zenon, <1>6, <2>1, <2>2 DEF CausalAfter, gc
<1>12. Causal(P, t.sub_dags)
  <2>1. ASSUME NEW i \in 1..(Len(s.sub_dags) + 1)
        PROVE  CausalAfter(P, t.sub_dags[i], Before(t.sub_dags, i))
    <3>1. CASE i = Len(s.sub_dags) + 1
      BY Zenon, <1>7, <1>11, <3>1 DEF old, Flat, Appended
    <3>2. CASE i # Len(s.sub_dags) + 1
      <4>1. i \in 1..Len(s.sub_dags)
        BY <1>7, <3>2 DEF Appended
      <4> QED BY Zenon, <1>7, <1>8, <2>1, <4>1 DEF Appended
    <3> QED BY <3>1, <3>2
  <2> QED BY Zenon, <1>7, <2>1, CausalIs DEF Appended
<1>13. \A x \in old \cup C : Round(x) <= t.last[Origin(x)]
  <2> SUFFICES ASSUME NEW x \in old PROVE Round(x) <= t.last[Origin(x)]
    BY Zenon, <1>4 DEF MovesOn
  <2>1. Origin(x) \in Authorities /\ Round(x) \in Nat
    BY <1>9, CertificateFacts
  <2>2. s.last[Origin(x)] \in Nat /\ t.last[Origin(x)] \in Nat
    BY <1>1, <1>4, <2>1, TuskAssumption DEF LastRounds, MovesOn
  <2>3. Round(x) <= s.last[Origin(x)] /\ s.last[Origin(x)] <= t.last[Origin(x)]
    BY Zenon, <1>4, <1>8, <2>1 DEF MovesOn
  <2> QED BY <2>1, <2>2, <2>3
<1>14. \A a \in Authorities :
        t.last[a] = 0 \/ \E x \in old \cup C : Origin(x) = a /\ Round(x) = t.last[a]
  BY Zenon, <1>4, <1>8 DEF MovesOn
<1>15. t.sub_dags # <<>> /\ Round(t.sub_dags[Len(t.sub_dags)].leader) = Round(leader)
  <2>1. Len(t.sub_dags) # 0 /\ t.sub_dags[Len(t.sub_dags)] = e
    BY <1>7 DEF Appended
  <2> QED BY <1>6, <2>1
<1>16. Sound(P, t)
  <2>1. Flat(t.sub_dags) = old \cup C
    BY Zenon, <1>6, <1>7 DEF Appended, old
  <2> QED BY Zenon, <1>2, <1>5, <1>12, <1>13, <1>14, <1>15, <2>1 DEF Sound
<1> QED BY Zenon, <1>5, <1>16 DEF t

===============================================================================
