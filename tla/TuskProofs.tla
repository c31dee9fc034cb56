------------------------------ MODULE TuskProofs ------------------------------
(***************************************************************************)
(* Whatever the committee, the DAG, the order of arrival, the garbage      *)
(* collection depth and the crashes, a validator commits the first         *)
(* sub-dags of the one sequence that the DAG determines, and never fails.  *)
(***************************************************************************)
EXTENDS TuskCommitProofs

------------------------------------------------------------------------------
(* The history of a DAG *)

Zero == [a \in Authorities |-> 0]

(* The state of a validator that has committed the chain up to round k. *)
Reached(P, k, s) ==
    /\ Sound(P, s)
    /\ committed_round(s.last) <= k /\ committed_round(s.last) % 2 = 0
    /\ \A x \in Chain(P) : Round(x) <= k => Round(x) <= committed_round(s.last)

LEMMA HistoryRounds ==
    ASSUME NEW P \in Dags
    PROVE  RoundsOf(History(P), P, Chain(P), Certificates, Zero)
<1>1. Zero \in LastRounds
  BY TuskAssumption DEF Zero, LastRounds
<1>2. Chain(P) \subseteq Certificates
  BY ChainFacts
<1> QED BY <1>1, <1>2, CommitRounds DEF History, Zero

(* The history is sound, and at round k it has committed the last leader of   *)
(* the chain up to k.                                                        *)
LEMMA HistoryReached ==
    ASSUME NEW P \in Dags, NEW k \in 0..MaxRound
    PROVE  Reached(P, k, History(P)[k])
<1> DEFINE H == History(P)
           Q == {n \in Nat : n \in 0..MaxRound => Reached(P, n, H[n])}
<1>0. MaxRound \in Nat
  BY TuskAssumption
<1>1. RoundsOf(H, P, Chain(P), Certificates, Zero)
  BY HistoryRounds
<1> HIDE DEF H
<1>2. 0 \in Q
  <2> DEFINE s == H[0]
  <2>1. /\ s = [dag |-> Certificates, last |-> Zero, sub_dags |-> <<>>, complete |-> TRUE]
        /\ s \in CommitStates
    <3>1. 0 \in 0..MaxRound
      BY <1>0
    <3> QED BY Zenon, <1>1, <3>1 DEF RoundsOf
  <2>2. s.last = Zero /\ s.sub_dags = <<>>
    BY <2>1
  <2> HIDE DEF s
  <2>3. Zero \in LastRounds /\ \A a \in Authorities : Zero[a] = 0
    BY TuskAssumption DEF Zero, LastRounds
  <2>4. committed_round(Zero) = 0
    BY <2>3, CommittedRound
  <2>5. DOMAIN s.sub_dags = {} /\ Flat(s.sub_dags) = {}
    <3>1. Len(s.sub_dags) = 0 /\ DOMAIN s.sub_dags = {}
      BY <2>2
    <3> QED BY <3>1 DEF Flat, Before
  <2>6. Causal(P, s.sub_dags)
    BY <2>5, CausalIs
  <2>7. Sound(P, s)
    BY Zenon, <2>1, <2>2, <2>3, <2>4, <2>5, <2>6 DEF Sound
  <2>8. \A x \in Chain(P) : ~(Round(x) <= 0)
    BY ChainFacts
  <2>9. committed_round(s.last) = 0
    BY <2>2, <2>4
  <2>10. Reached(P, 0, s)
    BY <2>7, <2>8, <2>9 DEF Reached
  <2> QED BY <2>10 DEF s
<1>3. \A n \in 0..MaxRound : n > 0 /\ n - 1 \in Q => n \in Q
  <2> SUFFICES ASSUME NEW n \in 0..MaxRound, n > 0, n - 1 \in Q
               PROVE  Reached(P, n, H[n])
    BY <1>0
  <2> DEFINE s == H[n - 1]
             m == committed_round(s.last)
             leader == LeaderCertificate(n)
  <2>1. n \in 1..MaxRound /\ n - 1 \in 0..MaxRound /\ n \in Nat
    BY <1>0
  <2>2. Reached(P, n - 1, s)
    BY <2>1
  <2>3. H[n] = IF leader \in Chain(P) THEN commit_leader(P, leader, s) ELSE s
    BY Zenon, <1>1, <2>1 DEF RoundsOf
  <2>4. leader \in Certificates /\ Round(leader) = n
    BY <2>1, LeaderFacts
  <2>5. m \in Nat /\ m <= n - 1 /\ m % 2 = 0 /\ Sound(P, s)
    <3>1. s.last \in LastRounds
      BY <2>2 DEF Reached, Sound, CommitStates
    <3> QED BY <2>2, <3>1, CommittedRound DEF Reached
  <2> HIDE DEF s, m, leader
  <2>6. CASE leader \in Chain(P)
    <3> DEFINE t == commit_leader(P, leader, s)
    <3>1. m < Round(leader)
      BY <2>1, <2>4, <2>5
    <3>2. Sound(P, t) /\ committed_round(t.last) = n
      BY <2>4, <2>5, <3>1, CommitSound DEF m
    <3>3. n % 2 = 0
      BY <2>4, <2>6, ChainFacts
    <3> HIDE DEF t
    <3>4. Reached(P, n, t)
      BY <2>1, <3>2, <3>3 DEF Reached
    <3> QED BY <2>3, <2>6, <3>4 DEF t
  <2>7. CASE leader \notin Chain(P)
    <3>1. \A x \in Chain(P) : Round(x) <= n => Round(x) <= n - 1
      <4> SUFFICES ASSUME NEW x \in Chain(P), Round(x) = n PROVE FALSE
        BY <2>1, ChainFacts
      <4> QED BY Zenon, <2>7, ChainFacts DEF leader
    <3>2. \A x \in Chain(P) : Round(x) <= n => Round(x) <= m
      BY Zenon, <2>2, <3>1 DEF Reached, m
    <3>3. m <= n
      BY <2>1, <2>5
    <3>4. Reached(P, n, s)
      BY Zenon, <2>5, <3>2, <3>3 DEF Reached, m
    <3> QED BY <2>3, <2>7, <3>4
  <2> QED BY <2>6, <2>7
<1>4. 0..MaxRound \subseteq Q
  <2> HIDE DEF Q
  <2> QED BY <1>0, <1>2, <1>3, IntervalInduction
<1> QED BY <1>4 DEF H

(* The certificates above the collected rounds. *)
Above(known, last) == {c \in known : Round(c) > gc_round(committed_round(last))}

(* What is closed above a round is closed above a later one, and so is what   *)
(* of it lies above that one.                                                *)
LEMMA ClosedFurther ==
    ASSUME NEW P \in Dags, NEW known, NEW g \in Nat, NEW h \in Nat, g <= h,
           ClosedAbove(P, known, g)
    PROVE  /\ ClosedAbove(P, known, h)
           /\ ClosedAbove(P, {c \in known : Round(c) > h}, h)
<1> DEFINE d == {c \in known : Round(c) > h}
<1>1. known \subseteq Certificates /\ d \subseteq known
  BY DEF ClosedAbove
<1>2. ASSUME NEW c \in known, Round(c) > h + 1
      PROVE  ParentsOf(P, c) \subseteq known /\ ParentsOf(P, c) \subseteq d
  <2>1. c \in Certificates /\ Round(c) \in Nat
    BY <1>1, CertificateFacts
  <2>2. Round(c) > g + 1
    BY <1>2, <2>1
  <2>3. ParentsOf(P, c) \subseteq known
    BY <2>2 DEF ClosedAbove
  <2>4. \A p \in ParentsOf(P, c) : Round(p) = Round(c) - 1
    BY <2>1, ParentFacts
  <2>5. \A p \in ParentsOf(P, c) : Round(p) > h
    BY <1>2, <2>1, <2>4
  <2> QED BY <2>3, <2>5
<1> HIDE DEF d
<1>3. ClosedAbove(P, known, h)
  BY <1>1, <1>2 DEF ClosedAbove
<1>4. ClosedAbove(P, d, h)
  BY <1>1, <1>2 DEF ClosedAbove
<1> QED BY <1>3, <1>4 DEF d

(* Appending to the end of a concatenation. *)
LEMMA AppendConcat ==
    ASSUME NEW u \in Seq(SubDags), NEW v \in Seq(SubDags), NEW e \in SubDags
    PROVE  Append(u \o v, e) = u \o Append(v, e)
OBVIOUS

(* The loop over the leaders of the chain in (k, n], from what the history    *)
(* has at k and from a DAG that is closed, reaches what it has at n, with    *)
(* the DAG purged and every parent found.                                    *)
Continues(s, P, k, n, known) ==
    /\ s \in CommitStates
    /\ s.last = History(P)[n].last
    /\ History(P)[n].sub_dags = History(P)[k].sub_dags \o s.sub_dags
    /\ s.dag = Above(known, s.last)
    /\ s.complete = TRUE
    /\ committed_round(History(P)[k].last) <= committed_round(s.last)

LEMMA LoopFollowsHistory ==
    ASSUME NEW P \in Dags, NEW k \in 0..MaxRound, NEW n \in 0..MaxRound, k <= n,
           NEW known,
           ClosedAbove(P, known, gc_round(committed_round(History(P)[k].last))),
           {x \in Chain(P) : k < Round(x) /\ Round(x) <= n} \subseteq known
    PROVE  Continues(commit_leaders(P, {x \in Chain(P) : k < Round(x) /\ Round(x) <= n},
                                    Above(known, History(P)[k].last), History(P)[k].last),
                     P, k, n, known)
<1> DEFINE H == History(P)
           L == {x \in Chain(P) : k < Round(x) /\ Round(x) <= n}
           d == Above(known, H[k].last)
           run == commit_rounds(P, L, d, H[k].last)
           \* the round of the history that the loop has reached after round j
           at(j) == IF j < k THEN k ELSE IF j > n THEN n ELSE j
           Follows(s, h) == /\ s.last = h.last
                            /\ h.sub_dags = H[k].sub_dags \o s.sub_dags
                            /\ s.dag = Above(known, s.last)
                            /\ s.complete = TRUE
                            /\ committed_round(H[k].last) <= committed_round(s.last)
           Q == {j \in Nat : j \in 0..MaxRound => Follows(run[j], H[at(j)])}
<1>0. MaxRound \in Nat /\ k \in Nat /\ n \in Nat
  BY TuskAssumption
<1>1. RoundsOf(H, P, Chain(P), Certificates, Zero)
  BY HistoryRounds
<1>2. \A j \in 0..MaxRound : Reached(P, j, H[j])
  BY HistoryReached
<1>3. \A j \in 0..MaxRound : H[j] \in CommitStates /\ H[j].last \in LastRounds
                             /\ H[j].sub_dags \in Seq(SubDags)
  BY <1>1 DEF RoundsOf, CommitStates
<1>4. L \subseteq Certificates /\ d \subseteq Certificates
  BY ChainFacts DEF Above, ClosedAbove
<1>5. RoundsOf(run, P, L, d, H[k].last)
  <2> HIDE DEF L, d, H
  <2> QED BY <1>3, <1>4, CommitRounds
<1>6. ClosedAbove(P, known, gc_round(committed_round(H[k].last))) /\ L \subseteq known
  OBVIOUS
<1> HIDE DEF H, run
<1>7. 0 \in Q
  <2>1. run[0] = [dag |-> d, last |-> H[k].last, sub_dags |-> <<>>, complete |-> TRUE]
    BY Zenon, <1>5 DEF RoundsOf
  <2>2. H[k].sub_dags = H[k].sub_dags \o <<>>
    BY <1>3
  <2>3. at(0) = k
    BY <1>0
  <2> HIDE DEF at
  <2>4. run[0].last = H[k].last /\ run[0].sub_dags = <<>> /\ run[0].dag = d
        /\ run[0].complete = TRUE
    BY <2>1
  <2>5. committed_round(H[k].last) \in Nat
    BY <1>3, CommittedRound
  <2>6. committed_round(H[k].last) <= committed_round(run[0].last)
    BY <2>4, <2>5
  <2> QED BY Zenon, <2>2, <2>3, <2>4, <2>6, <1>0
<1>8. \A j \in 0..MaxRound : j > 0 /\ j - 1 \in Q => j \in Q
  <2> SUFFICES ASSUME NEW j \in 0..MaxRound, j > 0, j - 1 \in Q
               PROVE  Follows(run[j], H[at(j)])
    <3>1. \A j \in 0..MaxRound : j \in Nat
      BY <1>0
    <3> HIDE DEF Follows, at
    <3> QED BY <3>1
  <2> DEFINE leader == LeaderCertificate(j)
             s == run[j - 1]
  <2>1. j \in 1..MaxRound /\ j - 1 \in 0..MaxRound /\ j \in Nat
    BY <1>0
  <2>2. Follows(s, H[at(j - 1)])
    BY Zenon, <2>1
  <2>3. run[j] = IF leader \in L THEN commit_leader(P, leader, s) ELSE s
    BY Zenon, <1>5, <2>1 DEF RoundsOf
  <2>4. leader \in Certificates /\ Round(leader) = j
    BY Zenon, <2>1, LeaderFacts
  <2>5. CASE j <= k \/ j > n
    <3>1. leader \notin L
      BY <1>0, <2>1, <2>4, <2>5
    <3>2. at(j - 1) = at(j)
      BY <1>0, <2>1, <2>5
    <3> HIDE DEF Follows, at, L
    <3> QED BY Zenon, <2>2, <2>3, <3>1, <3>2
  <2>6. CASE ~(j <= k \/ j > n)
    <3>1. at(j) = j /\ at(j - 1) = j - 1
      BY <1>0, <2>1, <2>6
    <3> DEFINE h == H[j - 1]
    <3>2. H[j] = IF leader \in Chain(P) THEN commit_leader(P, leader, h) ELSE h
      BY Zenon, <1>1, <2>1 DEF RoundsOf
    <3>3. leader \in L <=> leader \in Chain(P)
      BY <1>0, <2>1, <2>4, <2>6
    <3>4. CASE leader \notin Chain(P)
      <4> HIDE DEF Follows, at, L, leader, s, h
      <4>1. run[j] = s /\ H[j] = h
        BY Zenon, <2>3, <3>2, <3>3, <3>4
      <4> QED BY Zenon, <2>2, <3>1, <4>1 DEF h
    <3>5. CASE leader \in Chain(P)
      <4> DEFINE C == Flattened(P, leader, h.last)
                 after == updated(h.last, C)
                 e == [leader |-> leader, certificates |-> C]
                 g == gc_round(committed_round(h.last))
      <4>1. run[j] = commit_leader(P, leader, s) /\ H[j] = commit_leader(P, leader, h)
        BY Zenon, <2>3, <3>2, <3>3, <3>5
      <4>2. /\ s.last = h.last /\ h.sub_dags = H[k].sub_dags \o s.sub_dags
            /\ s.dag = Above(known, h.last) /\ s.complete = TRUE
            /\ committed_round(H[k].last) <= committed_round(h.last)
        BY Zenon, <2>2, <3>1
      <4>3. /\ h \in CommitStates /\ h.last \in LastRounds /\ h.sub_dags \in Seq(SubDags)
            /\ s \in CommitStates /\ s.sub_dags \in Seq(SubDags)
        BY Zenon, <1>3, <1>5, <2>1 DEF RoundsOf, CommitStates
      <4>4. /\ committed_round(h.last) \in Nat /\ committed_round(h.last) <= j - 1
        BY Zenon, <1>2, <2>1, <4>3, CommittedRound DEF Reached
      <4>5. committed_round(after) = j
        <5>1. committed_round(h.last) < Round(leader)
          BY <2>1, <2>4, <4>4
        <5> HIDE DEF leader, h
        <5> QED BY <2>4, <4>3, <5>1, CommitsRound
      <4>6. /\ H[j].last = after /\ H[j].sub_dags = Append(h.sub_dags, e)
            /\ run[j].last = after /\ run[j].sub_dags = Append(s.sub_dags, e)
            /\ run[j].dag = purge(s.dag, after)
            /\ run[j].complete = (s.complete /\ order_dag(P, leader, s.dag, s.last).complete)
        <5> HIDE DEF leader, s, h
        <5>1. /\ commit_leader(P, leader, h).last = after
              /\ commit_leader(P, leader, h).sub_dags = Append(h.sub_dags, e)
          BY Zenon, <2>4, <4>3, CommitLeader
        <5>2. /\ commit_leader(P, leader, s).last = updated(s.last, Flattened(P, leader, s.last))
              /\ commit_leader(P, leader, s).sub_dags
                    = Append(s.sub_dags, [leader |-> leader,
                                          certificates |-> Flattened(P, leader, s.last)])
              /\ commit_leader(P, leader, s).dag
                    = purge(s.dag, updated(s.last, Flattened(P, leader, s.last)))
              /\ commit_leader(P, leader, s).complete
                    = (s.complete /\ order_dag(P, leader, s.dag, s.last).complete)
          BY <2>4, <4>3, CommitLeader
        <5>3. s.last = h.last
          BY Zenon, <4>2
        <5> QED BY Zenon, <4>1, <5>1, <5>2, <5>3
      <4>7. /\ committed_round(H[k].last) \in Nat /\ committed_round(H[k].last) <= j
            /\ gc_round(committed_round(H[k].last)) \in Nat
            /\ gc_round(committed_round(H[k].last)) <= g
            /\ g \in Nat /\ g <= gc_round(j) /\ g <= j - 1 /\ gc_round(j) \in Nat
        <5>1. committed_round(H[k].last) \in Nat
          BY <1>3, CommittedRound
        <5> DEFINE a == committed_round(H[k].last)
                   b == committed_round(h.last)
        <5>2. a \in Nat /\ b \in Nat /\ j \in Nat /\ a <= b /\ b <= j - 1
          BY Zenon, <2>1, <4>2, <4>4, <5>1
        <5> HIDE DEF a, b
        <5>3. a <= j /\ b <= j
          BY <5>2
        <5>4. /\ gc_round(a) \in Nat /\ gc_round(b) \in Nat /\ gc_round(j) \in Nat
              /\ gc_round(a) <= gc_round(b) /\ gc_round(b) <= gc_round(j) /\ gc_round(b) <= b
          BY Zenon, <5>2, <5>3, GcRound
        <5>5. gc_round(b) <= j - 1
          BY <5>2, <5>4
        <5> QED BY Zenon, <5>2, <5>3, <5>4, <5>5 DEF a, b
      <4>8. ClosedAbove(P, s.dag, g) /\ leader \in s.dag
        <5>1. s.dag = {c \in known : Round(c) > g}
          BY Zenon, <4>2 DEF Above
        <5> HIDE DEF g, s, h, leader, L
        <5>2. leader \in known /\ known \subseteq Certificates
          BY <1>6, <3>3, <3>5 DEF ClosedAbove
        <5>3. leader \in s.dag
          BY <2>1, <2>4, <4>7, <5>1, <5>2
        <5>4. ClosedAbove(P, s.dag, g)
          BY <1>6, <4>7, <5>1, ClosedFurther
        <5> QED BY <5>3, <5>4
      <4>9. order_dag(P, leader, s.dag, s.last).complete = TRUE
        <5> HIDE DEF g, s, h, leader
        <5> QED BY Zenon, <2>4, <4>2, <4>3, <4>7, <4>8, OrderDagComplete
      <4>10. purge(s.dag, after) = Above(known, after)
        <5>1. s.dag = {c \in known : Round(c) > g}
          BY Zenon, <4>2 DEF Above
        <5>2. /\ purge(s.dag, after) = {c \in s.dag : Round(c) > gc_round(j)}
              /\ Above(known, after) = {c \in known : Round(c) > gc_round(j)}
          BY Zenon, <4>5 DEF purge, Above
        <5>3. \A c \in known : Round(c) \in Nat
          BY <1>6, CertificateFacts DEF ClosedAbove
        <5> HIDE DEF g, s, after
        <5> QED BY <4>7, <5>1, <5>2, <5>3
      <4>11. Append(h.sub_dags, e) = H[k].sub_dags \o Append(s.sub_dags, e)
        <5>1. H[k].sub_dags \in Seq(SubDags)
          BY <1>3
        <5>2. C \subseteq Certificates
          BY Zenon, <2>4, <4>3, OrderDag
        <5>3. e \in SubDags
          BY Zenon, <2>4, <5>2 DEF SubDags
        <5> HIDE DEF e, s, h
        <5>4. s.sub_dags \in Seq(SubDags) /\ h.sub_dags = H[k].sub_dags \o s.sub_dags
          BY Zenon, <4>2, <4>3
        <5> DEFINE u == H[k].sub_dags
                   v == s.sub_dags
        <5>5. u \in Seq(SubDags) /\ v \in Seq(SubDags)
          BY <5>1, <5>4
        <5> HIDE DEF u, v
        <5>6. Append(u \o v, e) = u \o Append(v, e)
          BY Zenon, <5>3, <5>5, AppendConcat
        <5> QED BY Zenon, <5>4, <5>6 DEF u, v
      <4>12. committed_round(H[k].last) <= committed_round(after)
        BY Zenon, <4>5, <4>7
      <4> HIDE DEF C, after, e, g, s, h, leader, at
      <4>13. Follows(run[j], H[j])
        <5>1. run[j].complete = TRUE
          BY Zenon, <4>2, <4>6, <4>9
        <5> QED BY Zenon, <4>6, <4>10, <4>11, <4>12, <5>1
      <4> HIDE DEF Follows
      <4> QED BY Zenon, <3>1, <4>13
    <3> QED BY Zenon, <3>4, <3>5
  <2> QED BY Zenon, <2>5, <2>6
<1>9. 0..MaxRound \subseteq Q
  <2> HIDE DEF Q
  <2> QED BY <1>0, <1>7, <1>8, IntervalInduction
<1>10. at(MaxRound) = n /\ MaxRound \in 0..MaxRound
  BY <1>0
<1>11. Follows(run[MaxRound], H[n])
  <2> HIDE DEF Follows, at
  <2> QED BY <1>9, <1>10
<1>12. run[MaxRound] \in CommitStates
  BY <1>5, <1>10 DEF RoundsOf
<1>13. commit_leaders(P, L, d, H[k].last) = run[MaxRound]
  BY Zenon DEF commit_leaders, run
<1> QED BY Zenon, <1>11, <1>12, <1>13 DEF H, Continues

------------------------------------------------------------------------------
(* What a validator commits *)

(* What the leaders that a validator commits are: those of the chain after    *)
(* the ones it has committed.                                                *)
LEMMA LeadersToCommit ==
    ASSUME NEW P \in Dags, NEW k \in 0..MaxRound, NEW known,
           ClosedAbove(P, known, gc_round(committed_round(History(P)[k].last))),
           NEW r \in Supported(P, Certificates),
           committed_round(History(P)[k].last) < r,
           LeaderCertificate(r) \in Above(known, History(P)[k].last)
    PROVE  LET leaders == order_leaders(P, LeaderCertificate(r), Above(known, History(P)[k].last),
                                        committed_round(History(P)[k].last))
           IN  /\ k < r /\ LeaderCertificate(r) \in Chain(P)
               /\ leaders = {x \in Chain(P) : k < Round(x) /\ Round(x) <= r}
               /\ leaders \subseteq known
<1> DEFINE last == History(P)[k].last
           m == committed_round(last)
           g == gc_round(m)
           d == Above(known, last)
           leaders == order_leaders(P, LeaderCertificate(r), d, m)
<1>1. Reached(P, k, History(P)[k])
  BY HistoryReached
<1>2. /\ m \in Nat /\ m <= k /\ m % 2 = 0
      /\ \A x \in Chain(P) : Round(x) <= k => Round(x) <= m
  <2>1. last \in LastRounds
    BY Zenon, <1>1 DEF Reached, Sound, CommitStates
  <2> QED BY Zenon, <1>1, <2>1, CommittedRound DEF Reached
<1>3. g \in Nat /\ g <= m
  BY <1>2, GcRound
<1>4. ClosedAbove(P, d, g)
  <2>1. d = {c \in known : Round(c) > g}
    BY Zenon DEF Above
  <2>2. ClosedAbove(P, known, g) /\ g <= g
    BY <1>3
  <2> HIDE DEF d, g
  <2> QED BY Zenon, <1>3, <2>1, <2>2, ClosedFurther
<1>5. m < r /\ LeaderCertificate(r) \in d /\ r \in Nat /\ r \in 1..MaxRound /\ r % 2 = 0
  BY SupportedFacts
<1> HIDE DEF d, g, m
<1>6. leaders = {x \in Chain(P) : m < Round(x) /\ Round(x) <= r}
  BY <1>2, <1>3, <1>4, <1>5, LeadersOfChain
<1>7. LeaderCertificate(r) \in Chain(P) /\ Round(LeaderCertificate(r)) = r
  BY <1>5, SupportedInChain, LeaderFacts
<1>8. k < r
  BY <1>2, <1>5, <1>7
<1>9. leaders \subseteq known
  <2>1. \A x \in leaders : x = LeaderCertificate(r) \/ x \in d
    BY <1>2, <1>5, LeadersAtRound
  <2>2. d \subseteq known
    BY DEF d, Above
  <2> QED BY <1>5, <2>1, <2>2
<1>10. \A x \in Chain(P) : m < Round(x) <=> k < Round(x)
  BY <1>2, ChainFacts
<1>11. leaders = {x \in Chain(P) : k < Round(x) /\ Round(x) <= r}
  BY <1>6, <1>10
<1> QED BY Zenon, <1>7, <1>8, <1>9, <1>11 DEF d, m

(* The rounds that linked visits below a leader are not empty. *)
LEMMA HistoryWhole ==
    ASSUME NEW P \in Dags, NEW d, NEW g \in Nat, ClosedAbove(P, d, g),
           NEW r \in 1..MaxRound, LeaderCertificate(r) \in d, NEW m \in Nat, g <= m
    PROVE  whole_history(LeaderCertificate(r), d, m)
<1> DEFINE leader == LeaderCertificate(r)
<1>1. leader \in Certificates /\ Round(leader) = r /\ r \in Nat
  BY LeaderFacts, TuskAssumption
<1> SUFFICES ASSUME NEW q \in (m + 1)..r PROVE \E x \in d : Round(x) = q
  BY <1>1 DEF whole_history
<1>2. r - q \in 0..r /\ (r - q) + g < r /\ r - q < r /\ q = r - (r - q)
  BY <1>1
<1> DEFINE n == r - q
           level == search(P, leader, Certificates)
<1> HIDE DEF leader, n
<1>3. n \in 0..Round(leader) /\ n + g < Round(leader) /\ n < Round(leader) /\ q = Round(leader) - n
  BY <1>1, <1>2 DEF n
<1>4. level[n] # {}
  BY <1>1, <1>3, SearchReaches
<1>5. level[n] \subseteq d
  BY <1>1, <1>3, SearchWithin DEF leader
<1>6. \A x \in level[n] : Round(x) = Round(leader) - n
  BY <1>1, <1>3, SearchFacts DEF Levels
<1> HIDE DEF level
<1> QED BY Zenon, <1>3, <1>4, <1>5, <1>6

(* What a validator that crashed and restarted at any time knows, has in its   *)
(* DAG and has committed.                                                    *)
Consistent(P, known, d, last, sub_dags) ==
    /\ ClosedAbove(P, known, gc_round(committed_round(last)))
    /\ d = Above(known, last)
    /\ \E k \in 0..MaxRound : last = History(P)[k].last /\ sub_dags = History(P)[k].sub_dags

(* Types, and what Consensus::spawn and check_parents assert. *)
LEMMA ConsistentFacts ==
    ASSUME NEW P \in Dags, NEW known, NEW d, NEW last, NEW sub_dags,
           Consistent(P, known, d, last, sub_dags)
    PROVE  /\ d \subseteq known /\ known \subseteq Certificates
           /\ last \in LastRounds /\ sub_dags \in Seq(SubDags)
           /\ committed_round(last) \in Nat /\ gc_round(committed_round(last)) \in Nat
           /\ gc_round(committed_round(last)) <= committed_round(last)
           /\ \A a \in Authorities : last[a] <= committed_round(last)
           /\ Causal(P, sub_dags)
           /\ sub_dags # <<>> => Round(sub_dags[Len(sub_dags)].leader) = committed_round(last)
           /\ \A c \in d : parents_found(P, c, d, gc_round(committed_round(last)))
           /\ ClosedAbove(P, d, gc_round(committed_round(last)))
<1> DEFINE g == gc_round(committed_round(last))
<1>1. PICK k \in 0..MaxRound : last = History(P)[k].last /\ sub_dags = History(P)[k].sub_dags
  BY DEF Consistent
<1> DEFINE s == History(P)[k]
<1>2. Sound(P, s)
  BY HistoryReached DEF Reached
<1> HIDE DEF s
<1>3. s.last = last /\ s.sub_dags = sub_dags
  BY <1>1 DEF s
<1>4. /\ Causal(P, sub_dags) /\ s \in CommitStates
      /\ sub_dags # <<>> => Round(sub_dags[Len(sub_dags)].leader) = committed_round(last)
  BY Zenon, <1>2, <1>3 DEF Sound
<1>5. last \in LastRounds /\ sub_dags \in Seq(SubDags)
  BY <1>3, <1>4 DEF CommitStates
<1>6. /\ committed_round(last) \in Nat /\ \A a \in Authorities : last[a] <= committed_round(last)
  BY <1>5, CommittedRound
<1>7. g \in Nat /\ g <= committed_round(last)
  BY <1>6, GcRound
<1>8. ClosedAbove(P, known, g) /\ d = {c \in known : Round(c) > g}
  BY Zenon DEF Consistent, Above
<1> HIDE DEF g
<1>9. ClosedAbove(P, d, g)
  BY <1>7, <1>8, ClosedFurther
<1>10. d \subseteq known /\ known \subseteq Certificates
  BY <1>8 DEF ClosedAbove
<1>11. \A c \in d : parents_found(P, c, d, g)
  <2>1. \A c \in d : Round(c) \in Nat
    BY <1>10, CertificateFacts
  <2> QED BY <1>7, <1>9, <2>1 DEF ClosedAbove, parents_found
<1> QED BY Zenon, <1>4, <1>5, <1>6, <1>7, <1>9, <1>10, <1>11 DEF g

(* What the stores hold after the leaders up to round q were committed, from   *)
(* the leader of r down, and what the loop leaves in the DAG.                *)
Commits(s, P, known, sub_dags, q) ==
    /\ Consistent(P, known, s.dag, s.last, sub_dags \o s.sub_dags)
    /\ s.complete = TRUE
    /\ committed_round(s.last) = q

LEMMA CommitConsistent ==
    ASSUME NEW P \in Dags, NEW known, NEW d, NEW last, NEW sub_dags,
           Consistent(P, known, d, last, sub_dags),
           NEW r \in Supported(P, Certificates), committed_round(last) < r,
           LeaderCertificate(r) \in d,
           NEW q \in 1..r,
           LeaderCertificate(q) \in order_leaders(P, LeaderCertificate(r), d, committed_round(last)),
           NEW leaders,
           leaders = {x \in order_leaders(P, LeaderCertificate(r), d, committed_round(last)) :
                        Round(x) <= q}
    PROVE  Commits(commit_leaders(P, leaders, d, last), P, known, sub_dags, q)
<1> DEFINE m == committed_round(last)
           order == order_leaders(P, LeaderCertificate(r), d, m)
           H == History(P)
<1>1. PICK k \in 0..MaxRound : last = H[k].last /\ sub_dags = H[k].sub_dags
  BY DEF Consistent
<1>2. /\ ClosedAbove(P, known, gc_round(committed_round(H[k].last)))
      /\ d = Above(known, H[k].last)
  BY Zenon, <1>1 DEF Consistent
<1>3. /\ k < r /\ order = {x \in Chain(P) : k < Round(x) /\ Round(x) <= r}
      /\ order \subseteq known
  <2>1. committed_round(H[k].last) < r /\ LeaderCertificate(r) \in Above(known, H[k].last)
    BY <1>1, <1>2
  <2>2. /\ k < r
        /\ order_leaders(P, LeaderCertificate(r), Above(known, H[k].last), committed_round(H[k].last))
             = {x \in Chain(P) : k < Round(x) /\ Round(x) <= r}
        /\ order_leaders(P, LeaderCertificate(r), Above(known, H[k].last), committed_round(H[k].last))
             \subseteq known
    BY Zenon, <1>2, <2>1, LeadersToCommit
  <2> QED BY Zenon, <1>1, <1>2, <2>2
<1>4. /\ r \in 1..MaxRound /\ r \in Nat /\ q \in Nat /\ q \in 1..MaxRound /\ q <= r
      /\ k \in Nat /\ MaxRound \in Nat
  BY SupportedFacts, TuskAssumption
<1>5. LeaderCertificate(q) \in Chain(P) /\ k < q
  <2>1. Round(LeaderCertificate(q)) = q
    BY <1>4, LeaderFacts
  <2> HIDE DEF order
  <2>2. LeaderCertificate(q) \in order
    BY DEF order
  <2> QED BY <1>3, <2>1, <2>2
<1>6. leaders = {x \in Chain(P) : k < Round(x) /\ Round(x) <= q}
  <2> HIDE DEF order
  <2>1. leaders = {x \in order : Round(x) <= q}
    BY Zenon DEF order
  <2>2. \A x \in Chain(P) : Round(x) <= q => Round(x) <= r
    BY <1>4, ChainFacts
  <2> QED BY <1>3, <2>1, <2>2
<1>7. {x \in Chain(P) : k < Round(x) /\ Round(x) <= q} \subseteq known
  BY <1>3, <1>6
<1> DEFINE s == commit_leaders(P, leaders, d, last)
           t == commit_leaders(P, {x \in Chain(P) : k < Round(x) /\ Round(x) <= q},
                               Above(known, H[k].last), H[k].last)
<1>8. s = t
  BY Zenon, <1>1, <1>2, <1>6
<1>9. /\ t.last = H[q].last /\ H[q].sub_dags = H[k].sub_dags \o t.sub_dags
      /\ t.dag = Above(known, t.last) /\ t.complete = TRUE
      /\ committed_round(H[k].last) <= committed_round(t.last)
  <2>1. k <= q /\ q \in 0..MaxRound
    BY <1>4, <1>5
  <2>2. Continues(t, P, k, q, known)
    BY Zenon, <1>2, <1>7, <2>1, LoopFollowsHistory
  <2> QED BY Zenon, <2>2 DEF Continues
<1> HIDE DEF t, s, order, H
<1>10. /\ s.last = H[q].last /\ H[q].sub_dags = sub_dags \o s.sub_dags
       /\ s.dag = Above(known, s.last) /\ s.complete = TRUE
       /\ m <= committed_round(s.last)
  BY Zenon, <1>1, <1>8, <1>9
<1>11. q \in 0..MaxRound /\ Reached(P, q, H[q])
  BY <1>4, HistoryReached DEF H
<1>12. committed_round(s.last) \in Nat /\ m \in Nat
  <2>1. H[q].last \in LastRounds
    BY Zenon, <1>11 DEF Reached, Sound, CommitStates
  <2>2. last \in LastRounds
    BY ConsistentFacts
  <2> QED BY <1>10, <2>1, <2>2, CommittedRound
<1>13. committed_round(s.last) = q
  <2>1. committed_round(s.last) <= q
    BY Zenon, <1>10, <1>11 DEF Reached
  <2>2. Round(LeaderCertificate(q)) = q
    BY <1>4, LeaderFacts
  <2>3. q <= committed_round(s.last)
    BY <1>4, <1>5, <1>10, <1>11, <2>2 DEF Reached
  <2> QED BY <1>4, <1>12, <2>1, <2>3
<1>14. ClosedAbove(P, known, gc_round(committed_round(s.last)))
  <2>1. /\ gc_round(m) \in Nat /\ gc_round(committed_round(s.last)) \in Nat
        /\ gc_round(m) <= gc_round(committed_round(s.last))
    BY Zenon, <1>10, <1>12, GcRound
  <2>2. ClosedAbove(P, known, gc_round(m))
    BY DEF Consistent
  <2> HIDE DEF m
  <2> QED BY Zenon, <2>1, <2>2, ClosedFurther
<1>15. Consistent(P, known, s.dag, s.last, sub_dags \o s.sub_dags)
  BY Zenon, <1>10, <1>11, <1>14 DEF Consistent, H
<1> QED BY Zenon, <1>10, <1>13, <1>15 DEF s, Commits
------------------------------------------------------------------------------
(* The inductive invariant *)

(* The validator is consistent, it has not failed, and without a crash what    *)
(* is supported is committed.                                                *)
IInv ==
    /\ parents \in Dags
    /\ Consistent(parents, seen, dag, last_committed, committed)
    /\ panicked = FALSE
    /\ restarts \in 0..MaxRestarts
    /\ SupportedCommitted

(* A supported leader has a supporter. *)
LEMMA SomeSupporter == ~(validity_threshold <= Cardinality({}))
<1>1. Cardinality({}) = 0
  BY FS_EmptySet
<1>2. Cardinality(Authorities) \in Nat /\ Cardinality(Authorities) # 0
  BY TuskAssumption, FS_CardinalityType, FS_EmptySet
<1> QED BY <1>1, <1>2 DEF validity_threshold

(* Before the first certificate nothing is known or committed. *)
LEMMA InvInit == Init => IInv
<1> SUFFICES ASSUME Init PROVE IInv
  OBVIOUS
<1>1. /\ parents \in Dags /\ seen = {} /\ dag = {} /\ last_committed = Zero
      /\ committed = <<>> /\ panicked = FALSE /\ restarts = 0
  BY DEF Init, Zero
<1>2. ClosedAbove(parents, seen, gc_round(committed_round(last_committed)))
  BY <1>1 DEF ClosedAbove
<1>3. dag = Above(seen, last_committed)
  BY <1>1 DEF Above
<1>4. 0 \in 0..MaxRound /\ restarts \in 0..MaxRestarts
  BY <1>1, TuskAssumption
<1>5. History(parents)[0]
        = [dag |-> Certificates, last |-> Zero, sub_dags |-> <<>>, complete |-> TRUE]
  BY Zenon, <1>1, HistoryRounds DEF RoundsOf
<1>6. History(parents)[0].last = Zero /\ History(parents)[0].sub_dags = <<>>
  BY <1>5
<1>7. Consistent(parents, seen, dag, last_committed, committed)
  BY Zenon, <1>1, <1>2, <1>3, <1>4, <1>6 DEF Consistent
<1>8. Supported(parents, seen) = {}
  <2> SUFFICES ASSUME NEW r \in Supported(parents, seen) PROVE FALSE
    OBVIOUS
  <2>1. r \in 1..MaxRound /\ validity_threshold <= Cardinality(Supporters(parents, r, seen))
    BY <1>1, SupportedFacts
  <2>2. Supporters(parents, r, seen) = {}
    BY <1>1 DEF Supporters
  <2> QED BY <2>1, <2>2, SomeSupporter
<1> QED BY Zenon, <1>1, <1>4, <1>7, <1>8 DEF IInv, SupportedCommitted

(* A certificate whose parents are known keeps what is known closed. *)
LEMMA KnownGrows ==
    ASSUME gc_round(committed_round(last_committed)) \in Nat,
           NEW known, ClosedAbove(parents, known, gc_round(committed_round(last_committed))),
           NEW c \in Certificates, Ready(c, known)
    PROVE  ClosedAbove(parents, known \cup {c}, gc_round(committed_round(last_committed)))
<1> DEFINE g == gc_round(committed_round(last_committed))
<1>1. c \in Certificates /\ (Round(c) > g + 1 => ParentsOf(parents, c) \subseteq known)
  <2>1. Round(c) <= g + 1 \/ ParentsOf(parents, c) \subseteq known
    BY DEF Ready
  <2>2. Round(c) \in Nat /\ g \in Nat
    BY CertificateFacts
  <2> HIDE DEF g
  <2> QED BY <2>1, <2>2
<1> HIDE DEF g
<1>2. ClosedAbove(parents, known, g)
  BY DEF g
<1>3. ClosedAbove(parents, known \cup {c}, g)
  BY <1>1, <1>2 DEF ClosedAbove
<1> QED BY <1>3 DEF g

(* The certificate that arrives enters the DAG unless its round is collected,   *)
(* and its parents are in the DAG.                                           *)
LEMMA Arrives ==
    ASSUME IInv, NEW c \in Certificates, Ready(c, seen)
    PROVE  LET g == gc_round(committed_round(last_committed))
           IN  /\ Round(c) <= g =>
                    Consistent(parents, seen \cup {c}, dag, last_committed, committed)
               /\ Round(c) > g =>
                    /\ Consistent(parents, seen \cup {c}, dag \cup {c}, last_committed, committed)
                    /\ parents_found(parents, c, dag, g)
<1> DEFINE g == gc_round(committed_round(last_committed))
<1>1. parents \in Dags /\ Consistent(parents, seen, dag, last_committed, committed)
  BY DEF IInv
<1>2. ClosedAbove(parents, seen, g) /\ dag = {x \in seen : Round(x) > g}
  BY Zenon, <1>1 DEF Consistent, Above
<1>5. g \in Nat /\ Round(c) \in Nat
  BY <1>1, ConsistentFacts, CertificateFacts
<1>3. ClosedAbove(parents, seen \cup {c}, g)
  BY Zenon, <1>2, <1>5, KnownGrows
<1>4. Above(seen \cup {c}, last_committed) = {x \in seen \cup {c} : Round(x) > g}
  BY Zenon DEF Above
<1>6. Round(c) <= g + 1 \/ ParentsOf(parents, c) \subseteq seen
  BY Zenon DEF Ready
<1>7. Consistent(parents, seen \cup {c}, Above(seen \cup {c}, last_committed), last_committed, committed)
  BY Zenon, <1>1, <1>3 DEF Consistent
<1> HIDE DEF g
<1>8. ASSUME Round(c) <= g PROVE Above(seen \cup {c}, last_committed) = dag
  BY <1>2, <1>4, <1>5, <1>8
<1>9. ASSUME Round(c) > g
      PROVE  Above(seen \cup {c}, last_committed) = dag \cup {c} /\ parents_found(parents, c, dag, g)
  <2>1. Above(seen \cup {c}, last_committed) = dag \cup {c}
    BY <1>2, <1>4, <1>9
  <2>2. \A p \in ParentsOf(parents, c) : Round(p) = Round(c) - 1
    BY <1>1, ParentFacts
  <2>3. ASSUME ~(Round(c) <= g + 1) PROVE ParentsOf(parents, c) \subseteq dag
    <3>1. \A p \in ParentsOf(parents, c) : Round(p) > g
      BY <1>5, <2>2, <2>3
    <3> QED BY <1>2, <1>6, <2>3, <3>1
  <2> QED BY <2>1, <2>3 DEF parents_found
<1> QED BY Zenon, <1>7, <1>8, <1>9 DEF g

(* When c makes the validator commit, the leader of the round before is         *)
(* supported, and the expectation of linked holds.                           *)
LEMMA CommitsSupported ==
    ASSUME IInv, NEW c \in Certificates,
           Consistent(parents, seen \cup {c}, dag \cup {c}, last_committed, committed),
           Committable(c, dag \cup {c})
    PROVE  LET r == Round(c) - 1
               d == dag \cup {c}
           IN  /\ r \in Supported(parents, Certificates)
               /\ committed_round(last_committed) < r /\ LeaderCertificate(r) \in d
               /\ whole_history(LeaderCertificate(r), d, committed_round(last_committed))
               /\ \A x \in ToCommit(c, d) : Round(x) <= r
               /\ LeaderCertificate(r) \in ToCommit(c, d)
<1> DEFINE r == Round(c) - 1
           d == dag \cup {c}
           m == committed_round(last_committed)
           g == gc_round(m)
<1>1. parents \in Dags
  BY DEF IInv
<1>2. /\ m \in Nat /\ g \in Nat /\ g <= m /\ d \subseteq Certificates /\ ClosedAbove(parents, d, g)
  <2>1. d \subseteq seen \cup {c} /\ seen \cup {c} \subseteq Certificates
    BY <1>1, ConsistentFacts
  <2> QED BY <1>1, <2>1, ConsistentFacts
<1>3. /\ r >= 2 /\ r % 2 = 0 /\ r > m /\ LeaderCertificate(r) \in d /\ support(parents, c, d)
  BY DEF Committable
<1>4. Round(c) \in 1..MaxRound /\ Round(c) = r + 1 /\ r \in 1..MaxRound /\ r \in 2..(MaxRound - 1)
  <2> HIDE DEF d, m, g
  <2>1. Round(c) \in 1..MaxRound
    BY CertificateFacts
  <2> QED BY <1>3, <2>1, TuskAssumption
<1> HIDE DEF r, d, m, g
<1>5. validity_threshold <= Cardinality(Supporters(parents, r, Certificates))
  BY <1>1, <1>2, <1>3, <1>4, SupportCount, SupportGrows
<1>6. r \in Supported(parents, Certificates)
  <2>1. Round(<<r + 1, Leader[r]>>) = r + 1
    BY DEF Round
  <2>2. support(parents, <<r + 1, Leader[r]>>, Certificates)
    BY Zenon, <1>1, <1>4, <1>5, <2>1, SupportCount
  <2> QED BY Zenon, <1>3, <1>4, <2>2 DEF Supported
<1>7. whole_history(LeaderCertificate(r), d, m)
  BY <1>1, <1>2, <1>3, <1>4, HistoryWhole
<1>8. ToCommit(c, d) = order_leaders(parents, LeaderCertificate(r), d, m)
  BY Zenon DEF ToCommit, r, m
<1>9. /\ \A x \in ToCommit(c, d) : Round(x) <= r
      /\ LeaderCertificate(r) \in ToCommit(c, d)
  BY <1>1, <1>2, <1>3, <1>4, <1>8, LeadersAtRound
<1> QED BY Zenon, <1>3, <1>6, <1>7, <1>9 DEF r, d, m

(* Without a crash, a certificate that completes the support of a leader that   *)
(* is not committed makes the validator commit it.                           *)
LEMMA SupportCommits ==
    ASSUME IInv, NEW c \in Certificates, Ready(c, seen), restarts = 0,
           NEW r \in Supported(parents, seen \cup {c}),
           committed_round(last_committed) < r
    PROVE  /\ Round(c) = r + 1
           /\ Round(c) > gc_round(committed_round(last_committed))
           /\ Committable(c, dag \cup {c})
<1> DEFINE m == committed_round(last_committed)
           g == gc_round(m)
           d == dag \cup {c}
<1>1. parents \in Dags /\ Consistent(parents, seen, dag, last_committed, committed)
  BY DEF IInv
<1>2. /\ r \in Nat /\ r \in 1..MaxRound /\ r + 1 \in 1..MaxRound /\ r >= 2 /\ r % 2 = 0
      /\ validity_threshold <= Cardinality(Supporters(parents, r, seen \cup {c}))
  BY <1>1, SupportedFacts
<1>3. Round(c) = r + 1
  <2> SUFFICES ASSUME Round(c) # r + 1 PROVE FALSE
    OBVIOUS
  <2>1. \A a \in Authorities : <<r + 1, a>> # c
    BY DEF Round
  <2>2. Supporters(parents, r, seen \cup {c}) = Supporters(parents, r, seen)
    BY <2>1 DEF Supporters
  <2>3. Round(<<r + 1, Leader[r]>>) = r + 1
    BY DEF Round
  <2>4. support(parents, <<r + 1, Leader[r]>>, seen)
    BY <1>1, <1>2, <2>2, <2>3, SupportCount
  <2>5. r \in 2..(MaxRound - 1)
    BY <1>2, TuskAssumption
  <2>6. r \in Supported(parents, seen)
    BY <1>2, <2>4, <2>5 DEF Supported
  <2>7. m >= r /\ m \in Nat
    BY <1>1, <2>6, ConsistentFacts DEF IInv, SupportedCommitted
  <2> QED BY <1>2, <2>7
<1>4. /\ m \in Nat /\ g \in Nat /\ g <= m /\ m < r
      /\ \A a \in Authorities : last_committed[a] <= m
      /\ last_committed \in LastRounds
  BY <1>1, ConsistentFacts
<1>5. Round(c) > g
  BY <1>2, <1>3, <1>4
<1>6. Consistent(parents, seen \cup {c}, d, last_committed, committed)
  BY Zenon, <1>5, Arrives
<1>7. d = {x \in seen \cup {c} : Round(x) > g} /\ ClosedAbove(parents, d, g)
  <2>1. d = {x \in seen \cup {c} : Round(x) > g}
    BY Zenon, <1>6 DEF Consistent, Above
  <2>2. ClosedAbove(parents, d, g)
    BY Zenon, <1>1, <1>6, ConsistentFacts
  <2> QED BY Zenon, <2>1, <2>2
<1> HIDE DEF d, g, m
<1>8. Supporters(parents, r, d) = Supporters(parents, r, seen \cup {c})
  <2>1. \A a : Round(<<r + 1, a>>) = r + 1
    BY DEF Round
  <2>2. \A a : <<r + 1, a>> \in d <=> <<r + 1, a>> \in seen \cup {c}
    BY <1>2, <1>4, <1>7, <2>1
  <2> QED BY <2>2 DEF Supporters
<1>9. support(parents, c, d)
  BY <1>1, <1>2, <1>3, <1>8, SupportCount
<1>10. LeaderCertificate(r) \in d
  <2>1. Supporters(parents, r, d) # {}
    BY Zenon, <1>2, <1>8, SomeSupporter
  <2>2. PICK a \in Supporters(parents, r, d) : TRUE
    BY Zenon, <2>1
  <2> DEFINE x == <<r + 1, a>>
  <2>3. x \in d /\ Leader[r] \in parents[x] /\ a \in Authorities
    BY DEF Supporters
  <2>4. x \in Certificates /\ Round(x) = r + 1
    BY <1>2, <2>3, CertificateFacts
  <2> HIDE DEF x
  <2>5. Round(x) > g + 1 /\ Round(x) - 1 = r
    BY <1>2, <1>4, <2>4
  <2>6. ParentsOf(parents, x) \subseteq d
    BY <1>7, <2>3, <2>5 DEF ClosedAbove
  <2>7. <<Round(x) - 1, Leader[r]>> \in ParentsOf(parents, x)
    BY <1>1, <2>3, <2>4, ParentFacts
  <2> QED BY Zenon, <2>5, <2>6, <2>7 DEF LeaderCertificate
<1>11. Round(c) > last_committed[Origin(c)]
  <2>1. Origin(c) \in Authorities
    BY CertificateFacts
  <2>2. last_committed[Origin(c)] <= m /\ last_committed[Origin(c)] \in Nat
    BY <1>4, <2>1 DEF LastRounds
  <2> QED BY <1>2, <1>3, <1>4, <2>2
<1>12. Round(c) - 1 = r /\ r > m
  BY <1>2, <1>3, <1>4
<1>13. Committable(c, d)
  BY Zenon, <1>2, <1>9, <1>10, <1>11, <1>12 DEF Committable, m
<1> QED BY Zenon, <1>3, <1>5, <1>13 DEF d, g, m

(* process_certificate keeps the invariant. *)
LEMMA InvProcess ==
    ASSUME IInv, NEW c \in Certificates, ProcessCertificate(c)
    PROVE  IInv'
<1> DEFINE m == committed_round(last_committed)
           g == gc_round(m)
           d == dag \cup {c}
<1>1. /\ parents \in Dags /\ Consistent(parents, seen, dag, last_committed, committed)
      /\ restarts \in 0..MaxRestarts /\ panicked = FALSE
  BY DEF IInv
<1>2. Ready(c, seen) /\ seen' = seen \cup {c} /\ parents' = parents /\ restarts' = restarts
  BY Zenon DEF ProcessCertificate
<1>3. m \in Nat
  BY <1>1, ConsistentFacts
<1>4. ASSUME ~(Round(c) > g /\ Committable(c, d)), last_committed' = last_committed
      PROVE  SupportedCommitted'
  <2> SUFFICES ASSUME restarts = 0, NEW r \in Supported(parents, seen \cup {c})
               PROVE  m >= r
    BY Zenon, <1>2, <1>4 DEF SupportedCommitted
  <2>1. r \in Nat
    BY <1>1, SupportedFacts
  <2>2. ~(m < r)
    BY Zenon, <1>2, <1>4, SupportCommits
  <2> QED BY <1>3, <2>1, <2>2
<1>5. CASE /\ Round(c) <= g
           /\ UNCHANGED <<dag, last_committed, committed, panicked>>
  <2>1. Consistent(parents, seen \cup {c}, dag, last_committed, committed)
    BY Zenon, <1>2, <1>5, Arrives
  <2>2. ~(Round(c) > g)
    BY <1>1, <1>5, ConsistentFacts, CertificateFacts
  <2>3. SupportedCommitted'
    BY Zenon, <1>4, <1>5, <2>2
  <2> QED BY Zenon, <1>1, <1>2, <1>5, <2>1, <2>3 DEF IInv
<1>6. CASE /\ Round(c) > g /\ ~Committable(c, d)
           /\ dag' = d
           /\ panicked' = ~parents_found(parents, c, dag, g)
           /\ UNCHANGED <<last_committed, committed>>
  <2>1. /\ Consistent(parents, seen \cup {c}, d, last_committed, committed)
        /\ parents_found(parents, c, dag, g)
    BY Zenon, <1>2, <1>6, Arrives
  <2>2. panicked' = FALSE
    BY Zenon, <1>6, <2>1
  <2>3. SupportedCommitted'
    BY Zenon, <1>4, <1>6
  <2> QED BY Zenon, <1>1, <1>2, <1>6, <2>1, <2>2, <2>3 DEF IInv
<1>7. ASSUME Round(c) > g, Committable(c, d),
             NEW s, s = commit_leaders(parents, ToCommit(c, d), d, last_committed),
             dag' = s.dag, last_committed' = s.last, committed' = committed \o s.sub_dags,
             panicked' = ~(/\ parents_found(parents, c, dag, g)
                           /\ whole_history(LeaderCertificate(Round(c) - 1), d, m)
                           /\ s.complete)
      PROVE  IInv'
  <2> DEFINE r == Round(c) - 1
  <2>1. /\ Consistent(parents, seen \cup {c}, d, last_committed, committed)
        /\ parents_found(parents, c, dag, g)
    BY Zenon, <1>2, <1>7, Arrives
  <2>2. /\ r \in Supported(parents, Certificates) /\ m < r /\ LeaderCertificate(r) \in d
        /\ whole_history(LeaderCertificate(r), d, m)
        /\ \A x \in ToCommit(c, d) : Round(x) <= r
        /\ LeaderCertificate(r) \in ToCommit(c, d)
    BY Zenon, <1>7, <2>1, CommitsSupported
  <2>3. ToCommit(c, d) = order_leaders(parents, LeaderCertificate(r), d, m)
    BY Zenon DEF ToCommit
  <2>4. r \in 1..r /\ r \in Nat
    BY <1>1, <2>2, SupportedFacts
  <2> HIDE DEF r, d, g
  <2>5. ToCommit(c, d) = {x \in order_leaders(parents, LeaderCertificate(r), d, m) : Round(x) <= r}
    BY <2>2, <2>3
  <2>6. /\ Consistent(parents, seen \cup {c}, s.dag, s.last, committed \o s.sub_dags)
        /\ s.complete = TRUE /\ committed_round(s.last) = r
    <3> DEFINE leaders == ToCommit(c, d)
               t == commit_leaders(parents, leaders, d, last_committed)
    <3>1. LeaderCertificate(r) \in order_leaders(parents, LeaderCertificate(r), d, m)
      BY Zenon, <2>2, <2>3
    <3>2. leaders = {x \in order_leaders(parents, LeaderCertificate(r), d, m) : Round(x) <= r}
      BY Zenon, <2>5
    <3> HIDE DEF leaders
    <3>3. Commits(t, parents, seen \cup {c}, committed, r)
      BY Zenon, <1>1, <2>1, <2>2, <2>4, <3>1, <3>2, CommitConsistent
    <3>4. s = t
      BY Zenon, <1>7 DEF leaders
    <3> HIDE DEF t
    <3> QED BY Zenon, <3>3, <3>4 DEF Commits
  <2>7. panicked' = FALSE
    <3>1. whole_history(LeaderCertificate(Round(c) - 1), d, m)
      BY <2>2 DEF r
    <3> QED BY Zenon, <1>7, <2>1, <2>6, <3>1
  <2>8. SupportedCommitted'
    <3> SUFFICES ASSUME restarts = 0, NEW q \in Supported(parents, seen \cup {c})
                 PROVE  r >= q
      BY Zenon, <1>2, <1>7, <2>6 DEF SupportedCommitted
    <3>1. q \in Nat
      BY <1>1, SupportedFacts
    <3>2. CASE m < q
      <4>1. Round(c) = q + 1
        BY Zenon, <1>2, <3>2, SupportCommits
      <4> QED BY <3>1, <4>1 DEF r
    <3>3. CASE ~(m < q)
      BY <1>3, <2>2, <2>4, <3>1, <3>3
    <3> QED BY <3>2, <3>3
  <2> QED BY Zenon, <1>1, <1>2, <1>7, <2>6, <2>7, <2>8 DEF IInv
<1>8. \/ /\ Round(c) <= g
         /\ UNCHANGED <<dag, last_committed, committed, panicked>>
      \/ /\ Round(c) > g /\ ~Committable(c, d)
         /\ dag' = d
         /\ panicked' = ~parents_found(parents, c, dag, g)
         /\ UNCHANGED <<last_committed, committed>>
      \/ /\ Round(c) > g /\ Committable(c, d)
         /\ \E s \in {commit_leaders(parents, ToCommit(c, d), d, last_committed)} :
                /\ dag' = s.dag
                /\ last_committed' = s.last
                /\ committed' = committed \o s.sub_dags
                /\ panicked' = ~(/\ parents_found(parents, c, dag, g)
                                 /\ whole_history(LeaderCertificate(Round(c) - 1), d, m)
                                 /\ s.complete)
  BY Zenon DEF ProcessCertificate
<1> HIDE DEF m, g, d
<1> QED BY Zenon, <1>5, <1>6, <1>7, <1>8

(* Consensus::spawn finds consistent stores consistent. *)
LEMMA InvRecover ==
    ASSUME IInv, NEW known, NEW d, NEW last, NEW sub_dags,
           Consistent(parents, known, d, last, sub_dags), seen' = known,
           Recover(known, last, sub_dags), restarts' = restarts + 1, restarts < MaxRestarts,
           parents' = parents
    PROVE  IInv'
<1> DEFINE g == gc_round(committed_round(last))
<1>1. d = {c \in known : Round(c) > g}
  BY Zenon DEF Consistent, Above
<1>2. /\ dag' = {c \in known : Round(c) > g} /\ last_committed' = last /\ committed' = sub_dags
      /\ panicked' = \/ \E c \in {x \in known : Round(x) > g} :
                            ~parents_found(parents, c, {x \in known : Round(x) > g}, g)
                     \/ /\ sub_dags # <<>>
                        /\ Round(sub_dags[Len(sub_dags)].leader) # committed_round(last)
  BY Zenon DEF Recover
<1>3. /\ parents \in Dags /\ \A c \in d : parents_found(parents, c, d, g)
      /\ sub_dags # <<>> => Round(sub_dags[Len(sub_dags)].leader) = committed_round(last)
  <2>1. parents \in Dags
    BY DEF IInv
  <2>2. \A c \in d : parents_found(parents, c, d, g)
    BY Zenon, <2>1, ConsistentFacts
  <2>3. sub_dags # <<>> => Round(sub_dags[Len(sub_dags)].leader) = committed_round(last)
    BY <2>1, ConsistentFacts
  <2> QED BY <2>1, <2>2, <2>3
<1> HIDE DEF g
<1>4. dag' = d /\ panicked' = FALSE
  <2>1. panicked' = \/ \E c \in d : ~parents_found(parents, c, d, g)
                    \/ /\ sub_dags # <<>>
                       /\ Round(sub_dags[Len(sub_dags)].leader) # committed_round(last)
    BY Zenon, <1>1, <1>2
  <2> QED BY Zenon, <1>1, <1>2, <1>3, <2>1
<1>5. restarts' \in 0..MaxRestarts /\ restarts' # 0
  BY TuskAssumption DEF IInv
<1>6. SupportedCommitted'
  BY <1>5 DEF SupportedCommitted
<1> QED BY Zenon, <1>2, <1>3, <1>4, <1>5, <1>6 DEF IInv

(* A crash between two certificates keeps the invariant. *)
LEMMA InvRestart ==
    ASSUME IInv, NEW unseen \in Unseen, Restart(unseen), restarts < MaxRestarts
    PROVE  IInv'
<1> DEFINE g == gc_round(committed_round(last_committed))
           known == seen \cup unseen
<1>1. parents \in Dags /\ Consistent(parents, seen, dag, last_committed, committed)
  BY DEF IInv
<1>2. ClosedAbove(parents, seen, g) /\ g \in Nat
  <2>1. g \in Nat
    BY Zenon, <1>1, ConsistentFacts
  <2> QED BY Zenon, <1>1, <2>1 DEF Consistent
<1>3. ClosedAbove(parents, known, g)
  <2>1. CASE unseen = {}
    <3>1. known = seen
      BY <2>1
    <3> QED BY Zenon, <1>2, <3>1
  <2>2. CASE unseen # {}
    <3>1. PICK x \in Certificates, y \in Certificates :
            /\ Ready(x, seen) /\ unseen = {x, y}
            /\ Ready(y, seen \cup {x}) \/ y = x
      BY Zenon, <2>2 DEF Unseen
    <3>2. ClosedAbove(parents, seen \cup {x}, g)
      BY Zenon, <1>2, <3>1, KnownGrows
    <3>3. CASE Ready(y, seen \cup {x})
      <4>1. ClosedAbove(parents, (seen \cup {x}) \cup {y}, g)
        BY Zenon, <1>2, <3>2, <3>3, KnownGrows
      <4>2. known = (seen \cup {x}) \cup {y}
        BY <3>1
      <4> QED BY Zenon, <4>1, <4>2
    <3>4. CASE y = x
      <4>1. known = seen \cup {x}
        BY <3>1, <3>4
      <4> QED BY Zenon, <3>2, <4>1
    <3> QED BY <3>1, <3>3, <3>4
  <2> QED BY <2>1, <2>2
<1>4. Consistent(parents, known, Above(known, last_committed), last_committed, committed)
  BY Zenon, <1>1, <1>3 DEF Consistent
<1>5. /\ seen' = known /\ Recover(known, last_committed, committed)
      /\ restarts' = restarts + 1 /\ parents' = parents
  BY Zenon DEF Restart
<1> HIDE DEF known
<1> QED BY Zenon, <1>4, <1>5, InvRecover

(* A crash while the sub-dags of a commit are written keeps the invariant. *)
LEMMA InvCrash ==
    ASSUME IInv, NEW c \in Certificates, NEW q \in 1..MaxRound, CrashInCommit(c, q),
           restarts < MaxRestarts
    PROVE  IInv'
<1> DEFINE m == committed_round(last_committed)
           d == dag \cup {c}
           r == Round(c) - 1
           known == seen \cup {c}
           written == {x \in ToCommit(c, d) : Round(x) <= q}
           s == commit_leaders(parents, written, d, last_committed)
<1>1. parents \in Dags
  BY DEF IInv
<1>2. /\ Ready(c, seen) /\ Round(c) > gc_round(m) /\ Committable(c, d)
      /\ LeaderCertificate(q) \in ToCommit(c, d) /\ q < r
      /\ seen' = known /\ parents' = parents /\ restarts' = restarts + 1
      /\ Recover(seen', s.last, committed \o s.sub_dags)
  BY Zenon DEF CrashInCommit
<1>3. Consistent(parents, known, d, last_committed, committed)
  BY Zenon, <1>2, Arrives
<1>4. r \in Supported(parents, Certificates) /\ m < r /\ LeaderCertificate(r) \in d
  BY Zenon, <1>2, <1>3, CommitsSupported
<1>5. q \in 1..r
  <2>1. r \in Nat
    BY <1>1, <1>4, SupportedFacts
  <2> QED BY <1>2, <2>1
<1>6. ToCommit(c, d) = order_leaders(parents, LeaderCertificate(r), d, m)
  BY Zenon DEF ToCommit
<1>7. written = {x \in order_leaders(parents, LeaderCertificate(r), d, m) : Round(x) <= q}
  BY Zenon, <1>6
<1>8. LeaderCertificate(q) \in order_leaders(parents, LeaderCertificate(r), d, m)
  BY Zenon, <1>2, <1>6
<1> HIDE DEF d, r, known, written
<1>9. Commits(s, parents, known, committed, q)
  BY Zenon, <1>1, <1>3, <1>4, <1>5, <1>7, <1>8, CommitConsistent
<1> HIDE DEF s
<1>10. Recover(known, s.last, committed \o s.sub_dags)
  BY Zenon, <1>2
<1>11. Consistent(parents, known, s.dag, s.last, committed \o s.sub_dags)
  BY <1>9 DEF Commits
<1> QED BY Zenon, <1>2, <1>10, <1>11, InvRecover

(* The invariant. *)
LEMMA Invariant == Spec => []IInv
<1>1. ASSUME IInv, [Next]_vars PROVE IInv'
  <2>1. CASE \E c \in Certificates : ProcessCertificate(c)
    BY Zenon, <1>1, <2>1, InvProcess
  <2>2. CASE restarts < MaxRestarts /\ \E unseen \in Unseen : Restart(unseen)
    BY Zenon, <1>1, <2>2, InvRestart
  <2>3. CASE restarts < MaxRestarts
             /\ \E c \in Certificates, r \in 1..MaxRound : CrashInCommit(c, r)
    BY Zenon, <1>1, <2>3, InvCrash
  <2>4. CASE UNCHANGED vars
    BY Zenon, <1>1, <2>4 DEF vars, IInv, SupportedCommitted
  <2> QED BY Zenon, <1>1, <2>1, <2>2, <2>3, <2>4 DEF Next
<1> QED BY InvInit, <1>1, PTL DEF Spec

------------------------------------------------------------------------------
(* Theorems *)

(* The variables of the validator keep their types. *)
THEOREM TuskTypeTheorem == Spec => []TypeOK
<1>1. IInv => TypeOK
  <2> SUFFICES ASSUME IInv PROVE TypeOK
    OBVIOUS
  <2>1. parents \in Dags /\ Consistent(parents, seen, dag, last_committed, committed)
    BY DEF IInv
  <2>2. /\ dag \subseteq seen /\ seen \subseteq Certificates
        /\ last_committed \in LastRounds /\ committed \in Seq(SubDags)
    BY Zenon, <2>1, ConsistentFacts
  <2>3. parents \in [Certificates -> SUBSET Authorities]
    BY <2>1, TuskAssumption
  <2>4. panicked \in BOOLEAN /\ restarts \in 0..MaxRestarts
    BY Zenon DEF IInv
  <2> QED BY Zenon, <2>2, <2>3, <2>4 DEF TypeOK, LastRounds
<1> QED BY Invariant, <1>1, PTL

(* No assertion or expectation of the ordering fails, whatever the order in    *)
(* which the certificates arrive and wherever the validator crashed: the     *)
(* parents that check_parents and order_dag look up and the rounds that      *)
(* linked visits are never collected too early.                              *)
THEOREM NoPanicTheorem == Spec => []NoPanic
<1>1. IInv => NoPanic
  BY DEF IInv, NoPanic
<1> QED BY Invariant, <1>1, PTL

(* What process_certificate commits is causal: no certificate twice, and none   *)
(* before a parent that is not collected or overtaken.                       *)
THEOREM CausalOnceTheorem == Spec => []CausalOnce
<1>1. IInv => CausalOnce
  BY Zenon, ConsistentFacts DEF IInv, CausalOnce
<1> QED BY Invariant, <1>1, PTL

(* Without a crash a leader is committed as soon as the certificates received   *)
(* support it.                                                               *)
THEOREM SupportedCommittedTheorem == Spec => []SupportedCommitted
<1>1. IInv => SupportedCommitted
  BY DEF IInv
<1> QED BY Invariant, <1>1, PTL

(* A sequence is the first part of its concatenation with another one. *)
LEMMA PrefixOfConcat ==
    ASSUME NEW u \in Seq(SubDags), NEW v \in Seq(SubDags)
    PROVE  Len(v) <= Len(v \o u) /\ v = SubSeq(v \o u, 1, Len(v))
OBVIOUS

(* Any two validators commit the same sub-dags in the same order: what one has   *)
(* committed is a prefix of a sequence that depends on the DAG alone, not on *)
(* the order of arrival, the collections or the crashes.                     *)
THEOREM AgreementTheorem == Spec => []Agreement
<1>1. IInv => Agreement
  <2> SUFFICES ASSUME IInv PROVE Agreement
    OBVIOUS
  <2> DEFINE H == History(parents)
  <2>1. parents \in Dags /\ MaxRound \in Nat
    BY TuskAssumption DEF IInv
  <2>2. PICK k \in 0..MaxRound : last_committed = H[k].last /\ committed = H[k].sub_dags
    BY Zenon DEF IInv, Consistent
  <2> DEFINE s == commit_leaders(parents, {x \in Chain(parents) : k < Round(x) /\ Round(x) <= MaxRound},
                                 Above(Certificates, H[k].last), H[k].last)
  <2>3. /\ s \in CommitStates /\ H[MaxRound].sub_dags = H[k].sub_dags \o s.sub_dags
    <3>1. ClosedAbove(parents, Certificates, gc_round(committed_round(H[k].last)))
      <4>1. gc_round(committed_round(H[k].last)) \in Nat
        <5>1. Consistent(parents, seen, dag, last_committed, committed)
          BY DEF IInv
        <5>2. gc_round(committed_round(last_committed)) \in Nat
          BY Zenon, <2>1, <5>1, ConsistentFacts
        <5> QED BY Zenon, <2>2, <5>2
      <4>2. \A c \in Certificates : Round(c) > 1 => ParentsOf(parents, c) \subseteq Certificates
        BY <2>1, ParentFacts
      <4>3. \A c \in Certificates : Round(c) \in Nat
        BY CertificateFacts
      <4> HIDE DEF H
      <4> QED BY <4>1, <4>2, <4>3 DEF ClosedAbove
    <3>2. {x \in Chain(parents) : k < Round(x) /\ Round(x) <= MaxRound} \subseteq Certificates
      BY <2>1, ChainFacts
    <3>3. k <= MaxRound /\ MaxRound \in 0..MaxRound
      BY <2>1
    <3>4. Continues(s, parents, k, MaxRound, Certificates)
      BY Zenon, <2>1, <3>1, <3>2, <3>3, LoopFollowsHistory
    <3> QED BY Zenon, <3>4 DEF Continues
  <2> HIDE DEF s, H
  <2>4. s.sub_dags \in Seq(SubDags) /\ committed \in Seq(SubDags)
    BY <2>1, <2>3, ConsistentFacts DEF CommitStates, IInv
  <2>5. Ordering = committed \o s.sub_dags
    BY Zenon, <2>2, <2>3 DEF Ordering, H
  <2> DEFINE u == s.sub_dags
             v == committed
  <2> HIDE DEF u, v
  <2>6. u \in Seq(SubDags) /\ v \in Seq(SubDags) /\ Ordering = v \o u
    BY <2>4, <2>5 DEF u, v
  <2>7. Len(v) <= Len(v \o u) /\ v = SubSeq(v \o u, 1, Len(v))
    BY <2>6, PrefixOfConcat
  <2> QED BY Zenon, <2>6, <2>7 DEF Agreement, v
<1> QED BY Invariant, <1>1, PTL
===============================================================================
