-------------------------- MODULE SynchronizerProofs --------------------------
(***************************************************************************)
(* Whatever the certificates, the garbage collection depth, the bounds of  *)
(* the channel and of a fetch and the number of crashes, the synchronizer  *)
(* accepts certificates in causal order, sends to the consensus all that   *)
(* it stores, each after its parents, and knows exactly what it waits for. *)
(***************************************************************************)
EXTENDS Synchronizer, IntervalProofs, SequenceTheorems

(* What is stored or about to be stored. *)
Known == store \cup accepted

(* The suspended certificates that were not yet collected with round g. *)
Waiting(g) == {c \in DOMAIN suspended : Round[c] > g + 1}

(* State is as the collection of round g left it. *)
Exact(g) ==
    /\ \A c \in DOMAIN suspended : Round[c] # g + 1
    /\ \A c \in Waiting(g) : suspended[c] = Parents[c] \ Known /\ suspended[c] # {}
    /\ missing = UNION {suspended[c] \X {c} : c \in Waiting(g)}

(* Between the store of a new gc_round and the collection, State is still    *)
(* that of an earlier round.                                                 *)
StateInv ==
    IF collecting = "stored" THEN \E g \in 0..gc_round : Exact(g) ELSE Exact(gc_round)

(* The store is causally closed above the collected rounds, and so is it with *)
(* what is about to be stored.                                               *)
StoreClosed ==
    \A c \in store : Round[c] > gc_round + 1 => Parents[c] \subseteq store

AcceptedClosed ==
    \A c \in accepted : Round[c] > gc_round + 1 => Parents[c] \subseteq Known

(* What run_gc returned is at gc_round + 1 and is not suspended any more. *)
AboveInv ==
    /\ above # {} => collecting = "locked"
    /\ \A c \in above : Round[c] = gc_round + 1 /\ c \notin DOMAIN suspended

(* What was stored is in the DAG of the consensus or on its way, in causal    *)
(* order.                                                                    *)
TransitInv == StoreDelivered /\ ParentsDelivered

(* The two halves of ParentsDelivered, of a queue q and a DAG that collected  *)
(* up to round g.                                                            *)
Closed(dag, g) == \A c \in dag : Round[c] > g + 1 => Parents[c] \subseteq dag

Ordered(q, dag, g) ==
    \A i \in DOMAIN q :
        Round[q[i]] > g + 1 => Parents[q[i]] \subseteq dag \cup {q[j] : j \in 1..(i - 1)}

SafeInv ==
    /\ gc_round <= gc_of(committed)
    /\ StoreClosed
    /\ AcceptedClosed
    /\ TransitInv
    /\ StateInv
    /\ AboveInv
    /\ AssertionsHold

IInv == TypeOK /\ SafeInv

------------------------------------------------------------------------------
(* Constants *)

(* The rounds lie between 1 and MaxRound, and parents one round below. *)
LEMMA RoundFacts ==
    /\ MaxRound \in Nat
    /\ \A c \in Certificates :
        /\ Round[c] \in Nat /\ 1 <= Round[c] /\ Round[c] <= MaxRound
        /\ Parents[c] \subseteq Certificates
        /\ \A p \in Parents[c] : Round[p] + 1 = Round[c]
<1> DEFINE n == Len(ByRound)
           m == Round[ByRound[n]]
<1>1. /\ ByRound \in Seq(Certificates) /\ n \in Nat /\ n > 0 /\ DOMAIN ByRound = 1..n
      /\ \A i \in 1..n : ByRound[i] \in Certificates
  BY SynchronizerAssumption
<1>2. \A c \in Certificates : \E i \in 1..n : c = ByRound[i]
  BY <1>1 DEF Certificates, Range
<1>3. \A i \in 1..n : Round[ByRound[i]] <= m
  <2> TAKE i \in 1..n
  <2>1. m \in Nat
    BY <1>1, SynchronizerAssumption
  <2>2. CASE i = n
    BY <2>1, <2>2
  <2>3. CASE i # n
    <3>1. i < n /\ n \in 1..n
      <4> HIDE DEF n
      <4> QED BY <1>1, <2>3
    <3> QED BY Zenon, <3>1, SynchronizerAssumption
  <2> QED BY <2>2, <2>3
<1>4. m \in {Round[c] : c \in Certificates} /\ \A c \in Certificates : Round[c] <= m
  BY <1>1, <1>2, <1>3
<1>5. /\ MaxRound \in {Round[c] : c \in Certificates}
      /\ \A c \in Certificates : Round[c] <= MaxRound
  BY <1>4, Zenon DEF MaxRound
<1>6. \A c \in Certificates : Round[c] \in Nat /\ 1 <= Round[c]
  BY SynchronizerAssumption
<1> QED BY <1>5, <1>6, SynchronizerAssumption

(* gc_round never passes the committed round and never goes back. *)
LEMMA GcOf ==
    ASSUME NEW r \in Nat
    PROVE  /\ gc_of(r) \in 0..r
           /\ \A q \in Nat : r <= q => gc_of(r) <= gc_of(q)
BY SynchronizerAssumption DEF gc_of

------------------------------------------------------------------------------
(* The search for what can be accepted *)

(* Every edge of `missing` leads to a suspended child that waits for it. *)
Edges ==
    /\ DOMAIN suspended \subseteq Certificates
    /\ \A s \in DOMAIN suspended : suspended[s] \subseteq Parents[s]
    /\ \A p, s : <<p, s>> \in missing => s \in DOMAIN suspended /\ p \in suspended[s]

(* accept_children starts from a certificate, takes only children that wait   *)
(* for nothing else, and stops only when no such child is left.              *)
LEMMA Acceptable ==
    ASSUME Edges, NEW c \in Certificates
    PROVE  /\ c \in acceptable(c)
           /\ acceptable(c) \subseteq Certificates
           /\ \A s \in acceptable(c) \ {c} :
                /\ s \in DOMAIN suspended /\ suspended[s] \subseteq acceptable(c)
                /\ \E p \in acceptable(c) : <<p, s>> \in missing
           /\ \A s \in DOMAIN suspended :
                /\ suspended[s] \subseteq acceptable(c)
                /\ \E p \in suspended[s] : <<p, s>> \in missing
                => s \in acceptable(c)
<1> DEFINE lo == Round[c]
           next(L) == {s \in DOMAIN suspended :
                         /\ \E p \in L : <<p, s>> \in missing
                         /\ suspended[s] \subseteq L}
           level == CHOOSE f : f = [r \in lo..MaxRound |->
                                      IF r = lo THEN {c} ELSE next(f[r - 1])]
           G == [r \in Nat |-> [L \in SUBSET Certificates |-> next(L)]]
<1>1. acceptable(c) = UNION {level[r] : r \in lo..MaxRound}
  BY Zenon DEF acceptable
<1>2. /\ lo \in Nat /\ MaxRound \in Nat /\ lo <= MaxRound
      /\ \A s \in Certificates : Round[s] \in Nat /\ Round[s] <= MaxRound
      /\ \A s \in Certificates : \A p \in Parents[s] : Round[p] + 1 = Round[s]
  BY RoundFacts
<1>3. G \in [Nat -> [SUBSET Certificates -> SUBSET Certificates]]
  BY DEF Edges
<1>4. \E f \in [lo..MaxRound -> SUBSET Certificates] :
        f = [r \in lo..MaxRound |-> IF r = lo THEN {c} ELSE next(f[r - 1])]
  <2>1. PICK f \in [lo..MaxRound -> SUBSET Certificates] :
          f = [r \in lo..MaxRound |-> IF r = lo THEN {c} ELSE G[r][f[r - 1]]]
    <3> DEFINE base == {c}
               D == SUBSET Certificates
    <3>1. base \in D /\ G \in [Nat -> [D -> D]]
      BY <1>3
    <3>2. lo \in Nat /\ MaxRound \in Nat
      BY <1>2
    <3> HIDE DEF G, base, lo, D
    <3>3. \E f \in [lo..MaxRound -> D] : Recursion(f, lo, MaxRound, base, G)
      BY <3>1, <3>2, IntervalRecursion
    <3> QED BY Zenon, <3>3 DEF base, D, Recursion
  <2>2. \A r \in lo..MaxRound : r # lo => G[r][f[r - 1]] = next(f[r - 1])
    <3> HIDE DEF G, next
    <3> TAKE r \in lo..MaxRound
    <3> HAVE r # lo
    <3>1. r \in Nat /\ f[r - 1] \in SUBSET Certificates
      BY <1>2
    <3> QED BY Zenon, <3>1 DEF G
  <2>3. f = [r \in lo..MaxRound |-> IF r = lo THEN {c} ELSE next(f[r - 1])]
    <3> HIDE DEF G, next
    <3> QED BY <2>1, <2>2, Zenon
  <2> QED BY Zenon, <2>3
<1>5. level = [r \in lo..MaxRound |-> IF r = lo THEN {c} ELSE next(level[r - 1])]
  <2> HIDE DEF next
  <2> QED BY Zenon, <1>4
<1>6. /\ level[lo] = {c}
      /\ \A r \in lo..MaxRound : r # lo => level[r] = next(level[r - 1])
  <2> HIDE DEF level, next, lo
  <2>1. lo \in lo..MaxRound
    BY <1>2
  <2> QED BY Zenon, <1>5, <2>1
<1> HIDE DEF level, G
<1>7. \A r \in lo..MaxRound : \A s \in level[r] : s \in Certificates /\ Round[s] = r
  <2> DEFINE P == {r \in Nat : \A s \in level[r] : s \in Certificates /\ Round[s] = r}
  <2>1. lo \in P
    BY <1>2, <1>6
  <2>2. \A r \in lo..MaxRound : r > lo /\ r - 1 \in P => r \in P
    <3> SUFFICES ASSUME NEW r \in lo..MaxRound, r > lo, r - 1 \in P,
                        NEW s \in level[r]
                 PROVE  s \in Certificates /\ Round[s] = r
      BY <1>2
    <3>1. s \in next(level[r - 1])
      BY <1>2, <1>6
    <3>2. s \in Certificates /\ \E p \in level[r - 1] : p \in Parents[s]
      BY Zenon, <3>1 DEF Edges
    <3>3. \A p \in level[r - 1] : Round[p] = r - 1
      OBVIOUS
    <3> QED BY <1>2, <3>2, <3>3
  <2>3. lo..MaxRound \subseteq P
    <3> HIDE DEF P
    <3> QED BY Zenon, <1>2, <2>1, <2>2, IntervalInduction
  <2> QED BY <2>3
<1>8. \A s \in acceptable(c) : /\ s \in Certificates /\ Round[s] \in lo..MaxRound
                               /\ s \in level[Round[s]]
  <2> SUFFICES ASSUME NEW r \in lo..MaxRound, NEW s \in level[r]
               PROVE  /\ s \in Certificates /\ Round[s] \in lo..MaxRound
                      /\ s \in level[Round[s]]
    BY <1>1
  <2> QED BY <1>7
<1>9. c \in acceptable(c)
  BY <1>1, <1>2, <1>6
<1>10. ASSUME NEW s \in acceptable(c), s # c
       PROVE  /\ s \in DOMAIN suspended /\ suspended[s] \subseteq acceptable(c)
              /\ \E p \in acceptable(c) : <<p, s>> \in missing
  <2>1. Round[s] # lo
    BY <1>6, <1>8, <1>10
  <2>2. s \in next(level[Round[s] - 1]) /\ Round[s] - 1 \in lo..MaxRound
    BY <1>2, <1>6, <1>8, <2>1
  <2>3. level[Round[s] - 1] \subseteq acceptable(c)
    BY <1>1, <2>2, Zenon
  <2> QED BY Zenon, <2>2, <2>3
<1>11. ASSUME NEW s \in DOMAIN suspended, suspended[s] \subseteq acceptable(c),
              NEW p \in suspended[s], <<p, s>> \in missing
       PROVE  s \in acceptable(c)
  <2>1. /\ s \in Certificates /\ suspended[s] \subseteq Parents[s]
        /\ Round[s] \in lo..MaxRound /\ Round[s] # lo
    <3>1. s \in Certificates /\ suspended[s] \subseteq Parents[s]
      BY DEF Edges
    <3>2. Round[p] \in lo..MaxRound /\ Round[p] + 1 = Round[s]
      BY <1>2, <1>8, <1>11, <3>1, Zenon
    <3> QED BY <1>2, <3>1, <3>2
  <2>2. \A q \in suspended[s] : Round[q] = Round[s] - 1 /\ q \in level[Round[q]]
    <3> TAKE q \in suspended[s]
    <3>1. Round[q] + 1 = Round[s] /\ Round[q] \in lo..MaxRound /\ q \in level[Round[q]]
      BY <1>2, <1>8, <1>11, <2>1, Zenon
    <3> QED BY <1>2, <2>1, <3>1
  <2>3. suspended[s] \subseteq level[Round[s] - 1]
    BY <2>2
  <2>4. s \in next(level[Round[s] - 1])
    BY <1>11, <2>3
  <2>5. s \in level[Round[s]]
    BY <1>6, <2>1, <2>4
  <2> QED BY <1>1, <2>1, <2>5
<1> QED BY Zenon, <1>8, <1>9, <1>10, <1>11

(* `missing` is determined by which pairs it has. *)
LEMMA InverseEdges ==
    ASSUME NEW M, NEW W, NEW f,
           \A e \in M : e = <<e[1], e[2]>>,
           \A p, s : <<p, s>> \in M <=> s \in W /\ p \in f[s]
    PROVE  M = UNION {f[s] \X {s} : s \in W}
<1> DEFINE U == UNION {f[s] \X {s} : s \in W}
<1>1. ASSUME NEW e \in M PROVE e \in U
  <2>1. e[2] \in W /\ e[1] \in f[e[2]]
    BY Zenon
  <2>2. <<e[1], e[2]>> \in f[e[2]] \X {e[2]}
    BY <2>1
  <2>3. e \in f[e[2]] \X {e[2]}
    BY Zenon, <2>2
  <2> QED BY <2>1, <2>3
<1>2. ASSUME NEW e \in U PROVE e \in M
  <2>1. PICK s \in W : e \in f[s] \X {s}
    BY Zenon
  <2>2. PICK p \in f[s] : e = <<p, s>>
    BY <2>1
  <2> QED BY Zenon, <2>2
<1> HIDE DEF U
<1>3. M = U
  BY Zenon, <1>1, <1>2
<1> QED BY <1>3 DEF U

(* With State exact, `missing` is the inverse of `suspended`. *)
LEMMA ExactEdges ==
    ASSUME TypeOK, NEW g \in Nat, Exact(g)
    PROVE  /\ Edges
           /\ \A p, s : <<p, s>> \in missing <=> s \in Waiting(g) /\ p \in suspended[s]
<1>1. \A p, s : <<p, s>> \in missing <=> s \in Waiting(g) /\ p \in suspended[s]
  BY DEF Exact
<1>2. Waiting(g) \subseteq DOMAIN suspended
  BY DEF Waiting
<1>3. /\ DOMAIN suspended \subseteq Certificates
      /\ \A s \in DOMAIN suspended : suspended[s] \subseteq Parents[s]
  BY DEF TypeOK
<1>4. Edges
  BY Zenon, <1>1, <1>2, <1>3 DEF Edges
<1> QED BY Zenon, <1>1, <1>4

(* What is accepted together passes the check of accept_certificate_internal: *)
(* a child was suspended for all its missing parents.                        *)
LEMMA CausalAcceptance ==
    ASSUME TypeOK, NEW g \in 0..gc_round, Exact(g),
           NEW c \in Certificates, Round[c] <= gc_round + 1 \/ Parents[c] \subseteq Known
    PROVE  /\ \A s \in acceptable(c) :
                Round[s] > gc_round + 1 => Parents[s] \subseteq Known \cup acceptable(c)
           /\ \A e \in missing : e[1] \in acceptable(c) => e[2] \in DOMAIN suspended
<1>1. g \in Nat /\ gc_round \in Nat /\ g <= gc_round
  BY RoundFacts DEF TypeOK
<1>2. /\ Edges
      /\ \A p, s : <<p, s>> \in missing <=> s \in Waiting(g) /\ p \in suspended[s]
  BY <1>1, ExactEdges
<1>3. ASSUME NEW s \in acceptable(c), Round[s] > gc_round + 1
      PROVE  Parents[s] \subseteq Known \cup acceptable(c)
  <2>1. CASE s = c
    <3>1. Round[c] \in Nat
      BY RoundFacts
    <3> QED BY <1>1, <1>3, <2>1, <3>1
  <2>2. CASE s # c
    <3>1. suspended[s] \subseteq acceptable(c) /\ s \in Waiting(g)
      BY Zenon, <1>2, <2>2, Acceptable
    <3>2. suspended[s] = Parents[s] \ Known
      BY Zenon, <3>1 DEF Exact
    <3> QED BY <3>1, <3>2
  <2> QED BY <2>1, <2>2
<1>4. ASSUME NEW e \in missing PROVE e[2] \in DOMAIN suspended
  <2>1. e = <<e[1], e[2]>>
    BY DEF TypeOK
  <2> QED BY Zenon, <1>2, <2>1 DEF Edges
<1> QED BY Zenon, <1>3, <1>4

(* Accepting a certificate with the children that it completes keeps State    *)
(* exact, and what is then to be stored is causally closed.                  *)
LEMMA AcceptStep ==
    ASSUME TypeOK, NEW g \in 0..gc_round, Exact(g), accepted = {},
           NEW c \in Certificates, c \notin DOMAIN suspended,
           Round[c] <= gc_round + 1 \/ Parents[c] \subseteq store,
           Accept(c), UNCHANGED <<store, gc_round>>
    PROVE  /\ panicked' = panicked
           /\ accepted' \subseteq Certificates
           /\ DOMAIN suspended' \subseteq DOMAIN suspended
           /\ \A s \in DOMAIN suspended' : suspended'[s] \subseteq suspended[s]
           /\ missing' \subseteq missing
           /\ AcceptedClosed'
           /\ Exact(g)'
<1> DEFINE acc == acceptable(c)
<1>1. g \in Nat /\ gc_round \in Nat /\ g <= gc_round
  BY RoundFacts DEF TypeOK
<1>2. /\ Edges
      /\ \A p, s : <<p, s>> \in missing <=> s \in Waiting(g) /\ p \in suspended[s]
  BY <1>1, ExactEdges
<1>k. Known = store
  BY DEF Known
<1>3. /\ \A s \in acc : Round[s] > gc_round + 1 => Parents[s] \subseteq store \cup acc
      /\ ~ \E e \in missing : e[1] \in acc /\ e[2] \notin DOMAIN suspended
  BY Zenon, <1>k, CausalAcceptance
<1>4. /\ accepted' = acc
      /\ suspended' = [s \in DOMAIN suspended \ acc |-> suspended[s] \ acc]
      /\ missing' = {e \in missing : e[1] \notin acc}
      /\ panicked' = panicked
  <2> HIDE DEF acc
  <2>1. \E certificates \in {acc} :
          IF \E e \in missing : e[1] \in certificates /\ e[2] \notin DOMAIN suspended
          THEN panicked' = "Inconsistency found" /\ UNCHANGED <<state_vars, accepted>>
          ELSE /\ accepted' = certificates
               /\ suspended' = released(certificates)
               /\ missing' = {e \in missing : e[1] \notin certificates}
               /\ UNCHANGED panicked
    BY Zenon DEF Accept, acc
  <2> QED BY Zenon, <1>3, <2>1 DEF released
<1>5. /\ c \in acc /\ acc \subseteq Certificates
      /\ \A s \in acc \ {c} :
           /\ s \in DOMAIN suspended /\ suspended[s] \subseteq acc
           /\ \E p \in acc : <<p, s>> \in missing
      /\ \A s \in DOMAIN suspended :
           /\ suspended[s] \subseteq acc
           /\ \E p \in suspended[s] : <<p, s>> \in missing
           => s \in acc
  BY Zenon, <1>2, Acceptable
<1> HIDE DEF acc
<1>6. DOMAIN suspended' = DOMAIN suspended \ acc
      /\ \A s \in DOMAIN suspended \ acc : suspended'[s] = suspended[s] \ acc
  BY Zenon, <1>4
<1>n. Known' = store \cup acc
  BY <1>4 DEF Known
<1>7. AcceptedClosed'
  BY Zenon, <1>3, <1>4, <1>n DEF AcceptedClosed
<1>8. Waiting(g)' = Waiting(g) \ acc
  BY Zenon, <1>6 DEF Waiting
<1>9. ASSUME NEW s \in Waiting(g)'
      PROVE  suspended'[s] = Parents[s] \ Known' /\ suspended'[s] # {}
  <2>1. s \in Waiting(g) /\ s \in DOMAIN suspended /\ s \notin acc
    BY Zenon, <1>8 DEF Waiting
  <2>2. suspended[s] = Parents[s] \ store /\ suspended[s] # {}
    BY Zenon, <1>k, <2>1 DEF Exact
  <2>3. suspended'[s] = suspended[s] \ acc
    BY Zenon, <1>6, <2>1
  <2>4. ~ (suspended[s] \subseteq acc)
    BY Zenon, <1>2, <1>5, <2>1, <2>2
  <2> QED BY Zenon, <1>n, <2>2, <2>3, <2>4
<1>10. missing' = UNION {suspended'[s] \X {s} : s \in Waiting(g)'}
  <2>1. \A p, s : <<p, s>> \in missing' <=> <<p, s>> \in missing /\ p \notin acc
    BY <1>4
  <2>2. \A e \in missing' : e = <<e[1], e[2]>>
    BY <1>4 DEF TypeOK
  <2>3. \A s \in Waiting(g) : s \in DOMAIN suspended
    BY DEF Waiting
  <2>4. ASSUME NEW p, NEW s
        PROVE  <<p, s>> \in missing' <=> s \in Waiting(g)' /\ p \in suspended'[s]
    <3>1. CASE s \in Waiting(g) \ acc
      <4>1. s \in Waiting(g)' /\ s \in DOMAIN suspended \ acc
        BY Zenon, <1>8, <2>3, <3>1
      <4>2. suspended'[s] = suspended[s] \ acc
        BY Zenon, <1>6, <4>1
      <4>3. <<p, s>> \in missing <=> p \in suspended[s]
        BY Zenon, <1>2, <3>1
      <4> QED BY Zenon, <2>1, <4>1, <4>2, <4>3
    <3>2. CASE s \in Waiting(g) \cap acc
      <4>1. suspended[s] \subseteq acc
        BY Zenon, <1>5, <2>3, <3>2
      <4> QED BY Zenon, <1>2, <1>8, <2>1, <3>2, <4>1
    <3>3. CASE s \notin Waiting(g)
      BY Zenon, <1>2, <1>8, <2>1, <3>3
    <3> QED BY Zenon, <3>1, <3>2, <3>3
  <2> DEFINE M == missing'
             W == Waiting(g)'
             f == suspended'
  <2>5. /\ \A e \in M : e = <<e[1], e[2]>>
        /\ \A p, s : <<p, s>> \in M <=> s \in W /\ p \in f[s]
    BY Zenon, <2>2, <2>4
  <2> HIDE DEF M, W, f
  <2>6. M = UNION {f[s] \X {s} : s \in W}
    BY <2>5, InverseEdges
  <2> QED BY <2>6 DEF M, W, f
<1>11. Exact(g)'
  <2>1. \A s \in DOMAIN suspended' : Round[s] # g + 1
    BY Zenon, <1>6 DEF Exact
  <2> QED BY Zenon, <1>9, <1>10, <2>1 DEF Exact
<1>12. missing' \subseteq missing /\ \A s \in DOMAIN suspended' : suspended'[s] \subseteq suspended[s]
  BY <1>4, <1>6
<1> QED BY Zenon, <1>4, <1>5, <1>6, <1>7, <1>11, <1>12

(* State::insert of a certificate above the collected rounds with the parents *)
(* that the store lacks: none of its assertions fails.                       *)
LEMMA SuspendStep ==
    ASSUME TypeOK, NEW g \in 0..gc_round, Exact(g), panicked = None, accepted = {},
           NEW c \in Certificates, Round[c] > gc_round + 1, Parents[c] \ store # {},
           Suspend(c, Parents[c] \ store), UNCHANGED <<store, accepted>>
    PROVE  /\ panicked' = None
           /\ DOMAIN suspended' = DOMAIN suspended \cup {c}
           /\ \A s \in DOMAIN suspended' : suspended'[s] \subseteq Parents[s]
           /\ missing' \subseteq Certificates \X Certificates
           /\ Exact(g)'
<1> DEFINE lacking == Parents[c] \ store
<1>1. g \in Nat /\ gc_round \in Nat /\ g <= gc_round /\ Round[c] \in Nat
  BY RoundFacts DEF TypeOK
<1>2. Round[c] > g + 1 /\ Round[c] # g + 1
  BY <1>1
<1>3. /\ Edges
      /\ \A p, s : <<p, s>> \in missing <=> s \in Waiting(g) /\ p \in suspended[s]
  BY <1>1, ExactEdges
<1>4. lacking \subseteq Certificates /\ lacking \subseteq Parents[c]
  BY RoundFacts
<1>5. Known = store /\ Known' = store
  BY DEF Known
<1> HIDE DEF lacking
<1>6. CASE c \in DOMAIN suspended
  <2>1. c \in Waiting(g)
    BY <1>2, <1>6 DEF Waiting
  <2>2. suspended[c] = lacking
    BY Zenon, <1>5, <2>1 DEF Exact, lacking
  <2>3. panicked' = None /\ UNCHANGED <<suspended, missing>>
    BY Zenon, <1>6, <2>2 DEF Suspend, lacking
  <2>4. Exact(g)'
    BY <1>5, <2>3 DEF Exact, Waiting
  <2> QED BY Zenon, <1>5, <1>6, <2>3, <2>4 DEF TypeOK
<1>7. CASE c \notin DOMAIN suspended
  <2>1. ~ (lacking \X {c} \cap missing # {})
    <3> SUFFICES ASSUME NEW e \in lacking \X {c} \cap missing PROVE FALSE
      BY Zenon
    <3>1. PICK p \in lacking : e = <<p, c>>
      OBVIOUS
    <3>2. <<p, c>> \in missing
      BY Zenon, <3>1
    <3> QED BY Zenon, <1>3, <1>7, <3>2 DEF Edges
  <2>2. /\ suspended' = [s \in DOMAIN suspended \cup {c} |->
                            IF s = c THEN lacking ELSE suspended[s]]
        /\ missing' = missing \cup lacking \X {c}
        /\ panicked' = panicked
    BY Zenon, <1>7, <2>1 DEF Suspend, lacking
  <2>3. /\ DOMAIN suspended' = DOMAIN suspended \cup {c}
        /\ suspended'[c] = lacking
        /\ \A s \in DOMAIN suspended : suspended'[s] = suspended[s]
    BY Zenon, <1>7, <2>2
  <2>4. Waiting(g)' = Waiting(g) \cup {c}
    BY <1>2, <2>3 DEF Waiting
  <2>5. \A s \in Waiting(g)' : suspended'[s] = Parents[s] \ Known' /\ suspended'[s] # {}
    <3>1. \A s \in Waiting(g) : s \in DOMAIN suspended
      BY DEF Waiting
    <3>2. \A s \in Waiting(g) : suspended[s] = Parents[s] \ store /\ suspended[s] # {}
      BY Zenon, <1>5 DEF Exact
    <3>3. Known' = store /\ lacking = Parents[c] \ store /\ lacking # {}
      BY <1>5 DEF lacking
    <3> QED BY Zenon, <2>3, <2>4, <3>1, <3>2, <3>3
  <2>6. missing' = UNION {suspended'[s] \X {s} : s \in Waiting(g)'}
    <3> DEFINE M == missing'
               W == Waiting(g)'
               f == suspended'
    <3>1. \A e \in M : e = <<e[1], e[2]>>
      BY <2>2 DEF TypeOK
    <3>2. \A p, s : <<p, s>> \in M <=> <<p, s>> \in missing \/ (p \in lacking /\ s = c)
      BY <2>2
    <3>3. \A s \in Waiting(g) : s \in DOMAIN suspended /\ s # c
      BY <1>7 DEF Waiting
    <3>4. ASSUME NEW p, NEW s
          PROVE  <<p, s>> \in M <=> s \in W /\ p \in f[s]
      <4>1. CASE s = c
        <5>1. <<p, s>> \notin missing
          BY Zenon, <1>3, <3>3, <4>1
        <5> HIDE DEF M
        <5> QED BY Zenon, <2>3, <2>4, <3>2, <4>1, <5>1
      <4>2. CASE s # c
        <5> HIDE DEF M
        <5>1. s \in W <=> s \in Waiting(g)
          BY Zenon, <2>4, <4>2
        <5>2. s \in Waiting(g) => f[s] = suspended[s]
          BY Zenon, <2>3, <3>3
        <5> HIDE DEF W, f
        <5>3. <<p, s>> \in M <=> s \in Waiting(g) /\ p \in suspended[s]
          BY <1>3, <3>2, <4>2
        <5> QED BY Zenon, <5>1, <5>2, <5>3
      <4> QED BY <4>1, <4>2
    <3> HIDE DEF M, W, f
    <3>5. M = UNION {f[s] \X {s} : s \in W}
      BY <3>1, <3>4, InverseEdges
    <3> QED BY <3>5 DEF M, W, f
  <2>7. \A s \in DOMAIN suspended' : Round[s] # g + 1
    BY Zenon, <1>2, <2>3 DEF Exact
  <2>8. Exact(g)'
    BY Zenon, <2>5, <2>6, <2>7 DEF Exact
  <2>9. /\ \A s \in DOMAIN suspended' : suspended'[s] \subseteq Parents[s]
        /\ missing' \subseteq Certificates \X Certificates
    BY <1>4, <2>2, <2>3 DEF TypeOK
  <2> QED BY Zenon, <1>5, <2>2, <2>3, <2>8, <2>9
<1> QED BY <1>6, <1>7

(* State::run_gc: the children just above gc_round are suspended, and what it *)
(* leaves is exact for gc_round.                                             *)
LEMMA CollectStep ==
    ASSUME TypeOK, NEW g \in 0..gc_round, Exact(g), RunGc
    PROVE  /\ panicked' = panicked
           /\ DOMAIN suspended' \subseteq DOMAIN suspended
           /\ \A s \in DOMAIN suspended' : suspended'[s] = suspended[s]
           /\ missing' \subseteq missing
           /\ above' \subseteq Certificates
           /\ \A c \in above' : Round[c] = gc_round + 1 /\ c \notin DOMAIN suspended'
           /\ collecting' = IF above' = {} THEN "idle" ELSE "locked"
           /\ Exact(gc_round)'
<1> DEFINE collected == {e \in missing : Round[e[1]] <= gc_round}
           next == {e[2] : e \in {x \in collected : Round[x[1]] = gc_round}}
           left == DOMAIN suspended \ {e[1] : e \in collected}
<1>1. /\ g \in Nat /\ gc_round \in Nat /\ g <= gc_round
      /\ \A c \in Certificates : Round[c] \in Nat
      /\ \A c \in Certificates : \A p \in Parents[c] : p \in Certificates /\ Round[p] + 1 = Round[c]
  BY RoundFacts DEF TypeOK
<1>2. /\ Edges
      /\ \A p, s : <<p, s>> \in missing <=> s \in Waiting(g) /\ p \in suspended[s]
  BY <1>1, ExactEdges
<1>3. /\ DOMAIN suspended \subseteq Certificates
      /\ \A s \in DOMAIN suspended : suspended[s] \subseteq Parents[s]
      /\ \A e \in missing : e = <<e[1], e[2]>>
  BY DEF TypeOK
<1>4. ASSUME NEW e \in missing
      PROVE  /\ e[2] \in Waiting(g) /\ e[2] \in DOMAIN suspended
             /\ e[1] \in suspended[e[2]] /\ Round[e[1]] + 1 = Round[e[2]]
             /\ e[1] \in Certificates /\ e[2] \in Certificates
  <2>1. e[2] \in Waiting(g) /\ e[1] \in suspended[e[2]]
    BY Zenon, <1>2, <1>3
  <2>2. e[2] \in DOMAIN suspended
    BY <2>1 DEF Waiting
  <2> QED BY Zenon, <1>1, <1>3, <2>1, <2>2
<1>5. \A c \in next : c \in DOMAIN suspended /\ Round[c] = gc_round + 1
  BY Zenon, <1>4
<1>6. \A e \in collected : Round[e[1]] <= gc_round /\ Round[e[1]] \in Nat
  BY Zenon, <1>1, <1>4
<1>7. next \subseteq left
  <2> SUFFICES ASSUME NEW c \in next, NEW e \in collected, c = e[1] PROVE FALSE
    BY <1>5
  <2>1. Round[c] = gc_round + 1 /\ Round[c] <= gc_round
    BY Zenon, <1>5, <1>6
  <2> QED BY <1>1, <2>1
<1>8. /\ above' = next
      /\ missing' = missing \ collected
      /\ suspended' = Restrict(suspended, left \ next)
      /\ collecting' = IF next = {} THEN "idle" ELSE "locked"
      /\ UNCHANGED <<panicked, Known, gc_round>>
  <2> HIDE DEF next, left, collected
  <2>1. IF next \subseteq left
        THEN /\ above' = next
             /\ missing' = missing \ collected
             /\ suspended' = Restrict(suspended, left \ next)
             /\ collecting' = IF next = {} THEN "idle" ELSE "locked"
             /\ UNCHANGED panicked
        ELSE /\ panicked' = "Inconsistency found"
             /\ UNCHANGED <<above, missing, suspended, collecting>>
    BY Zenon DEF RunGc, next, left, collected
  <2>2. UNCHANGED <<Known, gc_round>>
    BY Zenon DEF RunGc, accept_vars, Known
  <2> QED BY Zenon, <1>7, <2>1, <2>2
<1>9. /\ DOMAIN suspended' = left \ next
      /\ \A s \in left \ next : suspended'[s] = suspended[s]
  <2> HIDE DEF next, left, collected
  <2> QED BY Zenon, <1>8 DEF Restrict
<1>10. \A c \in DOMAIN suspended' : Round[c] # gc_round + 1
  <2> SUFFICES ASSUME NEW c \in DOMAIN suspended, c \notin next, Round[c] = gc_round + 1
               PROVE  FALSE
    BY Zenon, <1>9
  <2>1. Round[c] # g + 1
    BY Zenon DEF Exact
  <2>2. c \in Waiting(g)
    BY <1>1, <2>1 DEF Waiting
  <2>3. PICK p \in suspended[c] : TRUE
    BY Zenon, <2>2 DEF Exact
  <2>4. <<p, c>> \in missing
    BY Zenon, <1>2, <2>2, <2>3
  <2>5. Round[p] + 1 = Round[c] /\ Round[p] \in Nat
    BY Zenon, <1>1, <1>3, <2>3
  <2>6. Round[p] = gc_round
    BY <1>1, <2>5
  <2>7. <<p, c>> \in {x \in collected : Round[x[1]] = gc_round}
    BY <1>1, <2>4, <2>6
  <2>8. c \in next
    BY <2>7
  <2> QED BY Zenon, <2>8
<1>11. Waiting(gc_round)' = Waiting(gc_round)
  <2>1. \A c \in DOMAIN suspended : Round[c] > gc_round + 1 => c \in left \ next
    <3> SUFFICES ASSUME NEW c \in DOMAIN suspended, Round[c] > gc_round + 1
                 PROVE  c \in left \ next
      OBVIOUS
    <3>1. Round[c] \in Nat
      BY Zenon, <1>1, <1>3
    <3>2. c \notin next
      BY <1>1, <1>5, <3>1
    <3>3. ASSUME NEW e \in collected, c = e[1] PROVE FALSE
      <4>1. Round[c] <= gc_round
        BY Zenon, <1>6, <3>3
      <4> QED BY <1>1, <3>1, <4>1
    <3> QED BY <3>2, <3>3
  <2> HIDE DEF next, left
  <2>2. DOMAIN suspended' \subseteq DOMAIN suspended
    BY Zenon, <1>9 DEF left
  <2> QED BY Zenon, <1>8, <1>9, <2>1, <2>2 DEF Waiting
<1>12. Waiting(gc_round) \subseteq Waiting(g)
  BY <1>1, <1>3 DEF Waiting
<1>13. \A c \in Waiting(gc_round)' : /\ suspended'[c] = suspended[c]
                                     /\ suspended'[c] = Parents[c] \ Known'
                                     /\ suspended'[c] # {}
  <2> HIDE DEF next, left
  <2>1. \A c \in Waiting(gc_round)' : c \in DOMAIN suspended'
    BY DEF Waiting
  <2> QED BY Zenon, <1>8, <1>9, <1>11, <1>12, <2>1 DEF Exact
<1>14. missing' = UNION {suspended'[s] \X {s} : s \in Waiting(gc_round)'}
  <2> DEFINE M == missing'
             W == Waiting(gc_round)'
             f == suspended'
  <2>1. \A e \in M : e = <<e[1], e[2]>>
    BY Zenon, <1>3, <1>8
  <2>2. \A p, s : <<p, s>> \in M <=> <<p, s>> \in missing /\ ~(Round[p] <= gc_round)
    BY <1>8
  <2>3. ASSUME NEW p, NEW s
        PROVE  <<p, s>> \in M <=> s \in W /\ p \in f[s]
    <3>1. ASSUME <<p, s>> \in missing
          PROVE  ~(Round[p] <= gc_round) <=> Round[s] > gc_round + 1
      <4>1. Round[p] + 1 = Round[s] /\ Round[p] \in Nat
        <5>1. s \in DOMAIN suspended /\ p \in suspended[s]
          BY Zenon, <1>2, <3>1 DEF Edges
        <5> QED BY Zenon, <1>1, <1>3, <5>1
      <4> QED BY <1>1, <4>1
    <3>2. s \in W <=> s \in Waiting(g) /\ Round[s] > gc_round + 1
      BY <1>11, <1>12 DEF Waiting
    <3>3. s \in W => f[s] = suspended[s]
      BY Zenon, <1>13
    <3> HIDE DEF M, W, f
    <3> QED BY Zenon, <1>2, <2>2, <3>1, <3>2, <3>3
  <2> HIDE DEF M, W, f
  <2>4. M = UNION {f[s] \X {s} : s \in W}
    BY <2>1, <2>3, InverseEdges
  <2> QED BY <2>4 DEF M, W, f
<1>15. Exact(gc_round)'
  BY Zenon, <1>8, <1>10, <1>13, <1>14 DEF Exact
<1>16. \A c \in above' : /\ c \in Certificates /\ Round[c] = gc_round + 1
                         /\ c \notin DOMAIN suspended'
  <2> HIDE DEF next, left
  <2> QED BY Zenon, <1>3, <1>5, <1>8, <1>9
<1>17. DOMAIN suspended' \subseteq DOMAIN suspended /\ missing' \subseteq missing
  BY Zenon, <1>8, <1>9
<1> HIDE DEF next, left, collected
<1> QED BY Zenon, <1>8, <1>9, <1>15, <1>16, <1>17

------------------------------------------------------------------------------
(* The channel and the fetcher *)

(* A queue of at most `capacity` elements of S. *)
Queues(S, capacity) == UNION {[1..n -> S] : n \in 0..capacity}

LEMMA BoundedQueue ==
    ASSUME NEW q, NEW S, NEW capacity \in Nat
    PROVE  q \in Queues(S, capacity) <=> q \in Seq(S) /\ Len(q) <= capacity
<1>1. ASSUME NEW n \in 0..capacity, q \in [1..n -> S]
      PROVE  q \in Seq(S) /\ Len(q) <= capacity
  BY <1>1
<1>2. ASSUME q \in Seq(S), Len(q) <= capacity
      PROVE  Len(q) \in 0..capacity /\ q \in [1..Len(q) -> S]
  <2>1. Len(q) \in Nat
    BY <1>2
  <2>2. Len(q) \in 0..capacity
    BY <1>2, <2>1
  <2> QED BY <1>2, <2>2
<1> QED BY Zenon, <1>1, <1>2 DEF Queues

(* What the channel of the acceptor can hold. *)
Channels == Queues(Requests, ChannelCapacity)

(* The channel of the acceptor is a queue of at most ChannelCapacity requests. *)
LEMMA ChannelQueue ==
    ASSUME NEW q
    PROVE  q \in Channels <=> q \in Seq(Requests) /\ Len(q) <= ChannelCapacity
BY Zenon, BoundedQueue, SynchronizerAssumption DEF Channels

(* What is on its way to the consensus is a sequence of stored certificates. *)
LEMMA Transit ==
    ASSUME TypeOK
    PROVE  /\ to_dag \in Seq(store) /\ Len(to_dag) <= DagCapacity /\ DagCapacity \in Nat
           /\ unsent \in Seq(store) /\ InTransit \in Seq(store)
           /\ Range(InTransit) = {InTransit[i] : i \in 1..Len(InTransit)}
<1>1. DagCapacity \in Nat
  BY SynchronizerAssumption
<1>2. to_dag \in Queues(store, DagCapacity)
  BY Zenon DEF TypeOK, Queues
<1>3. to_dag \in Seq(store) /\ Len(to_dag) <= DagCapacity
  BY Zenon, <1>1, <1>2, BoundedQueue
<1>4. unsent \in Seq(store)
  <2>1. CASE unsent = <<>>
    BY <2>1
  <2>2. ASSUME NEW c \in store, unsent = <<c>> PROVE unsent \in Seq(store)
    BY <2>2
  <2> QED BY Zenon, <2>1, <2>2 DEF TypeOK
<1>5. InTransit \in Seq(store)
  BY <1>3, <1>4 DEF InTransit
<1>6. DOMAIN InTransit = 1..Len(InTransit)
  BY <1>5
<1>7. Range(InTransit) = {InTransit[i] : i \in 1..Len(InTransit)}
  BY Zenon, <1>6 DEF Range
<1> QED BY Zenon, <1>1, <1>3, <1>4, <1>5, <1>7

(* A response is a list of certificates. *)
LEMMA Response == ASSUME NEW peer PROVE response(peer) \in Seq(Certificates)
<1> DEFINE wanted(c) == c \in peer \ store /\ Round[c] > gc_of(committed)
           step(n, q) == IF wanted(ByRound[n]) /\ Len(q) < MaxItems
                         THEN Append(q, ByRound[n]) ELSE q
           N == Len(ByRound)
           found == CHOOSE f : f = [n \in 0..N |->
                                      IF n = 0 THEN <<>> ELSE step(n, f[n - 1])]
           D == Seq(Certificates)
           G == [n \in Nat |-> [q \in D |-> IF n \in 1..N THEN step(n, q) ELSE q]]
<1>1. response(peer) = found[N]
  BY Zenon DEF response
<1>2. N \in Nat /\ \A n \in 1..N : ByRound[n] \in Certificates
  BY SynchronizerAssumption
<1>3. G \in [Nat -> [D -> D]]
  <2>1. \A n \in 1..N, q \in D : step(n, q) \in D
    <3> TAKE n \in 1..N, q \in D
    <3>1. Append(q, ByRound[n]) \in D
      BY <1>2
    <3> HIDE DEF D, wanted
    <3> QED BY Zenon, <3>1
  <2> HIDE DEF D, step, N
  <2> QED BY Zenon, <2>1
<1>4. \E f \in [0..N -> D] : f = [n \in 0..N |-> IF n = 0 THEN <<>> ELSE step(n, f[n - 1])]
  <2> DEFINE base == <<>>
  <2>1. base \in D /\ 0 \in Nat
    OBVIOUS
  <2> HIDE DEF base, D, G, N, step
  <2>2. PICK f \in [0..N -> D] : Recursion(f, 0, N, base, G)
    BY <1>2, <1>3, <2>1, IntervalRecursion
  <2>3. f = [n \in 0..N |-> IF n = 0 THEN base ELSE G[n][f[n - 1]]]
    BY Zenon, <2>2 DEF Recursion
  <2>4. \A n \in 0..N : n # 0 => G[n][f[n - 1]] = step(n, f[n - 1])
    <3> TAKE n \in 0..N
    <3> HAVE n # 0
    <3>1. n \in Nat /\ n \in 1..N /\ n - 1 \in 0..N
      BY <1>2
    <3> QED BY Zenon, <3>1 DEF G
  <2> QED BY Zenon, <2>3, <2>4 DEF base
<1>5. found = [n \in 0..N |-> IF n = 0 THEN <<>> ELSE step(n, found[n - 1])]
  <2> HIDE DEF step, D, N
  <2> QED BY Zenon, <1>4
<1> HIDE DEF found
<1>6. 0..N \subseteq {n \in Nat : found[n] \in D}
  <2> DEFINE P == {n \in Nat : found[n] \in D}
  <2>1. 0 \in P
    <3>1. 0 \in 0..N /\ <<>> \in D
      BY <1>2
    <3> HIDE DEF step, D, N
    <3> QED BY Zenon, <1>5, <3>1
  <2>2. ASSUME NEW n \in 0..N, n > 0, n - 1 \in P PROVE n \in P
    <3>1. n \in Nat /\ n \in 1..N /\ n # 0 /\ found[n - 1] \in D
      BY <1>2, <2>2
    <3>2. step(n, found[n - 1]) \in D
      <4>1. Append(found[n - 1], ByRound[n]) \in D
        BY <1>2, <3>1
      <4> HIDE DEF D, wanted
      <4> QED BY Zenon, <3>1, <4>1
    <3> HIDE DEF step, D, N
    <3> QED BY Zenon, <1>5, <3>1, <3>2
  <2> HIDE DEF P
  <2>3. 0..N \subseteq P
    BY Zenon, <1>2, <2>1, <2>2, IntervalInduction
  <2> QED BY <2>3 DEF P
<1>7. N \in 0..N
  BY <1>2
<1> HIDE DEF N, D
<1> QED BY Zenon, <1>1, <1>6, <1>7 DEF D

------------------------------------------------------------------------------
(* The invariant *)

LEMMA InvInit == Init => IInv
<1> SUFFICES ASSUME Init PROVE IInv
  OBVIOUS
<1>1. /\ store = {} /\ delivered = {} /\ aggregated = {} /\ committed = 0
      /\ gc_round = 0 /\ DOMAIN suspended = {} /\ missing = {} /\ channel = <<>>
      /\ request = <<>> /\ collecting = "idle" /\ above = {} /\ ancestors = {}
      /\ accepted = {} /\ unsent = <<>> /\ to_dag = <<>>
      /\ targets = [o \in Origins |-> 0] /\ fetched = <<>> /\ panicked = None
      /\ restarts = 0
  BY DEF Init
<1>2. 0 \in 0..MaxRound /\ 0 \in 0..MaxRestarts /\ ChannelCapacity \in Nat
  BY RoundFacts, SynchronizerAssumption
<1>3. channel \in Channels
  <2>1. <<>> \in Seq(Requests) /\ Len(<<>>) <= ChannelCapacity
    BY <1>2
  <2> QED BY Zenon, <1>1, <2>1, ChannelQueue
<1>d. to_dag \in Queues(store, DagCapacity) /\ <<>> \in Seq(Certificates)
  <2>1. <<>> \in Seq(store) /\ Len(<<>>) <= DagCapacity /\ DagCapacity \in Nat
        /\ <<>> \in Seq(Certificates)
    BY SynchronizerAssumption
  <2> QED BY Zenon, <1>1, <2>1, BoundedQueue
<1>4. TypeOK
  <2>1. targets \in [Origins -> 0..MaxRound]
    BY <1>1, <1>2
  <2> QED BY Zenon, <1>1, <1>2, <1>3, <1>d, <2>1 DEF TypeOK, Channels, Queues
<1>5. Waiting(gc_round) = {}
  BY <1>1 DEF Waiting
<1>6. StateInv
  BY <1>1, <1>5 DEF StateInv, Exact
<1>7. gc_round <= gc_of(committed)
  BY <1>1, GcOf
<1>8. DOMAIN InTransit = {}
  BY <1>1 DEF InTransit
<1>9. StoreDelivered /\ ParentsDelivered
  BY Zenon, <1>1, <1>8 DEF StoreDelivered, ParentsDelivered
<1>10. AboveInv /\ AssertionsHold /\ StoreClosed /\ AcceptedClosed
  BY <1>1 DEF AboveInv, AssertionsHold, None, StoreClosed, AcceptedClosed
<1> QED BY <1>4, <1>6, <1>7, <1>9, <1>10 DEF IInv, SafeInv, TransitInv

LEMMA Halves ==
    /\ ParentsDelivered <=> /\ Closed(delivered, gc_of(committed))
                            /\ Ordered(InTransit, delivered, gc_of(committed))
    /\ ParentsDelivered' <=> /\ Closed(delivered', gc_of(committed)')
                             /\ Ordered(InTransit', delivered', gc_of(committed)')
BY Zenon DEF ParentsDelivered, Closed, Ordered

(* The way to the consensus is the same. *)
LEMMA TransitQuiet ==
    ASSUME TransitInv, UNCHANGED <<store, delivered, committed, InTransit>>
    PROVE  TransitInv'
<1>1. InTransit' = InTransit /\ gc_of(committed)' = gc_of(committed)
  BY DEF gc_of
<1>2. StoreDelivered'
  BY Zenon, <1>1 DEF TransitInv, StoreDelivered
<1>3. ParentsDelivered'
  BY Zenon, <1>1, Halves DEF TransitInv
<1> QED BY <1>2, <1>3 DEF TransitInv

(* A step that leaves the certificates, the rounds and State alone. *)
LEMMA Quiet ==
    ASSUME SafeInv,
           UNCHANGED <<store, accepted, delivered, committed, to_dag, unsent, gc_round,
                       suspended, missing, collecting, above, panicked>>
    PROVE  SafeInv'
<1>1. \A g : Exact(g)' <=> Exact(g)
  BY DEF Exact, Waiting, Known
<1>2. StateInv'
  BY Zenon, <1>1 DEF SafeInv, StateInv
<1>3. TransitInv'
  BY TransitQuiet DEF SafeInv, InTransit
<1>4. /\ StoreClosed' /\ AcceptedClosed' /\ AboveInv' /\ AssertionsHold'
      /\ (gc_round <= gc_of(committed))'
  BY Zenon DEF SafeInv, StoreClosed, AcceptedClosed, Known, AboveInv, AssertionsHold, gc_of
<1> QED BY <1>2, <1>3, <1>4 DEF SafeInv

(* The round whose collection State reflects. *)
LEMMA CollectedRound ==
    ASSUME IInv
    PROVE  \E g \in 0..gc_round : Exact(g) /\ (collecting # "stored" => g = gc_round)
<1>1. gc_round \in Nat
  BY RoundFacts DEF IInv, TypeOK
<1>2. gc_round \in 0..gc_round
  BY <1>1
<1> QED BY Zenon, <1>2 DEF IInv, SafeInv, StateInv

(* A certificate goes to the channel of the acceptor or to the fetcher. *)
LEMMA EnqueueType ==
    ASSUME TypeOK, NEW c \in Certificates, NEW early_suspend \in BOOLEAN,
           Enqueue(c, early_suspend)
    PROVE  /\ channel' \in Channels
           /\ ancestors' \subseteq Certificates
<1> DEFINE r == [certificate |-> c, early_suspend |-> early_suspend]
<1>1. r \in Requests
  BY DEF Requests
<1>2. channel \in Seq(Requests) /\ Len(channel) <= ChannelCapacity /\ ChannelCapacity \in Nat
  <2>1. channel \in Channels
    BY Zenon DEF TypeOK, Channels, Queues
  <2> QED BY <2>1, ChannelQueue, SynchronizerAssumption
<1> HIDE DEF r
<1>3. CASE channel' = channel /\ ancestors' = ancestors \cup {c}
  BY Zenon, <1>3 DEF TypeOK, Channels, Queues
<1>4. CASE /\ Len(channel) < ChannelCapacity
           /\ channel' = Append(channel, r)
           /\ ancestors' = ancestors
  <2>1. channel' \in Seq(Requests) /\ Len(channel') <= ChannelCapacity
    BY <1>1, <1>2, <1>4
  <2>2. channel' \in Channels
    BY Zenon, <2>1, ChannelQueue
  <2> QED BY <1>4, <2>2 DEF TypeOK
<1> QED BY Zenon, <1>3, <1>4 DEF Enqueue, r

(* The lock: accepting, suspending and the assertion that can fail. *)
LEMMA ProcessStep == ASSUME IInv, Process PROVE IInv'
<1> DEFINE c == Head(request).certificate
           lacking == Parents[c] \ store
<1>1. TypeOK /\ SafeInv
  BY DEF IInv
<1>2. c \in Certificates /\ Head(request).early_suspend \in BOOLEAN
  <2>1. request # <<>>
    BY Zenon DEF Process
  <2>2. PICK r \in Requests : request = <<r>>
    BY Zenon, <1>1, <2>1 DEF TypeOK
  <2>3. Head(request) = r
    BY <2>2
  <2> QED BY <2>2, <2>3 DEF Requests
<1>3. PICK g \in 0..gc_round : Exact(g) /\ (collecting # "stored" => g = gc_round)
  BY CollectedRound
<1>4. /\ panicked = None /\ collecting # "locked" /\ accepted = {} /\ request' \in {request, <<>>}
      /\ UNCHANGED <<store, aggregated, unsent, to_dag, delivered, committed, gc_round,
                     channel, collecting, above, targets, fetched, restarts>>
  BY Zenon DEF Process, locked
<1>5. above = {} /\ above' = {}
  BY <1>1, <1>4 DEF SafeInv, AboveInv
<1>q. request' \in {<<>>} \cup {<<r>> : r \in Requests}
  BY Zenon, <1>1, <1>4 DEF TypeOK
<1>t. /\ TransitInv' /\ StoreClosed' /\ AboveInv' /\ (gc_round <= gc_of(committed))'
  <2>1. TransitInv'
    BY Zenon, <1>1, <1>4, TransitQuiet DEF SafeInv, InTransit
  <2> QED BY Zenon, <1>1, <1>4, <1>5, <2>1 DEF SafeInv, StoreClosed, AboveInv, gc_of
<1> HIDE DEF c
<1>6. ASSUME UNCHANGED <<state_vars, accepted, ancestors>>,
             panicked' \in {None, "No missing parent"}
      PROVE  IInv'
  <2>1. TypeOK'
    BY Zenon, <1>1, <1>4, <1>6, <1>q DEF TypeOK, state_vars
  <2>2. Exact(g)' <=> Exact(g)
    BY Zenon, <1>4, <1>6 DEF Exact, Waiting, Known, state_vars
  <2>3. StateInv'
    BY <1>3, <1>4, <2>2 DEF StateInv
  <2>4. AcceptedClosed' /\ AssertionsHold'
    BY <1>4, <1>6 DEF AcceptedClosed, AssertionsHold, None
  <2> QED BY <1>t, <2>1, <2>3, <2>4 DEF IInv, SafeInv
<1>7. ASSUME Round[c] > gc_round + 1, lacking # {}, Suspend(c, lacking),
             ancestors' = ancestors \cup {c}, UNCHANGED accepted
      PROVE  IInv'
  <2>1. /\ panicked' = None
        /\ DOMAIN suspended' = DOMAIN suspended \cup {c}
        /\ \A s \in DOMAIN suspended' : suspended'[s] \subseteq Parents[s]
        /\ missing' \subseteq Certificates \X Certificates
        /\ Exact(g)'
    BY Zenon, <1>1, <1>2, <1>3, <1>4, <1>7, SuspendStep
  <2>2. TypeOK'
    <3>1. DOMAIN suspended' \subseteq Certificates /\ ancestors' \subseteq Certificates
      BY <1>1, <1>2, <1>7, <2>1 DEF TypeOK
    <3> QED BY Zenon, <1>1, <1>4, <1>7, <1>q, <2>1, <3>1 DEF TypeOK
  <2>3. StateInv'
    BY <1>3, <1>4, <2>1 DEF StateInv
  <2>4. AcceptedClosed' /\ AssertionsHold'
    BY <1>4, <1>7, <2>1 DEF AcceptedClosed, AssertionsHold, None
  <2> QED BY <1>t, <2>2, <2>3, <2>4 DEF IInv, SafeInv
<1>8. ASSUME Round[c] <= gc_round + 1 \/ lacking = {}, c \notin DOMAIN suspended,
             Accept(c), UNCHANGED ancestors
      PROVE  IInv'
  <2>1. Round[c] <= gc_round + 1 \/ Parents[c] \subseteq store
    BY <1>8
  <2>2. UNCHANGED <<store, gc_round>>
    BY <1>4
  <2>3. /\ panicked' = panicked
        /\ accepted' \subseteq Certificates
        /\ DOMAIN suspended' \subseteq DOMAIN suspended
        /\ \A s \in DOMAIN suspended' : suspended'[s] \subseteq suspended[s]
        /\ missing' \subseteq missing
        /\ AcceptedClosed'
        /\ Exact(g)'
    BY Zenon, <1>1, <1>2, <1>3, <1>4, <1>8, <2>1, <2>2, AcceptStep
  <2>4. TypeOK'
    BY Zenon, <1>1, <1>4, <1>8, <1>q, <2>3 DEF TypeOK
  <2>5. StateInv'
    BY <1>3, <1>4, <2>3 DEF StateInv
  <2>6. AssertionsHold'
    BY <1>1, <2>3 DEF SafeInv, AssertionsHold
  <2> QED BY <1>t, <2>3, <2>4, <2>5, <2>6 DEF IInv, SafeInv
<1>9. \/ UNCHANGED <<state_vars, accepted, ancestors, panicked>>
      \/ /\ Round[c] > gc_round + 1 /\ lacking # {}
         /\ Suspend(c, lacking)
         /\ ancestors' = ancestors \cup {c}
         /\ UNCHANGED accepted
      \/ /\ Round[c] <= gc_round + 1 \/ lacking = {}
         /\ c \notin DOMAIN suspended
         /\ Accept(c)
         /\ UNCHANGED ancestors
      \/ /\ panicked' = "No missing parent"
         /\ UNCHANGED <<state_vars, accepted, ancestors>>
  BY Zenon DEF Process, c
<1> QED BY Zenon, <1>4, <1>6, <1>7, <1>8, <1>9

(* The write: the parents of the lowest accepted certificate are in the       *)
(* store, so that it follows them on its way to the consensus.               *)
LEMMA StoreStep ==
    ASSUME IInv, NEW c \in Certificates, StoreCertificate(c)
    PROVE  IInv'
<1>1. TypeOK /\ SafeInv
  BY DEF IInv
<1>2. /\ unsent = <<>> /\ c \in accepted /\ \A d \in accepted : Round[c] <= Round[d]
      /\ UNCHANGED <<state_vars, to_dag, delivered, committed, gc_round, channel, request,
                     collecting, above, fetcher_vars, restarts>>
  BY Zenon DEF StoreCertificate
<1>3. /\ gc_round \in Nat /\ committed \in Nat /\ gc_of(committed) \in Nat
      /\ gc_round <= gc_of(committed)
      /\ \A d \in Certificates : Round[d] \in Nat
      /\ \A d \in Certificates : \A p \in Parents[d] : Round[p] + 1 = Round[d]
      /\ store \subseteq Certificates
  <2>1. gc_round \in 0..MaxRound /\ committed \in 0..MaxRound /\ store \subseteq Certificates
    BY Zenon, <1>1 DEF TypeOK
  <2>2. gc_round \in Nat /\ committed \in Nat
    BY <2>1, RoundFacts
  <2>3. gc_of(committed) \in Nat
    BY <2>2, GcOf
  <2>4. gc_round <= gc_of(committed)
    BY Zenon, <1>1 DEF SafeInv
  <2> QED BY Zenon, <2>1, <2>2, <2>3, <2>4, RoundFacts
<1>4. Round[c] > gc_round + 1 => Parents[c] \subseteq store
  <2> SUFFICES ASSUME Round[c] > gc_round + 1, NEW p \in Parents[c], p \notin store
               PROVE  FALSE
    OBVIOUS
  <2>1. p \in accepted
    BY <1>1, <1>2 DEF SafeInv, AcceptedClosed, Known
  <2>2. Round[c] <= Round[p] /\ Round[p] + 1 = Round[c] /\ Round[p] \in Nat
    BY <1>1, <1>2, <1>3, <2>1 DEF TypeOK
  <2> QED BY <1>3, <2>2
<1>5. /\ store' = store \cup {c} /\ aggregated' = aggregated \cup {c}
      /\ accepted' = accepted \ {c} /\ unsent' = <<c>> /\ panicked' = panicked
  BY Zenon, <1>4 DEF StoreCertificate
<1>6. Known' = Known
  BY <1>2, <1>5 DEF Known
<1>7. TypeOK'
  <2>1. to_dag \in Seq(store) /\ Len(to_dag) <= DagCapacity /\ DagCapacity \in Nat
    BY <1>1, Transit
  <2>2. to_dag' \in Seq(store')
    BY <1>2, <1>5, <2>1
  <2>3. to_dag' \in Queues(store', DagCapacity)
    BY Zenon, <1>2, <2>1, <2>2, BoundedQueue
  <2>4. to_dag' \in UNION {[1..n -> store'] : n \in 0..DagCapacity}
    BY Zenon, <2>3 DEF Queues
  <2>5. /\ store' \subseteq Certificates /\ delivered' \subseteq store'
        /\ aggregated' \subseteq store' /\ accepted' \subseteq Certificates
        /\ unsent' \in {<<>>} \cup {<<d>> : d \in store'}
    BY <1>1, <1>2, <1>5 DEF TypeOK
  <2> QED BY Zenon, <1>1, <1>2, <2>4, <2>5 DEF TypeOK, state_vars, fetcher_vars
<1>8. StateInv'
  <2>1. \A g : Exact(g)' <=> Exact(g)
    BY Zenon, <1>2, <1>6 DEF Exact, Waiting, state_vars
  <2>2. UNCHANGED <<collecting, gc_round>>
    BY <1>2
  <2> QED BY Zenon, <1>1, <2>1, <2>2 DEF SafeInv, StateInv
<1>9. StoreClosed'
  BY Zenon, <1>1, <1>2, <1>4, <1>5 DEF SafeInv, StoreClosed
<1>10. AcceptedClosed'
  BY Zenon, <1>1, <1>2, <1>5, <1>6 DEF SafeInv, AcceptedClosed
<1>11. AboveInv' /\ AssertionsHold' /\ (gc_round <= gc_of(committed))'
  BY Zenon, <1>1, <1>2, <1>5 DEF SafeInv, AboveInv, AssertionsHold, gc_of, state_vars
<1> DEFINE n == Len(InTransit)
<1>12. /\ InTransit \in Seq(store) /\ n \in Nat
       /\ InTransit' \in Seq(store') /\ Len(InTransit') = n + 1
       /\ InTransit'[n + 1] = c
       /\ \A i \in 1..n : InTransit'[i] = InTransit[i]
       /\ DOMAIN InTransit = 1..n /\ DOMAIN InTransit' = 1..(n + 1)
  <2>1. to_dag \in Seq(store) /\ to_dag' = to_dag
    BY <1>1, <1>2, Transit
  <2>2. InTransit = to_dag
    BY <1>2, <2>1 DEF InTransit
  <2>3. InTransit' = to_dag \o <<c>>
    BY <1>5, <2>1 DEF InTransit
  <2>4. to_dag \in Seq(store') /\ <<c>> \in Seq(store') /\ Len(<<c>>) = 1 /\ <<c>>[1] = c
    BY <1>5, <2>1
  <2> QED BY <2>1, <2>2, <2>3, <2>4
<1>13. /\ Range(InTransit) = {InTransit[i] : i \in 1..n}
       /\ Range(InTransit') = {InTransit'[i] : i \in 1..(n + 1)}
  BY Zenon, <1>12 DEF Range
<1>14. gc_of(committed)' = gc_of(committed)
  BY <1>2 DEF gc_of
<1> HIDE DEF n
<1>15. {InTransit'[i] : i \in 1..n} = {InTransit[i] : i \in 1..n}
  BY Zenon, <1>12
<1>16. StoreDelivered'
  <2> SUFFICES ASSUME NEW d \in store', Round[d] > gc_of(committed)
               PROVE  d \in delivered \cup Range(InTransit')
    BY <1>2, <1>14, Zenon DEF StoreDelivered
  <2>1. CASE d = c
    <3>1. n + 1 \in 1..(n + 1)
      BY <1>12
    <3> QED BY Zenon, <1>12, <1>13, <2>1, <3>1
  <2>2. CASE d \in store
    <3>1. d \in delivered \/ \E i \in 1..n : d = InTransit[i]
      BY Zenon, <1>1, <1>13, <2>2 DEF SafeInv, TransitInv, StoreDelivered
    <3>2. \A i \in 1..n : i \in 1..(n + 1)
      BY <1>12
    <3> QED BY Zenon, <1>12, <1>13, <3>1, <3>2
  <2> QED BY <1>5, <2>1, <2>2
<1>17. ParentsDelivered'
  <2>1. ASSUME NEW d \in delivered', Round[d] > gc_of(committed)' + 1
        PROVE  Parents[d] \subseteq delivered'
    BY Zenon, <1>1, <1>2, <1>14, <2>1 DEF SafeInv, TransitInv, ParentsDelivered
  <2>2. ASSUME NEW i \in DOMAIN InTransit', Round[InTransit'[i]] > gc_of(committed)' + 1
        PROVE  Parents[InTransit'[i]] \subseteq
                   delivered' \cup {InTransit'[j] : j \in 1..(i - 1)}
    <3>1. CASE i \in 1..n
      <4>1. Parents[InTransit[i]] \subseteq delivered \cup {InTransit[j] : j \in 1..(i - 1)}
        BY Zenon, <1>1, <1>12, <1>14, <2>2, <3>1 DEF SafeInv, TransitInv, ParentsDelivered
      <4>2. \A j \in 1..(i - 1) : j \in 1..n
        BY <1>12, <3>1
      <4>3. {InTransit[j] : j \in 1..(i - 1)} = {InTransit'[j] : j \in 1..(i - 1)}
        BY Zenon, <1>12, <4>2
      <4> QED BY Zenon, <1>2, <1>12, <3>1, <4>1, <4>3
    <3>2. CASE i = n + 1
      <4>1. Parents[c] \subseteq store /\ \A p \in Parents[c] : Round[p] > gc_of(committed)
        BY <1>3, <1>4, <1>12, <1>14, <2>2, <3>2
      <4>2. Parents[c] \subseteq delivered \cup {InTransit[j] : j \in 1..n}
        BY Zenon, <1>1, <1>13, <4>1 DEF SafeInv, TransitInv, StoreDelivered
      <4>3. i - 1 = n
        BY <1>12, <3>2
      <4> QED BY Zenon, <1>2, <1>12, <1>15, <3>2, <4>2, <4>3
    <3> QED BY <1>12, <3>1, <3>2
  <2> QED BY Zenon, <2>1, <2>2 DEF ParentsDelivered
<1> QED BY <1>7, <1>8, <1>9, <1>10, <1>11, <1>16, <1>17 DEF IInv, SafeInv, TransitInv

(* The send moves the certificate to the end of the channel. *)
LEMMA SendStep == ASSUME IInv, SendCertificate PROVE IInv'
<1>1. TypeOK /\ SafeInv
  BY DEF IInv
<1>2. /\ unsent # <<>> /\ Len(to_dag) < DagCapacity /\ to_dag' = to_dag \o unsent
      /\ unsent' = <<>> /\ request' \in {<<>>, request}
      /\ collecting' = collecting \/ (above = {} /\ collecting = "locked" /\ collecting' = "idle")
      /\ UNCHANGED <<state_vars, store, aggregated, accepted, delivered, committed, gc_round,
                     channel, above, fetcher_vars, panicked, restarts>>
  BY Zenon DEF SendCertificate
<1>3. /\ to_dag \in Seq(store) /\ unsent \in Seq(store) /\ InTransit \in Seq(store)
      /\ DagCapacity \in Nat
  BY <1>1, Transit
<1>4. Len(unsent) = 1
  <2>1. PICK c \in store : unsent = <<c>>
    BY Zenon, <1>1, <1>2 DEF TypeOK
  <2> QED BY <2>1
<1>5. to_dag' \in Seq(store) /\ Len(to_dag') <= DagCapacity
  <2>1. /\ to_dag \o unsent \in Seq(store)
        /\ Len(to_dag \o unsent) = Len(to_dag) + Len(unsent)
    BY <1>3, ConcatProperties
  <2>2. Len(to_dag) \in Nat
    BY <1>3
  <2> QED BY <1>2, <1>3, <1>4, <2>1, <2>2
<1>6. InTransit' = InTransit
  <2>1. InTransit' = InTransit \o <<>>
    BY <1>2 DEF InTransit
  <2> QED BY <1>3, <2>1
<1>7. TypeOK'
  <2>1. to_dag' \in Queues(store, DagCapacity)
    BY Zenon, <1>3, <1>5, BoundedQueue
  <2>2. to_dag' \in UNION {[1..n -> store'] : n \in 0..DagCapacity}
    BY Zenon, <1>2, <2>1 DEF Queues
  <2> QED BY Zenon, <1>1, <1>2, <2>2 DEF TypeOK, state_vars, fetcher_vars
<1>8. StateInv'
  <2>1. \A g : Exact(g)' <=> Exact(g)
    BY Zenon, <1>2 DEF Exact, Waiting, Known, state_vars
  <2>2. gc_round' = gc_round
        /\ (collecting' = collecting \/ (collecting = "locked" /\ collecting' = "idle"))
    BY <1>2
  <2>3. collecting' = "stored" <=> collecting = "stored"
    BY <2>2
  <2> QED BY Zenon, <1>1, <2>1, <2>2, <2>3 DEF SafeInv, StateInv
<1>9. TransitInv'
  BY Zenon, <1>1, <1>2, <1>6, TransitQuiet DEF SafeInv
<1>10. /\ StoreClosed' /\ AcceptedClosed' /\ AboveInv' /\ AssertionsHold'
       /\ (gc_round <= gc_of(committed))'
  BY Zenon, <1>1, <1>2
     DEF SafeInv, StoreClosed, AcceptedClosed, Known, AboveInv, AssertionsHold, gc_of, state_vars
<1> QED BY <1>7, <1>8, <1>9, <1>10 DEF IInv, SafeInv

(* The consensus takes the first certificate: its parents are in the DAG. *)
LEMMA InsertStep == ASSUME IInv, Insert PROVE IInv'
<1> DEFINE c == Head(to_dag)
           n == Len(InTransit)
<1>1. TypeOK /\ SafeInv
  BY DEF IInv
<1>2. /\ to_dag # <<>> /\ to_dag' = Tail(to_dag)
      /\ UNCHANGED <<state_vars, store, aggregated, accepted, unsent, committed, gc_round,
                     channel, request, collecting, above, fetcher_vars, restarts>>
  BY Zenon DEF Insert
<1>3. /\ to_dag \in Seq(store) /\ unsent \in Seq(store) /\ InTransit \in Seq(store)
      /\ DagCapacity \in Nat /\ Len(to_dag) <= DagCapacity
  BY <1>1, Transit
<1>4. /\ c \in store /\ to_dag' \in Seq(store) /\ Len(to_dag') <= DagCapacity
      /\ Len(to_dag) \in Nat /\ Len(to_dag) > 0 /\ c = to_dag[1]
      /\ Len(to_dag') = Len(to_dag) - 1
      /\ \A i \in 1..(Len(to_dag) - 1) : to_dag'[i] = to_dag[i + 1]
  BY <1>2, <1>3
<1>5. /\ n \in Nat /\ n > 0 /\ InTransit[1] = c /\ DOMAIN InTransit = 1..n
      /\ DOMAIN InTransit' = 1..(n - 1)
      /\ \A i \in 1..(n - 1) : InTransit'[i] = InTransit[i + 1]
  <2>1. InTransit' = to_dag' \o unsent
    BY <1>2 DEF InTransit
  <2>2. /\ n = Len(to_dag) + Len(unsent) /\ Len(unsent) \in Nat
        /\ InTransit[1] = to_dag[1] /\ DOMAIN InTransit = 1..n
    BY <1>3, <1>4 DEF InTransit
  <2>3. InTransit' \in Seq(store) /\ Len(InTransit') = Len(to_dag) - 1 + Len(unsent)
    <3>1. /\ to_dag' \o unsent \in Seq(store)
          /\ Len(to_dag' \o unsent) = Len(to_dag') + Len(unsent)
      BY <1>3, <1>4, ConcatProperties
    <3> QED BY <1>4, <2>1, <3>1
  <2>4. ASSUME NEW i \in 1..(n - 1) PROVE InTransit'[i] = InTransit[i + 1]
    <3>1. CASE i <= Len(to_dag) - 1
      BY <1>3, <1>4, <2>1, <2>2, <3>1 DEF InTransit
    <3>2. CASE i > Len(to_dag) - 1
      <4>1. InTransit'[i] = unsent[i - (Len(to_dag) - 1)]
        BY <1>3, <1>4, <2>1, <2>2, <2>3, <3>2
      <4>2. InTransit[i + 1] = unsent[i + 1 - Len(to_dag)]
        BY <1>3, <1>4, <2>2, <3>2 DEF InTransit
      <4> QED BY <1>4, <4>1, <4>2
    <3> QED BY <1>4, <3>1, <3>2
  <2> HIDE DEF n
  <2> QED BY <1>4, <2>2, <2>3, <2>4
<1>6. gc_of(committed)' = gc_of(committed) /\ gc_of(committed) \in Nat /\ Round[c] \in Nat
      /\ \A d \in store : Round[d] \in Nat
  BY <1>1, <1>2, <1>4, GcOf, RoundFacts DEF gc_of, TypeOK
<1> HIDE DEF n
<1>7. Round[c] > gc_of(committed) + 1 => Parents[c] \subseteq delivered
  <2> SUFFICES ASSUME Round[c] > gc_of(committed) + 1 PROVE Parents[c] \subseteq delivered
    OBVIOUS
  <2>1. 1 \in DOMAIN InTransit
    BY <1>5
  <2>2. Parents[c] \subseteq delivered \cup {InTransit[j] : j \in 1..(1 - 1)}
    BY Zenon, <1>1, <1>5, <2>1 DEF SafeInv, TransitInv, ParentsDelivered
  <2>3. 1..(1 - 1) = {}
    OBVIOUS
  <2> QED BY Zenon, <2>2, <2>3
<1>8. /\ delivered' = IF Round[c] > gc_of(committed) THEN delivered \cup {c} ELSE delivered
      /\ panicked' = panicked
  BY Zenon, <1>7 DEF Insert
<1> HIDE DEF c
<1>9. TypeOK'
  <2>1. to_dag' \in Queues(store, DagCapacity)
    BY Zenon, <1>3, <1>4, BoundedQueue
  <2>2. to_dag' \in UNION {[1..k -> store'] : k \in 0..DagCapacity}
    BY Zenon, <1>2, <2>1 DEF Queues
  <2>3. delivered' \subseteq store'
    BY <1>1, <1>2, <1>4, <1>8 DEF TypeOK
  <2> QED BY Zenon, <1>1, <1>2, <2>2, <2>3 DEF TypeOK, state_vars, fetcher_vars
<1>10. StateInv'
  <2>1. \A g : Exact(g)' <=> Exact(g)
    BY Zenon, <1>2 DEF Exact, Waiting, Known, state_vars
  <2>2. UNCHANGED <<collecting, gc_round>>
    BY <1>2
  <2> QED BY Zenon, <1>1, <2>1, <2>2 DEF SafeInv, StateInv
<1>11. /\ Range(InTransit) = {InTransit[i] : i \in 1..n}
       /\ Range(InTransit') = {InTransit'[i] : i \in 1..(n - 1)}
  BY Zenon, <1>5 DEF Range
<1>12. \A i \in 1..n : InTransit[i] = c \/ \E k \in 1..(n - 1) : k + 1 = i /\ InTransit[i] = InTransit'[k]
  <2> TAKE i \in 1..n
  <2>1. CASE i = 1
    BY Zenon, <1>5, <2>1
  <2>2. CASE i # 1
    <3>1. i - 1 \in 1..(n - 1) /\ (i - 1) + 1 = i
      BY <1>5, <2>2
    <3> QED BY <1>5, <3>1
  <2> QED BY <2>1, <2>2
<1>13. StoreDelivered'
  <2> SUFFICES ASSUME NEW d \in store, Round[d] > gc_of(committed)
               PROVE  d \in delivered' \cup Range(InTransit')
    BY <1>2, <1>6, Zenon DEF StoreDelivered
  <2>1. CASE d = c
    BY Zenon, <1>8, <2>1
  <2>2. CASE d # c
    <3>1. d \in delivered \/ \E i \in 1..n : d = InTransit[i]
      BY Zenon, <1>1, <1>11 DEF SafeInv, TransitInv, StoreDelivered
    <3>2. d \in delivered \/ \E k \in 1..(n - 1) : d = InTransit'[k]
      BY Zenon, <1>12, <2>2, <3>1
    <3> QED BY Zenon, <1>8, <1>11, <3>2
  <2> QED BY <2>1, <2>2
<1>14. ParentsDelivered'
  <2>1. ASSUME NEW d \in delivered', Round[d] > gc_of(committed)' + 1
        PROVE  Parents[d] \subseteq delivered'
    <3>1. Parents[d] \subseteq delivered
      BY Zenon, <1>1, <1>6, <1>7, <1>8, <2>1 DEF SafeInv, TransitInv, ParentsDelivered
    <3> QED BY Zenon, <1>8, <3>1
  <2>2. ASSUME NEW i \in DOMAIN InTransit', Round[InTransit'[i]] > gc_of(committed)' + 1,
               NEW p \in Parents[InTransit'[i]]
        PROVE  p \in delivered' \cup {InTransit'[j] : j \in 1..(i - 1)}
    <3>1. i \in 1..(n - 1) /\ i + 1 \in 1..n /\ (i + 1) - 1 = i /\ InTransit'[i] = InTransit[i + 1]
      BY <1>5
    <3>2. p \in delivered \/ \E j \in 1..i : p = InTransit[j]
      <4>1. Parents[InTransit[i + 1]] \subseteq
                delivered \cup {InTransit[j] : j \in 1..((i + 1) - 1)}
        BY Zenon, <1>1, <1>5, <1>6, <2>2, <3>1 DEF SafeInv, TransitInv, ParentsDelivered
      <4> QED BY Zenon, <2>2, <3>1, <4>1
    <3>3. CASE p \in delivered
      BY Zenon, <1>8, <3>3
    <3>4. CASE p = c
      <4>1. Round[p] > gc_of(committed)
        <5>1. InTransit[i + 1] \in store /\ store \subseteq Certificates
          BY <1>1, <1>3, <1>5, <3>1 DEF TypeOK
        <5>2. Round[p] + 1 = Round[InTransit[i + 1]]
          BY Zenon, <2>2, <3>1, <5>1, RoundFacts
        <5> QED BY <1>6, <2>2, <3>1, <3>4, <5>2
      <4> QED BY Zenon, <1>8, <3>4, <4>1
    <3>5. ASSUME NEW j \in 1..i, p = InTransit[j], p # c
          PROVE  p \in {InTransit'[k] : k \in 1..(i - 1)}
      <4>1. j \in 1..n
        BY <1>5, <3>1
      <4>2. PICK k \in 1..(n - 1) : k + 1 = j /\ InTransit[j] = InTransit'[k]
        BY Zenon, <1>12, <3>5, <4>1
      <4>3. k \in 1..(i - 1)
        BY <1>5, <3>1, <4>2
      <4> QED BY Zenon, <3>5, <4>2, <4>3
    <3> QED BY Zenon, <3>2, <3>3, <3>4, <3>5
  <2>3. ASSUME NEW i \in DOMAIN InTransit', Round[InTransit'[i]] > gc_of(committed)' + 1
        PROVE  Parents[InTransit'[i]] \subseteq
                   delivered' \cup {InTransit'[j] : j \in 1..(i - 1)}
    BY Zenon, <2>2, <2>3
  <2> QED BY Zenon, <2>1, <2>3 DEF ParentsDelivered
<1>15. /\ StoreClosed' /\ AcceptedClosed' /\ AboveInv' /\ AssertionsHold'
       /\ (gc_round <= gc_of(committed))'
  BY Zenon, <1>1, <1>2, <1>8
     DEF SafeInv, StoreClosed, AcceptedClosed, Known, AboveInv, AssertionsHold, gc_of, state_vars
<1> QED BY <1>9, <1>10, <1>13, <1>14, <1>15 DEF IInv, SafeInv, TransitInv

(* The collection: gc_round first, State later, then what it released. *)
LEMMA CollectionStep ==
    ASSUME IInv,
           StoreGcRound \/ RunGc \/ \E c \in Certificates : AcceptAbove(c)
    PROVE  IInv'
<1>1. TypeOK /\ SafeInv
  BY DEF IInv
<1>2. PICK g \in 0..gc_round : Exact(g) /\ (collecting # "stored" => g = gc_round)
  BY CollectedRound
<1>3. gc_round \in Nat /\ committed \in Nat /\ MaxRound \in Nat
      /\ \A c \in Certificates : Round[c] \in Nat
  BY <1>1, RoundFacts DEF TypeOK
<1>4. ASSUME StoreGcRound PROVE IInv'
  <2>1. /\ collecting = "idle" /\ collecting' = "stored" /\ gc_round' = gc_of(committed)
        /\ aggregated' \subseteq aggregated
        /\ UNCHANGED <<state_vars, store, accepted, unsent, to_dag, delivered, committed,
                       channel, request, above, fetcher_vars, panicked, restarts>>
    BY <1>4 DEF StoreGcRound
  <2>2. gc_round' \in Nat /\ gc_round <= gc_round' /\ gc_round' <= committed
    BY <1>1, <1>3, <2>1, GcOf DEF SafeInv
  <2>3. g \in 0..gc_round'
    BY <1>3, <2>2
  <2>4. TypeOK'
    <3>1. gc_round' \in 0..MaxRound /\ aggregated' \subseteq store'
      BY <1>1, <1>3, <2>1, <2>2 DEF TypeOK
    <3> QED BY Zenon, <1>1, <2>1, <3>1 DEF TypeOK, state_vars, fetcher_vars
  <2>5. Exact(g)'
    BY Zenon, <1>2, <2>1 DEF Exact, Waiting, Known, state_vars
  <2>6. StateInv'
    BY <2>1, <2>3, <2>5 DEF StateInv
  <2>7. \A c \in Certificates : Round[c] > gc_round' + 1 => Round[c] > gc_round + 1
    BY <1>3, <2>2
  <2>8. StoreClosed' /\ AcceptedClosed'
    BY Zenon, <1>1, <2>1, <2>7
       DEF SafeInv, StoreClosed, AcceptedClosed, Known, TypeOK
  <2>9. AboveInv' /\ AssertionsHold' /\ (gc_round <= gc_of(committed))'
    <3>1. gc_of(committed)' = gc_of(committed) /\ above = {}
      BY <1>1, <2>1 DEF gc_of, SafeInv, AboveInv
    <3>2. gc_round' <= gc_of(committed)'
      BY <2>1, <2>2, <3>1
    <3> QED BY Zenon, <1>1, <2>1, <3>1, <3>2 DEF SafeInv, AboveInv, AssertionsHold
  <2>10. TransitInv'
    BY Zenon, <1>1, <2>1, TransitQuiet DEF SafeInv, InTransit
  <2> QED BY <2>4, <2>6, <2>8, <2>9, <2>10 DEF IInv, SafeInv
<1>5. ASSUME RunGc PROVE IInv'
  <2>1. /\ panicked' = panicked
        /\ DOMAIN suspended' \subseteq DOMAIN suspended
        /\ \A s \in DOMAIN suspended' : suspended'[s] = suspended[s]
        /\ missing' \subseteq missing
        /\ above' \subseteq Certificates
        /\ \A c \in above' : Round[c] = gc_round + 1 /\ c \notin DOMAIN suspended'
        /\ collecting' = IF above' = {} THEN "idle" ELSE "locked"
        /\ Exact(gc_round)'
    BY Zenon, <1>1, <1>2, <1>5, CollectStep
  <2>2. UNCHANGED <<store, aggregated, accepted, unsent, to_dag, delivered, committed, gc_round,
                    channel, request, fetcher_vars, restarts>>
    BY Zenon, <1>5 DEF RunGc, accept_vars
  <2>3. TypeOK'
    <3>1. /\ DOMAIN suspended' \subseteq Certificates
          /\ \A s \in DOMAIN suspended' : suspended'[s] \subseteq Parents[s]
          /\ missing' \subseteq Certificates \X Certificates
          /\ collecting' \in {"idle", "stored", "locked"} /\ above' \subseteq Certificates
      BY <1>1, <2>1 DEF TypeOK
    <3> QED BY Zenon, <1>1, <2>2, <3>1 DEF TypeOK, fetcher_vars
  <2>4. StateInv'
    BY <2>1 DEF StateInv
  <2>5. /\ StoreClosed' /\ AcceptedClosed' /\ AboveInv' /\ AssertionsHold'
        /\ (gc_round <= gc_of(committed))'
    BY Zenon, <1>1, <2>1, <2>2
       DEF SafeInv, StoreClosed, AcceptedClosed, Known, AboveInv, AssertionsHold, gc_of
  <2>6. TransitInv'
    BY Zenon, <1>1, <2>2, TransitQuiet DEF SafeInv, InTransit
  <2> QED BY <2>3, <2>4, <2>5, <2>6 DEF IInv, SafeInv
<1>6. ASSUME NEW c \in Certificates, AcceptAbove(c) PROVE IInv'
  <2>1. /\ collecting = "locked" /\ c \in above /\ above' = above \ {c} /\ accepted = {}
        /\ Accept(c)
        /\ UNCHANGED <<store, aggregated, unsent, to_dag, delivered, committed, gc_round,
                       channel, request, collecting, fetcher_vars, restarts>>
    BY Zenon, <1>6 DEF AcceptAbove
  <2>2. Round[c] = gc_round + 1 /\ c \notin DOMAIN suspended
    BY <1>1, <2>1 DEF SafeInv, AboveInv
  <2>3. Round[c] <= gc_round + 1 /\ UNCHANGED <<store, gc_round>>
    BY <1>3, <2>1, <2>2
  <2>4. /\ panicked' = panicked
        /\ accepted' \subseteq Certificates
        /\ DOMAIN suspended' \subseteq DOMAIN suspended
        /\ \A s \in DOMAIN suspended' : suspended'[s] \subseteq suspended[s]
        /\ missing' \subseteq missing
        /\ AcceptedClosed'
        /\ Exact(g)'
    BY Zenon, <1>1, <1>2, <2>1, <2>2, <2>3, AcceptStep
  <2>5. TypeOK'
    BY Zenon, <1>1, <2>1, <2>4 DEF TypeOK, fetcher_vars
  <2>6. StateInv'
    BY <1>2, <2>1, <2>4 DEF StateInv
  <2>7. /\ StoreClosed' /\ AboveInv' /\ AssertionsHold'
        /\ (gc_round <= gc_of(committed))'
    BY Zenon, <1>1, <2>1, <2>4
       DEF SafeInv, StoreClosed, AboveInv, AssertionsHold, gc_of
  <2>8. TransitInv'
    BY Zenon, <1>1, <2>1, TransitQuiet DEF SafeInv, InTransit
  <2> QED BY <2>4, <2>5, <2>6, <2>7, <2>8 DEF IInv, SafeInv
<1> QED BY <1>4, <1>5, <1>6

(* The callers and the fetcher move certificates and change nothing else. *)
LEMMA FetcherStep ==
    ASSUME IInv,
           \/ \E c \in Sent : Send(c)
           \/ Receive
           \/ \E c \in Certificates : ReceiveAncestors(c)
           \/ \E peer \in Peers : Kickstart(peer)
           \/ AcceptFetched
    PROVE  IInv'
<1>1. TypeOK /\ SafeInv
  BY DEF IInv
<1>2. SafeInv'
  BY Zenon, Quiet, <1>1
     DEF Send, Receive, ReceiveAncestors, Kickstart, AcceptFetched, state_vars, accept_vars
<1>3. UNCHANGED <<state_vars, accept_vars, committed, gc_round, collecting, above, panicked, restarts>>
  BY Zenon DEF Send, Receive, ReceiveAncestors, Kickstart, AcceptFetched, state_vars, accept_vars
<1>f. /\ channel \in Channels
      /\ request \in {<<>>} \cup {<<r>> : r \in Requests}
      /\ ancestors \subseteq Certificates
      /\ targets \in [Origins -> 0..MaxRound]
      /\ fetched \in Seq(Certificates)
  BY Zenon, <1>1 DEF TypeOK, Channels, Queues
<1>4. channel \in Seq(Requests) /\ Len(channel) <= ChannelCapacity /\ ChannelCapacity \in Nat
  BY <1>f, ChannelQueue, SynchronizerAssumption
<1>5. ASSUME /\ channel' \in Channels
             /\ request' \in {<<>>} \cup {<<r>> : r \in Requests}
             /\ ancestors' \subseteq Certificates
             /\ targets' \in [Origins -> 0..MaxRound]
             /\ fetched' \in Seq(Certificates)
      PROVE  IInv'
  <2>1. TypeOK'
    BY Zenon, <1>1, <1>3, <1>5 DEF TypeOK, state_vars, accept_vars, Channels, Queues
  <2> QED BY <1>2, <2>1 DEF IInv
<1>6. ASSUME NEW c \in Sent, Send(c) PROVE IInv'
  <2>1. c \in Certificates /\ Enqueue(c, TRUE) /\ UNCHANGED <<request, targets, fetched>>
    BY Zenon, <1>6, SynchronizerAssumption DEF Send
  <2>2. /\ channel' \in Channels
        /\ ancestors' \subseteq Certificates
    BY Zenon, <1>1, <2>1, EnqueueType
  <2> QED BY Zenon, <1>f, <1>5, <2>1, <2>2
<1>7. ASSUME Receive PROVE IInv'
  <2>1. /\ channel # <<>> /\ channel' = Tail(channel)
        /\ request' \in {<<>>, <<Head(channel)>>}
        /\ UNCHANGED fetcher_vars
    BY Zenon, <1>7 DEF Receive
  <2>2. /\ Head(channel) \in Requests /\ channel' \in Seq(Requests)
        /\ Len(channel') <= ChannelCapacity
    BY <1>4, <2>1
  <2>3. channel' \in Channels
    BY Zenon, <2>2, ChannelQueue
  <2>4. request' \in {<<>>} \cup {<<r>> : r \in Requests}
    BY <2>1, <2>2
  <2> QED BY Zenon, <1>f, <1>5, <2>1, <2>3, <2>4 DEF fetcher_vars
<1>8. ASSUME NEW c \in Certificates, ReceiveAncestors(c) PROVE IInv'
  <2>1. /\ ancestors' = ancestors \ {c}
        /\ targets' = targets \/ targets' = [targets EXCEPT ![Origin[c]] = Round[c]]
        /\ UNCHANGED <<channel, request, fetched>>
    BY Zenon, <1>8 DEF ReceiveAncestors
  <2>2. Round[c] \in 0..MaxRound /\ targets \in [Origins -> 0..MaxRound]
    BY <1>f, RoundFacts
  <2>3. targets' \in [Origins -> 0..MaxRound]
    BY <2>1, <2>2
  <2>4. /\ channel' \in Channels /\ request' \in {<<>>} \cup {<<r>> : r \in Requests}
        /\ ancestors' \subseteq Certificates /\ fetched' \in Seq(Certificates)
    BY Zenon, <1>f, <2>1
  <2> QED BY Zenon, <1>5, <2>3, <2>4
<1>9. ASSUME NEW peer \in Peers, Kickstart(peer) PROVE IInv'
  <2>1. /\ targets' = retained
        /\ fetched' \in {response(peer), <<>>}
        /\ UNCHANGED <<channel, request, ancestors>>
    BY Zenon, <1>9 DEF Kickstart
  <2>2. targets \in [Origins -> 0..MaxRound] /\ 0 \in 0..MaxRound
    BY <1>f, RoundFacts
  <2>3. targets' \in [Origins -> 0..MaxRound]
    <3>1. retained \in [Origins -> {targets[o] : o \in Origins} \cup {0}]
      BY Zenon DEF retained
    <3> QED BY <2>1, <2>2, <3>1
  <2>4. response(peer) \in Seq(Certificates) /\ <<>> \in Seq(Certificates)
    BY Response
  <2>5. fetched' \in Seq(Certificates)
    BY Zenon, <2>1, <2>4
  <2>6. /\ channel' \in Channels /\ request' \in {<<>>} \cup {<<r>> : r \in Requests}
        /\ ancestors' \subseteq Certificates
    BY Zenon, <1>f, <2>1
  <2> QED BY Zenon, <1>5, <2>3, <2>5, <2>6
<1>10. ASSUME AcceptFetched PROVE IInv'
  <2>1. /\ fetched # <<>> /\ fetched' = Tail(fetched)
        /\ UNCHANGED <<channel, ancestors>> \/ Enqueue(Head(fetched), FALSE)
        /\ UNCHANGED <<request, targets>>
    BY Zenon, <1>10 DEF AcceptFetched
  <2>2. fetched' \in Seq(Certificates) /\ Head(fetched) \in Certificates
    BY <1>f, <2>1
  <2>3. /\ channel' \in Channels
        /\ ancestors' \subseteq Certificates
    BY Zenon, <1>1, <1>f, <2>1, <2>2, EnqueueType
  <2> QED BY Zenon, <1>f, <1>5, <2>1, <2>2, <2>3
<1> QED BY Zenon, <1>6, <1>7, <1>8, <1>9, <1>10

(* A commit raises the round up to which certificates are collected. *)
LEMMA CommitStep == ASSUME IInv, NEW r \in 1..MaxRound, Commit(r) PROVE IInv'
<1>1. TypeOK /\ SafeInv
  BY DEF IInv
<1>2. /\ committed' = r /\ r > committed
      /\ delivered' = {c \in delivered : Round[c] > gc_of(r)}
      /\ UNCHANGED <<state_vars, store, aggregated, accepted, unsent, to_dag, gc_round,
                     channel, request, collecting, above, fetcher_vars, panicked, restarts>>
  BY DEF Commit
<1>3. /\ committed \in Nat /\ r \in Nat /\ gc_round \in Nat /\ gc_of(committed) \in Nat
      /\ gc_of(r) \in Nat /\ gc_of(committed) <= gc_of(r)
      /\ \A c \in Certificates : Round[c] \in Nat
      /\ \A c \in Certificates : \A p \in Parents[c] : Round[p] + 1 = Round[c]
  <2>1. committed \in Nat /\ r \in Nat /\ gc_round \in Nat /\ committed <= r
    BY <1>1, <1>2, RoundFacts DEF TypeOK
  <2>2. gc_of(committed) \in 0..committed /\ gc_of(committed) <= gc_of(r)
    BY <2>1, GcOf
  <2>3. gc_of(r) \in 0..r
    BY <2>1, GcOf
  <2> QED BY <2>1, <2>2, <2>3, RoundFacts
<1>4. TypeOK'
  <2>1. committed' \in 0..MaxRound /\ delivered' \subseteq store'
    BY <1>1, <1>2, RoundFacts DEF TypeOK
  <2> QED BY Zenon, <1>1, <1>2, <2>1 DEF TypeOK, state_vars, fetcher_vars
<1>5. gc_of(committed)' = gc_of(r) /\ InTransit' = InTransit
  BY <1>2 DEF gc_of, InTransit
<1>6. StateInv'
  <2>1. \A g : Exact(g)' <=> Exact(g)
    BY Zenon, <1>2 DEF Exact, Waiting, Known, state_vars
  <2>2. UNCHANGED <<collecting, gc_round>>
    BY <1>2
  <2> QED BY Zenon, <1>1, <2>1, <2>2 DEF SafeInv, StateInv
<1>s. store \subseteq Certificates /\ delivered \subseteq store /\ InTransit \in Seq(store)
  BY <1>1, Transit DEF TypeOK
<1>7. StoreDelivered'
  <2> SUFFICES ASSUME NEW c \in store, Round[c] > gc_of(r)
               PROVE  c \in delivered' \cup Range(InTransit)
    BY Zenon, <1>2, <1>5 DEF StoreDelivered
  <2>1. Round[c] > gc_of(committed)
    BY <1>3, <1>s
  <2>2. c \in delivered \cup Range(InTransit)
    BY Zenon, <1>1, <2>1 DEF SafeInv, TransitInv, StoreDelivered
  <2> QED BY Zenon, <1>2, <2>2
<1>8. ParentsDelivered'
  <2>1. ASSUME NEW c \in Certificates, Round[c] > gc_of(r) + 1
        PROVE  /\ Round[c] > gc_of(committed) + 1
               /\ \A p \in Parents[c] : Round[p] > gc_of(r)
    <3>1. Round[c] \in Nat /\ Round[c] > gc_of(committed) + 1
      BY <1>3, <2>1
    <3>2. ASSUME NEW p \in Parents[c] PROVE Round[p] > gc_of(r)
      <4>1. Round[p] + 1 = Round[c] /\ Round[p] \in Nat
        <5>1. p \in Certificates
          BY RoundFacts
        <5> QED BY <1>3, <5>1
      <4> QED BY <1>3, <2>1, <3>1, <4>1
    <3> QED BY <3>1, <3>2
  <2>2. ASSUME NEW c \in delivered', Round[c] > gc_of(committed)' + 1
        PROVE  Parents[c] \subseteq delivered'
    <3>1. c \in delivered /\ c \in Certificates
      BY <1>2, <1>s
    <3>2. Round[c] > gc_of(committed) + 1 /\ \A p \in Parents[c] : Round[p] > gc_of(r)
      BY Zenon, <1>5, <2>1, <2>2, <3>1
    <3>3. Parents[c] \subseteq delivered
      BY Zenon, <1>1, <3>1, <3>2 DEF SafeInv, TransitInv, ParentsDelivered
    <3> QED BY <1>2, <3>2, <3>3
  <2>3. ASSUME NEW i \in DOMAIN InTransit, Round[InTransit[i]] > gc_of(committed)' + 1
        PROVE  Parents[InTransit[i]] \subseteq
                   delivered' \cup {InTransit[j] : j \in 1..(i - 1)}
    <3>1. InTransit[i] \in Certificates
      BY <1>s
    <3>2. /\ Round[InTransit[i]] > gc_of(committed) + 1
          /\ \A p \in Parents[InTransit[i]] : Round[p] > gc_of(r)
      BY Zenon, <1>5, <2>1, <2>3, <3>1
    <3>3. Parents[InTransit[i]] \subseteq delivered \cup {InTransit[j] : j \in 1..(i - 1)}
      BY Zenon, <1>1, <3>2 DEF SafeInv, TransitInv, ParentsDelivered
    <3> QED BY Zenon, <1>2, <3>2, <3>3
  <2>4. Closed(delivered', gc_of(committed)') /\ Ordered(InTransit, delivered', gc_of(committed)')
    BY Zenon, <2>2, <2>3 DEF Closed, Ordered
  <2> QED BY Zenon, <1>5, <2>4, Halves
<1>9. (gc_round <= gc_of(committed))'
  BY <1>1, <1>2, <1>3, <1>5 DEF SafeInv
<1>10. StoreClosed' /\ AcceptedClosed' /\ AboveInv' /\ AssertionsHold'
  BY Zenon, <1>1, <1>2
     DEF SafeInv, StoreClosed, AcceptedClosed, Known, AboveInv, AssertionsHold, state_vars
<1> QED BY <1>4, <1>6, <1>7, <1>8, <1>9, <1>10 DEF IInv, SafeInv, TransitInv

(* What a crash leaves in the store is still causally closed, and the DAG is  *)
(* rebuilt from all of it that is not collected.                             *)
LEMMA RestartStep == ASSUME IInv, Restart PROVE IInv'
<1>1. TypeOK /\ SafeInv
  BY DEF IInv
<1>2. /\ delivered' = {c \in store : Round[c] > gc_of(committed)}
      /\ aggregated' \subseteq store
      /\ gc_round' = gc_of(committed) /\ DOMAIN suspended' = {} /\ missing' = {}
      /\ channel' = <<>> /\ request' = <<>> /\ collecting' = "idle" /\ above' = {}
      /\ accepted' = {} /\ unsent' = <<>> /\ to_dag' = <<>>
      /\ ancestors' = {} /\ targets' = [o \in Origins |-> 0] /\ fetched' = <<>>
      /\ restarts' = restarts + 1 /\ restarts < MaxRestarts
      /\ UNCHANGED <<store, committed, panicked>>
  BY DEF Restart
<1>3. /\ committed \in Nat /\ gc_round \in Nat /\ gc_of(committed) \in 0..committed
      /\ MaxRound \in Nat /\ committed \in 0..MaxRound /\ gc_round <= gc_of(committed)
      /\ \A c \in Certificates : Round[c] \in Nat
      /\ \A c \in Certificates : \A p \in Parents[c] : p \in Certificates /\ Round[p] + 1 = Round[c]
      /\ MaxRestarts \in Nat /\ restarts \in Nat /\ store \subseteq Certificates
  <2>1. /\ gc_round \in 0..MaxRound /\ committed \in 0..MaxRound /\ store \subseteq Certificates
        /\ restarts \in 0..MaxRestarts
    BY Zenon, <1>1 DEF TypeOK
  <2>2. gc_round \in Nat /\ committed \in Nat /\ MaxRestarts \in Nat /\ restarts \in Nat
    BY <2>1, RoundFacts, SynchronizerAssumption
  <2>3. gc_of(committed) \in 0..committed
    BY <2>2, GcOf
  <2>4. gc_round <= gc_of(committed)
    BY Zenon, <1>1 DEF SafeInv
  <2>5. \A c \in Certificates : \A p \in Parents[c] : p \in Certificates /\ Round[p] + 1 = Round[c]
    BY Zenon, RoundFacts
  <2> QED BY Zenon, <2>1, <2>2, <2>3, <2>4, <2>5, RoundFacts
<1>4. TypeOK'
  <2>1. channel' \in Channels /\ to_dag' \in Queues(store', DagCapacity)
        /\ fetched' \in Seq(Certificates)
    <3>1. /\ <<>> \in Seq(Requests) /\ <<>> \in Seq(store') /\ <<>> \in Seq(Certificates)
          /\ Len(<<>>) <= ChannelCapacity /\ Len(<<>>) <= DagCapacity /\ DagCapacity \in Nat
      BY SynchronizerAssumption
    <3> QED BY Zenon, <1>2, <3>1, ChannelQueue, BoundedQueue
  <2>2. restarts' \in 0..MaxRestarts /\ gc_round' \in 0..MaxRound /\ committed' \in 0..MaxRound
        /\ targets' \in [Origins -> 0..MaxRound]
    BY <1>2, <1>3
  <2>3. /\ delivered' \subseteq store' /\ aggregated' \subseteq store'
        /\ store' \subseteq Certificates
    BY <1>2, <1>3
  <2> QED BY Zenon, <1>2, <2>1, <2>2, <2>3 DEF TypeOK, Channels, Queues
<1>5. \A s \in store : Round[s] > gc_of(committed) + 1 => Parents[s] \subseteq store
  <2> SUFFICES ASSUME NEW s \in store, Round[s] > gc_of(committed) + 1
               PROVE  Parents[s] \subseteq store
    OBVIOUS
  <2>1. Round[s] > gc_round + 1
    BY <1>3
  <2> QED BY <1>1, <2>1 DEF SafeInv, StoreClosed
<1>6. StoreClosed' /\ AcceptedClosed'
  BY Zenon, <1>2, <1>5 DEF StoreClosed, AcceptedClosed
<1>7. StateInv'
  <2>1. Waiting(gc_round)' = {}
    BY <1>2 DEF Waiting
  <2> QED BY <1>2, <2>1 DEF StateInv, Exact
<1>8. gc_of(committed)' = gc_of(committed) /\ DOMAIN InTransit' = {}
  BY <1>2 DEF gc_of, InTransit
<1>9. StoreDelivered'
  BY Zenon, <1>2, <1>8 DEF StoreDelivered
<1>10. ParentsDelivered'
  <2>1. ASSUME NEW c \in delivered', Round[c] > gc_of(committed) + 1
        PROVE  Parents[c] \subseteq delivered'
    <3>1. c \in store /\ Parents[c] \subseteq store
      BY <1>2, <1>5, <2>1
    <3>2. \A p \in Parents[c] : Round[p] > gc_of(committed)
      <4> TAKE p \in Parents[c]
      <4>1. Round[p] + 1 = Round[c] /\ Round[p] \in Nat
        BY <1>3, <3>1
      <4> QED BY <1>3, <2>1, <4>1
    <3> QED BY <1>2, <3>1, <3>2
  <2> QED BY Zenon, <1>8, <2>1 DEF ParentsDelivered
<1>11. (gc_round <= gc_of(committed))'
  BY <1>2, <1>3, <1>8
<1>12. AboveInv' /\ AssertionsHold'
  BY Zenon, <1>1, <1>2 DEF SafeInv, AboveInv, AssertionsHold
<1> QED BY <1>4, <1>6, <1>7, <1>9, <1>10, <1>11, <1>12 DEF IInv, SafeInv, TransitInv

LEMMA InvStep == IInv /\ [Next]_vars => IInv'
<1> SUFFICES ASSUME IInv, [Next]_vars PROVE IInv'
  OBVIOUS
<1>1. CASE UNCHANGED vars
  <2>1. TypeOK'
    BY Zenon, <1>1 DEF IInv, TypeOK, vars
  <2>2. SafeInv'
    BY Zenon, <1>1, Quiet DEF IInv, vars
  <2> QED BY <2>1, <2>2 DEF IInv
<1>2. CASE Next
  BY Zenon, <1>2, FetcherStep, ProcessStep, StoreStep, SendStep, InsertStep, CollectionStep,
     CommitStep, RestartStep DEF Next
<1> QED BY <1>1, <1>2

------------------------------------------------------------------------------
(* Theorems *)

LEMMA Invariant == Spec => []IInv
BY InvInit, InvStep, PTL DEF Spec

(* TypeOK holds in every reachable state of the synchronizer. *)
THEOREM SynchronizerTypeTheorem == Spec => []TypeOK
<1>1. IInv => TypeOK
  BY DEF IInv
<1> QED BY Invariant, <1>1, PTL

(* Whatever is stored and not yet collected is in the DAG of the consensus or *)
(* on its way there, however the writes, the sends, the collections and the  *)
(* crashes of accept_certificate_internal interleave with the consensus.     *)
THEOREM StoreDeliveredTheorem == Spec => []StoreDelivered
<1>1. IInv => StoreDelivered
  BY DEF IInv, SafeInv, TransitInv
<1> QED BY Invariant, <1>1, PTL

(* The consensus gets every certificate after its parents: check_parents      *)
(* cannot fail.                                                              *)
THEOREM ParentsDeliveredTheorem == Spec => []ParentsDelivered
<1>1. IInv => ParentsDelivered
  BY DEF IInv, SafeInv, TransitInv
<1> QED BY Invariant, <1>1, PTL

(* State::suspended and State::missing say exactly what is waited for whenever *)
(* no collection is under way.                                                *)
THEOREM SuspendedExactTheorem == Spec => []SuspendedExact
<1>1. IInv => SuspendedExact
  <2> SUFFICES ASSUME IInv, collecting = "idle" PROVE SuspendedExact
    BY DEF SuspendedExact
  <2>1. Exact(gc_round)
    BY DEF IInv, SafeInv, StateInv
  <2> QED BY Zenon, <2>1 DEF Exact, Waiting, Known, SuspendedExact
<1> QED BY Invariant, <1>1, PTL

(* The assertions of the synchronizer and of the consensus, but for the one   *)
(* of accept_children about a suspended certificate, never fail.             *)
THEOREM AssertionsHoldTheorem == Spec => []AssertionsHold
<1>1. IInv => AssertionsHold
  BY DEF IInv, SafeInv
<1> QED BY Invariant, <1>1, PTL
===============================================================================
