----------------------------- MODULE Synchronizer -----------------------------
(***************************************************************************)
(* The certificate synchronizer and the certificate fetcher of a Narwhal   *)
(* primary (narwhal/primary/src/synchronizer.rs, certificate_fetcher.rs):  *)
(* certificates arrive in any order and more than once, the acceptor task  *)
(* stores them and sends them to the consensus in causal order, suspending *)
(* those with missing parents, the fetcher asks peers for what is missing, *)
(* and the garbage collection task moves gc_round behind the consensus and *)
(* accepts what no longer needs its parents.  Acceptor and collection      *)
(* share State under a lock, which they hold until what they accept is     *)
(* stored and sent, one certificate after the other; gc_round and the      *)
(* store are read without it, and the consensus takes from its channel at  *)
(* its own pace.                                                           *)
(***************************************************************************)
EXTENDS Naturals, Sequences, Functions

CONSTANTS
    ByRound,                    \* the certificates, in the order (round, author)
    Round,                      \* the round of each certificate, from 1
    Origin,                     \* its author
    Parents,                    \* its parents, one round below; round 1: genesis
    GcDepth,
    NewCertificateRoundLimit,   \* NEW_CERTIFICATE_ROUND_LIMIT
    ChannelCapacity,            \* of tx_certificate_acceptor
    DagCapacity,                \* of tx_new_certificates
    Sent,                       \* the certificates that peers send unasked
    Peers,                      \* what the store of a peer may hold
    MaxItems,                   \* MAX_CERTIFICATES_TO_FETCH
    MaxRestarts                 \* bound: crashes

Certificates == Range(ByRound)

MaxRound == CHOOSE m \in {Round[c] : c \in Certificates} :
                \A c \in Certificates : Round[c] <= m

ASSUME SynchronizerAssumption ==
    /\ ByRound \in Seq(Certificates) \ {<<>>}
    /\ Round \in [Certificates -> Nat \ {0}]
    /\ Parents \in [Certificates -> SUBSET Certificates]
    /\ \A c \in Certificates : \A p \in Parents[c] : Round[p] = Round[c] - 1
    /\ \A i, j \in 1..Len(ByRound) : i < j => Round[ByRound[i]] <= Round[ByRound[j]]
    /\ Sent \subseteq Certificates
    /\ \A peer \in Peers : peer \subseteq Certificates
    /\ {GcDepth, NewCertificateRoundLimit, ChannelCapacity, DagCapacity, MaxItems,
        MaxRestarts} \subseteq Nat

VARIABLES
    store,        \* CertificateStore
    delivered,    \* certificates in the DAG of the consensus
    committed,    \* ConsensusRound::committed_round that the consensus publishes
    gc_round,     \* Inner::gc_round
    suspended,    \* State::suspended: certificate -> its missing parents
    missing,      \* State::missing: pairs of a missing parent and its child
    aggregated,   \* certificates used by the CertificatesAggregators
    channel,      \* tx_certificate_acceptor, a FIFO of requests
    request,      \* what the acceptor waits for the lock with, or works on under it
    collecting,   \* the garbage collection task: "idle", "stored", "locked"
    above,        \* what run_gc returned and is still to be accepted
    accepted,     \* what the holder of the lock has still to store
    unsent,       \* what it has stored and still to send to the consensus
    to_dag,       \* tx_new_certificates, a FIFO to the consensus
    ancestors,    \* the commands on the way to the fetcher
    targets,      \* CertificateFetcher::targets, 0 for none
    fetched,      \* what the fetch task has still to hand to the synchronizer
    panicked,
    restarts

state_vars == <<suspended, missing>>
accept_vars == <<store, aggregated, accepted, unsent, to_dag, delivered>>
vars == <<store, delivered, committed, gc_round, suspended, missing, aggregated,
          channel, request, collecting, above, accepted, unsent, to_dag, ancestors,
          targets, fetched, panicked, restarts>>
fetcher_vars == <<ancestors, targets, fetched>>

None == "none"

Origins == {Origin[c] : c \in Certificates}

\* early_suspend is TRUE for the certificates that peers send and FALSE for
\* fetched ones.  Own certificates take the path of the fetched ones, with all
\* parents stored, and are left out.
Requests == [certificate : Certificates, early_suspend : BOOLEAN]

TypeOK ==
    /\ store \subseteq Certificates /\ delivered \subseteq store
    /\ committed \in 0..MaxRound /\ gc_round \in 0..MaxRound
    /\ DOMAIN suspended \subseteq Certificates
    /\ \A c \in DOMAIN suspended : suspended[c] \subseteq Parents[c]
    /\ missing \subseteq Certificates \X Certificates
    /\ aggregated \subseteq store
    /\ channel \in UNION {[1..n -> Requests] : n \in 0..ChannelCapacity}
    /\ request \in {<<>>} \cup {<<r>> : r \in Requests}
    /\ collecting \in {"idle", "stored", "locked"}
    /\ above \subseteq Certificates /\ accepted \subseteq Certificates
    /\ unsent \in {<<>>} \cup {<<c>> : c \in store}
    /\ to_dag \in UNION {[1..n -> store] : n \in 0..DagCapacity}
    /\ ancestors \subseteq Certificates
    /\ targets \in [Origins -> 0..MaxRound]
    /\ fetched \in Seq(Certificates)
    /\ restarts \in 0..MaxRestarts

Init ==
    /\ store = {} /\ delivered = {} /\ aggregated = {}
    /\ committed = 0 /\ gc_round = 0
    /\ suspended = [c \in {} |-> {}] /\ missing = {}
    /\ channel = <<>> /\ request = <<>>
    /\ collecting = "idle" /\ above = {}
    /\ accepted = {} /\ unsent = <<>> /\ to_dag = <<>>
    /\ ancestors = {} /\ targets = [o \in Origins |-> 0] /\ fetched = <<>>
    /\ panicked = None /\ restarts = 0

------------------------------------------------------------------------------
(* State *)

\* Mutant: the subtraction does not saturate.
gc_of_unsaturated(round) == round - GcDepth

\* utils::gc_round.
gc_of(round) == IF round > GcDepth THEN round - GcDepth ELSE 0

\* Inner::highest_processed_round.
highest_processed_round ==
    CHOOSE r \in {0} \cup {Round[c] : c \in store} : \A c \in store : Round[c] <= r

\* Mutant: a child is accepted with the first of its missing parents.
acceptable_any(c) ==
    LET level[r \in Round[c]..MaxRound] ==
            IF r = Round[c] THEN {c}
            ELSE {s \in DOMAIN suspended : \E p \in level[r - 1] : <<p, s>> \in missing}
    IN  UNION {level[r] : r \in Round[c]..MaxRound}

\* State::accept_children of a certificate that is not suspended: what becomes
\* acceptable with it, level by level, itself included.
acceptable(c) ==
    LET level[r \in Round[c]..MaxRound] ==
            IF r = Round[c] THEN {c}
            ELSE {s \in DOMAIN suspended :
                    /\ \E p \in level[r - 1] : <<p, s>> \in missing
                    /\ suspended[s] \subseteq level[r - 1]}
    IN  UNION {level[r] : r \in Round[c]..MaxRound}

\* Mutant: the missing parents of the others are not updated.
released_all(certificates) == Restrict(suspended, DOMAIN suspended \ certificates)

\* What accept_children leaves suspended when it accepts the certificates.
released(certificates) ==
    [s \in DOMAIN suspended \ certificates |-> suspended[s] \ certificates]

\* Somebody holds the lock of State over its awaits.
locked == collecting = "locked" \/ accepted # {} \/ unsent # <<>>

\* State::accept_children under the lock; what it returns is then stored and
\* sent.
Accept(c) ==
    \E certificates \in {acceptable(c)} :
        IF \E e \in missing : e[1] \in certificates /\ e[2] \notin DOMAIN suspended
        THEN panicked' = "Inconsistency found" /\ UNCHANGED <<state_vars, accepted>>
        ELSE /\ accepted' = certificates
             /\ suspended' = released(certificates)
             /\ missing' = {e \in missing : e[1] \notin certificates}
             /\ UNCHANGED panicked

\* State::insert.
Suspend(c, missing_parents) ==
    /\ IF c \in DOMAIN suspended
       THEN /\ panicked' = IF suspended[c] = missing_parents THEN None
                           ELSE "Inconsistent missing parents"
            /\ UNCHANGED <<suspended, missing>>
       ELSE IF missing_parents \X {c} \cap missing # {}
       THEN panicked' = "Inserted twice" /\ UNCHANGED <<suspended, missing>>
       ELSE /\ suspended' = [s \in DOMAIN suspended \cup {c} |->
                                IF s = c THEN missing_parents ELSE suspended[s]]
            /\ missing' = missing \cup missing_parents \X {c}
            /\ UNCHANGED panicked

------------------------------------------------------------------------------
(* The callers, the acceptor task and the garbage collection task *)

\* process_certificate_internal up to the channel of the acceptor, for a
\* certificate that is not in the store: one that is far ahead only tells the
\* fetcher where to catch up to.
Enqueue(c, early_suspend) ==
    IF Round[c] > highest_processed_round + NewCertificateRoundLimit
    THEN ancestors' = ancestors \cup {c} /\ UNCHANGED channel
    ELSE /\ Len(channel) < ChannelCapacity
         /\ channel' = Append(channel, [certificate |-> c, early_suspend |-> early_suspend])
         /\ UNCHANGED ancestors

\* try_accept_certificate: a peer sent a certificate that is neither stored nor
\* suspended nor too old.
Send(c) ==
    /\ panicked = None
    /\ c \notin store
    /\ ~locked /\ c \notin DOMAIN suspended
    /\ Round[c] > gc_round
    /\ Enqueue(c, TRUE)
    /\ UNCHANGED <<state_vars, accept_vars, committed, gc_round, request, collecting, above, targets,
                   fetched, panicked, restarts>>

\* The acceptor task takes a certificate and looks for it in the store, before
\* it has the lock.
Receive ==
    /\ panicked = None
    /\ request = <<>> /\ channel # <<>>
    /\ channel' = Tail(channel)
    /\ request' = IF Head(channel).certificate \in store THEN <<>> ELSE <<Head(channel)>>
    /\ UNCHANGED <<state_vars, accept_vars, committed, gc_round, collecting, above,
                   fetcher_vars, panicked, restarts>>

\* process_certificate_with_lock from the lock on.
Process ==
    /\ panicked = None
    /\ request # <<>> /\ ~locked
    /\ LET c == Head(request).certificate
           missing_parents == Parents[c] \ store
       IN  \/ /\ Head(request).early_suspend /\ c \in DOMAIN suspended
              /\ request' = <<>>
              /\ UNCHANGED <<state_vars, accepted, ancestors, panicked>>
           \/ /\ ~(Head(request).early_suspend /\ c \in DOMAIN suspended)
              /\ Round[c] > gc_round + 1 /\ missing_parents # {}
              /\ Suspend(c, missing_parents)
              /\ ancestors' = ancestors \cup {c}
              /\ request' = <<>>
              /\ UNCHANGED accepted
           \/ /\ Round[c] <= gc_round + 1 \/ missing_parents = {}
              /\ c \notin DOMAIN suspended
              /\ Accept(c)
              /\ UNCHANGED <<request, ancestors>>
           \/ /\ Round[c] <= gc_round + 1 \/ missing_parents = {}
              /\ ~Head(request).early_suspend /\ c \in DOMAIN suspended
              /\ panicked' = "No missing parent"
              /\ UNCHANGED <<state_vars, accepted, request, ancestors>>
    /\ UNCHANGED <<store, aggregated, unsent, to_dag, delivered, committed, gc_round,
                   channel, collecting, above, targets, fetched, restarts>>

\* accept_certificate_internal up to its first await: the certificates are
\* taken in causal order, the parents that are not yet collected must be in the
\* store, and the write and the entry of the aggregator are one step.
StoreCertificate(c) ==
    /\ panicked = None
    /\ unsent = <<>>
    /\ c \in accepted /\ \A d \in accepted : Round[c] <= Round[d]
    /\ IF Round[c] > gc_round + 1 /\ ~(Parents[c] \subseteq store)
       THEN panicked' = "Parent not found" /\ UNCHANGED <<store, aggregated, accepted, unsent>>
       ELSE /\ store' = store \cup {c}
            /\ aggregated' = aggregated \cup {c}
            /\ accepted' = accepted \ {c}
            /\ unsent' = <<c>>
            /\ UNCHANGED panicked
    /\ UNCHANGED <<state_vars, to_dag, delivered, committed, gc_round, channel, request,
                   collecting, above, fetcher_vars, restarts>>

\* Mutant: when the channel to the consensus is full, the certificate is dropped
\* with a warning.
SendCertificateLossy ==
    /\ panicked = None
    /\ unsent # <<>>
    /\ to_dag' = IF Len(to_dag) < DagCapacity THEN to_dag \o unsent ELSE to_dag
    /\ unsent' = <<>>
    /\ request' = IF accepted = {} /\ collecting # "locked" THEN <<>> ELSE request
    /\ collecting' = IF accepted = {} /\ above = {} /\ collecting = "locked" THEN "idle"
                     ELSE collecting
    /\ UNCHANGED <<state_vars, store, aggregated, accepted, delivered, committed, gc_round,
                   channel, above, fetcher_vars, panicked, restarts>>

\* The rest of accept_certificate_internal, once the channel to the consensus
\* has room.  After the last certificate the acceptor answers its request, or
\* the collection ends, and the lock is free.
SendCertificate ==
    /\ panicked = None
    /\ unsent # <<>> /\ Len(to_dag) < DagCapacity
    /\ to_dag' = to_dag \o unsent
    /\ unsent' = <<>>
    /\ request' = IF accepted = {} /\ collecting # "locked" THEN <<>> ELSE request
    /\ collecting' = IF accepted = {} /\ above = {} /\ collecting = "locked" THEN "idle"
                     ELSE collecting
    /\ UNCHANGED <<state_vars, store, aggregated, accepted, delivered, committed, gc_round,
                   channel, above, fetcher_vars, panicked, restarts>>

\* Mutant: the task takes committed_round for gc_round.
StoreCommittedRound ==
    /\ panicked = None
    /\ collecting = "idle" /\ gc_round # committed
    /\ gc_round' = committed
    /\ aggregated' = {c \in aggregated : Round[c] > gc_round'}
    /\ collecting' = "stored"
    /\ UNCHANGED <<state_vars, store, accepted, unsent, to_dag, delivered, committed, channel,
                   request, above, fetcher_vars, panicked, restarts>>

\* The garbage collection task stores the round that the consensus published.
StoreGcRound ==
    /\ panicked = None
    /\ collecting = "idle" /\ gc_round # gc_of(committed)
    /\ gc_round' = gc_of(committed)
    /\ aggregated' = {c \in aggregated : Round[c] > gc_round'}
    /\ collecting' = "stored"
    /\ UNCHANGED <<state_vars, store, accepted, unsent, to_dag, delivered, committed, channel,
                   request, above, fetcher_vars, panicked, restarts>>

\* State::run_gc, once the task has the lock.
RunGc ==
    /\ panicked = None
    /\ collecting = "stored" /\ ~locked
    /\ LET collected == {e \in missing : Round[e[1]] <= gc_round}
           next == {e[2] : e \in {x \in collected : Round[x[1]] = gc_round}}
           left == DOMAIN suspended \ {e[1] : e \in collected}
       IN  IF next \subseteq left
           THEN /\ above' = next
                /\ missing' = missing \ collected
                /\ suspended' = Restrict(suspended, left \ next)
                /\ collecting' = IF next = {} THEN "idle" ELSE "locked"
                /\ UNCHANGED panicked
           ELSE /\ panicked' = "Inconsistency found"
                /\ UNCHANGED <<above, missing, suspended, collecting>>
    /\ UNCHANGED <<accept_vars, committed, gc_round, channel, request, fetcher_vars, restarts>>

\* The next certificate at gc_round + 1 and the children that it completes.
AcceptAbove(c) ==
    /\ panicked = None
    /\ collecting = "locked" /\ c \in above
    /\ accepted = {} /\ unsent = <<>>
    /\ Accept(c)
    /\ above' = above \ {c}
    /\ UNCHANGED <<store, aggregated, unsent, to_dag, delivered, committed, gc_round, channel,
                   request, collecting, fetcher_vars, restarts>>

------------------------------------------------------------------------------
(* The certificate fetcher *)

last_round_number(o) ==
    LET rounds == {Round[c] : c \in {x \in store : Origin[x] = o}} \cup {0}
    IN  CHOOSE r \in rounds : \A q \in rounds : q <= r

\* Mutant: the round is compared with the highest one of any author.
ReceiveAncestorsAhead(c) ==
    /\ panicked = None
    /\ c \in ancestors
    /\ ancestors' = ancestors \ {c}
    /\ targets' = IF Round[c] <= targets[Origin[c]] \/ Round[c] <= highest_processed_round
                  THEN targets ELSE [targets EXCEPT ![Origin[c]] = Round[c]]
    /\ UNCHANGED <<state_vars, accept_vars, committed, gc_round, channel, request, collecting,
                   above, fetched, panicked, restarts>>

\* CertificateFetcher::run for a command Ancestors.
ReceiveAncestors(c) ==
    /\ panicked = None
    /\ c \in ancestors
    /\ ancestors' = ancestors \ {c}
    /\ targets' = IF Round[c] <= targets[Origin[c]] \/ Round[c] <= last_round_number(Origin[c])
                  THEN targets ELSE [targets EXCEPT ![Origin[c]] = Round[c]]
    /\ UNCHANGED <<state_vars, accept_vars, committed, gc_round, channel, request, collecting,
                   above, fetched, panicked, restarts>>

\* The targets that the store has not reached.
retained ==
    [o \in Origins |->
        LET last == last_round_number(o)
            gc == gc_of(committed)
        IN  IF (IF last > gc THEN last ELSE gc) < targets[o] THEN targets[o] ELSE 0]

\* fetch_certificates of a peer: what it has after the collected rounds and the
\* requester has not, the lower rounds first.
response(peer) ==
    LET wanted(c) == c \in peer \ store /\ Round[c] > gc_of(committed)
        found[n \in 0..Len(ByRound)] ==
            IF n = 0 THEN <<>>
            ELSE IF wanted(ByRound[n]) /\ Len(found[n - 1]) < MaxItems
                 THEN Append(found[n - 1], ByRound[n]) ELSE found[n - 1]
    IN  found[Len(ByRound)]

\* kickstart and the request to one peer; a new fetch task starts when the last
\* one is done, as long as there are targets.
Kickstart(peer) ==
    /\ panicked = None
    /\ fetched = <<>>
    /\ \E o \in Origins : targets[o] > 0
    /\ targets' = retained
    /\ fetched' = IF \E o \in Origins : retained[o] > 0 THEN response(peer) ELSE <<>>
    /\ UNCHANGED <<state_vars, accept_vars, committed, gc_round, channel, request, collecting,
                   above, ancestors, panicked, restarts>>

\* try_accept_fetched_certificate: the next certificate of the response, once
\* the acceptor has answered for the one before.  It was sanitized when the
\* response came.
AcceptFetched ==
    /\ panicked = None
    /\ fetched # <<>>
    /\ \A r \in Range(channel \o request) : r.early_suspend
    /\ IF Head(fetched) \in store THEN UNCHANGED <<channel, ancestors>>
       ELSE Enqueue(Head(fetched), FALSE)
    /\ fetched' = Tail(fetched)
    /\ UNCHANGED <<state_vars, accept_vars, committed, gc_round, request, collecting, above,
                   targets, panicked, restarts>>

------------------------------------------------------------------------------
(* The consensus, and crashes *)

\* Consensus::run_inner and try_insert for the next certificate.
Insert ==
    /\ panicked = None
    /\ to_dag # <<>>
    /\ to_dag' = Tail(to_dag)
    /\ LET c == Head(to_dag)
       IN  IF Round[c] > gc_of(committed) + 1 /\ ~(Parents[c] \subseteq delivered)
           THEN panicked' = "Parent not in DAG" /\ UNCHANGED delivered
           ELSE /\ delivered' = IF Round[c] > gc_of(committed) THEN delivered \cup {c}
                                ELSE delivered
                /\ UNCHANGED panicked
    /\ UNCHANGED <<state_vars, store, aggregated, accepted, unsent, committed, gc_round, channel,
                   request, collecting, above, fetcher_vars, restarts>>

\* The consensus commits a leader of an even round that the next one supports,
\* and purges what is then collected.
Commit(r) ==
    /\ panicked = None
    /\ r > committed /\ r % 2 = 0
    /\ {r, r + 1} \subseteq {Round[c] : c \in delivered}
    /\ committed' = r
    /\ delivered' = {c \in delivered : Round[c] > gc_of(r)}
    /\ UNCHANGED <<state_vars, store, aggregated, accepted, unsent, to_dag, gc_round, channel,
                   request, collecting, above, fetcher_vars, panicked, restarts>>

\* The node crashes, perhaps between the writes of accepted certificates or
\* before the consensus got them, and starts from its stores: the consensus
\* rebuilds its DAG, the aggregators take the last two rounds.
Restart ==
    /\ panicked = None
    /\ restarts < MaxRestarts
    /\ delivered' = {c \in store : Round[c] > gc_of(committed)}
    /\ aggregated' = {c \in store : \A d \in store : Round[d] <= Round[c] + 1}
    /\ gc_round' = gc_of(committed)
    /\ suspended' = [c \in {} |-> {}] /\ missing' = {}
    /\ channel' = <<>> /\ request' = <<>>
    /\ collecting' = "idle" /\ above' = {}
    /\ accepted' = {} /\ unsent' = <<>> /\ to_dag' = <<>>
    /\ ancestors' = {} /\ targets' = [o \in Origins |-> 0] /\ fetched' = <<>>
    /\ restarts' = restarts + 1
    /\ UNCHANGED <<store, committed, panicked>>

------------------------------------------------------------------------------
Next ==
    \/ \E c \in Sent : Send(c)
    \/ Receive
    \/ Process
    \/ \E c \in Certificates : StoreCertificate(c)
    \/ SendCertificate
    \/ StoreGcRound
    \/ RunGc
    \/ \E c \in Certificates : AcceptAbove(c)
    \/ \E c \in Certificates : ReceiveAncestors(c)
    \/ \E peer \in Peers : Kickstart(peer)
    \/ AcceptFetched
    \/ Insert
    \/ \E r \in 1..MaxRound : Commit(r)
    \/ Restart

Spec == Init /\ [][Next]_vars

\* The tasks run on, the fetcher picks its peers at random, and the channel of
\* the acceptor serves its senders in order.
Fairness ==
    /\ WF_vars(Receive)
    /\ WF_vars(Process)
    /\ WF_vars(\E c \in Certificates : StoreCertificate(c))
    /\ WF_vars(SendCertificate)
    /\ WF_vars(Insert)
    /\ WF_vars(StoreGcRound)
    /\ WF_vars(RunGc)
    /\ WF_vars(\E c \in Certificates : AcceptAbove(c))
    /\ WF_vars(\E c \in Certificates : ReceiveAncestors(c))
    /\ \A peer \in Peers : SF_vars(Kickstart(peer))
    /\ SF_vars(AcceptFetched)

FairSpec == Spec /\ Fairness

------------------------------------------------------------------------------
(* Properties *)

\* What is on its way to the consensus, in order.
InTransit == to_dag \o unsent

\* Whoever takes what is on its way in order finds its parents in the DAG,
\* unless they are collected.  So check_parents of the consensus never panics,
\* whatever the order of arrivals, collections and crashes, and although
\* certificates are stored, sent and inserted apart.
ParentsDelivered ==
    /\ \A c \in delivered :
          Round[c] > gc_of(committed) + 1 => Parents[c] \subseteq delivered
    /\ \A i \in DOMAIN InTransit :
          Round[InTransit[i]] > gc_of(committed) + 1 =>
              Parents[InTransit[i]] \subseteq delivered \cup {InTransit[j] : j \in 1..(i - 1)}

\* The store and the DAG of the consensus do not diverge: what was stored and is
\* not collected is in the DAG or on its way there, also after a crash between
\* the write and the delivery.
StoreDelivered ==
    {c \in store : Round[c] > gc_of(committed)} \subseteq delivered \cup Range(InTransit)

\* Unless a collection is pending or under way, the suspended certificates
\* above the next collection wait for exactly the parents that are neither in
\* the store nor about to be stored, and `missing` is the inverse of these sets.
SuspendedExact ==
    collecting = "idle" =>
        LET waiting == {c \in DOMAIN suspended : Round[c] > gc_round + 1}
        IN  /\ \A c \in DOMAIN suspended : Round[c] # gc_round + 1
            /\ \A c \in waiting : suspended[c] = Parents[c] \ (store \cup accepted) /\ suspended[c] # {}
            /\ missing = UNION {suspended[c] \X {c} : c \in waiting}

\* The assertions of State::insert, accept_children, run_gc,
\* accept_certificate_internal and check_parents: the missing parents of a
\* certificate that is suspended again are the ones it was suspended with, no
\* child is recorded twice or lost, and no certificate is stored or inserted
\* before its parents.
AssertionsHold ==
    panicked \notin {"Inconsistent missing parents", "Inserted twice", "Inconsistency found",
                     "Parent not found", "Parent not in DAG"}

\* accept_children asserts that a certificate it is called for is not suspended
\* ("Suspended certificate {digest:?} has no missing parent").
AcceptedNotSuspended == panicked # "No missing parent"

\* The store has a certificate of this author at this round or a later one, or
\* the round is collected.
caught_up(c) == last_round_number(Origin[c]) >= Round[c] \/ gc_round >= Round[c]

\* The fetcher brings the store up to every certificate that stays suspended,
\* whichever peers answer, whatever is collected meanwhile and however the
\* answers race with what peers send: a target is never dropped too early.
SuspendedCaughtUp ==
    <>[](panicked # None \/ \A c \in DOMAIN suspended : caught_up(c))
===============================================================================
