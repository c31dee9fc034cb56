------------------------------ MODULE Subscriber ------------------------------
(***************************************************************************)
(* From the consensus output to the persisted state, across crashes:       *)
(* Consensus::run_inner persists and sends committed sub-dags, the         *)
(* Subscriber (narwhal/executor/src/subscriber.rs) downloads their batches *)
(* concurrently and delivers them in order, run_notify hands them to       *)
(* ChaseExecutionState (stack/src/execution_state.rs), which executes the  *)
(* batches and then stores the index; a restarted node reads the sub-dags  *)
(* back (get_restored_consensus_output).  A sub-dag is its index.          *)
(***************************************************************************)
EXTENDS Integers, Sequences

CONSTANTS
    MaxIndex,        \* bound: sub-dags committed
    MaxCommit,       \* bound: sub-dags one certificate commits
    MaxCrashes,      \* bound: crashes
    Batches,         \* the number of batches of a sub-dag
    ChannelCapacity,
    MaxPending,      \* MAX_PENDING_PAYLOADS
    IndexMayFail     \* whether the store of the index can fail

Indexes == 1..MaxIndex

ASSUME SubscriberAssumption ==
    /\ MaxIndex \in Nat /\ MaxCommit \in Nat /\ MaxCrashes \in Nat
    /\ Batches \in [Indexes -> Nat]
    /\ ChannelCapacity \in Nat \ {0} /\ MaxPending \in Nat \ {0}
    /\ IndexMayFail \in BOOLEAN

VARIABLES
    committed,      \* the latest index in the consensus store
    unsent,         \* sub-dags that process_certificate has just committed
    rx_sequence,    \* channel from the consensus
    waiting,        \* FuturesOrdered of the downloads
    sending,        \* the message waiting for tx_notifier, 0 if none
    rx_notify,      \* channel to run_notify
    handling,       \* the sub-dag being executed, 0 if none
    batch,          \* its batches that are persisted
    last_executed,  \* execution_index in RocksDB
    done,           \* history: the batches whose effects were persisted
    misread,        \* history: the last restart could not read the index
    crashes         \* bounds the restarts

queueVars == <<unsent, rx_sequence, waiting, sending, rx_notify>>
execVars == <<handling, batch, last_executed, done>>
historyVars == <<misread, crashes>>
vars == <<committed, queueVars, execVars, historyVars>>

Download == [index : Indexes, fetched : BOOLEAN]

TypeOK ==
    /\ committed \in 0..MaxIndex
    /\ unsent \in Seq(Indexes) /\ rx_sequence \in Seq(Indexes)
    /\ waiting \in Seq(Download)
    /\ sending \in 0..MaxIndex
    /\ rx_notify \in Seq(Indexes)
    /\ handling \in 0..MaxIndex
    /\ batch \in Nat
    /\ handling # 0 => batch <= Batches[handling]
    /\ last_executed \in 0..MaxIndex
    /\ done \subseteq (Indexes \X Nat)
    /\ misread \in BOOLEAN
    /\ crashes \in Nat

Init ==
    /\ committed = 0
    /\ unsent = <<>> /\ rx_sequence = <<>> /\ waiting = <<>>
    /\ sending = 0 /\ rx_notify = <<>>
    /\ handling = 0 /\ batch = 0 /\ last_executed = 0 /\ done = {}
    /\ misread = FALSE /\ crashes = 0

------------------------------------------------------------------------------
(* Consensus *)

\* process_certificate: each sub-dag is in the store before the first is sent;
\* a crash in between is a smaller n and a crash.
Commit(n) ==
    /\ unsent = <<>>
    /\ committed + n <= MaxIndex
    /\ committed' = committed + n
    /\ unsent' = [j \in 1..n |-> committed + j]
    /\ UNCHANGED <<rx_sequence, waiting, sending, rx_notify, execVars, historyVars>>

\* tx_sequence.send(committed_sub_dag).await.
SendSequence ==
    /\ unsent # <<>>
    /\ Len(rx_sequence) < ChannelCapacity
    /\ rx_sequence' = Append(rx_sequence, Head(unsent))
    /\ unsent' = Tail(unsent)
    /\ UNCHANGED <<committed, waiting, sending, rx_notify, execVars, historyVars>>

------------------------------------------------------------------------------
(* Subscriber::run *)

download(i) == [index |-> i, fetched |-> FALSE]

ReceiveSubDag ==
    /\ sending = 0
    /\ rx_sequence # <<>>
    /\ Len(waiting) < MaxPending
    /\ waiting' = Append(waiting, download(Head(rx_sequence)))
    /\ rx_sequence' = Tail(rx_sequence)
    /\ UNCHANGED <<committed, unsent, sending, rx_notify, execVars, historyVars>>

\* A download ends, after any number of failures; it is only polled while the
\* loop waits in select.
FetchBatches(j) ==
    /\ sending = 0
    /\ ~waiting[j].fetched
    /\ waiting' = [waiting EXCEPT ![j].fetched = TRUE]
    /\ UNCHANGED <<committed, unsent, rx_sequence, sending, rx_notify, execVars,
                   historyVars>>

\* Mutant: whatever has been downloaded is delivered.
DeliverAny ==
    /\ sending = 0
    /\ \E j \in DOMAIN waiting :
        /\ waiting[j].fetched
        /\ sending' = waiting[j].index
        /\ waiting' = SubSeq(waiting, 1, j - 1) \o SubSeq(waiting, j + 1, Len(waiting))
    /\ UNCHANGED <<committed, unsent, rx_sequence, rx_notify, execVars, historyVars>>

\* waiting.next(): only the oldest download is delivered.
Deliver ==
    /\ sending = 0
    /\ waiting # <<>> /\ Head(waiting).fetched
    /\ sending' = Head(waiting).index
    /\ waiting' = Tail(waiting)
    /\ UNCHANGED <<committed, unsent, rx_sequence, rx_notify, execVars, historyVars>>

\* tx_notifier.send(message).await.
SendNotify ==
    /\ sending # 0
    /\ Len(rx_notify) < ChannelCapacity
    /\ rx_notify' = Append(rx_notify, sending)
    /\ sending' = 0
    /\ UNCHANGED <<committed, unsent, rx_sequence, waiting, execVars, historyVars>>

------------------------------------------------------------------------------
(* run_notify and ChaseExecutionState::handle_consensus_output *)

Handle ==
    /\ handling = 0
    /\ rx_notify # <<>>
    /\ handling' = Head(rx_notify)
    /\ batch' = 0
    /\ rx_notify' = Tail(rx_notify)
    /\ UNCHANGED <<committed, unsent, rx_sequence, waiting, sending, last_executed,
                   done, historyVars>>

\* Mutant: one batch too many.
ExecuteBatchPastEnd ==
    /\ handling # 0 /\ batch <= Batches[handling]
    /\ done' = done \cup {<<handling, batch + 1>>}
    /\ batch' = batch + 1
    /\ UNCHANGED <<committed, queueVars, handling, last_executed, historyVars>>

\* execute: the next batch has been executed and written to RocksDB.
ExecuteBatch ==
    /\ handling # 0 /\ batch < Batches[handling]
    /\ done' = done \cup {<<handling, batch + 1>>}
    /\ batch' = batch + 1
    /\ UNCHANGED <<committed, queueVars, handling, last_executed, historyVars>>

\* set_last_executed_sub_dag_index, whose error is only logged.
StoreIndex ==
    /\ handling # 0 /\ batch = Batches[handling]
    /\ \/ last_executed' = handling
       \/ IndexMayFail /\ last_executed' = last_executed
    /\ handling' = 0
    /\ UNCHANGED <<committed, queueVars, batch, done, historyVars>>

------------------------------------------------------------------------------
(* Crash and restart *)

\* Mutant: only the last committed sub-dag is recovered.
restored_last(index) ==
    [j \in 1..(IF committed = 0 THEN 0 ELSE 1) |-> download(committed)]

\* Mutant: every sub-dag is recovered, whatever the index.
restored_all(index) == [j \in 1..committed |-> download(j)]

\* Mutant: nothing is recovered.
restored_none(index) == <<>>

\* get_restored_consensus_output: the sub-dags with at least this index.
restored(index) ==
    LET before == IF index = 0 THEN 0 ELSE index - 1
    IN  [j \in 1..(committed - before) |-> download(before + j)]

\* The node stops anywhere and starts again; last_executed_sub_dag_index is 0
\* when it cannot be read.
Restart ==
    /\ crashes < MaxCrashes
    /\ crashes' = crashes + 1
    /\ misread' \in {FALSE, IndexMayFail}
    /\ waiting' = restored(IF misread' THEN 0 ELSE last_executed)
    /\ unsent' = <<>> /\ rx_sequence' = <<>> /\ sending' = 0 /\ rx_notify' = <<>>
    /\ handling' = 0 /\ batch' = 0
    /\ UNCHANGED <<committed, last_executed, done>>

Node ==
    \/ SendSequence \/ ReceiveSubDag \/ Deliver \/ SendNotify
    \/ Handle \/ ExecuteBatch \/ StoreIndex
    \/ \E j \in DOMAIN waiting : FetchBatches(j)

Next == Node \/ Restart \/ \E n \in 1..MaxCommit : Commit(n)

Spec == Init /\ [][Next]_vars

\* tokio keeps polling every task; the download of a certified batch is
\* retried until it succeeds.
FairSpec == Spec /\ WF_vars(SendSequence) /\ WF_vars(Handle \/ ExecuteBatch \/ StoreIndex)
                 /\ WF_vars(SendNotify)
                 /\ SF_vars(ReceiveSubDag) /\ SF_vars(Deliver)
                 /\ SF_vars(\E j \in DOMAIN waiting : FetchBatches(j))

------------------------------------------------------------------------------
(* Properties *)

\* Every batch of a sub-dag has been executed.
Executed(i) == {<<i, b>> : b \in 1..Batches[i]} \subseteq done

\* Effects are persisted in the order of the consensus without a gap, also
\* across crashes: a batch only when all batches before it, of its sub-dag and
\* of the earlier sub-dags, have been.
NothingSkipped ==
    \A e \in done :
        /\ \A i \in 1..(e[1] - 1) : Executed(i)
        /\ \A b \in 1..e[2] : <<e[1], b>> \in done

\* What the tasks hold, oldest first.
InFlight ==
    (IF handling = 0 THEN <<>> ELSE <<handling>>) \o rx_notify
    \o (IF sending = 0 THEN <<>> ELSE <<sending>>)
    \o [j \in DOMAIN waiting |-> waiting[j].index] \o rx_sequence \o unsent

\* Between the consensus store and the index every sub-dag is on its way
\* exactly once and in order, after a restart with a restored backlog too.
HandedOnOnce ==
    \A j \in DOMAIN InFlight : InFlight[j] = committed - Len(InFlight) + j

\* A restart goes back no further than the stored index, unless the index could
\* not be read: nothing below it is executed again.  The sub-dag of the index
\* itself is executed again on every restart.
ReplayFromIndex ==
    [][batch' = batch + 1 => handling >= last_executed \/ misread]_vars

\* narwhal/executor/src/state.rs:6: no transaction is processed twice despite
\* crash-recovery.  A sub-dag that the stored index counts as executed is not
\* executed again.
IndexedOnce ==
    [][batch' = batch + 1 => handling > last_executed]_vars

\* Every committed sub-dag is executed in the end, whatever crashes, fails to
\* be stored or fills up.
AllExecuted == \A i \in Indexes : (committed >= i) ~> Executed(i)
=============================================================================
