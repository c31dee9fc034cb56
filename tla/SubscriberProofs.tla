--------------------------- MODULE SubscriberProofs ---------------------------
(***************************************************************************)
(* Whatever the channel bounds, the batches and the number of crashes, the *)
(* sub-dags travel from the consensus store to the execution once and in   *)
(* order, no batch is executed before an earlier one, and only sub-dags    *)
(* from the stored index on are executed again after a restart.            *)
(***************************************************************************)
EXTENDS Subscriber, TLAPS

(* A queue holds consecutive sub-dags, the first after k. *)
Run(q, k) == \A j \in 1..Len(q) : q[j] = k + j

(* The sub-dags being downloaded. *)
Waiting == [j \in DOMAIN waiting |-> waiting[j].index]

Slot(i) == IF i = 0 THEN 0 ELSE 1

(* The last sub-dag that has passed each place, from the consensus to the    *)
(* execution.                                                                *)
Sent == committed - Len(unsent)
Received == Sent - Len(rx_sequence)
Delivered == Received - Len(waiting)
Notified == Delivered - Slot(sending)
Handled == Notified - Len(rx_notify)
Finished == Handled - Slot(handling)

(* The queues hold consecutive sub-dags, each continuing the one before it. *)
OrderInv ==
    /\ Run(unsent, Sent)
    /\ Run(rx_sequence, Received)
    /\ Run(Waiting, Delivered)
    /\ sending # 0 => sending = Delivered
    /\ Run(rx_notify, Handled)
    /\ handling # 0 => handling = Handled
    /\ Finished >= 0

(* What has left the queues, and what the index covers, is executed. *)
ExecutedInv ==
    /\ \A i \in 1..Finished : Executed(i)
    /\ \A i \in 1..last_executed : Executed(i)
    /\ handling # 0 => \A b \in 1..batch : <<handling, b>> \in done
    /\ last_executed <= committed
    /\ misread \/ Finished + 1 >= last_executed
    /\ NothingSkipped

IInv == TypeOK /\ OrderInv /\ ExecutedInv

------------------------------------------------------------------------------
(* Facts about sequences *)

(* Sending the next sub-dag keeps a channel consecutive. *)
LEMMA RunAppend ==
    ASSUME NEW q \in Seq(Int), NEW k \in Int, Run(q, k), NEW x \in Int,
           x = k + Len(q) + 1
    PROVE  /\ Run(Append(q, x), k)
           /\ Len(Append(q, x)) = Len(q) + 1
BY DEF Run

(* Receiving takes the sub-dag after k. *)
LEMMA RunTail ==
    ASSUME NEW q \in Seq(Int), NEW k \in Int, Run(q, k), q # <<>>
    PROVE  /\ Head(q) = k + 1
           /\ Run(Tail(q), k + 1)
           /\ Len(Tail(q)) = Len(q) - 1
<1>1. Len(q) \in Nat /\ Len(q) > 0 /\ Head(q) = q[1]
  OBVIOUS
<1>2. Len(Tail(q)) = Len(q) - 1 /\ \A j \in 1..Len(Tail(q)) : Tail(q)[j] = q[j + 1]
  OBVIOUS
<1> QED BY <1>1, <1>2 DEF Run

(* A queue that receives an element. *)
LEMMA AppendQueue ==
    ASSUME NEW S, NEW q \in Seq(S), NEW x \in S
    PROVE  /\ DOMAIN q = 1..Len(q) /\ DOMAIN Append(q, x) = 1..(Len(q) + 1)
           /\ \A j \in 1..Len(q) : Append(q, x)[j] = q[j]
           /\ Append(q, x)[Len(q) + 1] = x
OBVIOUS

(* A queue is a function of its positions. *)
LEMMA QueueFunction ==
    ASSUME NEW S, NEW q \in Seq(S)
    PROVE  q \in [1..Len(q) -> S]
OBVIOUS

(* A queue from which the first element is received. *)
LEMMA TailQueue ==
    ASSUME NEW S, NEW q \in Seq(S), q # <<>>
    PROVE  /\ Len(q) \in Nat /\ Len(q) >= 1 /\ DOMAIN q = 1..Len(q)
           /\ Head(q) = q[1]
           /\ Tail(q) = [j \in 1..(Len(q) - 1) |-> q[j + 1]]
           /\ DOMAIN Tail(q) = 1..(Len(q) - 1)
           /\ Len(Tail(q)) = Len(q) - 1
<1>1. Len(q) \in Nat /\ Len(q) >= 1 /\ DOMAIN q = 1..Len(q) /\ Head(q) = q[1]
  OBVIOUS
<1>2. Tail(q) \in Seq(S) /\ Len(Tail(q)) = Len(q) - 1
  OBVIOUS
<1>3. DOMAIN Tail(q) = 1..(Len(q) - 1)
  BY <1>2
<1>4. \A j \in 1..(Len(q) - 1) : Tail(q)[j] = q[j + 1]
  OBVIOUS
<1>5. Tail(q) \in [1..(Len(q) - 1) -> S]
  BY Zenon, <1>2, QueueFunction
<1>6. Tail(q) = [j \in 1..(Len(q) - 1) |-> q[j + 1]]
  BY Zenon, <1>4, <1>5
<1> QED BY Zenon, <1>1, <1>2, <1>3, <1>6

(* Two consecutive runs are one. *)
LEMMA RunConcat ==
    ASSUME NEW p \in Seq(Int), NEW q \in Seq(Int), NEW k \in Int,
           Run(p, k), Run(q, k + Len(p))
    PROVE  /\ p \o q \in Seq(Int)
           /\ Len(p \o q) = Len(p) + Len(q)
           /\ Run(p \o q, k)
<1>1. p \o q \in Seq(Int) /\ Len(p \o q) = Len(p) + Len(q)
  OBVIOUS
<1>2. ASSUME NEW j \in 1..Len(p \o q)
      PROVE  (p \o q)[j] = k + j
  <2>1. CASE j <= Len(p)
    <3>1. (p \o q)[j] = p[j] /\ j \in 1..Len(p)
      BY <2>1, <1>1
    <3> QED BY <3>1 DEF Run
  <2>2. CASE j > Len(p)
    <3>1. (p \o q)[j] = q[j - Len(p)] /\ j - Len(p) \in 1..Len(q)
      BY <2>2, <1>1
    <3>2. q[j - Len(p)] = k + Len(p) + (j - Len(p))
      BY <3>1 DEF Run
    <3> QED BY <3>1, <3>2
  <2> QED BY <2>1, <2>2
<1> QED BY <1>1, <1>2 DEF Run

(* A queue holds the sub-dags after a up to b. *)
Span(q, a, b) ==
    q \in Seq(Int) /\ a \in Int /\ b \in Int /\ Run(q, a) /\ a + Len(q) = b

(* Two queues that follow each other. *)
LEMMA SpanConcat ==
    ASSUME NEW p, NEW q, NEW a, NEW b, NEW c, Span(p, a, b), Span(q, b, c)
    PROVE  Span(p \o q, a, c)
<1>1. /\ p \in Seq(Int) /\ q \in Seq(Int) /\ Run(p, a) /\ Run(q, b)
      /\ a \in Int /\ b \in Int /\ c \in Int /\ b = a + Len(p) /\ c = b + Len(q)
  BY Zenon DEF Span
<1>2. p \o q \in Seq(Int) /\ Len(p \o q) = Len(p) + Len(q) /\ Run(p \o q, a)
  BY <1>1, RunConcat
<1>3. Len(p) \in Nat /\ Len(q) \in Nat
  BY <1>1
<1>4. a + Len(p \o q) = c
  BY <1>1, <1>2, <1>3
<1> QED BY Zenon, <1>1, <1>2, <1>4 DEF Span

(* The channels hold integers and their lengths are numbers. *)
LEMMA Queues ==
    ASSUME TypeOK
    PROVE  /\ unsent \in Seq(Int) /\ rx_sequence \in Seq(Int)
           /\ rx_notify \in Seq(Int) /\ Waiting \in Seq(Int)
           /\ Len(Waiting) = Len(waiting)
           /\ Len(unsent) \in Nat /\ Len(rx_sequence) \in Nat
           /\ Len(waiting) \in Nat /\ Len(rx_notify) \in Nat
           /\ Slot(sending) \in Nat /\ Slot(handling) \in Nat
           /\ committed \in Int
           /\ Sent \in Int /\ Received \in Int /\ Delivered \in Int
           /\ Notified \in Int /\ Handled \in Int /\ Finished \in Int
<1>1. /\ unsent \in Seq(Int) /\ rx_sequence \in Seq(Int) /\ rx_notify \in Seq(Int)
      /\ Len(unsent) \in Nat /\ Len(rx_sequence) \in Nat
      /\ Len(waiting) \in Nat /\ Len(rx_notify) \in Nat
      /\ committed \in Int
  BY SubscriberAssumption DEF TypeOK, Indexes
<1>2. waiting \in Seq(Download) /\ DOMAIN waiting = 1..Len(waiting)
  BY DEF TypeOK
<1>3. \A j \in 1..Len(waiting) : waiting[j].index \in Int
  <2>1. \A j \in 1..Len(waiting) : waiting[j] \in Download
    BY <1>2
  <2>2. \A d \in Download : d.index \in Int
    BY SubscriberAssumption DEF Download, Indexes
  <2> QED BY Zenon, <2>1, <2>2
<1>4. Waiting \in Seq(Int) /\ Len(Waiting) = Len(waiting)
  BY <1>1, <1>2, <1>3 DEF Waiting
<1> QED BY <1>1, <1>4 DEF Slot, Sent, Received, Delivered, Notified, Handled, Finished

(* The downloads are a sequence of downloads. *)
LEMMA Downloads ==
    ASSUME TypeOK
    PROVE  /\ waiting \in Seq(Download)
           /\ DOMAIN waiting = 1..Len(waiting)
           /\ \A j \in 1..Len(waiting) : waiting[j] \in Download
<1>1. waiting \in Seq(Download)
  BY DEF TypeOK
<1> QED BY <1>1

------------------------------------------------------------------------------
(* Types *)

(* Restored sub-dags are downloads. *)
LEMMA RestoredType ==
    ASSUME TypeOK, NEW index \in 0..committed
    PROVE  restored(index) \in Seq(Download)
<1> DEFINE before == IF index = 0 THEN 0 ELSE index - 1
<1>1. before \in Nat /\ committed - before \in Nat /\ committed \in 0..MaxIndex
  BY SubscriberAssumption DEF TypeOK
<1>2. \A j \in 1..(committed - before) : download(before + j) \in Download
  <2> SUFFICES ASSUME NEW j \in 1..(committed - before)
               PROVE  before + j \in Indexes
    BY DEF download, Download
  <2> QED BY <1>1, SubscriberAssumption DEF Indexes
<1> HIDE DEF before
<1>3. [j \in 1..(committed - before) |-> download(before + j)] \in Seq(Download)
  BY <1>1, <1>2
<1> QED BY <1>3 DEF restored, before

(* Every step keeps the types. *)
LEMMA TypeStep ==
    ASSUME TypeOK, last_executed <= committed, Next
    PROVE  TypeOK'
<1> USE SubscriberAssumption DEF TypeOK, Indexes, queueVars, execVars, historyVars
<1>1. ASSUME NEW n \in 1..MaxCommit, Commit(n)
      PROVE  TypeOK'
  <2>1. [j \in 1..n |-> committed + j] \in Seq(1..MaxIndex)
    BY <1>1 DEF Commit
  <2> QED BY <1>1, <2>1 DEF Commit
<1>2. CASE SendSequence
  BY <1>2 DEF SendSequence
<1>3. CASE ReceiveSubDag
  <2>0. Head(rx_sequence) \in Indexes
    BY <1>3 DEF ReceiveSubDag
  <2>1. download(Head(rx_sequence)) \in Download
    BY Zenon, <2>0 DEF download, Download
  <2>2. waiting' \in Seq(Download) /\ rx_sequence' \in Seq(Indexes)
    BY <1>3, <2>1 DEF ReceiveSubDag
  <2> QED BY <1>3, <2>2 DEF ReceiveSubDag
<1>4. ASSUME NEW j \in DOMAIN waiting, FetchBatches(j)
      PROVE  TypeOK'
  <2>1. waiting[j] \in Download
    OBVIOUS
  <2>2. [waiting[j] EXCEPT !.fetched = TRUE] \in Download
    BY Zenon, <2>1 DEF Download
  <2>3. waiting' = [waiting EXCEPT ![j] = [waiting[j] EXCEPT !.fetched = TRUE]]
    BY <1>4 DEF FetchBatches
  <2>4. waiting' \in Seq(Download)
    BY <2>2, <2>3
  <2> QED BY <1>4, <2>4 DEF FetchBatches
<1>5. CASE Deliver
  <2>1. Head(waiting) \in Download /\ Tail(waiting) \in Seq(Download)
    BY <1>5 DEF Deliver
  <2>2. Head(waiting).index \in Indexes
    BY <2>1 DEF Download
  <2> QED BY <1>5, <2>1, <2>2 DEF Deliver
<1>6. CASE SendNotify
  BY <1>6 DEF SendNotify
<1>7. CASE Handle
  <2>1. Head(rx_notify) \in Indexes /\ Tail(rx_notify) \in Seq(Indexes)
    BY <1>7 DEF Handle
  <2> QED BY <1>7, <2>1 DEF Handle
<1>8. CASE ExecuteBatch
  <2>1. Batches[handling] \in Nat /\ handling \in Indexes
    BY <1>8 DEF ExecuteBatch
  <2>0. batch + 1 \in Nat
    OBVIOUS
  <2>2. <<handling, batch + 1>> \in Indexes \X Nat
    BY Zenon, <2>0, <2>1
  <2>3. done' \subseteq (Indexes \X Nat)
    BY Zenon, <1>8, <2>2 DEF ExecuteBatch
  <2>4. batch' \in Nat /\ batch' <= Batches[handling'] /\ handling' = handling
    BY <1>8, <2>1 DEF ExecuteBatch
  <2> QED BY <1>8, <2>3, <2>4 DEF ExecuteBatch
<1>9. CASE StoreIndex
  BY <1>9 DEF StoreIndex
<1>10. CASE Restart
  <2>1. waiting' \in Seq(Download)
    <3>1. PICK index \in {0, last_executed} : waiting' = restored(index)
      BY <1>10 DEF Restart
    <3> QED BY <3>1, RestoredType
  <2>2. misread' \in BOOLEAN
    BY Zenon, <1>10 DEF Restart
  <2> QED BY <1>10, <2>1, <2>2 DEF Restart
<1> QED BY Zenon, <1>1, <1>2, <1>3, <1>4, <1>5, <1>6, <1>7, <1>8, <1>9, <1>10 DEF Next, Node

------------------------------------------------------------------------------
(* Order *)

(* What a restart restores continues the sub-dag before it. *)
LEMMA RestoredRun ==
    ASSUME TypeOK, TypeOK', last_executed <= committed, Restart
    PROVE  /\ OrderInv'
           /\ Finished' \in Nat
           /\ misread' \/ Finished' + 1 >= last_executed
           /\ Finished' = 0 \/ Finished' < last_executed
<1> DEFINE index == IF misread' THEN 0 ELSE last_executed
           before == IF index = 0 THEN 0 ELSE index - 1
<1>1. /\ before \in Nat /\ before <= committed /\ committed \in Nat
      /\ misread' \/ before + 1 >= last_executed
      /\ before = 0 \/ before < last_executed
  BY SubscriberAssumption DEF TypeOK
<1>2. waiting' = [j \in 1..(committed - before) |-> download(before + j)]
  BY DEF Restart, restored
<1> HIDE DEF index, before
<1>3. /\ Len(waiting') = committed - before
      /\ Waiting' = [j \in 1..(committed - before) |-> before + j]
  BY <1>1, <1>2 DEF Waiting, download
<1>4. /\ unsent' = <<>> /\ rx_sequence' = <<>> /\ rx_notify' = <<>>
      /\ sending' = 0 /\ handling' = 0 /\ committed' = committed
  BY DEF Restart
<1>5. /\ Sent' = committed /\ Received' = committed /\ Delivered' = before
      /\ Notified' = before /\ Handled' = before /\ Finished' = before
  BY <1>1, <1>3, <1>4
     DEF Sent, Received, Delivered, Notified, Handled, Finished, Slot
<1>6. Run(Waiting, Delivered)'
  BY <1>1, <1>3, <1>5 DEF Run
<1> QED BY <1>1, <1>4, <1>5, <1>6 DEF OrderInv, Run

(* Every step of the tasks hands the next sub-dag on. *)
LEMMA OrderStep ==
    ASSUME TypeOK, TypeOK', OrderInv, last_executed <= committed, Next
    PROVE  OrderInv'
<1> USE DEF OrderInv, queueVars, execVars, historyVars
<1>q. /\ unsent \in Seq(Int) /\ rx_sequence \in Seq(Int)
      /\ rx_notify \in Seq(Int) /\ Waiting \in Seq(Int)
      /\ Len(Waiting) = Len(waiting)
      /\ Len(unsent) \in Nat /\ Len(rx_sequence) \in Nat
      /\ Len(waiting) \in Nat /\ Len(rx_notify) \in Nat
      /\ committed \in Int
      /\ Sent \in Int /\ Received \in Int /\ Delivered \in Int
      /\ Notified \in Int /\ Handled \in Int /\ Finished \in Int
  BY Zenon, Queues
<1>1. ASSUME NEW n \in 1..MaxCommit, Commit(n)
      PROVE  OrderInv'
  <2>1. /\ unsent = <<>> /\ unsent' = [j \in 1..n |-> committed + j]
        /\ committed' = committed + n
        /\ UNCHANGED <<rx_sequence, waiting, sending, rx_notify, handling>>
    BY <1>1 DEF Commit
  <2>2. Len(unsent') = n /\ Len(unsent) = 0
    BY <2>1, SubscriberAssumption
  <2>3. /\ Sent' = committed /\ Sent = committed
        /\ Received' = Received /\ Delivered' = Delivered /\ Notified' = Notified
        /\ Handled' = Handled /\ Finished' = Finished /\ Waiting' = Waiting
    BY <2>1, <2>2, <1>q, SubscriberAssumption
       DEF Sent, Received, Delivered, Notified, Handled, Finished, Waiting
  <2>4. Run(unsent, Sent)'
    BY <2>1, <2>2, <2>3 DEF Run
  <2> QED BY <2>1, <2>3, <2>4
<1>2. CASE SendSequence
  <2>1. /\ unsent # <<>> /\ unsent' = Tail(unsent)
        /\ rx_sequence' = Append(rx_sequence, Head(unsent))
        /\ UNCHANGED <<committed, waiting, sending, rx_notify, handling>>
    BY <1>2 DEF SendSequence
  <2>2. /\ Head(unsent) = Sent + 1 /\ Run(unsent', Sent + 1)
        /\ Len(unsent') = Len(unsent) - 1
    BY <2>1, <1>q, RunTail
  <2>3. /\ Run(rx_sequence', Received) /\ Len(rx_sequence') = Len(rx_sequence) + 1
    <3>1. Head(unsent) \in Int /\ Head(unsent) = Received + Len(rx_sequence) + 1
      BY <2>2, <1>q DEF Received
    <3> QED BY <3>1, <2>1, <1>q, RunAppend
  <2>4. /\ Sent' = Sent + 1
        /\ Received' = Received /\ Delivered' = Delivered /\ Notified' = Notified
        /\ Handled' = Handled /\ Finished' = Finished /\ Waiting' = Waiting
    BY <2>1, <2>2, <2>3, <1>q
       DEF Sent, Received, Delivered, Notified, Handled, Finished, Waiting
  <2> QED BY <2>1, <2>2, <2>3, <2>4
<1>3. CASE ReceiveSubDag
  <2>1. /\ rx_sequence # <<>> /\ rx_sequence' = Tail(rx_sequence)
        /\ waiting' = Append(waiting, download(Head(rx_sequence)))
        /\ UNCHANGED <<committed, unsent, sending, rx_notify, handling>>
    BY <1>3 DEF ReceiveSubDag
  <2>2. /\ Head(rx_sequence) = Received + 1 /\ Run(rx_sequence', Received + 1)
        /\ Len(rx_sequence') = Len(rx_sequence) - 1
    BY <2>1, <1>q, RunTail
  <2>3. Waiting' = Append(Waiting, Head(rx_sequence))
    <3>1. /\ DOMAIN waiting = 1..Len(waiting) /\ DOMAIN waiting' = 1..(Len(waiting) + 1)
          /\ \A j \in 1..Len(waiting) : waiting'[j] = waiting[j]
          /\ waiting'[Len(waiting) + 1] = download(Head(rx_sequence))
      <4>1. Head(rx_sequence) \in Indexes
        BY <2>1 DEF TypeOK
      <4>2. download(Head(rx_sequence)) \in Download
        BY Zenon, <4>1 DEF download, Download
      <4> DEFINE x == download(Head(rx_sequence))
      <4>3. x \in Download /\ waiting \in Seq(Download) /\ waiting' = Append(waiting, x)
        BY Zenon, <2>1, <4>2, Downloads
      <4> HIDE DEF x
      <4>4. /\ DOMAIN waiting = 1..Len(waiting)
            /\ DOMAIN Append(waiting, x) = 1..(Len(waiting) + 1)
            /\ \A j \in 1..Len(waiting) : Append(waiting, x)[j] = waiting[j]
            /\ Append(waiting, x)[Len(waiting) + 1] = x
        BY <4>3, AppendQueue
      <4> QED BY Zenon, <4>3, <4>4 DEF x
    <3>2. /\ waiting'[Len(waiting) + 1].index = Head(rx_sequence)
      BY <3>1 DEF download
    <3> QED BY <3>1, <3>2, <1>q DEF Waiting
  <2>4. /\ Run(Waiting', Delivered) /\ Len(waiting') = Len(waiting) + 1
    <3>1. Head(rx_sequence) \in Int /\ Head(rx_sequence) = Delivered + Len(Waiting) + 1
      BY <2>2, <1>q DEF Delivered
    <3>2. Len(waiting') = Len(waiting) + 1
      BY <2>1 DEF TypeOK
    <3> QED BY Zenon, <3>1, <3>2, <2>3, <1>q, RunAppend
  <2>5. /\ Sent' = Sent /\ Received' = Received + 1
        /\ Delivered' = Delivered /\ Notified' = Notified
        /\ Handled' = Handled /\ Finished' = Finished
    BY <2>1, <2>2, <2>4, <1>q
       DEF Sent, Received, Delivered, Notified, Handled, Finished
  <2> QED BY <2>1, <2>2, <2>4, <2>5
<1>4. ASSUME NEW j \in DOMAIN waiting, FetchBatches(j)
      PROVE  OrderInv'
  <2>1. /\ waiting' = [waiting EXCEPT ![j].fetched = TRUE]
        /\ UNCHANGED <<committed, unsent, rx_sequence, sending, rx_notify, handling>>
    BY <1>4 DEF FetchBatches
  <2>2. /\ DOMAIN waiting' = DOMAIN waiting /\ Len(waiting') = Len(waiting)
        /\ \A i \in DOMAIN waiting : waiting'[i].index = waiting[i].index
    <3>1. \A i \in DOMAIN waiting : waiting[i] \in Download
      BY Zenon, Downloads
    <3>2. DOMAIN waiting' = DOMAIN waiting /\ Len(waiting') = Len(waiting)
      BY <2>1 DEF TypeOK
    <3>3. \A i \in DOMAIN waiting : waiting'[i].index = waiting[i].index
      BY <2>1, <3>1 DEF Download
    <3> QED BY <3>2, <3>3
  <2>3. Waiting' = Waiting
    BY Zenon, <2>2 DEF Waiting
  <2>4. /\ Sent' = Sent /\ Received' = Received
        /\ Delivered' = Delivered /\ Notified' = Notified
        /\ Handled' = Handled /\ Finished' = Finished
    BY <2>1, <2>2 DEF Sent, Received, Delivered, Notified, Handled, Finished
  <2> QED BY <2>1, <2>3, <2>4
<1>5. CASE Deliver
  <2>1. /\ sending = 0 /\ waiting # <<>>
        /\ sending' = Head(waiting).index /\ waiting' = Tail(waiting)
        /\ UNCHANGED <<committed, unsent, rx_sequence, rx_notify, handling>>
    BY <1>5 DEF Deliver
  <2>2. /\ Waiting # <<>> /\ Waiting' = Tail(Waiting)
        /\ Head(Waiting) = Head(waiting).index
    <3>1. /\ Len(waiting) >= 1 /\ DOMAIN waiting = 1..Len(waiting)
          /\ Head(waiting) = waiting[1]
          /\ waiting' = [j \in 1..(Len(waiting) - 1) |-> waiting[j + 1]]
          /\ DOMAIN waiting' = 1..(Len(waiting) - 1)
      BY Zenon, <2>1, Downloads, TailQueue
    <3>2. Waiting # <<>>
      BY <3>1, <1>q
    <3>3. /\ Head(Waiting) = Waiting[1]
          /\ Tail(Waiting) = [j \in 1..(Len(waiting) - 1) |-> Waiting[j + 1]]
      BY Zenon, <3>2, <1>q, TailQueue
    <3>4. 1 \in DOMAIN waiting
          /\ \A j \in 1..(Len(waiting) - 1) : j + 1 \in DOMAIN waiting
      BY <3>1, <1>q
    <3>5. \A j \in DOMAIN waiting : Waiting[j] = waiting[j].index
      BY Zenon DEF Waiting
    <3>6. Waiting' = [j \in 1..(Len(waiting) - 1) |-> waiting[j + 1].index]
      BY Zenon, <3>1 DEF Waiting
    <3>7. Waiting' = Tail(Waiting)
      BY Zenon, <3>3, <3>4, <3>5, <3>6
    <3> QED BY Zenon, <3>1, <3>2, <3>3, <3>4, <3>5, <3>7
  <2>3. /\ sending' = Delivered + 1 /\ Run(Waiting', Delivered + 1)
        /\ Len(waiting') = Len(waiting) - 1
    <3>1. Len(waiting') = Len(waiting) - 1
      BY Zenon, <2>1, Downloads, TailQueue
    <3> QED BY <2>1, <2>2, <3>1, <1>q, RunTail
  <2>4. sending' # 0
    <3>1. Head(waiting) \in Download
      BY <2>1 DEF TypeOK
    <3>2. Head(waiting).index \in Indexes
      BY <3>1 DEF Download
    <3> QED BY <2>1, <3>2, SubscriberAssumption DEF Indexes
  <2>5. /\ Sent' = Sent /\ Received' = Received /\ Delivered' = Delivered + 1
        /\ Notified' = Notified /\ Handled' = Handled /\ Finished' = Finished
    BY <2>1, <2>3, <2>4, <1>q
       DEF Sent, Received, Delivered, Notified, Handled, Finished, Slot
  <2> QED BY <2>1, <2>3, <2>5
<1>6. CASE SendNotify
  <2>1. /\ sending # 0 /\ sending' = 0
        /\ rx_notify' = Append(rx_notify, sending)
        /\ UNCHANGED <<committed, unsent, rx_sequence, waiting, handling>>
    BY <1>6 DEF SendNotify
  <2>2. /\ Run(rx_notify', Handled) /\ Len(rx_notify') = Len(rx_notify) + 1
    <3>1. sending \in Int /\ sending = Handled + Len(rx_notify) + 1
      BY <2>1, <1>q DEF Handled, Notified, Slot
    <3> QED BY <3>1, <2>1, <1>q, RunAppend
  <2>3. /\ Sent' = Sent /\ Received' = Received /\ Delivered' = Delivered
        /\ Notified' = Notified + 1 /\ Handled' = Handled /\ Finished' = Finished
        /\ Waiting' = Waiting
    BY <2>1, <2>2, <1>q
       DEF Sent, Received, Delivered, Notified, Handled, Finished, Slot, Waiting
  <2> QED BY <2>1, <2>2, <2>3
<1>7. CASE Handle
  <2>1. /\ handling = 0 /\ rx_notify # <<>>
        /\ handling' = Head(rx_notify) /\ rx_notify' = Tail(rx_notify)
        /\ UNCHANGED <<committed, unsent, rx_sequence, waiting, sending>>
    BY <1>7 DEF Handle
  <2>2. /\ handling' = Handled + 1 /\ Run(rx_notify', Handled + 1)
        /\ Len(rx_notify') = Len(rx_notify) - 1
    BY <2>1, <1>q, RunTail
  <2>3. handling' # 0
    BY <2>1, SubscriberAssumption DEF TypeOK, Indexes
  <2>4. /\ Sent' = Sent /\ Received' = Received /\ Delivered' = Delivered
        /\ Notified' = Notified /\ Handled' = Handled + 1 /\ Finished' = Finished
        /\ Waiting' = Waiting
    BY <2>1, <2>2, <2>3, <1>q
       DEF Sent, Received, Delivered, Notified, Handled, Finished, Slot, Waiting
  <2> QED BY <2>1, <2>2, <2>4
<1>8. CASE ExecuteBatch
  <2>1. UNCHANGED <<committed, queueVars, handling>>
    BY <1>8 DEF ExecuteBatch
  <2> QED BY <2>1
       DEF Sent, Received, Delivered, Notified, Handled, Finished, Waiting
<1>9. CASE StoreIndex
  <2>1. UNCHANGED <<committed, queueVars>> /\ handling # 0 /\ handling' = 0
    BY <1>9 DEF StoreIndex
  <2>2. /\ Sent' = Sent /\ Received' = Received /\ Delivered' = Delivered
        /\ Notified' = Notified /\ Handled' = Handled /\ Finished' = Finished + 1
        /\ Waiting' = Waiting
    BY <2>1, <1>q
       DEF Sent, Received, Delivered, Notified, Handled, Finished, Slot, Waiting
  <2> QED BY <2>1, <2>2, <1>q
<1>10. CASE Restart
  BY <1>10, RestoredRun
<1> QED BY <1>1, <1>2, <1>3, <1>4, <1>5, <1>6, <1>7, <1>8, <1>9, <1>10 DEF Next, Node

------------------------------------------------------------------------------
(* Execution *)

(* The last sub-dag that has left the queues only changes where the index is *)
(* stored and at a restart.                                                  *)
LEMMA FinishedStep ==
    ASSUME TypeOK, TypeOK', OrderInv, Next, ~StoreIndex, ~Restart
    PROVE  Finished' = Finished
<1> USE DEF queueVars, execVars, historyVars, Sent, Received, Delivered, Notified,
            Handled, Finished
<1>q. /\ Len(unsent) \in Nat /\ Len(rx_sequence) \in Nat
      /\ Len(waiting) \in Nat /\ Len(rx_notify) \in Nat
      /\ committed \in Int
  BY SubscriberAssumption DEF TypeOK
<1>1. ASSUME NEW n \in 1..MaxCommit, Commit(n)
      PROVE  Finished' = Finished
  <2>1. Len(unsent') = n /\ Len(unsent) = 0
    BY <1>1, SubscriberAssumption DEF Commit
  <2> QED BY <1>1, <2>1, <1>q, SubscriberAssumption DEF Commit, Slot
<1>2. CASE SendSequence
  <2>1. Len(unsent') = Len(unsent) - 1 /\ Len(rx_sequence') = Len(rx_sequence) + 1
    BY <1>2 DEF SendSequence, TypeOK
  <2> QED BY <1>2, <2>1, <1>q DEF SendSequence, Slot
<1>3. CASE ReceiveSubDag
  <2>1. Len(rx_sequence') = Len(rx_sequence) - 1 /\ Len(waiting') = Len(waiting) + 1
    BY <1>3 DEF ReceiveSubDag, TypeOK
  <2> QED BY <1>3, <2>1, <1>q DEF ReceiveSubDag, Slot
<1>4. ASSUME NEW j \in DOMAIN waiting, FetchBatches(j)
      PROVE  Finished' = Finished
  <2>1. Len(waiting') = Len(waiting)
    BY <1>4 DEF FetchBatches, TypeOK
  <2> QED BY <1>4, <2>1, <1>q DEF FetchBatches, Slot
<1>5. CASE Deliver
  <2>1. Len(waiting') = Len(waiting) - 1
    BY <1>5, Downloads DEF Deliver
  <2>2. sending' # 0 /\ sending = 0
    <3>1. Head(waiting) \in Download
      BY <1>5, Downloads DEF Deliver
    <3>2. Head(waiting).index \in Indexes
      BY <3>1 DEF Download
    <3> QED BY <1>5, <3>2, SubscriberAssumption DEF Indexes, Deliver
  <2> QED BY <1>5, <2>1, <2>2, <1>q DEF Deliver, Slot
<1>6. CASE SendNotify
  <2>1. Len(rx_notify') = Len(rx_notify) + 1
    BY <1>6 DEF SendNotify, TypeOK
  <2> QED BY <1>6, <2>1, <1>q DEF SendNotify, Slot
<1>7. CASE Handle
  <2>1. Len(rx_notify') = Len(rx_notify) - 1 /\ Head(rx_notify) \in Indexes
    BY <1>7 DEF Handle, TypeOK
  <2> QED BY <1>7, <2>1, <1>q, SubscriberAssumption DEF Handle, Slot, Indexes
<1>8. CASE ExecuteBatch
  BY <1>8 DEF ExecuteBatch, Slot
<1> QED BY <1>1, <1>2, <1>3, <1>4, <1>5, <1>6, <1>7, <1>8 DEF Next, Node

(* More effects never make an executed sub-dag unexecuted. *)
LEMMA ExecutedMonotone ==
    ASSUME NEW i, Executed(i), done \subseteq done'
    PROVE  Executed(i)'
BY DEF Executed

(* Every step keeps the executed sub-dags a prefix of the committed ones. *)
LEMMA ExecutedStep ==
    ASSUME IInv, TypeOK', OrderInv', Next
    PROVE  ExecutedInv'
<1>t. TypeOK /\ OrderInv /\ ExecutedInv /\ TypeOK'
  BY DEF IInv
<1>f. Finished \in Int /\ committed \in Int /\ last_executed \in Int /\ handling \in Int
  BY <1>t, Queues DEF TypeOK
<1>1. CASE ExecuteBatch
  <2>1. /\ handling # 0 /\ done' = done \cup {<<handling, batch + 1>>}
        /\ batch' = batch + 1
        /\ UNCHANGED <<handling, last_executed, committed, misread>>
    BY <1>1 DEF ExecuteBatch, historyVars
  <2>2. Finished' = Finished /\ handling = Finished + 1
    <3>1. Finished' = Finished
      BY <1>1 DEF ExecuteBatch, queueVars, Sent, Received, Delivered, Notified,
                  Handled, Finished
    <3> QED BY <3>1, <2>1, <1>t, <1>f DEF OrderInv, Finished, Slot
  <2>3. done \subseteq done'
    BY <2>1
  <2>4. \A b \in 1..(batch + 1) : <<handling, b>> \in done'
    BY <2>1, <1>t DEF ExecutedInv, TypeOK
  <2>5. /\ \A i \in 1..Finished' : Executed(i)'
        /\ \A i \in 1..last_executed' : Executed(i)'
    BY <2>1, <2>2, <2>3, <1>t, ExecutedMonotone DEF ExecutedInv
  <2>6. NothingSkipped'
    <3> SUFFICES ASSUME NEW e \in done'
                 PROVE  /\ \A i \in 1..(e[1] - 1) : Executed(i)'
                        /\ \A b \in 1..e[2] : <<e[1], b>> \in done'
      BY DEF NothingSkipped
    <3>1. CASE e \in done
      BY <3>1, <2>3, <1>t, ExecutedMonotone DEF ExecutedInv, NothingSkipped
    <3>2. CASE e = <<handling, batch + 1>>
      <4>1. e[1] = handling /\ e[2] = batch + 1
        BY <3>2
      <4>2. 1..(e[1] - 1) = 1..Finished'
        BY <4>1, <2>2, <1>f
      <4> QED BY Zenon, <4>1, <4>2, <2>4, <2>5
    <3> QED BY <3>1, <3>2, <2>1
  <2> QED BY <2>1, <2>2, <2>4, <2>5, <2>6, <1>t DEF ExecutedInv
<1>2. CASE StoreIndex
  <2>1. /\ handling # 0 /\ batch = Batches[handling] /\ handling' = 0
        /\ last_executed' \in {handling, last_executed}
        /\ UNCHANGED <<committed, queueVars, batch, done, misread>>
    BY <1>2 DEF StoreIndex, historyVars
  <2>2. Finished' = Finished + 1 /\ handling = Finished + 1
    BY <2>1, <1>t, <1>f
       DEF OrderInv, queueVars, Sent, Received, Delivered, Notified, Handled, Finished, Slot
  <2>3. Executed(handling)
    BY <2>1, <1>t DEF ExecutedInv, Executed
  <2>4. \A i : Executed(i)' <=> Executed(i)
    BY <2>1 DEF Executed
  <2>5. \A i \in 1..(Finished + 1) : Executed(i)
    BY <2>2, <2>3, <1>t, <1>f DEF ExecutedInv
  <2>6. handling <= committed
    <3>1. Handled <= committed
      <4>1. /\ Len(unsent) \in Nat /\ Len(rx_sequence) \in Nat
            /\ Len(waiting) \in Nat /\ Len(rx_notify) \in Nat
            /\ Slot(sending) \in Nat
        BY Zenon, <1>t, Queues
      <4> QED BY <4>1, <1>f DEF Handled, Notified, Delivered, Received, Sent
    <3> QED BY <2>1, <3>1, <1>t DEF OrderInv
  <2>7. NothingSkipped'
    BY <2>1, <2>4, <1>t DEF NothingSkipped, ExecutedInv
  <2>8. \A i \in 1..last_executed' : Executed(i)'
    BY <2>1, <2>2, <2>4, <2>5, <1>t DEF ExecutedInv
  <2> QED BY <2>1, <2>2, <2>4, <2>5, <2>6, <2>7, <2>8, <1>t, <1>f DEF ExecutedInv
<1>3. CASE Restart
  <2>1. /\ handling' = 0 /\ UNCHANGED <<committed, last_executed, done>>
    BY <1>3 DEF Restart
  <2>2. \A i : Executed(i)' <=> Executed(i)
    BY <2>1 DEF Executed
  <2>3. /\ Finished' \in Nat
        /\ misread' \/ Finished' + 1 >= last_executed
        /\ Finished' = 0 \/ Finished' < last_executed
    BY <1>3, <1>t, RestoredRun DEF ExecutedInv
  <2>4. NothingSkipped'
    BY <2>1, <2>2, <1>t DEF NothingSkipped, ExecutedInv
  <2>5. /\ \A i \in 1..Finished' : Executed(i)'
        /\ \A i \in 1..last_executed' : Executed(i)'
    BY <2>1, <2>2, <2>3, <1>t, <1>f DEF ExecutedInv
  <2>6. last_executed' <= committed' /\ (misread' \/ Finished' + 1 >= last_executed')
    BY <2>1, <2>3, <1>t DEF ExecutedInv
  <2> QED BY <2>1, <2>4, <2>5, <2>6 DEF ExecutedInv
<1>4. CASE ~ExecuteBatch /\ ~StoreIndex /\ ~Restart
  <2>1. Finished' = Finished
    BY <1>4, <1>t, FinishedStep
  <2>2. /\ UNCHANGED <<last_executed, done, misread>>
        /\ committed' >= committed
        /\ handling' # 0 => batch' = 0 \/ UNCHANGED <<handling, batch>>
    <3> USE DEF execVars, historyVars
    <3>c. committed \in Int /\ MaxCommit \in Nat
      BY <1>f, SubscriberAssumption
    <3>1. ASSUME NEW n \in 1..MaxCommit, Commit(n)
          PROVE  <2>2!:
      BY <3>1, <3>c DEF Commit
    <3>2. CASE SendSequence
      BY <3>2, <3>c DEF SendSequence
    <3>3. CASE ReceiveSubDag
      BY <3>3, <3>c DEF ReceiveSubDag
    <3>4. ASSUME NEW j \in DOMAIN waiting, FetchBatches(j)
          PROVE  <2>2!:
      BY <3>4, <3>c DEF FetchBatches
    <3>5. CASE Deliver
      BY <3>5, <3>c DEF Deliver
    <3>6. CASE SendNotify
      BY <3>6, <3>c DEF SendNotify
    <3>7. CASE Handle
      BY <3>7, <3>c DEF Handle
    <3> QED BY Zenon, <1>4, <3>1, <3>2, <3>3, <3>4, <3>5, <3>6, <3>7 DEF Next, Node
  <2>3. \A i : Executed(i)' <=> Executed(i)
    BY <2>2 DEF Executed
  <2>4. NothingSkipped'
    BY <2>2, <2>3, <1>t DEF NothingSkipped, ExecutedInv
  <2>5. committed' \in Int
    BY <1>t DEF TypeOK
  <2> QED BY <2>1, <2>2, <2>3, <2>4, <2>5, <1>t, <1>f DEF ExecutedInv
<1> QED BY <1>1, <1>2, <1>3, <1>4

------------------------------------------------------------------------------
(* Theorems *)

(* A node that has executed nothing satisfies the invariant. *)
LEMMA InvInit == Init => IInv
<1> SUFFICES ASSUME Init PROVE IInv
  OBVIOUS
<1>i. /\ committed = 0 /\ unsent = <<>> /\ rx_sequence = <<>> /\ waiting = <<>>
      /\ sending = 0 /\ rx_notify = <<>> /\ handling = 0 /\ batch = 0
      /\ last_executed = 0 /\ done = {} /\ crashes = 0
  BY Zenon DEF Init
<1>e. \A S : <<>> \in Seq(S) /\ Len(<<>>) = 0
  OBVIOUS
<1>1. TypeOK
  <2>1. misread \in BOOLEAN
    BY Zenon DEF Init
  <2>2. 0 \in 0..MaxIndex /\ 0 \in Nat
    BY SubscriberAssumption
  <2> QED BY Zenon, <1>i, <1>e, <2>1, <2>2 DEF TypeOK
<1>2. /\ Sent = 0 /\ Received = 0 /\ Delivered = 0 /\ Notified = 0 /\ Handled = 0
      /\ Finished = 0
  <2>1. /\ Len(unsent) = 0 /\ Len(rx_sequence) = 0 /\ Len(waiting) = 0
        /\ Len(rx_notify) = 0 /\ Slot(sending) = 0 /\ Slot(handling) = 0
    BY Zenon, <1>i, <1>e DEF Slot
  <2>2. 0 - 0 = 0
    OBVIOUS
  <2> QED BY Zenon, <1>i, <2>1, <2>2
       DEF Sent, Received, Delivered, Notified, Handled, Finished
<1>3. Len(Waiting) = 0
  <2>1. Waiting = [j \in 1..0 |-> waiting[j].index]
    BY <1>i DEF Waiting
  <2> QED BY <2>1
<1>4. OrderInv
  BY <1>i, <1>2, <1>3 DEF OrderInv, Run
<1>5. ExecutedInv
  BY <1>i, <1>2 DEF ExecutedInv, NothingSkipped
<1> QED BY Zenon, <1>1, <1>4, <1>5 DEF IInv

(* The invariant is inductive. *)
LEMMA InvStep == IInv /\ [Next]_vars => IInv'
<1> SUFFICES ASSUME IInv, [Next]_vars PROVE IInv'
  OBVIOUS
<1>1. CASE Next
  <2>0. TypeOK /\ OrderInv /\ last_executed <= committed
    BY DEF IInv, ExecutedInv
  <2>1. TypeOK'
    BY <1>1, <2>0, TypeStep
  <2>2. OrderInv'
    BY <1>1, <2>0, <2>1, OrderStep
  <2>3. ExecutedInv'
    BY <1>1, <2>1, <2>2, ExecutedStep
  <2> QED BY <2>1, <2>2, <2>3 DEF IInv
<1>2. CASE UNCHANGED vars
  <2>1. /\ UNCHANGED <<committed, unsent, rx_sequence, waiting, sending, rx_notify>>
        /\ UNCHANGED <<handling, batch, last_executed, done, misread, crashes>>
    BY <1>2 DEF vars, queueVars, execVars, historyVars
  <2>2. /\ Sent' = Sent /\ Received' = Received /\ Delivered' = Delivered
        /\ Notified' = Notified /\ Handled' = Handled /\ Finished' = Finished
        /\ Waiting' = Waiting
    BY <2>1 DEF Sent, Received, Delivered, Notified, Handled, Finished, Waiting
  <2>3. TypeOK'
    BY <2>1 DEF IInv, TypeOK
  <2>4. OrderInv'
    BY <2>1, <2>2 DEF IInv, OrderInv
  <2>5. \A i : Executed(i)' <=> Executed(i)
    BY <2>1 DEF Executed
  <2>6. NothingSkipped'
    BY <2>1, <2>5 DEF IInv, ExecutedInv, NothingSkipped
  <2>7. ExecutedInv'
    BY <2>1, <2>2, <2>5, <2>6 DEF IInv, ExecutedInv
  <2> QED BY <2>3, <2>4, <2>7 DEF IInv
<1> QED BY <1>1, <1>2

(* The sub-dags that the invariant counts are the ones in flight. *)
LEMMA InFlightRun == IInv => HandedOnOnce
<1> SUFFICES ASSUME IInv PROVE HandedOnOnce
  OBVIOUS
<1>t. TypeOK /\ OrderInv
  BY DEF IInv
<1> DEFINE h == IF handling = 0 THEN <<>> ELSE <<handling>>
           m == IF sending = 0 THEN <<>> ELSE <<sending>>
<1>q. /\ unsent \in Seq(Int) /\ rx_sequence \in Seq(Int)
      /\ rx_notify \in Seq(Int) /\ Waiting \in Seq(Int)
      /\ Len(Waiting) = Len(waiting)
      /\ Len(unsent) \in Nat /\ Len(rx_sequence) \in Nat
      /\ Len(waiting) \in Nat /\ Len(rx_notify) \in Nat
      /\ Slot(sending) \in Nat /\ Slot(handling) \in Nat /\ committed \in Int
      /\ Sent \in Int /\ Received \in Int /\ Delivered \in Int
      /\ Notified \in Int /\ Handled \in Int /\ Finished \in Int
  BY Zenon, <1>t, Queues
<1>h. h \in Seq(Int) /\ Len(h) = Slot(handling) /\ Run(h, Finished)
  BY <1>t, <1>q, SubscriberAssumption DEF OrderInv, Run, Slot, Finished, TypeOK
<1>m. m \in Seq(Int) /\ Len(m) = Slot(sending) /\ Run(m, Notified)
  BY <1>t, <1>q, SubscriberAssumption DEF OrderInv, Run, Slot, Notified, TypeOK
<1>r. /\ Run(rx_notify, Handled) /\ Run(Waiting, Delivered)
      /\ Run(rx_sequence, Received) /\ Run(unsent, Sent)
  BY Zenon, <1>t DEF OrderInv
<1> HIDE DEF h, m
<1>a. /\ Span(h, Finished, Handled) /\ Span(rx_notify, Handled, Notified)
      /\ Span(m, Notified, Delivered) /\ Span(Waiting, Delivered, Received)
      /\ Span(rx_sequence, Received, Sent) /\ Span(unsent, Sent, committed)
  <2>1. \A x, y \in Int : (x - y) + y = x
    OBVIOUS
  <2>2. /\ Finished + Slot(handling) = Handled /\ Handled + Len(rx_notify) = Notified
        /\ Notified + Slot(sending) = Delivered /\ Delivered + Len(waiting) = Received
        /\ Received + Len(rx_sequence) = Sent /\ Sent + Len(unsent) = committed
    <3>1. /\ Len(unsent) \in Int /\ Len(rx_sequence) \in Int
          /\ Len(waiting) \in Int /\ Len(rx_notify) \in Int
          /\ Slot(sending) \in Int /\ Slot(handling) \in Int
      BY <1>q
    <3> QED BY Zenon, <2>1, <3>1, <1>q
         DEF Sent, Received, Delivered, Notified, Handled, Finished
  <2> QED BY Zenon, <2>2, <1>q, <1>h, <1>m, <1>r DEF Span
<1> DEFINE flight == ((((h \o rx_notify) \o m) \o Waiting) \o rx_sequence) \o unsent
<1>1. Span((h \o rx_notify) \o m, Finished, Delivered)
  BY Zenon, <1>a, SpanConcat
<1>2. Span((((h \o rx_notify) \o m) \o Waiting) \o rx_sequence, Finished, Sent)
  BY Zenon, <1>1, <1>a, SpanConcat
<1>3. Span(flight, Finished, committed)
  BY Zenon, <1>2, <1>a, SpanConcat
<1>4. InFlight = flight
  BY Zenon DEF InFlight, h, m, Waiting
<1> HIDE DEF flight
<1>5. \A j \in DOMAIN flight : flight[j] = committed - Len(flight) + j
  <2>1. /\ flight \in Seq(Int) /\ Run(flight, Finished)
        /\ Finished + Len(flight) = committed
    BY Zenon, <1>3 DEF Span
  <2>2. DOMAIN flight = 1..Len(flight) /\ Len(flight) \in Nat
    BY <2>1
  <2>3. Finished = committed - Len(flight)
    BY <2>1, <2>2, <1>q
  <2> QED BY Zenon, <2>1, <2>2, <2>3 DEF Run
<1> QED BY Zenon, <1>4, <1>5 DEF HandedOnOnce

(* The channels, the window of downloads and the indices of the executor     *)
(* keep their shape across every crash: get_restored_consensus_output only   *)
(* ever restores sub-dags that were committed.                               *)
THEOREM SubscriberTypeTheorem == Spec => []TypeOK
<1>1. IInv => TypeOK
  BY DEF IInv
<1> QED BY InvInit, InvStep, <1>1, PTL DEF Spec

(* Subscriber::run and handle_consensus_output: across any number of crashes *)
(* no batch is executed before a batch that the consensus ordered before it. *)
THEOREM NothingSkippedTheorem == Spec => []NothingSkipped
<1>1. IInv => NothingSkipped
  BY DEF IInv, ExecutedInv
<1> QED BY InvInit, InvStep, <1>1, PTL DEF Spec

(* get_restored_consensus_output and the channels: every committed sub-dag   *)
(* that is not executed is on its way exactly once and in order.             *)
THEOREM HandedOnOnceTheorem == Spec => []HandedOnOnce
BY InvInit, InvStep, InFlightRun, PTL DEF Spec

(* The index that handle_consensus_output stores bounds how far back a       *)
(* restart goes: nothing below it is executed again.                         *)
THEOREM ReplayTheorem == Spec => ReplayFromIndex
<1>1. IInv /\ [Next]_vars => [batch' = batch + 1 => handling >= last_executed \/ misread]_vars
  <2> SUFFICES ASSUME IInv, Next, batch' = batch + 1
               PROVE  handling >= last_executed \/ misread
    BY DEF vars, queueVars, execVars, historyVars, IInv, TypeOK
  <2>t. TypeOK /\ OrderInv /\ ExecutedInv /\ batch \in Nat
    BY DEF IInv, TypeOK
  <2>1. CASE ExecuteBatch
    <3>1. handling # 0
      BY <2>1 DEF ExecuteBatch
    <3>2. handling = Finished + 1 /\ Finished \in Int
      BY <3>1, <2>t, Queues DEF OrderInv, Finished, Slot
    <3> QED BY <3>2, <2>t DEF ExecutedInv
  <2>2. ASSUME ~ExecuteBatch
        PROVE  FALSE
    <3>1. batch' = batch \/ batch' = 0
      BY Zenon, <2>2
         DEF Next, Node, Commit, SendSequence, ReceiveSubDag, FetchBatches, Deliver,
             SendNotify, Handle, StoreIndex, Restart, execVars
    <3> QED BY <3>1, <2>t
  <2> QED BY <2>1, <2>2
<1> QED BY InvInit, InvStep, <1>1, PTL DEF Spec, ReplayFromIndex
=============================================================================
