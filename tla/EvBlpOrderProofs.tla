-------------------------- MODULE EvBlpOrderProofs ---------------------------
(***************************************************************************)
(* What is in flight, for every zeta_max, lambda and gas weight: each      *)
(* stage of the controller counts the batches inside it, the weights of    *)
(* Exec and Commit are exact although on_batch_exit loads and stores       *)
(* separately, and the order window never closes. Ids are consecutive      *)
(* along the channels and the tasks, so a batch executes over its          *)
(* predecessor, execute has a result for each batch of the call, and the   *)
(* pages of pending_batch_pages belong to the batches between exec_worker  *)
(* and commit_worker.                                                      *)
(***************************************************************************)
EXTENDS EvBlpBridgeProofs

USE DEF Stages, BatchIds, MaxRetries

------------------------------------------------------------------------------
(* The windows of the controller *)

(* The cap of a window is positive, also with zeta_max = 0. *)
LEMMA CapFacts == WindowCap \in Nat \ {0} /\ ZetaMax <= WindowCap /\ ZetaMax \in Nat
BY ControllerAssumption DEF WindowCap

(* The controller is cold before the first call of execute. *)
LEMMA CountInit == Init => CountInv
<1> SUFFICES ASSUME Init PROVE CountInv
  OBVIOUS
<1>1. InFlightExact
  BY CapFacts DEF Init, ControllerInit, InFlightExact
<1>2. WorkerWeightsExact
  BY DEF Init, ControllerInit, WorkerWeightsExact
<1>3. Windows
  BY CapFacts DEF Init, ControllerInit, Windows
<1> QED BY <1>1, <1>2, <1>3 DEF CountInv

(* Calls of execute and steps of the order task keep the counts:             *)
(* on_batch_enter(Order) happens under the window that can_push loaded,      *)
(* although it may have moved since.                                         *)
LEMMA CountOrder ==
    ASSUME ControlInv, CountInv, \/ \E n \in BatchIds : Execute(n)
                                 \/ OrderTask
    PROVE  CountInv'
<1> USE DEF ControlInv, CountInv, InFlightExact, WorkerWeightsExact, Windows,
            controllerVars, execVars, commitVars, chanVars, orderVars
<1>t. TypeOK /\ ControllerTypeOK
  BY DEF TypeOK
<1>0. CASE \E n \in BatchIds : Execute(n)
  BY <1>0, <1>t, CapFacts DEF Execute, Lifecycle, Holding
<1>1. CASE OrderReadWindow
  BY <1>1, <1>t, CapFacts DEF OrderReadWindow
<1>2. CASE OrderCheckInFlight
  BY <1>2, <1>t, CapFacts DEF OrderCheckInFlight
<1>3. CASE OrderEnter
  <2>1. PICK gas \in GasWeights :
            /\ exec_q' = Append(exec_q, [batch_id |-> next_batch_id,
                                         gas_weight |-> gas])
            /\ on_batch_enter("Order", gas)
    BY <1>3 DEF OrderEnter
  <2>2. Len(exec_q') = Len(exec_q) + 1 /\ Len(exec_q) \in Nat
    BY <1>t, <2>1 DEF TypeOK
  <2>3. /\ in_flight'["Order"] = in_flight["Order"] + 1
        /\ in_flight'["Exec"] = in_flight["Exec"]
        /\ in_flight'["Commit"] = in_flight["Commit"]
        /\ w'["Exec"] = w["Exec"] /\ w'["Commit"] = w["Commit"]
        /\ zeta' = zeta
    BY <1>t, <2>1 DEF on_batch_enter, ControllerTypeOK
  <2>4. in_flight["Order"] + 1 <= WindowCap
    BY <1>3, <1>t, CapFacts DEF OrderEnter, ControllerTypeOK
  <2>5. InFlightExact'
    BY <1>3, <2>2, <2>3, <2>4 DEF OrderEnter
  <2>6. WorkerWeightsExact'
    BY <1>3, <2>3 DEF OrderEnter
  <2>7. Windows'
    BY <1>3, <2>3 DEF OrderEnter
  <2> QED BY <2>5, <2>6, <2>7
<1>4. CASE OrderJoin
  BY <1>4, <1>t DEF OrderJoin
<1>5. CASE OrderFlush
  BY <1>5, <1>t DEF OrderFlush
<1>6. CASE OrderFlushFails
  BY <1>6, <1>t DEF OrderFlushFails
<1>7. CASE OrderReturn
  BY <1>7, <1>t DEF OrderReturn
<1> QED BY <1>0, <1>1, <1>2, <1>3, <1>4, <1>5, <1>6, <1>7 DEF OrderTask

(* Steps of exec_worker keep the counts: it leaves Order before it enters    *)
(* Exec.                                                                     *)
LEMMA CountExec ==
    ASSUME ControlInv, CountInv, ExecWorker
    PROVE  CountInv'
<1> USE DEF ControlInv, CountInv, InFlightExact, WorkerWeightsExact, Windows,
            controllerVars, execVars, commitVars, chanVars, orderVars
<1>t. TypeOK /\ ControllerTypeOK
  BY DEF TypeOK
<1>g. ebatch # None => ebatch.gas_weight \in Nat
  BY Zenon, <1>t, BridgeAssumption DEF TypeOK, PipelineBatches
<1>1. CASE ExecRecv
  <2>1. Len(exec_q') = Len(exec_q) - 1 /\ Len(exec_q) \in Nat
    BY <1>1, <1>t DEF ExecRecv, TypeOK
  <2> QED BY <1>1, <1>t, <2>1 DEF ExecRecv
<1>2. CASE ExecExitOrder
  <2>1. /\ in_flight'["Order"] = saturating_sub(in_flight["Order"], 1)
        /\ in_flight'["Exec"] = in_flight["Exec"]
        /\ in_flight'["Commit"] = in_flight["Commit"]
        /\ w'["Exec"] = w["Exec"] /\ w'["Commit"] = w["Commit"]
        /\ zeta'["Order"] = new_zeta("Order")
        /\ zeta'["Exec"] = zeta["Exec"] /\ zeta'["Commit"] = zeta["Commit"]
    BY <1>2, <1>t DEF ExecExitOrder, on_batch_exit, tick, ControllerTypeOK
  <2>2. Len(exec_q) \in Nat
    BY <1>t DEF TypeOK
  <2>3. in_flight'["Order"] = Len(exec_q)
    BY <1>2, <2>1, <2>2 DEF ExecExitOrder, saturating_sub
  <2>4. new_zeta("Order") \in 1..WindowCap
    <3>1. w["Exec"] = 0
      BY <1>2 DEF ExecExitOrder
    <3>2. zeta["Order"] \in Nat \ {0}
      BY CapFacts
    <3> QED BY <3>1, <3>2, CapFacts DEF new_zeta, NextStage, lesser
  <2>5. InFlightExact'
    BY <1>2, <2>1, <2>2, <2>3, CapFacts DEF ExecExitOrder
  <2>6. WorkerWeightsExact'
    BY <1>2, <2>1 DEF ExecExitOrder
  <2>7. Windows'
    BY <1>2, <2>1, <2>2, <2>3, <2>4, CapFacts DEF ExecExitOrder, TypeOK
  <2> QED BY <2>5, <2>6, <2>7
<1>3. CASE ExecEnter
  <2>1. /\ in_flight'["Exec"] = in_flight["Exec"] + 1
        /\ in_flight'["Order"] = in_flight["Order"]
        /\ in_flight'["Commit"] = in_flight["Commit"]
        /\ w'["Exec"] = w["Exec"] + ebatch.gas_weight /\ w'["Commit"] = w["Commit"]
        /\ zeta' = zeta
    BY <1>3, <1>t DEF ExecEnter, on_batch_enter, ControllerTypeOK
  <2> QED BY <1>3, <1>g, <2>1, CapFacts DEF ExecEnter, Holding
<1>4. CASE \E s \in Slots : ExecRead(s)
  BY <1>4, <1>t DEF ExecRead
<1>11. CASE ExecuteRound
  BY <1>11, <1>t DEF ExecuteRound
<1>5. CASE ExecuteBatch
  BY <1>5, <1>t DEF ExecuteBatch
<1>10. CASE ExecApply
  BY <1>10, <1>t DEF ExecApply
<1>6. CASE ExecWritePage
  BY <1>6, <1>t DEF ExecWritePage
<1>7. CASE ExecComplete
  BY <1>7, <1>t DEF ExecComplete
<1>8. CASE ExecExit
  <2>1. /\ in_flight'["Exec"] = saturating_sub(in_flight["Exec"], 1)
        /\ in_flight'["Order"] = in_flight["Order"]
        /\ in_flight'["Commit"] = in_flight["Commit"]
        /\ w'["Exec"] = saturating_sub(w["Exec"], ebatch.gas_weight)
        /\ w'["Commit"] = w["Commit"]
        /\ zeta'["Exec"] = new_zeta("Exec")
        /\ zeta'["Order"] = zeta["Order"] /\ zeta'["Commit"] = zeta["Commit"]
    BY <1>8, <1>t DEF ExecExit, on_batch_exit, tick, ControllerTypeOK
  <2>2. in_flight'["Exec"] = 0 /\ w'["Exec"] = 0
    BY <1>8, <1>g, <2>1 DEF ExecExit, Holding, saturating_sub
  <2>3. new_zeta("Exec") \in 0..WindowCap
    <3>1. zeta["Exec"] \in Nat /\ w["Commit"] \in Nat
      BY <1>t DEF ControllerTypeOK
    <3>2. /\ lesser(2 * zeta["Exec"], ZetaMax) \in 0..WindowCap
          /\ lesser(zeta["Exec"] + 1, ZetaMax) \in 0..WindowCap
      BY <3>1, CapFacts DEF lesser
    <3>3. 0 \in 0..WindowCap /\ 1 \in 0..WindowCap
      BY CapFacts
    <3> QED BY <3>2, <3>3, Zenon DEF new_zeta
  <2> QED BY <1>8, <2>1, <2>2, <2>3, CapFacts DEF ExecExit
<1>9. CASE ExecStop
  BY <1>9, <1>t DEF ExecStop
<1> QED BY Zenon, <1>1, <1>2, <1>3, <1>4, <1>5, <1>6, <1>7, <1>8, <1>9, <1>10,
           <1>11 DEF ExecWorker

(* Steps of commit_worker keep the counts. *)
LEMMA CountCommit ==
    ASSUME ControlInv, CountInv, CommitWorker
    PROVE  CountInv'
<1> USE DEF ControlInv, CountInv, InFlightExact, WorkerWeightsExact, Windows,
            controllerVars, execVars, commitVars, chanVars, orderVars
<1>t. TypeOK /\ ControllerTypeOK
  BY DEF TypeOK
<1>1. CASE CommitRecv
  <2>1. /\ in_flight'["Commit"] = in_flight["Commit"] + 1
        /\ in_flight'["Order"] = in_flight["Order"]
        /\ in_flight'["Exec"] = in_flight["Exec"]
        /\ w'["Commit"] = w["Commit"] + work'.delta_bytes
        /\ w'["Exec"] = w["Exec"]
        /\ zeta' = zeta
    BY <1>1, <1>t DEF CommitRecv, on_batch_enter, ControllerTypeOK
  <2>2. work'.delta_bytes \in Nat
    <3>1. work' \in CommitWorks
      BY <1>1, <1>t DEF CommitRecv, TypeOK
    <3> QED BY <3>1 DEF CommitWorks
  <2> QED BY <1>1, <2>1, <2>2, CapFacts DEF CommitRecv
<1>2. CASE CommitTake
  BY <1>2, <1>t DEF CommitTake
<1>3. CASE CommitPut
  BY <1>3, <1>t DEF CommitPut
<1>4. CASE CommitPutFails
  BY <1>4, <1>t DEF CommitPutFails
<1>5. CASE CommitL2
  BY <1>5, <1>t DEF CommitL2
<1>6. CASE CommitExit
  <2>1. /\ in_flight'["Commit"] = saturating_sub(in_flight["Commit"], 1)
        /\ in_flight'["Order"] = in_flight["Order"]
        /\ in_flight'["Exec"] = in_flight["Exec"]
        /\ w'["Commit"] = saturating_sub(w["Commit"], work.delta_bytes)
        /\ w'["Exec"] = w["Exec"]
        /\ zeta' = zeta
    BY <1>6, <1>t DEF CommitExit, on_batch_exit, tick, ControllerTypeOK
  <2>2. work.delta_bytes \in Nat
    BY <1>6, <1>t DEF CommitExit, TypeOK, CommitWorks, Holding
  <2>3. in_flight'["Commit"] = 0 /\ w'["Commit"] = 0
    BY <1>6, <2>1, <2>2 DEF CommitExit, saturating_sub
  <2> QED BY <1>6, <2>1, <2>3, CapFacts DEF CommitExit
<1>7. CASE CommitStop
  BY <1>7, <1>t DEF CommitStop
<1> QED BY <1>1, <1>2, <1>3, <1>4, <1>5, <1>6, <1>7 DEF CommitWorker

(* Every step keeps the counts. *)
LEMMA CountStep == ControlInv /\ CountInv /\ [Next]_vars => CountInv'
<1>1. ASSUME CountInv, UNCHANGED vars PROVE CountInv'
  BY <1>1 DEF CountInv, InFlightExact, WorkerWeightsExact, Windows, vars,
     controllerVars, orderVars, execVars, chanVars, commitVars
<1> QED BY <1>1, CountOrder, CountExec, CountCommit DEF Next

(* The counts, the weights and the ranges of the windows hold throughout. *)
THEOREM CountInvariant == Spec => []CountInv
<1>1. Init => CountInv
  BY CountInit
<1>2. ControlInv /\ CountInv /\ [Next]_vars => CountInv'
  BY CountStep
<1> QED BY <1>1, <1>2, ControlInvariant, PTL DEF Spec

(* Each stage counts exactly the batches inside it and never more than       *)
(* zeta_max, for every zeta_max and every interleaving of the two loads of   *)
(* can_push with the other tasks.                                            *)
THEOREM InFlightExactTheorem == Spec => []InFlightExact
<1>1. CountInv => InFlightExact
  BY DEF CountInv
<1> QED BY <1>1, CountInvariant, PTL

(* The gas of a queue is what the steps of a loop over it add up. *)
LEMMA GasSteps ==
    ASSUME NEW queue \in Seq(PipelineBatches)
    PROVE  \E h \in [0..Len(queue) -> Nat] :
              /\ h[0] = 0 /\ h[Len(queue)] = GasOf(queue)
              /\ \A k \in 1..Len(queue) : h[k] = h[k - 1] + queue[k].gas_weight
<1> DEFINE hi == Len(queue)
           gas(n) == queue[n].gas_weight
           G == [n \in Nat |-> [x \in Nat |-> IF n \in 1..hi THEN x + gas(n) ELSE x]]
           upto == CHOOSE f : f = [n \in 0..hi |-> IF n = 0 THEN 0 ELSE f[n - 1] + gas(n)]
<1>1. hi \in Nat
  OBVIOUS
<1>2. \A n \in 1..hi : gas(n) \in Nat
  <2> TAKE n \in 1..hi
  <2>1. queue[n] \in PipelineBatches
    OBVIOUS
  <2> QED BY <2>1, BridgeAssumption DEF PipelineBatches
<1>3. GasOf(queue) = upto[hi]
  BY Zenon DEF GasOf
<1> HIDE DEF hi, gas
<1>4. G \in [Nat -> [Nat -> Nat]]
  BY <1>2
<1>5. \E f \in [0..hi -> Nat] : f = [n \in 0..hi |-> IF n = 0 THEN 0 ELSE f[n - 1] + gas(n)]
  <2>1. PICK f \in [0..hi -> Nat] : f = [n \in 0..hi |-> IF n = 0 THEN 0 ELSE G[n][f[n - 1]]]
    <3> HIDE DEF G
    <3>1. 0 \in Nat
      OBVIOUS
    <3>2. \E f \in [0..hi -> Nat] : Recursion(f, 0, hi, 0, G)
      BY <1>1, <1>4, <3>1, IntervalRecursion
    <3> QED BY Zenon, <3>2 DEF Recursion
  <2>2. \A n \in 0..hi : n # 0 => G[n][f[n - 1]] = f[n - 1] + gas(n)
    <3> TAKE n \in 0..hi
    <3> HAVE n # 0
    <3>1. n \in Nat /\ n \in 1..hi /\ f[n - 1] \in Nat
      BY <1>1
    <3> QED BY <3>1
  <2>3. \A n \in 0..hi : f[n] = IF n = 0 THEN 0 ELSE f[n - 1] + gas(n)
    <3> HIDE DEF G
    <3> QED BY Zenon, <2>1, <2>2
  <2>4. f = [n \in 0..hi |-> IF n = 0 THEN 0 ELSE f[n - 1] + gas(n)]
    <3> HIDE DEF G
    <3> QED BY <2>3
  <2> QED BY Zenon, <2>4
<1> HIDE DEF G
<1>6. PICK f \in [0..hi -> Nat] : f = [n \in 0..hi |-> IF n = 0 THEN 0 ELSE f[n - 1] + gas(n)]
  BY <1>5
<1>7. upto = [n \in 0..hi |-> IF n = 0 THEN 0 ELSE upto[n - 1] + gas(n)]
  BY Zenon, <1>6
<1> HIDE DEF upto
<1>8. \A n \in 0..hi : upto[n] = IF n = 0 THEN 0 ELSE upto[n - 1] + gas(n)
  BY Zenon, <1>7
<1>9. upto \in [0..hi -> Nat]
  <2> DEFINE P == {n \in 0..hi : upto[n] \in Nat}
  <2>1. 0 \in P
    BY <1>1, <1>8
  <2>2. \A n \in 0..hi : n > 0 /\ n - 1 \in P => n \in P
    BY <1>1, <1>2, <1>8
  <2>3. 0..hi \subseteq P
    <3> HIDE DEF P
    <3> QED BY <1>1, <2>1, <2>2, IntervalInduction
  <2>4. \A n \in 0..hi : upto[n] \in Nat
    BY <2>3
  <2> QED BY <1>7, <2>4
<1>10. upto[0] = 0 /\ \A k \in 1..hi : upto[k] = upto[k - 1] + gas(k)
  BY <1>1, <1>8
<1> QED BY Zenon, <1>3, <1>9, <1>10 DEF hi, gas

(* The gas of a queue is a natural number. *)
LEMMA GasType ==
    ASSUME NEW queue \in Seq(PipelineBatches) PROVE GasOf(queue) \in Nat
<1>1. PICK h \in [0..Len(queue) -> Nat] : h[Len(queue)] = GasOf(queue)
  BY Zenon, GasSteps
<1>2. Len(queue) \in 0..Len(queue)
  OBVIOUS
<1> QED BY Zenon, <1>1, <1>2

(* The gas of a longer and of a shorter queue. *)
LEMMA GasAppend ==
    ASSUME NEW queue \in Seq(PipelineBatches), NEW b \in PipelineBatches
    PROVE  /\ GasOf(queue) \in Nat
           /\ GasOf(Append(queue, b)) = GasOf(queue) + b.gas_weight
<1> DEFINE longer == Append(queue, b)
           n == Len(queue)
<1>1. /\ longer \in Seq(PipelineBatches) /\ Len(longer) = n + 1 /\ n \in Nat
      /\ longer[n + 1] = b /\ \A k \in 1..n : longer[k] = queue[k]
  BY AppendProperties
<1> HIDE DEF longer, n
<1>2. PICK h \in [0..n -> Nat] :
        /\ h[0] = 0 /\ h[n] = GasOf(queue)
        /\ \A k \in 1..n : h[k] = h[k - 1] + queue[k].gas_weight
  BY Zenon, GasSteps DEF n
<1>3. PICK g \in [0..(n + 1) -> Nat] :
        /\ g[0] = 0 /\ g[n + 1] = GasOf(longer)
        /\ \A k \in 1..(n + 1) : g[k] = g[k - 1] + longer[k].gas_weight
  <2>1. \E g \in [0..Len(longer) -> Nat] :
          /\ g[0] = 0 /\ g[Len(longer)] = GasOf(longer)
          /\ \A k \in 1..Len(longer) : g[k] = g[k - 1] + longer[k].gas_weight
    BY Zenon, <1>1, GasSteps
  <2>2. Len(longer) = n + 1
    BY <1>1
  <2> QED BY Zenon, <2>1, <2>2
<1> DEFINE P == {k \in 0..n : g[k] = h[k]}
<1>4. 0 \in P
  BY <1>1, <1>2, <1>3
<1>5. \A k \in 0..n : k > 0 /\ k - 1 \in P => k \in P
  <2> SUFFICES ASSUME NEW k \in 0..n, k > 0, k - 1 \in P PROVE g[k] = h[k]
    OBVIOUS
  <2>1. k \in 1..n /\ k \in 1..(n + 1) /\ g[k - 1] = h[k - 1]
    BY <1>1
  <2>2. longer[k] = queue[k]
    BY <1>1, <2>1
  <2> QED BY Zenon, <1>2, <1>3, <2>1, <2>2
<1>6. 0..n \subseteq P
  <2> HIDE DEF P
  <2> QED BY <1>1, <1>4, <1>5, IntervalInduction
<1>7. g[n] = h[n] /\ g[n + 1] = g[n] + longer[n + 1].gas_weight /\ h[n] \in Nat
  <2>1. n \in 0..n /\ n + 1 \in 1..(n + 1) /\ (n + 1) - 1 = n
    BY <1>1
  <2>2. g[n] = h[n]
    BY <1>6, <2>1
  <2>3. g[n + 1] = g[(n + 1) - 1] + longer[n + 1].gas_weight
    BY Zenon, <1>3, <2>1
  <2> QED BY <1>2, <2>1, <2>2, <2>3
<1> QED BY <1>1, <1>2, <1>3, <1>7 DEF longer

LEMMA GasTail ==
    ASSUME NEW queue \in Seq(PipelineBatches), queue # <<>>
    PROVE  /\ GasOf(Tail(queue)) \in Nat
           /\ GasOf(queue) = GasOf(Tail(queue)) + Head(queue).gas_weight
<1> DEFINE shorter == Tail(queue)
           n == Len(shorter)
           first == Head(queue).gas_weight
<1>1. /\ shorter \in Seq(PipelineBatches) /\ Len(queue) = n + 1 /\ n \in Nat
      /\ queue[1] = Head(queue) /\ \A k \in 1..n : shorter[k] = queue[k + 1]
  OBVIOUS
<1>2. first \in Nat
  <2>1. Head(queue) \in PipelineBatches
    OBVIOUS
  <2> QED BY <2>1, BridgeAssumption DEF PipelineBatches
<1>3. PICK h \in [0..n -> Nat] :
        /\ h[0] = 0 /\ h[n] = GasOf(shorter)
        /\ \A k \in 1..n : h[k] = h[k - 1] + shorter[k].gas_weight
  BY Zenon, <1>1, GasSteps
<1>4. PICK g \in [0..(n + 1) -> Nat] :
        /\ g[0] = 0 /\ g[n + 1] = GasOf(queue)
        /\ \A k \in 1..(n + 1) : g[k] = g[k - 1] + queue[k].gas_weight
  <2>1. \E g \in [0..Len(queue) -> Nat] :
          /\ g[0] = 0 /\ g[Len(queue)] = GasOf(queue)
          /\ \A k \in 1..Len(queue) : g[k] = g[k - 1] + queue[k].gas_weight
    BY Zenon, GasSteps
  <2>2. Len(queue) = n + 1
    BY <1>1
  <2> HIDE DEF n
  <2> QED BY Zenon, <2>1, <2>2
<1>5. g[1] = first
  <2>1. 1 \in 1..(n + 1) /\ 1 - 1 = 0
    BY <1>1
  <2>2. g[1] = g[1 - 1] + queue[1].gas_weight
    BY Zenon, <1>4, <2>1
  <2> HIDE DEF first, shorter, n
  <2>3. queue[1].gas_weight = first
    BY Zenon, <1>1 DEF first
  <2> QED BY <1>2, <1>4, <2>1, <2>2, <2>3
<1> HIDE DEF first, shorter, n
<1> DEFINE P == {k \in 0..n : g[k + 1] = h[k] + first}
<1>6. 0 \in P
  BY <1>1, <1>2, <1>3, <1>5
<1>7. \A k \in 0..n : k > 0 /\ k - 1 \in P => k \in P
  <2> SUFFICES ASSUME NEW k \in 0..n, k > 0, k - 1 \in P PROVE g[k + 1] = h[k] + first
    OBVIOUS
  <2>1. k \in 1..n /\ k + 1 \in 1..(n + 1) /\ (k + 1) - 1 = k /\ (k - 1) + 1 = k
        /\ k - 1 \in 0..n
    BY <1>1
  <2>2. g[k + 1] = g[k] + queue[k + 1].gas_weight
    BY Zenon, <1>4, <2>1
  <2>3. h[k] = h[k - 1] + shorter[k].gas_weight /\ shorter[k] = queue[k + 1]
    BY Zenon, <1>1, <1>3, <2>1
  <2>4. g[k] = h[k - 1] + first
    BY <2>1
  <2>5. h[k - 1] \in Nat /\ queue[k + 1].gas_weight \in Nat
    <3>1. queue[k + 1] \in PipelineBatches
      BY <1>1, <2>1
    <3> QED BY <1>3, <2>1, <3>1, BridgeAssumption DEF PipelineBatches
  <2> QED BY <1>2, <2>2, <2>3, <2>4, <2>5
<1>8. 0..n \subseteq P
  <2> HIDE DEF P
  <2> QED BY <1>1, <1>6, <1>7, IntervalInduction
<1>9. g[n + 1] = h[n] + first /\ h[n] \in Nat
  <2>1. n \in 0..n
    BY <1>1
  <2> QED BY <1>3, <1>8, <2>1
<1> QED BY <1>3, <1>4, <1>9 DEF first, shorter

(* Every step keeps the weight of Order within that of its batches: a batch  *)
(* that enters between the load and the store of on_batch_exit is missing    *)
(* from what is stored.                                                      *)
LEMMA GasStep == ControlInv /\ GasInv /\ [Next]_vars => GasInv'
<1> SUFFICES ASSUME ControlInv, GasInv, [Next]_vars PROVE GasInv'
  OBVIOUS
<1>t. /\ TypeOK /\ w \in [Stages -> Nat] /\ loaded \in Nat
      /\ exec_q \in Seq(PipelineBatches)
  BY DEF ControlInv, TypeOK, ControllerTypeOK
<1>b. ASSUME NEW b \in PipelineBatches PROVE b.gas_weight \in Nat
  BY BridgeAssumption DEF PipelineBatches
<1>q. GasOf(exec_q) \in Nat
  BY Zenon, <1>t, GasType
<1>e. ebatch # None => ebatch \in PipelineBatches /\ ebatch.gas_weight \in Nat
  BY Zenon, <1>t, <1>b DEF TypeOK
<1>h. epc = "exit_order" => ebatch # None
  BY DEF ControlInv, Holding
<1>1. CASE OrderEnter
  <2>1. PICK gas \in GasWeights :
            /\ exec_q' = Append(exec_q, [batch_id |-> next_batch_id, gas_weight |-> gas])
            /\ on_batch_enter("Order", gas)
    BY <1>1 DEF OrderEnter
  <2>2. [batch_id |-> next_batch_id, gas_weight |-> gas] \in PipelineBatches /\ gas \in Nat
    BY <1>1, CacheAssumption, BridgeAssumption
       DEF OrderEnter, ControlInv, Lifecycle, TypeOK, PipelineBatches
  <2>3. GasOf(exec_q') = GasOf(exec_q) + gas
    BY <1>t, <2>1, <2>2, GasAppend
  <2>4. w'["Order"] = w["Order"] + gas /\ UNCHANGED <<epc, ebatch, loaded>>
    BY <1>1, <1>t, <2>1 DEF on_batch_enter, OrderEnter, execVars
  <2>5. w["Order"] \in Nat
    BY <1>t
  <2> QED BY <1>t, <1>q, <1>e, <1>h, <2>2, <2>3, <2>4, <2>5 DEF GasInv, OrderWeightBounded
<1>2. CASE ExecRecv
  <2>1. /\ exec_q # <<>> /\ exec_q' = Tail(exec_q) /\ ebatch' = Head(exec_q)
        /\ loaded' = w["Order"] /\ epc = "recv" /\ epc' = "exit_order" /\ w' = w
    BY <1>2 DEF ExecRecv, controllerVars
  <2>2. /\ GasOf(exec_q') \in Nat
        /\ GasOf(exec_q) = GasOf(exec_q') + ebatch'.gas_weight
    BY <1>t, <2>1, GasTail
  <2>3. w["Order"] <= GasOf(exec_q)
    BY <1>t, <1>q, <2>1 DEF GasInv, OrderWeightBounded
  <2> QED BY <2>1, <2>2, <2>3 DEF GasInv, OrderWeightBounded
<1>3. CASE ExecExitOrder
  <2>1. /\ epc = "exit_order" /\ epc' = "wait" /\ exec_q' = exec_q
        /\ w'["Order"] = saturating_sub(loaded, ebatch.gas_weight)
    BY <1>3, <1>t DEF ExecExitOrder, on_batch_exit, chanVars
  <2> QED BY <1>t, <1>q, <1>e, <1>h, <2>1 DEF GasInv, OrderWeightBounded, saturating_sub
<1>4. CASE ~(OrderEnter \/ ExecRecv \/ ExecExitOrder)
  <2>1. exec_q' = exec_q
    BY Zenon, <1>4 DEF Next, OrderTask, ExecWorker, CommitWorker, vars, chanVars,
      Execute, OrderReadWindow, OrderCheckInFlight, OrderJoin, OrderFlush, OrderFlushFails,
      OrderReturn, ExecEnter, ExecRead, ExecuteRound, ExecuteBatch, ExecApply,
      ExecWritePage, ExecComplete, ExecExit, ExecStop, CommitRecv, CommitTake, CommitPut,
      CommitPutFails, CommitL2, CommitExit, CommitStop
  <2>2. w'["Order"] = w["Order"]
    <3>1. CASE ExecEnter \/ ExecExit \/ CommitRecv \/ CommitExit
      BY <1>t, <3>1 DEF ExecEnter, ExecExit, CommitRecv, CommitExit, on_batch_enter,
         on_batch_exit
    <3>2. CASE ~(ExecEnter \/ ExecExit \/ CommitRecv \/ CommitExit)
      <4>1. w' = w
        BY Zenon, <1>4, <3>2 DEF Next, OrderTask, ExecWorker, CommitWorker, vars,
          controllerVars, Execute, OrderReadWindow, OrderCheckInFlight, OrderJoin, OrderFlush,
          OrderFlushFails, OrderReturn, ExecRead, ExecuteRound, ExecuteBatch,
          ExecApply, ExecWritePage, ExecComplete, ExecStop, CommitTake, CommitPut,
          CommitPutFails, CommitL2, CommitStop
      <4> QED BY <4>1
    <3> QED BY <3>1, <3>2
  <2>3. epc' = "exit_order" => epc = "exit_order" /\ UNCHANGED <<ebatch, loaded>>
    BY Zenon, <1>4 DEF Next, OrderTask, ExecWorker, CommitWorker, vars, execVars,
      Execute, OrderReadWindow, OrderCheckInFlight, OrderJoin, OrderFlush, OrderFlushFails,
      OrderReturn, ExecEnter, ExecRead, ExecuteRound, ExecuteBatch, ExecApply,
      ExecWritePage, ExecComplete, ExecExit, ExecStop, CommitRecv, CommitTake, CommitPut,
      CommitPutFails, CommitL2, CommitExit, CommitStop
  <2>4. epc = "exit_order" => epc' = "exit_order"
    BY <1>4 DEF Next, OrderTask, ExecWorker, CommitWorker, vars, execVars,
      Execute, OrderReadWindow, OrderCheckInFlight, OrderJoin, OrderFlush, OrderFlushFails,
      OrderReturn, ExecEnter, ExecRead, ExecuteRound, ExecuteBatch, ExecApply,
      ExecWritePage, ExecComplete, ExecExit, ExecStop, CommitRecv, CommitTake, CommitPut,
      CommitPutFails, CommitL2, CommitExit, CommitStop, ControlInv, Lifecycle
  <2> QED BY <2>1, <2>2, <2>3, <2>4 DEF GasInv, OrderWeightBounded
<1> QED BY <1>1, <1>2, <1>3, <1>4

(* The weights of Exec and of Commit, from which tick computes the windows,  *)
(* are those of the batch inside.  The weight of Order, which the order task *)
(* and exec_worker race for, is never more than that of the batches inside.  *)
THEOREM WeightsTrackedTheorem == Spec => []WeightsTracked
<1>1. Init => GasInv
  <2> SUFFICES ASSUME Init PROVE GasInv
    OBVIOUS
  <2>1. exec_q \in Seq(PipelineBatches)
    BY TypeInit DEF TypeOK
  <2>2. GasOf(exec_q) \in Nat
    BY Zenon, <2>1, GasType
  <2> QED BY <2>2 DEF Init, ControllerInit, GasInv, OrderWeightBounded
<1>2. ControlInv /\ GasInv /\ [Next]_vars => GasInv'
  BY GasStep
<1>3. CountInv /\ GasInv => WeightsTracked
  BY DEF CountInv, GasInv, WeightsTracked
<1> QED BY <1>1, <1>2, <1>3, ControlInvariant, CountInvariant, PTL DEF Spec

(* The window of Order never closes, whatever the gas weights and lambda2. *)
THEOREM OrderWindowOpenTheorem == Spec => []OrderWindowOpen
<1>1. CountInv => OrderWindowOpen
  BY CapFacts DEF CountInv, Windows, OrderWindowOpen
<1> QED BY <1>1, CountInvariant, PTL

------------------------------------------------------------------------------
(* The order of the batches *)

(* What the channels and the workers hold are batches with ids. *)
LEMMA QueueIds ==
    ASSUME TypeOK
    PROVE  /\ \A i \in DOMAIN exec_q : exec_q[i].batch_id \in BatchIds
           /\ \A i \in DOMAIN commit_q : commit_q[i].batch_id \in BatchIds
           /\ ebatch # None => ebatch.batch_id \in BatchIds
           /\ work # None => work.batch_id \in BatchIds
<1>1. /\ \A i \in DOMAIN exec_q : exec_q[i] \in PipelineBatches
      /\ \A i \in DOMAIN commit_q : commit_q[i] \in CommitWorks
  BY ElementOfSeq DEF TypeOK
<1> QED BY Zenon, <1>1 DEF TypeOK, PipelineBatches, CommitWorks

(* Before the first call of execute no id is in use. *)
LEMMA OrderInit == Init => OrderInv
BY DEF Init, BackendInit, OrderInv, ExecOrder, CommitOrder, ResultOrder,
   Uncounted, Sent

(* The three parts depend on the following variables alone. *)
LEMMA ExecOrderKept ==
    ASSUME ExecOrder, UNCHANGED <<exec_q, next_batch_id, epc, ebatch, last_exec_complete,
                                  completed_batch, visible_batch>>
    PROVE  ExecOrder'
BY DEF ExecOrder, Uncounted, HeldBatch

LEMMA CommitOrderKept ==
    ASSUME CommitOrder, UNCHANGED <<commit_q, Sent>>, work' = work \/ work' = None
    PROVE  CommitOrder'
<1> USE DEF CommitOrder
<1> HIDE DEF Sent
<1> QED OBVIOUS

LEMMA ResultOrderKept ==
    ASSUME ResultOrder, UNCHANGED <<results, Sent, next_batch_id, left, call_len>>,
           opc' # "idle" => opc # "idle"
    PROVE  ResultOrder'
<1> USE DEF ResultOrder
<1> HIDE DEF Sent
<1> QED OBVIOUS

(* alloc_batch_id and the send of the order task continue the run of ids. *)
LEMMA OrderByOrder ==
    ASSUME ControlInv, OrderInv, \/ \E n \in BatchIds : Execute(n)
                                 \/ OrderTask
    PROVE  OrderInv'
<1>t. TypeOK /\ Lifecycle
  BY DEF ControlInv
<1>p. ExecOrder /\ CommitOrder /\ ResultOrder
  BY DEF OrderInv
<1>k. ASSUME UNCHANGED <<exec_q, next_batch_id, epc, ebatch, last_exec_complete, visible_batch,
                         completed_batch, commit_q, work, results, left, call_len>>,
             opc' # "idle" => opc # "idle"
      PROVE  OrderInv'
  <2>1. Sent' = Sent
    BY <1>k DEF Sent
  <2>2. ExecOrder'
    BY Zenon, <1>k, <1>p, ExecOrderKept
  <2>3. CommitOrder' /\ ResultOrder'
    BY Zenon, <1>k, <1>p, <2>1, CommitOrderKept, ResultOrderKept
  <2> QED BY <2>2, <2>3 DEF OrderInv
<1> USE DEF cacheVars, backendVars, idVars, execVars, commitVars, chanVars, orderVars
<1>0. CASE \E n \in BatchIds : Execute(n)
  <2>1. PICK n \in BatchIds : Execute(n)
    BY <1>0
  <2>2. /\ epc = "done" /\ exec_q = <<>> /\ left = 0 /\ commit_q \in Seq(CommitWorks)
        /\ next_batch_id \in Nat /\ last_exec_complete \in Nat /\ n \in Nat
    BY <1>t, <2>1, CacheAssumption DEF Execute, Lifecycle, TypeOK
  <2>3. /\ epc' = "recv" /\ exec_q' = exec_q /\ results' = <<>> /\ call_len' = n /\ left' = n
        /\ UNCHANGED <<next_batch_id, ebatch, last_exec_complete, completed_batch, visible_batch,
                       commit_q, work>>
    BY <2>1 DEF Execute
  <2>4. ExecOrder'
    BY <1>p, <2>2, <2>3 DEF ExecOrder, Uncounted
  <2>5. Sent' = Sent /\ Sent = last_exec_complete
    BY <2>2, <2>3 DEF Sent
  <2>6. CommitOrder'
    BY Zenon, <1>p, <2>3, <2>5, CommitOrderKept
  <2>7. next_batch_id = last_exec_complete + 1
    BY <1>p, <2>2 DEF ExecOrder, Uncounted
  <2>8. ResultOrder'
    <3> HIDE DEF Sent
    <3> QED BY <2>2, <2>3, <2>5, <2>7 DEF ResultOrder
  <2> QED BY <2>4, <2>6, <2>8 DEF OrderInv
<1>1. CASE OrderReadWindow
  BY Zenon, <1>1, <1>k DEF OrderReadWindow
<1>2. CASE OrderCheckInFlight
  BY Zenon, <1>2, <1>k DEF OrderCheckInFlight
<1>3. CASE OrderEnter
  <2>1. PICK gas \in GasWeights :
            exec_q' = Append(exec_q, [batch_id |-> next_batch_id,
                                      gas_weight |-> gas])
    BY <1>3 DEF OrderEnter
  <2>2. /\ Len(exec_q) \in Nat /\ Len(exec_q') = Len(exec_q) + 1
        /\ DOMAIN exec_q = 1..Len(exec_q)
        /\ DOMAIN exec_q' = 1..(Len(exec_q) + 1)
        /\ \A i \in 1..Len(exec_q) : exec_q'[i] = exec_q[i]
        /\ exec_q'[Len(exec_q) + 1].batch_id = next_batch_id
    BY <1>t, <2>1 DEF TypeOK
  <2>3. next_batch_id' = next_batch_id + 1 /\ next_batch_id \in Nat /\ last_exec_complete \in Nat
    BY <1>3, <1>t, CacheAssumption DEF OrderEnter, TypeOK
  <2>4. \A i \in DOMAIN exec_q' :
            exec_q'[i].batch_id = next_batch_id' - 1 - Len(exec_q') + i
    <3> TAKE i \in DOMAIN exec_q'
    <3>1. CASE i \in 1..Len(exec_q)
      <4>2. exec_q[i].batch_id = next_batch_id - 1 - Len(exec_q) + i
        BY <1>p, <2>2, <3>1 DEF ExecOrder
      <4>3. exec_q'[i].batch_id = exec_q[i].batch_id
        BY <2>2, <3>1
      <4> QED BY <2>2, <2>3, <3>1, <4>2, <4>3
    <3>2. CASE i = Len(exec_q) + 1
      BY <2>2, <2>3, <3>2
    <3> QED BY <2>2, <3>1, <3>2
  <2>u. UNCHANGED <<epc, ebatch, last_exec_complete, completed_batch, visible_batch, commit_q,
                    work, results, call_len>>
    BY <1>3 DEF OrderEnter
  <2>5. ExecOrder'
    <3>1. Uncounted' <=> Uncounted
      BY <2>u DEF Uncounted
    <3> HIDE DEF Uncounted
    <3>2. /\ Uncounted' => next_batch_id' = last_exec_complete' + 2 + Len(exec_q')
          /\ ~Uncounted' => next_batch_id' = last_exec_complete' + 1 + Len(exec_q')
      <4>1. /\ Uncounted => next_batch_id = last_exec_complete + 2 + Len(exec_q)
            /\ ~Uncounted => next_batch_id = last_exec_complete + 1 + Len(exec_q)
        BY <1>p DEF ExecOrder
      <4>2. /\ last_exec_complete' = last_exec_complete
            /\ Len(exec_q') = Len(exec_q) + 1 /\ Len(exec_q) \in Nat
        BY <2>2, <2>u
      <4> QED BY <2>3, <3>1, <4>1, <4>2
    <3>3. /\ Uncounted' => HeldBatch' = last_exec_complete' + 1
          /\ (epc = "exit" => HeldBatch = last_exec_complete)'
          /\ (completed_batch = last_exec_complete)'
          /\ (epc = "exec" => visible_batch = last_exec_complete)'
      BY Zenon, <1>p, <2>u, <3>1 DEF ExecOrder, HeldBatch
    <3> QED BY <2>4, <3>2, <3>3 DEF ExecOrder
  <2>s. Sent' = Sent /\ Sent \in Int
    BY <2>3, <2>u DEF Sent
  <2>6. CommitOrder'
    BY Zenon, <1>p, <2>u, <2>s, CommitOrderKept
  <2>7. ResultOrder'
    <3>1. /\ left \in Nat /\ left' = left - 1 /\ Len(results) \in Nat
          /\ call_len \in Nat /\ opc # "idle"
      BY <1>3, <1>t DEF OrderEnter, TypeOK
    <3> HIDE DEF Sent
    <3> QED BY <1>p, <2>3, <2>u, <2>s, <3>1 DEF ResultOrder
  <2> QED BY <2>5, <2>6, <2>7 DEF OrderInv
<1>4. CASE OrderJoin
  BY Zenon, <1>4, <1>k DEF OrderJoin
<1>5. CASE OrderFlush
  BY Zenon, <1>5, <1>k DEF OrderFlush, flush_oldest
<1>6. CASE OrderFlushFails
  BY <1>6, <1>k DEF OrderFlushFails, flush_oldest_fails
<1>7. CASE OrderReturn
  BY Zenon, <1>7, <1>k DEF OrderReturn
<1> QED BY Zenon, <1>0, <1>1, <1>2, <1>3, <1>4, <1>5, <1>6, <1>7 DEF OrderTask

(* exec_worker takes the oldest id, completes it and hands it on. *)
LEMMA OrderByExec ==
    ASSUME ControlInv, OrderInv, ExecWorker
    PROVE  OrderInv'
<1>t. TypeOK
  BY DEF ControlInv
<1>p. ExecOrder /\ CommitOrder /\ ResultOrder
  BY DEF OrderInv
<1>n. next_batch_id \in Nat /\ last_exec_complete \in Nat
  BY <1>t, CacheAssumption DEF TypeOK
<1>k. ASSUME UNCHANGED <<commit_q, work, results, next_batch_id, last_exec_complete,
                         left, call_len, opc>>,
             epc # "exit", epc' # "exit"
      PROVE  CommitOrder' /\ ResultOrder'
  <2>1. Sent' = Sent
    BY <1>k DEF Sent
  <2> QED BY Zenon, <1>k, <1>p, <2>1, CommitOrderKept, ResultOrderKept
<1>m. ASSUME UNCHANGED <<commit_q, work, results, next_batch_id, last_exec_complete,
                         left, call_len, opc, exec_q, ebatch, completed_batch>>,
             Uncounted, Uncounted',
             epc' = "exec" => visible_batch' = last_exec_complete
      PROVE  OrderInv'
  <2>1. epc # "exit" /\ epc' # "exit"
    BY <1>m DEF Uncounted
  <2>2. ExecOrder'
    BY <1>m, <1>p, <2>1 DEF ExecOrder, HeldBatch
  <2> QED BY Zenon, <1>k, <1>m, <2>1, <2>2 DEF OrderInv
<1> USE DEF cacheVars, backendVars, idVars, execVars, commitVars, chanVars, orderVars
<1>1. CASE ExecRecv
  <2>1. /\ exec_q \in Seq(PipelineBatches) /\ exec_q # <<>>
        /\ ebatch' = Head(exec_q) /\ exec_q' = Tail(exec_q)
        /\ UNCHANGED <<next_batch_id, last_exec_complete>>
    BY <1>1, <1>t DEF ExecRecv, TypeOK
  <2>2. /\ Len(exec_q) \in Nat \ {0}
        /\ ebatch' = exec_q[1]
        /\ Len(exec_q') = Len(exec_q) - 1
        /\ DOMAIN exec_q' = 1..(Len(exec_q) - 1)
        /\ DOMAIN exec_q = 1..Len(exec_q)
        /\ \A i \in 1..(Len(exec_q) - 1) : exec_q'[i] = exec_q[i + 1]
    BY <2>1
  <2>3. \A i \in 1..Len(exec_q) :
            exec_q[i].batch_id = next_batch_id - 1 - Len(exec_q) + i
    BY <1>p, <2>2 DEF ExecOrder
  <2>4. \A i \in DOMAIN exec_q' :
            exec_q'[i].batch_id = next_batch_id' - 1 - Len(exec_q') + i
    <3> TAKE i \in DOMAIN exec_q'
    <3>1. i \in 1..(Len(exec_q) - 1) /\ i + 1 \in 1..Len(exec_q)
      BY <2>2
    <3>2. /\ exec_q'[i].batch_id = exec_q[i + 1].batch_id
          /\ exec_q[i + 1].batch_id = next_batch_id - 1 - Len(exec_q) + (i + 1)
      BY <2>2, <2>3, <3>1
    <3> QED BY <1>n, <2>1, <2>2, <3>1, <3>2
  <2>5. /\ ebatch'.batch_id = last_exec_complete + 1
        /\ next_batch_id = last_exec_complete + 2 + Len(exec_q')
    <3>1. next_batch_id = last_exec_complete + 1 + Len(exec_q)
      BY <1>1, <1>p DEF ExecRecv, ExecOrder, Uncounted
    <3>2. exec_q[1].batch_id = next_batch_id - 1 - Len(exec_q) + 1
      BY <2>2, <2>3
    <3> QED BY <1>n, <2>2, <3>1, <3>2
  <2>6. /\ UNCHANGED <<commit_q, work, results, left, call_len, opc, completed_batch>>
        /\ epc = "recv" /\ epc' = "exit_order"
    BY Zenon, <1>1 DEF ExecRecv
  <2>7. ExecOrder'
    <3>1. Uncounted' /\ epc' # "exit" /\ epc' # "exec"
      BY <2>6 DEF Uncounted
    <3>2. HeldBatch' = last_exec_complete' + 1
      BY <2>1, <2>5 DEF HeldBatch
    <3>3. (completed_batch = last_exec_complete)'
      BY <1>p, <2>1, <2>6 DEF ExecOrder
    <3> QED BY <2>1, <2>4, <2>5, <3>1, <3>2, <3>3 DEF ExecOrder
  <2> QED BY <1>k, <2>1, <2>6, <2>7 DEF OrderInv
<1>2. CASE ExecExitOrder
  <2>1. /\ UNCHANGED <<commit_q, work, results, next_batch_id, last_exec_complete, left, call_len,
                       opc, exec_q, ebatch, completed_batch>>
        /\ epc = "exit_order" /\ epc' = "wait"
    BY Zenon, <1>2 DEF ExecExitOrder
  <2> QED BY <1>m, <2>1 DEF Uncounted
<1>3. CASE ExecEnter
  <2>1. /\ UNCHANGED <<commit_q, work, results, next_batch_id, last_exec_complete, left, call_len,
                       opc, exec_q, ebatch, completed_batch>>
        /\ epc = "wait" /\ epc' = "exec" /\ visible_batch' = last_exec_complete
    BY Zenon, <1>3 DEF ExecEnter
  <2> QED BY <1>m, <2>1 DEF Uncounted
<1>4. CASE \E s \in Slots : ExecRead(s)
  <2>1. /\ UNCHANGED <<commit_q, work, results, next_batch_id, last_exec_complete, left, call_len,
                       opc, exec_q, ebatch, completed_batch>>
        /\ epc = "exec" /\ epc' = epc /\ visible_batch' = visible_batch
    BY Zenon, <1>4 DEF ExecRead
  <2> QED BY <1>m, <1>p, <2>1 DEF Uncounted, ExecOrder
<1>11. CASE ExecuteRound
  <2>1. /\ UNCHANGED <<commit_q, work, results, next_batch_id, last_exec_complete, left, call_len,
                       opc, exec_q, ebatch, completed_batch>>
        /\ epc = "exec" /\ epc' = epc /\ visible_batch' = visible_batch
    BY Zenon, <1>11 DEF ExecuteRound, backendVars
  <2> QED BY <1>m, <1>p, <2>1 DEF Uncounted, ExecOrder
<1>5. CASE ExecuteBatch
  <2>1. /\ UNCHANGED <<commit_q, work, results, next_batch_id, last_exec_complete, left, call_len,
                       opc, exec_q, ebatch, completed_batch>>
        /\ epc = "exec" /\ epc' = "pages"
    BY Zenon, <1>5 DEF ExecuteBatch
  <2> QED BY <1>m, <2>1 DEF Uncounted
<1>10. CASE ExecApply
  <2>1. /\ UNCHANGED <<commit_q, work, results, next_batch_id, last_exec_complete, left, call_len,
                       opc, exec_q, ebatch, completed_batch>>
        /\ epc \in {"exec", "pages"} /\ epc' = epc /\ visible_batch' = visible_batch
    BY Zenon, <1>10 DEF ExecApply
  <2> QED BY <1>m, <1>p, <2>1 DEF Uncounted, ExecOrder
<1>6. CASE ExecWritePage
  <2>1. /\ UNCHANGED <<commit_q, work, results, next_batch_id, last_exec_complete, left, call_len,
                       opc, exec_q, ebatch, completed_batch>>
        /\ epc = "pages" /\ epc' = "pages"
    BY Zenon, <1>6 DEF ExecWritePage
  <2> QED BY <1>m, <2>1 DEF Uncounted
<1>7. CASE ExecComplete
  <2>1. /\ ebatch.batch_id = last_exec_complete + 1
        /\ next_batch_id = last_exec_complete + 2 + Len(exec_q)
        /\ Len(exec_q) \in Nat
    <3>1. Len(exec_q) \in Nat
      BY <1>t DEF TypeOK
    <3>2. epc = "pages"
      BY Zenon, <1>7 DEF ExecComplete
    <3> QED BY <1>p, <3>1, <3>2 DEF ExecOrder, Uncounted, HeldBatch
  <2>2. /\ last_exec_complete' = last_exec_complete + 1
        /\ completed_batch' = last_exec_complete + 1
        /\ epc = "pages" /\ epc' = "exit"
        /\ UNCHANGED <<ebatch, next_batch_id, exec_q, commit_q, work, results, opc, left, call_len>>
    <3>1. completed_batch = last_exec_complete
      BY <1>p DEF ExecOrder
    <3> QED BY <1>7, <1>n, <2>1, <3>1 DEF ExecComplete, mark_batch_complete
  <2>3. Sent' = Sent
    BY <1>n, <2>2 DEF Sent
  <2>4. ExecOrder'
    BY <1>n, <1>p, <2>1, <2>2 DEF ExecOrder, Uncounted, HeldBatch
  <2>5. CommitOrder' /\ ResultOrder'
    BY Zenon, <1>p, <2>2, <2>3, CommitOrderKept, ResultOrderKept
  <2> QED BY <2>4, <2>5 DEF OrderInv
<1>8. CASE ExecExit
  <2>0. epc = "exit" /\ epc' = "recv" /\ UNCHANGED <<completed_batch, visible_batch>>
    BY Zenon, <1>8 DEF ExecExit
  <2>1. /\ ebatch.batch_id = last_exec_complete
        /\ results' = Append(results, ebatch.batch_id)
        /\ commit_q' = Append(commit_q, [batch_id |-> ebatch.batch_id,
                                         delta_bytes |-> Len(records)])
        /\ UNCHANGED <<next_batch_id, last_exec_complete, exec_q, work, opc, left, call_len>>
    BY Zenon, <1>8, <1>p, <2>0 DEF ExecExit, ExecOrder, HeldBatch
  <2>2. Sent = last_exec_complete - 1 /\ Sent' = last_exec_complete
    BY <2>0, <2>1 DEF Sent
  <2>3. /\ results \in Seq(BatchIds) /\ Len(results) \in Nat
        /\ commit_q \in Seq(CommitWorks) /\ Len(commit_q) \in Nat
        /\ left \in Nat /\ call_len \in Nat
    BY <1>t DEF TypeOK
  <2>4. ExecOrder'
    BY <1>p, <2>0, <2>1 DEF ExecOrder, Uncounted
  <2>5. CommitOrder'
    <3>1. /\ Len(commit_q') = Len(commit_q) + 1
          /\ DOMAIN commit_q' = 1..(Len(commit_q) + 1)
          /\ \A i \in 1..Len(commit_q) : commit_q'[i] = commit_q[i]
          /\ commit_q'[Len(commit_q) + 1].batch_id = last_exec_complete
      BY <2>1, <2>3
    <3>2. \A i \in 1..Len(commit_q) :
            commit_q[i].batch_id = last_exec_complete - 1 - Len(commit_q) + i
      BY <1>p, <2>2, <2>3 DEF CommitOrder
    <3>3. \A i \in DOMAIN commit_q' :
            commit_q'[i].batch_id = last_exec_complete - Len(commit_q') + i
      <4> TAKE i \in DOMAIN commit_q'
      <4>1. CASE i \in 1..Len(commit_q)
        <5>1. commit_q'[i].batch_id = last_exec_complete - 1 - Len(commit_q) + i
          BY <3>1, <3>2, <4>1
        <5> QED BY <1>n, <2>3, <3>1, <4>1, <5>1
      <4>2. CASE i = Len(commit_q) + 1
        BY <1>n, <2>3, <3>1, <4>2
      <4> QED BY <2>3, <3>1, <4>1, <4>2
    <3>4. work # None => work.batch_id = last_exec_complete - Len(commit_q')
      BY <1>n, <1>p, <2>2, <2>3, <3>1 DEF CommitOrder
    <3> QED BY <2>1, <2>2, <3>3, <3>4 DEF CommitOrder
  <2>6. ResultOrder'
    <3>1. /\ Len(results') = Len(results) + 1
          /\ DOMAIN results' = 1..(Len(results) + 1)
          /\ \A i \in 1..Len(results) : results'[i] = results[i]
          /\ results'[Len(results) + 1] = last_exec_complete
      BY <1>n, <2>1, <2>3, AppendProperties
    <3>2. \A i \in 1..Len(results) :
            results[i] = last_exec_complete - 1 - Len(results) + i
      BY <1>p, <2>2, <2>3 DEF ResultOrder
    <3>3. \A i \in DOMAIN results' :
            results'[i] = last_exec_complete - Len(results') + i
      <4> TAKE i \in DOMAIN results'
      <4>1. CASE i \in 1..Len(results)
        <5>1. results'[i] = last_exec_complete - 1 - Len(results) + i
          BY <3>1, <3>2, <4>1
        <5> QED BY <1>n, <2>3, <3>1, <4>1, <5>1
      <4>2. CASE i = Len(results) + 1
        BY <1>n, <2>3, <3>1, <4>2
      <4> QED BY <2>3, <3>1, <4>1, <4>2
    <3>4. opc # "idle" => Len(results') + next_batch_id + left = call_len + last_exec_complete + 1
      BY <1>n, <1>p, <2>2, <2>3, <3>1 DEF ResultOrder
    <3> QED BY <2>1, <2>2, <3>3, <3>4 DEF ResultOrder
  <2> QED BY <2>4, <2>5, <2>6 DEF OrderInv
<1>9. CASE ExecStop
  <2>1. /\ UNCHANGED <<commit_q, work, results, next_batch_id, last_exec_complete, left, call_len,
                       opc, exec_q, ebatch, completed_batch>>
        /\ epc = "recv" /\ epc' = "done"
    BY Zenon, <1>9 DEF ExecStop
  <2>2. ExecOrder'
    BY <1>p, <2>1 DEF ExecOrder, Uncounted
  <2> QED BY <1>k, <2>1, <2>2 DEF OrderInv
<1> QED BY Zenon, <1>1, <1>2, <1>3, <1>4, <1>5, <1>6, <1>7, <1>8, <1>9, <1>10,
           <1>11 DEF ExecWorker

(* commit_worker takes the oldest id that was handed on. *)
LEMMA OrderByCommit ==
    ASSUME ControlInv, OrderInv, CommitWorker
    PROVE  OrderInv'
<1>t. TypeOK
  BY DEF ControlInv
<1>p. ExecOrder /\ CommitOrder /\ ResultOrder
  BY DEF OrderInv
<1>n. last_exec_complete \in Nat
  BY <1>t, CacheAssumption DEF TypeOK
<1> USE DEF cacheVars, backendVars, idVars, execVars, commitVars, chanVars, orderVars
<1>u. UNCHANGED <<exec_q, next_batch_id, epc, ebatch, last_exec_complete, completed_batch,
                  visible_batch, results, left, call_len, opc>>
  BY Zenon DEF CommitWorker, CommitRecv, CommitTake, CommitPut, CommitPutFails, CommitL2,
               CommitExit, CommitStop
<1>s. UNCHANGED Sent /\ Sent \in Int
  BY <1>n, <1>u DEF Sent
<1>e. ExecOrder' /\ ResultOrder'
  BY Zenon, <1>p, <1>s, <1>u, ExecOrderKept, ResultOrderKept
<1>k. ASSUME commit_q' = commit_q, work' = work \/ work' = None
      PROVE  OrderInv'
  BY Zenon, <1>e, <1>k, <1>p, <1>s, CommitOrderKept DEF OrderInv
<1>1. CASE CommitRecv
  <2>1. /\ commit_q \in Seq(CommitWorks) /\ commit_q # <<>>
        /\ work' = Head(commit_q) /\ commit_q' = Tail(commit_q)
    BY <1>1, <1>t DEF CommitRecv, TypeOK
  <2>2. /\ Len(commit_q) \in Nat \ {0}
        /\ work' = commit_q[1]
        /\ Len(commit_q') = Len(commit_q) - 1
        /\ DOMAIN commit_q' = 1..(Len(commit_q) - 1)
        /\ DOMAIN commit_q = 1..Len(commit_q)
        /\ \A i \in 1..(Len(commit_q) - 1) : commit_q'[i] = commit_q[i + 1]
    BY <2>1
  <2>5. CommitOrder'
    <3>1. \A i \in 1..Len(commit_q) : commit_q[i].batch_id = Sent - Len(commit_q) + i
      BY <1>p, <2>2 DEF CommitOrder
    <3>2. \A i \in DOMAIN commit_q' :
            commit_q'[i].batch_id = Sent' - Len(commit_q') + i
      <4> TAKE i \in DOMAIN commit_q'
      <4>1. i \in 1..(Len(commit_q) - 1) /\ i + 1 \in 1..Len(commit_q)
        BY <2>2
      <4>2. /\ commit_q'[i].batch_id = commit_q[i + 1].batch_id
            /\ commit_q[i + 1].batch_id = Sent - Len(commit_q) + (i + 1)
        BY <2>2, <3>1, <4>1
      <4> QED BY <1>s, <2>2, <4>1, <4>2
    <3>3. work'.batch_id = Sent' - Len(commit_q')
      BY <1>s, <2>2, <3>1
    <3> QED BY <3>2, <3>3 DEF CommitOrder
  <2> QED BY Zenon, <1>e, <2>5 DEF OrderInv
<1>2. CASE CommitTake
  BY Zenon, <1>2, <1>k DEF CommitTake
<1>3. CASE CommitPut
  BY Zenon, <1>3, <1>k DEF CommitPut
<1>4. CASE CommitPutFails
  BY Zenon, <1>4, <1>k DEF CommitPutFails
<1>5. CASE CommitL2
  BY Zenon, <1>5, <1>k DEF CommitL2
<1>6. CASE CommitExit
  BY Zenon, <1>6, <1>k DEF CommitExit
<1>7. CASE CommitStop
  BY Zenon, <1>7, <1>k DEF CommitStop
<1> QED BY Zenon, <1>1, <1>2, <1>3, <1>4, <1>5, <1>6, <1>7 DEF CommitWorker

(* Every step keeps the order of the ids. *)
LEMMA OrderStep == ControlInv /\ OrderInv /\ [Next]_vars => OrderInv'
<1>1. ASSUME OrderInv, UNCHANGED vars PROVE OrderInv'
  BY <1>1 DEF OrderInv, ExecOrder, CommitOrder, ResultOrder, Uncounted, Sent,
     HeldBatch,
     vars, cacheVars, backendVars, idVars, orderVars, execVars, chanVars, commitVars
<1> QED BY <1>1, OrderByOrder, OrderByExec, OrderByCommit DEF Next

(* The ids are consecutive along the pipeline throughout. *)
THEOREM OrderInvariant == Spec => []OrderInv
<1>1. Init => OrderInv
  BY OrderInit
<1>2. ControlInv /\ OrderInv /\ [Next]_vars => OrderInv'
  BY OrderStep
<1> QED BY <1>1, <1>2, ControlInvariant, PTL DEF Spec

(* While exec_worker executes a batch, the visible and the completed batch   *)
(* are its predecessor, so TwoLevelCache::read never refuses a lookup for    *)
(* being ahead of the completed batches.                                     *)
THEOREM PredecessorVisibleTheorem == Spec => []PredecessorVisible
<1>1. ControlInv /\ OrderInv => PredecessorVisible
  <2> SUFFICES ASSUME ControlInv, OrderInv, epc = "exec"
               PROVE  visible_batch = HeldBatch - 1 /\ completed_batch = HeldBatch - 1
    BY DEF PredecessorVisible
  <2>1. /\ HeldBatch = last_exec_complete + 1
        /\ visible_batch = last_exec_complete
        /\ completed_batch = last_exec_complete
    BY DEF OrderInv, ExecOrder, Uncounted
  <2>2. last_exec_complete \in Nat
    BY DEF ControlInv, TypeOK
  <2> QED BY <2>1, <2>2
<1> QED BY <1>1, ControlInvariant, OrderInvariant, PTL

(* When the workers have been joined, execute holds one result for each      *)
(* batch of the call, in the order of the ids.                               *)
THEOREM ResultsCompleteTheorem == Spec => []ResultsComplete
<1>1. ControlInv /\ OrderInv => ResultsComplete
  <2> SUFFICES ASSUME ControlInv, OrderInv, opc = "flush" 
               PROVE  results = [i \in 1..call_len |-> next_batch_id - 1 - call_len + i]
    BY DEF ResultsComplete
  <2>1. /\ results \in Seq(BatchIds) /\ Len(results) \in Nat
        /\ DOMAIN results = 1..Len(results)
        /\ next_batch_id \in Nat /\ call_len \in Nat /\ last_exec_complete \in Nat
    BY CacheAssumption DEF ControlInv, TypeOK
  <2>2. left = 0 /\ epc = "done" /\ exec_q = <<>>
    BY DEF ControlInv, Lifecycle
  <2>3. next_batch_id = last_exec_complete + 1 /\ Sent = last_exec_complete
    BY <2>1, <2>2 DEF OrderInv, ExecOrder, Uncounted, Sent
  <2>4. Len(results) = call_len
    <3>1. Len(results) + next_batch_id + left = call_len + Sent + 1
      BY DEF OrderInv, ResultOrder
    <3>2. Len(results) + (last_exec_complete + 1) + 0 = call_len + last_exec_complete + 1
      BY <2>2, <2>3, <3>1
    <3>3. \A a, b, c \in Nat : a + (b + 1) + 0 = c + b + 1 => a = c
      OBVIOUS
    <3>4. Len(results) \in Nat /\ last_exec_complete \in Nat /\ call_len \in Nat
      BY <2>1
    <3> QED BY <3>2, <3>3, <3>4
  <2>5. \A i \in 1..call_len : results[i] = next_batch_id - 1 - call_len + i
    BY <2>1, <2>3, <2>4 DEF OrderInv, ResultOrder
  <2>6. results = [i \in 1..Len(results) |-> results[i]]
    BY <2>1
  <2> QED BY <2>4, <2>5, <2>6
<1> QED BY <1>1, ControlInvariant, OrderInvariant, PTL

(* A channel holds the ids of what it held and of what is sent to it. *)
LEMMA IdsAppend ==
    ASSUME NEW S, NEW q \in Seq(S), NEW x, NEW r, r = Append(q, x)
    PROVE  Ids(r) = Ids(q) \cup {x.batch_id}
<1>1. /\ DOMAIN r = DOMAIN q \cup {Len(q) + 1}
      /\ \A i \in DOMAIN q : r[i] = q[i]
      /\ r[Len(q) + 1] = x
  OBVIOUS
<1>2. ASSUME NEW j \in DOMAIN r
      PROVE  r[j].batch_id \in {q[i].batch_id : i \in DOMAIN q} \cup {x.batch_id}
  <2>1. CASE j \in DOMAIN q
    BY <1>1, <2>1
  <2>2. CASE j = Len(q) + 1
    BY <1>1, <2>2
  <2> QED BY <1>1, <2>1, <2>2
<1>3. ASSUME NEW j \in DOMAIN q
      PROVE  q[j].batch_id \in {r[i].batch_id : i \in DOMAIN r}
  BY Zenon, <1>1
<1>4. x.batch_id \in {r[i].batch_id : i \in DOMAIN r}
  BY Zenon, <1>1
<1> QED BY ZenonT(30), <1>2, <1>3, <1>4 DEF Ids

(* A channel holds the ids of what is received from it and of what stays. *)
LEMMA IdsTail ==
    ASSUME NEW S, NEW q \in Seq(S), q # <<>>, NEW r, r = Tail(q)
    PROVE  Ids(q) = Ids(r) \cup {Head(q).batch_id}
<1>1. /\ DOMAIN q = 1..Len(q) /\ Len(q) \in Nat /\ 1 \in DOMAIN q /\ Head(q) = q[1]
      /\ DOMAIN r = 1..(Len(q) - 1)
      /\ \A i \in DOMAIN r : r[i] = q[i + 1]
  OBVIOUS
<1>2. /\ \A i \in DOMAIN r : i + 1 \in DOMAIN q
      /\ \A i \in DOMAIN q : i = 1 \/ \E j \in DOMAIN r : q[i] = r[j]
  <2>1. \A i \in DOMAIN r : i + 1 \in DOMAIN q
    BY <1>1
  <2>2. ASSUME NEW i \in DOMAIN q, i # 1
        PROVE  \E j \in DOMAIN r : q[i] = r[j]
    <3>1. i - 1 \in DOMAIN r /\ (i - 1) + 1 = i
      BY <1>1, <2>2
    <3> QED BY <1>1, <3>1
  <2> QED BY <2>1, <2>2
<1>3. ASSUME NEW j \in DOMAIN q
      PROVE  q[j].batch_id \in {r[i].batch_id : i \in DOMAIN r} \cup {Head(q).batch_id}
  BY Zenon, <1>1, <1>2
<1>4. ASSUME NEW j \in DOMAIN r
      PROVE  r[j].batch_id \in {q[i].batch_id : i \in DOMAIN q}
  BY Zenon, <1>1, <1>2
<1>5. Head(q).batch_id \in {q[i].batch_id : i \in DOMAIN q}
  BY Zenon, <1>1
<1> QED BY ZenonT(30), <1>3, <1>4, <1>5 DEF Ids

(* Every step keeps the pages of pending_batch_pages with the batches on     *)
(* their way to commit_worker.                                               *)
LEMMA PagesStep ==
    ASSUME ControlInv, OrderInv, PagesTracked, [Next]_vars
    PROVE  PagesTracked'
<1>t. TypeOK /\ Holding /\ Lifecycle
  BY DEF ControlInv
<1>p. pending \in [BatchIds -> Seq(Records) \cup {None}] /\ commit_q \in Seq(CommitWorks)
      /\ last_exec_complete \in Nat /\ Len(commit_q) \in Nat
  BY <1>t DEF TypeOK, CacheTypeOK
<1>1. CASE ExecComplete
  <2>1. /\ epc = "pages" /\ epc' = "exit" /\ UNCHANGED <<commit_q, ebatch, work, cpc>>
        /\ pending' = [pending EXCEPT ![ebatch.batch_id] = records]
    BY <1>1 DEF ExecComplete, chanVars, commitVars
  <2>2. ebatch.batch_id \in BatchIds
    BY Zenon, <1>t, <2>1, QueueIds DEF Holding
  <2>3. records # None
    BY <1>t, NoneAssumption DEF TypeOK
  <2> QED BY <1>p, <2>1, <2>2, <2>3 DEF PagesTracked, Ids, HeldBatch
<1>2. CASE ExecExit
  <2>1. /\ epc = "exit" /\ epc' = "recv" /\ UNCHANGED <<pending, work, cpc>>
        /\ commit_q' = Append(commit_q, [batch_id |-> ebatch.batch_id,
                                         delta_bytes |-> Len(records)])
    BY <1>2 DEF ExecExit, cacheVars, commitVars
  <2>2. Ids(commit_q)' = Ids(commit_q) \cup {ebatch.batch_id}
    <3>1. Ids(commit_q)' = Ids(commit_q) \cup
              {[batch_id |-> ebatch.batch_id, delta_bytes |-> Len(records)].batch_id}
      BY Zenon, <1>p, <2>1, IdsAppend
    <3> QED BY <3>1
  <2> QED BY <2>1, <2>2 DEF PagesTracked, HeldBatch
<1>3. CASE CommitRecv
  <2>1. /\ cpc = "recv" /\ cpc' = "take" /\ UNCHANGED <<pending, epc, ebatch>>
        /\ commit_q # <<>> /\ work' = Head(commit_q) /\ commit_q' = Tail(commit_q)
    BY <1>3 DEF CommitRecv, cacheVars, execVars
  <2>2. Ids(commit_q) = Ids(commit_q)' \cup {work'.batch_id}
    BY Zenon, <1>p, <2>1, IdsTail
  <2> QED BY <2>1, <2>2 DEF PagesTracked, HeldBatch
<1>4. CASE CommitTake
  <2>1. /\ cpc = "take" /\ cpc' # "take" /\ UNCHANGED <<commit_q, epc, ebatch, work>>
        /\ pending' = [pending EXCEPT ![work.batch_id] = None]
    BY <1>4 DEF CommitTake, chanVars, execVars
  <2>2. work.batch_id \in BatchIds
    BY <1>t, <2>1, QueueIds DEF Holding
  <2>3. work.batch_id = Sent - Len(commit_q) /\ Sent \in Int
    BY <1>t, <1>p, <2>1 DEF OrderInv, CommitOrder, Holding, Sent
  <2>4. work.batch_id \notin Ids(commit_q)
    <3>1. \A i \in 1..Len(commit_q) : commit_q[i].batch_id = Sent - Len(commit_q) + i
      BY <1>p DEF OrderInv, CommitOrder
    <3>2. \A i \in 1..Len(commit_q) : commit_q[i].batch_id # work.batch_id
      BY <1>p, <2>3, <3>1
    <3> QED BY <1>p, <3>2 DEF Ids
  <2>5. epc = "exit" => work.batch_id # HeldBatch
    BY <1>p, <2>3 DEF OrderInv, ExecOrder, Sent
  <2> QED BY <1>p, <2>1, <2>2, <2>4, <2>5 DEF PagesTracked, Ids, HeldBatch
<1>5. CASE ~(ExecComplete \/ ExecExit \/ CommitRecv \/ CommitTake)
  <2>1. /\ UNCHANGED <<pending, commit_q>>
        /\ epc' = "exit" <=> epc = "exit"
        /\ cpc' = "take" <=> cpc = "take"
    BY Zenon, <1>t, <1>5 DEF Next, OrderTask, ExecWorker, CommitWorker, vars, cacheVars,
       chanVars, execVars, commitVars,
      Execute, OrderReadWindow, OrderCheckInFlight, OrderEnter, OrderJoin,
      OrderFlush, flush_oldest, OrderFlushFails, flush_oldest_fails, OrderReturn, ExecRecv,
      ExecExitOrder, ExecEnter, ExecRead, ExecuteRound, ExecuteBatch,
      ExecApply, ExecWritePage, ExecStop, CommitPut, CommitPutFails, CommitL2, CommitExit, CommitStop, Lifecycle
  <2>2. epc = "exit" => ebatch' = ebatch
    BY Zenon, <1>5, <2>1 DEF Next, OrderTask, ExecWorker, CommitWorker, vars, execVars,
      Execute, OrderReadWindow, OrderCheckInFlight, OrderEnter, OrderJoin,
      OrderFlush, OrderFlushFails, OrderReturn, ExecRecv,
      ExecExitOrder, ExecEnter, ExecRead, ExecuteRound, ExecuteBatch,
      ExecApply, ExecWritePage, ExecStop, CommitPut, CommitPutFails, CommitL2, CommitExit, CommitStop
  <2>3. cpc = "take" => work' = work
    BY Zenon, <1>5, <2>1 DEF Next, OrderTask, ExecWorker, CommitWorker, vars, commitVars,
      Execute, OrderReadWindow, OrderCheckInFlight, OrderEnter, OrderJoin,
      OrderFlush, OrderFlushFails, OrderReturn, ExecRecv,
      ExecExitOrder, ExecEnter, ExecRead, ExecuteRound, ExecuteBatch,
      ExecApply, ExecWritePage, ExecStop, CommitPut, CommitPutFails, CommitL2, CommitExit, CommitStop
  <2> QED BY <2>1, <2>2, <2>3 DEF PagesTracked, Ids, HeldBatch
<1> QED BY <1>1, <1>2, <1>3, <1>4, <1>5

(* pending_batch_pages holds pages exactly for the batches that exec_worker  *)
(* has completed and commit_batch has not taken: none is lost on the way,    *)
(* none is left behind.                                                      *)
THEOREM PagesTrackedTheorem == Spec => []PagesTracked
<1>1. Init => PagesTracked
  <2>1. Init => /\ commit_q = <<>> /\ cpc = "done" /\ epc = "done"
                /\ pending = [b \in BatchIds |-> None]
    BY Zenon DEF Init, BackendInit
  <2> QED BY <2>1 DEF PagesTracked, Ids
<1>2. ControlInv /\ OrderInv /\ PagesTracked /\ [Next]_vars => PagesTracked'
  BY PagesStep
<1> QED BY <1>1, <1>2, ControlInvariant, OrderInvariant, PTL DEF Spec
==============================================================================
