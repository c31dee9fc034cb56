------------------------- MODULE PipelineController -------------------------
(***************************************************************************)
(* The AIMD window controller of the EV-BLP pipeline                       *)
(* (chase/src/executor/pipeline/controller.rs, stages.rs).                 *)
(*                                                                         *)
(* Each stage s has a push window zeta[s], a backpressure weight w[s] (gas *)
(* for Order and Exec, bytes for Commit) and the number in_flight[s] of    *)
(* batches inside it.  Leaving a stage re-computes the window of that      *)
(* stage from the weight of the next one.                                  *)
(*                                                                         *)
(* Weights are natural numbers: the u64 of the code wraps only above 2^64  *)
(* and a single batch is inside Exec and inside Commit at any time.        *)
(***************************************************************************)
EXTENDS Naturals

CONSTANTS ZetaMax,  \* PipelineConfig::zeta_max
          Lambda2,  \* PipelineConfig::lambda2, overload threshold of Exec
          Lambda3   \* PipelineConfig::lambda3, overload threshold of Commit

ASSUME ControllerAssumption ==
    ZetaMax \in Nat /\ Lambda2 \in Nat /\ Lambda3 \in Nat

VARIABLES zeta, w, in_flight

controllerVars == <<zeta, w, in_flight>>

Stages == {"Order", "Exec", "Commit"}

\* StageId::next on the two stages that have a successor.
NextStage(s) == IF s = "Order" THEN "Exec" ELSE "Commit"

\* lambda[0] is unused: no stage precedes Order.
lambda(s) == IF s = "Exec" THEN Lambda2 ELSE Lambda3

lesser(a, b) == IF a <= b THEN a ELSE b

\* Mutant: a plain subtraction.
plain_sub(a, b) == a - b

saturating_sub(a, b) == IF b <= a THEN a - b ELSE 0

\* A cold controller: every window is 1, nothing in flight.
ControllerInit ==
    /\ zeta = [s \in Stages |-> 1]
    /\ w = [s \in Stages |-> 0]
    /\ in_flight = [s \in Stages |-> 0]

\* can_push when nothing moves between its two loads.
can_push(s) == zeta[s] # 0 /\ in_flight[s] < zeta[s]

\* Mutant: the window follows the weight of its own stage.
new_zeta_of_own_weight(s) ==
    IF w[s] = 0 THEN lesser(2 * zeta[s], ZetaMax)
    ELSE IF w[s] < lambda(NextStage(s)) THEN lesser(zeta[s] + 1, ZetaMax)
    ELSE 0

\* The window tick computes: doubled over an idle successor, one more under
\* light load, closed at or above the threshold.
new_zeta(s) ==
    LET w_next == w[NextStage(s)]
        capped == lesser(2 * zeta[s], ZetaMax)
    IN  IF w_next = 0 THEN (IF capped = 0 THEN 1 ELSE capped)
        ELSE IF w_next < lambda(NextStage(s)) THEN lesser(zeta[s] + 1, ZetaMax)
        ELSE 0

tick(s) ==
    IF s = "Commit" THEN UNCHANGED zeta
                    ELSE zeta' = [zeta EXCEPT ![s] = new_zeta(s)]

on_batch_enter(s, gas_or_bytes) ==
    /\ w' = [w EXCEPT ![s] = @ + gas_or_bytes]
    /\ in_flight' = [in_flight EXCEPT ![s] = @ + 1]
    /\ UNCHANGED zeta

\* Mutant: the weight of the leaving batch is not taken off.
on_batch_exit_keeps_weight(s, gas_or_bytes, current) ==
    /\ in_flight' = [in_flight EXCEPT ![s] = saturating_sub(@, 1)]
    /\ tick(s)
    /\ UNCHANGED w

\* The weight is stored from a value loaded earlier: the load and the store
\* are separate atomic operations, so an addition in between is overwritten.
on_batch_exit(s, gas_or_bytes, current) ==
    /\ w' = [w EXCEPT ![s] = saturating_sub(current, gas_or_bytes)]
    /\ in_flight' = [in_flight EXCEPT ![s] = saturating_sub(@, 1)]
    /\ tick(s)

ControllerTypeOK ==
    /\ zeta \in [Stages -> Nat]
    /\ w \in [Stages -> Nat]
    /\ in_flight \in [Stages -> Nat]
=============================================================================
