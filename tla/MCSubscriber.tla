---------------------------- MODULE MCSubscriber ----------------------------
(* Sub-dags with two, no and one batches for model checking. *)
EXTENDS Subscriber

MCBatches == [i \in 1..MaxIndex |-> IF i = 1 THEN 2 ELSE IF i = 2 THEN 0 ELSE 1]
=============================================================================
