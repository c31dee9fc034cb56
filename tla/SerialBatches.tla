---------------------------- MODULE SerialBatches ----------------------------
(***************************************************************************)
(* What the EV-BLP pipeline promises to its batches: they execute one      *)
(* after another in the order of their ids, each on the state its          *)
(* predecessors left.  Inside a batch the transactions that are executed   *)
(* again read each slot from that state or from what the rounds of their   *)
(* own batch have written: which of the two is not promised.               *)
(***************************************************************************)
EXTENDS Naturals, Sequences

CONSTANTS Slots, Values,
          MaxBatch,          \* bound on the batches of a behaviour
          Rounds,            \* bound on the rounds of a batch
          Effects(_, _, _),  \* the write lists a round of a batch may produce
          Overwrite(_, _)    \* a state after the writes were made in order

VARIABLES state,     \* what the batches executed so far have left
          executed,  \* the last batch executed
          round,     \* the round of the next one
          effects    \* the writes of its rounds so far

vars == <<state, executed, round, effects>>

Init ==
    /\ state \in [Slots -> Values]
    /\ executed = 0 /\ round = 1 /\ effects = <<>>

\* What a read of the slot may return.
Readable(s) ==
    {state[s]} \cup {effects[i].value : i \in {j \in DOMAIN effects : effects[j].slot = s}}

\* What a round may have read from each slot.
Views ==
    {view \in [Slots -> SUBSET Values] :
        \A s \in Slots : view[s] # {} /\ view[s] \subseteq Readable(s)}

ExecuteRound ==
    /\ executed < MaxBatch /\ round < Rounds
    /\ round' = round + 1
    /\ \E view \in Views : \E writes \in Effects(executed + 1, round, view) :
        effects' = effects \o writes
    /\ UNCHANGED <<state, executed>>

ExecuteLast ==
    /\ executed < MaxBatch /\ round = Rounds
    /\ executed' = executed + 1 /\ round' = 1 /\ effects' = <<>>
    /\ \E view \in Views : \E writes \in Effects(executed + 1, round, view) :
        state' = Overwrite(state, effects \o writes)

Spec == Init /\ [][ExecuteRound \/ ExecuteLast]_vars
==============================================================================
