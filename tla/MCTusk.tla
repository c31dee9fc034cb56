-------------------------------- MODULE MCTusk --------------------------------
(* Four authorities and five rounds for model checking. *)
EXTENDS Tusk

CONSTANTS v1, v2, v3, v4

MCLeader == [r \in 1..MaxRound |-> IF r = 2 THEN v1 ELSE v2]

\* Every certificate refers to three of the four of the previous round: the
\* leader of round 4 to any three, those of the odd rounds leave out the leader
\* or v4, the others v4.
MCDags ==
    {[x \in Certificates |->
        CASE Round(x) = 1 -> Authorities
          [] Round(x) = 3 /\ Origin(x) \notin s3 -> Authorities \ {v1}
          [] Round(x) = 4 /\ Origin(x) = v2 -> p4
          [] Round(x) = 5 /\ Origin(x) \notin s5 -> Authorities \ {v2}
          [] OTHER -> Authorities \ {v4}] :
        s3 \in SUBSET {v1, v3, v4},
        s5 \in {{v1}, {v1, v3}, Authorities},
        p4 \in {Authorities \ {x} : x \in Authorities}}
=============================================================================
