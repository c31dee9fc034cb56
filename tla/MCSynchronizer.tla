---------------------------- MODULE MCSynchronizer ----------------------------
EXTENDS Synchronizer

CONSTANTS a1, b1, a2, b2, a3, b3, a4, a5

MCByRound == <<a1, b1, a2, b2, a3, b3, a4, a5>>

MCRound ==
    [c \in Range(MCByRound) |->
        CASE c \in {a1, b1} -> 1 [] c \in {a2, b2} -> 2 [] c \in {a3, b3} -> 3
          [] c = a4 -> 4 [] c = a5 -> 5]

MCOrigin == [c \in Range(MCByRound) |-> IF c \in {b1, b2, b3} THEN "b" ELSE "a"]

\* A part of a DAG in which the certificates of b are left behind.
MCParents ==
    [c \in Range(MCByRound) |->
        CASE c \in {a1, b1} -> {} [] c = a2 -> {a1} [] c = b2 -> {a1, b1}
          [] c = a3 -> {a2} [] c = b3 -> {a2, b2} [] c = a4 -> {a3} [] c = a5 -> {a4}]

\* One peer has everything, one collected round 1 before it got b1.
MCPeers == {Certificates, Certificates \ {b1}}
===============================================================================
