---------------------------- MODULE MCEvBlpBridge ----------------------------
(* Instances of the pipeline for model checking. *)
EXTENDS EvBlpInvariant, TLC

\* One slot that fits a key and one that is wider: the wide one is stored by
\* the state store at the cell its key decodes to.
MCSlots == {"narrow", "wide"}
MCCells == {"narrow", "wide", "cut"}
MCKeys == {"k1", "k2"}
MCEncodeKey == [s \in Slots |-> IF s = "narrow" THEN "k1" ELSE "k2"]
MCDecodeKey == [k \in MCKeys |-> IF k = "k1" THEN "narrow" ELSE "cut"]
MCValues == 0..3

\* The narrow slot starts with a value or none, the wide one only with what an
\* earlier run committed.
MCGenesis == [c \in MCCells |-> CASE c = "narrow" -> {3}
                                  [] c = "wide" -> {}
                                  [] c = "cut" -> {2}]

Write(s, v) == [slot |-> s, value |-> v]

\* Batches that move values between the slots: one record, two pages, two
\* writes to one slot, a write of zero, none; the second round of some writes
\* again what the first has written.
MCWrites(b, r, x, y) ==
    CASE b = 1 /\ r = 1 -> {<<Write("wide", 0), Write("narrow", 1 + (x % 3))>>}
      [] b = 2 /\ r = 1 -> {<<Write("wide", (x + y) % 4)>>, <<>>}
      [] b = 3 /\ r = 1 -> {<<Write("narrow", 1 + ((x + y) % 3))>>}
      [] b = 2 /\ r = 2 -> {<<>>}
      [] b \in {1, 3} /\ r = 2 -> {<<Write("wide", x)>>}

MCEffects(b, r, seen) ==
    UNION {MCWrites(b, r, x, y) : x \in seen["narrow"], y \in seen["wide"]}

\* The instance meets the premises of the refinement.
ASSUME InstancePremises == DistinctKeys
==============================================================================
