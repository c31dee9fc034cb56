------------------------------ MODULE SeqFolds ------------------------------
(***************************************************************************)
(* The operators on sequences that the scheduler of Chase is written with, *)
(* under the names they have in the community module SequencesExt.  That   *)
(* module extends Bags and with it the theorems about bags, which every    *)
(* proof obligation about the scheduler would carry along.                 *)
(***************************************************************************)
EXTENDS Integers, Sequences, FiniteSetsExt

Last(s) == s[Len(s)]

(* The sequences in which each element of the set S occurs once. *)
SetToSeqs(S) == Injection(1..Cardinality(S), S)

(* op(...op(op(base, s[1]), s[2])..., s[Len(s)]) *)
FoldLeft(op(_, _), base, s) ==
    MapThenFoldSet(LAMBDA x, acc : op(acc, x), base, LAMBDA i : s[i], Max, DOMAIN s)

(* The sequences of z one after the other. *)
FlattenSeq(z) ==
    LET upto[n \in DOMAIN z] == IF n = 1 THEN z[1] ELSE upto[n - 1] \o z[n]
    IN  IF z = <<>> THEN <<>> ELSE upto[Len(z)]
=============================================================================
