----------------------------- MODULE Subsequence -----------------------------
(***************************************************************************)
(* Filtering a sequence.  SelectSeq of the standard modules does the same; *)
(* it takes an operator, of which no prover can be told anything, where    *)
(* this takes the set of the places that are kept.                         *)
(***************************************************************************)
EXTENDS Integers, SequencesExt

(* The elements of a sequence at some of its places, in their order.       *)
Part(seq, places) ==
    LET part[i \in 0..Len(seq)] ==
            IF i = 0 THEN <<>>
            ELSE IF i \in places THEN Append(part[i - 1], seq[i])
            ELSE part[i - 1]
    IN  part[Len(seq)]
=============================================================================
