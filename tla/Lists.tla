-------------------------------- MODULE Lists --------------------------------
(* What the loops of ccguard build that append to a result as they go: the   *)
(* lists of a list, joined (FlattenSeq), or what is accepted of one.         *)
EXTENDS Naturals, Sequences, SequencesExt

(* The elements of s at the positions in S. *)
Chosen(s, S) ==
  FlattenSeq([i \in 1..Len(s) |-> IF i \in S THEN <<s[i]>> ELSE <<>>])
=============================================================================
