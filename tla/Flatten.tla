------------------------------- MODULE Flatten -------------------------------
(***************************************************************************)
(* The lines, words or characters of a sequence of sequences.              *)
(***************************************************************************)
EXTENDS Integers, Sequences

(* Sequences one after the other.                                          *)
FlatUpTo(seqs) ==
  LET flat[n \in 0..Len(seqs)] == IF n = 0 THEN <<>> ELSE flat[n - 1] \o seqs[n]
  IN flat
Flat(seqs) == FlatUpTo(seqs)[Len(seqs)]
=============================================================================
