----------------------------- MODULE Positions ------------------------------
(***************************************************************************)
(* The elements of a sequence at some of its positions, in order: what a   *)
(* comprehension with a condition keeps of a list.  A recursive function   *)
(* of the standard kind, so that it can be proved about (Induction).       *)
(***************************************************************************)
EXTENDS Integers, Sequences

Pick(s, P) ==
  LET upto[n \in 0..Len(s)] ==
        IF n = 0 THEN <<>>
        ELSE IF n \in P THEN Append(upto[n - 1], s[n]) ELSE upto[n - 1]
  IN upto[Len(s)]
=============================================================================
