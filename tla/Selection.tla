----------------------------- MODULE Selection -----------------------------
(***************************************************************************)
(* What Iterator::filter and Vec::retain leave of a sequence.              *)
(***************************************************************************)
EXTENDS Naturals, Sequences

\* The elements of s that are in T, in their order.
Select(s, T) ==
  LET sel[k \in 0..Len(s)] ==
        IF k = 0 THEN <<>>
        ELSE IF s[k] \in T THEN Append(sel[k - 1], s[k]) ELSE sel[k - 1]
  IN sel[Len(s)]
=============================================================================
