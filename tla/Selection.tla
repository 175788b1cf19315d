----------------------------- MODULE Selection -----------------------------
(***************************************************************************)
(* The loops of the program that go over a list and keep some of it.       *)
(***************************************************************************)
EXTENDS Naturals, Sequences

\* The elements of s that are in a set, in their order: SelectSeq, but of a set
\* and open to proofs.
Select(s, keep) ==
  LET first[k \in 0..Len(s)] ==
        IF k = 0 THEN <<>>
        ELSE IF s[k] \in keep THEN Append(first[k - 1], s[k]) ELSE first[k - 1]
  IN first[Len(s)]
=============================================================================
