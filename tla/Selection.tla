------------------------------ MODULE Selection ------------------------------
(***************************************************************************)
(* The elements of a sequence that belong to a set, in their order: what    *)
(* SelectSeq is, written so that it can be reasoned about.                  *)
(***************************************************************************)
EXTENDS Naturals, Sequences

Selected(s, S) ==
  LET kept[i \in 0 .. Len(s)] ==
        IF i = 0 THEN <<>>
        ELSE IF s[i] \in S THEN Append(kept[i - 1], s[i]) ELSE kept[i - 1]
  IN kept[Len(s)]
=============================================================================
