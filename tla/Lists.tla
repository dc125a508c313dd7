-------------------------------- MODULE Lists ---------------------------------
(* What the configuration code filters its lists and strings with. *)
EXTENDS Integers, Sequences

\* The elements of s that are in S, in their order: SelectSeq, in a form that the
\* proofs can unfold.
Only(s, S) ==
  LET kept[i \in 0 .. Len(s)] ==
        IF i = 0 THEN <<>>
        ELSE IF s[i] \in S THEN Append(kept[i - 1], s[i])
        ELSE kept[i - 1]
  IN  kept[Len(s)]
===============================================================================
