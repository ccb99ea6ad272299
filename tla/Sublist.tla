------------------------------- MODULE Sublist -------------------------------
(* A loop over a sequence that keeps some of its elements. *)
EXTENDS Naturals, Sequences

\* [p for p in s if p in S]
Keep(s, S) ==
  LET kept[n \in 0 .. Len(s)] ==
        IF n = 0 THEN <<>>
        ELSE IF s[n] \in S THEN Append(kept[n - 1], s[n]) ELSE kept[n - 1]
  IN  kept[Len(s)]

=============================================================================
