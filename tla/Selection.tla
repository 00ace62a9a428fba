----------------------------- MODULE Selection ------------------------------
(* What a comprehension with a condition keeps of a list.                   *)
EXTENDS Naturals, Sequences

\* Those of some entries that are in a set, in their order.
Among(entries, S) ==
    LET taken[n \in 0..Len(entries)] ==
          IF n = 0 THEN <<>>
          ELSE IF entries[n] \in S THEN Append(taken[n - 1], entries[n])
               ELSE taken[n - 1]
    IN  taken[Len(entries)]
=============================================================================
