-------------------------------- MODULE Lists ---------------------------------
(***************************************************************************)
(* What several modules compute of a sequence, as functions defined by     *)
(* recursion on a place in it, which a proof can follow place by place.    *)
(***************************************************************************)
EXTENDS Naturals, Sequences

\* The elements of s that are in S, in order.
Kept(s, S) ==
  LET kept[i \in 0..Len(s)] ==
        IF i = 0 THEN <<>>
        ELSE IF s[i] \in S THEN Append(kept[i - 1], s[i]) ELSE kept[i - 1]
  IN  kept
Only(s, S) == Kept(s, S)[Len(s)]
=============================================================================
