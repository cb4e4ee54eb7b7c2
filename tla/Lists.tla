------------------------------- MODULE Lists -------------------------------
(***************************************************************************)
(* The loop both schedulers thin out their lists with: it walks the list   *)
(* once and moves every entry that stays up behind the last one that did.  *)
(* It is written as a recursive function over the positions walked.        *)
(***************************************************************************)
EXTENDS Naturals, Sequences

(* The elements of s that are in S, in order.                              *)
Kept(s, S) ==
  LET kept[i \in 0..Len(s)] ==
        IF i = 0 THEN <<>>
        ELSE IF s[i] \in S THEN Append(kept[i - 1], s[i]) ELSE kept[i - 1]
  IN kept[Len(s)]
=============================================================================
