------------------------------- MODULE Filter -------------------------------
(***************************************************************************)
(* How the schedulers of basic-sim keep the entries that concern their own *)
(* system: a loop over the complete schedule with a push_back.             *)
(***************************************************************************)
EXTENDS Integers, Sequences

(* The elements of seq that are in keep, in the order of seq.                *)
Kept(seq, keep) ==
  LET kept[k \in 0 .. Len(seq)] ==
        IF k = 0 THEN <<>>
        ELSE IF seq[k] \in keep THEN Append(kept[k - 1], seq[k]) ELSE kept[k - 1]
  IN  kept[Len(seq)]
=============================================================================
