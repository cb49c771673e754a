------------------------------- MODULE Lists -------------------------------
(***************************************************************************)
(* A loop that copies what it wants of a list, as the file store and the   *)
(* tariff write it: SelectSeq as a recursive function, whose definition a  *)
(* proof can expand.                                                       *)
(***************************************************************************)
EXTENDS Naturals, Sequences

\* The elements of list that are in S, in their order.
Filter(list, S) ==
  LET kept[n \in 0..Len(list)] ==
        IF n = 0 THEN <<>>
        ELSE IF list[n] \in S THEN Append(kept[n - 1], list[n]) ELSE kept[n - 1]
  IN kept[Len(list)]
=============================================================================
