------------------------------- MODULE Lists -------------------------------
(***************************************************************************)
(* What a loop over a list computes, as recursive functions: the provers   *)
(* can follow these and not the folds of the community modules.            *)
(***************************************************************************)
EXTENDS Naturals, Sequences

\* What of a list is among some, in the list's order (Iterator::filter).
Kept(list, some) ==
  LET kept[i \in 0 .. Len(list)] ==
        IF i = 0 THEN <<>>
        ELSE IF list[i] \in some THEN Append(kept[i - 1], list[i]) ELSE kept[i - 1]
  IN kept[Len(list)]

\* The numbers of a list together (Iterator::sum).
SumOf(list) ==
  LET sum[i \in 0 .. Len(list)] == IF i = 0 THEN 0 ELSE sum[i - 1] + list[i]
  IN sum[Len(list)]
=============================================================================
