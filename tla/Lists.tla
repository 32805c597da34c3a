---------------------------------- MODULE Lists ----------------------------------
(***************************************************************************)
(* The array operations of the searches: filter, a filter with a set of    *)
(* what was seen, and slice from the start.  A filter is given by the      *)
(* positions it keeps and walks the array once, as a recursive function.   *)
(***************************************************************************)
EXTENDS Integers, Sequences

\* The elements of a list at some of its positions, in the order of the list.
At(list, positions) ==
  LET at[n \in 0..Len(list)] ==
        IF n = 0 THEN <<>>
        ELSE IF n \in positions THEN Append(at[n - 1], list[n])
        ELSE at[n - 1]
  IN at[Len(list)]

\* Where a list has what it does not have before.
FirstsOf(list) == {i \in DOMAIN list : \A j \in 1..(i - 1) : list[j] # list[i]}

UpTo(n, list) == SubSeq(list, 1, IF n < Len(list) THEN n ELSE Len(list))
=============================================================================
