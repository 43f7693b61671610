------------------------------- MODULE Stacks --------------------------------
(***************************************************************************)
(* Sequences used as stacks, the last element on top.                      *)
(***************************************************************************)
EXTENDS Naturals, Sequences

Last(s)  == s[Len(s)]
Front(s) == [k \in 1..(Len(s) - 1) |-> s[k]]
Items(s) == {s[k] : k \in 1..Len(s)}

(* Its first n elements.                                                   *)
Prefix(s, n) == [k \in 1..n |-> s[k]]

(* Without its k-th element.                                               *)
Remove(s, k) == [i \in 1..(Len(s) - 1) |-> IF i < k THEN s[i] ELSE s[i + 1]]

(* The elements of s that are in S, in the order they have in s.           *)
Keep(s, S) ==
    LET kept[n \in 0..Len(s)] ==
          IF n = 0 THEN <<>>
          ELSE IF s[n] \in S THEN Append(kept[n - 1], s[n])
          ELSE kept[n - 1]
    IN kept[Len(s)]
=============================================================================
