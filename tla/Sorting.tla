------------------------------ MODULE Sorting ------------------------------
(* Sorting the elements of a finite set (the sort package of Go, where the *)
(* order leaves no two elements equal).                                    *)
EXTENDS Integers, FiniteSets

Sort(S, Less(_, _)) ==
  CHOOSE s \in [1 .. Cardinality(S) -> S] :
    \A i, j \in DOMAIN s : i < j => Less(s[i], s[j])

(* The nodes of a snapshot, in the order of their names. *)
SortByName(S) == Sort(S, LAMBDA s, t : s.name < t.name)
=============================================================================
