------------------------------- MODULE Ordering -------------------------------
(***************************************************************************)
(* The numbers of a set from the least up, as sorted() gives them: names   *)
(* of devices, or the places of a list that are kept.                      *)
(***************************************************************************)
EXTENDS Integers, FiniteSets

InOrder(numbers) ==
    [k \in 1..Cardinality(numbers) |->
       CHOOSE n \in numbers : Cardinality({m \in numbers : m < n}) = k - 1]
=============================================================================
