------------------------------- MODULE GSList -------------------------------
(***************************************************************************)
(* The operations of GLib's singly linked list that the event schedulers   *)
(* of LTTV use, on sequences: g_slist_append of several elements is \o,    *)
(* g_slist_remove of a set of elements is Keep of the others, and          *)
(* g_slist_find_custom is the first element that satisfies a condition.    *)
(*                                                                         *)
(* Keep is not recursive, so that lemmas about it can be proved            *)
(* (GSListProofs).                                                         *)
(***************************************************************************)
EXTENDS Integers, Sequences, FiniteSets, Functions

\* No element is linked twice.
NoDuplicates(list) ==
  \A i, j \in DOMAIN list : list[i] = list[j] => i = j

\* The links of list whose element is in S.
Links(list, S) == {i \in DOMAIN list : list[i] \in S}

\* How many of these links come no later than link i.
LinkRank(list, S, i) == Cardinality({j \in Links(list, S) : j <= i})

\* list without the elements outside S, the others in their order.
Keep(list, S) ==
  [k \in 1..Cardinality(Links(list, S)) |->
     list[CHOOSE i \in Links(list, S) : LinkRank(list, S, i) = k]]

\* list without the elements of S.
Without(list, S) == Keep(list, Range(list) \ S)

\* x is the element of S that comes first in list.
IsFirstOf(x, S, list) ==
  \E i \in DOMAIN list : /\ list[i] = x
                         /\ x \in S
                         /\ \A j \in 1..(i - 1) : list[j] \notin S
=============================================================================
