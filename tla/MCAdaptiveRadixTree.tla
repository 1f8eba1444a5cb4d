------------------------ MODULE MCAdaptiveRadixTree ------------------------
(***************************************************************************)
(* Instances of AdaptiveRadixTree for TLC, with nodes of 3, 4, 5 and 6     *)
(* children and two bytes of stored prefix.                                *)
(***************************************************************************)
EXTENDS AdaptiveRadixTree

Names(S) == {Append(s, 0) : s \in S}

Sizes == <<3, 4, 5, 6>>
Few == <<1, 2, 3, 4>>

(* Six keys that differ after a prefix longer than what is stored, one     *)
(* below one of them, and keys that split that prefix in its stored part   *)
(* and behind it.                                                          *)
Long == <<1, 1, 1, 1>>
Fan == {Long} \cup {Append(Long, b) : b \in 1..5}
Splits == {Long \o <<2, 3>>, <<1, 2>>, <<1, 1, 1, 2>>}
FilterNames == Names(Fan \cup Splits)
Folders == Names({Long, <<1, 2>>})

Lookups == FilterNames \cup Names({<<1>>, <<1, 1, 1>>, <<1, 1, 2, 1, 3>>})
ListPrefixes == {<<>>, <<1>>, <<1, 1, 1>>, Long, Long \o <<2>>, <<1, 2>>, <<2, 1>>,
                 <<1, 1, 1, 2>>, <<1, 1, 2, 1, 2>>}
OwnValues == [k \in FilterNames |-> IF k \in Names(Fan) THEN {1} ELSE {2}]
=============================================================================
