--------------------------- MODULE MCConnHandler ---------------------------
(* Lines for every handler and each of its branches; chunks of two keys.   *)
EXTENDS ConnHandler, TLC

CONSTANTS c1, c2

Life(n) == {<<"create", n>>, <<"drop", n>>, <<"close", n>>, <<"clear", n>>}

(* One client sends keys, another changes the filter meanwhile.            *)
KeyLines == {<<"check", "f", "k", "l">>, <<"s", "f", "k", "l">>,
             <<"m", "f">>, <<"c", "f", "">>, <<"">>,
             <<"m", "f", "k", "l", "k", "">>, <<"multi", "f", "l", "", "k">>,
             <<"b", "f", "k", "k", "l">>, <<"bulk", "f", "l", "k">>}

KeysBesideLife ==
  (c1 :> KeyLines) @@ (c2 :> Life("f") \cup {<<"set", "f", "k">>})

(* One client asks for all filters, another changes them meanwhile.        *)
AllBesideLife ==
  (c1 :> {<<"list">>, <<"list", "f">>, <<"list", "">>, <<"flush">>,
          <<"flush", "f">>, <<"flush", "">>, <<"info", "g">>,
          <<"info", "g", "x">>, <<"create">>, <<"create", "">>}) @@
  (c2 :> Life("f") \cup Life("g"))

(* Two clients create with options.                                        *)
Creates ==
  (c1 :> {<<"create", "f", "capacity=10001", "prob=0.01">>,
          <<"create", "f", "in_memory=1", "prob">>, <<"create", "f", "">>,
          <<"create", "f", "capacity=10000">>,
          <<"create", "f", "capacity=10000", "capacity=10001">>,
          <<"create", "f", "prob=0.1", "size">>,
          <<"create", "f", "in_memory=2", "prob=0">>}) @@
  (c2 :> Life("f") \cup {<<"create", "f", "in_memory=1">>})

Scripts == {KeysBesideLife, AllBesideLife, Creates}
Collisions == {<<"l">>}
Beginning == (<<"f">> :> {"f"}) @@ (<<"">> :> {"f", "g"})

=============================================================================
