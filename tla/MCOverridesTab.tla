--------------------------- MODULE MCOverridesTab ---------------------------
EXTENDS OverridesTab

(* Three tables.  A rebuild spells a column otherwise and drops a table;   *)
(* of the stored rows one refers against the order of the names, and one   *)
(* suppresses.                                                             *)
CatalogsMC == {<<{"Sk", "x"}, {"sk"}, {"x"}>>, <<{"sk", "x"}, {"sk"}>>}
FoldMC == [Sk |-> "sk", sk |-> "sk", x |-> "x"]
Row(a, b, columnsA, columnsB, manySide, action, cardinality) ==
  [a |-> a, b |-> b, columnsA |-> columnsA, columnsB |-> columnsB, manySide |-> manySide,
   action |-> action, cardinality |-> cardinality]
StoredMC ==
  {<<>>, <<Row(1, 2, <<"Sk">>, <<"sk">>, "b", "join", "one_to_one"),
           Row(2, 3, <<>>, <<>>, "a", "suppress", "many_to_one")>>}
=============================================================================
