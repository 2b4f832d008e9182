----------------------------- MODULE MCDiagram -----------------------------
(* Four tables for the diagram: a fact (1), its date dimension (2), a *)
(* table whose key the fact repeats (3), and one that no guess joins (4).  *)
EXTENDS Diagram

Table(id, of, columns, primaryKey) ==
  [id |-> id, of |-> of, columns |-> columns, primaryKey |-> primaryKey]
ForeignKey(name, source, target) == [name |-> name, source |-> source, target |-> target]
Override(action, source, target) == [action |-> action, source |-> source, target |-> target]

Plain(name) == [name |-> name, keyOf |-> None]
DateKey == [name |-> "datesk", keyOf |-> "date"]

Four == <<
  Table(1, None, <<DateKey, Plain("k"), Plain("x")>>, <<>>),
  Table(2, "date", <<DateKey, Plain("z")>>, <<>>),
  Table(3, None, <<Plain("k"), Plain("y")>>, <<"k">>),
  Table(4, None, <<Plain("y"), Plain("z")>>, <<>>) >>

Guesses == <<[tables |-> Four, foreignKeys |-> <<>>], <<>>>>

(* 1 has two keys to 3; one of 4 leads out of the schema, one of 3 to 3.   *)
Constraints == << [tables |-> Four, foreignKeys |-> <<
  ForeignKey(1, End(1, <<"k">>), End(3, <<"k">>)),
  ForeignKey(2, End(1, <<"k", "x">>), End(3, <<"k", "y">>)),
  ForeignKey(3, End(4, <<"z">>), End(9, <<"z">>)),
  ForeignKey(4, End(3, <<"y">>), End(3, <<"k">>)) >>], <<>> >>

(* Admins join 3 with 4 and with 1, and part 1 from 2.  After a rebuild    *)
(* without 4, one of the overrides hangs.                                  *)
Overrides == <<
  Override("join", End(4, <<"y">>), End(3, <<"y">>)),
  Override("suppress", End(1, <<"datesk">>), End(2, <<"datesk">>)),
  Override("join", End(3, <<"y">>), End(1, <<"x">>)) >>
Overridden == <<[tables |-> Four, foreignKeys |-> <<>>], Overrides>>
Rebuilt == <<[tables |-> SubSeq(Four, 1, 3), foreignKeys |-> <<>>], Overrides>>

AllCaptures == {Guesses, Constraints, Overridden, Rebuilt}
=============================================================================
