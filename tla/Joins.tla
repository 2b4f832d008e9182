------------------------------- MODULE Joins -------------------------------
(***************************************************************************)
(* What a selection of tables means: joinGraph.ts and buildSelect.ts.  The *)
(* statement is the order of its tables and, for each after the first, the *)
(* table it joins and the columns; the words and the quoting are left out. *)
(***************************************************************************)
EXTENDS SchemaGraph

Known(graph, picks) == Only(picks, Ids(graph.entities))

(* The two ends pair positionally. *)
Joinable(r) ==
  /\ Len(r.source.columns) > 0
  /\ Len(r.source.columns) = Len(r.target.columns)

(* The columns a relationship pairs, as one of its tables tells them. *)
Told(r, anchor) ==
  IF r.source.entity = anchor
  THEN [anchor |-> r.source.columns, joined |-> r.target.columns]
  ELSE [anchor |-> r.target.columns, joined |-> r.source.columns]

(* The first usable relationship of the two, from the anchor's side. *)
JoinColumns(rs, anchor, joined) ==
  LET usable == {i \in DOMAIN rs : Pair(rs[i]) = {anchor, joined} /\ Joinable(rs[i])}
  IN IF usable = {} THEN None ELSE Told(rs[Min(usable)], anchor)

JoinsAny(rs, members, candidate) == \E m \in members : JoinColumns(rs, m, candidate) # None

(* The picks that joins between picks lead to from one of them. *)
Members(rs, picked, start) ==
  LET picks == ToSet(picked)
      grown[n \in 0 .. Len(picked)] ==
        IF n = 0 THEN {start}
        ELSE LET ms == grown[n - 1] IN ms \union {id \in picks : JoinsAny(rs, ms, id)}
  IN grown[Len(picked)]

(* Groups in the order of their first members, members in pick order. *)
Starts(rs, picked) ==
  LET grouped(i) == \E j \in 1 .. i - 1 : picked[i] \in Members(rs, picked, picked[j])
  IN Only([i \in DOMAIN picked |-> i], {i \in DOMAIN picked : ~grouped(i)})

JoinGroups(rs, picked) ==
  LET starts == Starts(rs, picked)
  IN [g \in DOMAIN starts |-> Only(picked, Members(rs, picked, picked[starts[g]]))]

-----------------------------------------------------------------------------
(* The table to add that would merge the most groups. *)

Bridge(rs, groups, id) ==
  [entity |-> id, connects |-> {g \in DOMAIN groups : JoinsAny(rs, ToSet(groups[g]), id)}]

ByMostUseful(a, b) ==
  LET rank(x) == <<Cardinality(x.connects), IF 1 \in x.connects THEN 1 ELSE 0>>
  IN \/ rank(a)[1] > rank(b)[1]
     \/ rank(a)[1] = rank(b)[1] /\ rank(a)[2] > rank(b)[2]
     \/ rank(a) = rank(b) /\ a.entity < b.entity

Bridges(graph, picked) ==
  LET groups == JoinGroups(graph.relationships, picked)
      bridges == {Bridge(graph.relationships, groups, id) :
                    id \in Ids(graph.entities) \ ToSet(picked)}
  IN {b \in bridges : Cardinality(b.connects) > 1}

RankBridges(graph, picked) == InOrder(Bridges(graph, picked), ByMostUseful)

(* Variant: the best-ranked one, whatever it touches. *)
RemedyIsFirst(graph, picked) ==
  LET bridges == RankBridges(graph, picked)
  IN IF bridges = <<>> THEN None ELSE bridges[1]

(* The best-ranked bridge that touches the group of the first pick. *)
Remedy(graph, picked) ==
  LET bridges == Only(RankBridges(graph, picked),
                      {b \in Bridges(graph, picked) : 1 \in b.connects})
  IN IF bridges = <<>> THEN None ELSE bridges[1]

-----------------------------------------------------------------------------
(* The statement. *)

(* Attach: the earliest table of the statement that its next table joins. *)
Attach(rs, included, next) ==
  LET anchor == Min({i \in DOMAIN included : JoinColumns(rs, included[i], next) # None})
  IN [anchor |-> anchor, on |-> JoinColumns(rs, included[anchor], next)]

(* Going through the picks, each that joins the statement is appended to it. *)
Pass(rs, picked, included) ==
  LET upTo[k \in 0 .. Len(picked)] ==
        IF k = 0 THEN included
        ELSE LET chain == upTo[k - 1]
             IN IF Contains(chain, picked[k]) \/ ~JoinsAny(rs, ToSet(chain), picked[k])
                THEN chain
                ELSE Append(chain, picked[k])
  IN upTo[Len(picked)]

Chain(rs, picked, passes) ==
  LET after[p \in 0 .. passes] ==
        IF p = 0 THEN <<picked[1]>> ELSE Pass(rs, picked, after[p - 1])
  IN after[passes]

(* The tables in the order of the statement, and how each joins. *)
Plan(rs, included) ==
  [included |-> included,
   steps |-> [i \in 1 .. Len(included) - 1 |->
                Attach(rs, SubSeq(included, 1, i), included[i + 1])]]

(* Variant: a single pass. *)
PlanInOnePass(rs, picked) == Plan(rs, Chain(rs, picked, 1))

(* Passes until one adds nothing: as many as there are picks are enough. *)
PlanJoins(rs, picked) == Plan(rs, Chain(rs, picked, Len(picked)))

Nothing == [included |-> <<>>, steps |-> <<>>, groups |-> <<>>, remedy |-> None]

BuildSelect(graph, picks) ==
  LET rs == graph.relationships
      picked == Known(graph, picks)
      plan == PlanJoins(rs, picked)
  IN IF picked = <<>> THEN Nothing
     ELSE [included |-> plan.included, steps |-> plan.steps,
           groups |-> JoinGroups(rs, picked), remedy |-> Remedy(graph, picked)]

(* What the flyout says beside a pick. *)
RowLabel(query, id) ==
  LET g == CHOOSE i \in DOMAIN query.groups : id \in ToSet(query.groups[i])
  IN IF g = 1 THEN "in the query"
     ELSE IF Len(query.groups[g]) = 1 THEN "not joined" ELSE "joins others"
=============================================================================
