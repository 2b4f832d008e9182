------------------------------ MODULE Diagram ------------------------------
(***************************************************************************)
(* What a user does to an open Omni-ERD diagram: ErdCanvas.tsx with its    *)
(* search, its two flyouts and the focus banner, over the graph that       *)
(* infer.py makes of a catalog.  Where the tables are, and saving it, is   *)
(* DiagramLayout's subject.  The camera is left out, and what React Flow   *)
(* has highlighted is left open: any cards and edges.                      *)
(***************************************************************************)
EXTENDS Joins

CONSTANTS Captures,       \* catalogs, with overrides, the graph endpoint may read
          StartModes,     \* default modes a saved view may have
          ReducedMotion,  \* the user wants no animations
          MaxHighlit,     \* bound: cards, and edges, highlighted at once
          MaxActs         \* bound: mode changes, focuses, jumps, deletions, refetches

(* Lists are finite, and the overrides of a capture are rows of a table     *)
(* that has one for a pair (UniqueConstraint of models.py).                *)
ASSUME CapturesAreCatalogs ==
  \A c \in Captures :
    /\ c[1].tables \in Seq(ToSet(c[1].tables))
    /\ \A t \in ToSet(c[1].tables) : t.columns \in Seq(ToSet(t.columns))
    /\ c[1].foreignKeys \in Seq(ToSet(c[1].foreignKeys))
    /\ \A k \in ToSet(c[1].foreignKeys) : k.source.columns \in Seq(ToSet(k.source.columns))
    /\ c[2] \in Seq(ToSet(c[2]))
    /\ \A o, p \in ToSet(c[2]) : Pair(o) = Pair(p) => o = p

Graphs == {Graph(c[1], c[2]) : c \in Captures}

(* None is no columns to join on, and no role of a key. *)
ASSUME NoneIsNothing ==
  /\ None \notin [role : {"pk", "fk"}, guess : BOOLEAN]
  /\ \A g \in Graphs : \A r \in ToSet(g.relationships) :
       \A x, y \in {r.source.columns, r.target.columns} : None # [anchor |-> x, joined |-> y]
ASSUME ReducedMotionIsBool == ReducedMotion \in BOOLEAN
ASSUME MaxHighlitIsNat == MaxHighlit \in Nat
ASSUME MaxActsIsNat == MaxActs \in Nat

VARIABLES graph,     \* the graph the canvas was given
          viewState, \* the view state: default mode, and the overrides
          cards,     \* data.mode of the nodes on the canvas
          edges,     \* the edges, with the handles they hang on
          away,      \* nodes and relationships that are hidden
          selected,  \* selectedIds, in the order of the Ctrl-clicks
          inspected, \* inspectedId
          focused,   \* focusedId
          fading,    \* focuses whose cards are still fading
          acts       \* acts so far

flyouts == <<selected, inspected>>
drawn == <<cards, edges>>
dvars == <<graph, viewState, drawn, away, flyouts, focused, fading, acts>>

TableIds == Ids(graph.entities)
Relations == ToSet(graph.relationships)

-----------------------------------------------------------------------------
(* Cards. *)

EffectiveMode(v, id) == IF id \in DOMAIN v.overrides THEN v.overrides[id] ELSE v.default

NextMode(mode) == [all |-> "keys", keys |-> "none", none |-> "all"][mode]

SetNodeMode(v, id, mode) ==
  [v EXCEPT !.overrides =
     [t \in IF mode = v.default THEN DOMAIN @ \ {id} ELSE DOMAIN @ \union {id} |->
        IF t = id THEN mode ELSE @[t]]]

(* Columns at the end of any relationship. *)
Connected(rs, id) ==
  UNION {UNION {ToSet(end.columns) : end \in {e \in {rs[i].source, rs[i].target} : e.entity = id}}
           : i \in DOMAIN rs}

VisibleColumns(g, id, mode) ==
  LET columns == ToSet(EntityOf(g.entities, id).columns)
      key(x) == x.pk \/ x.fk \/ x.name \in Connected(g.relationships, id)
  IN {x.name : x \in {x \in columns : mode = "all" \/ (mode = "keys" /\ key(x))}}

(* An edge hangs on its first column if the card draws it, else on the card. *)
Handle(g, v, end) ==
  IF Head(end.columns) \in VisibleColumns(g, end.entity, EffectiveMode(v, end.entity))
  THEN Head(end.columns)
  ELSE "card"

ToEdges(g, v) ==
  LET rs == g.relationships
  IN {[of |-> rs[i], from |-> Handle(g, v, rs[i].source), to |-> Handle(g, v, rs[i].target)]
        : i \in DOMAIN rs}

ToNodes(g, v) == [id \in Ids(g.entities) |-> EffectiveMode(v, id)]

Rank(role, guess) == (IF guess THEN 0 ELSE 2) + (IF role = "pk" THEN 1 ELSE 0)

(* keyRolesByEntity, for one column: the declared flag, then the edges. *)
KeyRole(g, id, column) ==
  LET flags == CHOOSE x \in ToSet(EntityOf(g.entities, id).columns) : x.name = column
      start == IF ~flags.pk /\ ~flags.fk THEN None
               ELSE [role |-> IF flags.pk THEN "pk" ELSE "fk", guess |-> FALSE]
      assign(old, role, guess) ==
        IF old = None THEN [role |-> role, guess |-> guess]
        ELSE IF Rank(role, guess) > Rank(old.role, old.guess)
             THEN [role |-> role, guess |-> guess] ELSE old
      at(end) == end.entity = id /\ column \in ToSet(end.columns)
      edge(old, r) ==
        LET one == IF at(r.target) THEN assign(old, "pk", Guessed(r)) ELSE old
        IN IF at(r.source) THEN assign(one, "fk", Guessed(r)) ELSE one
      rs == Only(g.relationships, {r \in ToSet(g.relationships) : r.origin # "declared"})
      upTo[n \in 0 .. Len(rs)] == IF n = 0 THEN start ELSE edge(upTo[n - 1], rs[n])
  IN upTo[Len(rs)]

-----------------------------------------------------------------------------
(* Neighbours: what a focus leaves, and what the panel says it will. *)

Neighbourhood(g, id) ==
  LET rs == ToSet(g.relationships)
      nodes == {id} \union UNION {Pair(r) : r \in {r \in rs : id \in Pair(r)}}
  IN [nodes |-> nodes, edges |-> {r \in rs : Pair(r) \subseteq nodes}]

(* entityDetail: the lists of the panel, and the tables it calls linked. *)
Detail(g, id) ==
  LET rs == g.relationships
      references == SelectSeq(rs, LAMBDA r : r.source.entity = id)
      referencedBy == SelectSeq(rs, LAMBDA r : r.target.entity = id /\ r.source.entity # id)
  IN [references |-> references, referencedBy |-> referencedBy,
      linked |-> ({r.target.entity : r \in ToSet(references)}
                   \union {r.source.entity : r \in ToSet(referencedBy)}) \ {id}]

-----------------------------------------------------------------------------
(* Loading. *)

NothingAway == [nodes |-> {}, edges |-> {}]

DiagramInit ==
  /\ graph \in Graphs
  /\ viewState \in [default : StartModes, overrides : {<<>>}]
  /\ cards = ToNodes(graph, viewState) /\ edges = ToEdges(graph, viewState)
  /\ away = NothingAway
  /\ selected = <<>> /\ inspected = None /\ focused = None
  /\ fading = <<>>
  /\ acts = 0

Act == acts < MaxActs /\ acts' = acts + 1

(* Variant: the edges are built for the view the canvas was opened with. *)
RefetchWithSavedView(g) ==
  /\ Act
  /\ graph' = g
  /\ cards' = ToNodes(g, viewState)
  /\ edges' = ToEdges(g, [default |-> "all", overrides |-> <<>>])
  /\ away' = NothingAway
  /\ UNCHANGED <<viewState, flyouts, focused, fading>>

(* A refetched graph or layout replaces nodes and edges; the view, the     *)
(* selection and the focus are the canvas's own and stay.                  *)
Refetch(g) ==
  /\ Act
  /\ graph' = g
  /\ cards' = ToNodes(g, viewState) /\ edges' = ToEdges(g, viewState)
  /\ away' = NothingAway
  /\ UNCHANGED <<viewState, flyouts, focused, fading>>

-----------------------------------------------------------------------------
(* How much the cards show. *)

(* All edges are built anew, and those that a focus hid are back. *)
applyView(v, nodes) ==
  /\ viewState' = v
  /\ cards' = [id \in DOMAIN cards |-> EffectiveMode(v, id)]
  /\ edges' = ToEdges(graph, v)
  /\ away' = [nodes |-> nodes, edges |-> {}]

CycleMode(id) ==
  /\ Act
  /\ applyView(SetNodeMode(viewState, id, NextMode(EffectiveMode(viewState, id))), away.nodes)
  /\ UNCHANGED <<graph, flyouts, focused, fading>>

SetDefaultMode(mode) ==
  /\ Act
  /\ applyView([default |-> mode, overrides |-> <<>>], away.nodes)
  /\ UNCHANGED <<graph, flyouts, focused, fading>>

-----------------------------------------------------------------------------
(* Deleting. *)

(* Backspace, React Flow's delete key, is not turned off: it takes the     *)
(* highlighted cards, with every edge that ends at one, and the highlighted*)
(* edges off the canvas.  Graph, view and flyouts do not hear of it.  Cards*)
(* come back with a refetch, edges with the next change of the view.       *)
Backspace(ids, cut) ==
  /\ Act
  /\ ids # {} \/ cut # {}
  /\ Cardinality(ids) <= MaxHighlit /\ Cardinality(cut) <= MaxHighlit
  /\ cards' = [id \in DOMAIN cards \ ids |-> cards[id]]
  /\ edges' = {e \in edges \ cut : Pair(e.of) \intersect ids = {}}
  /\ UNCHANGED <<graph, viewState, away, flyouts, focused, fading>>

-----------------------------------------------------------------------------
(* Selecting. *)

(* Ctrl-click, the "x" of a row, and the flyout's "Add". *)
ToggleMulti(id) ==
  /\ inspected' = None
  /\ selected' = IF Contains(selected, id)
                 THEN Only(selected, ToSet(selected) \ {id})
                 ELSE Append(selected, id)
  /\ UNCHANGED <<graph, viewState, drawn, away, focused, fading, acts>>

AddBridge ==
  LET remedy == BuildSelect(graph, selected).remedy
  IN remedy # None /\ ToggleMulti(remedy.entity)

(* A click on a table, or on a row of the selection. *)
SelectSingle(id) ==
  /\ selected' = <<>> /\ inspected' = id
  /\ UNCHANGED <<graph, viewState, drawn, away, focused, fading, acts>>

(* A relationship of the inspected table leads to its other end. *)
Inspect(id) ==
  /\ inspected \in TableIds
  /\ id \in Detail(graph, inspected).linked
  /\ inspected' = id
  /\ UNCHANGED <<graph, viewState, drawn, away, selected, focused, fading, acts>>

(* Escape, or the flyout's close button. *)
ClearSelection ==
  /\ selected # <<>>
  /\ selected' = <<>>
  /\ UNCHANGED <<graph, viewState, drawn, away, inspected, focused, fading, acts>>

(* A click on the pane, or the panel's close button. *)
CloseDetail ==
  /\ inspected # None
  /\ inspected' = None
  /\ UNCHANGED <<graph, viewState, drawn, away, selected, focused, fading, acts>>

-----------------------------------------------------------------------------
(* Focusing. *)

Keep(seen) ==
  away' = [nodes |-> TableIds \ seen.nodes, edges |-> Relations \ seen.edges]

(* The panel's Focus: the departing cards fade, then a timer hides them. *)
FocusOn ==
  LET seen == Neighbourhood(graph, inspected)
  IN /\ Act
     /\ inspected \in TableIds \ {focused}
     /\ focused' = inspected
     /\ IF ReducedMotion \/ TableIds \subseteq seen.nodes
        THEN Keep(seen) /\ UNCHANGED fading
        ELSE fading' = Append(fading, seen) /\ UNCHANGED away
     /\ UNCHANGED <<graph, viewState, drawn, flyouts>>

(* What is to stay was settled when the button was pressed. *)
FadeEnds ==
  /\ fading # <<>>
  /\ Keep(Head(fading))
  /\ fading' = Tail(fading)
  /\ UNCHANGED <<graph, viewState, drawn, flyouts, focused, acts>>

ClearFocus ==
  /\ focused # None
  /\ focused' = None
  /\ away' = NothingAway
  /\ UNCHANGED <<graph, viewState, drawn, flyouts, fading, acts>>

(* What the search finds: any table, and any column, with its table.      *)
(* Words only narrow that down, and hidden tables are found too.           *)
SearchEntries ==
  UNION {[kind : {"table"} \union {"column" : x \in ToSet(t.columns)}, entity : {t.id}]
           : t \in ToSet(graph.entities)}

(* The canvas goes to a result; a column must be drawn. *)
JumpTo(entry) ==
  LET nodes == IF focused # None THEN {} ELSE away.nodes
      id == entry.entity
  IN /\ Act
     /\ focused' = None
     /\ selected' = <<>> /\ inspected' = id
     /\ IF entry.kind = "column" /\ EffectiveMode(viewState, id) # "all"
        THEN applyView(SetNodeMode(viewState, id, "all"), nodes)
        ELSE /\ away' = IF focused # None THEN NothingAway ELSE away
             /\ UNCHANGED <<viewState, drawn>>
     /\ UNCHANGED <<graph, fading>>

(* Picking a result closes the search bar. *)
PickResult == \E entry \in SearchEntries : JumpTo(entry)

-----------------------------------------------------------------------------
(* Specification. *)

DiagramNext ==
  \/ \E g \in Graphs : Refetch(g)
  \/ \E ids \in SUBSET DOMAIN cards, cut \in SUBSET edges : Backspace(ids, cut)
  \/ \E id \in DOMAIN cards \ away.nodes :
       CycleMode(id) \/ ToggleMulti(id) \/ SelectSingle(id)
  \/ \E id \in ToSet(selected) \intersect TableIds : ToggleMulti(id) \/ SelectSingle(id)
  \/ \E id \in TableIds : Inspect(id)
  \/ \E mode \in {"all", "keys", "none"} : SetDefaultMode(mode)
  \/ AddBridge \/ ClearSelection \/ CloseDetail \/ PickResult
  \/ FocusOn \/ FadeEnds \/ ClearFocus

DiagramSpec == DiagramInit /\ [][DiagramNext]_dvars

-----------------------------------------------------------------------------
(* Properties. *)

(* The picks that joins between picks lead to from one of them: they are   *)
(* in every set of picks that holds it and what joins with a member.       *)
Closed(rs, picks, S) ==
  \A a, b \in picks : a \in S /\ JoinColumns(rs, a, b) # None => b \in S

ReachedFrom(rs, root, picks) ==
  {b \in picks : \A S \in SUBSET picks : root \in S /\ Closed(rs, picks, S) => b \in S}

(* The flyout tells the truth about the statement: it holds exactly the    *)
(* picks that joins between picks lead to from the first one, each joined  *)
(* to a table before it, and a pick is called "not joined" only if it has  *)
(* no usable relationship with any other pick (buildSelect.ts and          *)
(* joinGraph.ts work this out separately).                                 *)
StatementTellsTheTruth ==
  LET picks == ToSet(Known(graph, selected))
      query == BuildSelect(graph, selected)
      included == ToSet(query.included)
      related(b) == \E a \in picks \ {b} : JoinColumns(graph.relationships, a, b) # None
  IN picks # {} =>
       /\ included = ReachedFrom(graph.relationships, Head(query.included), picks)
       /\ \A i \in DOMAIN query.steps : query.steps[i].anchor <= i
       /\ \A b \in picks :
            /\ RowLabel(query, b) = "in the query" <=> b \in included
            /\ RowLabel(query, b) = "not joined" => ~related(b)

(* A statement joins two tables the way the admin said, and never two      *)
(* tables whose join the admin suppressed: the override is first in        *)
(* infer.py's list, and the first usable relationship is taken.            *)
JoinsFollowOverrides ==
  LET query == BuildSelect(graph, selected)
  IN \A i \in DOMAIN query.steps :
    LET anchor == query.included[query.steps[i].anchor]
        joined == query.included[i + 1]
        said == {o \in ToSet(graph.overrides) :
                   Resolves(o, graph.entities) /\ Pair(o) = {anchor, joined}}
        on(o) == IF o.source.entity = anchor
                 THEN [anchor |-> o.source.columns, joined |-> o.target.columns]
                 ELSE [anchor |-> o.target.columns, joined |-> o.source.columns]
    IN \A o \in said : o.action = "join" /\ query.steps[i].on = on(o)

(* The bridge the flyout offers is a remedy: once added, the statement has *)
(* what it had, the bridge, and every group the bridge was said to connect *)
(* (buildSelect.ts: an offer must not leave the SQL byte-identical).       *)
RemedyReconnects ==
  LET query == BuildSelect(graph, selected)
      offer == query.remedy
      after == BuildSelect(graph, Append(selected, offer.entity))
  IN offer # None =>
       ToSet(query.included) \union {offer.entity}
         \union UNION {ToSet(query.groups[g]) : g \in offer.connects}
       \subseteq ToSet(after.included)

(* React Flow draws an edge if both its cards are on the canvas. *)
DrawnEdges == {e \in edges : Pair(e.of) \subseteq DOMAIN cards}

(* What is drawn agrees: an edge is of the graph the cards are of, and hangs*)
(* on the row that its card draws, or on the card when the row is not drawn *)
(* (nodes and edges are two states, set by applyView, by the rebuild effect *)
(* and by Backspace, which may leave an edge without its card); and where a *)
(* relationship of an admin ends, the key tag is not dimmed.                *)
CardsMatchEdges ==
  \A e \in DrawnEdges :
    /\ e.of \in Relations
    /\ \A x \in {<<e.of.source, e.from>>, <<e.of.target, e.to>>} :
         x[2] = IF Head(x[1].columns)
                     \in VisibleColumns(graph, x[1].entity, cards[x[1].entity])
                THEN Head(x[1].columns) ELSE "card"
    /\ e.of.origin = "admin_override" =>
         \A end \in {e.of.source, e.of.target} : \A x \in ToSet(end.columns) :
           ~KeyRole(graph, end.entity, x).guess
=============================================================================
