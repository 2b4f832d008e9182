---------------------------- MODULE OverridesTab ----------------------------
(***************************************************************************)
(* The Relationships tab of Omni-ERD: the list of overrides, the form that *)
(* writes them (OverridesView.tsx, OverridesEditor.tsx, overrideDraft.ts), *)
(* the calls both have in flight, and the handlers that store an override. *)
(* Here a handler is one step; ErdOverrides takes it apart and has the     *)
(* graph cache.  Notes are left out, and so is switching the source, which *)
(* closes the form.  A table is its place in the order of the names.       *)
(***************************************************************************)
EXTENDS Integers, SequencesExt, FiniteSetsExt

CONSTANTS Catalogs,     \* what tables there may be, with their columns
          Fold,         \* a column's name in lower case
          Stored,       \* rows there may be when the tab is opened
          MaxClicks,    \* bound: clicks that open, change or send something
          MaxMoves,     \* bound: rebuilds, lost calls and writes of other admins
          Nil

(* Ids count from 1, one of them is the last, and the columns of a row are   *)
(* lists.                                                                  *)
ASSUME StoredAreRows ==
  \A stored \in Stored :
    /\ \E last \in {0} \union DOMAIN stored : DOMAIN stored \subseteq 1..last
    /\ \A id \in DOMAIN stored :
         {stored[id].columnsA, stored[id].columnsB} \subseteq Seq(DOMAIN Fold)

ASSUME TabBoundsAreNats == MaxClicks \in Nat /\ MaxMoves \in Nat

VARIABLES catalog,    \* the tables of the warehouse
          rows,       \* the stored overrides, by id
          serial,     \* the id given last; none is given twice
          entities,      \* graph.data, or Nil
          list,       \* overrides.data: what each row says, by id
          fetch,      \* the list's request in flight, and what it has read, or Nil
          draft,      \* the open form, or Nil
          saving,
          deletingId,
          confirming, \* rows that ask whether to delete them
          calls,      \* writes in flight, in the order they were sent
          spent       \* how often each bound was drawn on

form == <<draft, saving>>
writes == <<rows, serial, calls>>
vars == <<catalog, writes, entities, list, fetch, form, deletingId, confirming, spent>>

Spend(what, most) == spent[what] < most /\ spent' = [spent EXCEPT ![what] = @ + 1]

-----------------------------------------------------------------------------
(* What is stored, and what the wire carries. *)

(* Variant: the columns stay where they were when the tables swap places. *)
canonical_pair_tables(p) ==
  [a |-> IF p.source.entity < p.target.entity THEN p.source.entity ELSE p.target.entity,
   b |-> IF p.source.entity < p.target.entity THEN p.target.entity ELSE p.source.entity,
   columnsA |-> p.source.columns, columnsB |-> p.target.columns,
   manySide |-> IF p.source.entity < p.target.entity THEN "a" ELSE "b",
   action |-> p.action, cardinality |-> p.cardinality]

canonical_pair(p) ==
  LET many == IF p.source.entity < p.target.entity THEN "a" ELSE "b"
      a == IF many = "a" THEN p.source ELSE p.target
      b == IF many = "a" THEN p.target ELSE p.source
  IN [a |-> a.entity, b |-> b.entity, columnsA |-> a.columns, columnsB |-> b.columns,
      manySide |-> many, action |-> p.action, cardinality |-> p.cardinality]

override_to_ir(row) ==
  LET a == [entity |-> row.a, columns |-> row.columnsA]
      b == [entity |-> row.b, columns |-> row.columnsB]
  IN [source |-> IF row.manySide = "a" THEN a ELSE b,
      target |-> IF row.manySide = "a" THEN b ELSE a,
      action |-> row.action, cardinality |-> row.cardinality]

Folded(columns) == [i \in DOMAIN columns |-> Fold[columns[i]]]

(* resolve_override: columns are looked up without regard to case. *)
override_status(p) ==
  LET lacks(end) == ~ToSet(Folded(end.columns)) \subseteq {Fold[c] : c \in catalog[end.entity]}
  IN IF ~{p.source.entity, p.target.entity} \subseteq DOMAIN catalog THEN "unknown_entity"
     ELSE IF p.source.entity = p.target.entity THEN "self_pair"
     ELSE IF lacks(p.source) \/ lacks(p.target) THEN "unknown_column" ELSE "active"

list_overrides ==
  [id \in DOMAIN rows |->
     LET p == override_to_ir(rows[id]) IN [says |-> p, status |-> override_status(p)]]

(* _require_valid_ends refuses what cannot mean anything, with a 422. *)
ValidEnds(p) ==
  /\ p.source.entity # p.target.entity
  /\ IF p.action = "suppress"
     THEN p.source.columns = <<>> /\ p.target.columns = <<>>
     ELSE /\ Len(p.source.columns) = Len(p.target.columns) /\ p.source.columns # <<>>
          /\ IsInjective([i \in DOMAIN p.source.columns |->
                            <<Fold[p.source.columns[i]], Fold[p.target.columns[i]]>>])

-----------------------------------------------------------------------------
(* The form. *)

emptyPair == [a |-> "", b |-> ""]

newDraft ==
  [id |-> Nil, entityA |-> Nil, entityB |-> Nil, pairs |-> <<emptyPair>>,
   aReferencesB |-> TRUE, suppress |-> FALSE, cardinality |-> "many_to_one"]

draftFrom(id, p) ==
  [id |-> id, entityA |-> p.source.entity, entityB |-> p.target.entity,
   pairs |-> IF p.source.columns = <<>> THEN <<emptyPair>>
             ELSE [i \in DOMAIN p.source.columns |->
                     [a |-> p.source.columns[i], b |-> p.target.columns[i]]],
   aReferencesB |-> TRUE, suppress |-> p.action = "suppress", cardinality |-> p.cardinality]

draftPayload(d) ==
  LET column(pick(_)) == IF d.suppress THEN <<>> ELSE [i \in DOMAIN d.pairs |-> pick(d.pairs[i])]
      a == [entity |-> d.entityA, columns |-> column(LAMBDA x : x.a)]
      b == [entity |-> d.entityB, columns |-> column(LAMBDA x : x.b)]
  IN [source |-> IF d.aReferencesB THEN a ELSE b, target |-> IF d.aReferencesB THEN b ELSE a,
      action |-> IF d.suppress THEN "suppress" ELSE "join", cardinality |-> d.cardinality]

PairOf(p) == {p.source.entity, p.target.entity}

(* Variant: a row covers the pair only in the direction it was written. *)
coversSameEnds(p, d) == p.source.entity = d.entityA /\ p.target.entity = d.entityB

coversSamePair(p, d) == PairOf(p) = {d.entityA, d.entityB}

(* Variant: "Sk" and "sk" are two columns. *)
pairKeyExact(pair) == <<pair.a, pair.b>>

pairKey(pair) ==
  IF "" \in {pair.a, pair.b} THEN <<pair.a, pair.b>> ELSE <<Fold[pair.a], Fold[pair.b]>>

(* What Save waits for: `existing` is the list the page shows. *)
draftProblem(d, existing) ==
  \/ d.entityA = Nil \/ d.entityB = Nil
  \/ d.entityA = d.entityB
  \/ \E id \in DOMAIN existing \ {d.id} : coversSamePair(existing[id].says, d)
  \/ /\ ~d.suppress
     /\ \/ d.pairs = <<>>
        \/ \E i \in DOMAIN d.pairs : "" \in {d.pairs[i].a, d.pairs[i].b}
        \/ ~IsInjective([i \in DOMAIN d.pairs |-> pairKey(d.pairs[i])])

ColumnsOf(table) == IF table \in DOMAIN entities THEN entities[table] ELSE {}

(* The editor is mounted while there are a draft and a graph; each control *)
(* hands onChange a new draft.                                             *)
Change(d) ==
  /\ draft # Nil /\ entities # Nil
  /\ Spend("clicks", MaxClicks)
  /\ draft' = d
  /\ UNCHANGED <<catalog, writes, entities, list, fetch, saving, deletingId, confirming>>

(* A combobox hands on the value of an option; what is typed in it only    *)
(* narrows the list, and to pick what is chosen changes nothing.           *)
Picks(options, value) == options \ {value}

(* The table of the other side is not offered; new columns have to be      *)
(* picked.                                                                 *)
chooseA(table) ==
  /\ table \in Picks(DOMAIN entities \ {draft.entityB}, draft.entityA)
  /\ Change([draft EXCEPT !.entityA = table,
               !.pairs = [i \in DOMAIN @ |-> [@[i] EXCEPT !.a = ""]]])

chooseB(table) ==
  /\ table \in Picks(DOMAIN entities \ {draft.entityA}, draft.entityB)
  /\ Change([draft EXCEPT !.entityB = table,
               !.pairs = [i \in DOMAIN @ |-> [@[i] EXCEPT !.b = ""]]])

ToggleSuppress == Change([draft EXCEPT !.suppress = ~@])

(* Direction and columns are offered for a join of two tables. *)
Joining == draft.entityA # Nil /\ draft.entityB # Nil /\ ~draft.suppress

SetDirection == Joining /\ Change([draft EXCEPT !.aReferencesB = ~@])

ReplacePair(i) ==
  /\ Joining
  /\ \/ \E c \in Picks(ColumnsOf(draft.entityA), draft.pairs[i].a) :
          Change([draft EXCEPT !.pairs[i].a = c])
     \/ \E c \in Picks(ColumnsOf(draft.entityB), draft.pairs[i].b) :
          Change([draft EXCEPT !.pairs[i].b = c])

AddPair == Joining /\ Change([draft EXCEPT !.pairs = Append(@, emptyPair)])

RemovePair(i) == Joining /\ Change([draft EXCEPT !.pairs = RemoveAt(@, i)])

openDraft(d) ==
  /\ Spend("clicks", MaxClicks)
  /\ draft' = d
  /\ UNCHANGED <<catalog, writes, entities, list, fetch, saving, deletingId, confirming>>

NewOverride == entities # Nil /\ draft = Nil /\ openDraft(newDraft)

(* A row offers Edit while it does not ask whether to delete it. *)
EditRow(id) == id \notin confirming /\ openDraft(draftFrom(id, list[id].says))

Cancel ==
  /\ draft # Nil /\ entities # Nil
  /\ draft' = Nil
  /\ UNCHANGED <<catalog, writes, entities, list, fetch, saving, deletingId,
                 confirming, spent>>

-----------------------------------------------------------------------------
(* Writing. *)

Call(kind, id) == [kind |-> kind, id |-> id, draft |-> draft, shown |-> list, answer |-> Nil]

Save ==
  /\ draft # Nil /\ entities # Nil
  /\ ~draftProblem(draft, list) /\ ~saving
  /\ Spend("clicks", MaxClicks)
  /\ calls' = Append(calls, Call("save", draft.id))
  /\ saving' = TRUE
  /\ UNCHANGED <<catalog, rows, serial, entities, list, fetch, draft, deletingId, confirming>>

Arm(id) ==
  /\ id # deletingId /\ id \notin confirming
  /\ Spend("clicks", MaxClicks)
  /\ confirming' = confirming \union {id}
  /\ UNCHANGED <<catalog, writes, entities, list, fetch, form, deletingId>>

Disarm(id) ==
  /\ confirming' = confirming \ {id}
  /\ UNCHANGED <<catalog, writes, entities, list, fetch, form, deletingId, spent>>

DeleteRow(id) ==
  /\ id # deletingId
  /\ Spend("clicks", MaxClicks)
  /\ calls' = Append(calls, Call("delete", id))
  /\ deletingId' = id
  /\ UNCHANGED <<catalog, rows, serial, entities, list, fetch, draft, saving, confirming>>

(* update_or_create: the pair's row if there is one, else a new row. *)
save_override(p) ==
  LET taken == {id \in DOMAIN rows : PairOf(override_to_ir(rows[id])) = PairOf(p)}
      id == IF taken = {} THEN serial + 1 ELSE CHOOSE t \in taken : TRUE
  IN [status |-> "ok", id |-> id,
      rows |-> [n \in DOMAIN rows \union {id} |-> IF n = id THEN canonical_pair(p) ELSE rows[n]]]

Refused(status) == [status |-> status, id |-> Nil, rows |-> rows]

update_override(id, p) ==
  IF id \notin DOMAIN rows THEN Refused("404")
  ELSE IF \E n \in DOMAIN rows \ {id} : PairOf(override_to_ir(rows[n])) = PairOf(p) THEN Refused("409")
  ELSE [status |-> "ok", id |-> id, rows |-> [rows EXCEPT ![id] = canonical_pair(p)]]

delete_override(id) ==
  IF id \notin DOMAIN rows THEN Refused("404")
  ELSE [status |-> "ok", id |-> id,
        rows |-> [n \in DOMAIN rows \ {id} |-> rows[n]]]

Reply(call) ==
  LET p == draftPayload(call.draft)
  IN IF call.kind = "delete" THEN delete_override(call.id)
     ELSE IF ~ValidEnds(p) THEN Refused("422")
     ELSE IF call.id = Nil THEN save_override(p) ELSE update_override(call.id, p)

Store(now) == rows' = now /\ serial' = Max({serial} \union DOMAIN now)

Serve(i) ==
  LET answer == Reply(calls[i])
  IN /\ calls[i].answer = Nil
     /\ Store(answer.rows)
     /\ calls' = [calls EXCEPT ![i].answer = [status |-> answer.status, id |-> answer.id]]
     /\ UNCHANGED <<catalog, entities, list, fetch, form, deletingId, confirming, spent>>

(* The network loses the request, or its answer. *)
Lose(i) ==
  /\ Spend("moves", MaxMoves)
  /\ calls' = [calls EXCEPT ![i].answer = [status |-> "lost", id |-> Nil]]
  /\ UNCHANGED <<catalog, rows, serial, entities, list, fetch, form, deletingId, confirming>>

(* Both resources are read again; a list already asked for is joined. *)
afterWrite ==
  /\ entities' = Nil
  /\ fetch' = IF fetch = Nil THEN [read |-> FALSE] ELSE fetch

TakeSave(i) ==
  /\ calls[i].kind = "save" /\ calls[i].answer # Nil
  /\ calls' = RemoveAt(calls, i)
  /\ saving' = FALSE
  /\ IF calls[i].answer.status = "ok"
     THEN draft' = Nil /\ afterWrite
     ELSE UNCHANGED <<draft, entities, fetch>>
  /\ UNCHANGED <<catalog, rows, serial, list, deletingId, confirming, spent>>

(* `draft` is the one of the render that Delete was clicked in. *)
TakeDelete(i) ==
  /\ calls[i].kind = "delete" /\ calls[i].answer # Nil
  /\ calls' = RemoveAt(calls, i)
  /\ deletingId' = Nil
  /\ IF calls[i].answer.status = "ok"
     THEN /\ draft' = IF calls[i].draft # Nil /\ calls[i].draft.id = calls[i].id THEN Nil ELSE draft
          /\ afterWrite
     ELSE UNCHANGED <<draft, entities, fetch>>
  /\ UNCHANGED <<catalog, rows, serial, list, saving, confirming, spent>>

-----------------------------------------------------------------------------
(* Reading, and what others do. *)

ServeList ==
  /\ fetch # Nil /\ ~fetch.read
  /\ fetch' = [read |-> TRUE, rows |-> list_overrides]
  /\ UNCHANGED <<catalog, writes, entities, list, form, deletingId, confirming, spent>>

(* A row that is gone takes its question with it. *)
TakeList ==
  /\ fetch # Nil /\ fetch.read
  /\ list' = fetch.rows /\ fetch' = Nil
  /\ confirming' = confirming \intersect DOMAIN fetch.rows
  /\ UNCHANGED <<catalog, writes, entities, form, deletingId, spent>>

(* The catalog could not be read, or the answer is lost: the list stays. *)
ListFails ==
  /\ fetch # Nil
  /\ Spend("moves", MaxMoves)
  /\ fetch' = Nil
  /\ UNCHANGED <<catalog, writes, entities, list, form, deletingId, confirming>>

(* The editor is unmounted until the graph is back, and keeps its draft. *)
TakeGraph ==
  /\ entities = Nil
  /\ entities' = catalog
  /\ UNCHANGED <<catalog, writes, list, fetch, form, deletingId, confirming, spent>>

Rebuild ==
  /\ Spend("moves", MaxMoves)
  /\ catalog' \in Catalogs \ {catalog}
  /\ UNCHANGED <<writes, entities, list, fetch, form, deletingId, confirming>>

(* Another admin's window writes or deletes a row. *)
OtherWrites(now) ==
  /\ Spend("moves", MaxMoves)
  /\ Store(now)
  /\ UNCHANGED <<catalog, calls, entities, list, fetch, form, deletingId, confirming>>

-----------------------------------------------------------------------------
(* Specification. *)

Init ==
  /\ catalog \in Catalogs /\ rows \in Stored
  /\ serial = Max({0} \union DOMAIN rows)
  /\ entities = catalog /\ list = list_overrides /\ fetch = Nil
  /\ draft = Nil /\ saving = FALSE /\ deletingId = Nil /\ confirming = {}
  /\ calls = <<>>
  /\ spent = [clicks |-> 0, moves |-> 0]

Edits ==
  \/ \E table \in UNION {DOMAIN c : c \in Catalogs} : chooseA(table) \/ chooseB(table)
  \/ ToggleSuppress \/ SetDirection \/ AddPair
  \/ \E i \in DOMAIN draft.pairs : ReplacePair(i) \/ RemovePair(i)

Next ==
  \/ NewOverride \/ Cancel \/ Save
  \/ draft # Nil /\ entities # Nil /\ Edits
  \/ \E id \in DOMAIN list : EditRow(id) \/ Arm(id)
  \/ \E id \in confirming : Disarm(id) \/ DeleteRow(id)
  \/ \E i \in DOMAIN calls : Serve(i) \/ Lose(i) \/ TakeSave(i) \/ TakeDelete(i)
  \/ ServeList \/ TakeList \/ ListFails \/ TakeGraph \/ Rebuild
  \/ \E id \in DOMAIN rows : OtherWrites(delete_override(id).rows)
  \/ \E other \in Stored : \E id \in DOMAIN other :
       OtherWrites(save_override(override_to_ir(other[id])).rows)

Spec == Init /\ [][Next]_vars

-----------------------------------------------------------------------------
(* Properties. *)

(* The server refuses no assertion of the form as meaningless: whatever    *)
(* draftProblem lets through, _require_valid_ends accepts (the form is     *)
(* built to make the 422s unreachable), with names the catalog spelled     *)
(* otherwise before.                                                       *)
FormIsNeverRefused ==
  \A i \in DOMAIN calls : calls[i].answer # Nil => calls[i].answer.status # "422"

(* What a form says, and what a stored row says: which table refers to     *)
(* which, and which of their columns are equal.                            *)
FormSays(d) ==
  IF d.suppress THEN [apart |-> {d.entityA, d.entityB}]
  ELSE [from |-> IF d.aReferencesB THEN d.entityA ELSE d.entityB,
        equal |-> {{<<d.entityA, d.pairs[i].a>>, <<d.entityB, d.pairs[i].b>>} : i \in DOMAIN d.pairs}]
RowSays(row) ==
  IF row.action = "suppress" THEN [apart |-> {row.a, row.b}]
  ELSE [from |-> IF row.manySide = "a" THEN row.a ELSE row.b,
        equal |-> {{<<row.a, row.columnsA[i]>>, <<row.b, row.columnsB[i]>>} : i \in DOMAIN row.columnsA}]

Answered(i) ==
  /\ i \in DOMAIN calls' /\ Len(calls') = Len(calls)
  /\ calls[i].answer = Nil /\ calls'[i].answer # Nil

(* A save that was accepted has stored what the form said when Save was    *)
(* clicked, in whichever direction and however often the row was reopened, *)
(* and an edit keeps the cardinality the form does not show                *)
(* (draftPayload, canonical_pair, override_to_ir, draftFrom).              *)
SavedAsStated ==
  [][\A i \in DOMAIN calls :
       (Answered(i) /\ calls[i].kind = "save" /\ calls'[i].answer.status = "ok") =>
         LET row == rows'[calls'[i].answer.id]
         IN /\ RowSays(row) = FormSays(calls[i].draft)
            /\ row.cardinality = calls[i].draft.cardinality]_vars

(* A save replaces no row that the list showed for the pair when Save was  *)
(* clicked, but the one that was edited: update_or_create would take over  *)
(* the pair's row, and draftProblem does not let it come to that.          *)
ShownRowsAreKept ==
  [][\A i \in DOMAIN calls :
       (Answered(i) /\ calls[i].kind = "save") =>
         \A id \in (DOMAIN rows \intersect DOMAIN calls[i].shown) \ {calls[i].id} :
           PairOf(calls[i].shown[id].says) = PairOf(override_to_ir(rows[id]))
             => id \in DOMAIN rows' /\ rows'[id] = rows[id]]_vars
=============================================================================
