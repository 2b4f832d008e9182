---------------------------- MODULE BudgetEditor ----------------------------
(***************************************************************************)
(* The budget map and its editor.  The page holds the whole document, every *)
(* edit changes it there, and Save writes it whole; the server judges it    *)
(* once more (validate_budget_map).  import_banks_dir writes a document      *)
(* that nothing judges.                                                     *)
(*                                                                         *)
(* A document maps a category to its details: a budget and subcategories,   *)
(* each with a budget and the tree of its string matches.  Of a tree only   *)
(* its shape matters: "tree" is a mapping down to lists of strings, "other" *)
(* is anything else.  A budget is an integer, None where there is no such   *)
(* key, Infinite for a number too large for JSON, Yes for a Boolean (which  *)
(* Python counts as 1), Blank for whatever else is not a number.  Fields    *)
(* says what else is to be said of the details:                             *)
(*   "known"    a mapping with the keys it may have,                        *)
(*   "unknown"  a mapping with another key too,                             *)
(*   "blank"    a category whose SubCategories are left blank,              *)
(*   "text"     no mapping: text, or a list, which the page spreads,        *)
(*   "scalar"   no mapping: a number, which leaves nothing when it is,      *)
(*   "null"     nothing at all, which the page cannot render.               *)
(***************************************************************************)
EXTENDS Integers, Sequences, FiniteSets, Functions

CONSTANTS
  Imported,         \* the documents import_banks_dir may bring
  Budgets,          \* what is typed into a budget cell, as numbers
  None,             \* nothing: no budget of its own, no panel, no save
  Infinite, Yes, Blank,
  Names,            \* the names typed into a name cell
  MaxEdits          \* bound: edits of the document

ASSUME BudgetsDiffer ==
  /\ None \notin Int /\ Yes \notin Int \cup {None}
  /\ Infinite \notin Int \cup {None, Yes} /\ Blank \notin Int \cup {None, Yes, Infinite}

(* How a document is represented.  Nothing is assumed of its budgets.       *)
Subcategories(subs) ==
  /\ IsFiniteSet(DOMAIN subs)
  /\ \A s \in DOMAIN subs : DOMAIN subs[s] = {"Budget", "Fields", "Type"}
Document(doc) ==
  /\ IsFiniteSet(DOMAIN doc)
  /\ \A c \in DOMAIN doc : DOMAIN doc[c] = {"Budget", "Fields", "Subs"} /\ Subcategories(doc[c].Subs)

ASSUME ImportedAreDocuments == \A doc \in Imported : Document(doc)

VARIABLES
  stored,    \* BudgetMapDocument
  loaded,    \* has the page got a document?
  data,      \* its document
  selected,  \* whose match panel is open, or None
  put,       \* the save in flight: the document and the server's answer
  message,   \* what the page says of the last save
  edits

budgetVars == <<stored, loaded, data, selected, put, message, edits>>

NewCategory == <<"NewCategory", "NewCategory2", "NewCategory3", "NewCategory4">>
NewSubCategory == <<"NewSubCategory", "NewSubCategory2", "NewSubCategory3", "NewSubCategory4">>
Empty == [n \in {} |-> None]

(* The first name that is free; the model has four of each kind. *)
Free(names, existing) == {i \in 1..4 : names[i] \notin existing}
uniqueName(names, existing) ==
  names[CHOOSE i \in Free(names, existing) : \A j \in 1..(i - 1) : names[j] \in existing]

renameKey(f, old, new) ==
  [n \in (DOMAIN f \ {old}) \cup {new} |-> IF n = new THEN f[old] ELSE f[n]]

Extended(f, key, value) ==
  [n \in DOMAIN f \cup {key} |-> IF n = key THEN value ELSE f[n]]
Without(f, key) == [n \in DOMAIN f \ {key} |-> f[n]]

(***************************************************************************)
(* The budget rule, as the page and as the server compute it.              *)
(***************************************************************************)
(* On the page a number may be infinite, and so may a sum.                 *)
HasBudget(d) == d.Budget \in Int

subBudgetSum(d) ==
  FoldFunctionOnSet(+, 0, [s \in DOMAIN d.Subs |-> IF HasBudget(d.Subs[s]) THEN d.Subs[s].Budget ELSE 0],
                    DOMAIN d.Subs)
SumIsInfinite(d) == \E s \in DOMAIN d.Subs : d.Subs[s].Budget = Infinite

(* Variant: each subcategory is compared, not their sum. *)
violationsEach(doc) ==
  {c \in DOMAIN doc : HasBudget(doc[c]) /\
     \E s \in DOMAIN doc[c].Subs : HasBudget(doc[c].Subs[s]) /\ doc[c].Subs[s].Budget > doc[c].Budget}

computeViolations(doc) ==
  {c \in DOMAIN doc : HasBudget(doc[c]) /\ (SumIsInfinite(doc[c]) \/ subBudgetSum(doc[c]) > doc[c].Budget)}

(* validate_budget_map, as the set of categories it has an error about.  A  *)
(* Boolean is a number to Python; none of them is infinite.                 *)
Counts(b) == b \in Int \/ b = Yes
Worth(b) == IF b = Yes THEN 1 ELSE b
OverCeiling(doc) ==
  {c \in DOMAIN doc :
     LET subs == {s \in DOMAIN doc[c].Subs : Counts(doc[c].Subs[s].Budget)} IN
     Counts(doc[c].Budget) /\
       FoldFunctionOnSet(+, 0, [s \in subs |-> Worth(doc[c].Subs[s].Budget)], subs) > Worth(doc[c].Budget)}
BadDetails(d) == d.Fields # "known" \/ (d.Budget # None /\ ~Counts(d.Budget))
BadFields(doc) ==
  {c \in DOMAIN doc : BadDetails(doc[c]) \/ \E s \in DOMAIN doc[c].Subs : BadDetails(doc[c].Subs[s])}
BadTypes(doc) ==
  {c \in DOMAIN doc : \E s \in DOMAIN doc[c].Subs : doc[c].Subs[s].Type = "other"}
validate_budget_map(doc) == BadFields(doc) \cup BadTypes(doc) \cup OverCeiling(doc)

(* A document as JSON, which has no infinite number: it is sent as null.    *)
Sent(d) == [d EXCEPT !.Budget = IF @ = Infinite THEN Blank ELSE @]
Serialised(doc) ==
  [c \in DOMAIN doc |->
     [Sent(doc[c]) EXCEPT !.Subs = [s \in DOMAIN doc[c].Subs |-> Sent(doc[c].Subs[s])]]]

(***************************************************************************)
(* Editing.                                                                *)
(***************************************************************************)
Edit(doc) ==
  /\ edits < MaxEdits /\ edits' = edits + 1
  /\ data' = doc
  /\ UNCHANGED <<stored, loaded, put, message>>

Exists(c, s) == c \in DOMAIN data /\ s \in DOMAIN data[c].Subs

(* An edit of details spreads them into a mapping ({...details, Budget}).   *)
Spread(fields) == IF fields = "text" THEN "unknown" ELSE IF fields = "scalar" THEN "known" ELSE fields
WithBudget(d, b) == [d EXCEPT !.Budget = b, !.Fields = Spread(@)]
WithType(d, type) == [d EXCEPT !.Type = type, !.Fields = Spread(@)]
WithSubs(d, subs) == [d EXCEPT !.Subs = subs, !.Fields = IF @ = "blank" THEN "known" ELSE Spread(@)]

updateBudget ==
  /\ \E c \in DOMAIN data, b \in Budgets :
       \/ Edit([data EXCEPT ![c] = WithBudget(@, b)])
       \/ \E s \in DOMAIN data[c].Subs : Edit([data EXCEPT ![c].Subs[s] = WithBudget(@, b)])
  /\ UNCHANGED selected

addCategory ==
  /\ Free(NewCategory, DOMAIN data) # {}
  /\ Edit(Extended(data, uniqueName(NewCategory, DOMAIN data), [Budget |-> 0, Fields |-> "known", Subs |-> Empty]))
  /\ UNCHANGED selected

addSubCategory(c) ==
  /\ Free(NewSubCategory, DOMAIN data[c].Subs) # {}
  /\ LET name == uniqueName(NewSubCategory, DOMAIN data[c].Subs)
         new == [Budget |-> 0, Fields |-> "known", Type |-> "tree"]
     IN  Edit([data EXCEPT ![c] = WithSubs(@, Extended(@.Subs, name, new))])
  /\ UNCHANGED selected

(* Variant: the panel is left open. *)
deleteCategoryOnly(c) == Edit(Without(data, c)) /\ UNCHANGED selected

deleteCategory(c) ==
  /\ Edit(Without(data, c))
  /\ IF selected # None /\ selected[1] = c THEN selected' = None ELSE UNCHANGED selected

deleteSubCategory(c, s) ==
  /\ Edit([data EXCEPT ![c].Subs = Without(@, s)])
  /\ IF selected = <<c, s>> THEN selected' = None ELSE UNCHANGED selected

(* Variant: a name that is taken is not refused. *)
renameEntryBlindly(c, name) ==
  /\ Edit(renameKey(data, c, name))
  /\ selected' = IF selected # None /\ selected[1] = c THEN <<name, selected[2]>> ELSE selected

(* The panel follows a renamed category, with a new textarea.  A name that  *)
(* is taken is refused.                                                     *)
renameEntry(c, name) ==
  /\ name \notin DOMAIN data
  /\ Edit(renameKey(data, c, name))
  /\ selected' = IF selected # None /\ selected[1] = c THEN <<name, selected[2]>> ELSE selected

renameSubEntry(c, s, name) ==
  /\ name \notin DOMAIN data[c].Subs
  /\ Edit([data EXCEPT ![c].Subs = renameKey(@, s, name)])
  /\ selected' = IF selected = <<c, s>> THEN <<c, name>> ELSE selected

Select(c, s) ==
  /\ selected # <<c, s>>
  /\ selected' = <<c, s>>
  /\ UNCHANGED <<stored, loaded, data, put, message, edits>>

ClosePanelClicked ==
  /\ selected # None /\ selected' = None
  /\ UNCHANGED <<stored, loaded, data, put, message, edits>>

(* Text that is no JSON stays in the panel and changes nothing. *)
updateSubCategoryType ==
  /\ selected # None
  /\ \/ /\ Exists(selected[1], selected[2])
        /\ \E type \in {"tree", "other"} :
             Edit([data EXCEPT ![selected[1]].Subs[selected[2]] = WithType(@, type)])
     \/ Edit(data)
  /\ UNCHANGED selected

(***************************************************************************)
(* Loading and saving.                                                     *)
(***************************************************************************)
(* A budget that JSON cannot carry fails the request, and details that are  *)
(* null fail the render: an error is all the page shows.                    *)
Shows(doc) ==
  \A c \in DOMAIN doc :
    /\ doc[c].Fields # "null" /\ doc[c].Budget # Infinite
    /\ \A s \in DOMAIN doc[c].Subs : doc[c].Subs[s].Fields # "null" /\ doc[c].Subs[s].Budget # Infinite

load ==
  /\ ~loaded /\ Shows(stored) /\ loaded' = TRUE
  /\ data' = stored
  /\ UNCHANGED <<stored, selected, put, message, edits>>

(* Save is disabled while it saves and while a category is over budget. *)
handleSave ==
  /\ loaded /\ put = None
  /\ computeViolations(data) = {}
  /\ put' = [doc |-> Serialised(data), code |-> 0]
  /\ message' = "none"
  /\ UNCHANGED <<stored, loaded, data, selected, edits>>

save_budget_map ==
  /\ put # None /\ put.code = 0
  /\ IF validate_budget_map(put.doc) # {}
       THEN put' = [put EXCEPT !.code = 422] /\ UNCHANGED stored
       ELSE put' = [put EXCEPT !.code = 200] /\ stored' = put.doc
  /\ UNCHANGED <<loaded, data, selected, message, edits>>

(* The answer arrives, or the connection is lost before or after the save. *)
TakeSaved ==
  /\ put # None
  /\ \/ put.code = 200 /\ message' = "saved"
     \/ message' = "failed"
  /\ put' = None
  /\ UNCHANGED <<stored, loaded, data, selected, edits>>

(* The map of a bank's directory replaces the stored one. *)
ImportBudgetMap ==
  /\ edits < MaxEdits /\ edits' = edits + 1
  /\ stored' \in Imported \ {stored}
  /\ UNCHANGED <<loaded, data, selected, put, message>>

BudgetInit ==
  /\ stored \in Imported /\ loaded = FALSE /\ data = Empty /\ selected = None
  /\ put = None /\ message = "none" /\ edits = 0

BudgetNext ==
  \/ load \/ handleSave \/ save_budget_map \/ TakeSaved \/ ImportBudgetMap
  \/ /\ loaded
     /\ \/ updateBudget \/ addCategory \/ ClosePanelClicked \/ updateSubCategoryType
        \/ \E c \in DOMAIN data :
             \/ addSubCategory(c) \/ deleteCategory(c)
             \/ \E n \in Names : renameEntry(c, n)
             \/ \E s \in DOMAIN data[c].Subs :
                  \/ deleteSubCategory(c, s) \/ Select(c, s)
                  \/ \E n \in Names : renameSubEntry(c, s, n)

(***************************************************************************)
(* Properties.                                                             *)
(***************************************************************************)
(* The page blocks Save for every sum that the server would refuse          *)
(* (page.tsx:19 "mirrored server-side"): a save is refused only for a       *)
(* category with something in it that the page does not judge, a field or a *)
(* match tree that is not what it should be.  Of budgets that are integers  *)
(* or left out, whatever was imported and edited, both find the same.       *)
WellFormed(d) ==
  /\ d.Fields = "known" /\ d.Budget \in Int \cup {None}
  /\ \A s \in DOMAIN d.Subs :
       /\ d.Subs[s].Fields = "known" /\ d.Subs[s].Budget \in Int \cup {None}
       /\ d.Subs[s].Type # "other"
RefusedOnlyForShape ==
  put # None /\ put.code = 422 => \A c \in validate_budget_map(put.doc) : ~WellFormed(put.doc[c])

(* The panel is never about an entry that was renamed or deleted, so text   *)
(* typed in it has an entry to go to (page.tsx:298 drops what is no JSON).  *)
SelectedExists == selected # None => Exists(selected[1], selected[2])

(* No edit but the deletion of one category or subcategory loses one:       *)
(* adding picks a free name and renaming refuses a taken one.               *)
Shrinks(f, g) == Cardinality(DOMAIN g) < Cardinality(DOMAIN f)
EditsLoseNothing ==
  [][loaded =>
       /\ Shrinks(data, data') => \E c \in DOMAIN data : data' = Without(data, c)
       /\ \A c \in DOMAIN data \cap DOMAIN data' :
            Shrinks(data[c].Subs, data'[c].Subs) =>
              \E s \in DOMAIN data[c].Subs : data'[c].Subs = Without(data[c].Subs, s)]_budgetVars
=============================================================================
