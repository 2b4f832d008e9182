----------------------------- MODULE Breakdown -----------------------------
(***************************************************************************)
(* The Breakdown page: one feed of transactions, two slicers, and three     *)
(* visuals that filter each other and are drilled each on its own.  All of  *)
(* its state is one value, except the grid under the matrix, which is built *)
(* once and fed from then on (components/common/DataTable.tsx).             *)
(***************************************************************************)
EXTENDS Integers, Sequences, SequencesExt, FiniteSetsExt

CONSTANT MaxClicks   \* bound: what the reader does on the page

VARIABLES feed,     \* BreakdownRow[]
          fresh,    \* the page has its rows from the server, not from the cache
          report,   \* BreakdownView
          grid,     \* the DataTable under the matrix
          clicks

reportVars == <<feed, fresh, report, grid, clicks>>

Visuals == {"matrix", "waterfall", "pie"}
Hierarchy == [matrix   |-> <<"date", "label">>,
              date     |-> <<"year", "month", "day">>,
              category |-> <<"category", "subCategory", "label">>]

Criterion(dim, key) == [dim |-> dim, key |-> key]
Skip == Criterion("", "")

INITIAL_VIEW ==
  [years |-> {}, months |-> {}, filter |-> [v \in Visuals |-> {}],
   matrix |-> [drill |-> <<>>, drillMode |-> FALSE, expandAll |-> FALSE],
   waterfall |-> [axis |-> "date", drills |-> [date |-> <<>>, category |-> <<>>], drillMode |-> FALSE],
   pie |-> [drill |-> <<>>, drillMode |-> FALSE]]

(* Variant: of the waterfall, only the axis shown is compared. *)
isDefaultViewShown ==
  /\ report.years = {} /\ report.months = {}
  /\ \A v \in Visuals : report.filter[v] = {} /\ ~report[v].drillMode
  /\ report.matrix.drill = <<>> /\ ~report.matrix.expandAll
  /\ report.waterfall.axis = "date" /\ report.waterfall.drills.date = <<>>
  /\ report.pie.drill = <<>>

isDefaultView ==
  /\ report.years = {} /\ report.months = {}
  /\ \A v \in Visuals : report.filter[v] = {} /\ ~report[v].drillMode
  /\ report.matrix.drill = <<>> /\ ~report.matrix.expandAll
  /\ report.waterfall.axis = "date"
  /\ \A axis \in {"date", "category"} : report.waterfall.drills[axis] = <<>>
  /\ report.pie.drill = <<>>

(***************************************************************************)
(* drill.ts: where a visual is in its hierarchy.                           *)
(***************************************************************************)
Path(v) == CASE v = "matrix" -> "matrix"
             [] v = "waterfall" -> report.waterfall.axis
             [] v = "pie" -> "category"
Drill(v) == IF v = "waterfall" THEN report.waterfall.drills[report.waterfall.axis] ELSE report[v].drill
SetDrill(v, steps) ==
  IF v = "waterfall" THEN [report EXCEPT !.waterfall.drills[report.waterfall.axis] = steps]
  ELSE [report EXCEPT ![v].drill = steps]

currentDimension(v) == Hierarchy[Path(v)][Len(Drill(v)) + 1]
canDrillDown(v) == Len(Drill(v)) < Len(Hierarchy[Path(v)]) - 1
drillFilter(steps) == {steps[i] : i \in DOMAIN steps} \ {Skip}

drillInto(v, key) ==
  IF canDrillDown(v) THEN SetDrill(v, Append(Drill(v), Criterion(currentDimension(v), key))) ELSE report

(***************************************************************************)
(* crossFilter.ts and slicer.ts.                                           *)
(***************************************************************************)
(* Values of one dimension are alternatives, dimensions are all required. *)
matchesSelection(row, criteria) ==
  \A c \in criteria : \E o \in criteria : o.dim = c.dim /\ row[o.dim] = o.key

inSlicerScope(row, view) ==
  /\ view.years = {} \/ row.year \in view.years
  /\ view.months = {} \/ row.month \in view.months

rowsFor(rows, view, target) ==
  SelectSeq(rows, LAMBDA row :
    /\ inSlicerScope(row, view)
    /\ \A v \in Visuals \ {target} : matchesSelection(row, view.filter[v]))

(* What a visual draws: the slicers, the others' selections, its own drill. *)
Scoped(rows, view, v) ==
  LET steps == IF v = "waterfall" THEN view.waterfall.drills[view.waterfall.axis] ELSE view[v].drill
  IN SelectSeq(rowsFor(rows, view, v), LAMBDA row : \A c \in drillFilter(steps) : row[c.dim] = c.key)

toggled(set, x) == IF x \in set THEN set \ {x} ELSE set \cup {x}

applyClick(filter, source, c, extend) ==
  IF extend THEN [filter EXCEPT ![source] = toggled(@, c)]
  ELSE [v \in Visuals |-> IF v = source /\ filter[source] # {c} THEN {c} ELSE {}]

slicerPick(set, x, extend) ==
  IF extend THEN toggled(set, x) ELSE IF set = {x} THEN {} ELSE {x}

yearsIn == {row.year : row \in ToSet(feed)}
monthsInYears(years) == {row.month : row \in {r \in ToSet(feed) : years = {} \/ r.year \in years}}

(***************************************************************************)
(* breakdown.ts: the groups of a dimension, and the rows of the matrix,      *)
(* named by their path, with a net for every account they touch.            *)
(***************************************************************************)
netOf(rows) == MapThenSumSet(LAMBDA i : rows[i].amount, DOMAIN rows)
keysPresent(rows, dim) == {row[dim] : row \in ToSet(rows)}

Marks(v) ==
  LET rows == Scoped(feed, report, v)  dim == currentDimension(v) IN
  {key \in keysPresent(rows, dim) :
     v = "pie" => netOf(SelectSeq(rows, LAMBDA row : row[dim] = key)) < 0}

pivot(rows, dims) ==
  LET PathOf(row, n) == [i \in 1..n |-> row[dims[i]]]
      paths == UNION {{PathOf(row, n) : row \in ToSet(rows)} : n \in DOMAIN dims}
  IN [p \in paths |->
        LET group == SelectSeq(rows, LAMBDA row : PathOf(row, Len(p)) = p)
        IN [a \in keysPresent(group, "accountType") |->
              netOf(SelectSeq(group, LAMBDA row : row.accountType = a))]]

(***************************************************************************)
(* The grid.  A key that changes mounts another; its columns are those of   *)
(* the mount, its rows and the marks on its headers follow the props, or    *)
(* wait for the library to load and the table to be built.                 *)
(***************************************************************************)
Nodes(rows, view) ==
  pivot(Scoped(rows, view, "matrix"), SubSeq(Hierarchy.matrix, Len(view.matrix.drill) + 1, 2))
Accounts_(rows, view) == keysPresent(Scoped(rows, view, "matrix"), "accountType")

(* Variant: the key leaves out the account columns. *)
GridKeyOfRows(rows, view) == <<Len(view.matrix.drill), {}, view.matrix.expandAll>>

GridKey(rows, view) ==
  <<Len(view.matrix.drill), Accounts_(rows, view), view.matrix.expandAll>>

headerClassNames(view) == {c.key : c \in view.filter["matrix"]}

Mounted(rows, view) ==
  [key |-> GridKey(rows, view), phase |-> "loading", columns |-> Accounts_(rows, view),
   shown |-> Nodes(rows, view), pending |-> Nodes(rows, view), marks |-> {}]

Render(rows, view) ==
  grid' = CASE GridKey(rows, view) # grid.key -> Mounted(rows, view)
            [] OTHER -> IF grid.phase = "built"
                        THEN [grid EXCEPT !.shown = Nodes(rows, view),
                                          !.marks = headerClassNames(view) \cap grid.columns]
                        ELSE [grid EXCEPT !.pending = Nodes(rows, view)]

ChunkLoads ==
  /\ grid.phase = "loading"
  /\ grid' = [grid EXCEPT !.phase = "building"]
  /\ UNCHANGED <<feed, fresh, report, clicks>>

TableBuilt ==
  /\ grid.phase = "building"
  /\ grid' = [grid EXCEPT !.phase = "built", !.shown = grid.pending, !.pending = <<>>,
                          !.marks = headerClassNames(report) \cap grid.columns]
  /\ UNCHANGED <<feed, fresh, report, clicks>>

(***************************************************************************)
(* The reader.  A disabled button is not clicked.                          *)
(***************************************************************************)
See(view) ==
  /\ clicks < MaxClicks
  /\ clicks' = clicks + 1
  /\ report' = view
  /\ Render(feed, view)
  /\ UNCHANGED <<feed, fresh>>

PickYear(y, extend) ==
  /\ y \in yearsIn
  /\ LET years == slicerPick(report.years, y, extend)
     IN See([report EXCEPT !.years = years, !.months = @ \cap monthsInYears(years)])

PickMonth(m, extend) ==
  /\ m \in monthsInYears(report.years)
  /\ See([report EXCEPT !.months = slicerPick(@, m, extend)])

ClickMark(v, key, extend) ==
  /\ key \in Marks(v)
  /\ See(IF report[v].drillMode THEN drillInto(v, key)
         ELSE [report EXCEPT !.filter = applyClick(@, v, Criterion(currentDimension(v), key), extend)])

(* A row of the tree, at any depth: only its key is read. *)
ClickRow(path) ==
  /\ grid.phase = "built" /\ path \in DOMAIN grid.shown
  /\ report.matrix.drillMode
  /\ See(drillInto("matrix", Last(path)))

ClickHeader(account) ==
  /\ grid.phase = "built" /\ account \in grid.columns
  /\ See([report EXCEPT !.filter = applyClick(@, "matrix", Criterion("accountType", account), TRUE)])

DrillUp(v) == Drill(v) # <<>> /\ See(SetDrill(v, Front(Drill(v))))
NextLevel(v) == canDrillDown(v) /\ See(SetDrill(v, Append(Drill(v), Skip)))
ToggleDrillMode(v) == canDrillDown(v) /\ See([report EXCEPT ![v].drillMode = ~@])
SwitchAxis(axis) == See([report EXCEPT !.waterfall.axis = axis])
ToggleExpandAll ==
  report.matrix.drill = <<>> /\ See([report EXCEPT !.matrix.expandAll = ~@])
Restart == ~isDefaultView /\ See(INITIAL_VIEW)

(* The page paints what the cache has and asks again. *)
Refetch(rows) ==
  /\ ~fresh
  /\ fresh' = TRUE /\ feed' = rows
  /\ Render(rows, report)
  /\ UNCHANGED <<report, clicks>>

ReportInit(rows) ==
  /\ feed = rows /\ fresh = FALSE /\ clicks = 0
  /\ report = INITIAL_VIEW
  /\ grid = Mounted(rows, INITIAL_VIEW)

ReportNext(rows) ==
  \/ \E y \in yearsIn, extend \in BOOLEAN : PickYear(y, extend)
  \/ \E m \in monthsInYears(report.years), extend \in BOOLEAN : PickMonth(m, extend)
  \/ \E v \in {"waterfall", "pie"}, extend \in BOOLEAN : \E key \in Marks(v) : ClickMark(v, key, extend)
  \/ \E path \in DOMAIN grid.shown : ClickRow(path)
  \/ \E account \in grid.columns : ClickHeader(account)
  \/ \E v \in Visuals : DrillUp(v) \/ NextLevel(v) \/ ToggleDrillMode(v)
  \/ \E axis \in {"date", "category"} : SwitchAxis(axis)
  \/ ToggleExpandAll \/ Restart \/ ChunkLoads \/ TableBuilt \/ Refetch(rows)

(***************************************************************************)
(* Properties.                                                             *)
(***************************************************************************)
(* Restart is offered whenever anything on the page is not as it opens, a   *)
(* drill of the axis that is not shown included, and only then              *)
(* (breakdownView.ts:70-80).                                               *)
RestartIsComplete == isDefaultView <=> report = INITIAL_VIEW

(* A grid that is built shows the rows, the account columns and the marked   *)
(* headers of the view as it is now, whatever happened while its library    *)
(* was loading and however often it was mounted (DataTable.tsx:79-149).     *)
GridShowsTheRows ==
  grid.phase = "built" =>
    /\ grid.shown = Nodes(feed, report)
    /\ grid.columns = Accounts_(feed, report)
    /\ grid.marks = headerClassNames(report) \cap grid.columns

(* "Descend into one mark, filtering to it" (drill.ts:51): what the matrix   *)
(* was drilled into is a date that has transactions.                        *)
DrillShowsItsMark ==
  \A c \in drillFilter(report.matrix.drill) : \E row \in ToSet(feed) : row[c.dim] = c.key
=============================================================================
