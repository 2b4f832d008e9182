--------------------------- MODULE ExpenseTracker ---------------------------
(***************************************************************************)
(* The Expense Tracker from what users put in to what they read: the two    *)
(* pages that feed the pipeline, the pipeline, and the report over what it  *)
(* built.  A user is on one page: leaving it unmounts it and its state is   *)
(* lost, so a behaviour is about one part.                                 *)
(***************************************************************************)
EXTENDS BudgetEditor, RawFiles, Golden1, Breakdown

VARIABLE screen

vars == <<budgetVars, rawVars, pipelineVars, reportVars, screen>>

Screens == {"budget-map", "raw-csvs", "pipeline", "breakdown"}

(* All the books of the bank, the first `n` transactions of an account in   *)
(* the old layout, the rest in the new one.                                *)
Cut(a, n) == Min({n, Len(Ledger[a])})
AllExports(n) ==
  [a \in DOMAIN Ledger |-> <<Export(a, "v1", 1, Cut(a, n)), Export(a, "v2", Cut(a, n) + 1, Len(Ledger[a]))>>]
FirstExports(n) == [a \in DOMAIN Ledger |-> <<Export(a, "v1", 1, Cut(a, n))>>]

(* The report opens once the pipeline has run, maybe on rows it cached when  *)
(* there were fewer exports and another budget map.  Only the budget editor *)
(* reads the stored document: elsewhere any one of them will do.            *)
Init ==
  /\ screen \in Screens
  /\ BudgetInit /\ RawInit
  /\ screen # "budget-map" => stored = CHOOSE doc \in Imported : TRUE
  /\ IF screen = "breakdown"
     THEN /\ budgetMap \in BudgetMaps
          /\ exports = AllExports(2) /\ staged = NULL
          /\ \E map \in BudgetMaps, files \in {FirstExports(2), AllExports(2)} :
               ReportInit(breakdown_rows(Run(files, map)))
     ELSE PipelineInit /\ ReportInit(<<>>)

Next ==
  \/ screen = "budget-map" /\ BudgetNext /\ UNCHANGED <<rawVars, pipelineVars, reportVars, screen>>
  \/ screen = "raw-csvs" /\ RawNext /\ UNCHANGED <<budgetVars, pipelineVars, reportVars, screen>>
  \/ screen = "pipeline" /\ PipelineNext /\ UNCHANGED <<budgetVars, rawVars, reportVars, screen>>
  \/ /\ screen = "breakdown" /\ staged = NULL /\ Build
     /\ UNCHANGED <<budgetVars, rawVars, reportVars, screen>>
  \/ /\ screen = "breakdown" /\ staged # NULL /\ ReportNext(breakdown_rows(staged))
     /\ UNCHANGED <<budgetVars, rawVars, pipelineVars, screen>>

Spec == Init /\ [][Next]_vars
=============================================================================
