SPECIFICATION Spec
CONSTANTS
  Imported <- ImportedMC
  Budgets <- BudgetsMC
  None = None
  Infinite = Infinite
  Yes = Yes
  Blank = Blank
  Names = {"Food", "Home"}
  MaxEdits = 3
  Accounts <- AccountsMC
  Files <- FilesMC
  Contents = {"old", "new"}
  Uploaders = {"other"}
  Page = "me"
  MaxPicks = 3
  Ledger <- LedgerMC
  Opening <- OpeningMC
  Calendar <- CalendarMC
  BudgetMaps <- MapsMC
  CategorySK <- SKMC
  NULL = NULL
  MaxFiles = 2
  MaxClicks = 3
INVARIANTS RefusedOnlyForShape SelectedExists BalancesAreTheBanks TotalsTie RestartIsComplete GridShowsTheRows
PROPERTIES EditsLoseNothing UploadsReplaceNothing
CHECK_DEADLOCK FALSE
