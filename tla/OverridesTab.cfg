SPECIFICATION Spec
CONSTANTS
  Nil = Nil
  Fold <- FoldMC
  Catalogs <- CatalogsMC
  Stored <- StoredMC
  MaxClicks = 6
  MaxMoves = 1
INVARIANTS FormIsNeverRefused
PROPERTIES SavedAsStated ShownRowsAreKept
CHECK_DEADLOCK FALSE
