SPECIFICATION FairSpec
CONSTANTS
  Tables = {a, b}
  Modes = {keys, all}
  Default = keys
  Slots = {q1, q2}
  NoLayout = NoLayout
  NoPut = NoPut
  Unsaid = Unsaid
  Foci = {{a}}
  MaxEdits = 2
INVARIANTS SavedIsShown ViewIsKept
PROPERTIES EditIsSaved
CHECK_DEADLOCK FALSE
