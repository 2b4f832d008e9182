SPECIFICATION Spec
CONSTANTS
  Users = {ana, bo}
  Apps = {erd}
  Me = ana
  Callers = {ana, bo}
  Promoted = {bo}
  WithToken = {ana}
  Workspace = TRUE
  Threads = {t1, t2}
  PollBudget = 1
  MaxCalls = 3
INVARIANTS OwnDataOnly
PROPERTIES LockoutNeedsARace CallsAreAnswered
CHECK_DEADLOCK FALSE
