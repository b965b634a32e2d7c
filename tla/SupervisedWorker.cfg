SPECIFICATION MCSpec
CONSTANTS
  r1 = r1  r2 = r2
  Requests = {r1, r2}
  Cancellable = {r1}
  MaxRestarts = 1
  MaxProcs = 3
  Places = {1, 2}
  Queries = {1, 2}
  MaxAsks = 4
  MaxVersion = 1
  MaxActs = 2
INVARIANTS
  OneProcess
PROPERTIES
  NeverGoesBack
  AnswersAreForWorkDone
  EveryCallerIsAnswered
  WorkerComesBack
  EveryChildIsOpened
CHECK_DEADLOCK FALSE
