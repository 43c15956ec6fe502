SPECIFICATION Spec
CONSTANTS
  task1 = task1
  task2 = task2
  tab1 = tab1
  tab2 = tab2
  Tasks = {task1, task2}
  Tabs = {tab1, tab2}
  MaxAttempts = 2
  Window = 2
  CsrfAge = 2
  SessionAge = 2
  Texts <- SampleTexts
  ChunkMax = 10
  Separator = 2
  MaxUploads = 2
  MaxRequests = 4
  MaxTime = 3
  MaxFaults = 1
SYMMETRY Symmetry
INVARIANTS
  TypeOK
  LimitIsExact
  FreshFormServes
  AnswerIsTrue
CHECK_DEADLOCK FALSE
