\* Two threads and the worker, two ids in every table, five requests.
SPECIFICATION Spec
SYMMETRY MCThreads
CONSTANTS
  None = None
  Threads = {t1, t2}
  Worker = worker
  MaxId = 2
  Choices <- MCChoices
  Payloads <- MCPayloads
  Users = {7}
  Defaults <- MCDefaults
  MaxRequests = 5
INVARIANTS
  SelectionIsWhole
  DoomedRowsAreMine
PROPERTY
  NoCommitIsUndone
