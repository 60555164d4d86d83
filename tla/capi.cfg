CONSTANTS
  Unit = Unit
  Roles = {"records", "updates", "deltas"}
  MaxHandles <- MCMaxHandles
  MaxWeight = 1
  Vals = {v1}
  NotAValue = NotAValue
  Tables = {t1, t2}
  Shows <- MCShows
  Fds = {fd1}
  NoFd = NoFd
SPECIFICATION Spec
INVARIANTS
  TypeOK
  NothingDangles
  ChangesConserved
PROPERTIES
  SuccessLeaksNothing
CHECK_DEADLOCK FALSE
