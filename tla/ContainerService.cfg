SPECIFICATION Spec
CONSTANTS
  Pids = {p1, p2}
  NoPid = NoPid
  GracePolls = 2
  MaxJobs = 2
INVARIANTS TypeOK NoLostChild Agreement OnlyOwnSignalled GroupGone NothingLeftOpen
PROPERTIES ClosedAfterGuest HandlersReturn
