\* Two Java threads and two guests in all: a start can overlap a start and a stop, and
\* a guest can be followed by another while the first one's monitor is still at work.
CONSTANTS
  t1 = t1
  t2 = t2
  Callers = {t1, t2}
  MaxGuests = 2
SPECIFICATION Spec
INVARIANTS TypeOK OneGuestWatched StateAgrees SerialCallsSafe
PROPERTIES EndBeforeNextRunning CallsReturn EndReported
\* An aborted process takes no further step.
CHECK_DEADLOCK FALSE
