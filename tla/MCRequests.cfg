SPECIFICATION MCSpec
CONSTANTS
  Keys = {slow, k1, k2}
  slow = slow
  Callers = {c1, c2}
  Limit <- SomeLimit
  Window <- SomeWindow
  LongWindow = 3
  Capacity = 2
  SweepInterval = 2
  MaxTime = 5
  MaxDelay = 1
  Submissions = {k1, k2}
  Admins = {c1, c2}
  Inodes = {i1, i2, i3, i4}
  firstFile = i1
  None = None
SYMMETRY Symmetry
INVARIANTS LimitHolds
           TableIsBounded
           ApprovedRolesAreOnTheBoard
 
CHECK_DEADLOCK FALSE
