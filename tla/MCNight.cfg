SPECIFICATION MCSpec
CONSTANTS
  RunIds = {n1, n2}
  Profiles = {"hosted", "repair"}
  MaxAttempts = 2
  MaxBatch = 1
  None = None
  Entries <- MCEntries
  Known <- MCKnown
  Postings <- MCPostings
  PoolSize = 2
  MaxNights = 2
SYMMETRY Symmetry
INVARIANTS PublishedRunsAreWhole
           RecordTellsTheRun
           NightsAddUp
PROPERTIES OnlyUnseenWorkIsLost
           OnlyItsSourceClosesAListing
CHECK_DEADLOCK FALSE
