SPECIFICATION MCSpec
CONSTANTS
  Seekers = {s1}
  Roles = {r1, r2}
  Runs = {t1, t2}
  Interval = 1
  MaxRoles = 1
  MaxTime = 1
  MaxMails = 2
  None = None
  Catalogue <- MCCatalogue
  Resumes <- MCResumes
  CorrectedSkills <- MCCorrectedSkills
  CorrectedLevels = {3}
  Sectors = {"w"}
  CandidateWindow = 4
  TargetedWindow = 1
  FeedSize = 3
  MatchSize = 2
  MaxFeedPages = 10
  MaxVerdicts = 3
  MaxDeeds = 1
  Tables <- MCTables
  Editors = {1, 2}
  Limit = 3
  MAX_PER_EMPLOYER = 2
  MAX_PER_CATEGORY = 1
  Picks <- MCPicks
  MaxChanges = 1
  LastDay = 1
  MaxSaves = 2
SYMMETRY Symmetry
INVARIANTS DeletedSeekersLeaveNothing
           KeptMailsAreHeeded
PROPERTIES FeedHoldsTogether
           
CHECK_DEADLOCK FALSE
