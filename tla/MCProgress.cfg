SPECIFICATION ProgressSpec
CONSTANTS
  r1 = r1  r2 = r2  d1 = d1  p1 = p1  p2 = p2
  NoPay = NoPay  NoEdit = NoEdit
  Nobody = Nobody  NoSnapshot = NoSnapshot  NoUpload = NoUpload  NoForm = NoForm
  PipelineRoles = {r1, r2}
  DirectRoles = {d1}
  Pays = {NoPay, p1, p2}
  Threads = {t1, t2}
  Admins = {a1}
  n1 = n1  n2 = n2  Runs = {n1, n2}
  Uploads <- MCOneNight
  Snapshots <- MCSnapshots
  Corrections <- MCOneCorrection
  Seed <- Night1
  ShrinkFloor = 3  ShrinkMin = 2  KeepBackups = 1
  Entries <- MCEntries
  Known <- MCKnown
  Postings <- MCPostings
  PoolSize = 2
  MaxNights = 1
  Starts <- MCStarts
  RowsAtStart <- MCRows
  CompanyRuns = {1}
  MaxCrashes = 1
  Asked = {x1, x2, x3}
  BatchSize = 2
  MaxTries = 2
  Allowance = 4
  DescribeCost = 1
  ClassifyCost = 2
  Listed = {x1, x2}
  Internships = {x2}
  RetryDays = 1
  Priced = {x1}
  Titles <- MCTitles
  ModelAnswers <- MCAnswers
  Raws <- MCRaws
  GlobalMax = 200000
  InternshipMax = 15000
  ShorthandBelow = 3000
  Table <- MCTable
  FrontRoles = {"trading"}
  RowOf <- MCRowOf
  Window <- MCWindow
  LadderCap <- MCLadderCap
INVARIANTS CallsAreAccountedFor
PROPERTIES RequestsAreAnswered
           RunsEnd
           MigrationsConverge
           EveryRoleIsSettled
           MigratedWhole
           SettledRowsAreLeftAlone
           FiguresAreSound
CHECK_DEADLOCK FALSE
