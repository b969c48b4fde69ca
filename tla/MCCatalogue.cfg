SPECIFICATION MCSpec
CONSTANTS
  r1 = r1  r2 = r2  d1 = d1  p1 = p1  p2 = p2
  NoPay = NoPay  NoEdit = NoEdit
  Nobody = Nobody  NoSnapshot = NoSnapshot  NoUpload = NoUpload  NoForm = NoForm
  PipelineRoles = {r1, r2}
  DirectRoles = {d1}
  Pays = {NoPay, p1, p2}
  Threads = {t1, t2}
  Admins = {a1}
  n1 = n1  n2 = n2  Runs = {n1, n2}
  Uploads <- MCUploads
  Snapshots <- MCSnapshots
  Corrections <- MCCorrections
  Seed <- Night1
  ShrinkFloor = 3  ShrinkMin = 2  KeepBackups = 1
  Catalogues <- MCCatalogues
  PageSize = 2  Cap = 2  GrantHours = 1
SYMMETRY Symmetry
INVARIANTS CatalogueIsOnePublication
           
           AnswersAreTrue
PROPERTIES 
           OnlyUnseenApprovalsAreLost
           HandsOver
           ReadsShowTheBoard
CHECK_DEADLOCK FALSE
