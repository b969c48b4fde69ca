SPECIFICATION ListingsSpec
CONSTANTS
  a = a  b = b  c = c  d = d
  t1 = t1  t2 = t2  x1 = x1  x2 = x2  None = None
  Listings = {a, b, c, d}
  SourceOf <- SourceOfTwoEmployers
  SlugOf <- SlugOfTwoEmployers
  NameOf <- NameOfTwoEmployers
  Titles = {t1, t2}
  Similar <- Alike
  Richness = {0}
  Ids = {x1, x2}
  Recruiters = {r1}
  Posts = {p1}
  Runs = {x1, x2}
  Interval = 2
  Cap = 1
  Page = 1
  LastDay = 4
  MaxRuns = 3
  Query = Query
  Notes = {t1, t2}
  Workers = {x1, x2}
  MaxJobs = 2
  Ads = {"j1", "l1"}
  SourceOfAd <- MCSourceOfAd
  Fetchers = {x1, x2}
  WriteEvery = 1
  Tries <- MCTries
  Openings = {1, 2, 3, 4, 5, 6}
  Elsewhere = {2}
  PageSize = 2  FeedCap = 3  MaxPages = 2  MaxChanges = 3
SYMMETRY SymTitles
INVARIANTS PagesMissNothing
           OneCardPerVacancy
           RedirectsStayWithTheEmployer
PROPERTIES OnlyLoneOrMergedVacanciesLoseRedirects
           
           PromotionsAreKept
           DescriptionsAreKept
CHECK_DEADLOCK FALSE
