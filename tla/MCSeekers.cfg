SPECIFICATION MCSpec
CONSTANTS
  Nil = Nil  None = None
  Threads = {t1, t2}
  Ids = {i1, i2}
  Emails = {e1}
  Passwords = {p1}
  Subjects = {g1}
  Links = {l1, l2}
  Sessions = {s1, s2}
  Seekers = {k1}
  Desks = {d1, d2}
  Courses = {c1, m1}
  MemberCourses = {m1}
  Roles = {r1}
  Queries = {q1, q2}
  MaxVersion = 3
  MaxClicks = 2
  Tabs = {t1, t2}
  Bookmarks = {l1, l2}
  MaxPresses = 1
SYMMETRY Symmetry
INVARIANTS LinksWorkOnce
           NothingOutlivesItsAccount
           SavedRolesAreKept
PROPERTIES AccountsStayWithTheirOwners
           RecordsHangTogether
CHECK_DEADLOCK FALSE
