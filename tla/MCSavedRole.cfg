CONSTANTS
    a = a  b = b  c = c  d = d
    t1 = t1  t2 = t2  x1 = x1  x2 = x2  None = None
    Listings = {a, b, c}
    SourceOf <- SourceOfTwoSlugs
    SlugOf <- SlugOfTwoSlugs
    NameOf <- NameOfTwoSlugs
    Titles = {t1}
    Similar <- Alike
    Richness = {0}
    Ids = {x1, x2}
SPECIFICATION Spec
SYMMETRY SymIds
PROPERTY RedirectsLast
