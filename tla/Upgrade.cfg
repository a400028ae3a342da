CONSTANTS
  n1 = n1 n2 = n2 n3 = n3 n4 = n4 u1 = u1 u2 = u2
  None = None
  NoOne = NoOne
  Tags <- AllTags
  Images <- AllTags
  Worlds <- AllWorlds
  Patterns <- SomePatterns
  Searches = {s1, s2}
  PageSize = 2
  Names = {n1, n2, n3, n4}
  Projects <- OneProject
  FirstId <- Order
  MountsOf <- MountLists
  Updates = {u1, u2}
  Plans <- AllPlans
  MaxId = 6
  It = n4
  Starts <- AllStarts
SPECIFICATION TeamSpec
SYMMETRY Alike
INVARIANT TypeOK OfferIsNewest OfferIsForward LossIsTold MissingOnlyAtCreate ReplacedOnce MountsKept LineKept
CHECK_DEADLOCK FALSE
