CONSTANTS
  h1 = h1 h2 = h2 c1 = c1 c2 = c2 c3 = c3 i1 = i1 i2 = i2
  a1 = a1 a2 = a2 a3 = a3 g1 = g1 u1 = u1 u2 = u2 s1 = s1 s2 = s2 w1 = w1 w2 = w2
  None = None
  Hosts = {h1, h2}
  Agents = {a1, a2, a3}
  HomeOf <- Homes
  Admins = {g1}
  Workers = {w1, w2}
  Users = {u1, u2}
  Containers = {c1, c2, c3}
  HostOf <- Places
  Ids = {i1, i2}
  IdOf <- Names
  Sockets = {s1, s2}
  Loads <- AllLoads
  MaxMade = 3
  MaxRelease <- Released
  MaxId = 1
SPECIFICATION Spec
SYMMETRY Alike
INVARIANT TypeOK OneEntryEach ToldIsServed StreamsAreRequested SubscribersAreOpen RequestsAreRead LinesAreOwn
PROPERTY SecretKept TokenRevokes ImplementsHandover
CHECK_DEADLOCK FALSE
