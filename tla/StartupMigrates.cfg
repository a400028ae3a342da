CONSTANTS
  ann = ann bob = bob oli = oli new = new
  Administrator = Administrator User = User dev = dev s1 = s1
  None = None
  Users = {ann, bob, oli, new}
  Groups = {Administrator, User, dev}
  DefaultGroups = {Administrator, User}
  Spaces = {s1}
  Requests = {r1, r2}
  Workers = {w1, w2}
  Wizards = {z1, z2}
  Plans <- SetUps
SPECIFICATION Spec
SYMMETRY Alike
INVARIANT StartMigrates
CHECK_DEADLOCK FALSE
