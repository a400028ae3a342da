CONSTANTS
  w1 = w1
  None = None
  Workers = {w1}
  Checks = {k1, k2}
  WorkerOf <- OneWorker
  Containers = {c1, c2}
  Channels = {h1}
SPECIFICATION CalmSpec
INVARIANT EachIsChecked
