CONSTANTS
  w1 = w1 w2 = w2 q1 = q1 q2 = q2 q3 = q3 r1 = r1 r2 = r2 r3 = r3 e1 = e1 e2 = e2 e3 = e3
  Off = Off New = New Gone = Gone Nobody = Nobody
  Workers = {w1, w2}
  Conns = {q1, q2, q3}
  Runs = {r1, r2, r3}
  Edits = {e1, e2, e3}
  Home <- TwoWorkers
  Schedules = {s1, s2}
  MaxHeld = 2
SPECIFICATION Spec
SYMMETRY Likes
INVARIANT TypeOK OneWorker 
PROPERTY ImplementsHostTurn
