\* Two overlapping runs of any task, one fault at any point.
SPECIFICATION Spec
CONSTANTS
  p1 = p1
  p2 = p2
  t1 = t1
  t2 = t2
  r1 = r1
  r2 = r2
  Run = {p1, p2}
  Table = {t1, t2}
  Row = {r1, r2}
  TableOf <- MCTableOf
  MaxTime = 1
  MaxFaults = 1
SYMMETRY Symmetry
INVARIANTS TypeOK NothingLost PurgedIsBackedUp SuccessIsWhole
\* Runs end, and the clock and the arrivals are bounded.
CHECK_DEADLOCK FALSE
