SPECIFICATION MCSpec
CONSTANTS
  Parts = {"experiment"}
  h1 = h1
  h2 = h2
  g1 = g1
  g2 = g2
  q1 = q1
  q2 = q2
  c1 = c1
  c2 = c2
  p1 = p1
  p2 = p2
  Hosts = {h1, h2}
  Directors = {g1, g2}
  Batches = {q1}
  HostOf <- MCHostOf
  Nobody = Nobody
  Platform = "linux"
  Faults = TRUE
  Crashes = TRUE
  Commands = {c1, c2}
  Plans = {p1, p2}
  NumRuns = 2
  Completions <- Answers
  BenchmarkFaults = 0
SYMMETRY Interchangeable
INVARIANT OwnRunsAccepted
CHECK_DEADLOCK FALSE
