SPECIFICATION MCSpec
CONSTANTS
  h1 = h1
  h2 = h2
  g1 = g1
  q1 = q1
  q2 = q2
  Jobs = {j1, j2}
  Job = j1
  Clients = {c1, c2}
  Harness = c1
  Segments = {1, 2, 3}
  NoJob = NoJob
  Nobody = Nobody
  MaxFaults = 0
  Parts = {"proof"}
  Interrupts = FALSE
PROPERTY KilledRenderRecovers
CHECK_DEADLOCK FALSE
