SPECIFICATION MCSpec
CONSTANTS
  Books = {b1, b2}
  NoBook = NoBook
  Digests = {h1, h2}
  NoDigest = NoDigest
  Warned <- OneLineEach
  Counts <- MCCounts
  b1 = b1
  h1 = h1
  j1 = j1
  NoJob = NoJob
  s1 = s1
  r1 = r1
  d1 = d1
  c1 = c1
INVARIANT SnapshotReadable
INVARIANT RenderedScriptIsDirected
INVARIANT ReviewedWarningsStand
PROPERTY BoundInputsStand
PROPERTY EverybodyRests
PROPERTY EverybodyAnswered
CHECK_DEADLOCK FALSE
