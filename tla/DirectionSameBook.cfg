SPECIFICATION MCSpec
CONSTANTS
  Parts = {"direction"}
  s1 = s1
  s2 = s2
  x = x
  y = y
  w1 = w1
  j1 = j1
  b1 = b1
  Books = {b1}
  NoBook = NoBook
  Digests = {h1, h2}
  NoDigest = NoDigest
  Warned <- OneLineEach
  Workers = {w1}
  JobIds = {j1, j2}
  BookOf <- DerivedBook
  NoJob = NoJob
  NumChapters = 2
  PassagesEach = 1
  Scripts = {"sure", "unsure", "other"}
  Unsure = {"unsure"}
  MaxFaults = 0
  CharFloor = 4
  Overhead = 1
  OutputBudget = 30
  PromptOverhead = 1
  PromptBudget = 16
  MaxPassages = 4
  LocalSizes = {1, 4, 18}
  LocalChunking <- LocalBudgets
  LocalAttempts = 2
  MaxShrinks = 2
  CloudSizes = {1, 4, 20}
  CloudChunking <- CloudBudgets
  CloudAttempts = 2
  Segments = {s1, s2}
  Identities = {x, y}
  Orders <- EditedScripts
  SeedAttempts = 2
  Toolchains <- Installable
  MaxMishaps = 2
INVARIANT ReviewHasScript
CHECK_DEADLOCK FALSE
