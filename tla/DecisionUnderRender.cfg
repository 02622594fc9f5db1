SPECIFICATION MCSpec
CONSTANTS
  Parts = {"job"}
  Books = {b1}
  NoBook = NoBook
  Digests = {h1}
  NoDigest = NoDigest
  Warned = {}
  Segments = {s1}
  Fallback = {s1}
  Reviewers = {r1, r2}
  Readers = {}
  Decisions = {"approve", "revoke"}
  MaxReviews = 2
  WritesFail = FALSE
  Crashes = FALSE
  c1 = c1
  c2 = c2
  j1 = j1
  NoJob = NoJob
  MaxActs = 0
  Lines = {s1}
  Readings = {r1, r2}
  Voiced = "cast"
  NoReading = "none"
  Clerks = {c1, c2}
  Hostings <- OneOrTwoProcesses
  MaxRedirections = 1
  Speakers = {"ann", "ben"}
  Aliases = {"x"}
  Profiles = {"narration", "bass", "alto"}
  NarratorVoice = "narration"
  FallbackVoice = "bass"
  Groups = {"g"}
  Exclusive = "exclusive"
  Shape <- TwoChapters
  Commands = {"command"}
  Webs = {"web"}
  CommandJobs = {j1}
  Asked <- EitherChapter
  Drafts <- Proposals
  HouseCast <- OwnVoice
  MaxApprovals = 2
  MaxLaunches = 2
PROPERTY DecisionRefusedUnderRender
CHECK_DEADLOCK FALSE
