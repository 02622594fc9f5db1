SPECIFICATION MCSpec
CONSTANTS
  Parts = {"job", "consent", "commands", "casting"}
  Books = {b1}
  NoBook = NoBook
  Digests = {h1}
  NoDigest = NoDigest
  Warned = {}
  Segments = {s1, s2}
  Fallback = {s1, s2}
  Reviewers = {r1, r2}
  Readers = {d1}
  Decisions = {"approve", "revoke", "grant", "ungrant"}
  MaxReviews = 2
  WritesFail = FALSE
  Crashes = TRUE
  c1 = c1
  c2 = c2
  j1 = j1
  NoJob = NoJob
  MaxActs = 2
  Lines = {s1, s2}
  Readings = {r1, r2}
  Voiced = "cast"
  NoReading = "none"
  Clerks = {c1, c2}
  Hostings <- OneOrTwoProcesses
  MaxRedirections = 1
  Speakers = {"ann", "ben"}
  Aliases = {"x"}
  Profiles = {"narration", "bass", "alto"}
  NarratorVoice = "narration"
  FallbackVoice = "bass"
  Groups = {"g"}
  Exclusive = "exclusive"
  Shape <- TwoChapters
  Commands = {"command"}
  Webs = {"web"}
  CommandJobs = {j1}
  Asked <- EitherChapter
  Drafts <- Proposals
  HouseCast <- OwnVoice
  MaxApprovals = 2
  MaxLaunches = 2
INVARIANT OutputIsAttested
INVARIANT HonestProgress
INVARIANT ServedAudioStands
INVARIANT NothingCarriedOver
PROPERTY WithdrawalsStand
PROPERTY DecidedWhole
PROPERTY PlaybackApproved
SYMMETRY Interchangeable
CHECK_DEADLOCK FALSE
