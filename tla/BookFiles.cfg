SPECIFICATION FairBooksSpec
CONSTANTS
  Ingests = {i1, i2}
  Records = {epub1, epub2}
  MaxMishaps = 2
  Renders = {r1, r2}
  Books = {b1, b2}
  Title <- OneTitle
  Nobody = Nobody
  Target = 2
  MaxVersion = 2
  MaxFaults = 1
INVARIANT SoleOwner
INVARIANT OutputsSound
INVARIANT UploadsKept
PROPERTY FilesStand
PROPERTY EverythingEnds
CHECK_DEADLOCK FALSE
