SPECIFICATION FairSpec
CONSTANTS
  NoTrack = NoTrack
  mic = mic
  system = system
  Tracks = {mic, system}
  MaxRuns = 2
  MaxRegens = 1
  Again = {system}
  MayFail = {system}
  MayDelete = TRUE
\* A behaviour ends when its runs and requests are used up.
CHECK_DEADLOCK FALSE
INVARIANTS
  OneAtATime
  DigestSeesAllTracks
PROPERTIES
  ClaimIsReleased
  CleanMeetingGetsDigest
