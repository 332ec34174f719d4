SPECIFICATION FairSpec
CONSTANTS
    base = base  turbo = turbo  home = home  gone = gone
    Finals = {f1, f2}
    Previews = {p1}
    Models = {base, turbo, gone}
    OnDisk = {base, turbo}
    Expand <- MCExpand
    Settings <- MCSettings
    None = None
    MaxJobs = 2
    MaxEdits = 1
    MaxFaults = 1
INVARIANTS SlotIsTheHolders ReadyMeansAskedFor PortTellsTheTruth
PROPERTIES FixIsHeard TranscriptionsEnd SettlesOnConfigured
CHECK_DEADLOCK FALSE
