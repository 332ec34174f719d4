SPECIFICATION FairSpec
CONSTANTS
    base = base  turbo = turbo  home = home  gone = gone
    Finals = {f1, f2}
    Previews = {p1}
    Models = {base, home}
    OnDisk = {base}
    Expand <- MCExpand
    Settings <- MCTilde
    None = None
    MaxJobs = 1
    MaxEdits = 0
    MaxFaults = 0
CHECK_DEADLOCK FALSE
PROPERTIES TildeSettlesToo
