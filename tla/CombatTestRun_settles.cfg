CONSTANTS
    Run = {r1}
    NoRun = NoRun
    Faults = {"crash", "death", "send"}
    MaxCrashes = 2
SPECIFICATION FairSpec
PROPERTY RunsEnd
