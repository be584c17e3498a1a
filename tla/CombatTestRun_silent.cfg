CONSTANTS
    Run = {r1, r2}
    NoRun = NoRun
    Faults = {}
    MaxCrashes = 0
SYMMETRY Symmetry
SPECIFICATION Spec
INVARIANTS
    NoSilentFinish
