CONSTANTS
    Run = {r1, r2}
    NoRun = NoRun
    Faults = {"crash", "death", "send"}
    MaxCrashes = 1
SYMMETRY Symmetry
SPECIFICATION Spec
CONSTRAINT Few
INVARIANTS
    OneAtATime
    StopIsFinal
    SuccessIsTrue
    FailureIsTrue
    NoticesAreTrue
