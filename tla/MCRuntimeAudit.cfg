CONSTANTS
    MaxAudits = 2
    AtOnce = 1
    MaxChanges = 2
SPECIFICATION Spec
INVARIANTS
    VerdictTrue
    SafetyRecorded
    LatestSound
CHECK_DEADLOCK FALSE
