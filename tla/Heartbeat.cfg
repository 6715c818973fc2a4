SPECIFICATION Spec
CONSTANTS
    CardOrder <- MCCards
    StallAfter = 1
    Tier2Reasons = {"attention-shift", "awaiting-decision"}
    MaxTime = 4
    MaxWork = 1
    MaxEdits = 1
    MaxFaults = 1
    Killable = TRUE
INVARIANTS
    TypeOK
    EditsKept
    RemindersSpaced
PROPERTIES
    StallsAreReal
    StallNoticed
    StallAnnounced
