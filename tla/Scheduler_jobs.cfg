CONSTANTS
    Jobs = {j1}
    Matching = {2}
    RollsBack = TRUE
    MaxMinute = 3
    MaxRuns = 3
    MaxEdits = 2
    MaxCrashes = 1
SPECIFICATION FairSpec
INVARIANTS TypeOK FiresOnce JobRunSettled
PROPERTY DueIsServed
