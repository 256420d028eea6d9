\* One event of any kind and two workers, one with the provider disabled, in
\* spite of a crash, a stalled job or a lost one.
CONSTANTS
    None = None
    Workers = {w1, w2}
    Notifications = {n1}
    Cleanups = {c1}
    Sweeps = {s1}
    Objects = {x1, x2}
    Muted = {w2}
    MaxAttempts = 2
    MaxEvents = 1
    BatchSize = 1
    MaxFaults = 1
SPECIFICATION FairSpec
CHECK_DEADLOCK FALSE
INVARIANTS
    NothingStranded
    OneOpenAttempt
    ProcessedMeansDone
PROPERTIES
    OutcomesFinal
    EventsSettle
