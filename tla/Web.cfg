\* Pages whose requests and answers get lost, come late or meet another change.
SPECIFICATION WebSpec
CHECK_DEADLOCK FALSE
CONSTANTS
    None = None
    Pages <- AllPages
    MaxVersion = 2
    MaxLosses = 2
    MaxKeys = 3
    MaxIntents = 3
    MaxFiles = 2
INVARIANTS
    OneEffectPerIntent
    LateAnswersFit
PROPERTY
    DecidedOnCurrent
