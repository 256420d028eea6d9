\* A form that stays mounted while another administrator saves its record.
SPECIFICATION WebSpec
CHECK_DEADLOCK FALSE
CONSTANTS
    None = None
    Pages <- VariantPage
    MaxVersion = 3
    MaxLosses = 2
    MaxKeys = 3
    MaxIntents = 3
    MaxFiles = 2
PROPERTY OthersWorkKept
