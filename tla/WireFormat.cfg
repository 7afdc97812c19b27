SPECIFICATION Spec
CONSTANTS
    Number <- MCNumber
    Text = {"", "essay", "broken"}
    TextLen <- MCTextLen
    Utf8 = {"", "essay"}
    ForeignNumber = {5}
    MaxCalls = 2
    MaxHops = 2
INVARIANTS
    SizeIsExact
    HasBitConsistency
PROPERTY ImplementsRecords
CHECK_DEADLOCK FALSE
