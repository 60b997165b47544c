SPECIFICATION FairSpec
CONSTANTS
    Id = {a}
    Null = Null
    MaxRevision = 1
    MaxReceive = 4
CHECK_DEADLOCK FALSE
PROPERTY StopsWithItsInput
