SPECIFICATION FairSpec
CONSTANTS
    Id = {a, b}
    Null = Null
    MaxRevision = 2
    MaxReceive = 2
CHECK_DEADLOCK FALSE
INVARIANTS ObsoleteWorkIsCancelled NothingOwed
PROPERTIES AnswersAreCurrent DiagnosticsAreCurrent Progress
CONSTRAINT Bounded
