SPECIFICATION FairSpec
CONSTANTS
    ContentLength <- Lengths
    Half <- Short
    Messages <- MCMessages
INVARIANTS TypeOK CRNeverPassed SplitFree BodyComplete AgreesWithNote9
PROPERTIES Settles
CHECK_DEADLOCK FALSE
