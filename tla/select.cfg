SPECIFICATION FairSpec
CONSTANTS
    Clients = {c1, c2}
    Names = {n1}
    Passwords = {q1}
    NameTails = {clean}
    PasswordTails = {clean}
    Listen = Listen
    Texts = {"say", "start", "rest", "long"}
    MaxRx = 2
    Ends = {"reset"}
INVARIANTS MembersExact
PROPERTIES EveryoneHears Answered
CHECK_DEADLOCK FALSE
