SPECIFICATION FairSpec
CONSTANTS
    c1 = c1
    c2 = c2
    None = None
    Command <- MCCommand
    Closer <- MCCloser
    Scenario <- MCScenario
INVARIANTS TypeOK AnswerFits OneSocket ClosedIsForgotten
PROPERTY AllEnd
\* A session may come to rest.
CHECK_DEADLOCK FALSE
