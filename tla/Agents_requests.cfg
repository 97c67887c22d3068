\* Two questions in one conversation, and a briefing.
SPECIFICATION Spec
CONSTANTS
    Asks = {a1, a2}
    Briefings = {b1}
    Threads = {t1, t2}
    OldThreads = {t1}
    MaxSqlAttempts = 2
    MaxSpecialists = 3
    Shapes <- MCShapes
    TwoModels = TRUE
    MaxBegun = 2

INVARIANTS TypeOK WholeExchanges GroundedAnswers UsageRecorded BriefCoversFleet
PROPERTIES RequestsEnd
CHECK_DEADLOCK FALSE
