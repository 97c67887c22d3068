INIT Init
NEXT Next
CONSTANTS
    Counts = {1, 19, 20}
    MaxCells = 3
    Coercion = 95
    MixedLower = 50
    MixedUpper = 95
    Values = {1, 2, 3}
    MinRows = 3
    MinTargetDistinct = 2
    SmallTargetDistinct = 3
    MinContainment = 60
    Segments = {s1, s2, s3}
    MaxListed = 2
    MaxDelta = 3
    MinPoints = 4
    Horizon = 3
    LastMonth = 12
    Limit = 2
    Window = 2
    Texts = {"a", "column", "select"}
    Numbers = {2}
    Reserved = {"select"}
    MaxWords = 2
INVARIANTS
    CleaningIsFaithful
    SumsAreMeaningful
    ProposalsKeepRows
    CausesAreEarned
    ForecastFollowsCalendar
    LockoutsEnd
    NamesStayApart
