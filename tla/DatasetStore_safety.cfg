\* Two datasets that follow each other under one slug, one job, one request.
SPECIFICATION Spec
CONSTANTS
    Datasets = {d1, d2}
    Slugs = {s1}
    Workers = {w1}
    Requests = {q1}
    NoSlug = NoSlug
    NoData = NoData
    NoTable = NoTable
SYMMETRY Symmetry
INVARIANTS
    CleanedHasTable
    KpisAreOwn
    SettledIsConsistent
    DeleteLeavesNothing
\* The dataset ids run out, and with them the work.
CHECK_DEADLOCK FALSE
