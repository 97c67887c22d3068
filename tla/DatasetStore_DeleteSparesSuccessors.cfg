\* A delete, and an upload that takes the slug before the tables are dropped.
SPECIFICATION Spec
CONSTANTS
    Datasets = {d1, d2}
    Slugs = {s1}
    Workers = {w1}
    Requests = {q1}
    NoSlug = NoSlug
    NoData = NoData
    NoTable = NoTable
PROPERTY DeleteSparesSuccessors
CHECK_DEADLOCK FALSE
