\* Orders that refer to customers, one request after the other.
SPECIFICATION Spec
CONSTANTS
    orders = orders
    customers = customers
    o = o
    c = c
    oc = oc
    oc2 = oc2
    co = co
    Datasets = {orders, customers}
    Slugs = {o, c}
    SlugOf <- MCSlugOf
    Edges = {oc}
    From <- MCFrom
    To <- MCTo
    Requests = {r1}
INVARIANT OnlyConfirmedShapesQueries
CHECK_DEADLOCK FALSE
