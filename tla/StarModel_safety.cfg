\* Two datasets that refer to each other, two requests at once.
SPECIFICATION Spec
CONSTANTS
    orders = orders
    customers = customers
    o = o
    c = c
    oc = oc
    oc2 = oc2
    co = co
    Datasets = {orders, customers}
    Slugs = {o, c}
    SlugOf <- MCSlugOf
    Edges = {oc, co}
    From <- MCFrom
    To <- MCTo
    Requests = {r1, r2}
SYMMETRY Symmetry
INVARIANTS NothingJoinsItself RebuildSettles PromptMatchesTable
PROPERTIES DecisionsStand
