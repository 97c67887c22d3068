\* Two accesses of the API and one of the worker, pools of two connections.
SPECIFICATION FairSpec
CONSTANTS
    a1 = a1
    a2 = a2
    a3 = a3
    api = api
    worker = worker
    Accesses = {a1, a2, a3}
    Processes = {api, worker}
    ProcessOf <- MCProcessOf
    PoolSize = 2
INVARIANTS RefusalHasCause
PROPERTIES ImplementsReadersWriters AccessesEnd
