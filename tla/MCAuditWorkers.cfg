SPECIFICATION Spec
CONSTANTS
    j1 = j1
    j2 = j2
    j3 = j3
    Jobs = {j1, j2}
    Global = global
    voting = voting
    Scopes = {global, voting}
    Votings = {voting}
    ScopesOf <- MCScopesOf
    Workers = {w1, w2}
    Verifiers = {}
    Attempts = 3
    MaxStalled = 1
    NoWorker = NoWorker
    NoJob = NoJob
    MaxFaults = 0
    MaxLosses = 0
INVARIANTS
    SequentialChainWrites
CHECK_DEADLOCK FALSE
