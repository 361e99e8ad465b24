SPECIFICATION Spec
CONSTANTS
    j1 = j1
    j2 = j2
    j3 = j3
    Jobs = {j1, j2}
    Global = global
    voting = voting
    Scopes = {global, voting}
    Votings = {voting}
    ScopesOf <- MCScopesOf
    Workers = {w1}
    Verifiers = {v1}
    Attempts = 3
    MaxStalled = 1
    NoWorker = NoWorker
    NoJob = NoJob
    MaxFaults = 1
    MaxLosses = 1
SYMMETRY Interchangeable
INVARIANTS
    ChainLinked
    MarkerVouches
    NoFalseAlarm
PROPERTIES
    SecureMeansVerified
