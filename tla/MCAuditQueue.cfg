SPECIFICATION FairSpec
CONSTANTS
    j1 = j1
    j2 = j2
    j3 = j3
    Jobs = {j1, j2}
    Global = global
    voting = voting
    Scopes = {global, voting}
    Votings = {voting}
    ScopesOf <- MCScopesOf
    Workers = {w1}
    Verifiers = {}
    Attempts = 2
    MaxStalled = 1
    NoWorker = NoWorker
    NoJob = NoJob
    MaxFaults = 2
    MaxLosses = 1
INVARIANTS
    TypeOK
    OneBlockPerDelivery
PROPERTIES
    EveryJobSettles
