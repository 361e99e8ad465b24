CONSTANTS
    v1 = v1
    s1 = s1
    c1 = c1
    c2 = c2
    d1 = d1
    d2 = d2
    d3 = d3
    Entities = {v1}
    Keys = {k1, k2}
    Replicas = {n1, n2}
    Clients = {c1, c2}
    Direct = {}
    EntityOf <- MCEntityOf
    NoKey = NoKey
    NoReplica = NoReplica
    MaxRestarts = 0
SPECIFICATION FairSpec
CHECK_DEADLOCK FALSE
PROPERTIES
    FirstVoterIsSigned
