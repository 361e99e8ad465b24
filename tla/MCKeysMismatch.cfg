CONSTANTS
    v1 = v1
    s1 = s1
    c1 = c1
    c2 = c2
    d1 = d1
    d2 = d2
    d3 = d3
    Entities = {v1}
    Keys = {k1, k2}
    Replicas = {n1, n2}
    Clients = {c1, d1, d2}
    Direct = {d1, d2}
    EntityOf <- MCEntityOf
    NoKey = NoKey
    NoReplica = NoReplica
    MaxRestarts = 0
SPECIFICATION Spec
CHECK_DEADLOCK FALSE
INVARIANTS
    SignaturesVerify
