CONSTANTS
    v1 = v1
    s1 = s1
    c1 = c1
    c2 = c2
    d1 = d1
    d2 = d2
    d3 = d3
    Entities = {v1, s1}
    Keys = {k1, k2, k3}
    Replicas = {n1, n2}
    Clients = {c1, d1, d2, d3}
    Direct = {d1, d2, d3}
    EntityOf <- MCEntityOf
    NoKey = NoKey
    NoReplica = NoReplica
    MaxRestarts = 1
SPECIFICATION Spec
SYMMETRY MCSymmetry
CHECK_DEADLOCK FALSE
INVARIANTS
    ModulusIsTheRow
    MismatchNeedsRace
