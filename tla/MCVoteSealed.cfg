CONSTANTS
    u1 = u1
    u2 = u2
    t1 = t1
    t2 = t2
    t3 = t3
    t4 = t4
    v1 = v1
    v2 = v2
    v3 = v3
    o1 = o1
    o2 = o2
    Users = {u1, u2}
    Votings = {v1, v2, v3}
    Tokens = {t1, t2, t3, t4}
    Owner <- MCOwner
    Options = {o1, o2}
    SignArgs <- MCSignArgs
    VoteArgs <- MCVoteArgs
    SurveyedTokens = {t4}
    Config <- MCConfig
    Finalizable = {v2, v3}
    Requests = {r1, r2}
    NoOne = NoOne
    MaxFaults = 1
SPECIFICATION MCSpec
SYMMETRY MCSymmetry
PROPERTIES
    NoBallotAfterSeal
