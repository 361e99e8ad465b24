CONSTANTS
    u1 = u1
    v1 = v1
    s1 = s1
    a1 = a1
    a2 = a2
    b1 = b1
    Users = {u1}
    Votings = {v1, s1}
    Tokens = {t1, t2}
    Owner <- MCOwner
    Choices = {c1}
    Unsealed = Unsealed
    Tabs = {a1, a2, b1}
    Visitor <- MCVisitor
    PollOf <- MCPollOf
    NoToken = NoToken
    NoLook = NoLook
    Sent = Sent
    VotingTabs = {a1, a2}
    Unknown = Unknown
    SurveyTabs = {b1}
    NoSurvey = NoSurvey
    Checks = {c1, c2}
    Full = {c2}
    Attempts = 2
    MaxStalled = 1
    MaxPolls = 2
    MaxTrouble = 2
    NoCheck = NoCheck
    NoVerdict = NoVerdict
    Unread = Unread
SPECIFICATION MCSpec
INVARIANTS
    PagesTypeOK
    StoredAsMeant
    LostBallotIsExplained
    ForgottenNeedsTrouble
PROPERTIES
    SubmissionIsStored
    PageIsReleased
