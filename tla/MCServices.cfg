CONSTANTS
    ann = ann
    bob = bob
    t1 = t1
    t2 = t2
    t3 = t3
    t4 = t4
    s1 = s1
    q1 = q1
    q2 = q2
    o1 = o1
    g1 = g1
    v1 = v1
    Respondents = {ann, bob}
    Surveys = {s1}
    Questions = {q1, q2}
    Question <- MCQuestion
    StaticOptions = {o1}
    QuestionOf <- MCQuestionOf
    SurveyTokens = {t1, t2, t3, t4}
    TokenOwner <- MCTokenOwner
    SurveySigns <- MCSurveySigns
    SurveyAnswers <- MCSurveyAnswers
    VotedTokens = {t4}
    EndingSurveys = {}
    SealableSurveys = {s1}
    DeletableOptions = {o1}
    LateTokens = {}
    Submissions = {p1, p2}
    Nothing = Nothing
    MaxSurveyFaults = 1
    MaxLostCounters = 1
    Voters = {ann, bob}
    Abstainers = {bob}
    Readers = {r1, r2}
    Joiner = r1
    MaxFetches = 2
    MaxDrops = 1
    NoView = NoView
    MaxLiveFaults = 0
    Members = {ann, bob}
    Groups = {g1}
    Votings = {v1}
    GroupOf <- MCGroupOf
    AdminRequests <- MCAdminRequests
    Handlers = {p1, p2}
    Nobody = Nobody
    InClear = {ann}
    MaxAdminFaults = 1
    People = {ann}
    Links = {k1, k2}
    Visits = {p1, p2}
    NoPerson = NoPerson
    MaxAccountFaults = 1
    Persons = {ann, bob}
    Slots = {p1, p2}
    NoAccount = NoAccount
SYMMETRY MCSymmetry
SPECIFICATION MCSpec
INVARIANTS
    TypesOK
    OneAnswerPerRespondent
    CountsBackedByRows
    ResponsesWithinRoll
    SealedCoversConfirmed
    AllBallotsEmitted
    StaleSnapshotNeedsRace
    GapIsALapse
    MemberlessIsExplained
    FrozenUnlessOvertaken
    LinkWorksOnce
    RegisteredCanVerify
    SessionFollowsSignIn
    ActsAsShown
PROPERTIES
    NoNewOwner
CHECK_DEADLOCK FALSE
