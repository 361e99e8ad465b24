CONSTANTS
    u1 = u1
    t1 = t1
    t2 = t2
    v1 = v1
    o1 = o1
    s1 = s1
    q1 = q1
    Users = {u1}
    Votings = {v1}
    Tokens = {t1, t2}
    Owner <- MCOwner
    Options = {o1}
    SignArgs <- MCSignArgs
    VoteArgs <- MCVoteArgs
    SurveyedTokens = {}
    Config <- MCConfig
    Finalizable = {}
    Requests = {r1, r2}
    NoOne = NoOne
    MaxFaults = 0
    Respondents = {u1}
    Surveys = {s1}
    Questions = {q1}
    Question <- MCQuestion
    StaticOptions = {o1}
    QuestionOf <- MCQuestionOf
    SurveyTokens = {t1}
    TokenOwner <- MCTokenOwner
    SurveySigns <- MCSurveySigns
    SurveyAnswers <- MCSurveyAnswers
    VotedTokens = {}
    EndingSurveys = {s1}
    SealableSurveys = {}
    DeletableOptions = {}
    LateTokens = {t1}
    Submissions = {r1, r2}
    Nothing = Nothing
    MaxSurveyFaults = 1
    MaxLostCounters = 0
    Voters = {b1, b2}
    Abstainers = {b2}
    Readers = {r1}
    NoView = NoView
    MaxLiveFaults = 1
SPECIFICATION MCSpec
PROPERTIES
    SignedVoteIsStored
    EveryResponseBroadcast
    BallotIsServed
