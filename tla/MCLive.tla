-------------------------------- MODULE MCLive --------------------------------
(* Liveness of a voting, of a survey and of the results of a voting, which *)
(* share no state: every behaviour belongs to one part, the others stay in *)
(* their initial states.  The results have two instances: two votes and an *)
(* asker ("asked"), and one vote that meets a failure, the end of the      *)
(* voting and an answer sent to the room ("closing").                      *)
EXTENDS VoteService, SubmitService, LiveResults, TLC

CONSTANTS u1, t1, t2, v1, o1, s1, q1
VARIABLE part

\* The clients are those of frontend/.
ASSUME LiveClients == FreshTokens /\ SurveyFreshTokens

\* A voter has a token for the ballot and one for a practice run.
MCOwner == t1 :> u1 @@ t2 :> u1
MCConfig == v1 :> [single |-> TRUE, minChoices |-> 1, maxChoices |-> 1,
                   allowOther |-> TRUE, hasEnd |-> TRUE]
MCSign(t, practice) == [voting |-> v1, token |-> t, blinded |-> t, practice |-> practice]
MCVote(t, selection, practice) ==
    [voting |-> v1, token |-> t, selection |-> selection, abstain |-> selection = {},
     practice |-> practice]
MCSignArgs == {MCSign(t1, FALSE), MCSign(t2, TRUE)}
MCVoteArgs == {MCVote(t1, {o1}, FALSE), MCVote(t2, {}, TRUE)}

MCTokenOwner == t1 :> u1
MCQuestion == q1 :> [survey |-> s1, freeform |-> FALSE, multiple |-> FALSE,
                     required |-> TRUE, min |-> 1, max |-> 1]
MCQuestionOf == o1 :> q1
MCSurveySigns == {[survey |-> s1, token |-> t1, blinded |-> t1, practice |-> FALSE]}
MCSurveyAnswers == {[survey |-> s1, token |-> t1, options |-> {}, texts |-> {},
                     abstain |-> TRUE, practice |-> FALSE]}

LiveParts == {"asked", "closing"}
MCLiveNext ==
    /\ LiveNext
    /\ part = "asked" =>
          ~closed' /\ liveFaults' = 0 /\ \A r \in Readers : live'[r].to = "asker"
    /\ part = "closing" => \A v \in Abstainers : livePc'[v] = "uncast"

-----------------------------------------------------------------------------

MCInit ==
    /\ part \in {"voting", "survey"} \cup LiveParts
    /\ Init /\ SurveyInit /\ LiveInit

MCNext ==
    /\ UNCHANGED part
    /\ \/ part = "voting" /\ Next /\ UNCHANGED <<surveyVars, liveVars>>
       \/ part = "survey" /\ SurveyNext /\ UNCHANGED <<vars, liveVars>>
       \/ part \in LiveParts /\ MCLiveNext /\ UNCHANGED <<vars, surveyVars>>

\* Fairness, SurveyFairness and LiveFairness, each in the parts it is about: a
\* part owes nothing to actions that are enabled in the initial state of others.
MCFairness ==
    /\ \A p \in Requests : WF_vars(part = "voting" /\ VoteStep(p))
    /\ \A p \in Submissions : WF_surveyVars(part = "survey" /\ SubmitStep(p))
    /\ \A s \in Surveys : WF_surveyVars(part = "survey" /\ WorkerStep(s))
    /\ \A r \in Readers : /\ WF_liveVars(part \in LiveParts /\ Read(r))
                          /\ WF_liveVars(part \in LiveParts /\ AskResults(r, "asker"))
    /\ WF_liveVars(part \in LiveParts /\ IntervalPasses)

MCSpec ==
    MCInit /\ [][MCNext]_<<part, vars, surveyVars, liveVars>> /\ MCFairness
=============================================================================
