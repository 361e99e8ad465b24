------------------------------ MODULE SurveyPage ------------------------------
(***************************************************************************)
(* The page of one survey (app/(dashboard)/surveys/[id]/page.tsx with      *)
(* useSurveys.ts).  It leads the conversation of BallotTalk; besides the   *)
(* survey it reads the visitor's status, and keeps the answer of that      *)
(* above the survey's.                                                     *)
(***************************************************************************)
EXTENDS BallotTalk

CONSTANTS
    SurveyTabs,   \* the pages of surveys
    NoSurvey      \* currentSurvey, or myStatus, before the first answer

VARIABLES
    survey,       \* currentSurvey: its hasParticipated, its being closed
    myStatus      \* the answer of my-status, or what a submission set

surveyPageVars == <<survey, myStatus>>

ASSUME SurveyTabsAssumption == SurveyTabs \subseteq Tabs

-----------------------------------------------------------------------------
(* What is on the screen.                                                  *)

Loaded(b) == survey[b] # NoSurvey

\* submitStep: "done" once a submission, also a practice one, went well.
StepDone(b) == ended[b].token # NoToken /\ talk[b].stage = "rest"

\* hasParticipated: myStatus, where there is one, outranks the survey.
HasParticipated(b) == IF myStatus[b] # NoSurvey THEN myStatus[b].voted ELSE survey[b].voted

CanVote(b) == ~survey[b].final /\ ~HasParticipated(b)
FormShown(b) == Loaded(b) /\ CanVote(b) /\ ~StepDone(b)

-----------------------------------------------------------------------------

OpenSurvey(b) ==
    /\ OpenTab(b, LookKinds)
    /\ survey' = [survey EXCEPT ![b] = NoSurvey]
    /\ myStatus' = [myStatus EXCEPT ![b] = NoSurvey]

\* handleSubmit and handleAbstain, which both send isPractice = false, and
\* handlePracticeSubmit.  None of them asks the practice switch of the page,
\* which only changes a banner and is left out.
SubmitResponse(b) ==
    /\ FormShown(b) /\ Begin(b, FALSE)
    /\ UNCHANGED surveyPageVars
PracticeSubmit(b) ==
    /\ FormShown(b) /\ Begin(b, TRUE)
    /\ UNCHANGED surveyPageVars

\* fetchSurvey of the first effect or of handleSubmit; and the GET with which
\* submitSurvey and practiceSubmit end, after which the handler sets myStatus.
\* handleSubmit then fetches once more, the other two do not.
FetchSurveyEnds(b) ==
    LET told == looks[b].poll
        refreshed == talk[b].stage = "refresh"
    IN
    /\ told # NoLook
    /\ \/ told \in Told /\ survey' = [survey EXCEPT ![b] = told]
       \/ UNCHANGED survey
    /\ myStatus' = IF refreshed THEN [myStatus EXCEPT ![b] = [voted |-> TRUE, final |-> FALSE]]
                   ELSE myStatus
    /\ talk' = IF refreshed THEN [talk EXCEPT ![b] = Quiet] ELSE talk
    /\ \E again \in {NoLook, IF refreshed /\ ~talk[b].practice THEN Sent ELSE NoLook} :
          looks' = [looks EXCEPT ![b].poll = again]
    /\ UNCHANGED <<boxVars, ended, drawn, calls, answers, drills, meant, hitches>>

\* getMyStatus of the first effect, whenever it comes.
MyStatusAnswered(b) ==
    /\ looks[b].status # NoLook
    /\ \/ looks[b].status \in Told /\ myStatus' = [myStatus EXCEPT ![b] = looks[b].status]
       \/ UNCHANGED myStatus
    /\ looks' = [looks EXCEPT ![b].status = NoLook]
    /\ UNCHANGED <<boxVars, talk, ended, drawn, calls, answers, drills, meant, hitches, survey>>

ConverseOnSurvey(b) ==
    /\ SignAnswered(b) \/ BallotTaken(b) \/ BallotRefused(b) \/ GiveUp(b)
    /\ UNCHANGED surveyPageVars

SurveyPageInit ==
    /\ survey = [b \in SurveyTabs |-> NoSurvey]
    /\ myStatus = [b \in SurveyTabs |-> NoSurvey]

SurveyPageNext ==
    \E b \in SurveyTabs :
        \/ OpenSurvey(b) \/ SubmitResponse(b) \/ PracticeSubmit(b)
        \/ FetchSurveyEnds(b) \/ MyStatusAnswered(b) \/ ConverseOnSurvey(b)
=============================================================================
