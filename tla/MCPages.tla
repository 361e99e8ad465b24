-------------------------------- MODULE MCPages --------------------------------
(* The pages of the front end.  Every behaviour belongs to one part: the    *)
(* pages of one voting ("voting") or of one survey ("survey"), or the page  *)
(* of an audit chain: one verification that meets two faults ("faults"), or *)
(* two that meet one, with polls that overtake each other, but no rescan     *)
(* ("polls").                                                               *)
EXTENDS VotingPage, SurveyPage, ChainExplorer, TLC

CONSTANTS u1, v1, s1, a1, a2, b1
VARIABLE part

ASSUME PollsAssumption == {v1, s1} \subseteq Votings
ASSUME TabsApartAssumption == VotingTabs \cap SurveyTabs = {}

MCVisitor == [b \in Tabs |-> u1]
MCPollOf == [b \in Tabs |-> IF b \in VotingTabs THEN v1 ELSE s1]
MCOwner == [t \in Tokens |-> u1]

pagesVars == <<boxVars, talkVars, votingPageVars, surveyPageVars>>

ChainParts == {"faults", "polls"}
Asked == {c \in Checks : doc[c] # NoReport} \cup {p.check : p \in posts}
PollsBound == IF part = "polls" THEN 2 ELSE 1
MCExplorerNext ==
    /\ ExplorerNext
    /\ Cardinality(polls') <= PollsBound
    /\ Cardinality(Asked') <= IF part = "polls" THEN 2 ELSE 1
    /\ part = "polls" =>
          /\ rescan' = NoVerdict
          /\ \A c \in Checks : trouble'[c] <= 1
          /\ \E c \in Checks : trouble'[c] = 0

-----------------------------------------------------------------------------

MCInit ==
    /\ part \in {"voting", "survey"} \cup ChainParts
    /\ TalkInit /\ VotingPageInit /\ SurveyPageInit /\ ExplorerInit

Backend ==
    /\ Serve \/ \E b \in Tabs, k \in LookKinds : ServeLook(b, k)
    /\ UNCHANGED <<votingPageVars, surveyPageVars>>

MCPollNext ==
    \/ part = "voting" /\ VotingPageNext /\ UNCHANGED surveyPageVars
    \/ part = "survey" /\ SurveyPageNext /\ UNCHANGED votingPageVars
    \/ Backend
    \/ /\ SealPoll(IF part = "voting" THEN v1 ELSE s1)
       /\ UNCHANGED <<votingPageVars, surveyPageVars>>

MCNext ==
    /\ UNCHANGED part
    /\ \/ part \in {"voting", "survey"} /\ MCPollNext /\ UNCHANGED explorerVars
       \/ part \in ChainParts /\ MCExplorerNext /\ UNCHANGED pagesVars

\* A page that waits is answered, or gives up after 30 s; and the fairness of
\* ExplorerSpec.
MCFairness ==
    /\ \A b \in VotingTabs : WF_pagesVars(part = "voting" /\ Converse(b) /\ UNCHANGED surveyPageVars)
    /\ \A b \in SurveyTabs : WF_pagesVars(part = "survey" /\ ConverseOnSurvey(b) /\ UNCHANGED votingPageVars)
    /\ WF_explorerVars(part \in ChainParts /\ Work)
    /\ \A c \in Checks : WF_explorerVars(part \in ChainParts /\ StallCheck(c))
    /\ WF_explorerVars(part \in ChainParts /\ Poll /\ Cardinality(polls') <= PollsBound)
    /\ WF_explorerVars(part \in ChainParts /\ ServePoll)
    /\ WF_explorerVars(part \in ChainParts /\ Heed)

MCSpec == MCInit /\ [][MCNext]_<<part, pagesVars, explorerVars>> /\ MCFairness

\* The types of all pages.
PagesTypeOK == TalkTypeOK /\ ExplorerTypeOK
=============================================================================
