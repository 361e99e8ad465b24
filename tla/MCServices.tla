----------------------------- MODULE MCServices -----------------------------
(* Small instances of the services that share no state: every behaviour    *)
(* belongs to one part, the others stay in their initial states.  The      *)
(* survey service has five parts, by what the requests of each may do, and *)
(* the results of a voting three.                                          *)
EXTENDS SubmitService, ResultsPage, Administration, Accounts, Session, TLC

CONSTANTS ann, bob, t1, t2, t3, t4, s1, q1, q2, o1, g1, v1
VARIABLE part

(* Surveys: a respondent with two tokens ("alone"), one whose votings use  *)
(* the table of pending ballots as well ("mixed"), two respondents and the *)
(* finalization ("seal"), an evicted counter before it ("evict"), free     *)
(* texts and a deleted option ("texts").                                   *)

\* The clients are those of frontend/.
ASSUME ServicesClients == SurveyFreshTokens

MCQuestion == q1 :> [survey |-> s1, freeform |-> FALSE, multiple |-> FALSE,
                     required |-> TRUE, min |-> 1, max |-> 1]
           @@ q2 :> [survey |-> s1, freeform |-> TRUE, multiple |-> FALSE,
                     required |-> FALSE, min |-> 1, max |-> 1]
MCQuestionOf == o1 :> q1
MCTokenOwner == t1 :> ann @@ t2 :> ann @@ t3 :> bob @@ t4 :> ann
MCSign(t, practice) == [survey |-> s1, token |-> t, blinded |-> t, practice |-> practice]
MCAnswer(t, options, texts, practice) ==
    [survey |-> s1, token |-> t, options |-> options, texts |-> texts,
     abstain |-> options \cup texts = {}, practice |-> practice]

SurveyParts == {"alone", "mixed", "seal", "evict", "texts"}
MCRequests == [
    alone |-> {MCSign(t1, FALSE), MCSign(t1, TRUE), MCSign(t2, FALSE),
               MCAnswer(t1, {o1}, {}, FALSE), MCAnswer(t1, {}, {}, FALSE),
               MCAnswer(t2, {o1}, {}, FALSE)},
    mixed |-> {MCSign(t1, FALSE), MCAnswer(t1, {o1}, {}, FALSE), MCAnswer(t4, {o1}, {}, FALSE)},
    seal  |-> {MCSign(t1, FALSE), MCSign(t3, FALSE), MCAnswer(t1, {}, {}, FALSE),
               MCAnswer(t3, {o1}, {}, FALSE), [survey |-> s1]},
    evict |-> {MCSign(t1, FALSE), MCAnswer(t1, {}, {}, FALSE), MCAnswer(t1, {o1}, {}, FALSE),
               [survey |-> s1]},
    texts |-> {MCSign(t1, FALSE), MCSign(t3, FALSE), MCAnswer(t1, {}, {q1}, FALSE),
               MCAnswer(t3, {o1}, {q2}, TRUE)}]
MCFaults == [alone |-> 1, mixed |-> 0, seal |-> 0, evict |-> 0, texts |-> 0]
MCEvicted == [alone |-> 0, mixed |-> 0, seal |-> 0, evict |-> 1, texts |-> 0]

MCSurveySigns == {a \in UNION {MCRequests[x] : x \in SurveyParts} :
                      "blinded" \in DOMAIN a}
MCSurveyAnswers == {a \in UNION {MCRequests[x] : x \in SurveyParts} : "texts" \in DOMAIN a}

MCSurveyNext ==
    /\ SurveyNext
    /\ \A p \in Submissions : surveyArg'[p] \in MCRequests[part] \cup {NoSurveyArg}
    /\ surveyFaults' <= MCFaults[part] /\ lostCounters' <= MCEvicted[part]
    /\ part # "mixed" => UNCHANGED [t \in VotedTokens |-> surveyPending[t]]
    /\ part # "texts" => surveyOptions \subseteq surveyOptions'

(* Groups: one group with one voting, two members.                         *)
MCGroupOf == v1 :> g1
MCGroupRequest(op, by, users, to) ==
    [op |-> op, by |-> by, group |-> g1, who |-> users, to |-> to]
MCAdminRequests ==
    {MCGroupRequest("create", ann, {ann}, "none"), MCGroupRequest("addUsers", ann, {bob}, "none"),
     MCGroupRequest("addUsers", bob, {ann}, "none"),
     MCGroupRequest("removeUsers", bob, {ann}, "none"),
     MCGroupRequest("removeUsers", bob, {ann, bob}, "none"),
     MCGroupRequest("changeUserRole", ann, {bob}, "ADMIN"),
     MCGroupRequest("changeUserRole", bob, {bob}, "OWNER"),
     MCGroupRequest("delete", ann, {}, "none")}
    \cup {[op |-> op, by |-> ann, voting |-> v1] : op \in VotingOps}

(* Results: an open page and two votes ("watched"), or one vote and another *)
(* visitor who reads ("crowded"), or one vote while the connection may be   *)
(* lost and the voting ends ("closing").                                   *)
PageParts == {"watched", "crowded", "closing"}
Alone == \A r \in Readers \ {Joiner} : livePc'[r] = "idle"
MCPageNext ==
    /\ ResultsPageNext
    /\ part # "closing" => ~closed' /\ ~due' /\ drops' = 0
    /\ part # "watched" => \A v \in Abstainers : livePc'[v] = "uncast"
    /\ part = "crowded" => fetches' < 2 /\ \A r \in Readers : live'[r].to = "asker"
    /\ part # "crowded" => Alone

-----------------------------------------------------------------------------

MCInit ==
    /\ part \in SurveyParts \cup PageParts \cup {"groups", "accounts", "session"}
    /\ SurveyInit /\ ResultsPageInit /\ AdminInit /\ AccountInit /\ SessionInit

MCNext ==
    /\ UNCHANGED part
    /\ \/ /\ part \in SurveyParts /\ MCSurveyNext
          /\ UNCHANGED <<resultsPageVars, adminVars, accountVars, sessionVars>>
       \/ /\ part \in PageParts /\ MCPageNext
          /\ UNCHANGED <<surveyVars, adminVars, accountVars, sessionVars>>
       \/ /\ part = "groups" /\ AdminNext
          /\ UNCHANGED <<surveyVars, resultsPageVars, accountVars, sessionVars>>
       \/ /\ part = "accounts" /\ AccountNext
          /\ UNCHANGED <<surveyVars, resultsPageVars, adminVars, sessionVars>>
       \/ /\ part = "session" /\ SessionNext
          /\ UNCHANGED <<surveyVars, resultsPageVars, adminVars, accountVars>>

allVars == <<part, surveyVars, resultsPageVars, adminVars, accountVars, sessionVars>>

MCSpec == MCInit /\ [][MCNext]_allVars

\* The requests of every part are the same model values.
MCSymmetry == Permutations(Submissions)

\* The types of all services and of the results page.
TypesOK ==
    /\ SurveyTypeOK /\ LiveTypeOK /\ AdminTypeOK /\ AccountTypeOK /\ SessionTypeOK
    /\ ResultsPageTypeOK
=============================================================================
