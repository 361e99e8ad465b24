---------------------------- MODULE SubmitService ----------------------------
(***************************************************************************)
(* The survey back end: issuing a blind signature, storing an anonymous    *)
(* answer, counting it in Redis, broadcasting the live results and sealing *)
(* them (backend/src/surveys/submit.service.ts with its repository, the    *)
(* Redis counters, the broadcast queue and the columns of schema.prisma).  *)
(*                                                                         *)
(* The protocol is the one of VoteService, with three differences that     *)
(* decide what can go wrong: no lock keeps two submissions of a respondent *)
(* apart, an abstention stores no row, and what is shown and sealed comes  *)
(* from Redis counters that are incremented after the commit.              *)
(*                                                                         *)
(* Data: a token stands for its hash and its signature, a text for itself: *)
(* there is one free text per question.  The counters are numbers.  The    *)
(* surveys are published; of their editing only deleteOption is here.  As  *)
(* in VoteService the token a sign request names and the one it blinds are *)
(* two fields, and the rows votings keep in the table of pending ballots   *)
(* come and go; what needs the client of frontend/ is told apart by the    *)
(* hypothesis SurveyFreshTokens.                                           *)
(***************************************************************************)
EXTENDS Naturals, FiniteSets

CONSTANTS
    Respondents,     \* users who answer
    Surveys,         \* surveys
    Questions,       \* ids of questions
    Question,        \* [Questions -> QuestionRow]: what the guards read of one
    StaticOptions,   \* ids of the options a survey was created with
    QuestionOf,      \* [StaticOptions -> Questions]
    SurveyTokens,    \* the secrets T the clients draw
    TokenOwner,      \* [SurveyTokens -> Respondents]: whose client drew it
    SurveySigns,     \* bound: the sign requests sent, a subset of SignRequest
    SurveyAnswers,   \* bound: the submissions sent, a subset of Answer
    VotedTokens,     \* the tokens that are sent to a voting's sign endpoint
    EndingSurveys,   \* the surveys that have an endAt
    SealableSurveys, \* bound: the surveys somebody asks to finalize
    DeletableOptions,\* bound: the options somebody deletes
    LateTokens,      \* bound: the tokens whose pending row expires in use
    Submissions,     \* HTTP requests in flight at once, over all replicas
    Nothing,         \* the null of a row or an argument
    MaxSurveyFaults, \* bound: crashes, failed queries and failed jobs
    MaxLostCounters  \* bound: counters Redis evicts

VARIABLES
    surveyPc, surveyArg, answering, sealing,         \* the requests
    survey, surveyRoll, surveyPending,
    answers, surveyOptions, sealedSurvey,            \* Postgres
    responses, abstained, tally,                     \* Redis
    broadcastJob, shown,                             \* BullMQ, the last emission
    told, missed, spent, reused, repeats,            \* history
    surveyFaults, lostCounters

submissionVars == <<surveyPc, surveyArg, answering, sealing>>
surveyRows == <<survey, surveyRoll, surveyPending, answers, surveyOptions, sealedSurvey>>
counterVars == <<responses, abstained, tally>>
broadcastVars == <<broadcastJob, shown, missed>>
historyVars == <<told, spent, reused, repeats>>
surveyVars == <<submissionVars, surveyRows, counterVars, broadcastVars, historyVars,
                surveyFaults, lostCounters>>

\* A dynamic option is named by the request and the question that created it.
DynamicIds == Submissions \X Questions
OptionIds == StaticOptions \cup DynamicIds
OfVoting == "voting"         \* the surveyId, null, of a voting's pending ballot
Deleted == "deleted"         \* optionId = null: the option was deleted
OtherOf(q) == <<"other", q>> \* OTHER_COUNT in the hash of question q
CounterKeys == OptionIds \cup {OtherOf(q) : q \in Questions}

QuestionRow == [survey : Surveys, freeform : BOOLEAN, multiple : BOOLEAN,
                required : BOOLEAN, min : Nat, max : Nat]
SurveyRow == [phase : {"open", "endAt", "ended"}, isFinalized : BOOLEAN]
SurveyPendingRow == [survey : Surveys \cup {OfVoting}, practice : BOOLEAN, expired : BOOLEAN]
RollRow == [user : Respondents, survey : Surveys, token : SurveyTokens]
AnswerRow == [question : Questions, option : OptionIds \cup {Deleted}, token : SurveyTokens]
SignRequest == [survey : Surveys, token : SurveyTokens, blinded : SurveyTokens,
                practice : BOOLEAN]
Answer == [survey : Surveys, token : SurveyTokens, options : SUBSET StaticOptions,
           texts : SUBSET Questions, abstain : BOOLEAN, practice : BOOLEAN]
SealRequest == [survey : Surveys]
Answering == [practice : BOOLEAN, texts : SUBSET Questions, at : Questions \cup {Nothing},
              chosen : SUBSET DynamicIds]
Counts == [CounterKeys -> Nat]
Sealing == [total : Nat, counts : Counts, owed : SUBSET SurveyTokens]
Told == [kind : {"signed", "answered"}, survey : Surveys, token : SurveyTokens,
         practice : BOOLEAN]

SurveySignPCs == {"sSignCheck", "sSignPending", "sSignParticipate", "sSignReply"}
SubmitPCs == {"subPending", "subFind", "subCreate", "subCommit", "subCount",
              "subTally", "subNotify"}
SealPCs == {"sealHashes", "sealTotal", "sealRows", "sealCommit"}
SurveyPCs == {"idle"} \cup SurveySignPCs \cup SubmitPCs \cup SealPCs

ASSUME SurveyTokensAssumption == TokenOwner \in [SurveyTokens -> Respondents]
ASSUME QuestionsAssumption ==
    /\ Question \in [Questions -> QuestionRow]
    /\ QuestionOf \in [StaticOptions -> Questions]
    /\ StaticOptions \cap DynamicIds = {}
\* The ids of options are UUIDs: neither null nor OTHER_COUNT.
ASSUME CounterKeysAssumption ==
    Deleted \notin OptionIds /\ \A q \in Questions : OtherOf(q) \notin OptionIds
ASSUME SurveyRequestsAssumption ==
    /\ \A a \in SurveySigns : a \in SignRequest
    /\ \A a \in SurveyAnswers : a \in Answer
    /\ SealableSurveys \subseteq Surveys /\ EndingSurveys \subseteq Surveys
    /\ DeletableOptions \subseteq StaticOptions
    /\ LateTokens \subseteq SurveyTokens /\ VotedTokens \subseteq SurveyTokens
ASSUME SurveyNullAssumption ==
    Nothing \notin Surveys \cup Questions /\ OfVoting \notin Surveys /\ OfVoting # Nothing
ASSUME SurveyFaultsAssumption == MaxSurveyFaults \in Nat /\ MaxLostCounters \in Nat

NoSurveyArg == [survey |-> Nothing]
NoPendingRow == [survey |-> Nothing]
NoResult == [total |-> Nothing]
NoCounts == [k \in CounterKeys |-> 0]
NotAnswering == [practice |-> FALSE, texts |-> {}, at |-> Nothing, chosen |-> {}]
NotSealing == [total |-> 0, counts |-> NoCounts, owed |-> {}]

\* The client of frontend/ draws a token for each request (useSurveys.ts,
\* blindSign.ts: prepareBlind), blinds that one and uses it nowhere else.
SurveyFreshTokens ==
    \A a, b \in SurveySigns :
        /\ a.blinded = a.token /\ a.token \notin VotedTokens
        /\ a.token = b.token => a.survey = b.survey

-----------------------------------------------------------------------------
(* What the handlers read and compute.                                     *)

RespondentOf(p) == TokenOwner[surveyArg[p].token]
IsSurveyPending(t) == surveyPending[t] # NoPendingRow

\* The surveys whose signature of t a reply carried to the client, to
\* whichever sign request brought a blinding of t.
SignedFor(t) == {r.survey : r \in {x \in told : x.kind = "signed" /\ x.token = t}}
HoldsSignature(s, t) == s \in SignedFor(t)

\* The guards of submitResponse on the survey: now > endAt closes it, but not
\* to a practice run.
SurveyAdmits(s, practice) ==
    ~survey[s].isFinalized /\ (practice \/ survey[s].phase # "ended")

QuestionsOf(s) == {q \in Questions : Question[q].survey = s}
Ticked(a, q) == {o \in a.options : QuestionOf[o] = q}

\* Required questions and choice limits, not looked at in an abstention.
AnswerValid(a) ==
    a.abstain \/ \A q \in QuestionsOf(a.survey) :
        LET answered == Ticked(a, q) # {} \/ q \in a.texts IN
        /\ Question[q].required => answered
        /\ answered /\ Question[q].multiple =>
              Cardinality(Ticked(a, q)) \in Question[q].min .. Question[q].max

\* Answers to questions of another survey are skipped.
OwnTexts(a) == a.texts \cap QuestionsOf(a.survey)
OwnOptions(a) == {o \in a.options : Question[QuestionOf[o]].survey = a.survey}

QuestionOfOption(o) == IF o \in StaticOptions THEN QuestionOf[o] ELSE o[2]

\* The row of each choice: all carry the one signature.
AnswerRows(p) ==
    IF surveyArg[p].abstain THEN {}
    ELSE {[question |-> QuestionOfOption(o), option |-> o, token |-> surveyArg[p].token] :
              o \in OwnOptions(surveyArg[p]) \cup answering[p].chosen}

\* Where Redis counts a row: an option by its id, the text of a choice
\* question under OTHER_COUNT.
KeyOf(o) ==
    IF o \in DynamicIds /\ ~Question[o[2]].freeform THEN OtherOf(o[2]) ELSE o

\* A signature T^d belongs to a token and the key of a survey.
SignatureOf(r) == <<Question[r.question].survey, r.token>>

\* Unique index on the signature, over the rows of one insert as well.  The
\* mutant leaves reuse to the pending row.
MutAnswerSignatureUnique(rows) == \A r1, r2 \in rows : r1 = r2
AnswerSignatureUnique(rows) ==
    /\ \A r \in rows, b \in answers : SignatureOf(r) # SignatureOf(b)
    /\ \A r1, r2 \in rows : SignatureOf(r1) = SignatureOf(r2) => r1 = r2

AnswersTo(s) == {b \in answers : Question[b.question].survey = s}
RowsUnder(k) == {b \in answers : b.option # Deleted /\ k \in {b.option, KeyOf(b.option)}}

-----------------------------------------------------------------------------
(* Steps a request takes.                                                  *)

SurveyGoto(p, label) == surveyPc' = [surveyPc EXCEPT ![p] = label]

SurveyStart(p, label, a) ==
    /\ surveyPc[p] = "idle"
    /\ SurveyGoto(p, label)
    /\ surveyArg' = [surveyArg EXCEPT ![p] = a]

SurveyEnd(p) ==
    /\ SurveyGoto(p, "idle")
    /\ surveyArg' = [surveyArg EXCEPT ![p] = NoSurveyArg]
    /\ answering' = [answering EXCEPT ![p] = NotAnswering]
    /\ sealing' = [sealing EXCEPT ![p] = NotSealing]

SurveyOn(p, label) == SurveyGoto(p, label) /\ UNCHANGED <<surveyArg, answering, sealing>>

\* The response reaches the client.  A signature is of what was blinded.
TellSurvey(p, kind, t, practice) ==
    told' = told \cup {[kind |-> kind, survey |-> surveyArg[p].survey,
                        token |-> t, practice |-> practice]}

SurveyFault == surveyFaults < MaxSurveyFaults /\ surveyFaults' = surveyFaults + 1
NoSurveyFault == UNCHANGED <<surveyFaults, lostCounters>>

-----------------------------------------------------------------------------
(* signBlindedToken                                                        *)

SurveySignBegin(p) ==
    /\ \E a \in SurveySigns : SurveyStart(p, "sSignCheck", a)
    /\ UNCHANGED <<answering, sealing, surveyRows, counterVars, broadcastVars, historyVars>>
    /\ NoSurveyFault

OnRoll(u, s) == \E r \in surveyRoll : r.user = u /\ r.survey = s

\* Unique index on (userId, surveyId).
RollUnique(u, s) == ~OnRoll(u, s)

\* checkParticipation, skipped in practice mode.
SurveySignCheck(p) ==
    /\ surveyPc[p] = "sSignCheck"
    /\ IF surveyArg[p].practice \/ ~OnRoll(RespondentOf(p), surveyArg[p].survey)
       THEN SurveyOn(p, "sSignPending")
       ELSE SurveyEnd(p)
    /\ UNCHANGED <<surveyRows, counterVars, broadcastVars, historyVars>>
    /\ NoSurveyFault

\* createPendingBallot: tokenHash is unique, a second row throws.
SurveySignPending(p) ==
    /\ surveyPc[p] = "sSignPending"
    /\ LET t == surveyArg[p].token IN
       \/ /\ ~IsSurveyPending(t)
          /\ surveyPending' = [surveyPending EXCEPT ![t] =
                [survey |-> surveyArg[p].survey, practice |-> surveyArg[p].practice,
                 expired |-> FALSE]]
          /\ SurveyOn(p, IF surveyArg[p].practice THEN "sSignReply" ELSE "sSignParticipate")
       \/ /\ IsSurveyPending(t)
          /\ SurveyEnd(p)
          /\ UNCHANGED surveyPending
    /\ UNCHANGED <<survey, surveyRoll, answers, surveyOptions, sealedSurvey,
                   counterVars, broadcastVars, historyVars>>
    /\ NoSurveyFault

\* createParticipation: the loser of a race throws, its pending row stays.  The
\* token of a row of the roll is history: the signature it paid for.
SurveySignParticipate(p) ==
    /\ surveyPc[p] = "sSignParticipate"
    /\ LET u == RespondentOf(p)
           s == surveyArg[p].survey
       IN
       \/ /\ RollUnique(u, s)
          /\ surveyRoll' = surveyRoll \cup {[user |-> u, survey |-> s,
                                             token |-> surveyArg[p].blinded]}
          /\ SurveyOn(p, "sSignReply")
       \/ /\ ~RollUnique(u, s)
          /\ SurveyEnd(p)
          /\ UNCHANGED surveyRoll
    /\ UNCHANGED <<survey, surveyPending, answers, surveyOptions, sealedSurvey,
                   counterVars, broadcastVars, historyVars>>
    /\ NoSurveyFault

\* The mail and the audit job cannot fail the request; the reply may be lost.
SurveySignReply(p) ==
    /\ surveyPc[p] = "sSignReply"
    /\ \/ /\ TellSurvey(p, "signed", surveyArg[p].blinded, surveyArg[p].practice)
          /\ UNCHANGED surveyFaults
       \/ UNCHANGED told /\ SurveyFault
    /\ SurveyEnd(p)
    /\ UNCHANGED <<surveyRows, counterVars, broadcastVars, spent, reused, repeats,
                   lostCounters>>

-----------------------------------------------------------------------------
(* submitResponse                                                          *)

\* The guards on the survey; a request they refuse changes nothing.
SubmitBegin(p) ==
    /\ \E a \in SurveyAnswers :
          /\ SurveyAdmits(a.survey, a.practice)
          /\ SurveyStart(p, "subPending", a)
    /\ UNCHANGED <<answering, sealing, surveyRows, counterVars, broadcastVars, historyVars>>
    /\ NoSurveyFault

\* A signature issued for practice counts for practice, whatever the
\* submission says.
SurveyPractice(p) == surveyArg[p].practice \/ surveyPending[surveyArg[p].token].practice

\* Once its texts have options, an answer is stored; a practice run is over.
AfterTexts(practice, texts) ==
    IF texts # {} THEN "subFind" ELSE IF practice THEN "subNotify" ELSE "subCommit"

\* findPendingBallot, verifyBlindSignature, then the checks on the answer.  A
\* voting's row, which has no surveyId, passes.  A practice run may come without
\* token and signature.
SubmitPending(p) ==
    /\ surveyPc[p] = "subPending"
    /\ LET a == surveyArg[p]
           signed == /\ IsSurveyPending(a.token)
                     /\ surveyPending[a.token].survey \in {a.survey, OfVoting}
                     /\ ~surveyPending[a.token].expired
                     /\ HoldsSignature(a.survey, a.token)
           admitted == /\ signed \/ a.practice
                       /\ AnswerValid(a)
                       /\ OwnOptions(a) \subseteq surveyOptions
       IN
       \/ /\ admitted
          /\ answering' = [answering EXCEPT ![p] =
                [practice |-> SurveyPractice(p), texts |-> OwnTexts(a),
                 at |-> Nothing, chosen |-> {}]]
          /\ SurveyGoto(p, AfterTexts(SurveyPractice(p), OwnTexts(a)))
          /\ UNCHANGED <<surveyArg, sealing>>
       \/ ~admitted /\ SurveyEnd(p)
    /\ UNCHANGED <<surveyRows, counterVars, broadcastVars, historyVars>>
    /\ NoSurveyFault

\* The option d answers for the text of question q.
Choose(p, q, d) ==
    LET rest == answering[p].texts \ {q} IN
    /\ answering' = [answering EXCEPT ![p].texts = rest, ![p].at = Nothing,
                                      ![p].chosen = @ \cup {d}]
    /\ SurveyGoto(p, AfterTexts(answering[p].practice, rest))
    /\ UNCHANGED <<surveyArg, sealing>>

\* getOrCreateDynamicOption, outside any transaction: findFirst ...
SubmitFind(p) ==
    /\ surveyPc[p] = "subFind"
    /\ \E q \in answering[p].texts :
          LET found == {d \in surveyOptions \cap DynamicIds : d[2] = q} IN
          \/ \E d \in found : Choose(p, q, d)
          \/ /\ found = {}
             /\ answering' = [answering EXCEPT ![p].at = q]
             /\ SurveyGoto(p, "subCreate")
             /\ UNCHANGED <<surveyArg, sealing>>
    /\ UNCHANGED <<surveyRows, counterVars, broadcastVars, historyVars>>
    /\ NoSurveyFault

\* The mutant takes the id of the question for the id of its new option.
MutCreated(p) == answering[p].at
Created(p) == <<p, answering[p].at>>

\* ... then create.  A practice run and a submission that fails later leave
\* the option behind.
SubmitCreate(p) ==
    /\ surveyPc[p] = "subCreate"
    /\ surveyOptions' = surveyOptions \cup {Created(p)}
    /\ Choose(p, answering[p].at, Created(p))
    /\ UNCHANGED <<survey, surveyRoll, surveyPending, answers, sealedSurvey,
                   counterVars, broadcastVars, historyVars>>
    /\ NoSurveyFault

\* A token is stored again in a survey and the index does not see it: one of the
\* two is an abstention.
IsRepeat(p) ==
    LET t == surveyArg[p].token IN
    /\ t \in spent
    /\ AnswerRows(p) = {} \/ \A b \in AnswersTo(surveyArg[p].survey) : b.token # t

\* The transaction: the rows (none for an abstention), then deletePendingBallot,
\* which does not mind a row that is gone.  It fails on a signature that is
\* used and on an option that has been deleted.  In the mutant the error is
\* logged and the handler goes on.
MutRefuseAnswer(p) == SurveyOn(p, "subCount")
RefuseAnswer(p) == SurveyEnd(p)
SubmitCommit(p) ==
    /\ surveyPc[p] = "subCommit"
    /\ LET rows == AnswerRows(p)
           t == surveyArg[p].token
           s == surveyArg[p].survey
           storable == /\ AnswerSignatureUnique(rows)
                       /\ \A r \in rows : r.option \in surveyOptions
       IN
       \/ /\ storable
          /\ answers' = answers \cup rows
          /\ surveyPending' = [surveyPending EXCEPT ![t] = NoPendingRow]
          /\ spent' = spent \cup {t}
          /\ reused' = IF IsRepeat(p) THEN reused \cup {t} ELSE reused
          /\ repeats' = IF IsRepeat(p) THEN [repeats EXCEPT ![s] = @ + 1] ELSE repeats
          /\ SurveyOn(p, "subCount")
       \/ /\ ~storable
          /\ RefuseAnswer(p)
          /\ UNCHANGED <<answers, surveyPending, spent, reused, repeats>>
    /\ UNCHANGED <<survey, surveyRoll, surveyOptions, sealedSurvey,
                   counterVars, broadcastVars, told>>
    /\ NoSurveyFault

\* performSurveySubmission, a pipeline and not a transaction: INCR ...
SubmitCount(p) ==
    /\ surveyPc[p] = "subCount"
    /\ responses' = [responses EXCEPT ![surveyArg[p].survey] = @ + 1]
    /\ SurveyOn(p, "subTally")
    /\ UNCHANGED <<surveyRows, abstained, tally, broadcastVars, historyVars>>
    /\ NoSurveyFault

\* ... then HINCRBY of the abstentions, or of each option chosen.
SubmitTally(p) ==
    /\ surveyPc[p] = "subTally"
    /\ LET keys == {KeyOf(r.option) : r \in AnswerRows(p)} IN
       /\ tally' = [k \in CounterKeys |-> IF k \in keys THEN tally[k] + 1 ELSE tally[k]]
       /\ abstained' = IF surveyArg[p].abstain
                       THEN [abstained EXCEPT ![surveyArg[p].survey] = @ + 1]
                       ELSE abstained
    /\ SurveyOn(p, "subNotify")
    /\ UNCHANGED <<surveyRows, responses, broadcastVars, historyVars>>
    /\ NoSurveyFault

\* broadcastSurveyResults: add() with an id BullMQ still knows is ignored.
\* A job that has already emitted will not emit this response.
AddBroadcast(s) ==
    /\ broadcastJob' = [broadcastJob EXCEPT ![s] = IF @ = "none" THEN "waiting" ELSE @]
    /\ missed' = [missed EXCEPT ![s] = @ \/ broadcastJob[s] = "emitted"]
    /\ UNCHANGED shown

\* Receipts, audit job and mail, then the broadcast, whose failure is logged,
\* and the response.
SubmitNotify(p) ==
    /\ surveyPc[p] = "subNotify"
    /\ IF answering[p].practice
       THEN UNCHANGED <<broadcastVars, told, surveyFaults>>
       ELSE /\ \/ AddBroadcast(surveyArg[p].survey) /\ UNCHANGED surveyFaults
               \/ UNCHANGED broadcastVars /\ SurveyFault
            /\ TellSurvey(p, "answered", surveyArg[p].token, FALSE)
    /\ SurveyEnd(p)
    /\ UNCHANGED <<surveyRows, counterVars, spent, reused, repeats, lostCounters>>

-----------------------------------------------------------------------------
(* The broadcast processor.                                                *)

BroadcastStep(s, from, to) ==
    /\ broadcastJob[s] = from
    /\ broadcastJob' = [broadcastJob EXCEPT ![s] = to]
    /\ UNCHANGED <<submissionVars, surveyRows, counterVars, historyVars, lostCounters>>

TakeBroadcast(s) ==
    /\ BroadcastStep(s, "waiting", "active")
    /\ UNCHANGED <<shown, missed, surveyFaults>>

\* getSurveyVoterCount, or the rows if the counter is nought.  The mutant
\* counts the rows.
MutLiveTotal(s) == Cardinality(AnswersTo(s))
LiveTotal(s) ==
    IF responses[s] = 0 THEN Cardinality(AnswersTo(s)) ELSE responses[s]

\* handleSurveyBroadcast: getResults, then the emission.
EmitBroadcast(s) ==
    /\ BroadcastStep(s, "active", "emitted")
    /\ shown' = [shown EXCEPT ![s] =
          IF sealedSurvey[s] # NoResult THEN sealedSurvey[s].total ELSE LiveTotal(s)]
    /\ missed' = [missed EXCEPT ![s] = FALSE]
    /\ UNCHANGED surveyFaults

\* removeOnComplete.
CompleteBroadcast(s) ==
    /\ BroadcastStep(s, "emitted", "none")
    /\ UNCHANGED <<shown, missed, surveyFaults>>

\* removeOnFail (one attempt), or a worker that dies and whose job is redelivered.
FailBroadcast(s) ==
    /\ BroadcastStep(s, "active", "none") \/ BroadcastStep(s, "active", "waiting")
    /\ SurveyFault
    /\ UNCHANGED <<shown, missed>>

-----------------------------------------------------------------------------
(* finalizeSurvey                                                          *)

AnsweredBy(s) == {r.token : r \in {x \in told : x.kind = "answered" /\ x.survey = s}}

\* The guards, with the audit gate, which may also refuse.  The model notes
\* whose answers had been confirmed by then.
SealBegin(p) ==
    /\ \E s \in SealableSurveys :
          /\ ~survey[s].isFinalized
          /\ s \in EndingSurveys => survey[s].phase \in {"endAt", "ended"}
          /\ SurveyStart(p, "sealHashes", [survey |-> s])
          /\ sealing' = [sealing EXCEPT ![p].owed = AnsweredBy(s)]
    /\ UNCHANGED <<answering, surveyRows, counterVars, broadcastVars, historyVars>>
    /\ NoSurveyFault

QuestionOfKey(k) ==
    IF k \in OptionIds THEN QuestionOfOption(k) ELSE k[2]
KeysOf(s) == {k \in CounterKeys : QuestionOfKey(k) \in QuestionsOf(s)}

\* What each handler read: a step of getResults.
SealRead(p, from, to, total, counts) ==
    /\ surveyPc[p] = from
    /\ SurveyGoto(p, to)
    /\ sealing' = [sealing EXCEPT ![p].total = total, ![p].counts = counts]
    /\ UNCHANGED <<surveyArg, answering, surveyRows, counterVars, broadcastVars, historyVars>>
    /\ NoSurveyFault

\* The hashes of the questions.
SealHashes(p) ==
    SealRead(p, "sealHashes", "sealTotal", 0,
             [k \in CounterKeys |-> IF k \in KeysOf(surveyArg[p].survey) THEN tally[k] ELSE 0])

\* The counter of the responses; nought means the rows are counted.
SealTotal(p) ==
    LET s == surveyArg[p].survey IN
    SealRead(p, "sealTotal", "sealRows", LiveTotal(s), sealing[p].counts)

IsCounted(k) == k \in OptionIds => k \in surveyOptions

\* The options there are now; a question whose hash was empty is counted from
\* the rows.
SealedCount(p, k) ==
    LET q == QuestionOfKey(k)
        empty == \A j \in CounterKeys : QuestionOfKey(j) = q => sealing[p].counts[j] = 0
    IN  IF ~IsCounted(k) \/ q \notin QuestionsOf(surveyArg[p].survey) THEN 0
        ELSE IF empty /\ sealing[p].total > 0 THEN Cardinality(RowsUnder(k))
        ELSE sealing[p].counts[k]

SealRows(p) ==
    SealRead(p, "sealRows", "sealCommit", sealing[p].total,
             [k \in CounterKeys |-> SealedCount(p, k)])

\* The transaction; the surveyId of a result is unique.
SealCommit(p) ==
    /\ surveyPc[p] = "sealCommit"
    /\ LET s == surveyArg[p].survey IN
       \/ /\ sealedSurvey[s] = NoResult
          /\ survey' = [survey EXCEPT ![s].isFinalized = TRUE]
          /\ sealedSurvey' = [sealedSurvey EXCEPT ![s] = sealing[p]]
       \/ /\ sealedSurvey[s] # NoResult
          /\ UNCHANGED <<survey, sealedSurvey>>
    /\ SurveyEnd(p)
    /\ UNCHANGED <<surveyRoll, surveyPending, answers, surveyOptions,
                   counterVars, broadcastVars, historyVars>>
    /\ NoSurveyFault

-----------------------------------------------------------------------------
(* The environment: time, deletions, and what fails.                       *)

\* endAt goes by.
SurveyTick(s) ==
    /\ s \in EndingSurveys
    /\ \E next \in {<<"open", "endAt">>, <<"endAt", "ended">>} :
          /\ survey[s].phase = next[1]
          /\ survey' = [survey EXCEPT ![s].phase = next[2]]
    /\ UNCHANGED <<submissionVars, surveyRoll, surveyPending, answers, surveyOptions,
                   sealedSurvey, counterVars, broadcastVars, historyVars>>
    /\ NoSurveyFault

\* expiresAt of a pending row goes by.
SurveyPendingExpires(t) ==
    /\ IsSurveyPending(t) /\ ~surveyPending[t].expired
    /\ surveyPending' = [surveyPending EXCEPT ![t].expired = TRUE]
    /\ UNCHANGED <<submissionVars, survey, surveyRoll, answers, surveyOptions,
                   sealedSurvey, counterVars, broadcastVars, historyVars>>
    /\ NoSurveyFault

\* A voting's sign request stores its pending ballot, a vote deletes the row of
\* its token.
VotingSignsToken(t) ==
    /\ ~IsSurveyPending(t)
    /\ \E practice \in BOOLEAN :
          surveyPending' = [surveyPending EXCEPT ![t] =
              [survey |-> OfVoting, practice |-> practice, expired |-> FALSE]]
    /\ UNCHANGED <<submissionVars, survey, surveyRoll, answers, surveyOptions,
                   sealedSurvey, counterVars, broadcastVars, historyVars>>
    /\ NoSurveyFault

VotingSpendsToken(t) ==
    /\ IsSurveyPending(t)
    /\ surveyPending' = [surveyPending EXCEPT ![t] = NoPendingRow]
    /\ UNCHANGED <<submissionVars, survey, surveyRoll, answers, surveyOptions,
                   sealedSurvey, counterVars, broadcastVars, historyVars>>
    /\ NoSurveyFault

PendingRowsChange ==
    \/ \E t \in LateTokens : SurveyPendingExpires(t)
    \/ \E t \in VotedTokens : VotingSignsToken(t) \/ VotingSpendsToken(t)

\* deleteOption looks neither at the survey nor for answers: the option goes,
\* and its answers stay with optionId null.
DeleteOption(o) ==
    /\ o \in surveyOptions
    /\ surveyOptions' = surveyOptions \ {o}
    /\ answers' = {IF b.option = o THEN [b EXCEPT !.option = Deleted] ELSE b : b \in answers}
    /\ UNCHANGED <<submissionVars, survey, surveyRoll, surveyPending, sealedSurvey,
                   counterVars, broadcastVars, historyVars>>
    /\ NoSurveyFault

\* Redis evicts a key (maxmemory-policy allkeys-lru): a counter or a hash.
EvictCounter ==
    /\ lostCounters < MaxLostCounters
    /\ lostCounters' = lostCounters + 1
    /\ \/ \E s \in Surveys :
             \/ /\ responses[s] > 0
                /\ responses' = [responses EXCEPT ![s] = 0]
                /\ UNCHANGED <<abstained, tally>>
             \/ /\ abstained[s] > 0
                /\ abstained' = [abstained EXCEPT ![s] = 0]
                /\ UNCHANGED <<responses, tally>>
       \/ \E q \in Questions :
             /\ \E k \in CounterKeys : QuestionOfKey(k) = q /\ tally[k] > 0
             /\ tally' = [k \in CounterKeys |-> IF QuestionOfKey(k) = q THEN 0 ELSE tally[k]]
             /\ UNCHANGED <<responses, abstained>>
    /\ UNCHANGED <<submissionVars, surveyRows, broadcastVars, historyVars, surveyFaults>>

\* A query fails or the replica dies, at any step: what is done stays done.
SubmissionFails(p) ==
    /\ surveyPc[p] # "idle"
    /\ SurveyFault
    /\ SurveyEnd(p)
    /\ UNCHANGED <<surveyRows, counterVars, broadcastVars, historyVars, lostCounters>>

-----------------------------------------------------------------------------

SurveyInit ==
    /\ surveyPc = [p \in Submissions |-> "idle"]
    /\ surveyArg = [p \in Submissions |-> NoSurveyArg]
    /\ answering = [p \in Submissions |-> NotAnswering]
    /\ sealing = [p \in Submissions |-> NotSealing]
    /\ survey = [s \in Surveys |-> [phase |-> "open", isFinalized |-> FALSE]]
    /\ surveyRoll = {}
    /\ surveyPending = [t \in SurveyTokens |-> NoPendingRow]
    /\ answers = {}
    /\ surveyOptions = StaticOptions
    /\ sealedSurvey = [s \in Surveys |-> NoResult]
    /\ responses = [s \in Surveys |-> 0]
    /\ abstained = [s \in Surveys |-> 0]
    /\ tally = NoCounts
    /\ broadcastJob = [s \in Surveys |-> "none"]
    /\ shown = [s \in Surveys |-> 0]
    /\ missed = [s \in Surveys |-> FALSE]
    /\ told = {}
    /\ spent = {}
    /\ reused = {}
    /\ repeats = [s \in Surveys |-> 0]
    /\ surveyFaults = 0
    /\ lostCounters = 0

SurveySignStep(p) ==
    \/ SurveySignCheck(p) \/ SurveySignPending(p)
    \/ SurveySignParticipate(p) \/ SurveySignReply(p)

SubmitStep(p) ==
    \/ SubmitPending(p) \/ SubmitFind(p) \/ SubmitCreate(p) \/ SubmitCommit(p)
    \/ SubmitCount(p) \/ SubmitTally(p) \/ SubmitNotify(p)

SealStep(p) == SealHashes(p) \/ SealTotal(p) \/ SealRows(p) \/ SealCommit(p)

WorkerStep(s) == TakeBroadcast(s) \/ EmitBroadcast(s) \/ CompleteBroadcast(s)

SurveyNext ==
    \/ \E p \in Submissions :
          \/ SurveySignBegin(p) \/ SubmitBegin(p) \/ SealBegin(p)
          \/ SurveySignStep(p) \/ SubmitStep(p) \/ SealStep(p) \/ SubmissionFails(p)
    \/ \E s \in Surveys : WorkerStep(s) \/ FailBroadcast(s) \/ SurveyTick(s)
    \/ PendingRowsChange
    \/ \E o \in DeletableOptions : DeleteOption(o)
    \/ EvictCounter

SurveySpec == SurveyInit /\ [][SurveyNext]_surveyVars

\* A replica runs its handlers on; the worker takes and finishes its jobs.
SurveyFairness ==
    /\ \A p \in Submissions : WF_surveyVars(SubmitStep(p))
    /\ \A s \in Surveys : WF_surveyVars(WorkerStep(s))

-----------------------------------------------------------------------------
(* Properties.                                                             *)

SubmissionsOK ==
    /\ surveyPc \in [Submissions -> SurveyPCs]
    /\ surveyArg \in [Submissions -> SignRequest \cup Answer \cup SealRequest \cup {NoSurveyArg}]
    /\ answering \in [Submissions -> Answering]
    /\ \A p \in Submissions :
          /\ surveyPc[p] \in SurveySignPCs => surveyArg[p] \in SurveySigns
          /\ surveyPc[p] \in SubmitPCs => surveyArg[p] \in Answer
          /\ surveyPc[p] \in SealPCs => surveyArg[p] \in SealRequest
          /\ surveyPc[p] = "subCreate" => answering[p].at \in Questions

SurveyRowsOK ==
    /\ survey \in [Surveys -> SurveyRow]
    /\ surveyRoll \subseteq RollRow
    /\ surveyPending \in [SurveyTokens -> SurveyPendingRow \cup {NoPendingRow}]
    /\ answers \subseteq AnswerRow
    /\ surveyOptions \subseteq OptionIds
    /\ told \subseteq Told /\ spent \subseteq SurveyTokens /\ reused \subseteq SurveyTokens
    /\ repeats \in [Surveys -> Nat]

SurveyCountsOK ==
    /\ sealing \in [Submissions -> Sealing]
    /\ sealedSurvey \in [Surveys -> Sealing \cup {NoResult}]
    /\ responses \in [Surveys -> Nat] /\ abstained \in [Surveys -> Nat] /\ tally \in Counts
    /\ broadcastJob \in [Surveys -> {"none", "waiting", "active", "emitted"}]
    /\ shown \in [Surveys -> Nat] /\ missed \in [Surveys -> BOOLEAN]
    /\ surveyFaults \in 0..MaxSurveyFaults /\ lostCounters \in 0..MaxLostCounters

\* Types, and the kind of argument each handler holds.
SurveyTypeOK == SubmissionsOK /\ SurveyRowsOK /\ SurveyCountsOK

SurveyOf(b) == Question[b.question].survey

\* With clients that draw a token for each request (SurveyFreshTokens) a
\* respondent has at most one answer in a survey, through racing sign requests,
\* racing submissions of one signature, practice signatures and the pending
\* ballots of votings.
OneAnswerPerRespondent ==
    \A b1, b2 \in answers :
        SurveyOf(b1) = SurveyOf(b2) /\ TokenOwner[b1.token] = TokenOwner[b2.token] => b1 = b2

\* What Redis counts for an option or for the Other texts of a question are
\* rows, whatever failed or was refused; rows may be missing from the counts.
CountsBackedByRows ==
    \A k \in CounterKeys : IsCounted(k) => tally[k] <= Cardinality(RowsUnder(k))

\* With such clients the counter of the responses exceeds the respondents on the
\* roll by no more than the times a signature was stored again with an
\* abstention on one of the two sides: submissions past the pending row at once,
\* which the index on the rows cannot tell apart.
ResponsesWithinRoll ==
    \A s \in Surveys :
        responses[s] <= Cardinality({r \in surveyRoll : r.survey = s}) + repeats[s]

\* A sealed survey counts only rows, and, unless Redis evicted a counter, every
\* answer and abstention that was confirmed before the finalization began.
SealedCoversConfirmed ==
    \A s \in Surveys : sealedSurvey[s] # NoResult =>
        LET sealed == sealedSurvey[s]
            owedRows(k) == {b \in RowsUnder(k) : b.token \in sealed.owed \ reused}
            seen == {k \in KeysOf(s) : IsCounted(k) /\ k = KeyOf(k)}
        IN  /\ \A k \in seen : sealed.counts[k] <= Cardinality(RowsUnder(k))
            /\ lostCounters = 0 =>
                  /\ sealed.total >= Cardinality(sealed.owed)
                  /\ \A k \in seen : sealed.counts[k] >= Cardinality(owedRows(k))

\* A response that was counted reaches the screens, unless its request for a
\* broadcast met a job that had read already: an id BullMQ still knows is
\* dropped, and nothing broadcasts until the next response.
EveryResponseBroadcast ==
    \A s \in Surveys, n \in 1..Cardinality(SurveyTokens) :
        responses[s] = n ~>
            \/ shown[s] >= n \/ missed[s] \/ sealedSurvey[s] # NoResult
            \/ surveyFaults > 0 \/ lostCounters > 0

-----------------------------------------------------------------------------
(* The invariants that carry the proofs (SubmitServiceProofs).  SurveyInv    *)
(* holds whatever clients send, SurveyPaidInv with clients that draw a token *)
(* for each request (SurveyFreshTokens).                                     *)

\* A submission that will be stored holds a signature, and its texts belong to
\* questions of its survey.
SubmissionSigned(p) ==
    LET a == surveyArg[p]
        work == answering[p]
    IN  /\ surveyPc[p] = "subCommit" => ~work.practice
        /\ surveyPc[p] \in {"subFind", "subCreate", "subCommit"} =>
              /\ work.practice \/ HoldsSignature(a.survey, a.token)
              /\ work.texts \subseteq QuestionsOf(a.survey)
              /\ \A d \in work.chosen : d[2] \in QuestionsOf(a.survey)
        /\ surveyPc[p] = "subCreate" => work.at \in work.texts

\* The unique indexes: a respondent on the roll, a signature on an answer.
RollAndAnswersUnique ==
    /\ \A r1, r2 \in surveyRoll :
          r1.user = r2.user /\ r1.survey = r2.survey => r1 = r2
    /\ \A b1, b2 \in answers : SignatureOf(b1) = SignatureOf(b2) => b1 = b2

\* A signature is one a sign request blinded, an answer came with a signature.
AskedFor(s, t) == \E a \in SurveySigns : a.survey = s /\ a.blinded = t
SignaturesAsked == \A r \in told : r.kind = "signed" => AskedFor(r.survey, r.token)
AnswersSigned == \A b \in answers : HoldsSignature(SurveyOf(b), b.token)

SurveyInv ==
    /\ RollAndAnswersUnique /\ SignaturesAsked /\ AnswersSigned
    /\ \A p \in Submissions : SubmissionSigned(p)

\* The participation that pays for an answer to s with t.
SurveyPaid(s, t) == [user |-> TokenOwner[t], survey |-> s, token |-> t] \in surveyRoll

\* A practice row of t stays until a submission of t that was paid for; no vote
\* deletes it.
HasPracticeRow(t) ==
    t \notin VotedTokens /\ IsSurveyPending(t) /\ surveyPending[t].practice
SurveySignaturePaid(s, t, practice) ==
    SurveyPaid(s, t) \/ (practice /\ HasPracticeRow(t))

ToldPaid ==
    \A r \in told : r.kind = "signed" => SurveySignaturePaid(r.survey, r.token, r.practice)

SurveySigningPaid(p) ==
    LET a == surveyArg[p] IN
    /\ surveyPc[p] = "sSignParticipate" => ~a.practice
    /\ surveyPc[p] = "sSignReply" => SurveySignaturePaid(a.survey, a.token, a.practice)

SubmissionPaid(p) ==
    surveyPc[p] \in {"subFind", "subCreate", "subCommit"} /\ ~answering[p].practice =>
        SurveyPaid(surveyArg[p].survey, surveyArg[p].token)

AnswersPaid == \A b \in answers : SurveyPaid(SurveyOf(b), b.token)

\* Every signature, every submission in flight and every answer is paid for by
\* one participation.
SurveyPaidInv ==
    /\ ToldPaid /\ AnswersPaid
    /\ \A p \in Submissions : SurveySigningPaid(p) /\ SubmissionPaid(p)
=============================================================================
