-------------------------- MODULE SubmitServiceProofs --------------------------
(***************************************************************************)
(* Proofs about SubmitService, for every value of its constants: the types *)
(* of its state; SurveyInv, which holds for any clients, and SurveyPaidInv *)
(* with one answer per respondent for clients with SurveyFreshTokens; then *)
(* what Redis counts, from four further invariants, each inductive         *)
(* relative to those before it: BackedInv (a count has a row), TokenInv (a *)
(* token is stored once, but for repeats), RollInv (a response has a       *)
(* participation; SurveyFreshTokens again) and CountedInv (what was        *)
(* confirmed is counted), on which SealInv, and what a sealed survey       *)
(* covers, rest.                                                           *)
(***************************************************************************)
EXTENDS SubmitService, FiniteSetTheorems, TLAPS

SurveyTyped == SubmissionsOK /\ SurveyRowsOK

-----------------------------------------------------------------------------
(* Types: the request a step belongs to.                                   *)

LEMMA PCsAreApart ==
    /\ "idle" \in SurveyPCs
    /\ SurveySignPCs \cup SubmitPCs \cup SealPCs \subseteq SurveyPCs
    /\ \A l \in SurveySignPCs : l \notin SubmitPCs \cup SealPCs \cup {"idle"}
    /\ \A l \in SubmitPCs : l \notin SurveySignPCs \cup SealPCs \cup {"idle"}
    /\ \A l \in SealPCs : l \notin SurveySignPCs \cup SubmitPCs \cup {"idle"}
BY DEF SurveyPCs, SurveySignPCs, SubmitPCs, SealPCs

LEMMA EndTyped ==
    ASSUME SubmissionsOK, NEW p \in Submissions, SurveyEnd(p)
    PROVE  SubmissionsOK'
<1>1. NotAnswering \in Answering
  BY DEF NotAnswering, Answering
<1> QED BY <1>1, PCsAreApart DEF SubmissionsOK, SurveyEnd, SurveyGoto

LEMMA StartTyped ==
    ASSUME SubmissionsOK, NEW p \in Submissions, NEW label \in SurveyPCs, NEW a,
           SurveyStart(p, label, a), UNCHANGED answering, label # "subCreate",
           \/ a \in SurveySigns /\ label \in SurveySignPCs
           \/ a \in Answer /\ label \in SubmitPCs
           \/ a \in SealRequest /\ label \in SealPCs
    PROVE  SubmissionsOK'
BY PCsAreApart, SurveyRequestsAssumption DEF SubmissionsOK, SurveyStart, SurveyGoto

LEMMA WorkTyped ==
    ASSUME SubmissionsOK, NEW p \in Submissions, NEW label \in SurveyPCs,
           SurveyGoto(p, label), UNCHANGED surveyArg,
           answering' \in [Submissions -> Answering],
           \A q \in Submissions \ {p} : answering'[q] = answering[q],
           label = "subCreate" => answering'[p].at \in Questions,
           \/ surveyPc[p] \in SurveySignPCs /\ label \in SurveySignPCs
           \/ surveyPc[p] \in SubmitPCs /\ label \in SubmitPCs
           \/ surveyPc[p] \in SealPCs /\ label \in SealPCs
    PROVE  SubmissionsOK'
BY PCsAreApart DEF SubmissionsOK, SurveyGoto

LEMMA OnTyped ==
    ASSUME SubmissionsOK, NEW p \in Submissions, NEW label \in SurveyPCs,
           SurveyOn(p, label), label # "subCreate",
           \/ surveyPc[p] \in SurveySignPCs /\ label \in SurveySignPCs
           \/ surveyPc[p] \in SubmitPCs /\ label \in SubmitPCs
    PROVE  SubmissionsOK'
<1>1. answering' \in [Submissions -> Answering]
  BY DEF SubmissionsOK, SurveyOn
<1> QED BY <1>1, WorkTyped DEF SurveyOn

LEMMA SignArgTyped ==
    ASSUME SubmissionsOK, NEW p \in Submissions, surveyPc[p] \in SurveySignPCs
    PROVE  /\ surveyArg[p] \in SurveySigns /\ surveyArg[p] \in SignRequest
           /\ surveyArg[p].survey \in Surveys /\ surveyArg[p].token \in SurveyTokens
           /\ surveyArg[p].blinded \in SurveyTokens
           /\ surveyArg[p].practice \in BOOLEAN /\ RespondentOf(p) \in Respondents
BY SurveyTokensAssumption, SurveyRequestsAssumption DEF SubmissionsOK, SignRequest, RespondentOf

LEMMA AnswerArgTyped ==
    ASSUME SubmissionsOK, NEW p \in Submissions, surveyPc[p] \in SubmitPCs
    PROVE  /\ surveyArg[p] \in Answer
           /\ surveyArg[p].survey \in Surveys /\ surveyArg[p].token \in SurveyTokens
           /\ surveyArg[p].practice \in BOOLEAN /\ surveyArg[p].abstain \in BOOLEAN
           /\ surveyArg[p].options \subseteq StaticOptions
           /\ surveyArg[p].texts \subseteq Questions
           /\ answering[p] \in Answering
           /\ answering[p].practice \in BOOLEAN
           /\ answering[p].texts \subseteq Questions
           /\ answering[p].at \in Questions \cup {Nothing}
           /\ answering[p].chosen \subseteq DynamicIds
BY DEF SubmissionsOK, Answer, Answering

-----------------------------------------------------------------------------
(* Types: one lemma per handler.                                           *)

LEMMA SurveySignTyped ==
    ASSUME SurveyTyped, NEW p \in Submissions, SurveySignBegin(p) \/ SurveySignStep(p)
    PROVE  SurveyTyped'
<1> USE DEF SurveyPCs, SurveySignPCs
<1>1. CASE SurveySignBegin(p)
  <2>1. PICK a \in SurveySigns : SurveyStart(p, "sSignCheck", a)
    BY <1>1 DEF SurveySignBegin
  <2>2. SubmissionsOK'
    BY <1>1, <2>1, StartTyped, SurveyRequestsAssumption DEF SurveySignBegin, SurveyTyped
  <2> QED BY <1>1, <2>2 DEF SurveySignBegin, SurveyTyped, SurveyRowsOK, surveyRows, historyVars
<1>2. CASE SurveySignCheck(p)
  <2>1. SubmissionsOK'
    BY <1>2, OnTyped, EndTyped DEF SurveySignCheck, SurveyTyped
  <2> QED BY <1>2, <2>1 DEF SurveySignCheck, SurveyTyped, SurveyRowsOK, surveyRows, historyVars
<1>3. CASE SurveySignPending(p)
  <2>1. SubmissionsOK'
    BY <1>3, OnTyped, EndTyped DEF SurveySignPending, SurveyTyped
  <2>2. /\ surveyArg[p].survey \in Surveys /\ surveyArg[p].token \in SurveyTokens
        /\ surveyArg[p].practice \in BOOLEAN
    BY <1>3, SignArgTyped DEF SurveySignPending, SurveyTyped
  <2>3. [survey |-> surveyArg[p].survey, practice |-> surveyArg[p].practice,
         expired |-> FALSE] \in SurveyPendingRow
    BY <2>2 DEF SurveyPendingRow
  <2>4. surveyPending' \in [SurveyTokens -> SurveyPendingRow \cup {NoPendingRow}]
    BY <1>3, <2>3 DEF SurveySignPending, SurveyTyped, SurveyRowsOK
  <2> QED BY <1>3, <2>1, <2>4 DEF SurveySignPending, SurveyTyped, SurveyRowsOK, historyVars
<1>4. CASE SurveySignParticipate(p)
  <2>1. SubmissionsOK'
    BY <1>4, OnTyped, EndTyped DEF SurveySignParticipate, SurveyTyped
  <2>2. [user |-> RespondentOf(p), survey |-> surveyArg[p].survey,
         token |-> surveyArg[p].blinded] \in RollRow
    BY <1>4, SignArgTyped DEF SurveySignParticipate, SurveyTyped, RollRow
  <2> QED BY <1>4, <2>1, <2>2
      DEF SurveySignParticipate, SurveyTyped, SurveyRowsOK, historyVars
<1>5. CASE SurveySignReply(p)
  <2>1. SubmissionsOK'
    BY <1>5, EndTyped DEF SurveySignReply, SurveyTyped
  <2>2. [kind |-> "signed", survey |-> surveyArg[p].survey, token |-> surveyArg[p].blinded,
         practice |-> surveyArg[p].practice] \in Told
    BY <1>5, SignArgTyped DEF SurveySignReply, SurveyTyped, Told
  <2> QED BY <1>5, <2>1, <2>2
      DEF SurveySignReply, TellSurvey, SurveyTyped, SurveyRowsOK, surveyRows
<1> QED BY <1>1, <1>2, <1>3, <1>4, <1>5 DEF SurveySignStep

\* The option chosen for a text is an option, and the rest stays.
LEMMA ChooseTyped ==
    ASSUME SubmissionsOK, NEW p \in Submissions, NEW q \in Questions, NEW d \in DynamicIds,
           surveyPc[p] \in {"subFind", "subCreate"}, Choose(p, q, d)
    PROVE  SubmissionsOK'
<1>1. answering[p] \in Answering /\ surveyPc[p] \in SubmitPCs
  BY DEF SubmissionsOK, SubmitPCs
<1>2. answering' \in [Submissions -> Answering]
  BY <1>1 DEF Choose, SubmissionsOK, Answering
<1>3. AfterTexts(answering[p].practice, answering[p].texts \ {q}) \in SubmitPCs \ {"subCreate"}
  BY DEF AfterTexts, SubmitPCs
<1>4. \A r \in Submissions \ {p} : answering'[r] = answering[r]
  BY DEF Choose, SubmissionsOK
<1> QED BY <1>1, <1>2, <1>3, <1>4, WorkTyped, PCsAreApart DEF Choose

LEMMA SubmitTyped ==
    ASSUME SurveyTyped, NEW p \in Submissions, SubmitBegin(p) \/ SubmitStep(p)
    PROVE  SurveyTyped'
<1> USE DEF SurveyPCs, SubmitPCs
<1>1. CASE SubmitBegin(p)
  <2>1. PICK a \in SurveyAnswers : SurveyStart(p, "subPending", a)
    BY <1>1 DEF SubmitBegin
  <2>2. SubmissionsOK'
    BY <1>1, <2>1, StartTyped, SurveyRequestsAssumption DEF SubmitBegin, SurveyTyped
  <2> QED BY <1>1, <2>2 DEF SubmitBegin, SurveyTyped, SurveyRowsOK, surveyRows, historyVars
<1>2. CASE SubmitPending(p)
  <2>1. SubmissionsOK'
    <3>1. CASE SurveyEnd(p)
      BY <3>1, EndTyped DEF SurveyTyped
    <3>2. CASE ~SurveyEnd(p)
      <4>1. surveyPc[p] = "subPending" /\ surveyArg[p] \in Answer
        BY <1>2, AnswerArgTyped DEF SubmitPending, SurveyTyped
      <4>2. /\ answering' = [answering EXCEPT ![p] =
                  [practice |-> SurveyPractice(p), texts |-> OwnTexts(surveyArg[p]),
                   at |-> Nothing, chosen |-> {}]]
            /\ SurveyGoto(p, AfterTexts(SurveyPractice(p), OwnTexts(surveyArg[p])))
            /\ UNCHANGED surveyArg
            /\ IsSurveyPending(surveyArg[p].token) \/ surveyArg[p].practice
        BY <1>2, <3>2 DEF SubmitPending
      <4>3. SurveyPractice(p) \in BOOLEAN
        <5>1. surveyArg[p].token \in SurveyTokens /\ surveyArg[p].practice \in BOOLEAN
          BY <4>1 DEF Answer
        <5> QED BY <5>1, <4>2
            DEF SurveyPractice, IsSurveyPending, SurveyTyped, SurveyRowsOK, SurveyPendingRow
      <4>4. OwnTexts(surveyArg[p]) \subseteq Questions
        BY DEF OwnTexts, QuestionsOf
      <4>5. answering' \in [Submissions -> Answering]
        BY <4>2, <4>3, <4>4 DEF SurveyTyped, SubmissionsOK, Answering
      <4>6. AfterTexts(SurveyPractice(p), OwnTexts(surveyArg[p])) \in SubmitPCs \ {"subCreate"}
        BY DEF AfterTexts
      <4>7. \A r \in Submissions \ {p} : answering'[r] = answering[r]
        BY <4>2 DEF SurveyTyped, SubmissionsOK
      <4> QED BY <4>1, <4>2, <4>5, <4>6, <4>7, WorkTyped DEF SurveyTyped
    <3> QED BY <3>1, <3>2
  <2> QED BY <1>2, <2>1 DEF SubmitPending, SurveyTyped, SurveyRowsOK, surveyRows, historyVars
<1>3. CASE SubmitFind(p)
  <2>1. SubmissionsOK'
    <3>1. surveyPc[p] = "subFind" /\ surveyPc[p] \in SubmitPCs /\ answering[p] \in Answering
      BY <1>3, AnswerArgTyped DEF SubmitFind, SurveyTyped
    <3>2. PICK q \in answering[p].texts :
              \/ \E d \in surveyOptions \cap DynamicIds : Choose(p, q, d)
              \/ /\ answering' = [answering EXCEPT ![p].at = q]
                 /\ SurveyGoto(p, "subCreate")
                 /\ UNCHANGED surveyArg
      BY <1>3 DEF SubmitFind
    <3>3. q \in Questions
      BY <3>1, <3>2 DEF Answering
    <3>4. CASE \E d \in surveyOptions \cap DynamicIds : Choose(p, q, d)
      BY <3>1, <3>3, <3>4, ChooseTyped DEF SurveyTyped
    <3>5. CASE /\ answering' = [answering EXCEPT ![p].at = q]
               /\ SurveyGoto(p, "subCreate")
               /\ UNCHANGED surveyArg
      <4>1. answering' \in [Submissions -> Answering]
        BY <3>1, <3>3, <3>5 DEF SurveyTyped, SubmissionsOK, Answering
      <4>2. /\ answering'[p].at = q
            /\ \A r \in Submissions \ {p} : answering'[r] = answering[r]
        BY <3>1, <3>5 DEF SurveyTyped, SubmissionsOK, Answering
      <4> QED BY <3>1, <3>3, <3>5, <4>1, <4>2, WorkTyped DEF SurveyTyped
    <3> QED BY <3>2, <3>4, <3>5
  <2> QED BY <1>3, <2>1 DEF SubmitFind, SurveyTyped, SurveyRowsOK, surveyRows, historyVars
<1>4. CASE SubmitCreate(p)
  <2>1. surveyPc[p] = "subCreate" /\ answering[p].at \in Questions
    BY <1>4 DEF SubmitCreate, SurveyTyped, SubmissionsOK
  <2>2. Created(p) \in DynamicIds
    BY <2>1 DEF Created, DynamicIds
  <2>3. SubmissionsOK'
    BY <1>4, <2>1, <2>2, ChooseTyped DEF SubmitCreate, SurveyTyped
  <2> QED BY <1>4, <2>2, <2>3
      DEF SubmitCreate, SurveyTyped, SurveyRowsOK, OptionIds, historyVars
<1>5. CASE SubmitCommit(p)
  <2>1. SubmissionsOK'
    BY <1>5, OnTyped, EndTyped DEF SubmitCommit, RefuseAnswer, SurveyTyped
  <2>2. /\ surveyArg[p].token \in SurveyTokens
        /\ surveyArg[p].options \subseteq StaticOptions
        /\ answering[p].chosen \subseteq DynamicIds
    BY <1>5, AnswerArgTyped DEF SubmitCommit, SurveyTyped
  <2>3. \A o \in OptionIds : QuestionOfOption(o) \in Questions
    BY QuestionsAssumption DEF OptionIds, DynamicIds, QuestionOfOption
  <2>4. AnswerRows(p) \subseteq AnswerRow
    <3>1. OwnOptions(surveyArg[p]) \cup answering[p].chosen \subseteq OptionIds
      BY <2>2 DEF OwnOptions, OptionIds
    <3> QED BY <2>2, <2>3, <3>1 DEF AnswerRows, AnswerRow
  <2>5. /\ answers' \subseteq AnswerRow
        /\ surveyPending' \in [SurveyTokens -> SurveyPendingRow \cup {NoPendingRow}]
        /\ spent' \subseteq SurveyTokens /\ reused' \subseteq SurveyTokens
    BY <1>5, <2>2, <2>4 DEF SubmitCommit, SurveyTyped, SurveyRowsOK
  <2>6. repeats' \in [Surveys -> Nat]
    BY <1>5 DEF SubmitCommit, SurveyTyped, SurveyRowsOK
  <2> QED BY <1>5, <2>1, <2>5, <2>6 DEF SubmitCommit, SurveyTyped, SurveyRowsOK
<1>6. CASE SubmitCount(p)
  <2>1. SubmissionsOK'
    BY <1>6, OnTyped DEF SubmitCount, SurveyTyped
  <2> QED BY <1>6, <2>1 DEF SubmitCount, SurveyTyped, SurveyRowsOK, surveyRows, historyVars
<1>7. CASE SubmitTally(p)
  <2>1. SubmissionsOK'
    BY <1>7, OnTyped DEF SubmitTally, SurveyTyped
  <2> QED BY <1>7, <2>1 DEF SubmitTally, SurveyTyped, SurveyRowsOK, surveyRows, historyVars
<1>8. CASE SubmitNotify(p)
  <2>1. SubmissionsOK'
    BY <1>8, EndTyped DEF SubmitNotify, SurveyTyped
  <2>2. [kind |-> "answered", survey |-> surveyArg[p].survey, token |-> surveyArg[p].token,
         practice |-> FALSE] \in Told
    BY <1>8, AnswerArgTyped DEF SubmitNotify, SurveyTyped, Told
  <2> QED BY <1>8, <2>1, <2>2
      DEF SubmitNotify, TellSurvey, SurveyTyped, SurveyRowsOK, surveyRows
<1> QED BY <1>1, <1>2, <1>3, <1>4, <1>5, <1>6, <1>7, <1>8 DEF SubmitStep

LEMMA SealTyped ==
    ASSUME SurveyTyped, NEW p \in Submissions, SealBegin(p) \/ SealStep(p)
    PROVE  SurveyTyped'
<1> USE DEF SurveyPCs, SealPCs
<1>1. CASE SealBegin(p)
  <2>1. PICK s \in SealableSurveys : SurveyStart(p, "sealHashes", [survey |-> s])
    BY <1>1 DEF SealBegin
  <2>2. [survey |-> s] \in SealRequest
    BY SurveyRequestsAssumption DEF SealRequest
  <2>3. SubmissionsOK'
    BY <1>1, <2>1, <2>2, StartTyped DEF SealBegin, SurveyTyped
  <2> QED BY <1>1, <2>3 DEF SealBegin, SurveyTyped, SurveyRowsOK, surveyRows, historyVars
<1>2. ASSUME NEW from \in {"sealHashes", "sealTotal", "sealRows"},
             NEW to \in {"sealTotal", "sealRows", "sealCommit"}, NEW total, NEW counts,
             SealRead(p, from, to, total, counts)
      PROVE  SurveyTyped'
  <2>1. answering' \in [Submissions -> Answering]
    BY <1>2 DEF SealRead, SurveyTyped, SubmissionsOK
  <2>2. SubmissionsOK'
    BY <1>2, <2>1, WorkTyped DEF SealRead, SurveyTyped
  <2> QED BY <1>2, <2>2 DEF SealRead, SurveyTyped, SurveyRowsOK, surveyRows, historyVars
<1>3. CASE SealCommit(p)
  <2>1. SubmissionsOK'
    BY <1>3, EndTyped DEF SealCommit, SurveyTyped
  <2>2. surveyArg[p].survey \in Surveys
    BY <1>3 DEF SealCommit, SurveyTyped, SubmissionsOK, SealRequest
  <2>3. [survey[surveyArg[p].survey] EXCEPT !.isFinalized = TRUE] \in SurveyRow
    BY <2>2 DEF SurveyTyped, SurveyRowsOK, SurveyRow
  <2>4. survey' \in [Surveys -> SurveyRow]
    BY <1>3, <2>3 DEF SealCommit, SurveyTyped, SurveyRowsOK
  <2> QED BY <1>3, <2>1, <2>4 DEF SealCommit, SurveyTyped, SurveyRowsOK, historyVars
<1> QED BY <1>1, <1>2, <1>3 DEF SealStep, SealHashes, SealTotal, SealRows

LEMMA OutsideTyped ==
    ASSUME SurveyTyped,
           \/ \E p \in Submissions : SubmissionFails(p)
           \/ \E s \in Surveys : WorkerStep(s) \/ FailBroadcast(s) \/ SurveyTick(s)
           \/ PendingRowsChange
           \/ \E o \in DeletableOptions : DeleteOption(o)
           \/ EvictCounter
    PROVE  SurveyTyped'
<1> USE DEF SurveyTyped, surveyRows, submissionVars, historyVars
<1>1. ASSUME NEW p \in Submissions, SubmissionFails(p) PROVE SurveyTyped'
  <2>1. SubmissionsOK'
    BY <1>1, EndTyped DEF SubmissionFails
  <2> QED BY <1>1, <2>1 DEF SubmissionFails, SurveyRowsOK
<1>2. ASSUME NEW s \in Surveys, WorkerStep(s) \/ FailBroadcast(s) PROVE SurveyTyped'
  BY <1>2 DEF WorkerStep, TakeBroadcast, EmitBroadcast, CompleteBroadcast, FailBroadcast,
              BroadcastStep, SubmissionsOK, SurveyRowsOK
<1>3. ASSUME NEW s \in Surveys, SurveyTick(s) PROVE SurveyTyped'
  <2>1. \A f \in {"endAt", "ended"} : [survey[s] EXCEPT !.phase = f] \in SurveyRow
    BY DEF SurveyRowsOK, SurveyRow
  <2>2. survey' \in [Surveys -> SurveyRow]
    BY <1>3, <2>1 DEF SurveyTick, SurveyRowsOK
  <2> QED BY <1>3, <2>2 DEF SurveyTick, SubmissionsOK, SurveyRowsOK
<1>4. ASSUME PendingRowsChange PROVE SurveyTyped'
  <2>1. ASSUME NEW t \in LateTokens, SurveyPendingExpires(t)
        PROVE  surveyPending' \in [SurveyTokens -> SurveyPendingRow \cup {NoPendingRow}]
    <3>1. t \in SurveyTokens /\ surveyPending[t] \in SurveyPendingRow
      BY <2>1, SurveyRequestsAssumption DEF SurveyPendingExpires, IsSurveyPending, SurveyRowsOK
    <3>2. [surveyPending[t] EXCEPT !.expired = TRUE] \in SurveyPendingRow
      BY <3>1 DEF SurveyPendingRow
    <3> QED BY <2>1, <3>2 DEF SurveyPendingExpires, SurveyRowsOK
  <2>2. ASSUME NEW t \in VotedTokens, VotingSignsToken(t) \/ VotingSpendsToken(t)
        PROVE  surveyPending' \in [SurveyTokens -> SurveyPendingRow \cup {NoPendingRow}]
    <3>1. \A practice \in BOOLEAN :
            [survey |-> OfVoting, practice |-> practice, expired |-> FALSE] \in SurveyPendingRow
      BY DEF SurveyPendingRow
    <3> QED BY <2>2, <3>1 DEF VotingSignsToken, VotingSpendsToken, SurveyRowsOK
  <2>3. surveyPending' \in [SurveyTokens -> SurveyPendingRow \cup {NoPendingRow}]
    BY <1>4, <2>1, <2>2 DEF PendingRowsChange
  <2> QED BY <1>4, <2>3
      DEF PendingRowsChange, SurveyPendingExpires, VotingSignsToken, VotingSpendsToken,
          SubmissionsOK, SurveyRowsOK
<1>5. ASSUME NEW o \in DeletableOptions, DeleteOption(o) PROVE SurveyTyped'
  <2>1. \A b \in AnswerRow : [b EXCEPT !.option = Deleted] \in AnswerRow
    BY DEF AnswerRow
  <2>2. answers' \subseteq AnswerRow
    BY <1>5, <2>1 DEF DeleteOption, SurveyRowsOK
  <2> QED BY <1>5, <2>2 DEF DeleteOption, SubmissionsOK, SurveyRowsOK
<1>6. CASE EvictCounter
  BY <1>6 DEF EvictCounter, SubmissionsOK, SurveyRowsOK
<1> QED BY <1>1, <1>2, <1>3, <1>4, <1>5, <1>6

\* The requests hold arguments of their kind and the tables rows of theirs.
THEOREM SurveyTypes == SurveySpec => []SurveyTyped
<1>1. SurveyInit => SurveyTyped
  <2>1. NotAnswering \in Answering
    BY DEF NotAnswering, Answering
  <2>2. [phase |-> "open", isFinalized |-> FALSE] \in SurveyRow
    BY DEF SurveyRow
  <2> QED BY <2>1, <2>2, PCsAreApart
      DEF SurveyInit, SurveyTyped, SubmissionsOK, SurveyRowsOK, OptionIds, SubmitPCs
<1>2. SurveyTyped /\ [SurveyNext]_surveyVars => SurveyTyped'
  <2> SUFFICES ASSUME SurveyTyped, [SurveyNext]_surveyVars PROVE SurveyTyped'
    OBVIOUS
  <2>1. CASE SurveyNext
    BY <2>1, SurveySignTyped, SubmitTyped, SealTyped, OutsideTyped DEF SurveyNext
  <2>2. CASE UNCHANGED surveyVars
    BY <2>2 DEF SurveyTyped, SubmissionsOK, SurveyRowsOK, surveyVars, surveyRows,
                submissionVars, historyVars
  <2> QED BY <2>1, <2>2
<1> QED BY <1>1, <1>2, PTL DEF SurveySpec

-----------------------------------------------------------------------------
(* What is written stays.                                                  *)

\* No step takes a participation or a reply back.
LEMMA RollAndRepliesGrow ==
    ASSUME [SurveyNext]_surveyVars
    PROVE  surveyRoll \subseteq surveyRoll' /\ told \subseteq told'
<1> USE DEF surveyRows, historyVars, surveyVars, submissionVars
<1>1. ASSUME NEW p \in Submissions, SurveySignBegin(p) \/ SurveySignStep(p)
      PROVE  surveyRoll \subseteq surveyRoll' /\ told \subseteq told'
  BY <1>1 DEF SurveySignBegin, SurveySignStep, SurveySignCheck, SurveySignPending,
              SurveySignParticipate, SurveySignReply, TellSurvey
<1>2. ASSUME NEW p \in Submissions, SubmitBegin(p) \/ SubmitStep(p)
      PROVE  surveyRoll \subseteq surveyRoll' /\ told \subseteq told'
  BY <1>2 DEF SubmitBegin, SubmitStep, SubmitPending, SubmitFind, SubmitCreate, SubmitCommit,
              SubmitCount, SubmitTally, SubmitNotify, TellSurvey
<1>3. ASSUME NEW p \in Submissions, SealBegin(p) \/ SealStep(p) \/ SubmissionFails(p)
      PROVE  surveyRoll \subseteq surveyRoll' /\ told \subseteq told'
  BY <1>3 DEF SealBegin, SealStep, SealHashes, SealTotal, SealRows, SealRead, SealCommit,
              SubmissionFails
<1>4. ASSUME NEW s \in Surveys, WorkerStep(s) \/ FailBroadcast(s) \/ SurveyTick(s)
      PROVE  surveyRoll \subseteq surveyRoll' /\ told \subseteq told'
  BY <1>4 DEF WorkerStep, TakeBroadcast, EmitBroadcast, CompleteBroadcast, FailBroadcast,
              BroadcastStep, SurveyTick
<1>5. ASSUME \/ PendingRowsChange
             \/ \E o \in DeletableOptions : DeleteOption(o)
             \/ EvictCounter
             \/ UNCHANGED surveyVars
      PROVE  surveyRoll \subseteq surveyRoll' /\ told \subseteq told'
  BY <1>5 DEF PendingRowsChange, SurveyPendingExpires, VotingSignsToken, VotingSpendsToken,
              DeleteOption, EvictCounter
<1> QED BY <1>1, <1>2, <1>3, <1>4, <1>5 DEF SurveyNext

LEMMA PaidGrows ==
    ASSUME surveyRoll \subseteq surveyRoll', told \subseteq told', NEW s, NEW t
    PROVE  /\ SurveyPaid(s, t) => SurveyPaid(s, t)'
           /\ HoldsSignature(s, t) => HoldsSignature(s, t)'
BY DEF SurveyPaid, HoldsSignature, SignedFor

\* A new signature is of what the request brought.
LEMMA NewReplies ==
    ASSUME [SurveyNext]_surveyVars, NEW r \in told', r \notin told, r.kind = "signed"
    PROVE  \E p \in Submissions :
              /\ surveyPc[p] = "sSignReply"
              /\ r = [kind |-> "signed", survey |-> surveyArg[p].survey,
                      token |-> surveyArg[p].blinded, practice |-> surveyArg[p].practice]
<1> USE DEF surveyRows, historyVars, surveyVars, submissionVars
<1>1. ASSUME NEW p \in Submissions, SurveySignBegin(p) \/ SurveySignStep(p)
      PROVE  \/ told' = told
             \/ /\ SurveySignReply(p)
                /\ TellSurvey(p, "signed", surveyArg[p].blinded, surveyArg[p].practice)
  BY <1>1 DEF SurveySignBegin, SurveySignStep, SurveySignCheck, SurveySignPending,
              SurveySignParticipate, SurveySignReply
<1>2. ASSUME NEW p \in Submissions, SubmitBegin(p) \/ SubmitStep(p)
      PROVE  told' = told \/ TellSurvey(p, "answered", surveyArg[p].token, FALSE)
  BY <1>2 DEF SubmitBegin, SubmitStep, SubmitPending, SubmitFind, SubmitCreate, SubmitCommit,
              SubmitCount, SubmitTally, SubmitNotify
<1>3. ASSUME NEW p \in Submissions, SealBegin(p) \/ SealStep(p) \/ SubmissionFails(p)
      PROVE  told' = told
  BY <1>3 DEF SealBegin, SealStep, SealHashes, SealTotal, SealRows, SealRead, SealCommit,
              SubmissionFails
<1>4. ASSUME NEW s \in Surveys, WorkerStep(s) \/ FailBroadcast(s) \/ SurveyTick(s)
      PROVE  told' = told
  BY <1>4 DEF WorkerStep, TakeBroadcast, EmitBroadcast, CompleteBroadcast, FailBroadcast,
              BroadcastStep, SurveyTick
<1>5. ASSUME \/ PendingRowsChange
             \/ \E o \in DeletableOptions : DeleteOption(o)
             \/ EvictCounter
             \/ UNCHANGED surveyVars
      PROVE  told' = told
  BY <1>5 DEF PendingRowsChange, SurveyPendingExpires, VotingSignsToken, VotingSpendsToken,
              DeleteOption, EvictCounter
<1>6. ASSUME NEW p \in Submissions, SurveySignReply(p),
             TellSurvey(p, "signed", surveyArg[p].blinded, surveyArg[p].practice)
      PROVE  /\ surveyPc[p] = "sSignReply"
             /\ r = [kind |-> "signed", survey |-> surveyArg[p].survey,
                     token |-> surveyArg[p].blinded, practice |-> surveyArg[p].practice]
  BY <1>6 DEF SurveySignReply, TellSurvey
<1>7. ASSUME NEW p \in Submissions, TellSurvey(p, "answered", surveyArg[p].token, FALSE)
      PROVE  FALSE
  BY <1>7 DEF TellSurvey
<1> QED BY <1>1, <1>2, <1>3, <1>4, <1>5, <1>6, <1>7 DEF SurveyNext

\* Only the transaction and the deletion of an option write answers.
LEMMA AnswersKept ==
    ASSUME [SurveyNext]_surveyVars,
           ~ \E p \in Submissions : SubmitCommit(p),
           ~ \E o \in DeletableOptions : DeleteOption(o)
    PROVE  answers' = answers
<1> USE DEF surveyRows, historyVars, surveyVars, submissionVars
<1>1. ASSUME NEW p \in Submissions, SurveySignBegin(p) \/ SurveySignStep(p)
      PROVE  answers' = answers
  BY <1>1 DEF SurveySignBegin, SurveySignStep, SurveySignCheck, SurveySignPending,
              SurveySignParticipate, SurveySignReply
<1>2. ASSUME NEW p \in Submissions, SubmitBegin(p) \/ SubmitStep(p), ~SubmitCommit(p)
      PROVE  answers' = answers
  BY <1>2 DEF SubmitBegin, SubmitStep, SubmitPending, SubmitFind, SubmitCreate,
              SubmitCount, SubmitTally, SubmitNotify
<1>3. ASSUME NEW p \in Submissions, SealBegin(p) \/ SealStep(p) \/ SubmissionFails(p)
      PROVE  answers' = answers
  BY <1>3 DEF SealBegin, SealStep, SealHashes, SealTotal, SealRows, SealRead, SealCommit,
              SubmissionFails
<1>4. ASSUME NEW s \in Surveys, WorkerStep(s) \/ FailBroadcast(s) \/ SurveyTick(s)
      PROVE  answers' = answers
  BY <1>4 DEF WorkerStep, TakeBroadcast, EmitBroadcast, CompleteBroadcast, FailBroadcast,
              BroadcastStep, SurveyTick
<1>5. ASSUME \/ PendingRowsChange
             \/ EvictCounter
             \/ UNCHANGED surveyVars
      PROVE  answers' = answers
  BY <1>5 DEF PendingRowsChange, SurveyPendingExpires, VotingSignsToken, VotingSpendsToken,
              EvictCounter
<1> QED BY <1>1, <1>2, <1>3, <1>4, <1>5 DEF SurveyNext

\* Only createParticipation writes the roll.
LEMMA RollUnwritten ==
    ASSUME [SurveyNext]_surveyVars, ~ \E p \in Submissions : SurveySignParticipate(p)
    PROVE  surveyRoll' = surveyRoll
<1> USE DEF surveyRows, historyVars, surveyVars, submissionVars
<1>1. ASSUME NEW p \in Submissions, SurveySignBegin(p) \/ SurveySignStep(p),
             ~SurveySignParticipate(p)
      PROVE  surveyRoll' = surveyRoll
  BY <1>1 DEF SurveySignBegin, SurveySignStep, SurveySignCheck, SurveySignPending,
              SurveySignReply
<1>2. ASSUME NEW p \in Submissions, SubmitBegin(p) \/ SubmitStep(p)
      PROVE  surveyRoll' = surveyRoll
  BY <1>2 DEF SubmitBegin, SubmitStep, SubmitPending, SubmitFind, SubmitCreate,
              SubmitCommit, SubmitCount, SubmitTally, SubmitNotify
<1>3. ASSUME NEW p \in Submissions, SealBegin(p) \/ SealStep(p) \/ SubmissionFails(p)
      PROVE  surveyRoll' = surveyRoll
  BY <1>3 DEF SealBegin, SealStep, SealHashes, SealTotal, SealRows, SealRead, SealCommit,
              SubmissionFails
<1>4. ASSUME NEW s \in Surveys, WorkerStep(s) \/ FailBroadcast(s) \/ SurveyTick(s)
      PROVE  surveyRoll' = surveyRoll
  BY <1>4 DEF WorkerStep, TakeBroadcast, EmitBroadcast, CompleteBroadcast, FailBroadcast,
              BroadcastStep, SurveyTick
<1>5. ASSUME \/ PendingRowsChange
             \/ \E o \in DeletableOptions : DeleteOption(o)
             \/ EvictCounter
             \/ UNCHANGED surveyVars
      PROVE  surveyRoll' = surveyRoll
  BY <1>5 DEF PendingRowsChange, SurveyPendingExpires, VotingSignsToken, VotingSpendsToken,
              DeleteOption, EvictCounter
<1> QED BY <1>1, <1>2, <1>3, <1>4, <1>5 DEF SurveyNext

LEMMA OthersUnmoved ==
    ASSUME SurveyTyped, NEW p \in Submissions, NEW q \in Submissions, q # p,
           \/ SurveySignBegin(p) \/ SurveySignStep(p) \/ SubmitBegin(p) \/ SubmitStep(p)
           \/ SealBegin(p) \/ SealStep(p) \/ SubmissionFails(p)
    PROVE  /\ surveyPc'[q] = surveyPc[q] /\ surveyArg'[q] = surveyArg[q]
           /\ answering'[q] = answering[q]
<1> USE DEF SurveyTyped, SubmissionsOK, SurveyStart, SurveyEnd, SurveyOn, SurveyGoto
<1>1. CASE SurveySignBegin(p) \/ SurveySignStep(p)
  BY <1>1 DEF SurveySignBegin, SurveySignStep, SurveySignCheck, SurveySignPending,
              SurveySignParticipate, SurveySignReply
<1>2. CASE SubmitBegin(p) \/ SubmitStep(p)
  BY <1>2 DEF SubmitBegin, SubmitStep, SubmitPending, SubmitFind, SubmitCreate, Choose,
              SubmitCommit, RefuseAnswer, SubmitCount, SubmitTally, SubmitNotify
<1>3. CASE SealBegin(p) \/ SealStep(p) \/ SubmissionFails(p)
  BY <1>3 DEF SealBegin, SealStep, SealHashes, SealTotal, SealRows, SealRead, SealCommit,
              SubmissionFails
<1> QED BY <1>1, <1>2, <1>3

LEMMA OutsideUnmoved ==
    ASSUME \/ \E s \in Surveys : WorkerStep(s) \/ FailBroadcast(s) \/ SurveyTick(s)
           \/ PendingRowsChange
           \/ \E o \in DeletableOptions : DeleteOption(o)
           \/ EvictCounter
           \/ UNCHANGED surveyVars
    PROVE  UNCHANGED submissionVars
BY DEF WorkerStep, TakeBroadcast, EmitBroadcast, CompleteBroadcast, FailBroadcast,
       BroadcastStep, SurveyTick, PendingRowsChange, SurveyPendingExpires, VotingSignsToken,
       VotingSpendsToken, DeleteOption, EvictCounter, surveyVars

-----------------------------------------------------------------------------
(* Whatever clients send: the unique indexes, and a signature for what is  *)
(* stored.                                                                 *)

\* The rows of a submission belong to its survey.
LEMMA RowsOfOwnSurvey ==
    ASSUME SurveyTyped, SurveyInv, NEW p \in Submissions, surveyPc[p] = "subCommit",
           NEW b \in AnswerRows(p)
    PROVE  SurveyOf(b) = surveyArg[p].survey /\ b.token = surveyArg[p].token
<1>1. PICK o \in OwnOptions(surveyArg[p]) \cup answering[p].chosen :
          b = [question |-> QuestionOfOption(o), option |-> o, token |-> surveyArg[p].token]
  BY DEF AnswerRows
<1>2. CASE o \in OwnOptions(surveyArg[p])
  <2>1. o \in StaticOptions
    BY <1>2, AnswerArgTyped DEF OwnOptions, SurveyTyped, SubmitPCs
  <2> QED BY <1>1, <1>2, <2>1 DEF OwnOptions, QuestionOfOption, SurveyOf
<1>3. CASE o \in answering[p].chosen
  <2>1. o \in DynamicIds
    BY <1>3, AnswerArgTyped DEF SurveyTyped, SubmitPCs
  <2>2. o \notin StaticOptions
    BY <2>1, QuestionsAssumption
  <2>3. o[2] \in QuestionsOf(surveyArg[p].survey)
    BY <1>3 DEF SurveyInv, SubmissionSigned
  <2> QED BY <1>1, <2>2, <2>3 DEF QuestionOfOption, QuestionsOf, SurveyOf
<1> QED BY <1>1, <1>2, <1>3

LEMMA RollAndAnswersStayUnique ==
    ASSUME SurveyTyped, SurveyInv, [SurveyNext]_surveyVars
    PROVE  RollAndAnswersUnique'
<1> USE DEF surveyRows, historyVars, surveyVars, submissionVars
<1>1. \A r1, r2 \in surveyRoll' : r1.user = r2.user /\ r1.survey = r2.survey => r1 = r2
  <2>1. \A r1, r2 \in surveyRoll : r1.user = r2.user /\ r1.survey = r2.survey => r1 = r2
    BY DEF SurveyInv, RollAndAnswersUnique
  <2>2. ASSUME NEW p \in Submissions, SurveySignParticipate(p)
        PROVE  \A r1, r2 \in surveyRoll' :
                  r1.user = r2.user /\ r1.survey = r2.survey => r1 = r2
    BY <2>1, <2>2 DEF SurveySignParticipate, RollUnique, OnRoll
  <2>3. CASE ~ \E p \in Submissions : SurveySignParticipate(p)
    BY <2>1, <2>3, RollUnwritten
  <2> QED BY <2>2, <2>3
<1>2. \A b1, b2 \in answers' : SignatureOf(b1) = SignatureOf(b2) => b1 = b2
  <2>1. \A b1, b2 \in answers : SignatureOf(b1) = SignatureOf(b2) => b1 = b2
    BY DEF SurveyInv, RollAndAnswersUnique
  <2>2. ASSUME NEW p \in Submissions, SubmitCommit(p)
        PROVE  \A b1, b2 \in answers' : SignatureOf(b1) = SignatureOf(b2) => b1 = b2
    <3>1. CASE answers' = answers
      BY <2>1, <3>1
    <3>2. CASE answers' = answers \cup AnswerRows(p) /\ AnswerSignatureUnique(AnswerRows(p))
      BY <2>1, <3>2 DEF AnswerSignatureUnique
    <3> QED BY <2>2, <3>1, <3>2 DEF SubmitCommit
  <2>3. ASSUME NEW o \in DeletableOptions, DeleteOption(o)
        PROVE  \A b1, b2 \in answers' : SignatureOf(b1) = SignatureOf(b2) => b1 = b2
    <3>1. \A a \in answers : SignatureOf([a EXCEPT !.option = Deleted]) = SignatureOf(a)
      BY DEF SignatureOf, SurveyTyped, SurveyRowsOK, AnswerRow
    <3> QED BY <2>1, <2>3, <3>1 DEF DeleteOption
  <2> QED BY <2>1, <2>2, <2>3, AnswersKept
<1> QED BY <1>1, <1>2 DEF RollAndAnswersUnique, SignatureOf

LEMMA RestingSigned ==
    ASSUME NEW p \in Submissions, surveyPc'[p] \notin {"subFind", "subCreate", "subCommit"}
    PROVE  SubmissionSigned(p)'
BY DEF SubmissionSigned

LEMMA EndSigned ==
    ASSUME SurveyTyped, NEW p \in Submissions, SurveyEnd(p)
    PROVE  SubmissionSigned(p)'
BY RestingSigned DEF SurveyEnd, SurveyGoto, SurveyTyped, SubmissionsOK

\* A request that does not move keeps its signature.
LEMMA OthersStaySigned ==
    ASSUME SurveyInv, [SurveyNext]_surveyVars, NEW q \in Submissions,
           surveyPc'[q] = surveyPc[q], surveyArg'[q] = surveyArg[q],
           answering'[q] = answering[q]
    PROVE  SubmissionSigned(q)'
<1>1. SubmissionSigned(q)
  BY DEF SurveyInv
<1>2. HoldsSignature(surveyArg[q].survey, surveyArg[q].token) =>
          HoldsSignature(surveyArg[q].survey, surveyArg[q].token)'
  BY RollAndRepliesGrow, PaidGrows
<1> QED BY <1>1, <1>2 DEF SubmissionSigned

\* A submission passes with a signature, or it is practice.
LEMMA SubmissionStaysSigned ==
    ASSUME SurveyTyped, SurveyInv, [SurveyNext]_surveyVars, NEW p \in Submissions,
           SubmitBegin(p) \/ SubmitStep(p)
    PROVE  SubmissionSigned(p)'
<1>0. /\ surveyPc \in [Submissions -> SurveyPCs]
      /\ answering \in [Submissions -> Answering]
  BY DEF SurveyTyped, SubmissionsOK
<1>1. surveyRoll \subseteq surveyRoll' /\ told \subseteq told'
  BY RollAndRepliesGrow
<1>2. CASE SubmitBegin(p)
  BY <1>0, <1>2, RestingSigned DEF SubmitBegin, SurveyStart, SurveyGoto
<1>3. CASE SubmitPending(p)
  <2>1. CASE SurveyEnd(p)
    BY <2>1, EndSigned
  <2>2. CASE ~SurveyEnd(p)
    <3> DEFINE a == surveyArg[p]
               practice == SurveyPractice(p)
    <3>1. /\ surveyPc'[p] = AfterTexts(practice, OwnTexts(a)) /\ surveyArg'[p] = a
          /\ answering'[p].practice = practice /\ answering'[p].texts = OwnTexts(a)
          /\ answering'[p].chosen = {}
          /\ a.practice \/ HoldsSignature(a.survey, a.token)
      BY <1>0, <1>3, <2>2 DEF SubmitPending, SurveyGoto
    <3>2. practice \/ HoldsSignature(a.survey, a.token)
      BY <3>1 DEF SurveyPractice
    <3>3. OwnTexts(a) \subseteq QuestionsOf(a.survey)
      BY DEF OwnTexts
    <3>4. /\ surveyPc'[p] \in {"subFind", "subNotify", "subCommit"}
          /\ surveyPc'[p] = "subCommit" => ~practice
      BY <3>1 DEF AfterTexts
    <3> HIDE DEF practice
    <3>5. practice \/ HoldsSignature(surveyArg[p].survey, surveyArg[p].token)'
      BY <1>1, <3>1, <3>2, PaidGrows DEF HoldsSignature, SignedFor
    <3> QED BY <3>1, <3>3, <3>4, <3>5 DEF SubmissionSigned, QuestionsOf
  <2> QED BY <2>1, <2>2
<1>4. ASSUME NEW q, NEW d, surveyPc[p] \in {"subFind", "subCreate"}, d[2] = q,
             q \in answering[p].texts, Choose(p, q, d)
      PROVE  SubmissionSigned(p)'
  <2> DEFINE a == surveyArg[p]
             work == answering[p]
             rest == work.texts \ {q}
  <2>1. /\ surveyPc'[p] = AfterTexts(work.practice, rest) /\ surveyArg'[p] = a
        /\ answering'[p].practice = work.practice /\ answering'[p].texts = rest
        /\ answering'[p].chosen = work.chosen \cup {d}
    BY <1>0, <1>4 DEF Choose, SurveyGoto, Answering
  <2>2. /\ surveyPc'[p] \in {"subFind", "subNotify", "subCommit"}
        /\ surveyPc'[p] = "subCommit" => ~work.practice
    BY <2>1 DEF AfterTexts
  <2>3. /\ work.practice \/ HoldsSignature(a.survey, a.token)
        /\ work.texts \subseteq QuestionsOf(a.survey)
        /\ \A c \in work.chosen : c[2] \in QuestionsOf(a.survey)
    BY <1>4 DEF SurveyInv, SubmissionSigned
  <2>4. work.practice \/ HoldsSignature(surveyArg[p].survey, surveyArg[p].token)'
    BY <1>1, <2>1, <2>3, PaidGrows DEF HoldsSignature, SignedFor
  <2> QED BY <1>4, <2>1, <2>2, <2>3, <2>4 DEF SubmissionSigned, QuestionsOf
<1>5. CASE SubmitFind(p)
  <2>1. PICK q \in answering[p].texts :
            \/ \E d \in surveyOptions \cap DynamicIds : d[2] = q /\ Choose(p, q, d)
            \/ /\ answering' = [answering EXCEPT ![p].at = q]
               /\ SurveyGoto(p, "subCreate")
               /\ UNCHANGED surveyArg
    BY <1>5 DEF SubmitFind
  <2>2. CASE \E d \in surveyOptions \cap DynamicIds : d[2] = q /\ Choose(p, q, d)
    BY <1>4, <1>5, <2>2 DEF SubmitFind
  <2>3. CASE /\ answering' = [answering EXCEPT ![p].at = q]
             /\ SurveyGoto(p, "subCreate")
             /\ UNCHANGED surveyArg
    <3>1. /\ surveyPc'[p] = "subCreate" /\ surveyArg'[p] = surveyArg[p]
          /\ answering'[p].practice = answering[p].practice
          /\ answering'[p].texts = answering[p].texts
          /\ answering'[p].chosen = answering[p].chosen /\ answering'[p].at = q
      BY <1>0, <2>3 DEF SurveyGoto, Answering
    <3>2. /\ answering[p].practice \/ HoldsSignature(surveyArg[p].survey, surveyArg[p].token)
          /\ answering[p].texts \subseteq QuestionsOf(surveyArg[p].survey)
          /\ \A c \in answering[p].chosen : c[2] \in QuestionsOf(surveyArg[p].survey)
      BY <1>5 DEF SubmitFind, SurveyInv, SubmissionSigned
    <3>3. answering[p].practice \/ HoldsSignature(surveyArg[p].survey, surveyArg[p].token)'
      BY <1>1, <3>1, <3>2, PaidGrows DEF HoldsSignature, SignedFor
    <3> QED BY <3>1, <3>2, <3>3 DEF SubmissionSigned, QuestionsOf
  <2> QED BY <2>1, <2>2, <2>3
<1>6. CASE SubmitCreate(p)
  <2>1. surveyPc[p] = "subCreate" /\ answering[p].at \in answering[p].texts
    BY <1>6 DEF SubmitCreate, SurveyInv, SubmissionSigned
  <2> QED BY <1>4, <1>6, <2>1 DEF SubmitCreate, Created
<1>7. CASE SubmitCommit(p)
  BY <1>0, <1>7, RestingSigned, EndSigned DEF SubmitCommit, RefuseAnswer, SurveyOn, SurveyGoto
<1>8. CASE SubmitCount(p) \/ SubmitTally(p)
  BY <1>0, <1>8, RestingSigned DEF SubmitCount, SubmitTally, SurveyOn, SurveyGoto
<1>9. CASE SubmitNotify(p)
  BY <1>9, EndSigned DEF SubmitNotify
<1> QED BY <1>2, <1>3, <1>5, <1>6, <1>7, <1>8, <1>9 DEF SubmitStep

\* A signature is of what some sign request brought.
LEMMA SignaturesStayAsked ==
    ASSUME SurveyTyped, SurveyInv, [SurveyNext]_surveyVars
    PROVE  SignaturesAsked'
<1>1. ASSUME NEW r \in told', r.kind = "signed" PROVE AskedFor(r.survey, r.token)
  <2>1. CASE r \in told
    BY <1>1, <2>1 DEF SurveyInv, SignaturesAsked
  <2>2. CASE r \notin told
    <3>1. PICK p \in Submissions :
              /\ surveyPc[p] = "sSignReply"
              /\ r = [kind |-> "signed", survey |-> surveyArg[p].survey,
                      token |-> surveyArg[p].blinded, practice |-> surveyArg[p].practice]
      BY <1>1, <2>2, NewReplies
    <3>2. surveyArg[p] \in SurveySigns
      BY <3>1, SignArgTyped DEF SurveySignPCs, SurveyTyped
    <3>3. surveyArg[p].survey = r.survey /\ surveyArg[p].blinded = r.token
      BY <3>1
    <3> QED BY <3>2, <3>3 DEF AskedFor
  <2> QED BY <2>1, <2>2
<1> QED BY <1>1 DEF SignaturesAsked, AskedFor

\* An answer came with its signature, and deleting an option leaves it that.
LEMMA AnswersStaySigned ==
    ASSUME SurveyTyped, SurveyInv, [SurveyNext]_surveyVars
    PROVE  AnswersSigned'
<1>1. told \subseteq told' /\ surveyRoll \subseteq surveyRoll'
  BY RollAndRepliesGrow
<1>2. \A a \in answers : HoldsSignature(SurveyOf(a), a.token)
  BY DEF SurveyInv, AnswersSigned
<1>3. ASSUME NEW b \in answers' PROVE HoldsSignature(SurveyOf(b), b.token)
  <2>1. ASSUME NEW p \in Submissions, SubmitCommit(p), b \notin answers
        PROVE  HoldsSignature(SurveyOf(b), b.token)
    <3>1. surveyPc[p] = "subCommit" /\ b \in AnswerRows(p)
      BY <1>3, <2>1 DEF SubmitCommit
    <3>2. HoldsSignature(surveyArg[p].survey, surveyArg[p].token)
      BY <3>1 DEF SurveyInv, SubmissionSigned
    <3> QED BY <3>1, <3>2, RowsOfOwnSurvey
  <2>2. ASSUME NEW o \in DeletableOptions, DeleteOption(o)
        PROVE  HoldsSignature(SurveyOf(b), b.token)
    <3>1. PICK a \in answers : b = IF a.option = o THEN [a EXCEPT !.option = Deleted] ELSE a
      BY <1>3, <2>2 DEF DeleteOption
    <3>2. b.question = a.question /\ b.token = a.token
      BY <3>1 DEF SurveyTyped, SurveyRowsOK, AnswerRow
    <3> QED BY <1>2, <3>2 DEF SurveyOf
  <2> QED BY <1>2, <1>3, <2>1, <2>2, AnswersKept
<1> QED BY <1>1, <1>3, PaidGrows DEF AnswersSigned, SurveyOf

\* Whatever clients send and votings leave in the table: a respondent is on the
\* roll once, a signature stored once, and whatever will be stored or was came
\* with a signature the server gave (signBlindedToken, submitResponse).
THEOREM SurveyInvariant == SurveySpec => []SurveyInv
<1>1. SurveyInit => SurveyInv
  BY DEF SurveyInit, SurveyInv, RollAndAnswersUnique, SignaturesAsked, AnswersSigned,
         SubmissionSigned
<1>2. SurveyTyped /\ SurveyInv /\ [SurveyNext]_surveyVars => SurveyInv'
  <2> SUFFICES ASSUME SurveyTyped, SurveyInv, [SurveyNext]_surveyVars PROVE SurveyInv'
    OBVIOUS
  <2>1. RollAndAnswersUnique' /\ SignaturesAsked' /\ AnswersSigned'
    BY RollAndAnswersStayUnique, SignaturesStayAsked, AnswersStaySigned
  <2>2. ASSUME NEW q \in Submissions PROVE SubmissionSigned(q)'
    <3>1. ASSUME NEW p \in Submissions,
                 \/ SurveySignBegin(p) \/ SurveySignStep(p)
                 \/ SubmitBegin(p) \/ SubmitStep(p)
                 \/ SealBegin(p) \/ SealStep(p) \/ SubmissionFails(p)
          PROVE  SubmissionSigned(q)'
      <4>1. CASE q # p
        BY <3>1, <4>1, OthersUnmoved, OthersStaySigned
      <4>2. CASE q = p /\ (SurveySignBegin(p) \/ SurveySignStep(p))
        BY <4>2, RestingSigned
        DEF SurveySignBegin, SurveySignStep, SurveySignCheck, SurveySignPending,
            SurveySignParticipate, SurveySignReply, SurveyStart, SurveyOn, SurveyEnd,
            SurveyGoto, SurveyTyped, SubmissionsOK
      <4>3. CASE q = p /\ (SubmitBegin(p) \/ SubmitStep(p))
        BY <4>3, SubmissionStaysSigned
      <4>4. CASE q = p /\ (SealBegin(p) \/ SealStep(p) \/ SubmissionFails(p))
        BY <4>4, RestingSigned
        DEF SealBegin, SealStep, SealHashes, SealTotal, SealRows, SealRead, SealCommit,
            SubmissionFails, SurveyStart, SurveyEnd, SurveyGoto, SurveyTyped, SubmissionsOK
      <4> QED BY <3>1, <4>1, <4>2, <4>3, <4>4
    <3>2. ASSUME \/ \E s \in Surveys : WorkerStep(s) \/ FailBroadcast(s) \/ SurveyTick(s)
                 \/ PendingRowsChange
                 \/ \E o \in DeletableOptions : DeleteOption(o)
                 \/ EvictCounter
                 \/ UNCHANGED surveyVars
          PROVE  SubmissionSigned(q)'
      <4>1. UNCHANGED submissionVars
        BY <3>2, OutsideUnmoved
      <4> QED BY <4>1, OthersStaySigned DEF submissionVars
    <3> QED BY <3>1, <3>2 DEF SurveyNext
  <2> QED BY <2>1, <2>2 DEF SurveyInv
<1> QED BY <1>1, <1>2, SurveyTypes, PTL DEF SurveySpec

-----------------------------------------------------------------------------
(* Clients that draw a token for each request: what is signed was paid     *)
(* for, or is practice.                                                    *)

\* A practice row goes only with a submission that was paid for.
LEMMA PracticeRowStays ==
    ASSUME SurveyFreshTokens, SurveyTyped, SurveyInv, SurveyPaidInv,
           [SurveyNext]_surveyVars, NEW t \in SurveyTokens, HasPracticeRow(t)
    PROVE  \/ HasPracticeRow(t)'
           \/ \A s : AskedFor(s, t) => SurveyPaid(s, t)
<1> USE DEF HasPracticeRow, IsSurveyPending, surveyRows, submissionVars, historyVars
<1>0. surveyPending \in [SurveyTokens -> SurveyPendingRow \cup {NoPendingRow}]
  BY DEF SurveyTyped, SurveyRowsOK
<1>1. ASSUME NEW p \in Submissions, SurveySignBegin(p) \/ SurveySignStep(p)
      PROVE  HasPracticeRow(t)'
  BY <1>0, <1>1 DEF SurveySignBegin, SurveySignStep, SurveySignCheck, SurveySignPending,
              SurveySignParticipate, SurveySignReply
<1>2. ASSUME NEW p \in Submissions, SubmitCommit(p), ~HasPracticeRow(t)',
             NEW s, AskedFor(s, t)
      PROVE  SurveyPaid(s, t)
  <2>1. surveyArg[p].token = t
    BY <1>0, <1>2 DEF SubmitCommit
  <2>2. HoldsSignature(surveyArg[p].survey, t) /\ SurveyPaid(surveyArg[p].survey, t)
    BY <1>2, <2>1 DEF SubmitCommit, SurveyInv, SurveyPaidInv, SubmissionSigned, SubmissionPaid
  <2>3. AskedFor(surveyArg[p].survey, t)
    BY <2>2 DEF HoldsSignature, SignedFor, SurveyInv, SignaturesAsked
  <2>4. s = surveyArg[p].survey
    BY <1>2, <2>3 DEF AskedFor, SurveyFreshTokens
  <2> QED BY <2>2, <2>4
<1>3. ASSUME NEW p \in Submissions, SubmitBegin(p) \/ SubmitStep(p), ~SubmitCommit(p)
      PROVE  HasPracticeRow(t)'
  BY <1>3 DEF SubmitBegin, SubmitStep, SubmitPending, SubmitFind, SubmitCreate,
              SubmitCount, SubmitTally, SubmitNotify
<1>4. ASSUME NEW p \in Submissions, SealBegin(p) \/ SealStep(p) \/ SubmissionFails(p)
      PROVE  HasPracticeRow(t)'
  BY <1>4 DEF SealBegin, SealStep, SealHashes, SealTotal, SealRows, SealRead, SealCommit,
              SubmissionFails
<1>5. ASSUME NEW s \in Surveys, WorkerStep(s) \/ FailBroadcast(s) \/ SurveyTick(s)
      PROVE  HasPracticeRow(t)'
  BY <1>5 DEF WorkerStep, TakeBroadcast, EmitBroadcast, CompleteBroadcast, FailBroadcast,
              BroadcastStep, SurveyTick
<1>6. ASSUME NEW u \in LateTokens, SurveyPendingExpires(u)
      PROVE  HasPracticeRow(t)'
  <2>1. surveyPending[t] \in SurveyPendingRow
    BY <1>0
  <2>2. CASE u = t
    <3>1. surveyPending'[t] = [surveyPending[t] EXCEPT !.expired = TRUE]
      BY <1>0, <1>6, <2>2 DEF SurveyPendingExpires
    <3>2. surveyPending'[t].practice = surveyPending[t].practice
      BY <2>1, <3>1 DEF SurveyPendingRow
    <3>3. surveyPending'[t] # NoPendingRow
      BY <2>1, <3>1, SurveyNullAssumption DEF SurveyPendingRow, NoPendingRow
    <3> QED BY <3>2, <3>3
  <2>3. CASE u # t
    BY <1>0, <1>6, <2>3 DEF SurveyPendingExpires
  <2> QED BY <2>2, <2>3
<1>7. ASSUME NEW u \in VotedTokens, VotingSignsToken(u) \/ VotingSpendsToken(u)
      PROVE  HasPracticeRow(t)'
  BY <1>0, <1>7 DEF VotingSignsToken, VotingSpendsToken
<1>8. ASSUME \/ \E o \in DeletableOptions : DeleteOption(o)
             \/ EvictCounter
             \/ UNCHANGED surveyVars
      PROVE  HasPracticeRow(t)'
  BY <1>8 DEF DeleteOption, EvictCounter, surveyVars
<1> QED BY <1>1, <1>2, <1>3, <1>4, <1>5, <1>6, <1>7, <1>8 DEF SurveyNext, PendingRowsChange

LEMMA SignatureStaysPaid ==
    ASSUME SurveyFreshTokens, SurveyTyped, SurveyInv, SurveyPaidInv, [SurveyNext]_surveyVars,
           NEW s, NEW t \in SurveyTokens, NEW practice, AskedFor(s, t),
           SurveySignaturePaid(s, t, practice)
    PROVE  SurveySignaturePaid(s, t, practice)'
<1>1. SurveyPaid(s, t) => SurveyPaid(s, t)'
  BY RollAndRepliesGrow, PaidGrows
<1>2. CASE SurveyPaid(s, t)
  BY <1>1, <1>2 DEF SurveySignaturePaid
<1>3. CASE practice /\ HasPracticeRow(t)
  BY <1>1, <1>3, PracticeRowStays DEF SurveySignaturePaid
<1> QED BY <1>2, <1>3 DEF SurveySignaturePaid

\* The client blinds the token it sends.
LEMMA SignsFresh ==
    ASSUME SurveyFreshTokens, SurveyTyped, NEW p \in Submissions, surveyPc[p] \in SurveySignPCs
    PROVE  /\ surveyArg[p].blinded = surveyArg[p].token
           /\ surveyArg[p].token \in SurveyTokens /\ surveyArg[p].token \notin VotedTokens
           /\ AskedFor(surveyArg[p].survey, surveyArg[p].token)
BY SignArgTyped DEF SurveyFreshTokens, SurveyTyped, AskedFor

\* A request that does not move stays paid for.
LEMMA OthersStayPaid ==
    ASSUME SurveyFreshTokens, SurveyTyped, SurveyInv, SurveyPaidInv, [SurveyNext]_surveyVars,
           NEW q \in Submissions,
           surveyPc'[q] = surveyPc[q], surveyArg'[q] = surveyArg[q],
           answering'[q] = answering[q]
    PROVE  SurveySigningPaid(q)' /\ SubmissionPaid(q)'
<1>1. SurveySigningPaid(q)'
  <2>1. SurveySigningPaid(q)
    BY DEF SurveyPaidInv
  <2>2. CASE surveyPc[q] = "sSignReply"
    <3>1. SurveySignaturePaid(surveyArg[q].survey, surveyArg[q].token, surveyArg[q].practice)'
      BY <2>1, <2>2, SignsFresh, SignatureStaysPaid DEF SurveySigningPaid, SurveySignPCs
    <3> QED BY <2>2, <3>1 DEF SurveySigningPaid, SurveySignaturePaid, SurveyPaid,
               HasPracticeRow, IsSurveyPending
  <2>3. CASE surveyPc[q] # "sSignReply"
    BY <2>1, <2>3 DEF SurveySigningPaid
  <2> QED BY <2>2, <2>3
<1>2. SubmissionPaid(q)'
  <2>1. SubmissionPaid(q)
    BY DEF SurveyPaidInv
  <2>2. SurveyPaid(surveyArg[q].survey, surveyArg[q].token) =>
            SurveyPaid(surveyArg[q].survey, surveyArg[q].token)'
    BY RollAndRepliesGrow, PaidGrows
  <2> QED BY <2>1, <2>2 DEF SubmissionPaid
<1> QED BY <1>1, <1>2

LEMMA RestingPaid ==
    ASSUME NEW p \in Submissions,
           surveyPc'[p] \notin {"sSignParticipate", "sSignReply", "subFind", "subCreate",
                                "subCommit"}
    PROVE  SurveySigningPaid(p)' /\ SubmissionPaid(p)'
BY DEF SurveySigningPaid, SubmissionPaid

LEMMA EndPaid ==
    ASSUME SurveyTyped, NEW p \in Submissions, SurveyEnd(p)
    PROVE  SurveySigningPaid(p)' /\ SubmissionPaid(p)'
BY RestingPaid DEF SurveyEnd, SurveyGoto, SurveyTyped, SubmissionsOK

\* Whoever replies with a signature has a practice row or a participation.
LEMMA SigningStaysPaid ==
    ASSUME SurveyFreshTokens, SurveyTyped, SurveyPaidInv, NEW p \in Submissions,
           SurveySignBegin(p) \/ SurveySignStep(p)
    PROVE  SurveySigningPaid(p)' /\ SubmissionPaid(p)'
<1>0. /\ surveyPc \in [Submissions -> SurveyPCs]
      /\ surveyPending \in [SurveyTokens -> SurveyPendingRow \cup {NoPendingRow}]
  BY DEF SurveyTyped, SubmissionsOK, SurveyRowsOK
<1>1. CASE SurveySignBegin(p)
  BY <1>0, <1>1, RestingPaid DEF SurveySignBegin, SurveyStart, SurveyGoto
<1>2. CASE SurveySignCheck(p)
  BY <1>0, <1>2, RestingPaid, EndPaid DEF SurveySignCheck, SurveyOn, SurveyGoto
<1>3. CASE SurveySignPending(p)
  <2>1. CASE SurveyEnd(p)
    BY <2>1, EndPaid
  <2>2. CASE ~SurveyEnd(p)
    <3> DEFINE a == surveyArg[p]
               row == [survey |-> a.survey, practice |-> a.practice, expired |-> FALSE]
    <3>1. /\ a.survey \in Surveys /\ a.token \in SurveyTokens /\ a.practice \in BOOLEAN
          /\ a.token \notin VotedTokens
      BY <1>3, SignArgTyped, SignsFresh DEF SurveySignPending, SurveyTyped, SurveySignPCs
    <3>2. /\ surveyPc'[p] = IF a.practice THEN "sSignReply" ELSE "sSignParticipate"
          /\ surveyArg'[p] = a
          /\ surveyPending'[a.token] = row
      BY <1>0, <1>3, <2>2, <3>1 DEF SurveySignPending, SurveyOn, SurveyGoto
    <3>3. a.practice => HasPracticeRow(a.token)'
      BY <3>1, <3>2, SurveyNullAssumption DEF HasPracticeRow, IsSurveyPending, NoPendingRow
    <3>4. surveyPc'[p] = "sSignReply" =>
              SurveySignaturePaid(surveyArg[p].survey, surveyArg[p].token, surveyArg[p].practice)'
      BY <3>1, <3>2, <3>3 DEF SurveySignaturePaid, HasPracticeRow, IsSurveyPending
    <3>5. SurveySigningPaid(p)'
      BY <3>1, <3>2, <3>4 DEF SurveySigningPaid
    <3> QED BY <3>1, <3>2, <3>5 DEF SubmissionPaid
  <2> QED BY <2>1, <2>2
<1>4. CASE SurveySignParticipate(p)
  <2>1. CASE SurveyEnd(p)
    BY <2>1, EndPaid
  <2>2. CASE ~SurveyEnd(p)
    <3> DEFINE a == surveyArg[p]
    <3>1. ~a.practice /\ a.blinded = a.token
      BY <1>4, SignsFresh DEF SurveySignParticipate, SurveyPaidInv, SurveySigningPaid,
                              SurveySignPCs
    <3>2. /\ surveyPc'[p] = "sSignReply" /\ surveyArg'[p] = a
          /\ [user |-> TokenOwner[a.token], survey |-> a.survey, token |-> a.token]
                \in surveyRoll'
      BY <1>0, <1>4, <2>2, <3>1 DEF SurveySignParticipate, SurveyOn, SurveyGoto, RespondentOf
    <3>3. SurveySigningPaid(p)'
      BY <3>1, <3>2 DEF SurveySigningPaid, SurveySignaturePaid, SurveyPaid
    <3> QED BY <3>2, <3>3 DEF SubmissionPaid
  <2> QED BY <2>1, <2>2
<1>5. CASE SurveySignReply(p)
  BY <1>5, EndPaid DEF SurveySignReply
<1> QED BY <1>1, <1>2, <1>3, <1>4, <1>5 DEF SurveySignStep

\* A signature of a token whose row is not for practice was paid for.
LEMMA SignedIsPaid ==
    ASSUME SurveyPaidInv, NEW s, NEW t, HoldsSignature(s, t), ~HasPracticeRow(t)
    PROVE  SurveyPaid(s, t)
<1>1. PICK r \in told : r.kind = "signed" /\ r.token = t /\ r.survey = s
  BY DEF HoldsSignature, SignedFor
<1>2. SurveySignaturePaid(s, t, r.practice)
  BY <1>1 DEF SurveyPaidInv, ToldPaid
<1> QED BY <1>2 DEF SurveySignaturePaid

\* A submission that is not practice is paid for from its check of the row on.
LEMMA AnswerStaysPaid ==
    ASSUME SurveyTyped, SurveyPaidInv, [SurveyNext]_surveyVars, NEW p \in Submissions,
           SubmitBegin(p) \/ SubmitStep(p)
    PROVE  SurveySigningPaid(p)' /\ SubmissionPaid(p)'
<1>0. /\ surveyPc \in [Submissions -> SurveyPCs]
      /\ answering \in [Submissions -> Answering]
      /\ surveyPending \in [SurveyTokens -> SurveyPendingRow \cup {NoPendingRow}]
  BY DEF SurveyTyped, SubmissionsOK, SurveyRowsOK
<1>1. surveyRoll \subseteq surveyRoll'
  BY RollAndRepliesGrow
<1>2. CASE SubmitBegin(p)
  BY <1>0, <1>2, RestingPaid DEF SubmitBegin, SurveyStart, SurveyGoto
<1>3. CASE SubmitPending(p)
  <2>1. CASE SurveyEnd(p)
    BY <2>1, EndPaid
  <2>2. CASE ~SurveyEnd(p)
    <3> DEFINE a == surveyArg[p]
               practice == SurveyPractice(p)
    <3>1. /\ surveyPc'[p] = AfterTexts(practice, OwnTexts(a)) /\ surveyArg'[p] = a
          /\ answering'[p].practice = practice
          /\ a.practice \/ (IsSurveyPending(a.token) /\ HoldsSignature(a.survey, a.token))
      BY <1>0, <1>3, <2>2 DEF SubmitPending, SurveyGoto
    <3>2. ~practice => SurveyPaid(a.survey, a.token)
      BY <3>1, SignedIsPaid DEF SurveyPractice, HasPracticeRow
    <3>3. surveyPc'[p] \in {"subFind", "subNotify", "subCommit"}
      BY <3>1 DEF AfterTexts
    <3> HIDE DEF practice
    <3> QED BY <1>1, <3>1, <3>2, <3>3 DEF SubmissionPaid, SurveyPaid, SurveySigningPaid
  <2> QED BY <2>1, <2>2
<1>4. ASSUME NEW q, NEW d, surveyPc[p] \in {"subFind", "subCreate"}, Choose(p, q, d)
      PROVE  SurveySigningPaid(p)' /\ SubmissionPaid(p)'
  <2> DEFINE a == surveyArg[p]
             work == answering[p]
  <2>1. /\ surveyPc'[p] = AfterTexts(work.practice, work.texts \ {q}) /\ surveyArg'[p] = a
        /\ answering'[p].practice = work.practice
    BY <1>0, <1>4 DEF Choose, SurveyGoto, Answering
  <2>2. surveyPc'[p] \in {"subFind", "subNotify", "subCommit"}
    BY <2>1 DEF AfterTexts
  <2>3. ~work.practice => SurveyPaid(a.survey, a.token)
    BY <1>4 DEF SurveyPaidInv, SubmissionPaid
  <2> QED BY <1>1, <2>1, <2>2, <2>3 DEF SubmissionPaid, SurveyPaid, SurveySigningPaid
<1>5. CASE SubmitFind(p)
  <2>1. PICK q :
            \/ \E d : Choose(p, q, d)
            \/ /\ answering' = [answering EXCEPT ![p].at = q]
               /\ SurveyGoto(p, "subCreate")
               /\ UNCHANGED surveyArg
    BY <1>5 DEF SubmitFind
  <2>2. CASE \E d : Choose(p, q, d)
    BY <1>4, <1>5, <2>2 DEF SubmitFind
  <2>3. CASE /\ answering' = [answering EXCEPT ![p].at = q]
             /\ SurveyGoto(p, "subCreate")
             /\ UNCHANGED surveyArg
    <3>1. /\ surveyPc'[p] = "subCreate" /\ surveyArg'[p] = surveyArg[p]
          /\ answering'[p].practice = answering[p].practice
      BY <1>0, <2>3 DEF SurveyGoto, Answering
    <3>2. ~answering[p].practice => SurveyPaid(surveyArg[p].survey, surveyArg[p].token)
      BY <1>5 DEF SubmitFind, SurveyPaidInv, SubmissionPaid
    <3> QED BY <1>1, <3>1, <3>2 DEF SubmissionPaid, SurveyPaid, SurveySigningPaid
  <2> QED BY <2>1, <2>2, <2>3
<1>6. CASE SubmitCreate(p)
  BY <1>4, <1>6 DEF SubmitCreate
<1>7. CASE SubmitCommit(p)
  BY <1>0, <1>7, RestingPaid, EndPaid DEF SubmitCommit, RefuseAnswer, SurveyOn, SurveyGoto
<1>8. CASE SubmitCount(p) \/ SubmitTally(p)
  BY <1>0, <1>8, RestingPaid DEF SubmitCount, SubmitTally, SurveyOn, SurveyGoto
<1>9. CASE SubmitNotify(p)
  BY <1>9, EndPaid DEF SubmitNotify
<1> QED BY <1>2, <1>3, <1>5, <1>6, <1>7, <1>8, <1>9 DEF SubmitStep

LEMMA ToldStaysPaid ==
    ASSUME SurveyFreshTokens, SurveyTyped, SurveyInv, SurveyPaidInv, [SurveyNext]_surveyVars
    PROVE  ToldPaid'
<1> SUFFICES ASSUME NEW r \in told', r.kind = "signed"
             PROVE  SurveySignaturePaid(r.survey, r.token, r.practice)'
  BY DEF ToldPaid
<1>1. CASE r \in told
  <2>1. r.token \in SurveyTokens
    BY <1>1 DEF SurveyTyped, SurveyRowsOK, Told
  <2>2. SurveySignaturePaid(r.survey, r.token, r.practice) /\ AskedFor(r.survey, r.token)
    BY <1>1 DEF SurveyInv, SignaturesAsked, SurveyPaidInv, ToldPaid
  <2> QED BY <2>1, <2>2, SignatureStaysPaid
<1>2. CASE r \notin told
  <2>1. PICK p \in Submissions :
            /\ surveyPc[p] = "sSignReply"
            /\ r = [kind |-> "signed", survey |-> surveyArg[p].survey,
                    token |-> surveyArg[p].blinded, practice |-> surveyArg[p].practice]
    BY <1>2, NewReplies
  <2>2. /\ r.survey = surveyArg[p].survey /\ r.token = surveyArg[p].token
        /\ r.practice = surveyArg[p].practice
        /\ r.token \in SurveyTokens /\ AskedFor(r.survey, r.token)
    BY <2>1, SignsFresh DEF SurveySignPCs
  <2>3. SurveySignaturePaid(r.survey, r.token, r.practice)
    BY <2>1, <2>2 DEF SurveyPaidInv, SurveySigningPaid
  <2> QED BY <2>2, <2>3, SignatureStaysPaid
<1> QED BY <1>1, <1>2

LEMMA AnswersStayPaid ==
    ASSUME SurveyTyped, SurveyInv, SurveyPaidInv, [SurveyNext]_surveyVars
    PROVE  AnswersPaid'
<1>1. surveyRoll \subseteq surveyRoll' /\ told \subseteq told'
  BY RollAndRepliesGrow
<1> SUFFICES ASSUME NEW b \in answers'
             PROVE  SurveyPaid(Question[b.question].survey, b.token)
  BY <1>1, PaidGrows DEF AnswersPaid, SurveyOf
<1>2. \A a \in answers : SurveyPaid(Question[a.question].survey, a.token)
  BY DEF SurveyPaidInv, AnswersPaid, SurveyOf
<1>3. ASSUME NEW p \in Submissions, SubmitCommit(p), b \notin answers
      PROVE  SurveyPaid(Question[b.question].survey, b.token)
  <2>1. surveyPc[p] = "subCommit" /\ b \in AnswerRows(p)
    BY <1>3 DEF SubmitCommit
  <2>2. SurveyPaid(surveyArg[p].survey, surveyArg[p].token)
    BY <2>1 DEF SurveyInv, SubmissionSigned, SurveyPaidInv, SubmissionPaid
  <2> QED BY <2>1, <2>2, RowsOfOwnSurvey DEF SurveyOf
<1>4. ASSUME NEW o \in DeletableOptions, DeleteOption(o)
      PROVE  SurveyPaid(Question[b.question].survey, b.token)
  <2>1. PICK a \in answers : b = IF a.option = o THEN [a EXCEPT !.option = Deleted] ELSE a
    BY <1>4 DEF DeleteOption
  <2>2. b.question = a.question /\ b.token = a.token
    BY <2>1 DEF SurveyTyped, SurveyRowsOK, AnswerRow
  <2> QED BY <1>2, <2>2
<1> QED BY <1>2, <1>3, <1>4, AnswersKept

\* With clients that draw a token for each request and blind that one, every
\* signature that went out, every submission that will be stored and every
\* answer is paid for by a participation, through practice runs, lost replies,
\* racing requests and the rows votings keep in the same table.
THEOREM SurveyPaidInvariant ==
    ASSUME SurveyFreshTokens
    PROVE  SurveySpec => []SurveyPaidInv
<1>1. SurveyInit => SurveyPaidInv
  BY DEF SurveyInit, SurveyPaidInv, ToldPaid, AnswersPaid, SurveySigningPaid, SubmissionPaid
<1>2. SurveyTyped /\ SurveyInv /\ SurveyPaidInv /\ [SurveyNext]_surveyVars => SurveyPaidInv'
  <2> SUFFICES ASSUME SurveyTyped, SurveyInv, SurveyPaidInv, [SurveyNext]_surveyVars
               PROVE  SurveyPaidInv'
    OBVIOUS
  <2>1. ToldPaid' /\ AnswersPaid'
    BY ToldStaysPaid, AnswersStayPaid
  <2>2. ASSUME NEW q \in Submissions PROVE SurveySigningPaid(q)' /\ SubmissionPaid(q)'
    <3>1. ASSUME NEW p \in Submissions,
                 \/ SurveySignBegin(p) \/ SurveySignStep(p)
                 \/ SubmitBegin(p) \/ SubmitStep(p)
                 \/ SealBegin(p) \/ SealStep(p) \/ SubmissionFails(p)
          PROVE  SurveySigningPaid(q)' /\ SubmissionPaid(q)'
      <4>1. CASE q # p
        BY <3>1, <4>1, OthersUnmoved, OthersStayPaid
      <4>2. CASE q = p /\ (SurveySignBegin(p) \/ SurveySignStep(p))
        BY <4>2, SigningStaysPaid
      <4>3. CASE q = p /\ (SubmitBegin(p) \/ SubmitStep(p))
        BY <4>3, AnswerStaysPaid
      <4>4. CASE q = p /\ (SealBegin(p) \/ SealStep(p) \/ SubmissionFails(p))
        BY <4>4, RestingPaid
        DEF SealBegin, SealStep, SealHashes, SealTotal, SealRows, SealRead, SealCommit,
            SubmissionFails, SurveyStart, SurveyEnd, SurveyGoto, SurveyTyped, SubmissionsOK
      <4> QED BY <3>1, <4>1, <4>2, <4>3, <4>4
    <3>2. ASSUME \/ \E s \in Surveys : WorkerStep(s) \/ FailBroadcast(s) \/ SurveyTick(s)
                 \/ PendingRowsChange
                 \/ \E o \in DeletableOptions : DeleteOption(o)
                 \/ EvictCounter
                 \/ UNCHANGED surveyVars
          PROVE  SurveySigningPaid(q)' /\ SubmissionPaid(q)'
      <4>1. UNCHANGED submissionVars
        BY <3>2, OutsideUnmoved
      <4> QED BY <4>1, OthersStayPaid DEF submissionVars
    <3> QED BY <3>1, <3>2 DEF SurveyNext
  <2> QED BY <2>1, <2>2 DEF SurveyPaidInv
<1> QED BY <1>1, <1>2, SurveyTypes, SurveyInvariant, PTL DEF SurveySpec

\* Such a client's respondent has at most one answer in a survey: two answers
\* are paid for by one row of the roll, which has one token, and a signature is
\* stored once (unique indexes on the roll and on the signature).
THEOREM OneAnswer ==
    ASSUME SurveyFreshTokens
    PROVE  SurveySpec => []OneAnswerPerRespondent
<1>1. SurveyInv /\ SurveyPaidInv => OneAnswerPerRespondent
  <2> SUFFICES ASSUME SurveyInv, SurveyPaidInv, NEW b1 \in answers, NEW b2 \in answers,
                      SurveyOf(b1) = SurveyOf(b2), TokenOwner[b1.token] = TokenOwner[b2.token]
               PROVE  b1 = b2
    BY DEF OneAnswerPerRespondent
  <2> DEFINE s == SurveyOf(b1)
  <2>1. SurveyPaid(s, b1.token) /\ SurveyPaid(s, b2.token)
    BY DEF SurveyPaidInv, AnswersPaid
  <2>2. b1.token = b2.token
    BY <2>1 DEF SurveyPaid, SurveyInv, RollAndAnswersUnique
  <2> QED BY <2>2 DEF SurveyInv, RollAndAnswersUnique, SignatureOf, SurveyOf
<1> QED BY <1>1, SurveyInvariant, SurveyPaidInvariant, PTL

-----------------------------------------------------------------------------
(* What a step changes.                                                    *)

\* The submission is in the table, or was not refused as an abstention, and the
\* client has not been told yet.
Stored(p) ==
    \/ surveyPc[p] \in {"subCount", "subTally"}
    \/ surveyPc[p] = "subNotify" /\ ~answering[p].practice

\* Nothing in the tables, the counters or the replies hangs on the request.
Apart(p) == ~Stored(p) /\ surveyPc[p] \notin {"sSignParticipate", "sSignReply"} \cup SealPCs

Unmoved(p) ==
    /\ surveyPc'[p] = surveyPc[p] /\ surveyArg'[p] = surveyArg[p]
    /\ answering'[p] = answering[p] /\ sealing'[p] = sealing[p]

\* The steps of a request leave the others alone.
LEMMA OthersUnmovedAtAll ==
    ASSUME SurveyTyped, SurveyCountsOK, NEW p \in Submissions, NEW q \in Submissions, q # p,
           \/ SurveySignBegin(p) \/ SurveySignStep(p) \/ SubmitBegin(p) \/ SubmitStep(p)
           \/ SealBegin(p) \/ SealStep(p) \/ SubmissionFails(p)
    PROVE  Unmoved(q)
<1>1. /\ surveyPc'[q] = surveyPc[q] /\ surveyArg'[q] = surveyArg[q]
      /\ answering'[q] = answering[q]
  BY OthersUnmoved
<1> USE DEF SurveyCountsOK, SurveyEnd, SurveyOn
<1>2. CASE SurveySignBegin(p) \/ SurveySignStep(p)
  <2>1. sealing'[q] = sealing[q]
    BY <1>2 DEF SurveySignBegin, SurveySignStep, SurveySignCheck, SurveySignPending,
                SurveySignParticipate, SurveySignReply
  <2> QED BY <1>1, <2>1 DEF Unmoved
<1>3. CASE SubmitBegin(p) \/ SubmitStep(p)
  <2>1. sealing'[q] = sealing[q]
    BY <1>3 DEF SubmitBegin, SubmitStep, SubmitPending, SubmitFind, SubmitCreate, Choose,
                SubmitCommit, RefuseAnswer, SubmitCount, SubmitTally, SubmitNotify
  <2> QED BY <1>1, <2>1 DEF Unmoved
<1>4. CASE SealBegin(p) \/ SealStep(p) \/ SubmissionFails(p)
  <2>1. sealing'[q] = sealing[q]
    BY <1>4 DEF SealBegin, SealStep, SealHashes, SealTotal, SealRows, SealRead, SealCommit,
                SubmissionFails
  <2> QED BY <1>1, <2>1 DEF Unmoved
<1> QED BY <1>2, <1>3, <1>4

\* Before it is stored a submission touches nothing but the options.
LEMMA ApartStays ==
    ASSUME SurveyTyped, NEW p \in Submissions,
           \/ SurveySignBegin(p) \/ SurveySignCheck(p) \/ SubmitBegin(p)
           \/ SubmitPending(p) \/ SubmitFind(p) \/ SubmitCreate(p)
    PROVE  Apart(p) /\ Apart(p)'
<1> USE DEF SurveyTyped, SubmissionsOK, Apart, Stored, SealPCs
<1>1. CASE SurveySignBegin(p) \/ SurveySignCheck(p) \/ SubmitBegin(p)
  BY <1>1 DEF SurveySignBegin, SurveySignCheck, SubmitBegin, SurveyStart, SurveyOn, SurveyEnd,
              SurveyGoto
<1>2. CASE SubmitPending(p)
  <2>1. CASE SurveyEnd(p)
    BY <1>2, <2>1 DEF SubmitPending, SurveyEnd, SurveyGoto
  <2>2. CASE ~SurveyEnd(p)
    <3>1. /\ answering' = [answering EXCEPT ![p] =
                [practice |-> SurveyPractice(p), texts |-> OwnTexts(surveyArg[p]),
                 at |-> Nothing, chosen |-> {}]]
          /\ SurveyGoto(p, AfterTexts(SurveyPractice(p), OwnTexts(surveyArg[p])))
          /\ surveyPc[p] = "subPending"
      BY <1>2, <2>2 DEF SubmitPending
    <3>2. /\ answering'[p].practice = SurveyPractice(p)
          /\ surveyPc'[p] = AfterTexts(SurveyPractice(p), OwnTexts(surveyArg[p]))
      BY <3>1 DEF SurveyGoto
    <3> QED BY <3>1, <3>2 DEF AfterTexts
  <2> QED BY <2>1, <2>2
<1>3. ASSUME NEW q, NEW d, Choose(p, q, d), surveyPc[p] \in {"subFind", "subCreate"}
      PROVE  Apart(p) /\ Apart(p)'
  <2>1. answering'[p].practice = answering[p].practice
    BY <1>3 DEF Choose, Answering
  <2>2. surveyPc'[p] = AfterTexts(answering[p].practice, answering[p].texts \ {q})
    BY <1>3 DEF Choose, SurveyGoto
  <2> QED BY <1>3, <2>1, <2>2 DEF AfterTexts
<1>4. CASE SubmitFind(p)
  <2>1. \/ \E q, d : Choose(p, q, d)
        \/ SurveyGoto(p, "subCreate")
    BY <1>4 DEF SubmitFind
  <2>2. CASE SurveyGoto(p, "subCreate")
    BY <1>4, <2>2 DEF SubmitFind, SurveyGoto
  <2> QED BY <1>3, <1>4, <2>1, <2>2 DEF SubmitFind
<1>5. CASE SubmitCreate(p)
  BY <1>3, <1>5 DEF SubmitCreate
<1> QED BY <1>1, <1>2, <1>4, <1>5

-----------------------------------------------------------------------------
(* The rows of a submission.                                               *)

\* All rows of a submission carry one signature, so it stores at most one.
LEMMA AtMostOneRow ==
    ASSUME SurveyTyped, SurveyInv, NEW p \in Submissions, surveyPc[p] = "subCommit",
           AnswerSignatureUnique(AnswerRows(p))
    PROVE  /\ \A r1, r2 \in AnswerRows(p) : r1 = r2
           /\ IsFiniteSet(AnswerRows(p))
           /\ \A r \in AnswerRows(p) : r \notin answers
<1>1. \A r \in AnswerRows(p) : SignatureOf(r) = <<surveyArg[p].survey, surveyArg[p].token>>
  BY RowsOfOwnSurvey DEF SignatureOf, SurveyOf
<1>2. \A r1, r2 \in AnswerRows(p) : r1 = r2
  BY <1>1 DEF AnswerSignatureUnique
<1>3. IsFiniteSet(AnswerRows(p))
  <2>1. CASE AnswerRows(p) = {}
    BY <2>1, FS_EmptySet
  <2>2. CASE AnswerRows(p) # {}
    <3>1. PICK r : AnswerRows(p) = {r}
      BY <1>2, <2>2
    <3> QED BY <3>1, FS_Singleton
  <2> QED BY <2>1, <2>2
<1>4. \A r \in AnswerRows(p) : r \notin answers
  BY DEF AnswerSignatureUnique
<1> QED BY <1>2, <1>3, <1>4

\* What a submission stores, and what it leaves when it is refused.
LEMMA CommitCases ==
    ASSUME SurveyTyped, SurveyInv, NEW p \in Submissions, SubmitCommit(p)
    PROVE  \/ /\ AnswerSignatureUnique(AnswerRows(p))
              /\ \A r \in AnswerRows(p) : r.option \in surveyOptions
              /\ answers' = answers \cup AnswerRows(p)
              /\ surveyPending' = [surveyPending EXCEPT ![surveyArg[p].token] = NoPendingRow]
              /\ spent' = spent \cup {surveyArg[p].token}
              /\ surveyPc'[p] = "subCount" /\ surveyArg'[p] = surveyArg[p]
              /\ answering'[p] = answering[p] /\ sealing'[p] = sealing[p]
           \/ /\ UNCHANGED <<answers, surveyPending, spent, reused, repeats>>
              /\ surveyPc'[p] = "idle" /\ SurveyEnd(p)
<1> USE DEF SurveyTyped, SubmissionsOK
<1>1. CASE RefuseAnswer(p) /\ UNCHANGED <<answers, surveyPending, spent, reused, repeats>>
  BY <1>1 DEF RefuseAnswer, SurveyEnd, SurveyGoto
<1>2. CASE ~(RefuseAnswer(p) /\ UNCHANGED <<answers, surveyPending, spent, reused, repeats>>)
  <2>1. /\ AnswerSignatureUnique(AnswerRows(p))
        /\ \A r \in AnswerRows(p) : r.option \in surveyOptions
        /\ answers' = answers \cup AnswerRows(p)
        /\ surveyPending' = [surveyPending EXCEPT ![surveyArg[p].token] = NoPendingRow]
        /\ spent' = spent \cup {surveyArg[p].token}
        /\ SurveyOn(p, "subCount")
    BY <1>2 DEF SubmitCommit
  <2> QED BY <2>1 DEF SurveyOn, SurveyGoto
<1> QED BY <1>1, <1>2

\* What is stored is the first with its token, or a repeat the index does not see.
LEMMA FirstOrRepeat ==
    ASSUME SurveyTyped, SurveyInv, NEW p \in Submissions, SubmitCommit(p),
           surveyPc'[p] = "subCount"
    PROVE  \/ surveyArg[p].token \notin spent
           \/ /\ reused' = reused \cup {surveyArg[p].token}
              /\ repeats' = [repeats EXCEPT ![surveyArg[p].survey] = @ + 1]
<1>1. surveyPc[p] = "subCommit" /\ AnswerSignatureUnique(AnswerRows(p))
  BY CommitCases DEF SubmitCommit
<1>2. ~SurveyEnd(p)
  BY DEF SurveyEnd, SurveyGoto, SurveyTyped, SubmissionsOK
<1>3. /\ reused' = IF IsRepeat(p) THEN reused \cup {surveyArg[p].token} ELSE reused
      /\ repeats' = IF IsRepeat(p) THEN [repeats EXCEPT ![surveyArg[p].survey] = @ + 1]
                    ELSE repeats
  BY <1>2 DEF SubmitCommit, RefuseAnswer
<1>4. ASSUME NEW r \in AnswerRows(p), NEW b \in AnswersTo(surveyArg[p].survey),
             b.token = surveyArg[p].token
      PROVE  FALSE
  <2>1. SurveyOf(r) = surveyArg[p].survey /\ r.token = surveyArg[p].token
    BY <1>1, RowsOfOwnSurvey
  <2>2. b \in answers /\ SignatureOf(r) = SignatureOf(b)
    BY <1>4, <2>1 DEF AnswersTo, SignatureOf, SurveyOf
  <2> QED BY <1>1, <2>2 DEF AnswerSignatureUnique
<1>5. surveyArg[p].token \in spent => IsRepeat(p)
  BY <1>4 DEF IsRepeat
<1> QED BY <1>3, <1>5

\* The rows are finitely many.
LEMMA AnswersStayFinite ==
    ASSUME SurveyTyped, SurveyInv, [SurveyNext]_surveyVars, IsFiniteSet(answers)
    PROVE  IsFiniteSet(answers')
<1>1. ASSUME NEW p \in Submissions, SubmitCommit(p) PROVE IsFiniteSet(answers')
  <2>1. CASE answers' = answers
    BY <2>1
  <2>2. CASE answers' = answers \cup AnswerRows(p) /\ AnswerSignatureUnique(AnswerRows(p))
    <3>1. IsFiniteSet(AnswerRows(p))
      BY <1>1, <2>2, AtMostOneRow DEF SubmitCommit
    <3> QED BY <2>2, <3>1, FS_Union
  <2> QED BY <1>1, <2>1, <2>2, CommitCases
<1>2. ASSUME NEW o \in DeletableOptions, DeleteOption(o) PROVE IsFiniteSet(answers')
  <2> DEFINE f == [b \in answers |-> IF b.option = o THEN [b EXCEPT !.option = Deleted] ELSE b]
  <2>1. answers' = {f[b] : b \in answers}
    BY <1>2 DEF DeleteOption
  <2>2. f \in Surjection(answers, answers')
    BY <2>1 DEF Surjection
  <2> QED BY <2>2, FS_Surjection
<1> QED BY <1>1, <1>2, AnswersKept

-----------------------------------------------------------------------------
(* Types: what is counted, sealed and shown.                               *)

\* No requests, no counts.
LEMMA NullCounts ==
    NoCounts \in Counts /\ NotSealing \in Sealing /\ NotSealing.owed = {}
BY DEF NoCounts, Counts, NotSealing, Sealing

\* The counts shown and sealed are numbers.
LEMMA CountsAreNumbers ==
    ASSUME SurveyCountsOK, IsFiniteSet(answers)
    PROVE  /\ \A s \in Surveys : LiveTotal(s) \in Nat
           /\ \A k : IsFiniteSet(RowsUnder(k)) /\ Cardinality(RowsUnder(k)) \in Nat
<1>1. \A s : AnswersTo(s) \subseteq answers
  BY DEF AnswersTo
<1>2. \A k : RowsUnder(k) \subseteq answers
  BY DEF RowsUnder
<1>3. \A s : Cardinality(AnswersTo(s)) \in Nat
  BY <1>1, FS_Subset, FS_CardinalityType
<1>4. \A k : IsFiniteSet(RowsUnder(k)) /\ Cardinality(RowsUnder(k)) \in Nat
  BY <1>2, FS_Subset, FS_CardinalityType
<1> QED BY <1>3, <1>4 DEF LiveTotal, SurveyCountsOK

\* A step that changes at most which finalization a request is at.
LEMMA SealingTyped ==
    ASSUME SurveyCountsOK, sealing' \in [Submissions -> Sealing],
           UNCHANGED <<sealedSurvey, counterVars, broadcastVars, lostCounters>>,
           surveyFaults' \in 0..MaxSurveyFaults
    PROVE  SurveyCountsOK'
BY DEF SurveyCountsOK, counterVars, broadcastVars

LEMMA SealReadTyped ==
    ASSUME SurveyCountsOK, NEW p \in Submissions, NEW from, NEW to,
           NEW total \in Nat, NEW counts \in Counts, SealRead(p, from, to, total, counts)
    PROVE  SurveyCountsOK'
<1>1. sealing' = [sealing EXCEPT ![p] = [sealing[p] EXCEPT !.total = total, !.counts = counts]]
  BY DEF SealRead, SurveyCountsOK
<1>2. [sealing[p] EXCEPT !.total = total, !.counts = counts] \in Sealing
  BY DEF SurveyCountsOK, Sealing
<1>3. sealing' \in [Submissions -> Sealing]
  BY <1>1, <1>2 DEF SurveyCountsOK
<1> QED BY <1>3, SealingTyped DEF SealRead, surveyRows, NoSurveyFault, SurveyCountsOK

LEMMA CountsStayTyped ==
    ASSUME SurveyTyped, SurveyCountsOK, IsFiniteSet(answers), [SurveyNext]_surveyVars
    PROVE  SurveyCountsOK'
<1>0. /\ sealing \in [Submissions -> Sealing] /\ tally \in Counts
      /\ sealedSurvey \in [Surveys -> Sealing \cup {NoResult}]
      /\ responses \in [Surveys -> Nat] /\ abstained \in [Surveys -> Nat]
      /\ broadcastJob \in [Surveys -> {"none", "waiting", "active", "emitted"}]
      /\ shown \in [Surveys -> Nat] /\ missed \in [Surveys -> BOOLEAN]
      /\ surveyFaults \in 0..MaxSurveyFaults /\ lostCounters \in 0..MaxLostCounters
      /\ MaxSurveyFaults \in Nat /\ MaxLostCounters \in Nat
  BY SurveyFaultsAssumption DEF SurveyCountsOK
<1>f. SurveyFault => surveyFaults' \in 0..MaxSurveyFaults
  BY <1>0 DEF SurveyFault
<1>e. \A p \in Submissions : SurveyEnd(p) => sealing' \in [Submissions -> Sealing]
  BY <1>0, NullCounts DEF SurveyEnd
<1>1. ASSUME NEW p \in Submissions, SurveySignBegin(p) \/ SurveySignStep(p)
      PROVE  SurveyCountsOK'
  <2>1. /\ sealing' = sealing \/ SurveyEnd(p)
        /\ UNCHANGED <<sealedSurvey, counterVars, broadcastVars, lostCounters>>
        /\ SurveyFault \/ UNCHANGED surveyFaults
    BY <1>1 DEF SurveySignBegin, SurveySignStep, SurveySignCheck, SurveySignPending,
                SurveySignParticipate, SurveySignReply, SurveyOn, surveyRows, NoSurveyFault
  <2> QED BY <1>0, <1>e, <1>f, <2>1, SealingTyped
<1>2. ASSUME NEW p \in Submissions,
             \/ SubmitBegin(p) \/ SubmitPending(p) \/ SubmitFind(p) \/ SubmitCreate(p)
             \/ SubmitCommit(p) \/ SubmissionFails(p)
      PROVE  SurveyCountsOK'
  <2>1. /\ sealing' = sealing \/ SurveyEnd(p)
        /\ UNCHANGED <<sealedSurvey, counterVars, broadcastVars, lostCounters>>
        /\ SurveyFault \/ UNCHANGED surveyFaults
    BY <1>2 DEF SubmitBegin, SubmitPending, SubmitFind, SubmitCreate, Choose, SubmitCommit,
                RefuseAnswer, SubmissionFails, SurveyOn, surveyRows, NoSurveyFault
  <2> QED BY <1>0, <1>e, <1>f, <2>1, SealingTyped
<1>3. ASSUME NEW p \in Submissions, SubmitCount(p) PROVE SurveyCountsOK'
  <2>1. surveyArg[p].survey \in Surveys
    BY <1>3, AnswerArgTyped DEF SubmitCount, SubmitPCs, SurveyTyped
  <2>2. responses' \in [Surveys -> Nat]
    BY <1>0, <1>3, <2>1 DEF SubmitCount
  <2> QED BY <1>0, <1>3, <2>2
      DEF SubmitCount, SurveyOn, SurveyCountsOK, surveyRows, broadcastVars, NoSurveyFault
<1>4. ASSUME NEW p \in Submissions, SubmitTally(p) PROVE SurveyCountsOK'
  <2>1. surveyArg[p].survey \in Surveys
    BY <1>4, AnswerArgTyped DEF SubmitTally, SubmitPCs, SurveyTyped
  <2>2. abstained' \in [Surveys -> Nat]
    BY <1>0, <1>4, <2>1 DEF SubmitTally
  <2>3. \A k \in CounterKeys : tally[k] \in Nat /\ tally[k] + 1 \in Nat
    BY <1>0 DEF Counts
  <2>4. tally' \in Counts
    BY <1>4, <2>3 DEF SubmitTally, Counts
  <2> QED BY <1>0, <1>4, <2>2, <2>4
      DEF SubmitTally, SurveyOn, SurveyCountsOK, surveyRows, broadcastVars, NoSurveyFault
<1>5. ASSUME NEW p \in Submissions, SubmitNotify(p) PROVE SurveyCountsOK'
  <2>1. sealing' \in [Submissions -> Sealing] /\ UNCHANGED <<sealedSurvey, counterVars, lostCounters>>
    BY <1>5, <1>e DEF SubmitNotify, surveyRows
  <2>2. surveyFaults' \in 0..MaxSurveyFaults
    BY <1>0, <1>5, <1>f DEF SubmitNotify
  <2>3. UNCHANGED broadcastVars \/ AddBroadcast(surveyArg[p].survey)
    BY <1>5 DEF SubmitNotify
  <2>4. /\ broadcastJob' \in [Surveys -> {"none", "waiting", "active", "emitted"}]
        /\ shown' \in [Surveys -> Nat] /\ missed' \in [Surveys -> BOOLEAN]
    BY <1>0, <2>3 DEF AddBroadcast, broadcastVars
  <2> QED BY <1>0, <2>1, <2>2, <2>4 DEF SurveyCountsOK, counterVars
<1>6. ASSUME NEW p \in Submissions, SealBegin(p) PROVE SurveyCountsOK'
  <2>1. PICK s \in SealableSurveys : sealing' = [sealing EXCEPT ![p].owed = AnsweredBy(s)]
    BY <1>6 DEF SealBegin
  <2>2. AnsweredBy(s) \subseteq SurveyTokens
    BY DEF AnsweredBy, SurveyTyped, SurveyRowsOK, Told
  <2>3. sealing' \in [Submissions -> Sealing]
    BY <1>0, <2>1, <2>2 DEF Sealing
  <2> QED BY <1>0, <1>6, <2>3, SealingTyped DEF SealBegin, surveyRows, NoSurveyFault
<1>7. ASSUME NEW p \in Submissions, SealStep(p) PROVE SurveyCountsOK'
  <2>0. surveyArg[p].survey \in Surveys
    <3>1. surveyPc[p] \in SealPCs
      BY <1>7 DEF SealStep, SealHashes, SealTotal, SealRows, SealCommit, SealRead, SealPCs
    <3> QED BY <3>1 DEF SurveyTyped, SubmissionsOK, SealRequest
  <2>1. /\ sealing[p].total \in Nat /\ sealing[p].counts \in Counts
        /\ \A k \in CounterKeys : tally[k] \in Nat /\ sealing[p].counts[k] \in Nat
    BY <1>0 DEF Sealing, Counts
  <2>2. CASE SealHashes(p)
    <3>1. [k \in CounterKeys |-> IF k \in KeysOf(surveyArg[p].survey) THEN tally[k] ELSE 0] \in Counts
      BY <2>1 DEF Counts
    <3> QED BY <2>2, <3>1, SealReadTyped DEF SealHashes
  <2>3. CASE SealTotal(p)
    <3>1. LiveTotal(surveyArg[p].survey) \in Nat
      BY <2>0, CountsAreNumbers
    <3> QED BY <2>1, <2>3, <3>1, SealReadTyped DEF SealTotal
  <2>4. CASE SealRows(p)
    <3>1. \A k \in CounterKeys : SealedCount(p, k) \in Nat
      BY <2>1, CountsAreNumbers DEF SealedCount
    <3>2. [k \in CounterKeys |-> SealedCount(p, k)] \in Counts
      BY <3>1 DEF Counts
    <3> QED BY <2>1, <2>4, <3>2, SealReadTyped DEF SealRows
  <2>5. CASE SealCommit(p)
    <3>1. sealedSurvey' \in [Surveys -> Sealing \cup {NoResult}]
      BY <1>0, <2>0, <2>5 DEF SealCommit
    <3>2. sealing' \in [Submissions -> Sealing]
      BY <1>e, <2>5 DEF SealCommit
    <3> QED BY <1>0, <2>5, <3>1, <3>2
        DEF SealCommit, SurveyCountsOK, counterVars, broadcastVars, NoSurveyFault
  <2> QED BY <1>7, <2>2, <2>3, <2>4, <2>5 DEF SealStep
<1>8. ASSUME NEW s \in Surveys, WorkerStep(s) \/ FailBroadcast(s) PROVE SurveyCountsOK'
  <2>1. /\ UNCHANGED <<sealing, sealedSurvey, counterVars, lostCounters>>
        /\ broadcastJob' \in [Surveys -> {"none", "waiting", "active", "emitted"}]
        /\ surveyFaults' \in 0..MaxSurveyFaults
    BY <1>0, <1>8, <1>f DEF WorkerStep, TakeBroadcast, EmitBroadcast, CompleteBroadcast,
       FailBroadcast, BroadcastStep, submissionVars, surveyRows
  <2>2. missed' \in [Surveys -> BOOLEAN]
    BY <1>0, <1>8 DEF WorkerStep, TakeBroadcast, EmitBroadcast, CompleteBroadcast, FailBroadcast
  <2>3. shown' \in [Surveys -> Nat]
    <3>1. CASE EmitBroadcast(s)
      <4>1. sealedSurvey[s] # NoResult => sealedSurvey[s].total \in Nat
        BY <1>0 DEF Sealing
      <4> QED BY <1>0, <3>1, <4>1, CountsAreNumbers DEF EmitBroadcast
    <3>2. CASE ~EmitBroadcast(s)
      BY <1>0, <1>8, <3>2 DEF WorkerStep, TakeBroadcast, CompleteBroadcast, FailBroadcast
    <3> QED BY <3>1, <3>2
  <2> QED BY <1>0, <2>1, <2>2, <2>3 DEF SurveyCountsOK, counterVars
<1>9. ASSUME \/ \E s \in Surveys : SurveyTick(s)
             \/ PendingRowsChange
             \/ \E o \in DeletableOptions : DeleteOption(o)
             \/ UNCHANGED surveyVars
      PROVE  SurveyCountsOK'
  BY <1>0, <1>9
  DEF SurveyTick, PendingRowsChange, SurveyPendingExpires, VotingSignsToken, VotingSpendsToken,
     DeleteOption, surveyVars, SurveyCountsOK, submissionVars, surveyRows, counterVars,
     broadcastVars, NoSurveyFault
<1>10. CASE EvictCounter
  <2>1. responses' \in [Surveys -> Nat] /\ abstained' \in [Surveys -> Nat]
    BY <1>0, <1>10 DEF EvictCounter
  <2>2. tally' \in Counts
    BY <1>0, <1>10 DEF EvictCounter, Counts
  <2>3. lostCounters' \in 0..MaxLostCounters
    BY <1>0, <1>10 DEF EvictCounter
  <2> QED BY <1>0, <1>10, <2>1, <2>2, <2>3
      DEF EvictCounter, SurveyCountsOK, submissionVars, surveyRows, broadcastVars
<1> QED BY <1>1, <1>2, <1>3, <1>4, <1>5, <1>6, <1>7, <1>8, <1>9, <1>10
    DEF SurveyNext, SubmitStep

-----------------------------------------------------------------------------
(* The counters of the options are backed by rows.                         *)

\* An answer that names an option names one that is there.
RowsThere == \A b \in answers : b.option # Deleted => b.option \in surveyOptions

\* Where Redis will count the rows of a submission.
Keys(p) == {KeyOf(r.option) : r \in AnswerRows(p)}

\* The submissions whose row is stored and not counted under k yet.
Owing(k) == {p \in Submissions : surveyPc[p] \in {"subCount", "subTally"} /\ k \in Keys(p)}

\* Not the counter of an option that was deleted.
Live(k) == k \in StaticOptions => k \in surveyOptions

Backed(k) ==
    /\ IsFiniteSet(Owing(k))
    /\ Live(k) => tally[k] + Cardinality(Owing(k)) <= Cardinality(RowsUnder(k))

\* Each count, and each submission that will still be counted, has a row of its own.
BackedInv ==
    /\ SurveyCountsOK
    /\ IsFiniteSet(answers)
    /\ RowsThere
    /\ \A k \in CounterKeys : Backed(k)

\* A set with an element more or less.
LEMMA OneMoreOrLess ==
    ASSUME NEW S, IsFiniteSet(S), NEW x
    PROVE  /\ Cardinality(S) \in Nat
           /\ IsFiniteSet(S \cup {x}) /\ Cardinality(S \cup {x}) \in Nat
           /\ Cardinality(S \cup {x}) <= Cardinality(S) + 1
           /\ x \notin S => Cardinality(S \cup {x}) = Cardinality(S) + 1
           /\ IsFiniteSet(S \ {x}) /\ Cardinality(S \ {x}) \in Nat
           /\ Cardinality(S \ {x}) <= Cardinality(S)
           /\ x \in S => Cardinality(S \ {x}) + 1 = Cardinality(S)
<1>1. Cardinality(S) \in Nat
  BY FS_CardinalityType
<1>2. /\ IsFiniteSet(S \cup {x})
      /\ Cardinality(S \cup {x}) = IF x \in S THEN Cardinality(S) ELSE Cardinality(S) + 1
  BY FS_AddElement
<1>3. /\ IsFiniteSet(S \ {x})
      /\ Cardinality(S \ {x}) = IF x \in S THEN Cardinality(S) - 1 ELSE Cardinality(S)
  BY FS_RemoveElement
<1>4. Cardinality(S \ {x}) \in Nat
  BY <1>3, FS_CardinalityType
<1> QED BY <1>1, <1>2, <1>3, <1>4

\* A part of a finite set.
LEMMA Part ==
    ASSUME NEW S, IsFiniteSet(S), NEW T, T \subseteq S
    PROVE  /\ IsFiniteSet(T) /\ Cardinality(T) \in Nat /\ Cardinality(S) \in Nat
           /\ Cardinality(T) <= Cardinality(S)
<1>1. IsFiniteSet(T) /\ Cardinality(T) <= Cardinality(S)
  BY FS_Subset
<1> QED BY <1>1, FS_CardinalityType

\* A step that stores nothing and counts nothing leaves counters backed.
LEMMA BackedKept ==
    ASSUME BackedInv, NEW k \in CounterKeys,
           Owing(k)' \subseteq Owing(k), tally'[k] \in Nat, tally'[k] <= tally[k],
           Live(k)' => Live(k) /\ RowsUnder(k) \subseteq RowsUnder(k)', IsFiniteSet(answers')
    PROVE  Backed(k)'
<1>1. /\ IsFiniteSet(Owing(k)) /\ tally[k] \in Nat
      /\ Live(k) => tally[k] + Cardinality(Owing(k)) <= Cardinality(RowsUnder(k))
  BY DEF BackedInv, Backed, SurveyCountsOK, Counts
<1>2. /\ IsFiniteSet(Owing(k)') /\ Cardinality(Owing(k)') \in Nat /\ Cardinality(Owing(k)) \in Nat
      /\ Cardinality(Owing(k)') <= Cardinality(Owing(k))
  BY <1>1, Part
<1>3. IsFiniteSet(RowsUnder(k)')
  <2>1. RowsUnder(k)' \subseteq answers'
    BY DEF RowsUnder
  <2> QED BY <2>1, Part
<1>4. ASSUME Live(k)' PROVE tally'[k] + Cardinality(Owing(k)') <= Cardinality(RowsUnder(k)')
  <2>1. /\ Cardinality(RowsUnder(k)) \in Nat /\ Cardinality(RowsUnder(k)') \in Nat
        /\ Cardinality(RowsUnder(k)) <= Cardinality(RowsUnder(k)')
    BY <1>3, <1>4, Part
  <2> QED BY <1>1, <1>2, <1>4, <2>1
<1> QED BY <1>2, <1>4 DEF Backed

\* A request that is not at a count owes none.
LEMMA OwingShrinks ==
    ASSUME NEW k, NEW p \in Submissions, surveyPc'[p] \notin {"subCount", "subTally"},
           \A q \in Submissions \ {p} : Unmoved(q)
    PROVE  Owing(k)' \subseteq Owing(k)
<1>1. \A q \in Submissions \ {p} : surveyPc'[q] = surveyPc[q] /\ Keys(q)' = Keys(q)
  BY DEF Unmoved, Keys, AnswerRows
<1> QED BY <1>1 DEF Owing

LEMMA BackedInit == SurveyInit => BackedInv
<1> SUFFICES ASSUME SurveyInit PROVE BackedInv
  OBVIOUS
<1>1. SurveyCountsOK
  BY NullCounts, SurveyFaultsAssumption DEF SurveyInit, SurveyCountsOK
<1>2. IsFiniteSet(answers) /\ RowsThere
  BY FS_EmptySet DEF SurveyInit, RowsThere
<1>3. ASSUME NEW k \in CounterKeys PROVE Backed(k)
  <2>1. Owing(k) = {} /\ RowsUnder(k) = {} /\ tally[k] = 0
    BY <1>3 DEF SurveyInit, Owing, RowsUnder, NoCounts
  <2> QED BY <2>1, FS_EmptySet DEF Backed
<1> QED BY <1>1, <1>2, <1>3 DEF BackedInv

LEMMA BackedStep ==
    ASSUME SurveyTyped, SurveyInv, BackedInv, [SurveyNext]_surveyVars
    PROVE  BackedInv'
<1> USE DEF surveyRows, counterVars
<1>0. /\ SurveyCountsOK /\ IsFiniteSet(answers) /\ RowsThere
      /\ \A k \in CounterKeys : tally[k] \in Nat
      /\ SubmissionsOK /\ SurveyRowsOK
  BY DEF BackedInv, SurveyCountsOK, Counts, SurveyTyped
<1>1. SurveyCountsOK' /\ IsFiniteSet(answers')
  BY <1>0, CountsStayTyped, AnswersStayFinite
<1>n. \A k \in CounterKeys : tally'[k] \in Nat
  BY <1>1 DEF SurveyCountsOK, Counts
<1>k. ASSUME NEW p \in Submissions, \A q \in Submissions \ {p} : Unmoved(q),
             surveyPc'[p] \notin {"subCount", "subTally"}, UNCHANGED <<answers, tally>>,
             surveyOptions \subseteq surveyOptions', surveyOptions' \cap StaticOptions \subseteq surveyOptions
      PROVE  BackedInv'
  <2>1. RowsThere'
    BY <1>0, <1>k DEF RowsThere
  <2>2. ASSUME NEW k \in CounterKeys PROVE Backed(k)'
    <3>1. Owing(k)' \subseteq Owing(k)
      BY <1>k, OwingShrinks
    <3>2. Live(k)' => Live(k) /\ RowsUnder(k) \subseteq RowsUnder(k)'
      BY <1>k DEF Live, RowsUnder
    <3> QED BY <1>0, <1>1, <1>k, <3>1, <3>2, BackedKept
  <2> QED BY <1>1, <2>1, <2>2 DEF BackedInv
<1>2. ASSUME NEW p \in Submissions, SurveySignBegin(p) \/ SubmitBegin(p) \/ SubmitPending(p) \/ SubmitFind(p)
      PROVE  BackedInv'
  <2>1. Apart(p)' /\ \A q \in Submissions \ {p} : Unmoved(q)
    BY <1>0, <1>2, ApartStays, OthersUnmovedAtAll DEF SubmitStep
  <2>2. UNCHANGED <<answers, tally, surveyOptions>>
    BY <1>2 DEF SurveySignBegin, SubmitBegin, SubmitPending, SubmitFind
  <2> QED BY <1>k, <2>1, <2>2 DEF Apart, Stored
<1>3. ASSUME NEW p \in Submissions, SubmitCreate(p) PROVE BackedInv'
  <2>1. Apart(p)' /\ \A q \in Submissions \ {p} : Unmoved(q)
    BY <1>0, <1>3, ApartStays, OthersUnmovedAtAll DEF SubmitStep
  <2>2. UNCHANGED <<answers, tally>> /\ surveyOptions' = surveyOptions \cup {Created(p)}
    BY <1>3 DEF SubmitCreate
  <2>3. Created(p) \in DynamicIds
    BY <1>0, <1>3 DEF SubmitCreate, Created, DynamicIds, SubmissionsOK
  <2> QED BY <1>k, <2>1, <2>2, <2>3, QuestionsAssumption DEF Apart, Stored
<1>4. ASSUME NEW p \in Submissions, SurveySignStep(p) \/ SealBegin(p) \/ SealStep(p) \/ SubmissionFails(p)
      PROVE  BackedInv'
  <2>1. \A q \in Submissions \ {p} : Unmoved(q)
    BY <1>0, <1>4, OthersUnmovedAtAll
  <2>2. UNCHANGED <<answers, tally, surveyOptions>>
    BY <1>4 DEF SurveySignStep, SurveySignCheck, SurveySignPending, SurveySignParticipate,
       SurveySignReply, SealBegin, SealStep, SealHashes, SealTotal, SealRows, SealRead, SealCommit,
       SubmissionFails
  <2>3. surveyPc'[p] \notin {"subCount", "subTally"}
    BY <1>0, <1>4 DEF SurveySignStep, SurveySignCheck, SurveySignPending, SurveySignParticipate,
       SurveySignReply, SealBegin, SealStep, SealHashes, SealTotal, SealRows, SealRead, SealCommit,
       SubmissionFails, SurveyOn, SurveyEnd, SurveyStart, SurveyGoto, SubmissionsOK
  <2> QED BY <1>k, <2>1, <2>2, <2>3
<1>5. ASSUME NEW p \in Submissions, SubmitNotify(p) PROVE BackedInv'
  <2>1. \A q \in Submissions \ {p} : Unmoved(q)
    BY <1>0, <1>5, OthersUnmovedAtAll DEF SubmitStep
  <2>2. UNCHANGED <<answers, tally, surveyOptions>> /\ surveyPc'[p] = "idle"
    BY <1>0, <1>5 DEF SubmitNotify, SurveyEnd, SurveyGoto, SubmissionsOK
  <2> QED BY <1>k, <2>1, <2>2
<1>6. ASSUME NEW p \in Submissions, SubmitCommit(p) PROVE BackedInv'
  <2>1. \A q \in Submissions \ {p} : Unmoved(q)
    BY <1>0, <1>6, OthersUnmovedAtAll DEF SubmitStep
  <2>2. surveyPc[p] = "subCommit" /\ UNCHANGED <<tally, surveyOptions>>
    BY <1>6 DEF SubmitCommit
  <2>3. CASE UNCHANGED answers /\ surveyPc'[p] = "idle"
    BY <1>k, <2>1, <2>2, <2>3
  <2>4. CASE /\ AnswerSignatureUnique(AnswerRows(p))
             /\ \A r \in AnswerRows(p) : r.option \in surveyOptions
             /\ answers' = answers \cup AnswerRows(p)
             /\ surveyPc'[p] = "subCount" /\ surveyArg'[p] = surveyArg[p]
             /\ answering'[p] = answering[p]
    <3>1. RowsThere'
      BY <1>0, <2>2, <2>4 DEF RowsThere
    <3>2. ASSUME NEW k \in CounterKeys PROVE Backed(k)'
      <4>1. /\ \A q \in Submissions : Keys(q)' = Keys(q)
            /\ \A q \in Submissions \ {p} : surveyPc'[q] = surveyPc[q]
        BY <2>1, <2>4 DEF Unmoved, Keys, AnswerRows
      <4>2. RowsUnder(k) \subseteq RowsUnder(k)' /\ (Live(k)' <=> Live(k))
        BY <2>2, <2>4 DEF RowsUnder, Live
      <4>3. CASE k \notin Keys(p)
        <5>1. Owing(k)' \subseteq Owing(k)
          BY <4>1, <4>3 DEF Owing
        <5> QED BY <1>0, <1>1, <2>2, <4>2, <5>1, BackedKept
      <4>4. CASE k \in Keys(p)
        <5>1. PICK r \in AnswerRows(p) : KeyOf(r.option) = k
          BY <4>4 DEF Keys
        <5>2. r.option # Deleted
          BY <1>0, <2>4, CounterKeysAssumption DEF SurveyRowsOK
        <5>3. r \in RowsUnder(k)' /\ r \notin RowsUnder(k)
          BY <2>2, <2>4, <5>1, <5>2, AtMostOneRow DEF RowsUnder
        <5>4. p \notin Owing(k) /\ Owing(k)' = Owing(k) \cup {p}
          BY <2>2, <2>4, <4>1, <4>4 DEF Owing
        <5>5. /\ IsFiniteSet(Owing(k)') /\ Cardinality(Owing(k)') = Cardinality(Owing(k)) + 1
              /\ Cardinality(Owing(k)) \in Nat
          BY <5>4, OneMoreOrLess DEF BackedInv, Backed
        <5>6. IsFiniteSet(RowsUnder(k)) /\ IsFiniteSet(RowsUnder(k)')
          <6>1. RowsUnder(k) \subseteq answers /\ RowsUnder(k)' \subseteq answers'
            BY DEF RowsUnder
          <6> QED BY <1>0, <1>1, <6>1, Part
        <5>7. /\ Cardinality(RowsUnder(k)) \in Nat /\ Cardinality(RowsUnder(k)') \in Nat
              /\ Cardinality(RowsUnder(k)) + 1 <= Cardinality(RowsUnder(k)')
          <6>1. RowsUnder(k) \cup {r} \subseteq RowsUnder(k)'
            BY <4>2, <5>3
          <6>2. /\ Cardinality(RowsUnder(k) \cup {r}) = Cardinality(RowsUnder(k)) + 1
                /\ Cardinality(RowsUnder(k)) \in Nat
            BY <5>3, <5>6, OneMoreOrLess
          <6>3. /\ Cardinality(RowsUnder(k) \cup {r}) <= Cardinality(RowsUnder(k)')
                /\ Cardinality(RowsUnder(k)') \in Nat
            BY <5>6, <6>1, Part
          <6> QED BY <6>2, <6>3
        <5>8. Live(k)' => tally[k] + Cardinality(Owing(k)) <= Cardinality(RowsUnder(k))
          BY <4>2 DEF BackedInv, Backed
        <5> QED BY <1>0, <2>2, <5>5, <5>7, <5>8 DEF Backed
      <4> QED BY <4>3, <4>4
    <3> QED BY <1>1, <3>1, <3>2 DEF BackedInv
  <2> QED BY <1>6, <2>3, <2>4, CommitCases
<1>7. ASSUME NEW p \in Submissions, SubmitCount(p) \/ SubmitTally(p) PROVE BackedInv'
  <2>1. /\ \A q \in Submissions \ {p} : Unmoved(q) /\ UNCHANGED <<answers, surveyOptions>>
        /\ surveyArg'[p] = surveyArg[p] /\ answering'[p] = answering[p]
    BY <1>0, <1>7, OthersUnmovedAtAll DEF SubmitStep, SubmitCount, SubmitTally, SurveyOn
  <2>0. UNCHANGED <<answers, surveyOptions>>
    BY <1>7 DEF SubmitCount, SubmitTally
  <2>2. /\ \A q \in Submissions : Keys(q)' = Keys(q)
        /\ \A q \in Submissions \ {p} : surveyPc'[q] = surveyPc[q]
    BY <2>1 DEF Unmoved, Keys, AnswerRows
  <2>3. RowsThere' /\ \A k : RowsUnder(k)' = RowsUnder(k) /\ (Live(k)' <=> Live(k))
    BY <1>0, <2>0 DEF RowsThere, RowsUnder, Live
  <2>4. ASSUME NEW k \in CounterKeys PROVE Backed(k)'
    <3>1. CASE SubmitCount(p)
      <4>1. surveyPc[p] = "subCount" /\ surveyPc'[p] = "subTally" /\ UNCHANGED tally
        BY <1>0, <3>1 DEF SubmitCount, SurveyOn, SurveyGoto, SubmissionsOK
      <4>2. Owing(k)' = Owing(k)
        BY <2>2, <4>1 DEF Owing
      <4> QED BY <2>3, <4>1, <4>2 DEF BackedInv, Backed
    <3>2. CASE SubmitTally(p)
      <4>1. /\ surveyPc[p] = "subTally" /\ surveyPc'[p] = "subNotify"
            /\ tally'[k] = IF k \in Keys(p) THEN tally[k] + 1 ELSE tally[k]
        BY <1>0, <3>2 DEF SubmitTally, SurveyOn, SurveyGoto, SubmissionsOK, Keys
      <4>2. Owing(k)' = Owing(k) \ {p} /\ (p \in Owing(k) <=> k \in Keys(p))
        BY <2>2, <4>1 DEF Owing
      <4>3. /\ IsFiniteSet(Owing(k) \ {p}) /\ Cardinality(Owing(k) \ {p}) \in Nat
            /\ Cardinality(Owing(k)) \in Nat /\ Cardinality(Owing(k) \ {p}) <= Cardinality(Owing(k))
            /\ p \in Owing(k) => Cardinality(Owing(k) \ {p}) + 1 = Cardinality(Owing(k))
        BY OneMoreOrLess DEF BackedInv, Backed
      <4>4. Cardinality(RowsUnder(k)) \in Nat
        BY <1>0, CountsAreNumbers
      <4>5. Live(k) => tally[k] + Cardinality(Owing(k)) <= Cardinality(RowsUnder(k))
        BY DEF BackedInv, Backed
      <4>6. Live(k) => tally'[k] + Cardinality(Owing(k) \ {p}) <= Cardinality(RowsUnder(k))
        BY <1>0, <4>1, <4>2, <4>3, <4>4, <4>5
      <4> QED BY <2>3, <4>2, <4>3, <4>6 DEF Backed
    <3> QED BY <1>7, <3>1, <3>2
  <2> QED BY <1>1, <2>3, <2>4 DEF BackedInv
<1>8. ASSUME NEW o \in DeletableOptions, DeleteOption(o) PROVE BackedInv'
  <2>1. /\ surveyOptions' = surveyOptions \ {o} /\ UNCHANGED <<submissionVars, tally>>
        /\ answers' = {IF b.option = o THEN [b EXCEPT !.option = Deleted] ELSE b : b \in answers}
        /\ o \in StaticOptions
    BY <1>8, SurveyRequestsAssumption DEF DeleteOption
  <2>2. \A b \in answers : [b EXCEPT !.option = Deleted].option = Deleted
    BY <1>0 DEF SurveyRowsOK, AnswerRow
  <2>3. RowsThere'
    BY <1>0, <2>1, <2>2 DEF RowsThere
  <2>4. ASSUME NEW k \in CounterKeys PROVE Backed(k)'
    <3>1. Owing(k)' \subseteq Owing(k)
      BY <2>1 DEF Owing, Keys, AnswerRows, submissionVars
    <3>2. ASSUME Live(k)' PROVE Live(k) /\ RowsUnder(k) \subseteq RowsUnder(k)'
      <4>1. k # o
        BY <2>1, <3>2 DEF Live
      <4>2. KeyOf(o) = o
        BY <2>1, QuestionsAssumption DEF KeyOf
      <4>3. \A b \in RowsUnder(k) : b.option # o
        BY <4>1, <4>2 DEF RowsUnder
      <4>4. RowsUnder(k) \subseteq RowsUnder(k)'
        BY <2>1, <4>3 DEF RowsUnder
      <4> QED BY <2>1, <3>2, <4>4 DEF Live
    <3> QED BY <1>0, <1>1, <2>1, <3>1, <3>2, BackedKept
  <2> QED BY <1>1, <2>3, <2>4 DEF BackedInv
<1>9. CASE EvictCounter
  <2>1. UNCHANGED <<submissionVars, answers, surveyOptions>>
    BY <1>9 DEF EvictCounter
  <2>2. \A k \in CounterKeys : tally'[k] <= tally[k]
    BY <1>0, <1>9 DEF EvictCounter
  <2>3. RowsThere'
    BY <1>0, <2>1 DEF RowsThere
  <2>4. ASSUME NEW k \in CounterKeys PROVE Backed(k)'
    <3>1. Owing(k)' \subseteq Owing(k) /\ (Live(k)' => Live(k) /\ RowsUnder(k) \subseteq RowsUnder(k)')
      BY <2>1 DEF Owing, Keys, AnswerRows, submissionVars, Live, RowsUnder
    <3> QED BY <1>1, <1>n, <2>2, <3>1, BackedKept
  <2> QED BY <1>1, <2>3, <2>4 DEF BackedInv
<1>10. ASSUME UNCHANGED <<submissionVars, answers, tally, surveyOptions>> PROVE BackedInv'
  <2>1. RowsThere'
    BY <1>0, <1>10 DEF RowsThere
  <2>2. ASSUME NEW k \in CounterKeys PROVE Backed(k)'
    <3>1. Owing(k)' = Owing(k) /\ RowsUnder(k)' = RowsUnder(k) /\ (Live(k)' <=> Live(k))
      BY <1>10 DEF Owing, Keys, AnswerRows, submissionVars, Live, RowsUnder
    <3> QED BY <1>10, <3>1 DEF BackedInv, Backed
  <2> QED BY <1>1, <2>1, <2>2 DEF BackedInv
<1>11. ASSUME NEW s \in Surveys, WorkerStep(s) \/ FailBroadcast(s) \/ SurveyTick(s) PROVE BackedInv'
  BY <1>10, <1>11 DEF WorkerStep, TakeBroadcast, EmitBroadcast, CompleteBroadcast, FailBroadcast,
     BroadcastStep, SurveyTick
<1>12. ASSUME PendingRowsChange \/ UNCHANGED surveyVars PROVE BackedInv'
  BY <1>10, <1>12 DEF PendingRowsChange, SurveyPendingExpires, VotingSignsToken,
      VotingSpendsToken, surveyVars
<1> QED BY <1>2, <1>3, <1>4, <1>5, <1>6, <1>7, <1>8, <1>9, <1>11, <1>12 DEF SurveyNext, SubmitStep

\* Each count in Redis has a row of its own, also those still to be counted.
THEOREM BackedInvariant == SurveySpec => []BackedInv
<1>1. SurveyInit => BackedInv
  BY BackedInit
<1>2. SurveyTyped /\ SurveyInv /\ BackedInv /\ [SurveyNext]_surveyVars => BackedInv'
  BY BackedStep
<1> QED BY <1>1, <1>2, SurveyTypes, SurveyInvariant, PTL DEF SurveySpec

\* What Redis counts for an option is answers, whatever failed between the commit
\* and the count (performSurveySubmission), was refused, evicted or deleted.
THEOREM CountsBacked == SurveySpec => []CountsBackedByRows
<1>1. BackedInv => CountsBackedByRows
  <2> SUFFICES ASSUME BackedInv, NEW k \in CounterKeys, IsCounted(k)
               PROVE  tally[k] <= Cardinality(RowsUnder(k))
    BY DEF CountsBackedByRows
  <2>1. Live(k)
    BY DEF IsCounted, Live, OptionIds
  <2>2. tally[k] \in Nat /\ Cardinality(Owing(k)) \in Nat /\ Cardinality(RowsUnder(k)) \in Nat
    BY CountsAreNumbers, FS_CardinalityType DEF BackedInv, Backed, SurveyCountsOK, Counts
  <2> QED BY <2>1, <2>2 DEF BackedInv, Backed
<1> QED BY <1>1, BackedInvariant, PTL

\* The types of all the state, the counts included: what is sealed and shown is a
\* number even when it was counted from the rows (getResults).
THEOREM AllSurveyTypes == SurveySpec => []SurveyTypeOK
<1>1. SurveyTyped /\ BackedInv => SurveyTypeOK
  BY DEF BackedInv, SurveyTyped, SurveyTypeOK
<1> QED BY <1>1, SurveyTypes, BackedInvariant, PTL

-----------------------------------------------------------------------------
(* A token that did not repeat is stored once.                             *)

StoredWith(p, t) == Stored(p) /\ surveyArg[p].token = t
TokenAnswered(t) == \E r \in told : r.kind = "answered" /\ r.token = t
RowsOf(t) == {b \in answers : b.token = t}

\* An answer with t is stored, perhaps without a row, or confirmed.
Spent(t) == TokenAnswered(t) \/ RowsOf(t) # {} \/ \E p \in Submissions : StoredWith(p, t)

SpentOnce(t) ==
    /\ Spent(t) => t \in spent
    /\ \A p \in Submissions : StoredWith(p, t) =>
          /\ ~TokenAnswered(t)
          /\ \A b \in RowsOf(t) : b.option # Deleted => b \in AnswerRows(p)
          /\ \A q \in Submissions : StoredWith(q, t) => q = p

TokenInv == \A t \in SurveyTokens \ reused : SpentOnce(t)

\* A step that stores nothing with t and confirms nothing.
LEMMA OnceKept ==
    ASSUME NEW t, SpentOnce(t), spent \subseteq spent', TokenAnswered(t)' <=> TokenAnswered(t),
           RowsOf(t)' # {} => RowsOf(t) # {},
           \A b \in RowsOf(t)' : b.option # Deleted => b \in RowsOf(t),
           \A q \in Submissions : StoredWith(q, t)' =>
               StoredWith(q, t) /\ AnswerRows(q)' = AnswerRows(q)
    PROVE  SpentOnce(t)'
<1>1. Spent(t)' => Spent(t)
  BY DEF Spent
<1> QED BY <1>1 DEF SpentOnce

\* The same of a step of one request, told by where that request is.
LEMMA OnceKeptBy ==
    ASSUME NEW t, SpentOnce(t), UNCHANGED <<spent, answers>>,
           TokenAnswered(t)' <=> TokenAnswered(t),
           NEW p \in Submissions, \A q \in Submissions \ {p} : Unmoved(q),
           StoredWith(p, t)' => StoredWith(p, t) /\ AnswerRows(p)' = AnswerRows(p)
    PROVE  SpentOnce(t)'
<1>1. ASSUME NEW q \in Submissions, StoredWith(q, t)'
      PROVE  StoredWith(q, t) /\ AnswerRows(q)' = AnswerRows(q)
  <2>1. CASE q = p
    BY <1>1, <2>1
  <2>2. CASE q # p
    BY <1>1, <2>2 DEF StoredWith, Stored, Unmoved, AnswerRows
  <2> QED BY <2>1, <2>2
<1>2. RowsOf(t)' = RowsOf(t)
  BY DEF RowsOf
<1> QED BY <1>1, <1>2, OnceKept

LEMMA TokenSignStep ==
    ASSUME SurveyTyped, SurveyCountsOK, TokenInv, NEW p \in Submissions, SurveySignStep(p),
           NEW t \in SurveyTokens \ reused'
    PROVE  SpentOnce(t)'
<1>1. UNCHANGED <<answers, spent, reused>>
  BY DEF SurveySignStep, SurveySignCheck, SurveySignPending, SurveySignParticipate,
         SurveySignReply, historyVars, surveyRows
<1>2. told' = told \/ TellSurvey(p, "signed", surveyArg[p].blinded, surveyArg[p].practice)
  BY DEF SurveySignStep, SurveySignCheck, SurveySignPending, SurveySignParticipate,
         SurveySignReply, historyVars
<1>3. TokenAnswered(t)' <=> TokenAnswered(t)
  BY <1>2 DEF TellSurvey, TokenAnswered
<1>4. ~Stored(p)'
  BY DEF SurveySignStep, SurveySignCheck, SurveySignPending, SurveySignParticipate,
         SurveySignReply, SurveyOn, SurveyEnd, SurveyGoto, Stored, SurveyTyped, SubmissionsOK
<1>5. \A q \in Submissions \ {p} : Unmoved(q)
  BY OthersUnmovedAtAll
<1>6. SpentOnce(t)
  BY <1>1 DEF TokenInv
<1> QED BY <1>1, <1>3, <1>4, <1>5, <1>6, OnceKeptBy DEF StoredWith

LEMMA TokenSubmitStep ==
    ASSUME SurveyTyped, SurveyCountsOK, SurveyInv, TokenInv, NEW p \in Submissions,
           SubmitBegin(p) \/ SubmitStep(p), NEW t \in SurveyTokens \ reused'
    PROVE  SpentOnce(t)'
<1>0. /\ \A q \in Submissions \ {p} : Unmoved(q)
      /\ surveyPc \in [Submissions -> SurveyPCs]
  BY OthersUnmovedAtAll DEF SurveyTyped, SubmissionsOK
<1>1. t \notin reused /\ t \in SurveyTokens
  BY DEF SubmitBegin, SubmitStep, SubmitPending, SubmitFind, SubmitCreate, SubmitCommit,
         SubmitCount, SubmitTally, SubmitNotify, historyVars
<1>2. SpentOnce(t)
  BY <1>1 DEF TokenInv
<1>3. CASE SubmitBegin(p) \/ SubmitPending(p) \/ SubmitFind(p) \/ SubmitCreate(p)
  <2>1. Apart(p)'
    BY <1>3, ApartStays
  <2>2. UNCHANGED <<spent, told, answers>>
    BY <1>3 DEF SubmitBegin, SubmitPending, SubmitFind, SubmitCreate, surveyRows, historyVars
  <2> QED BY <1>0, <1>2, <2>1, <2>2, OnceKeptBy DEF Apart, StoredWith, TokenAnswered
<1>4. CASE SubmitCommit(p)
  <2>0. UNCHANGED told /\ surveyPc[p] = "subCommit"
    BY <1>4 DEF SubmitCommit
  <2>1. CASE UNCHANGED <<answers, spent>> /\ surveyPc'[p] = "idle"
    BY <1>0, <1>2, <2>0, <2>1, OnceKeptBy DEF StoredWith, Stored, TokenAnswered
  <2>2. CASE /\ answers' = answers \cup AnswerRows(p)
             /\ spent' = spent \cup {surveyArg[p].token}
             /\ surveyPc'[p] = "subCount" /\ surveyArg'[p] = surveyArg[p]
             /\ answering'[p] = answering[p]
    <3>1. \A b \in AnswerRows(p) : b.token = surveyArg[p].token
      BY <2>0, RowsOfOwnSurvey
    <3>2. AnswerRows(p)' = AnswerRows(p)
      BY <2>2 DEF AnswerRows
    <3>3. CASE t # surveyArg[p].token
      <4>1. RowsOf(t)' = RowsOf(t)
        BY <2>2, <3>1, <3>3 DEF RowsOf
      <4>2. \A q \in Submissions : StoredWith(q, t)' =>
                StoredWith(q, t) /\ AnswerRows(q)' = AnswerRows(q)
        BY <1>0, <2>0, <2>2, <3>3 DEF StoredWith, Stored, Unmoved, AnswerRows
      <4>3. spent \subseteq spent' /\ (TokenAnswered(t)' <=> TokenAnswered(t))
        BY <2>0, <2>2 DEF TokenAnswered
      <4> QED BY <1>2, <4>1, <4>2, <4>3, OnceKept
    <3>4. CASE t = surveyArg[p].token
      <4>1. t \notin spent
        BY <1>4, <2>2, <3>4, FirstOrRepeat
      <4>2. ~Spent(t)
        BY <1>2, <4>1 DEF SpentOnce
      <4>3. /\ \A q \in Submissions : StoredWith(q, t)' => q = p
            /\ ~TokenAnswered(t)' /\ RowsOf(t)' \subseteq AnswerRows(p)
        BY <1>0, <2>0, <2>2, <4>2 DEF StoredWith, Stored, Unmoved, Spent, TokenAnswered, RowsOf
      <4> QED BY <2>2, <3>2, <3>4, <4>3 DEF SpentOnce
    <3> QED BY <3>3, <3>4
  <2> QED BY <1>4, <2>1, <2>2, CommitCases
<1>5. CASE SubmitCount(p) \/ SubmitTally(p)
  <2>1. /\ surveyArg'[p] = surveyArg[p] /\ answering'[p] = answering[p]
        /\ UNCHANGED <<spent, told, answers>> /\ Stored(p)
    BY <1>0, <1>5
    DEF SubmitCount, SubmitTally, SurveyOn, SurveyGoto, surveyRows, historyVars, Stored
  <2> QED BY <1>0, <1>2, <2>1, OnceKeptBy DEF StoredWith, AnswerRows, TokenAnswered
<1>6. CASE SubmitNotify(p)
  <2>1. /\ surveyPc'[p] = "idle" /\ surveyPc[p] = "subNotify" /\ UNCHANGED <<spent, answers>>
        /\ IF answering[p].practice THEN UNCHANGED told
           ELSE TellSurvey(p, "answered", surveyArg[p].token, FALSE)
    BY <1>0, <1>6 DEF SubmitNotify, SurveyEnd, SurveyGoto, surveyRows
  <2>2. CASE answering[p].practice
    BY <1>0, <1>2, <2>1, <2>2, OnceKeptBy DEF StoredWith, Stored, TokenAnswered
  <2>3. CASE ~answering[p].practice
    <3>1. CASE t # surveyArg[p].token
      <4>1. TokenAnswered(t)' <=> TokenAnswered(t)
        BY <2>1, <2>3, <3>1 DEF TokenAnswered, TellSurvey
      <4> QED BY <1>0, <1>2, <2>1, <4>1, OnceKeptBy DEF StoredWith, Stored
    <3>2. CASE t = surveyArg[p].token
      <4>1. StoredWith(p, t)
        BY <2>1, <2>3, <3>2 DEF StoredWith, Stored
      <4>2. \A q \in Submissions : StoredWith(q, t)' => q # p /\ StoredWith(q, t)
        BY <1>0, <2>1 DEF StoredWith, Stored, Unmoved
      <4>3. t \in spent' /\ \A q \in Submissions : ~StoredWith(q, t)'
        BY <1>2, <2>1, <4>1, <4>2 DEF Spent, SpentOnce
      <4> QED BY <4>3 DEF SpentOnce
    <3> QED BY <3>1, <3>2
  <2> QED BY <2>2, <2>3
<1> QED BY <1>3, <1>4, <1>5, <1>6 DEF SubmitStep

LEMMA TokenStep ==
    ASSUME SurveyTyped, SurveyCountsOK, SurveyInv, TokenInv, [SurveyNext]_surveyVars
    PROVE  TokenInv'
<1> USE DEF surveyRows, historyVars, submissionVars
<1> SUFFICES ASSUME NEW t \in SurveyTokens \ reused' PROVE SpentOnce(t)'
  BY DEF TokenInv
<1>1. ASSUME NEW p \in Submissions, SurveySignStep(p) PROVE SpentOnce(t)'
  BY <1>1, TokenSignStep
<1>2. ASSUME NEW p \in Submissions, SubmitBegin(p) \/ SubmitStep(p)
      PROVE  SpentOnce(t)'
  BY <1>2, TokenSubmitStep
<1>3. ASSUME NEW p \in Submissions,
             SurveySignBegin(p) \/ SealBegin(p) \/ SealStep(p) \/ SubmissionFails(p)
      PROVE  SpentOnce(t)'
  <2>1. \A q \in Submissions \ {p} : Unmoved(q)
    BY <1>3, OthersUnmovedAtAll
  <2>2. UNCHANGED <<spent, told, answers, reused>>
    BY <1>3 DEF SurveySignBegin, SealBegin, SealStep, SealHashes, SealTotal, SealRows, SealRead,
       SealCommit, SubmissionFails
  <2>3. surveyPc'[p] \in {"sSignCheck", "sealHashes", "sealTotal", "sealRows", "sealCommit", "idle"}
    BY <1>3 DEF SurveySignBegin, SealBegin, SealStep, SealHashes, SealTotal, SealRows, SealRead,
       SealCommit, SubmissionFails, SurveyStart, SurveyEnd, SurveyGoto, SurveyTyped, SubmissionsOK
  <2>4. SpentOnce(t)
    BY <2>2 DEF TokenInv
  <2> QED BY <2>1, <2>2, <2>3, <2>4, OnceKeptBy DEF StoredWith, Stored, TokenAnswered
<1>4. ASSUME UNCHANGED <<submissionVars, told, spent, reused>>,
             \A u \in SurveyTokens : RowsOf(u)' # {} => RowsOf(u) # {},
             \A u \in SurveyTokens : \A b \in RowsOf(u)' : b.option # Deleted => b \in RowsOf(u)
      PROVE  SpentOnce(t)'
  <2>1. SpentOnce(t)
    BY <1>4 DEF TokenInv
  <2>2. \A q \in Submissions : /\ StoredWith(q, t)' => StoredWith(q, t)
                               /\ AnswerRows(q)' = AnswerRows(q)
    BY <1>4 DEF StoredWith, Stored, AnswerRows
  <2>3. TokenAnswered(t)' <=> TokenAnswered(t)
    BY <1>4 DEF TokenAnswered
  <2> QED BY <1>4, <2>1, <2>2, <2>3, OnceKept
<1>5. ASSUME NEW o \in DeletableOptions, DeleteOption(o) PROVE SpentOnce(t)'
  <2>1. \A b \in AnswerRow : /\ [b EXCEPT !.option = Deleted].option = Deleted
                             /\ [b EXCEPT !.option = Deleted].token = b.token
    BY DEF AnswerRow
  <2>2. ASSUME NEW u, NEW b \in RowsOf(u)'
        PROVE  RowsOf(u) # {} /\ (b.option # Deleted => b \in RowsOf(u))
    <3>1. PICK c \in answers : b = IF c.option = o THEN [c EXCEPT !.option = Deleted] ELSE c
      BY <1>5 DEF DeleteOption, RowsOf
    <3>2. b.token = u /\ c \in AnswerRow
      BY DEF RowsOf, SurveyTyped, SurveyRowsOK
    <3> QED BY <2>1, <3>1, <3>2 DEF RowsOf
  <2> QED BY <1>4, <1>5, <2>2 DEF DeleteOption
<1>6. ASSUME UNCHANGED <<submissionVars, told, spent, reused, answers>> PROVE SpentOnce(t)'
  BY <1>4, <1>6 DEF RowsOf
<1>7. ASSUME NEW s \in Surveys, WorkerStep(s) \/ FailBroadcast(s) \/ SurveyTick(s)
      PROVE  SpentOnce(t)'
  BY <1>6, <1>7 DEF WorkerStep, TakeBroadcast, EmitBroadcast, CompleteBroadcast, FailBroadcast,
     BroadcastStep, SurveyTick
<1>8. ASSUME PendingRowsChange \/ EvictCounter \/ UNCHANGED surveyVars PROVE SpentOnce(t)'
  BY <1>6, <1>8 DEF PendingRowsChange, SurveyPendingExpires, VotingSignsToken,
     VotingSpendsToken, EvictCounter, surveyVars
<1> QED BY <1>1, <1>2, <1>3, <1>5, <1>7, <1>8 DEF SurveyNext

\* A token that did not repeat: one submission stores its answer, which is the
\* one that is confirmed; whatever clients send (submitResponse).
THEOREM TokenInvariant == SurveySpec => []TokenInv
<1>1. SurveyInit => TokenInv
  BY DEF SurveyInit, TokenInv, SpentOnce, StoredWith, Stored, Spent, TokenAnswered, RowsOf
<1>2. SurveyTyped /\ SurveyInv /\ BackedInv /\ TokenInv /\ [SurveyNext]_surveyVars => TokenInv'
  BY TokenStep DEF BackedInv
<1> QED BY <1>1, <1>2, SurveyTypes, SurveyInvariant, BackedInvariant, PTL DEF SurveySpec

-----------------------------------------------------------------------------
(* The counter of the responses stays within the roll.                     *)

\* What a step may do to the tokens and the roll.
LEMMA TokensMove ==
    ASSUME SurveyTyped, [SurveyNext]_surveyVars
    PROVE  /\ reused \subseteq reused' /\ spent \subseteq spent'
           /\ IsFiniteSet(surveyRoll) => IsFiniteSet(surveyRoll')
           /\ \A s \in Surveys : /\ repeats[s] \in Nat /\ repeats'[s] \in Nat
                                 /\ repeats[s] <= repeats'[s]
<1> DEFINE Goal ==
    /\ reused \subseteq reused' /\ spent \subseteq spent'
    /\ IsFiniteSet(surveyRoll) => IsFiniteSet(surveyRoll')
    /\ \A s \in Surveys : /\ repeats[s] \in Nat /\ repeats'[s] \in Nat
                          /\ repeats[s] <= repeats'[s]
<1> USE DEF surveyRows, historyVars, submissionVars
<1>0. repeats \in [Surveys -> Nat]
  BY DEF SurveyTyped, SurveyRowsOK
<1>1. CASE UNCHANGED <<reused, spent, repeats, surveyRoll>>
  BY <1>0, <1>1
<1>2. ASSUME NEW p \in Submissions, SurveySignParticipate(p) PROVE Goal
  <2>1. UNCHANGED <<reused, spent, repeats>>
    BY <1>2 DEF SurveySignParticipate
  <2>2. \/ surveyRoll' = surveyRoll
        \/ \E r : surveyRoll' = surveyRoll \cup {r}
    BY <1>2 DEF SurveySignParticipate
  <2>3. IsFiniteSet(surveyRoll) => IsFiniteSet(surveyRoll')
    BY <2>2, OneMoreOrLess
  <2> QED BY <1>0, <2>1, <2>3
<1>3. ASSUME NEW p \in Submissions, SubmitCommit(p) PROVE Goal
  <2>1. UNCHANGED surveyRoll /\ reused \subseteq reused' /\ spent \subseteq spent'
    BY <1>3 DEF SubmitCommit
  <2>2. \/ repeats' = repeats
        \/ repeats' = [repeats EXCEPT ![surveyArg[p].survey] = @ + 1]
    BY <1>3 DEF SubmitCommit
  <2> QED BY <1>0, <2>1, <2>2
<1>4. ASSUME NEW p \in Submissions,
             \/ SurveySignBegin(p) \/ SurveySignCheck(p) \/ SurveySignPending(p)
             \/ SurveySignReply(p) \/ SubmitBegin(p)
             \/ SubmitPending(p) \/ SubmitFind(p) \/ SubmitCreate(p)
      PROVE  UNCHANGED <<reused, spent, repeats, surveyRoll>>
  BY <1>4 DEF SurveySignBegin, SurveySignCheck, SurveySignPending, SurveySignReply, SubmitBegin,
     SubmitPending, SubmitFind, SubmitCreate
<1>5. ASSUME NEW p \in Submissions,
             \/ SubmitCount(p) \/ SubmitTally(p) \/ SubmitNotify(p) \/ SealBegin(p) \/ SealStep(p)
             \/ SubmissionFails(p)
      PROVE  UNCHANGED <<reused, spent, repeats, surveyRoll>>
  BY <1>5 DEF SubmitCount, SubmitTally, SubmitNotify, SealBegin, SealStep, SealHashes, SealTotal,
     SealRows, SealRead, SealCommit, SubmissionFails
<1>6. ASSUME NEW s \in Surveys, WorkerStep(s) \/ FailBroadcast(s) \/ SurveyTick(s)
      PROVE  UNCHANGED <<reused, spent, repeats, surveyRoll>>
  BY <1>6 DEF WorkerStep, TakeBroadcast, EmitBroadcast, CompleteBroadcast, FailBroadcast,
     BroadcastStep, SurveyTick
<1>7. ASSUME \/ PendingRowsChange
             \/ \E o \in DeletableOptions : DeleteOption(o)
             \/ EvictCounter \/ UNCHANGED surveyVars
      PROVE  UNCHANGED <<reused, spent, repeats, surveyRoll>>
  BY <1>7 DEF PendingRowsChange, SurveyPendingExpires, VotingSignsToken, VotingSpendsToken,
     DeleteOption, EvictCounter, surveyVars
<1> QED BY <1>1, <1>2, <1>3, <1>4, <1>5, <1>6, <1>7 DEF SurveyNext, SurveySignStep, SubmitStep

\* The participations whose signature was stored with.
SpentRoll(s) == {r \in surveyRoll : r.survey = s /\ r.token \in spent}

\* The submissions stored whose response is not counted yet.
Uncounted(s) == {p \in Submissions : surveyPc[p] = "subCount" /\ surveyArg[p].survey = s}

RollBacks(s) ==
    /\ IsFiniteSet(Uncounted(s))
    /\ responses[s] + Cardinality(Uncounted(s)) <= Cardinality(SpentRoll(s)) + repeats[s]

\* Each response counted, and each that will be, has a participation of its own
\* or is a repeat.
RollInv == IsFiniteSet(surveyRoll) /\ \A s \in Surveys : RollBacks(s)

LEMMA RollNumbers ==
    ASSUME SurveyTyped, SurveyCountsOK, RollInv, NEW s \in Surveys
    PROVE  /\ responses[s] \in Nat /\ Cardinality(Uncounted(s)) \in Nat
           /\ IsFiniteSet(SpentRoll(s)) /\ Cardinality(SpentRoll(s)) \in Nat
           /\ IsFiniteSet(Uncounted(s))
<1>1. SpentRoll(s) \subseteq surveyRoll
  BY DEF SpentRoll
<1> QED BY <1>1, Part, FS_CardinalityType DEF RollInv, RollBacks, SurveyCountsOK

\* A participation whose signature was stored with stays so.
LEMMA SpentRollGrows ==
    ASSUME SurveyTyped, RollInv, [SurveyNext]_surveyVars, NEW s
    PROVE  /\ SpentRoll(s) \subseteq SpentRoll(s)'
           /\ IsFiniteSet(SpentRoll(s)') /\ Cardinality(SpentRoll(s)') \in Nat
           /\ Cardinality(SpentRoll(s)) <= Cardinality(SpentRoll(s)')
<1>1. SpentRoll(s) \subseteq SpentRoll(s)'
  BY RollAndRepliesGrow, TokensMove DEF SpentRoll
<1>2. IsFiniteSet(SpentRoll(s)') /\ Cardinality(SpentRoll(s)') \in Nat
  <2>1. SpentRoll(s)' \subseteq surveyRoll' /\ IsFiniteSet(surveyRoll')
    BY TokensMove DEF SpentRoll, RollInv
  <2> QED BY <2>1, Part, FS_CardinalityType
<1> QED BY <1>1, <1>2, Part

LEMMA RollKept ==
    ASSUME SurveyTyped, SurveyCountsOK, SurveyCountsOK', RollInv, [SurveyNext]_surveyVars,
           NEW s \in Surveys, Uncounted(s)' \subseteq Uncounted(s), responses'[s] <= responses[s]
    PROVE  RollBacks(s)'
<1>1. /\ IsFiniteSet(Uncounted(s)') /\ Cardinality(Uncounted(s)') \in Nat
      /\ Cardinality(Uncounted(s)') <= Cardinality(Uncounted(s))
  BY RollNumbers, Part
<1>2. responses[s] + Cardinality(Uncounted(s)) <= Cardinality(SpentRoll(s)) + repeats[s]
  BY DEF RollInv, RollBacks
<1>3. /\ Cardinality(SpentRoll(s)) <= Cardinality(SpentRoll(s)')
      /\ Cardinality(SpentRoll(s)') \in Nat
  BY SpentRollGrows
<1>4. repeats[s] \in Nat /\ repeats'[s] \in Nat /\ repeats[s] <= repeats'[s]
  BY TokensMove
<1>5. responses'[s] \in Nat
  BY DEF SurveyCountsOK
<1>6. responses'[s] + Cardinality(Uncounted(s)') <= Cardinality(SpentRoll(s)') + repeats'[s]
  BY <1>1, <1>2, <1>3, <1>4, <1>5, RollNumbers
<1> QED BY <1>1, <1>6 DEF RollBacks

\* A submission that is stored uses up a participation, or repeats.
LEMMA CommitSpends ==
    ASSUME SurveyTyped, SurveyInv, SurveyPaidInv, NEW p \in Submissions, SubmitCommit(p),
           surveyPc'[p] = "subCount", NEW s \in Surveys, s = surveyArg[p].survey
    PROVE  \/ \E r \in SpentRoll(s)' : r \notin SpentRoll(s)
           \/ repeats'[s] = repeats[s] + 1
<1>0. PICK t : t = surveyArg[p].token
  OBVIOUS
<1>1. surveyPc[p] = "subCommit" /\ UNCHANGED surveyRoll
  BY DEF SubmitCommit
<1>2. CASE t \in spent
  <2>1. repeats' = [repeats EXCEPT ![s] = @ + 1]
    BY <1>0, <1>2, FirstOrRepeat
  <2> QED BY <2>1 DEF SurveyTyped, SurveyRowsOK
<1>3. CASE t \notin spent
  <2>1. SurveyPaid(s, t)
    BY <1>0, <1>1 DEF SurveyInv, SubmissionSigned, SurveyPaidInv, SubmissionPaid
  <2>2. PICK r \in surveyRoll : r.token = t /\ r.survey = s
    BY <2>1 DEF SurveyPaid
  <2>3. t \in spent'
    BY <1>0, CommitCases DEF SurveyTyped, SubmissionsOK
  <2> QED BY <1>1, <1>3, <2>2, <2>3 DEF SpentRoll
<1> QED BY <1>2, <1>3

\* The submissions at the counter that are not p.
LEMMA UncountedMoves ==
    ASSUME NEW p \in Submissions, \A q \in Submissions \ {p} : Unmoved(q), NEW s,
           surveyPc'[p] # "subCount"
    PROVE  Uncounted(s)' = Uncounted(s) \ {p}
BY DEF Uncounted, Unmoved

LEMMA RollStep ==
    ASSUME SurveyTyped, SurveyCountsOK, SurveyCountsOK', SurveyInv, SurveyPaidInv, RollInv,
           [SurveyNext]_surveyVars
    PROVE  RollInv'
<1> USE DEF counterVars, submissionVars
<1>0. /\ IsFiniteSet(surveyRoll') /\ SubmissionsOK
      /\ responses \in [Surveys -> Nat]
  BY TokensMove DEF RollInv, SurveyTyped, SurveyCountsOK
<1> SUFFICES ASSUME NEW s \in Surveys PROVE RollBacks(s)'
  BY <1>0 DEF RollInv
<1>k. ASSUME NEW p \in Submissions, \A q \in Submissions \ {p} : Unmoved(q),
             surveyPc'[p] # "subCount", UNCHANGED responses
      PROVE  RollBacks(s)'
  BY <1>0, <1>k, UncountedMoves, RollKept
<1>1. ASSUME NEW p \in Submissions, SurveySignBegin(p) \/ SurveySignStep(p) PROVE RollBacks(s)'
  <2>1. UNCHANGED responses
    BY <1>1 DEF SurveySignBegin, SurveySignStep, SurveySignCheck, SurveySignPending,
       SurveySignParticipate, SurveySignReply
  <2>2. surveyPc'[p] # "subCount"
    BY <1>0, <1>1 DEF SurveySignBegin, SurveySignStep, SurveySignCheck, SurveySignPending,
       SurveySignParticipate, SurveySignReply, SurveyStart, SurveyOn, SurveyEnd, SurveyGoto,
       SubmissionsOK
  <2> QED BY <1>1, <1>k, <2>1, <2>2, OthersUnmovedAtAll
<1>2. ASSUME NEW p \in Submissions,
             SubmitBegin(p) \/ SubmitPending(p) \/ SubmitFind(p) \/ SubmitCreate(p)
      PROVE  RollBacks(s)'
  <2>1. UNCHANGED responses
    BY <1>2 DEF SubmitBegin, SubmitPending, SubmitFind, SubmitCreate
  <2>2. surveyPc'[p] # "subCount"
    BY <1>2, ApartStays DEF Apart, Stored
  <2> QED BY <1>2, <1>k, <2>1, <2>2, OthersUnmovedAtAll DEF SubmitStep
<1>3. ASSUME NEW p \in Submissions,
             \/ SubmitTally(p) \/ SubmitNotify(p) \/ SealBegin(p) \/ SealStep(p)
             \/ SubmissionFails(p)
      PROVE  RollBacks(s)'
  <2>1. UNCHANGED responses
    BY <1>3 DEF SubmitTally, SubmitNotify, SealBegin, SealStep, SealHashes, SealTotal, SealRows,
       SealRead, SealCommit, SubmissionFails
  <2>2. surveyPc'[p] # "subCount"
    BY <1>0, <1>3 DEF SubmitTally, SubmitNotify, SealBegin, SealStep, SealHashes, SealTotal,
       SealRows, SealRead, SealCommit, SubmissionFails, SurveyStart, SurveyOn, SurveyEnd,
       SurveyGoto, SubmissionsOK
  <2> QED BY <1>3, <1>k, <2>1, <2>2, OthersUnmovedAtAll DEF SubmitStep
<1>4. ASSUME NEW p \in Submissions, SubmitCommit(p) PROVE RollBacks(s)'
  <2>1. /\ \A q \in Submissions \ {p} : Unmoved(q)
        /\ UNCHANGED responses /\ surveyPc[p] = "subCommit"
    BY <1>4, OthersUnmovedAtAll DEF SubmitStep, SubmitCommit
  <2>2. CASE surveyPc'[p] # "subCount"
    BY <1>k, <2>1, <2>2
  <2>3. CASE surveyPc'[p] = "subCount"
    <3>1. surveyArg'[p] = surveyArg[p]
      BY <1>4, <2>3, CommitCases
    <3>2. CASE surveyArg[p].survey # s
      <4>1. Uncounted(s)' \subseteq Uncounted(s)
        BY <2>1, <3>1, <3>2 DEF Uncounted, Unmoved
      <4> QED BY <1>0, <2>1, <4>1, RollKept
    <3>3. CASE surveyArg[p].survey = s
      <4>1. Uncounted(s)' = Uncounted(s) \cup {p} /\ p \notin Uncounted(s)
        BY <2>1, <2>3, <3>1, <3>3 DEF Uncounted, Unmoved
      <4>2. /\ IsFiniteSet(Uncounted(s)')
            /\ Cardinality(Uncounted(s)') = Cardinality(Uncounted(s)) + 1
        BY <4>1, OneMoreOrLess, RollNumbers
      <4>3. responses[s] + Cardinality(Uncounted(s)) <= Cardinality(SpentRoll(s)) + repeats[s]
        BY DEF RollInv, RollBacks
      <4>4. /\ Cardinality(SpentRoll(s)) <= Cardinality(SpentRoll(s)')
            /\ Cardinality(SpentRoll(s)') \in Nat
            /\ repeats[s] \in Nat /\ repeats'[s] \in Nat /\ repeats[s] <= repeats'[s]
        BY SpentRollGrows, TokensMove
      <4>5. CASE repeats'[s] = repeats[s] + 1
        BY <2>1, <4>2, <4>3, <4>4, <4>5, RollNumbers DEF RollBacks
      <4>6. CASE \E r \in SpentRoll(s)' : r \notin SpentRoll(s)
        <5>1. PICK r \in SpentRoll(s)' : r \notin SpentRoll(s)
          BY <4>6
        <5>2. SpentRoll(s) \cup {r} \subseteq SpentRoll(s)' /\ IsFiniteSet(SpentRoll(s)')
          BY <5>1, SpentRollGrows
        <5>3. Cardinality(SpentRoll(s) \cup {r}) = Cardinality(SpentRoll(s)) + 1
          BY <5>1, OneMoreOrLess, RollNumbers
        <5>4. Cardinality(SpentRoll(s) \cup {r}) <= Cardinality(SpentRoll(s)')
          BY <5>2, Part
        <5> QED BY <2>1, <4>2, <4>3, <4>4, <5>3, <5>4, RollNumbers DEF RollBacks
      <4> QED BY <1>4, <2>3, <3>3, <4>5, <4>6, CommitSpends
    <3> QED BY <3>2, <3>3
  <2> QED BY <2>2, <2>3
<1>5. ASSUME NEW p \in Submissions, SubmitCount(p) PROVE RollBacks(s)'
  <2>1. /\ \A q \in Submissions \ {p} : Unmoved(q)
        /\ surveyPc[p] = "subCount" /\ surveyPc'[p] = "subTally"
        /\ responses' = [responses EXCEPT ![surveyArg[p].survey] = @ + 1]
        /\ UNCHANGED <<surveyRows, historyVars>>
    BY <1>0, <1>5, OthersUnmovedAtAll DEF SubmitStep, SubmitCount, SurveyOn, SurveyGoto, SubmissionsOK
  <2>2. Uncounted(s)' = Uncounted(s) \ {p}
    BY <2>1, UncountedMoves
  <2>3. CASE surveyArg[p].survey # s
    <3>1. responses'[s] = responses[s]
      BY <1>0, <2>1, <2>3
    <3> QED BY <1>0, <2>2, <3>1, RollKept
  <2>4. CASE surveyArg[p].survey = s
    <3>1. /\ IsFiniteSet(Uncounted(s)') /\ Cardinality(Uncounted(s)') \in Nat
          /\ Cardinality(Uncounted(s)') + 1 = Cardinality(Uncounted(s))
      <4>1. p \in Uncounted(s)
        BY <2>1, <2>4 DEF Uncounted
      <4> QED BY <2>2, <4>1, OneMoreOrLess, RollNumbers
    <3>2. responses'[s] = responses[s] + 1
      BY <1>0, <2>1, <2>4
    <3>3. SpentRoll(s)' = SpentRoll(s) /\ repeats' = repeats /\ repeats[s] \in Nat
      BY <2>1 DEF SpentRoll, surveyRows, historyVars, SurveyTyped, SurveyRowsOK
    <3>4. responses[s] + Cardinality(Uncounted(s)) <= Cardinality(SpentRoll(s)) + repeats[s]
      BY DEF RollInv, RollBacks
    <3> QED BY <3>1, <3>2, <3>3, <3>4, RollNumbers DEF RollBacks
  <2> QED BY <2>3, <2>4
<1>6. ASSUME UNCHANGED submissionVars, responses'[s] <= responses[s] PROVE RollBacks(s)'
  <2>1. Uncounted(s)' = Uncounted(s)
    BY <1>6 DEF Uncounted
  <2> QED BY <1>6, <2>1, RollKept
<1>7. ASSUME NEW u \in Surveys, WorkerStep(u) \/ FailBroadcast(u) \/ SurveyTick(u)
      PROVE  RollBacks(s)'
  <2>1. UNCHANGED submissionVars /\ UNCHANGED responses
    BY <1>7 DEF WorkerStep, TakeBroadcast, EmitBroadcast, CompleteBroadcast, FailBroadcast,
       BroadcastStep, SurveyTick
  <2> QED BY <1>0, <1>6, <2>1
<1>8. ASSUME \/ PendingRowsChange
             \/ \E o \in DeletableOptions : DeleteOption(o)
             \/ UNCHANGED surveyVars
      PROVE  RollBacks(s)'
  <2>1. UNCHANGED submissionVars /\ UNCHANGED responses
    BY <1>8 DEF PendingRowsChange, SurveyPendingExpires, VotingSignsToken, VotingSpendsToken,
        DeleteOption, surveyVars
  <2> QED BY <1>0, <1>6, <2>1
<1>9. CASE EvictCounter
  <2>1. UNCHANGED submissionVars /\ responses'[s] <= responses[s]
    BY <1>0, <1>9 DEF EvictCounter
  <2> QED BY <1>6, <2>1
<1> QED BY <1>1, <1>2, <1>3, <1>4, <1>5, <1>7, <1>8, <1>9 DEF SurveyNext, SubmitStep

\* With clients that draw a token for each request, each response that is
\* counted, or stored and on its way to INCR, has a participation of its own
\* whose signature is used, or is one of the repeats (performSurveySubmission).
THEOREM RollInvariant ==
    ASSUME SurveyFreshTokens
    PROVE  SurveySpec => []RollInv
<1>1. SurveyInit => RollInv
  <2> SUFFICES ASSUME SurveyInit PROVE RollInv
    OBVIOUS
  <2>1. \A s \in Surveys : /\ Uncounted(s) = {} /\ SpentRoll(s) = {}
                         /\ responses[s] = 0 /\ repeats[s] = 0
    BY DEF SurveyInit, Uncounted, SpentRoll
  <2>2. surveyRoll = {} /\ IsFiniteSet({}) /\ Cardinality({}) = 0
    BY FS_EmptySet DEF SurveyInit
  <2>3. \A s \in Surveys : RollBacks(s)
    BY <2>1, <2>2 DEF RollBacks
  <2> QED BY <2>2, <2>3 DEF RollInv
<1>2. /\ SurveyTyped /\ SurveyInv /\ SurveyPaidInv /\ BackedInv /\ BackedInv' /\ RollInv
      /\ [SurveyNext]_surveyVars
      => RollInv'
  BY RollStep DEF BackedInv
<1> QED BY <1>1, <1>2, SurveyTypes, SurveyInvariant, SurveyPaidInvariant, BackedInvariant, PTL
    DEF SurveySpec

\* With such clients the counter of the responses exceeds the roll by no more
\* than the repeats of signatures: nothing but the index on the rows stops a
\* submission whose pending row another is spending, and an abstention has no
\* rows (submitResponse, performSurveySubmission).
THEOREM RollCovers ==
    ASSUME SurveyFreshTokens
    PROVE  SurveySpec => []ResponsesWithinRoll
<1>1. SurveyTyped /\ BackedInv /\ RollInv => ResponsesWithinRoll
  <2> SUFFICES ASSUME SurveyTyped, BackedInv, RollInv, NEW s \in Surveys
               PROVE  responses[s] <= Cardinality({r \in surveyRoll : r.survey = s}) + repeats[s]
    BY DEF ResponsesWithinRoll
  <2>1. /\ SpentRoll(s) \subseteq {r \in surveyRoll : r.survey = s}
        /\ {r \in surveyRoll : r.survey = s} \subseteq surveyRoll
    BY DEF SpentRoll
  <2>2. /\ Cardinality(SpentRoll(s)) <= Cardinality({r \in surveyRoll : r.survey = s})
        /\ Cardinality({r \in surveyRoll : r.survey = s}) \in Nat
    <3>1. IsFiniteSet({r \in surveyRoll : r.survey = s})
      BY <2>1, Part DEF RollInv
    <3> QED BY <2>1, <3>1, Part
  <2>3. /\ responses[s] + Cardinality(Uncounted(s)) <= Cardinality(SpentRoll(s)) + repeats[s]
        /\ repeats[s] \in Nat
    BY DEF RollInv, RollBacks, SurveyTyped, SurveyRowsOK
  <2> QED BY <2>2, <2>3, RollNumbers DEF BackedInv
<1> QED BY <1>1, SurveyTypes, BackedInvariant, RollInvariant, PTL

-----------------------------------------------------------------------------
(* What was confirmed is counted.                                          *)

\* While Redis loses nothing the counters only rise.
LEMMA CountersRise ==
    ASSUME SurveyTyped, SurveyCountsOK, [SurveyNext]_surveyVars, lostCounters' = 0
    PROVE  /\ lostCounters = 0
           /\ \A k \in CounterKeys : tally[k] <= tally'[k]
           /\ \A s \in Surveys : responses[s] <= responses'[s]
<1> DEFINE Goal == /\ lostCounters = 0
                   /\ \A k \in CounterKeys : tally[k] <= tally'[k]
                   /\ \A s \in Surveys : responses[s] <= responses'[s]
<1> USE DEF counterVars, NoSurveyFault
<1>0. /\ \A k \in CounterKeys : tally[k] \in Nat
      /\ responses \in [Surveys -> Nat] /\ lostCounters \in Nat
  BY SurveyFaultsAssumption DEF SurveyCountsOK, Counts
<1>k. ASSUME UNCHANGED <<counterVars, lostCounters>> PROVE Goal
  BY <1>0, <1>k
<1>1. ASSUME NEW p \in Submissions, SurveySignBegin(p) \/ SurveySignStep(p)
      PROVE  UNCHANGED <<counterVars, lostCounters>>
  BY <1>1 DEF SurveySignBegin, SurveySignStep, SurveySignCheck, SurveySignPending,
     SurveySignParticipate, SurveySignReply
<1>2. ASSUME NEW p \in Submissions,
             \/ SubmitBegin(p) \/ SubmitPending(p) \/ SubmitFind(p) \/ SubmitCreate(p)
             \/ SubmitCommit(p) \/ SubmitNotify(p)
      PROVE  UNCHANGED <<counterVars, lostCounters>>
  BY <1>2 DEF SubmitBegin, SubmitPending, SubmitFind, SubmitCreate, SubmitCommit, SubmitNotify
<1>3. ASSUME NEW p \in Submissions, SealBegin(p) \/ SealStep(p) \/ SubmissionFails(p)
      PROVE  UNCHANGED <<counterVars, lostCounters>>
  BY <1>3 DEF SealBegin, SealStep, SealHashes, SealTotal, SealRows, SealRead, SealCommit,
     SubmissionFails
<1>4. ASSUME NEW s \in Surveys, WorkerStep(s) \/ FailBroadcast(s) \/ SurveyTick(s)
      PROVE  UNCHANGED <<counterVars, lostCounters>>
  BY <1>4 DEF WorkerStep, TakeBroadcast, EmitBroadcast, CompleteBroadcast, FailBroadcast,
     BroadcastStep, SurveyTick
<1>5. ASSUME \/ PendingRowsChange
             \/ \E o \in DeletableOptions : DeleteOption(o)
             \/ UNCHANGED surveyVars
      PROVE  UNCHANGED <<counterVars, lostCounters>>
  BY <1>5 DEF PendingRowsChange, SurveyPendingExpires, VotingSignsToken, VotingSpendsToken,
     DeleteOption, surveyVars
<1>6. ASSUME NEW p \in Submissions, SubmitCount(p) PROVE Goal
  BY <1>0, <1>6 DEF SubmitCount
<1>7. ASSUME NEW p \in Submissions, SubmitTally(p) PROVE Goal
  BY <1>0, <1>7 DEF SubmitTally
<1>8. CASE EvictCounter
  BY <1>0, <1>8 DEF EvictCounter
<1> QED BY <1>k, <1>1, <1>2, <1>3, <1>4, <1>5, <1>6, <1>7, <1>8 DEF SurveyNext, SubmitStep

\* The answer with t is counted, under its option as well.
Answered(t) ==
    \/ TokenAnswered(t)
    \/ \E p \in Submissions :
          surveyPc[p] = "subNotify" /\ ~answering[p].practice /\ surveyArg[p].token = t

LEMMA AnsweredIsSpent == ASSUME NEW t, Answered(t) PROVE Spent(t)
BY DEF Answered, Spent, StoredWith, Stored

\* Only HINCRBY makes it so.
LEMMA AnsweredMoves ==
    ASSUME SurveyTyped, SurveyCountsOK, SurveyInv, [SurveyNext]_surveyVars, NEW t, Answered(t)'
    PROVE  Answered(t) \/ \E p \in Submissions : SubmitTally(p) /\ surveyArg[p].token = t
<1> USE DEF surveyRows, historyVars, submissionVars, counterVars
<1>0. SubmissionsOK
  BY DEF SurveyTyped
<1>k. ASSUME NEW p \in Submissions, \A q \in Submissions \ {p} : Unmoved(q), UNCHANGED told,
             surveyPc'[p] # "subNotify" \/ answering'[p].practice
      PROVE  Answered(t)
  BY <1>k DEF Answered, TokenAnswered, Unmoved
<1>1. ASSUME NEW p \in Submissions, SurveySignBegin(p) \/ SurveySignStep(p) PROVE Answered(t)
  <2>1. surveyPc'[p] # "subNotify"
    BY <1>0, <1>1 DEF SurveySignBegin, SurveySignStep, SurveySignCheck, SurveySignPending,
       SurveySignParticipate, SurveySignReply, SurveyStart, SurveyOn, SurveyEnd, SurveyGoto,
       SubmissionsOK
  <2>2. told' = told \/ TellSurvey(p, "signed", surveyArg[p].blinded, surveyArg[p].practice)
    BY <1>1 DEF SurveySignBegin, SurveySignStep, SurveySignCheck, SurveySignPending,
       SurveySignParticipate, SurveySignReply
  <2>3. TokenAnswered(t)' => TokenAnswered(t)
    BY <2>2 DEF TellSurvey, TokenAnswered
  <2>4. \A q \in Submissions \ {p} : Unmoved(q)
    BY <1>1, OthersUnmovedAtAll
  <2> QED BY <2>1, <2>3, <2>4 DEF Answered, Unmoved
<1>2. ASSUME NEW p \in Submissions,
             SubmitBegin(p) \/ SubmitPending(p) \/ SubmitFind(p) \/ SubmitCreate(p)
      PROVE  Answered(t)
  <2>1. UNCHANGED told
    BY <1>2 DEF SubmitBegin, SubmitPending, SubmitFind, SubmitCreate
  <2>2. surveyPc'[p] # "subNotify" \/ answering'[p].practice
    BY <1>2, ApartStays DEF Apart, Stored
  <2> QED BY <1>2, <1>k, <2>1, <2>2, OthersUnmovedAtAll DEF SubmitStep
<1>3. ASSUME NEW p \in Submissions,
             SubmitCount(p) \/ SealBegin(p) \/ SealStep(p) \/ SubmissionFails(p)
      PROVE  Answered(t)
  <2>1. UNCHANGED told
    BY <1>3 DEF SubmitCount, SealBegin, SealStep, SealHashes, SealTotal, SealRows,
       SealRead, SealCommit, SubmissionFails
  <2>2. surveyPc'[p] # "subNotify"
    BY <1>0, <1>3 DEF SubmitCount, SealBegin, SealStep, SealHashes, SealTotal, SealRows,
       SealRead, SealCommit, SubmissionFails, SurveyStart, SurveyOn, SurveyEnd, SurveyGoto,
       SubmissionsOK
  <2> QED BY <1>3, <1>k, <2>1, <2>2, OthersUnmovedAtAll DEF SubmitStep
<1>4. ASSUME NEW p \in Submissions, SubmitCommit(p) PROVE Answered(t)
  <2>1. UNCHANGED told /\ surveyPc'[p] # "subNotify"
    BY <1>4, CommitCases DEF SubmitCommit
  <2> QED BY <1>4, <1>k, <2>1, OthersUnmovedAtAll DEF SubmitStep
<1>5. ASSUME NEW p \in Submissions, SubmitNotify(p) PROVE Answered(t)
  <2>1. /\ surveyPc'[p] = "idle" /\ surveyPc[p] = "subNotify"
        /\ IF answering[p].practice THEN UNCHANGED told
           ELSE TellSurvey(p, "answered", surveyArg[p].token, FALSE)
    BY <1>0, <1>5 DEF SubmitNotify, SurveyEnd, SurveyGoto, SubmissionsOK
  <2>2. TokenAnswered(t)' => TokenAnswered(t) \/ (~answering[p].practice /\ surveyArg[p].token = t)
    BY <2>1 DEF TellSurvey, TokenAnswered
  <2>3. \A q \in Submissions \ {p} : Unmoved(q)
    BY <1>5, OthersUnmovedAtAll DEF SubmitStep
  <2> QED BY <2>1, <2>2, <2>3 DEF Answered, Unmoved
<1>6. ASSUME NEW p \in Submissions, SubmitTally(p)
      PROVE  Answered(t) \/ (SubmitTally(p) /\ surveyArg[p].token = t)
  <2>1. UNCHANGED told /\ surveyArg'[p] = surveyArg[p]
    BY <1>6 DEF SubmitTally, SurveyOn
  <2>2. \A q \in Submissions \ {p} : Unmoved(q)
    BY <1>6, OthersUnmovedAtAll DEF SubmitStep
  <2> QED BY <1>6, <2>1, <2>2 DEF Answered, TokenAnswered, Unmoved
<1>7. ASSUME UNCHANGED <<submissionVars, told>> PROVE Answered(t)
  BY <1>7 DEF Answered, TokenAnswered
<1>8. ASSUME NEW s \in Surveys, WorkerStep(s) \/ FailBroadcast(s) \/ SurveyTick(s) PROVE Answered(t)
  BY <1>7, <1>8 DEF WorkerStep, TakeBroadcast, EmitBroadcast, CompleteBroadcast, FailBroadcast,
     BroadcastStep, SurveyTick
<1>9. ASSUME \/ PendingRowsChange
             \/ \E o \in DeletableOptions : DeleteOption(o)
             \/ EvictCounter \/ UNCHANGED surveyVars
      PROVE  Answered(t)
  BY <1>7, <1>9 DEF PendingRowsChange, SurveyPendingExpires, VotingSignsToken, VotingSpendsToken,
     DeleteOption, EvictCounter, surveyVars
<1> QED BY <1>1, <1>2, <1>3, <1>4, <1>5, <1>6, <1>8, <1>9 DEF SurveyNext, SubmitStep

\* Only the deletion of an option takes one of the survey's own away, and none comes back.
LEMMA OptionsStay ==
    ASSUME SurveyTyped, [SurveyNext]_surveyVars, ~ \E o \in DeletableOptions : DeleteOption(o)
    PROVE  surveyOptions' \cap StaticOptions = surveyOptions \cap StaticOptions
<1> USE DEF surveyRows, historyVars, surveyVars, submissionVars
<1>1. ASSUME NEW p \in Submissions, SurveySignBegin(p) \/ SurveySignStep(p)
      PROVE  UNCHANGED surveyOptions
  BY <1>1 DEF SurveySignBegin, SurveySignStep, SurveySignCheck, SurveySignPending,
              SurveySignParticipate, SurveySignReply
<1>2. ASSUME NEW p \in Submissions, SubmitBegin(p) \/ SubmitStep(p), ~SubmitCreate(p)
      PROVE  UNCHANGED surveyOptions
  BY <1>2 DEF SubmitBegin, SubmitStep, SubmitPending, SubmitFind, SubmitCommit,
              SubmitCount, SubmitTally, SubmitNotify
<1>3. ASSUME NEW p \in Submissions, SealBegin(p) \/ SealStep(p) \/ SubmissionFails(p)
      PROVE  UNCHANGED surveyOptions
  BY <1>3 DEF SealBegin, SealStep, SealHashes, SealTotal, SealRows, SealRead, SealCommit,
              SubmissionFails
<1>4. ASSUME NEW s \in Surveys, WorkerStep(s) \/ FailBroadcast(s) \/ SurveyTick(s)
      PROVE  UNCHANGED surveyOptions
  BY <1>4 DEF WorkerStep, TakeBroadcast, EmitBroadcast, CompleteBroadcast, FailBroadcast,
              BroadcastStep, SurveyTick
<1>5. ASSUME \/ PendingRowsChange
             \/ EvictCounter
             \/ UNCHANGED surveyVars
      PROVE  UNCHANGED surveyOptions
  BY <1>5 DEF PendingRowsChange, SurveyPendingExpires, VotingSignsToken, VotingSpendsToken,
              EvictCounter
<1>6. ASSUME NEW p \in Submissions, SubmitCreate(p)
      PROVE  surveyOptions' \cap StaticOptions = surveyOptions \cap StaticOptions
  <2>1. surveyOptions' = surveyOptions \cup {Created(p)} /\ Created(p) \in DynamicIds
    BY <1>6 DEF SubmitCreate, Created, DynamicIds, SurveyTyped, SubmissionsOK
  <2> QED BY <2>1, QuestionsAssumption
<1> QED BY <1>1, <1>2, <1>3, <1>4, <1>5, <1>6 DEF SurveyNext

\* A counter of an option that is there keeps its rows, and a row that is new under
\* it is the first answer with its token, or the token was sent again.
LEMMA RowsMove ==
    ASSUME SurveyTyped, SurveyInv, TokenInv, [SurveyNext]_surveyVars, NEW k, Live(k)'
    PROVE  /\ Live(k) /\ RowsUnder(k) \subseteq RowsUnder(k)'
           /\ \A b \in RowsUnder(k)' :
                 b \in RowsUnder(k) \/ b.token \in reused' \/ ~Spent(b.token)
<1> DEFINE Goal == /\ Live(k) /\ RowsUnder(k) \subseteq RowsUnder(k)'
                   /\ \A b \in RowsUnder(k)' :
                         b \in RowsUnder(k) \/ b.token \in reused' \/ ~Spent(b.token)
<1> USE DEF surveyRows
<1>1. ASSUME NEW p \in Submissions, SubmitCommit(p) PROVE Goal
  <2>0. UNCHANGED surveyOptions /\ surveyPc[p] = "subCommit"
    BY <1>1 DEF SubmitCommit
  <2>1. CASE UNCHANGED answers
    BY <2>0, <2>1 DEF Live, RowsUnder
  <2>2. CASE /\ answers' = answers \cup AnswerRows(p)
             /\ surveyPc'[p] = "subCount"
    <3>1. surveyArg[p].token \in reused' \/ ~Spent(surveyArg[p].token)
      <4>1. surveyArg[p].token \in SurveyTokens
        BY <2>0, AnswerArgTyped DEF SurveyTyped, SubmitPCs
      <4>2. surveyArg[p].token \in reused' \/ surveyArg[p].token \notin spent
        BY <1>1, <2>2, FirstOrRepeat
      <4>3. reused \subseteq reused'
        BY TokensMove
      <4> QED BY <4>1, <4>2, <4>3 DEF TokenInv, SpentOnce
    <3>2. \A b \in AnswerRows(p) : b.token = surveyArg[p].token
      BY <2>0, RowsOfOwnSurvey
    <3>3. \A b \in RowsUnder(k)' : b \in RowsUnder(k) \/ b \in AnswerRows(p)
      BY <2>2 DEF RowsUnder
    <3>4. Live(k) /\ RowsUnder(k) \subseteq RowsUnder(k)'
      BY <2>0, <2>2 DEF Live, RowsUnder
    <3> QED BY <3>1, <3>2, <3>3, <3>4
  <2> QED BY <1>1, <2>1, <2>2, CommitCases
<1>2. ASSUME NEW o \in DeletableOptions, DeleteOption(o) PROVE Goal
  <2>1. /\ surveyOptions' = surveyOptions \ {o} /\ o \in StaticOptions
        /\ answers' = {IF b.option = o THEN [b EXCEPT !.option = Deleted] ELSE b : b \in answers}
    BY <1>2, SurveyRequestsAssumption DEF DeleteOption
  <2>2. k # o /\ Live(k)
    BY <2>1 DEF Live
  <2>3. KeyOf(o) = o
    BY <2>1, QuestionsAssumption DEF KeyOf
  <2>4. \A b \in RowsUnder(k) : b.option # o
    BY <2>2, <2>3 DEF RowsUnder
  <2>5. RowsUnder(k) \subseteq RowsUnder(k)'
    BY <2>1, <2>4 DEF RowsUnder
  <2>6. \A b \in AnswerRow : [b EXCEPT !.option = Deleted].option = Deleted
    BY DEF AnswerRow
  <2>7. RowsUnder(k)' \subseteq RowsUnder(k)
    BY <2>1, <2>6 DEF RowsUnder, SurveyTyped, SurveyRowsOK
  <2> QED BY <2>2, <2>5, <2>7
<1>3. CASE /\ ~ \E p \in Submissions : SubmitCommit(p)
           /\ ~ \E o \in DeletableOptions : DeleteOption(o)
  <2>1. UNCHANGED answers
    BY <1>3, AnswersKept
  <2>2. RowsUnder(k)' = RowsUnder(k)
    BY <2>1 DEF RowsUnder
  <2>3. Live(k)
    BY <1>3, OptionsStay DEF Live
  <2> QED BY <2>2, <2>3
<1> QED BY <1>1, <1>2, <1>3

\* The submissions whose response is counted and not confirmed yet.
Telling(s) ==
    {p \in Submissions : /\ surveyPc[p] = "subTally" \/ (surveyPc[p] = "subNotify" /\ ~answering[p].practice)
                         /\ surveyArg[p].survey = s}

TalliedRows(k) == {b \in RowsUnder(k) : b.token \notin reused /\ Answered(b.token)}

ResponseCounts(s) ==
    /\ IsFiniteSet(AnsweredBy(s)) /\ IsFiniteSet(Telling(s))
    /\ lostCounters = 0 =>
          Cardinality(AnsweredBy(s)) + Cardinality(Telling(s)) <= responses[s]

OptionCounts(k) ==
    lostCounters = 0 /\ Live(k) /\ k = KeyOf(k) => Cardinality(TalliedRows(k)) <= tally[k]

\* While Redis has lost nothing, each confirmed answer is among the responses,
\* and its row under its option.
CountedInv ==
    /\ \A s \in Surveys : ResponseCounts(s)
    /\ \A k \in CounterKeys : OptionCounts(k)

LEMMA ResponseNumbers ==
    ASSUME SurveyCountsOK, CountedInv, NEW s \in Surveys
    PROVE  /\ responses[s] \in Nat
           /\ IsFiniteSet(AnsweredBy(s)) /\ Cardinality(AnsweredBy(s)) \in Nat
           /\ IsFiniteSet(Telling(s)) /\ Cardinality(Telling(s)) \in Nat
BY FS_CardinalityType DEF CountedInv, ResponseCounts, SurveyCountsOK

LEMMA ResponsesKept ==
    ASSUME SurveyTyped, SurveyCountsOK, SurveyCountsOK', CountedInv, [SurveyNext]_surveyVars,
           NEW s \in Surveys, AnsweredBy(s)' = AnsweredBy(s), Telling(s)' \subseteq Telling(s)
    PROVE  ResponseCounts(s)'
<1>1. /\ IsFiniteSet(Telling(s)') /\ Cardinality(Telling(s)') \in Nat
      /\ Cardinality(Telling(s)') <= Cardinality(Telling(s))
  BY ResponseNumbers, Part
<1>2. responses'[s] \in Nat
  BY DEF SurveyCountsOK
<1>3. ASSUME lostCounters' = 0
      PROVE  Cardinality(AnsweredBy(s)') + Cardinality(Telling(s)') <= responses'[s]
  <2>1. lostCounters = 0 /\ responses[s] <= responses'[s]
    BY <1>3, CountersRise
  <2>2. Cardinality(AnsweredBy(s)) + Cardinality(Telling(s)) <= responses[s]
    BY <2>1 DEF CountedInv, ResponseCounts
  <2> QED BY <1>1, <1>2, <2>1, <2>2, ResponseNumbers
<1>4. IsFiniteSet(AnsweredBy(s)')
  BY ResponseNumbers
<1> QED BY <1>1, <1>3, <1>4 DEF ResponseCounts

LEMMA ResponsesStep ==
    ASSUME SurveyTyped, SurveyCountsOK, SurveyCountsOK', SurveyInv, CountedInv,
           [SurveyNext]_surveyVars, NEW s \in Surveys
    PROVE  ResponseCounts(s)'
<1> USE DEF surveyRows, historyVars, submissionVars, counterVars
<1>0. SubmissionsOK /\ responses \in [Surveys -> Nat]
  BY DEF SurveyTyped, SurveyCountsOK
<1>k. ASSUME NEW p \in Submissions, \A q \in Submissions \ {p} : Unmoved(q), UNCHANGED told,
             surveyPc'[p] # "subTally", surveyPc'[p] # "subNotify" \/ answering'[p].practice
      PROVE  ResponseCounts(s)'
  <2>1. AnsweredBy(s)' = AnsweredBy(s)
    BY <1>k DEF AnsweredBy
  <2>2. Telling(s)' \subseteq Telling(s)
    BY <1>k DEF Telling, Unmoved
  <2> QED BY <2>1, <2>2, ResponsesKept
<1>1. ASSUME NEW p \in Submissions, SurveySignBegin(p) \/ SurveySignStep(p)
      PROVE  ResponseCounts(s)'
  <2>1. surveyPc'[p] \notin {"subTally", "subNotify"}
    BY <1>0, <1>1 DEF SurveySignBegin, SurveySignStep, SurveySignCheck, SurveySignPending,
       SurveySignParticipate, SurveySignReply, SurveyStart, SurveyOn, SurveyEnd, SurveyGoto,
       SubmissionsOK
  <2>2. told' = told \/ TellSurvey(p, "signed", surveyArg[p].blinded, surveyArg[p].practice)
    BY <1>1 DEF SurveySignBegin, SurveySignStep, SurveySignCheck, SurveySignPending,
       SurveySignParticipate, SurveySignReply
  <2>3. AnsweredBy(s)' = AnsweredBy(s)
    BY <2>2 DEF TellSurvey, AnsweredBy
  <2>4. \A q \in Submissions \ {p} : Unmoved(q)
    BY <1>1, OthersUnmovedAtAll
  <2>5. Telling(s)' \subseteq Telling(s)
    BY <2>1, <2>4 DEF Telling, Unmoved
  <2> QED BY <2>3, <2>5, ResponsesKept
<1>2. ASSUME NEW p \in Submissions,
             SubmitBegin(p) \/ SubmitPending(p) \/ SubmitFind(p) \/ SubmitCreate(p)
      PROVE  ResponseCounts(s)'
  <2>1. UNCHANGED told
    BY <1>2 DEF SubmitBegin, SubmitPending, SubmitFind, SubmitCreate
  <2>2. surveyPc'[p] # "subTally" /\ (surveyPc'[p] # "subNotify" \/ answering'[p].practice)
    BY <1>2, ApartStays DEF Apart, Stored
  <2> QED BY <1>2, <1>k, <2>1, <2>2, OthersUnmovedAtAll DEF SubmitStep
<1>3. ASSUME NEW p \in Submissions, SealBegin(p) \/ SealStep(p) \/ SubmissionFails(p)
      PROVE  ResponseCounts(s)'
  <2>1. UNCHANGED told
    BY <1>3 DEF SealBegin, SealStep, SealHashes, SealTotal, SealRows, SealRead, SealCommit,
       SubmissionFails
  <2>2. surveyPc'[p] \notin {"subTally", "subNotify"}
    BY <1>0, <1>3 DEF SealBegin, SealStep, SealHashes, SealTotal, SealRows, SealRead, SealCommit,
       SubmissionFails, SurveyStart, SurveyEnd, SurveyGoto, SubmissionsOK
  <2> QED BY <1>3, <1>k, <2>1, <2>2, OthersUnmovedAtAll
<1>4. ASSUME NEW p \in Submissions, SubmitCommit(p) PROVE ResponseCounts(s)'
  <2>1. UNCHANGED told /\ surveyPc'[p] \notin {"subTally", "subNotify"}
    BY <1>4, CommitCases DEF SubmitCommit
  <2> QED BY <1>4, <1>k, <2>1, OthersUnmovedAtAll DEF SubmitStep
<1>5. ASSUME NEW p \in Submissions, SubmitCount(p) PROVE ResponseCounts(s)'
  <2>1. /\ UNCHANGED <<told, lostCounters>> /\ surveyPc[p] = "subCount" /\ surveyPc'[p] = "subTally"
        /\ surveyArg'[p] = surveyArg[p]
        /\ responses' = [responses EXCEPT ![surveyArg[p].survey] = @ + 1]
    BY <1>0, <1>5 DEF SubmitCount, SurveyOn, SurveyGoto, SubmissionsOK, NoSurveyFault
  <2>2. AnsweredBy(s)' = AnsweredBy(s)
    BY <2>1 DEF AnsweredBy
  <2>3. \A q \in Submissions \ {p} : Unmoved(q)
    BY <1>5, OthersUnmovedAtAll DEF SubmitStep
  <2>4. CASE surveyArg[p].survey # s
    <3>1. Telling(s)' \subseteq Telling(s)
      BY <2>1, <2>3, <2>4 DEF Telling, Unmoved
    <3> QED BY <2>2, <3>1, ResponsesKept
  <2>5. CASE surveyArg[p].survey = s
    <3>1. Telling(s)' = Telling(s) \cup {p}
      BY <2>1, <2>3, <2>5 DEF Telling, Unmoved
    <3>2. /\ IsFiniteSet(Telling(s)') /\ Cardinality(Telling(s)') \in Nat
          /\ Cardinality(Telling(s)') <= Cardinality(Telling(s)) + 1
      BY <3>1, OneMoreOrLess, ResponseNumbers
    <3>3. responses'[s] = responses[s] + 1
      BY <1>0, <2>1, <2>5
    <3>4. lostCounters = 0 =>
             Cardinality(AnsweredBy(s)) + Cardinality(Telling(s)) <= responses[s]
      BY DEF CountedInv, ResponseCounts
    <3> QED BY <2>1, <2>2, <3>2, <3>3, <3>4, ResponseNumbers DEF ResponseCounts
  <2> QED BY <2>4, <2>5
<1>6. ASSUME NEW p \in Submissions, SubmitTally(p) PROVE ResponseCounts(s)'
  <2>1. UNCHANGED told /\ surveyPc[p] = "subTally" /\ surveyArg'[p] = surveyArg[p]
    BY <1>6 DEF SubmitTally, SurveyOn
  <2>2. AnsweredBy(s)' = AnsweredBy(s)
    BY <2>1 DEF AnsweredBy
  <2>3. \A q \in Submissions \ {p} : Unmoved(q)
    BY <1>6, OthersUnmovedAtAll DEF SubmitStep
  <2>4. Telling(s)' \subseteq Telling(s)
    BY <2>1, <2>3 DEF Telling, Unmoved
  <2> QED BY <2>2, <2>4, ResponsesKept
<1>7. ASSUME NEW p \in Submissions, SubmitNotify(p) PROVE ResponseCounts(s)'
  <2>1. /\ surveyPc'[p] = "idle" /\ surveyPc[p] = "subNotify"
        /\ UNCHANGED <<responses, lostCounters>>
        /\ IF answering[p].practice THEN UNCHANGED told
           ELSE TellSurvey(p, "answered", surveyArg[p].token, FALSE)
    BY <1>0, <1>7 DEF SubmitNotify, SurveyEnd, SurveyGoto, SubmissionsOK
  <2>2. \A q \in Submissions \ {p} : Unmoved(q)
    BY <1>7, OthersUnmovedAtAll DEF SubmitStep
  <2>3. CASE answering[p].practice
    BY <1>k, <2>1, <2>2, <2>3
  <2>4. CASE ~answering[p].practice
    <3> DEFINE new == [kind |-> "answered", survey |-> surveyArg[p].survey,
                       token |-> surveyArg[p].token, practice |-> FALSE]
    <3>1. told' = told \cup {new}
      BY <2>1, <2>4 DEF TellSurvey
    <3>2. new.kind = "answered" /\ new.token = surveyArg[p].token /\ new.survey = surveyArg[p].survey
      OBVIOUS
    <3> HIDE DEF new
    <3>3. Telling(s)' = Telling(s) \ {p}
      BY <2>1, <2>2 DEF Telling, Unmoved
    <3>4. CASE surveyArg[p].survey # s
      <4>1. AnsweredBy(s)' = AnsweredBy(s)
        BY <3>1, <3>2, <3>4 DEF AnsweredBy
      <4> QED BY <3>3, <4>1, ResponsesKept
    <3>5. CASE surveyArg[p].survey = s
      <4>1. AnsweredBy(s)' = AnsweredBy(s) \cup {surveyArg[p].token}
        BY <3>1, <3>2, <3>5 DEF AnsweredBy
      <4>2. p \in Telling(s)
        BY <2>1, <2>4, <3>5 DEF Telling
      <4>3. /\ IsFiniteSet(Telling(s)') /\ Cardinality(Telling(s)') \in Nat
            /\ Cardinality(Telling(s)') + 1 = Cardinality(Telling(s))
        BY <3>3, <4>2, OneMoreOrLess, ResponseNumbers
      <4>4. /\ IsFiniteSet(AnsweredBy(s)') /\ Cardinality(AnsweredBy(s)') \in Nat
            /\ Cardinality(AnsweredBy(s)') <= Cardinality(AnsweredBy(s)) + 1
        BY <4>1, OneMoreOrLess, ResponseNumbers
      <4>5. lostCounters = 0 =>
               Cardinality(AnsweredBy(s)) + Cardinality(Telling(s)) <= responses[s]
        BY DEF CountedInv, ResponseCounts
      <4> QED BY <2>1, <4>3, <4>4, <4>5, ResponseNumbers DEF ResponseCounts
    <3> QED BY <3>4, <3>5
  <2> QED BY <2>3, <2>4
<1>8. ASSUME UNCHANGED <<submissionVars, told>> PROVE ResponseCounts(s)'
  <2>1. AnsweredBy(s)' = AnsweredBy(s) /\ Telling(s)' = Telling(s)
    BY <1>8 DEF AnsweredBy, Telling
  <2> QED BY <2>1, ResponsesKept
<1>9. ASSUME NEW u \in Surveys, WorkerStep(u) \/ FailBroadcast(u) \/ SurveyTick(u)
      PROVE  ResponseCounts(s)'
  BY <1>8, <1>9 DEF WorkerStep, TakeBroadcast, EmitBroadcast, CompleteBroadcast, FailBroadcast,
     BroadcastStep, SurveyTick
<1>10. ASSUME \/ PendingRowsChange
              \/ \E o \in DeletableOptions : DeleteOption(o)
              \/ EvictCounter \/ UNCHANGED surveyVars
       PROVE  ResponseCounts(s)'
  BY <1>8, <1>10 DEF PendingRowsChange, SurveyPendingExpires, VotingSignsToken, VotingSpendsToken,
     DeleteOption, EvictCounter, surveyVars
<1> QED BY <1>1, <1>2, <1>3, <1>4, <1>5, <1>6, <1>7, <1>9, <1>10 DEF SurveyNext, SubmitStep

\* Options that Redis counts together belong to one question.
LEMMA KeysApart ==
    ASSUME NEW o1 \in OptionIds, NEW o2 \in OptionIds, KeyOf(o1) = KeyOf(o2)
    PROVE  QuestionOfOption(o1) = QuestionOfOption(o2)
<1>1. ASSUME NEW o \in OptionIds
      PROVE  \/ KeyOf(o) = o
             \/ /\ o \in DynamicIds /\ o[2] \in Questions
                /\ KeyOf(o) = OtherOf(o[2]) /\ QuestionOfOption(o) = o[2]
  BY QuestionsAssumption DEF KeyOf, QuestionOfOption, DynamicIds
<1>2. \A q \in Questions : OtherOf(q)[2] = q /\ OtherOf(q) \notin OptionIds
  BY CounterKeysAssumption DEF OtherOf
<1>3. \/ KeyOf(o1) = o1 /\ KeyOf(o2) = o2
      \/ KeyOf(o1) # o1 /\ KeyOf(o2) # o2
  BY <1>1, <1>2
<1> QED BY <1>1, <1>2, <1>3

\* At most one row of a submission is counted under a key.
LEMMA OneRowUnderKey ==
    ASSUME SurveyTyped, SurveyInv, NEW p \in Submissions, surveyPc[p] \in SubmitPCs, NEW k,
           NEW b1 \in AnswerRows(p) \cap answers, NEW b2 \in AnswerRows(p) \cap answers,
           KeyOf(b1.option) = k, KeyOf(b2.option) = k
    PROVE  b1 = b2
<1>1. /\ b1.option \in OptionIds /\ b1.question = QuestionOfOption(b1.option)
      /\ b2.option \in OptionIds /\ b2.question = QuestionOfOption(b2.option)
      /\ b1.token = b2.token
  BY AnswerArgTyped DEF AnswerRows, OwnOptions, OptionIds, SurveyTyped
<1>2. SignatureOf(b1) = SignatureOf(b2)
  BY <1>1, KeysApart DEF SignatureOf
<1> QED BY <1>2 DEF SurveyInv, RollAndAnswersUnique

LEMMA OptionsStep ==
    ASSUME SurveyTyped, SurveyInv, BackedInv, BackedInv', TokenInv, CountedInv,
           [SurveyNext]_surveyVars, NEW k \in CounterKeys
    PROVE  OptionCounts(k)'
<1> SUFFICES ASSUME lostCounters' = 0, Live(k)', k = KeyOf(k)
             PROVE  Cardinality(TalliedRows(k)') <= tally'[k]
  BY DEF OptionCounts, KeyOf
<1>0. SurveyCountsOK /\ SurveyCountsOK'
  BY DEF BackedInv
<1>1. /\ lostCounters = 0 /\ tally[k] <= tally'[k] /\ tally[k] \in Nat /\ tally'[k] \in Nat
      /\ Live(k) /\ reused \subseteq reused'
      /\ \A b \in RowsUnder(k)' : b \in RowsUnder(k) \/ b.token \in reused' \/ ~Spent(b.token)
  BY <1>0, CountersRise, RowsMove, TokensMove DEF SurveyCountsOK, Counts
<1>2. /\ IsFiniteSet(TalliedRows(k)) /\ Cardinality(TalliedRows(k)) \in Nat
      /\ Cardinality(TalliedRows(k)) <= tally[k]
  <2>1. TalliedRows(k) \subseteq answers
    BY DEF TalliedRows, RowsUnder
  <2> QED BY <1>1, <2>1, Part DEF CountedInv, OptionCounts, BackedInv
<1>3. ASSUME NEW p \in Submissions, SubmitTally(p)
      PROVE  Cardinality(TalliedRows(k)') <= tally'[k]
  <2>1. /\ surveyPc[p] = "subTally" /\ UNCHANGED <<answers, reused, told>>
        /\ tally'[k] = IF k \in Keys(p) THEN tally[k] + 1 ELSE tally[k]
    BY <1>3 DEF SubmitTally, Keys, surveyRows, historyVars
  <2>2. ASSUME NEW b \in TalliedRows(k)', b \notin TalliedRows(k)
        PROVE  b \in AnswerRows(p) \cap answers /\ KeyOf(b.option) = k
    <3>1. /\ b \in RowsUnder(k) /\ b.token \notin reused /\ Answered(b.token)'
          /\ b \in answers /\ b.option # Deleted /\ KeyOf(b.option) = k
      BY <1>0, <2>1, <2>2 DEF TalliedRows, RowsUnder
    <3>2. PICK q \in Submissions : SubmitTally(q) /\ surveyArg[q].token = b.token
      BY <1>0, <2>2, <3>1, AnsweredMoves DEF TalliedRows
    <3>3. StoredWith(q, b.token)
      BY <3>2 DEF StoredWith, Stored, SubmitTally
    <3>4. b.token \in SurveyTokens \ reused
      BY <3>1 DEF SurveyTyped, SurveyRowsOK, AnswerRow
    <3>5. b \in AnswerRows(q)
      BY <3>1, <3>3, <3>4 DEF TokenInv, SpentOnce, RowsOf
    <3>6. q = p
      <4>1. q # p => Unmoved(p)
        BY <1>0, <3>2, OthersUnmovedAtAll DEF SubmitStep
      <4>2. surveyPc'[p] = "subNotify"
        BY <1>3 DEF SubmitTally, SurveyOn, SurveyGoto, SurveyTyped, SubmissionsOK
      <4> QED BY <2>1, <4>1, <4>2 DEF Unmoved
    <3> QED BY <3>1, <3>5, <3>6
  <2>3. CASE TalliedRows(k)' \subseteq TalliedRows(k)
    <3>1. Cardinality(TalliedRows(k)') <= Cardinality(TalliedRows(k)) /\ Cardinality(TalliedRows(k)') \in Nat
      BY <1>2, <2>3, Part
    <3> QED BY <1>1, <1>2, <3>1
  <2>4. CASE ~(TalliedRows(k)' \subseteq TalliedRows(k))
    <3>1. PICK b \in TalliedRows(k)' : b \notin TalliedRows(k)
      BY <2>4
    <3>2. TalliedRows(k)' \subseteq TalliedRows(k) \cup {b}
      BY <2>1, <2>2, <3>1, OneRowUnderKey DEF SubmitPCs
    <3>3. k \in Keys(p)
      BY <2>2, <3>1 DEF Keys
    <3>4. /\ IsFiniteSet(TalliedRows(k) \cup {b})
          /\ Cardinality(TalliedRows(k) \cup {b}) <= Cardinality(TalliedRows(k)) + 1
          /\ Cardinality(TalliedRows(k) \cup {b}) \in Nat
      BY <1>2, OneMoreOrLess
    <3>5. /\ Cardinality(TalliedRows(k)') <= Cardinality(TalliedRows(k) \cup {b})
          /\ Cardinality(TalliedRows(k)') \in Nat
      BY <3>2, <3>4, Part
    <3> QED BY <1>1, <1>2, <2>1, <3>3, <3>4, <3>5
  <2> QED BY <2>3, <2>4
<1>4. CASE ~ \E p \in Submissions : SubmitTally(p)
  <2>1. TalliedRows(k)' \subseteq TalliedRows(k)
    <3> SUFFICES ASSUME NEW b \in TalliedRows(k)' PROVE b \in TalliedRows(k)
      OBVIOUS
    <3>1. b \in RowsUnder(k)' /\ b.token \notin reused' /\ Answered(b.token)'
      BY DEF TalliedRows
    <3>2. Answered(b.token) /\ b.token \notin reused
      BY <1>0, <1>1, <1>4, <3>1, AnsweredMoves
    <3>3. b \in RowsUnder(k)
      BY <1>1, <3>1, <3>2, AnsweredIsSpent
    <3> QED BY <3>2, <3>3 DEF TalliedRows
  <2>2. Cardinality(TalliedRows(k)') <= Cardinality(TalliedRows(k)) /\ Cardinality(TalliedRows(k)') \in Nat
    BY <1>2, <2>1, Part
  <2> QED BY <1>1, <1>2, <2>2
<1> QED BY <1>3, <1>4

\* Each confirmed answer is counted, among the responses and under its option,
\* while Redis has lost nothing (performSurveySubmission before the reply).
THEOREM CountedInvariant == SurveySpec => []CountedInv
<1>1. SurveyInit => CountedInv
  <2> SUFFICES ASSUME SurveyInit PROVE CountedInv
    OBVIOUS
  <2>0. IsFiniteSet({}) /\ Cardinality({}) = 0
    BY FS_EmptySet
  <2>1. \A s \in Surveys : AnsweredBy(s) = {} /\ Telling(s) = {} /\ responses[s] = 0
    BY DEF SurveyInit, AnsweredBy, Telling
  <2>2. \A k \in CounterKeys : TalliedRows(k) = {} /\ tally[k] = 0
    BY DEF SurveyInit, TalliedRows, RowsUnder, NoCounts
  <2>3. \A s \in Surveys : ResponseCounts(s)
    BY <2>0, <2>1 DEF ResponseCounts
  <2>4. ASSUME NEW k \in CounterKeys PROVE OptionCounts(k)
    <3>1. Cardinality(TalliedRows(k)) = 0 /\ tally[k] = 0
      BY <2>0, <2>2
    <3> QED BY <3>1 DEF OptionCounts
  <2> QED BY <2>3, <2>4 DEF CountedInv
<1>2. /\ SurveyTyped /\ SurveyInv /\ BackedInv /\ BackedInv' /\ TokenInv /\ CountedInv
      /\ [SurveyNext]_surveyVars
      => CountedInv'
  BY ResponsesStep, OptionsStep DEF CountedInv, BackedInv
<1> QED BY <1>1, <1>2, SurveyTypes, SurveyInvariant, BackedInvariant, TokenInvariant, PTL
    DEF SurveySpec

-----------------------------------------------------------------------------
(* A sealed survey covers what was confirmed.                              *)

\* The rows owed by a finalization whose token was not sent again.
OwedRows(owed, k) == {b \in RowsUnder(k) : b.token \in owed \ reused}

\* What a finalization of s owes had been confirmed.
SealSound(s, z) == z.owed \subseteq AnsweredBy(s)

\* The counts it holds lie between the rows it owes and the rows there are.
KeyCovered(z, k) ==
    /\ z.counts[k] <= Cardinality(RowsUnder(k))
    /\ lostCounters = 0 => Cardinality(OwedRows(z.owed, k)) <= z.counts[k]
SealCounts(s, z) ==
    \A k \in KeysOf(s) : Live(k) /\ k = KeyOf(k) => KeyCovered(z, k)

SealTotals(z) == lostCounters = 0 => Cardinality(z.owed) <= z.total

Sealed(s, z) == SealSound(s, z) /\ SealCounts(s, z) /\ SealTotals(z)

SealHolds(p) ==
    /\ surveyPc[p] \in SealPCs => SealSound(surveyArg[p].survey, sealing[p])
    /\ surveyPc[p] \in {"sealTotal", "sealRows", "sealCommit"} =>
          SealCounts(surveyArg[p].survey, sealing[p])
    /\ surveyPc[p] \in {"sealRows", "sealCommit"} => SealTotals(sealing[p])

\* A finalization in progress, and a sealed survey, count what they owe.
SealInv ==
    /\ \A p \in Submissions : SealHolds(p)
    /\ \A s \in Surveys : sealedSurvey[s] # NoResult => Sealed(s, sealedSurvey[s])

LEMMA ConfirmedGrow ==
    ASSUME [SurveyNext]_surveyVars, NEW s
    PROVE  AnsweredBy(s) \subseteq AnsweredBy(s)'
BY RollAndRepliesGrow DEF AnsweredBy

LEMMA KeyFacts ==
    ASSUME BackedInv, NEW s, NEW k \in KeysOf(s), NEW z \in Sealing
    PROVE  /\ k \in CounterKeys /\ z.counts[k] \in Nat /\ tally[k] \in Nat
           /\ IsFiniteSet(RowsUnder(k)) /\ Cardinality(RowsUnder(k)) \in Nat
           /\ IsFiniteSet(OwedRows(z.owed, k)) /\ Cardinality(OwedRows(z.owed, k)) \in Nat
           /\ Cardinality(OwedRows(z.owed, k)) <= Cardinality(RowsUnder(k))
<1>1. k \in CounterKeys
  BY DEF KeysOf
<1>2. z.counts[k] \in Nat /\ tally[k] \in Nat
  BY <1>1 DEF Sealing, Counts, BackedInv, SurveyCountsOK
<1>3. IsFiniteSet(RowsUnder(k)) /\ Cardinality(RowsUnder(k)) \in Nat
  BY CountsAreNumbers DEF BackedInv
<1>4. OwedRows(z.owed, k) \subseteq RowsUnder(k)
  BY DEF OwedRows
<1> QED BY <1>1, <1>2, <1>3, <1>4, Part

\* What was read stays good: rows are added under an option, and those of a
\* token that was confirmed before belong to a reuse.
LEMMA SealedStays ==
    ASSUME SurveyTyped, SurveyInv, BackedInv, BackedInv', TokenInv, [SurveyNext]_surveyVars,
           NEW s, NEW z \in Sealing, SealSound(s, z)
    PROVE  /\ SealSound(s, z)'
           /\ SealCounts(s, z) => SealCounts(s, z)'
           /\ SealTotals(z) => SealTotals(z)'
<1>0. SurveyCountsOK /\ (lostCounters' = 0 => lostCounters = 0)
  BY CountersRise DEF BackedInv
<1>1. SealSound(s, z)'
  BY ConfirmedGrow DEF SealSound
<1>2. SealTotals(z) => SealTotals(z)'
  BY <1>0 DEF SealTotals
<1>3. ASSUME SealCounts(s, z), NEW k \in KeysOf(s), Live(k)', k = KeyOf(k)
      PROVE  KeyCovered(z, k)'
  <2>1. /\ Live(k) /\ RowsUnder(k) \subseteq RowsUnder(k)' /\ reused \subseteq reused'
        /\ \A b \in RowsUnder(k)' :
              b \in RowsUnder(k) \/ b.token \in reused' \/ ~Spent(b.token)
    BY <1>3, RowsMove, TokensMove
  <2>2. KeyCovered(z, k)
    BY <1>3, <2>1 DEF SealCounts
  <2>3. /\ IsFiniteSet(RowsUnder(k)') /\ Cardinality(RowsUnder(k)') \in Nat
        /\ Cardinality(RowsUnder(k)) <= Cardinality(RowsUnder(k)')
    <3>1. IsFiniteSet(RowsUnder(k)')
      <4>1. RowsUnder(k)' \subseteq answers' /\ IsFiniteSet(answers')
        BY DEF RowsUnder, BackedInv
      <4> QED BY <4>1, Part
    <3> QED BY <2>1, <3>1, Part
  <2>4. OwedRows(z.owed, k)' \subseteq OwedRows(z.owed, k)
    <3> SUFFICES ASSUME NEW b \in OwedRows(z.owed, k)' PROVE b \in OwedRows(z.owed, k)
      OBVIOUS
    <3>1. b \in RowsUnder(k)' /\ b.token \in z.owed /\ b.token \notin reused'
      BY DEF OwedRows
    <3>2. Spent(b.token)
      BY <3>1 DEF SealSound, AnsweredBy, Spent, TokenAnswered
    <3> QED BY <2>1, <3>1, <3>2 DEF OwedRows
  <2>5. /\ Cardinality(OwedRows(z.owed, k)') <= Cardinality(OwedRows(z.owed, k))
        /\ Cardinality(OwedRows(z.owed, k)') \in Nat
    BY <1>3, <2>4, KeyFacts, Part
  <2>6. z.counts[k] <= Cardinality(RowsUnder(k)')
    BY <1>3, <2>2, <2>3, KeyFacts DEF KeyCovered
  <2>7. lostCounters' = 0 => Cardinality(OwedRows(z.owed, k)') <= z.counts[k]
    BY <1>0, <1>3, <2>2, <2>5, KeyFacts DEF KeyCovered
  <2> QED BY <2>6, <2>7 DEF KeyCovered
<1>4. SealCounts(s, z) => SealCounts(s, z)'
  BY <1>3 DEF SealCounts, KeysOf, QuestionsOf, KeyOf
<1> QED BY <1>1, <1>2, <1>4

\* HGETALL: the counters of the options.
LEMMA HashesRead ==
    ASSUME SurveyTyped, BackedInv, CountedInv, NEW s, NEW z \in Sealing, SealSound(s, z),
           \A k \in KeysOf(s) : z.counts[k] = tally[k]
    PROVE  SealCounts(s, z)
<1> SUFFICES ASSUME NEW k \in KeysOf(s), Live(k), k = KeyOf(k) PROVE KeyCovered(z, k)
  BY DEF SealCounts
<1>1. /\ k \in CounterKeys /\ tally[k] \in Nat /\ Cardinality(RowsUnder(k)) \in Nat
      /\ IsFiniteSet(RowsUnder(k))
  BY KeyFacts
<1>2. tally[k] <= Cardinality(RowsUnder(k))
  <2>1. Cardinality(Owing(k)) \in Nat /\ tally[k] + Cardinality(Owing(k)) <= Cardinality(RowsUnder(k))
    BY <1>1, FS_CardinalityType DEF BackedInv, Backed
  <2> QED BY <1>1, <2>1
<1>3. ASSUME lostCounters = 0 PROVE Cardinality(OwedRows(z.owed, k)) <= tally[k]
  <2>1. OwedRows(z.owed, k) \subseteq TalliedRows(k)
    BY DEF OwedRows, TalliedRows, SealSound, AnsweredBy, Answered, TokenAnswered
  <2>2. TalliedRows(k) \subseteq RowsUnder(k)
    BY DEF TalliedRows
  <2>3. IsFiniteSet(TalliedRows(k)) /\ Cardinality(TalliedRows(k)) \in Nat
    BY <1>1, <2>2, Part
  <2>4. Cardinality(OwedRows(z.owed, k)) <= Cardinality(TalliedRows(k)) /\ Cardinality(OwedRows(z.owed, k)) \in Nat
    BY <2>1, <2>3, Part
  <2>5. Cardinality(TalliedRows(k)) <= tally[k]
    BY <1>1, <1>3 DEF CountedInv, OptionCounts
  <2> QED BY <1>1, <2>3, <2>4, <2>5
<1> QED BY <1>2, <1>3 DEF KeyCovered

\* GET: the responses, or the rows when the counter is nought.
LEMMA TotalRead ==
    ASSUME BackedInv, CountedInv, NEW s \in Surveys, NEW z \in Sealing, SealSound(s, z),
           z.total = LiveTotal(s)
    PROVE  SealTotals(z)
<1> SUFFICES ASSUME lostCounters = 0 PROVE Cardinality(z.owed) <= z.total
  BY DEF SealTotals
<1>1. SurveyCountsOK /\ IsFiniteSet(answers)
  BY DEF BackedInv
<1>2. /\ Cardinality(z.owed) \in Nat
      /\ Cardinality(z.owed) <= Cardinality(AnsweredBy(s))
  BY <1>1, ResponseNumbers, Part DEF SealSound
<1>3. Cardinality(AnsweredBy(s)) <= responses[s]
  <2>1. Cardinality(AnsweredBy(s)) + Cardinality(Telling(s)) <= responses[s]
    BY DEF CountedInv, ResponseCounts
  <2> QED BY <1>1, <2>1, ResponseNumbers
<1>4. responses[s] \in Nat /\ Cardinality(AnsweredBy(s)) \in Nat /\ LiveTotal(s) \in Nat
  BY <1>1, ResponseNumbers, CountsAreNumbers
<1> QED BY <1>2, <1>3, <1>4 DEF LiveTotal

\* The options of the survey, with the rows where a hash was empty.
LEMMA RowsRead ==
    ASSUME SurveyTyped, BackedInv, NEW p \in Submissions, NEW s, s = surveyArg[p].survey,
           sealing[p] \in Sealing, SealCounts(s, sealing[p]), NEW z \in Sealing,
           z.owed = sealing[p].owed,
           \A k \in CounterKeys : z.counts[k] = SealedCount(p, k)
    PROVE  SealCounts(s, z)
<1> SUFFICES ASSUME NEW k \in KeysOf(s), Live(k), k = KeyOf(k) PROVE KeyCovered(z, k)
  BY DEF SealCounts
<1>1. /\ k \in CounterKeys /\ IsFiniteSet(RowsUnder(k)) /\ Cardinality(RowsUnder(k)) \in Nat
      /\ Cardinality(OwedRows(z.owed, k)) \in Nat
      /\ Cardinality(OwedRows(z.owed, k)) <= Cardinality(RowsUnder(k))
  BY KeyFacts
<1>2. z.counts[k] = SealedCount(p, k) /\ QuestionOfKey(k) \in QuestionsOf(s)
  BY <1>1 DEF KeysOf
<1>3. CASE ~IsCounted(k)
  <2>1. k \in OptionIds \ surveyOptions
    BY <1>3 DEF IsCounted
  <2>2. RowsUnder(k) = {}
    <3> SUFFICES ASSUME NEW b \in RowsUnder(k) PROVE FALSE
      OBVIOUS
    <3>1. /\ b \in answers /\ b.option # Deleted /\ KeyOf(b.option) = k
          /\ b.option \in surveyOptions
      BY DEF RowsUnder, BackedInv, RowsThere
    <3>2. KeyOf(b.option) # b.option
      BY <2>1, <3>1
    <3>3. b.option \in DynamicIds /\ k = OtherOf(b.option[2])
      BY <3>1, <3>2 DEF KeyOf
    <3> QED BY <2>1, <3>3, CounterKeysAssumption DEF DynamicIds
  <2>3. z.counts[k] = 0 /\ Cardinality(RowsUnder(k)) = 0
    BY <1>2, <1>3, <2>2, FS_EmptySet DEF SealedCount
  <2> QED BY <1>1, <2>3 DEF KeyCovered
<1>4. CASE IsCounted(k)
  <2>1. z.counts[k] = Cardinality(RowsUnder(k)) \/ z.counts[k] = sealing[p].counts[k]
    BY <1>2, <1>4 DEF SealedCount
  <2>2. CASE z.counts[k] = Cardinality(RowsUnder(k))
    BY <1>1, <2>2 DEF KeyCovered
  <2>3. CASE z.counts[k] = sealing[p].counts[k]
    BY <2>3 DEF SealCounts, KeyCovered
  <2> QED BY <2>1, <2>2, <2>3
<1> QED BY <1>3, <1>4

LEMMA SealReadHolds ==
    ASSUME SurveyTyped, SurveyInv, BackedInv, BackedInv', TokenInv, CountedInv, SealInv,
           [SurveyNext]_surveyVars, NEW p \in Submissions,
           SealHashes(p) \/ SealTotal(p) \/ SealRows(p)
    PROVE  SealHolds(p)'
<1>0. PICK s, z : s = surveyArg[p].survey /\ z = sealing'[p]
  OBVIOUS
<1>1. /\ surveyPc[p] \in SealPCs /\ surveyArg'[p] = surveyArg[p] /\ s \in Surveys
      /\ sealing[p] \in Sealing /\ z \in Sealing /\ SubmissionsOK
      /\ UNCHANGED <<surveyRows, counterVars, historyVars, lostCounters>>
  <2>1. surveyPc[p] \in SealPCs /\ UNCHANGED surveyArg
    BY DEF SealHashes, SealTotal, SealRows, SealRead, SealPCs
  <2>2. sealing[p] \in Sealing /\ z \in Sealing
    BY <1>0 DEF BackedInv, SurveyCountsOK
  <2>3. s \in Surveys
    BY <1>0, <2>1 DEF SurveyTyped, SubmissionsOK, SealRequest
  <2>4. UNCHANGED <<surveyRows, counterVars, historyVars, lostCounters>>
    BY DEF SealHashes, SealTotal, SealRows, SealRead, NoSurveyFault
  <2> QED BY <2>1, <2>2, <2>3, <2>4 DEF SurveyTyped
<1>2. SealSound(s, sealing[p])
  BY <1>0, <1>1 DEF SealInv, SealHolds
<1>3. z.owed = sealing[p].owed
  BY <1>0, <1>1 DEF SealHashes, SealTotal, SealRows, SealRead, BackedInv, SurveyCountsOK, Sealing
<1>4. SealSound(s, z)
  BY <1>2, <1>3 DEF SealSound
<1>5. CASE SealHashes(p)
  <2>1. surveyPc'[p] = "sealTotal"
    BY <1>1, <1>5 DEF SealHashes, SealRead, SurveyGoto, SubmissionsOK
  <2>2. z.counts = [k \in CounterKeys |-> IF k \in KeysOf(s) THEN tally[k] ELSE 0]
    BY <1>0, <1>1, <1>5 DEF SealHashes, SealRead, BackedInv, SurveyCountsOK, Sealing
  <2>3. \A k \in KeysOf(s) : z.counts[k] = tally[k]
    BY <2>2 DEF KeysOf
  <2>4. SealCounts(s, z)
    BY <1>1, <1>4, <2>3, HashesRead
  <2>5. SealSound(s, z)' /\ SealCounts(s, z)'
    BY <1>1, <1>4, <2>4, SealedStays
  <2> QED BY <1>0, <1>1, <2>1, <2>5 DEF SealHolds
<1>6. CASE SealTotal(p)
  <2>1. surveyPc'[p] = "sealRows" /\ surveyPc[p] = "sealTotal"
    BY <1>1, <1>6 DEF SealTotal, SealRead, SurveyGoto, SubmissionsOK
  <2>2. z.counts = sealing[p].counts /\ z.total = LiveTotal(s)
    BY <1>0, <1>1, <1>6 DEF SealTotal, SealRead, BackedInv, SurveyCountsOK, Sealing
  <2>3. SealCounts(s, sealing[p])
    BY <1>0, <2>1 DEF SealInv, SealHolds
  <2>4. SealCounts(s, z)
    BY <1>3, <2>2, <2>3 DEF SealCounts, KeyCovered
  <2>5. SealTotals(z)
    BY <1>1, <1>4, <2>2, TotalRead
  <2>6. SealSound(s, z)' /\ SealCounts(s, z)' /\ SealTotals(z)'
    BY <1>1, <1>4, <2>4, <2>5, SealedStays
  <2> QED BY <1>0, <1>1, <2>1, <2>6 DEF SealHolds
<1>7. CASE SealRows(p)
  <2>1. surveyPc'[p] = "sealCommit" /\ surveyPc[p] = "sealRows"
    BY <1>1, <1>7 DEF SealRows, SealRead, SurveyGoto, SubmissionsOK
  <2>2. /\ z.counts = [k \in CounterKeys |-> SealedCount(p, k)]
        /\ z.total = sealing[p].total
    BY <1>0, <1>1, <1>7 DEF SealRows, SealRead, BackedInv, SurveyCountsOK, Sealing
  <2>3. SealCounts(s, sealing[p]) /\ SealTotals(sealing[p])
    BY <1>0, <2>1 DEF SealInv, SealHolds
  <2>4. SealCounts(s, z)
    BY <1>0, <1>1, <1>3, <2>2, <2>3, RowsRead
  <2>5. SealTotals(z)
    BY <1>3, <2>2, <2>3 DEF SealTotals
  <2>6. SealSound(s, z)' /\ SealCounts(s, z)' /\ SealTotals(z)'
    BY <1>1, <1>4, <2>4, <2>5, SealedStays
  <2> QED BY <1>0, <1>1, <2>1, <2>6 DEF SealHolds
<1> QED BY <1>5, <1>6, <1>7

\* A request that the step leaves alone.
LEMMA SealHoldsOn ==
    ASSUME SurveyTyped, SurveyInv, BackedInv, BackedInv', TokenInv, SealInv,
           [SurveyNext]_surveyVars, NEW p \in Submissions, Unmoved(p)
    PROVE  SealHolds(p)'
<1>0. PICK s, z : s = surveyArg[p].survey /\ z = sealing[p]
  OBVIOUS
<1>1. /\ surveyPc'[p] = surveyPc[p] /\ surveyArg'[p].survey = s /\ sealing'[p] = z
  BY <1>0 DEF Unmoved
<1>2. z \in Sealing
  BY <1>0 DEF BackedInv, SurveyCountsOK
<1>3. CASE surveyPc[p] \in SealPCs
  <2>1. /\ SealSound(s, z)
        /\ surveyPc[p] \in {"sealTotal", "sealRows", "sealCommit"} => SealCounts(s, z)
        /\ surveyPc[p] \in {"sealRows", "sealCommit"} => SealTotals(z)
    BY <1>0, <1>3 DEF SealInv, SealHolds
  <2>2. /\ SealSound(s, z)'
        /\ SealCounts(s, z) => SealCounts(s, z)'
        /\ SealTotals(z) => SealTotals(z)'
    BY <1>2, <2>1, SealedStays
  <2> QED BY <1>1, <2>1, <2>2 DEF SealHolds
<1>4. CASE surveyPc[p] \notin SealPCs
  BY <1>1, <1>4 DEF SealHolds, SealPCs
<1> QED BY <1>3, <1>4

\* The sealed results change with the transaction that seals.
LEMMA ResultsKept ==
    ASSUME [SurveyNext]_surveyVars, ~ \E p \in Submissions : SealCommit(p)
    PROVE  UNCHANGED sealedSurvey
<1> USE DEF surveyRows, surveyVars
<1>1. ASSUME NEW p \in Submissions, SurveySignBegin(p) \/ SurveySignStep(p)
      PROVE  UNCHANGED sealedSurvey
  BY <1>1 DEF SurveySignBegin, SurveySignStep, SurveySignCheck, SurveySignPending,
              SurveySignParticipate, SurveySignReply
<1>2. ASSUME NEW p \in Submissions, SubmitBegin(p) \/ SubmitStep(p)
      PROVE  UNCHANGED sealedSurvey
  BY <1>2 DEF SubmitBegin, SubmitStep, SubmitPending, SubmitFind, SubmitCreate, SubmitCommit,
              SubmitCount, SubmitTally, SubmitNotify
<1>3. ASSUME NEW p \in Submissions, SealBegin(p) \/ SealStep(p) \/ SubmissionFails(p),
             ~SealCommit(p)
      PROVE  UNCHANGED sealedSurvey
  BY <1>3 DEF SealBegin, SealStep, SealHashes, SealTotal, SealRows, SealRead, SubmissionFails
<1>4. ASSUME NEW s \in Surveys, WorkerStep(s) \/ FailBroadcast(s) \/ SurveyTick(s)
      PROVE  UNCHANGED sealedSurvey
  BY <1>4 DEF WorkerStep, TakeBroadcast, EmitBroadcast, CompleteBroadcast, FailBroadcast,
              BroadcastStep, SurveyTick
<1>5. ASSUME \/ PendingRowsChange
             \/ \E o \in DeletableOptions : DeleteOption(o)
             \/ EvictCounter
             \/ UNCHANGED surveyVars
      PROVE  UNCHANGED sealedSurvey
  BY <1>5 DEF PendingRowsChange, SurveyPendingExpires, VotingSignsToken, VotingSpendsToken,
              DeleteOption, EvictCounter
<1> QED BY <1>1, <1>2, <1>3, <1>4, <1>5 DEF SurveyNext

LEMMA ResultsStaySealed ==
    ASSUME SurveyTyped, SurveyInv, BackedInv, BackedInv', TokenInv, SealInv,
           [SurveyNext]_surveyVars, NEW s \in Surveys, sealedSurvey'[s] # NoResult
    PROVE  Sealed(s, sealedSurvey[s])'
<1>0. PICK z : z = sealedSurvey'[s]
  OBVIOUS
<1>1. z \in Sealing /\ Sealed(s, z)
  <2>1. CASE sealedSurvey'[s] = sealedSurvey[s]
    BY <1>0, <2>1 DEF SealInv, BackedInv, SurveyCountsOK
  <2>2. CASE sealedSurvey'[s] # sealedSurvey[s]
    <3>1. PICK p \in Submissions : SealCommit(p)
      BY <2>2, ResultsKept
    <3>2. /\ surveyPc[p] = "sealCommit" /\ surveyArg[p].survey = s /\ z = sealing[p]
          /\ sealing[p] \in Sealing
      BY <1>0, <2>2, <3>1 DEF SealCommit, BackedInv, SurveyCountsOK
    <3> QED BY <3>2 DEF SealInv, SealHolds, SealPCs, Sealed
  <2> QED BY <2>1, <2>2
<1>2. SealSound(s, z)' /\ SealCounts(s, z)' /\ SealTotals(z)'
  BY <1>1, SealedStays DEF Sealed
<1> QED BY <1>0, <1>2 DEF Sealed

LEMMA SealStepHolds ==
    ASSUME SurveyTyped, SurveyInv, BackedInv, BackedInv', TokenInv, CountedInv, SealInv,
           [SurveyNext]_surveyVars
    PROVE  SealInv'
<1> USE DEF submissionVars
<1>0. SurveyCountsOK /\ SubmissionsOK
  BY DEF BackedInv, SurveyTyped
<1> SUFFICES ASSUME NEW q \in Submissions PROVE SealHolds(q)'
  BY ResultsStaySealed DEF SealInv
<1>1. CASE Unmoved(q)
  BY <1>1, SealHoldsOn
<1>2. ASSUME ~Unmoved(q) PROVE SealHolds(q)'
  <2>1. ASSUME NEW s \in Surveys, WorkerStep(s) \/ FailBroadcast(s) \/ SurveyTick(s) PROVE FALSE
    BY <1>2, <2>1 DEF Unmoved, WorkerStep, TakeBroadcast, EmitBroadcast, CompleteBroadcast,
       FailBroadcast, BroadcastStep, SurveyTick
  <2>2. ASSUME \/ PendingRowsChange
               \/ \E o \in DeletableOptions : DeleteOption(o)
               \/ EvictCounter \/ UNCHANGED surveyVars
        PROVE  FALSE
    BY <1>2, <2>2 DEF Unmoved, PendingRowsChange, SurveyPendingExpires, VotingSignsToken,
        VotingSpendsToken, DeleteOption, EvictCounter, surveyVars
  <2>3. ASSUME NEW p \in Submissions, p # q,
               \/ SurveySignBegin(p) \/ SurveySignStep(p) \/ SubmitBegin(p) \/ SubmitStep(p)
               \/ SealBegin(p) \/ SealStep(p) \/ SubmissionFails(p)
        PROVE  FALSE
    BY <1>0, <1>2, <2>3, OthersUnmovedAtAll
  <2>4. \/ SurveySignBegin(q) \/ SurveySignStep(q) \/ SubmitBegin(q) \/ SubmitStep(q)
        \/ SealBegin(q) \/ SealStep(q) \/ SubmissionFails(q)
    BY <2>1, <2>2, <2>3 DEF SurveyNext
  <2>5. CASE surveyPc'[q] \notin SealPCs
    BY <2>5 DEF SealHolds, SealPCs
  <2>6. CASE SealBegin(q)
    <3>1. PICK s \in SealableSurveys : /\ SurveyStart(q, "sealHashes", [survey |-> s])
                                       /\ sealing' = [sealing EXCEPT ![q].owed = AnsweredBy(s)]
                                       /\ UNCHANGED historyVars
      BY <2>6 DEF SealBegin
    <3>2. /\ surveyPc'[q] = "sealHashes" /\ surveyArg'[q].survey = s
          /\ sealing'[q].owed = AnsweredBy(s)
      BY <1>0, <3>1 DEF SurveyStart, SurveyGoto, SubmissionsOK, SurveyCountsOK, Sealing
    <3>3. AnsweredBy(s)' = AnsweredBy(s)
      BY <3>1 DEF historyVars, AnsweredBy
    <3> QED BY <3>2, <3>3 DEF SealHolds, SealSound
  <2>7. CASE SealHashes(q) \/ SealTotal(q) \/ SealRows(q)
    BY <2>7, SealReadHolds
  <2>8. CASE SurveySignBegin(q) \/ SurveySignStep(q)
    <3>1. surveyPc'[q] \notin SealPCs
      BY <1>0, <2>8 DEF SurveySignBegin, SurveySignStep, SurveySignCheck, SurveySignPending,
         SurveySignParticipate, SurveySignReply, SurveyStart, SurveyOn, SurveyEnd, SurveyGoto,
         SubmissionsOK, SealPCs
    <3> QED BY <2>5, <3>1
  <2>9. CASE SubmitBegin(q) \/ SubmitPending(q) \/ SubmitFind(q) \/ SubmitCreate(q)
    BY <2>5, <2>9, ApartStays DEF Apart
  <2>10. CASE SubmitCommit(q) \/ SubmitCount(q) \/ SubmitTally(q) \/ SubmitNotify(q)
    <3>1. surveyPc'[q] \notin SealPCs
      BY <1>0, <2>10 DEF SubmitCommit, RefuseAnswer, SubmitCount, SubmitTally, SubmitNotify,
         SurveyOn, SurveyEnd, SurveyGoto, SubmissionsOK, SealPCs
    <3> QED BY <2>5, <3>1
  <2>11. CASE SealCommit(q) \/ SubmissionFails(q)
    <3>1. surveyPc'[q] \notin SealPCs
      BY <1>0, <2>11 DEF SealCommit, SubmissionFails, SurveyEnd, SurveyGoto, SubmissionsOK, SealPCs
    <3> QED BY <2>5, <3>1
  <2> QED BY <2>4, <2>6, <2>7, <2>8, <2>9, <2>10, <2>11 DEF SubmitStep, SealStep
<1> QED BY <1>1, <1>2

\* From its first read to its transaction a finalization holds the answers it
\* owes and counts no more than rows (getResults, finalizeSurvey).
THEOREM SealInvariant == SurveySpec => []SealInv
<1>1. SurveyInit => SealInv
  BY DEF SurveyInit, SealInv, SealHolds, SealPCs
<1>2. /\ SurveyTyped /\ SurveyInv /\ BackedInv /\ BackedInv' /\ TokenInv /\ CountedInv /\ SealInv
      /\ [SurveyNext]_surveyVars
      => SealInv'
  BY SealStepHolds
<1> QED BY <1>1, <1>2, SurveyTypes, SurveyInvariant, BackedInvariant, TokenInvariant,
    CountedInvariant, PTL DEF SurveySpec

\* What finalizeSurvey seals lies between the answers confirmed before it began and
\* the rows there are, while the submissions, the deletion of options and other
\* finalizations go on between its three reads.
THEOREM SealedCovers == SurveySpec => []SealedCoversConfirmed
<1>1. SurveyTyped /\ BackedInv /\ CountedInv /\ SealInv => SealedCoversConfirmed
  <2> SUFFICES ASSUME SurveyTyped, BackedInv, CountedInv, SealInv, NEW s \in Surveys,
                      sealedSurvey[s] # NoResult, NEW z, z = sealedSurvey[s]
               PROVE  /\ \A k \in KeysOf(s) : IsCounted(k) /\ k = KeyOf(k) =>
                            z.counts[k] <= Cardinality(RowsUnder(k))
                      /\ lostCounters = 0 =>
                            /\ z.total >= Cardinality(z.owed)
                            /\ \A k \in KeysOf(s) : IsCounted(k) /\ k = KeyOf(k) =>
                                  z.counts[k] >= Cardinality(OwedRows(z.owed, k))
    BY DEF SealedCoversConfirmed, OwedRows
  <2>1. Sealed(s, z) /\ z \in Sealing
    BY DEF SealInv, BackedInv, SurveyCountsOK
  <2>2. \A k : IsCounted(k) => Live(k)
    BY DEF IsCounted, Live, OptionIds
  <2>3. lostCounters = 0 => z.total >= Cardinality(z.owed)
    <3>1. Cardinality(z.owed) \in Nat /\ z.total \in Nat
      <4>1. IsFiniteSet(z.owed)
        BY <2>1, ResponseNumbers, Part DEF Sealed, SealSound, BackedInv
      <4> QED BY <2>1, <4>1, FS_CardinalityType DEF Sealing
    <3> QED BY <2>1, <3>1 DEF Sealed, SealTotals
  <2>4. ASSUME NEW k \in KeysOf(s), IsCounted(k), k = KeyOf(k)
        PROVE  /\ z.counts[k] <= Cardinality(RowsUnder(k))
               /\ lostCounters = 0 => z.counts[k] >= Cardinality(OwedRows(z.owed, k))
    <3>1. KeyCovered(z, k)
      BY <2>1, <2>2, <2>4 DEF Sealed, SealCounts
    <3> QED BY <2>1, <3>1, KeyFacts DEF KeyCovered
  <2> QED BY <2>3, <2>4
<1> QED BY <1>1, SurveyTypes, BackedInvariant, CountedInvariant, SealInvariant, PTL
-----------------------------------------------------------------------------
(* SubmitService implements BallotBox for clients that draw a token for    *)
(* each request (SurveyFreshTokens): createParticipation is Authorise, the *)
(* transaction of a submission is Cast, the one of finalizeSurvey is Seal. *)
(* A token signed for two surveys, or a blinding of another token than the *)
(* request names, would break it: the signature is then for practice where *)
(* it was given, and counts where it is used.                              *)
(*                                                                         *)
(* Not told apart: what an answer says, since deleteOption rewrites it,    *)
(* and which ballots a sealed result counts, since it holds numbers (they  *)
(* are bounded by SealedCovers).  An abstention is in no box.              *)

surveyVoters == {<<r.user, r.survey>> : r \in surveyRoll}
surveyBox == {[voting |-> SurveyOf(b), option |-> "answer", token |-> b.token] : b \in answers}
surveyResults == [s \in Surveys |-> IF sealedSurvey[s] = NoResult THEN Nothing ELSE {}]

SurveyBox == INSTANCE BallotBox WITH
    Users <- Respondents, Votings <- Surveys, Tokens <- SurveyTokens, Owner <- TokenOwner,
    Choices <- {"answer"}, Unsealed <- Nothing,
    roll <- surveyVoters, box <- surveyBox, sealed <- surveyResults

\* The transaction of a submission adds the one ballot of its token, or none.
LEMMA SubmissionRefines ==
    ASSUME SurveyTyped, SurveyInv, SurveyPaidInv, NEW p \in Submissions, SubmitCommit(p)
    PROVE  [SurveyBox!BoxNext]_(SurveyBox!boxVars)
<1>0. PICK s \in Surveys, t \in SurveyTokens : s = surveyArg[p].survey /\ t = surveyArg[p].token
  BY AnswerArgTyped DEF SubmitCommit, SubmitPCs, SurveyTyped
<1>1. UNCHANGED <<surveyVoters, surveyResults>>
  BY DEF SubmitCommit, surveyVoters, surveyResults
<1>2. CASE answers' = answers
  BY <1>1, <1>2 DEF SurveyBox!boxVars, surveyBox, SurveyOf
<1>3. CASE answers' # answers
  <2>1. /\ surveyPc[p] = "subCommit" /\ AnswerSignatureUnique(AnswerRows(p))
        /\ answers' = answers \cup AnswerRows(p)
    BY <1>3, CommitCases DEF SubmitCommit
  <2>2. PICK r \in AnswerRows(p) : TRUE
    BY <1>3, <2>1
  <2>3. AnswerRows(p) = {r} /\ r \notin answers
    BY <2>1, <2>2, AtMostOneRow
  <2>4. SurveyOf(r) = s /\ r.token = t
    BY <1>0, <2>1, <2>2, RowsOfOwnSurvey
  <2>5. surveyBox' = surveyBox \cup {[voting |-> s, option |-> "answer", token |-> t]}
    <3>1. answers' = answers \cup {r}
      BY <2>1, <2>3
    <3> QED BY <2>4, <3>1 DEF surveyBox, SurveyOf
  <2>6. SurveyPaid(s, t)
    BY <1>0, <2>1 DEF SurveyInv, SubmissionSigned, SurveyPaidInv, SubmissionPaid
  <2>7. <<TokenOwner[t], s>> \in surveyVoters
    BY <2>6 DEF SurveyPaid, surveyVoters
  <2>8. ASSUME NEW b \in answers, SurveyOf(b) = s PROVE TokenOwner[b.token] # TokenOwner[t]
    <3>1. SurveyPaid(s, b.token)
      BY <2>8 DEF SurveyPaidInv, AnswersPaid
    <3>2. b.token # t
      BY <2>1, <2>2, <2>4, <2>8 DEF AnswerSignatureUnique, SignatureOf, SurveyOf
    <3> QED BY <2>6, <3>1, <3>2 DEF SurveyPaid, SurveyInv, RollAndAnswersUnique
  <2>9. \A b \in surveyBox : b.voting = s => TokenOwner[b.token] # TokenOwner[t]
    BY <2>8 DEF surveyBox
  <2>10. SurveyBox!Cast(s, t, "answer")
    BY <1>1, <2>5, <2>7, <2>9 DEF SurveyBox!Cast
  <2> QED BY <2>10 DEF SurveyBox!BoxNext
<1> QED BY <1>2, <1>3

\* createParticipation strikes a respondent off the roll once.
LEMMA SurveyRollRefines ==
    ASSUME SurveyTyped, NEW p \in Submissions, SurveySignParticipate(p)
    PROVE  [SurveyBox!BoxNext]_(SurveyBox!boxVars)
<1>0. PICK u \in Respondents, s \in Surveys : u = RespondentOf(p) /\ s = surveyArg[p].survey
  BY SignArgTyped DEF SurveySignParticipate, SurveySignPCs, SurveyTyped
<1>1. UNCHANGED <<surveyBox, surveyResults>>
  BY DEF SurveySignParticipate, surveyBox, surveyResults, SurveyOf
<1>2. CASE surveyRoll' = surveyRoll
  BY <1>1, <1>2 DEF SurveyBox!boxVars, surveyVoters
<1>3. CASE /\ RollUnique(u, s)
           /\ surveyRoll' = surveyRoll \cup {[user |-> u, survey |-> s,
                                              token |-> surveyArg[p].blinded]}
  <2>1. <<u, s>> \notin surveyVoters
    BY <1>3 DEF surveyVoters, RollUnique, OnRoll
  <2>2. surveyVoters' = surveyVoters \cup {<<u, s>>}
    <3> DEFINE new == [user |-> u, survey |-> s, token |-> surveyArg[p].blinded]
    <3>1. new.user = u /\ new.survey = s /\ surveyRoll' = surveyRoll \cup {new}
      BY <1>3
    <3> HIDE DEF new
    <3> QED BY <3>1 DEF surveyVoters
  <2>3. SurveyBox!Authorise(u, s)
    BY <1>1, <2>1, <2>2 DEF SurveyBox!Authorise
  <2> QED BY <2>3 DEF SurveyBox!BoxNext
<1> QED BY <1>0, <1>2, <1>3 DEF SurveySignParticipate

\* The results of a survey are written once.
LEMMA SurveySealRefines ==
    ASSUME SurveyTyped, SurveyCountsOK, NEW p \in Submissions, SealCommit(p)
    PROVE  [SurveyBox!BoxNext]_(SurveyBox!boxVars)
<1>0. PICK s \in Surveys : s = surveyArg[p].survey
  BY DEF SealCommit, SurveyTyped, SubmissionsOK, SealPCs, SealRequest
<1>1. UNCHANGED <<surveyBox, surveyVoters>>
  BY DEF SealCommit, surveyBox, surveyVoters, SurveyOf
<1>2. CASE sealedSurvey' = sealedSurvey
  BY <1>1, <1>2 DEF SurveyBox!boxVars, surveyResults
<1>3. CASE sealedSurvey[s] = NoResult /\ sealedSurvey' = [sealedSurvey EXCEPT ![s] = sealing[p]]
  <2>1. surveyResults[s] = Nothing
    BY <1>3 DEF surveyResults
  <2>2. CASE sealing[p] = NoResult
    <3>1. sealedSurvey' = sealedSurvey
      BY <1>3, <2>2 DEF SurveyCountsOK
    <3> QED BY <1>1, <3>1 DEF SurveyBox!boxVars, surveyResults
  <2>3. CASE sealing[p] # NoResult
    <3>1. surveyResults' = [surveyResults EXCEPT ![s] = {}]
      BY <1>3, <2>3 DEF surveyResults, SurveyCountsOK
    <3>2. SurveyBox!Seal(s, {})
      BY <1>1, <2>1, <3>1 DEF SurveyBox!Seal
    <3> QED BY <3>2 DEF SurveyBox!BoxNext
  <2> QED BY <2>2, <2>3
<1> QED BY <1>0, <1>2, <1>3 DEF SealCommit

\* Deleting an option takes no ballot out of the box.
LEMMA DeletionRefines ==
    ASSUME SurveyTyped, NEW o \in DeletableOptions, DeleteOption(o)
    PROVE  UNCHANGED SurveyBox!boxVars
<1>1. UNCHANGED <<surveyVoters, surveyResults>>
  BY DEF DeleteOption, surveyVoters, surveyResults
<1> DEFINE now(b) == IF b.option = o THEN [b EXCEPT !.option = Deleted] ELSE b
<1>2. \A b \in answers : SurveyOf(now(b)) = SurveyOf(b) /\ now(b).token = b.token
  BY DEF SurveyTyped, SurveyRowsOK, AnswerRow, SurveyOf
<1>3. answers' = {now(b) : b \in answers}
  BY DEF DeleteOption
<1> HIDE DEF now
<1>4. surveyBox' = surveyBox
  BY <1>2, <1>3 DEF surveyBox, SurveyOf
<1> QED BY <1>1, <1>4 DEF SurveyBox!boxVars

\* With such clients surveys are ballot boxes as well: whatever is practised,
\* sent twice, refused late or deleted, nobody has two ballots in the box, none
\* without a participation, and none is taken out (submitResponse,
\* signBlindedToken).
THEOREM SurveyBoxRefined ==
    ASSUME SurveyFreshTokens
    PROVE  SurveySpec => SurveyBox!BoxSpec
<1>1. SurveyInit => SurveyBox!BoxInit
  BY DEF SurveyInit, SurveyBox!BoxInit, surveyVoters, surveyBox, surveyResults
<1>2. ASSUME SurveyTyped, SurveyCountsOK, SurveyInv, SurveyPaidInv, [SurveyNext]_surveyVars
      PROVE  [SurveyBox!BoxNext]_(SurveyBox!boxVars)
  <2>1. CASE \E p \in Submissions : SurveySignParticipate(p) \/ SubmitCommit(p) \/ SealCommit(p)
    BY <1>2, <2>1, SurveyRollRefines, SubmissionRefines, SurveySealRefines
  <2>2. CASE \E o \in DeletableOptions : DeleteOption(o)
    BY <1>2, <2>2, DeletionRefines
  <2>3. CASE /\ ~ \E p \in Submissions : SurveySignParticipate(p) \/ SubmitCommit(p) \/ SealCommit(p)
             /\ ~ \E o \in DeletableOptions : DeleteOption(o)
    <3>1. UNCHANGED <<surveyRoll, answers, sealedSurvey>>
      BY <1>2, <2>3, RollUnwritten, AnswersKept, ResultsKept
    <3> QED BY <3>1 DEF SurveyBox!boxVars, surveyVoters, surveyBox, surveyResults, SurveyOf
  <2> QED BY <2>1, <2>2, <2>3
<1>3. BackedInv => SurveyCountsOK
  BY DEF BackedInv
<1> QED BY <1>1, <1>2, <1>3, SurveyTypes, SurveyInvariant, SurveyPaidInvariant, BackedInvariant, PTL
    DEF SurveySpec, SurveyBox!BoxSpec
-----------------------------------------------------------------------------
(* What is left of "no answer after the seal".                             *)

\* A submission to s that submitResponse has admitted and not yet stored.
Admitted(p, s) ==
    /\ surveyPc[p] \in {"subPending", "subFind", "subCreate", "subCommit"}
    /\ surveyArg[p].survey = s

\* Finalized, and no submission is admitted.
ShutSurvey(s) == survey[s].isFinalized /\ \A p \in Submissions : ~Admitted(p, s)

\* The answers to s but for the option, which deleteOption erases.
AnsweredIn(s) == {<<b.question, b.token>> : b \in AnswersTo(s)}

LEMMA SurveyStaysFinalized ==
    ASSUME SurveyTyped, [SurveyNext]_surveyVars, NEW s \in Surveys, survey[s].isFinalized
    PROVE  survey'[s].isFinalized
<1> USE DEF surveyRows, surveyVars, submissionVars
<1>0. survey \in [Surveys -> SurveyRow]
  BY DEF SurveyTyped, SurveyRowsOK
<1>1. ASSUME NEW p \in Submissions, SealCommit(p) PROVE survey'[s].isFinalized
  <2>1. survey' = survey \/ survey' = [survey EXCEPT ![surveyArg[p].survey].isFinalized = TRUE]
    BY <1>1 DEF SealCommit
  <2> QED BY <1>0, <2>1 DEF SurveyRow
<1>2. ASSUME NEW w \in Surveys, SurveyTick(w) PROVE survey'[s].isFinalized
  BY <1>0, <1>2 DEF SurveyTick, SurveyRow
<1>3. ASSUME NEW p \in Submissions, SurveySignBegin(p) \/ SurveySignStep(p)
      PROVE  UNCHANGED survey
  BY <1>3 DEF SurveySignBegin, SurveySignStep, SurveySignCheck, SurveySignPending,
              SurveySignParticipate, SurveySignReply
<1>4. ASSUME NEW p \in Submissions, SubmitBegin(p) \/ SubmitStep(p)
      PROVE  UNCHANGED survey
  BY <1>4 DEF SubmitBegin, SubmitStep, SubmitPending, SubmitFind, SubmitCreate, SubmitCommit,
              SubmitCount, SubmitTally, SubmitNotify
<1>5. ASSUME NEW p \in Submissions, SealBegin(p) \/ SealStep(p) \/ SubmissionFails(p),
             ~SealCommit(p)
      PROVE  UNCHANGED survey
  BY <1>5 DEF SealBegin, SealStep, SealHashes, SealTotal, SealRows, SealRead, SubmissionFails
<1>6. ASSUME NEW w \in Surveys, WorkerStep(w) \/ FailBroadcast(w)
      PROVE  UNCHANGED survey
  BY <1>6 DEF WorkerStep, TakeBroadcast, EmitBroadcast, CompleteBroadcast, FailBroadcast,
              BroadcastStep
<1>7. ASSUME \/ PendingRowsChange
             \/ \E o \in DeletableOptions : DeleteOption(o)
             \/ EvictCounter
             \/ UNCHANGED surveyVars
      PROVE  UNCHANGED survey
  BY <1>7 DEF PendingRowsChange, SurveyPendingExpires, VotingSignsToken, VotingSpendsToken,
      DeleteOption, EvictCounter
<1> QED BY <1>1, <1>2, <1>3, <1>4, <1>5, <1>6, <1>7 DEF SurveyNext

\* submitResponse admits no submission to a survey that is finalized.
LEMMA AdmittedBefore ==
    ASSUME SurveyTyped, NEW p \in Submissions, NEW s \in Surveys, Admitted(p, s)',
           \/ SurveySignBegin(p) \/ SurveySignStep(p) \/ SubmitBegin(p) \/ SubmitStep(p)
           \/ SealBegin(p) \/ SealStep(p) \/ SubmissionFails(p)
    PROVE  Admitted(p, s) \/ ~survey[s].isFinalized
<1> USE DEF SurveyTyped, SubmissionsOK, Admitted, SurveyGoto
<1>1. CASE SubmitBegin(p)
  BY <1>1 DEF SubmitBegin, SurveyStart, SurveyAdmits
<1>2. CASE SubmitPending(p)
  BY <1>2 DEF SubmitPending, SurveyEnd
<1>3. CASE SubmitFind(p) \/ SubmitCreate(p)
  BY <1>3 DEF SubmitFind, SubmitCreate, Choose
<1>4. CASE SubmitCommit(p)
  BY <1>4 DEF SubmitCommit, RefuseAnswer, SurveyOn, SurveyEnd
<1>5. CASE SubmitCount(p) \/ SubmitTally(p) \/ SubmitNotify(p)
  BY <1>5 DEF SubmitCount, SubmitTally, SubmitNotify, SurveyOn, SurveyEnd
<1>6. CASE SurveySignBegin(p)
  BY <1>6 DEF SurveySignBegin, SurveyStart
<1>7. CASE SurveySignStep(p)
  BY <1>7 DEF SurveySignStep, SurveySignCheck, SurveySignPending, SurveySignParticipate,
              SurveySignReply, SurveyOn, SurveyEnd
<1>8. CASE SealBegin(p) \/ SealStep(p)
  BY <1>8 DEF SealBegin, SealStep, SealHashes, SealTotal, SealRows, SealRead, SealCommit,
              SurveyStart, SurveyEnd
<1>9. CASE SubmissionFails(p)
  BY <1>9 DEF SubmissionFails, SurveyEnd
<1> QED BY <1>1, <1>2, <1>3, <1>4, <1>5, <1>6, <1>7, <1>8, <1>9 DEF SubmitStep

LEMMA ShutStays ==
    ASSUME SurveyTyped, [SurveyNext]_surveyVars, NEW s \in Surveys, ShutSurvey(s)
    PROVE  ShutSurvey(s)'
<1>1. survey'[s].isFinalized
  BY SurveyStaysFinalized DEF ShutSurvey
<1>2. ASSUME NEW q \in Submissions PROVE ~Admitted(q, s)'
  <2>1. ASSUME NEW p \in Submissions,
               \/ SurveySignBegin(p) \/ SurveySignStep(p) \/ SubmitBegin(p) \/ SubmitStep(p)
               \/ SealBegin(p) \/ SealStep(p) \/ SubmissionFails(p)
        PROVE  ~Admitted(q, s)'
    <3>1. CASE q = p
      BY <2>1, <3>1, AdmittedBefore DEF ShutSurvey
    <3>2. CASE q # p
      BY <2>1, <3>2, OthersUnmoved DEF ShutSurvey, Admitted
    <3> QED BY <3>1, <3>2
  <2>2. ASSUME \/ \E w \in Surveys : WorkerStep(w) \/ FailBroadcast(w) \/ SurveyTick(w)
               \/ PendingRowsChange
               \/ \E o \in DeletableOptions : DeleteOption(o)
               \/ EvictCounter \/ UNCHANGED surveyVars
        PROVE  ~Admitted(q, s)'
    <3>1. UNCHANGED <<surveyPc, surveyArg>>
      BY <2>2 DEF WorkerStep, TakeBroadcast, EmitBroadcast, CompleteBroadcast, FailBroadcast,
         BroadcastStep, SurveyTick, PendingRowsChange, SurveyPendingExpires, VotingSignsToken,
         VotingSpendsToken, DeleteOption, EvictCounter,
         surveyVars, submissionVars
    <3> QED BY <3>1 DEF ShutSurvey, Admitted
  <2> QED BY <2>1, <2>2 DEF SurveyNext
<1> QED BY <1>1, <1>2 DEF ShutSurvey

\* Only its own submissions add to the answers of a survey.
LEMMA ShutAnswersStay ==
    ASSUME SurveyTyped, SurveyInv, [SurveyNext]_surveyVars, NEW s \in Surveys, ShutSurvey(s)
    PROVE  AnsweredIn(s)' = AnsweredIn(s)
<1>1. CASE answers' = answers
  BY <1>1 DEF AnsweredIn, AnswersTo
<1>2. ASSUME NEW p \in Submissions, SubmitCommit(p) PROVE AnsweredIn(s)' = AnsweredIn(s)
  <2>1. surveyPc[p] = "subCommit" /\ surveyArg[p].survey # s
    BY <1>2 DEF ShutSurvey, Admitted, SubmitCommit
  <2>2. \A b \in AnswerRows(p) : SurveyOf(b) # s
    BY <2>1, RowsOfOwnSurvey
  <2>3. answers' = answers \/ answers' = answers \cup AnswerRows(p)
    BY <1>2 DEF SubmitCommit
  <2>4. {b \in answers' : SurveyOf(b) = s} = {b \in answers : SurveyOf(b) = s}
    BY <2>2, <2>3
  <2> QED BY <2>4 DEF AnsweredIn, AnswersTo, SurveyOf
<1>3. ASSUME NEW o \in DeletableOptions, DeleteOption(o) PROVE AnsweredIn(s)' = AnsweredIn(s)
  <2> DEFINE now(b) == IF b.option = o THEN [b EXCEPT !.option = Deleted] ELSE b
  <2>1. \A b \in answers : now(b).question = b.question /\ now(b).token = b.token
    BY DEF SurveyTyped, SurveyRowsOK, AnswerRow
  <2>2. answers' = {now(b) : b \in answers}
    BY <1>3 DEF DeleteOption
  <2> HIDE DEF now
  <2> QED BY <2>1, <2>2 DEF AnsweredIn, AnswersTo
<1> QED BY <1>1, <1>2, <1>3, AnswersKept

\* submitResponse does not look at isFinalized again, so a submission that was
\* admitted before the seal is stored after it.  Once those are through, a
\* finalized survey has its answers for good: what practice runs, retries and
\* deletions of options still do leaves who answered what question as it is.
SurveyStaysShut ==
    [][\A s \in Surveys :
          ShutSurvey(s) => ShutSurvey(s)' /\ AnsweredIn(s)' = AnsweredIn(s)]_surveyVars

THEOREM FinalizedSurveyCloses == SurveySpec => SurveyStaysShut
<1>1. SurveyTyped /\ SurveyInv /\ [SurveyNext]_surveyVars
         => [\A s \in Surveys :
               ShutSurvey(s) => ShutSurvey(s)' /\ AnsweredIn(s)' = AnsweredIn(s)]_surveyVars
  BY ShutStays, ShutAnswersStay
<1> QED BY <1>1, SurveyTypes, SurveyInvariant, PTL DEF SurveySpec, SurveyStaysShut
==============================================================================
