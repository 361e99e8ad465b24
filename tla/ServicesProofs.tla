----------------------------- MODULE ServicesProofs -----------------------------
(***************************************************************************)
(* The services next to each other, as MCServices composes them: every     *)
(* behaviour of the composition is a behaviour of each service, so what is *)
(* proved of a service alone holds in it.                                  *)
(***************************************************************************)
EXTENDS MCServices, SubmitServiceProofs, LiveResultsProofs, AccessProofs

\* No request of one service reads or writes what another one keeps.
THEOREM EachServiceRuns ==
    MCSpec => SurveySpec /\ ResultsPageSpec /\ AdminSpec /\ AccountSpec /\ SessionSpec
<1>1. MCInit => SurveyInit /\ ResultsPageInit /\ AdminInit /\ AccountInit /\ SessionInit
  BY DEF MCInit
<1>2. [MCNext]_allVars => [SurveyNext]_surveyVars
  BY DEF MCNext, MCSurveyNext, allVars
<1>3. [MCNext]_allVars => [ResultsPageNext]_resultsPageVars
  BY DEF MCNext, MCPageNext, allVars
<1>4. [MCNext]_allVars => [AdminNext]_adminVars
  BY DEF MCNext, allVars
<1>5. [MCNext]_allVars => [AccountNext]_accountVars
  BY DEF MCNext, allVars
<1>6. [MCNext]_allVars => [SessionNext]_sessionVars
  BY DEF MCNext, allVars
<1> QED BY <1>1, <1>2, <1>3, <1>4, <1>5, <1>6, PTL
    DEF MCSpec, SurveySpec, ResultsPageSpec, AdminSpec, AccountSpec, SessionSpec

\* The state of every service has its type whatever the others do.
THEOREM ServicesTyped == MCSpec => []TypesOK
<1>1. LiveInv => LiveTypeOK
  BY DEF LiveInv
<1>2. PageInv => LiveTypeOK /\ ResultsPageTypeOK
  BY <1>1 DEF PageInv
<1>3. AdminInv => AdminTypeOK
  BY DEF AdminInv
<1>4. AccountInv => AccountTypeOK
  BY DEF AccountInv
<1>5. SurveyTypeOK /\ LiveTypeOK /\ AdminTypeOK /\ AccountTypeOK /\ SessionTypeOK /\ ResultsPageTypeOK
         <=> TypesOK
  BY DEF TypesOK
<1> QED BY <1>2, <1>3, <1>4, <1>5, EachServiceRuns, AllSurveyTypes, PageInvariant, AdminInvariant,
    AccountInvariant, SessionTypes, PTL

\* What is proved of a service alone holds while all of them run: the back end
\* of the results runs on under the page that shows them.  The clients of the
\* surveys are those of frontend/.
THEOREM ServicesSafe ==
    ASSUME SurveyFreshTokens
    PROVE  MCSpec =>
              /\ [](OneAnswerPerRespondent /\ CountsBackedByRows /\ ResponsesWithinRoll)
              /\ [](SealedCoversConfirmed /\ AllBallotsEmitted /\ StaleSnapshotNeedsRace)
              /\ [](GapIsALapse /\ MemberlessIsExplained /\ FrozenUnlessOvertaken)
              /\ [](LinkWorksOnce /\ RegisteredCanVerify)
              /\ [](SessionFollowsSignIn /\ ActsAsShown)
              /\ NoNewOwner
<1>1. ResultsPageSpec => LiveSpec
  <2>1. ResultsPageInit => LiveInit
    BY DEF ResultsPageInit
  <2>2. [ResultsPageNext]_resultsPageVars => [LiveNext]_liveVars
    BY PageStepsBackEnd DEF resultsPageVars
  <2> QED BY <2>1, <2>2, PTL DEF ResultsPageSpec, LiveSpec
<1>2. SurveySpec => [](OneAnswerPerRespondent /\ CountsBackedByRows /\ ResponsesWithinRoll)
  BY OneAnswer, CountsBacked, RollCovers, PTL
<1>3. SurveySpec /\ LiveSpec
         => [](SealedCoversConfirmed /\ AllBallotsEmitted /\ StaleSnapshotNeedsRace)
  BY SealedCovers, BallotsEmitted, StaleSnapshots, PTL
<1>4. ResultsPageSpec /\ AdminSpec
         => [](GapIsALapse /\ MemberlessIsExplained /\ FrozenUnlessOvertaken)
  BY GapsAreLapses, MemberlessGroups, FrozenVotings, PTL
<1>5. AccountSpec => [](LinkWorksOnce /\ RegisteredCanVerify)
  BY TokensWorkOnce, RegisteredVerify, PTL
<1>6. SessionSpec => [](SessionFollowsSignIn /\ ActsAsShown)
  BY FollowsSignIn, ShownActs, PTL
<1> QED BY <1>1, <1>2, <1>3, <1>4, <1>5, <1>6, EachServiceRuns, OwnersOnlyLeave
================================================================================
