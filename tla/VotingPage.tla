------------------------------ MODULE VotingPage ------------------------------
(***************************************************************************)
(* The page of one voting (app/(dashboard)/votings/[id]/page.tsx with      *)
(* VotingForm.tsx and AuditStatus.tsx): what it offers and what it says.   *)
(* The conversation it leads is BallotTalk.                                *)
(***************************************************************************)
EXTENDS BallotTalk

CONSTANT
    VotingTabs,  \* the pages of votings
    Unknown      \* currentVoting before the first answer

VARIABLES
    shown,       \* currentVoting: its hasVoted and isFinalized
    isPractice   \* the practice switch

votingPageVars == <<shown, isPractice>>

ASSUME VotingTabsAssumption == VotingTabs \subseteq Tabs

-----------------------------------------------------------------------------
(* What is on the screen.                                                  *)

\* setSubmitted(true) and setVoteReceipt come together.
Submitted(b) == ended[b].token # NoToken

\* state.loading: the whole page is a spinner while requestSignature or
\* fetchVoting is under way, and until there is a voting.
Visible(b) ==
    /\ shown[b] # Unknown
    /\ looks[b].poll = NoLook /\ talk[b].stage # "sign"

\* VotingForm asks currentVoting, not submitted; a selection outlives a
\* submission, so the button stays live after a practice run.
FormOffered(b) == Visible(b) /\ ~shown[b].voted /\ ~shown[b].final

\* AuditStatus: "Participation Confirmed", "securely recorded".
SaysRecorded(b) == Visible(b) /\ shown[b].voted

-----------------------------------------------------------------------------

Open(b) ==
    /\ OpenTab(b, {"poll"})
    /\ shown' = [shown EXCEPT ![b] = Unknown]
    /\ isPractice' = [isPractice EXCEPT ![b] = FALSE]

\* handleSubmit, with the switch as it is now.
Submit(b) ==
    /\ FormOffered(b)
    /\ Begin(b, isPractice[b])
    /\ UNCHANGED votingPageVars

\* "Start Practice Mode" is there until this page knows of a vote, also while
\* a ballot is on its way; "Exit Practice" is there always.
StartPractice(b) ==
    /\ Visible(b) /\ ~isPractice[b] /\ ~shown[b].voted /\ ~Submitted(b)
    /\ isPractice' = [isPractice EXCEPT ![b] = TRUE]
    /\ UNCHANGED <<boxVars, talkVars, shown>>
ExitPractice(b) ==
    /\ Visible(b) /\ isPractice[b]
    /\ isPractice' = [isPractice EXCEPT ![b] = FALSE]
    /\ UNCHANGED <<boxVars, talkVars, shown>>

\* fetchVoting, of the first effect or of handleSubmit; a failure leaves
\* currentVoting as it was, which is a spinner for good on a fresh page.
FetchVotingEnds(b) ==
    /\ looks[b].poll # NoLook
    /\ \/ looks[b].poll \in Told /\ shown' = [shown EXCEPT ![b] = looks[b].poll]
       \/ UNCHANGED shown
    /\ looks' = [looks EXCEPT ![b].poll = NoLook]
    /\ talk' = [talk EXCEPT ![b] = IF @.stage = "refresh" THEN Quiet ELSE @]
    /\ UNCHANGED <<boxVars, ended, drawn, calls, answers, drills, meant, hitches, isPractice>>

Converse(b) ==
    /\ SignAnswered(b) \/ BallotTaken(b) \/ BallotRefused(b) \/ GiveUp(b)
    /\ UNCHANGED votingPageVars

VotingPageInit ==
    /\ shown = [b \in VotingTabs |-> Unknown]
    /\ isPractice = [b \in VotingTabs |-> FALSE]

VotingPageNext ==
    \E b \in VotingTabs :
        \/ Open(b) \/ Submit(b) \/ StartPractice(b) \/ ExitPractice(b)
        \/ FetchVotingEnds(b) \/ Converse(b)

-----------------------------------------------------------------------------
(* Properties.                                                             *)

\* No conversation of the seat is under way, and none of its calls.
Settled(s) ==
    /\ \A b \in Tabs : Seat(b) = s => talk[b].stage \in {"rest", "refresh"}
    /\ \A c \in calls : Bearer(c) # s

\* "Your vote has been securely recorded": a voting whose hasVoted the page
\* shows has the visitor's ballot.
RecordedMeansStored ==
    \A b \in VotingTabs : SaysRecorded(b) /\ Settled(Seat(b)) => HasBallot(Seat(b))
=============================================================================
