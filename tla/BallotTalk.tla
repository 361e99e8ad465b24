------------------------------ MODULE BallotTalk ------------------------------
(***************************************************************************)
(* The conversation of an open page with the back end: ask for a blind     *)
(* signature, then hand in the ballot (castVoteWithSignature of            *)
(* hooks/api/useVotings.ts; submitWithSignature and practiceSubmit of      *)
(* hooks/api/useSurveys.ts).  A voting and a survey are polls alike.       *)
(*                                                                         *)
(* The back end is the ballot box it promises to be (BallotBox, which      *)
(* VoteService implements).  It handles a call at any moment after it was  *)
(* sent, also when the page has stopped waiting or is gone.                *)
(***************************************************************************)
EXTENDS BallotBox

CONSTANTS
    Tabs,      \* open pages; reloading one starts it over
    Visitor,   \* [Tabs -> Users]
    PollOf,    \* [Tabs -> Votings]: the voting or survey the page is about
    NoToken,   \* no conversation, or none that ended well
    NoLook,    \* no GET under way
    Sent       \* one the back end has not read for

VARIABLES
    talk,      \* per page: the conversation under way
    ended,     \* per page: the last conversation that ended well
    drawn,     \* the tokens prepareBlind has drawn
    calls,     \* POST sign and POST of the ballot, not handled yet
    answers,   \* answers on their way to a page that waits for them
    drills,    \* tokens whose pending ballot is marked practice
    looks,     \* per page: the GETs of the poll and of the visitor's status
    meant, hitches   \* history: <<visitor, poll>> meant for real; met a failure

talkVars == <<talk, ended, drawn, calls, answers, drills, looks, meant, hitches>>

Stages == {"rest", "sign", "submit", "refresh"}
CallKinds == {"sign", "submit"}
LookKinds == {"poll", "status"}
Told == [voted : BOOLEAN, final : BOOLEAN]   \* what a GET reports

ASSUME NoTokenAssumption == NoToken \notin Tokens
ASSUME SentAssumption == Sent \notin Told
ASSUME TabsAssumption ==
    Visitor \in [Tabs -> Users] /\ PollOf \in [Tabs -> Votings] /\ Owner \in [Tokens -> Users]

Seat(b) == <<Visitor[b], PollOf[b]>>
Bearer(c) == <<Owner[c.token], c.poll>>
Quiet == [stage |-> "rest", token |-> NoToken, practice |-> FALSE]
NoEnd == [token |-> NoToken, practice |-> FALSE]

\* The ballot a token paid for is in the box; somebody's ballot is.
Stored(t) == \E x \in box : x.token = t
HasBallot(s) == \E x \in box : <<Owner[x.token], x.voting>> = s

-----------------------------------------------------------------------------
(* The page asks.                                                          *)

\* Built from what the page was opened for; the mutant sends the visitor's id
\* for the poll's.
MutCall(b, kind, t, practice) ==
    [kind |-> kind, poll |-> Visitor[b], token |-> t, practice |-> practice]
Call(b, kind, t, practice) ==
    [kind |-> kind, poll |-> PollOf[b], token |-> t, practice |-> practice]

\* The buttons are disabled while the page submits; the mutant forgets that.
MutMayBegin(b) == talk[b].stage \in {"rest", "sign"}
MayBegin(b) == talk[b].stage = "rest"

\* The practice flags of the two calls; the mutants pass another one on.
MutSignFlag(practice) == FALSE
SignFlag(practice) == practice
MutBallotFlag(practice) == TRUE
BallotFlag(practice) == practice

\* requestSignature with a fresh token.  The GET of the signing key before it
\* is in SigningKeys; without the key this is a call that gets no answer.
Begin(b, practice) ==
    /\ MayBegin(b)
    /\ \E t \in {x \in Tokens \ drawn : Owner[x] = Visitor[b]} :
          /\ drawn' = drawn \cup {t}
          /\ talk' = [talk EXCEPT ![b] = [stage |-> "sign", token |-> t, practice |-> practice]]
          /\ calls' = calls \cup {Call(b, "sign", t, SignFlag(practice))}
    /\ meant' = IF practice THEN meant ELSE meant \cup {Seat(b)}
    /\ UNCHANGED <<boxVars, ended, answers, drills, looks, hitches>>

Answer(kind, t, ok) == [kind |-> kind, token |-> t, ok |-> ok]
Forget(b) == answers' = {a \in answers : a.token # talk[b].token}

\* finalizeBlind, then the ballot with the same token, answers and flag.
SignAnswered(b) ==
    LET t == talk[b].token IN
    /\ talk[b].stage = "sign"
    /\ \/ /\ Answer("sign", t, TRUE) \in answers
          /\ talk' = [talk EXCEPT ![b].stage = "submit"]
          /\ calls' = calls \cup {Call(b, "submit", t, BallotFlag(talk[b].practice))}
       \/ /\ Answer("sign", t, FALSE) \in answers
          /\ talk' = [talk EXCEPT ![b] = Quiet]
          /\ UNCHANGED calls
    /\ Forget(b)
    /\ UNCHANGED <<boxVars, ended, drawn, drills, looks, meant, hitches>>

\* Whether the answer of the second call is a success.
Taken(t) == Answer("submit", t, TRUE) \in answers

\* The ballot was taken; the page shows it and reads the poll anew.
BallotTaken(b) ==
    /\ talk[b].stage = "submit" /\ Taken(talk[b].token)
    /\ talk' = [talk EXCEPT ![b].stage = "refresh"]
    /\ ended' = [ended EXCEPT ![b] = [token |-> talk[b].token, practice |-> talk[b].practice]]
    /\ looks' = [looks EXCEPT ![b].poll = Sent]
    /\ Forget(b)
    /\ UNCHANGED <<boxVars, drawn, calls, drills, meant, hitches>>

BallotRefused(b) ==
    /\ talk[b].stage = "submit" /\ Answer("submit", talk[b].token, FALSE) \in answers
    /\ talk' = [talk EXCEPT ![b] = Quiet]
    /\ Forget(b)
    /\ UNCHANGED <<boxVars, ended, drawn, calls, drills, looks, meant, hitches>>

\* The network fails or 30 s go by: the page shows an error.  The call may not
\* have arrived, or may be handled later.
GiveUp(b) ==
    /\ talk[b].stage \in CallKinds
    /\ talk' = [talk EXCEPT ![b] = Quiet]
    /\ \/ UNCHANGED calls
       \/ calls' = {c \in calls : c.token # talk[b].token}
    /\ Forget(b)
    /\ hitches' = hitches \cup {Seat(b)}
    /\ UNCHANGED <<boxVars, ended, drawn, drills, looks, meant>>

\* The page is opened, or loaded again: what it knew is gone.
OpenTab(b, kinds) ==
    /\ talk' = [talk EXCEPT ![b] = Quiet]
    /\ ended' = [ended EXCEPT ![b] = NoEnd]
    /\ looks' = [looks EXCEPT ![b] = [k \in LookKinds |-> IF k \in kinds THEN Sent ELSE NoLook]]
    /\ Forget(b)
    /\ hitches' = IF talk[b].stage \in CallKinds THEN hitches \cup {Seat(b)} ELSE hitches
    /\ UNCHANGED <<boxVars, drawn, calls, drills, meant>>

-----------------------------------------------------------------------------
(* The back end.                                                           *)

Awaited(c) == \E b \in Tabs : talk[b].token = c.token /\ talk[b].stage = c.kind
Reply(c, ok) ==
    /\ calls' = calls \ {c}
    /\ answers' = IF Awaited(c) THEN answers \cup {Answer(c.kind, c.token, ok)} ELSE answers

\* signBlindedToken: a practice signature strikes nobody off the roll.
ServeSign(c) ==
    /\ c.kind = "sign"
    /\ \/ /\ c.practice
          /\ drills' = drills \cup {c.token}
          /\ Reply(c, TRUE)
          /\ UNCHANGED <<boxVars, hitches>>
       \/ /\ ~c.practice
          /\ Authorise(Owner[c.token], c.poll)
          /\ Reply(c, TRUE)
          /\ UNCHANGED <<drills, hitches>>
    /\ UNCHANGED <<talk, ended, drawn, looks, meant>>

\* vote and submitResponse: a pending ballot marked practice stays practice.
ServeBallot(c) ==
    /\ c.kind = "submit"
    /\ \/ /\ c.practice \/ c.token \in drills
          /\ Reply(c, TRUE)
          /\ UNCHANGED <<boxVars, hitches>>
       \/ /\ ~c.practice /\ c.token \notin drills
          /\ \E x \in Choices : Cast(c.poll, c.token, x)
          /\ \/ Reply(c, TRUE) /\ UNCHANGED hitches
             \* what follows the commit failed (vote.service.ts:323)
             \/ Reply(c, FALSE) /\ hitches' = hitches \cup {Bearer(c)}
    /\ UNCHANGED <<talk, ended, drawn, drills, looks, meant>>

\* 409 for a second signature; or one of the other guards, or an error.
Refuse(c) ==
    /\ Reply(c, FALSE)
    /\ hitches' = IF c.kind = "sign" /\ Bearer(c) \in roll /\ ~c.practice THEN hitches
                  ELSE hitches \cup {Bearer(c)}
    /\ UNCHANGED <<boxVars, talk, ended, drawn, drills, looks, meant>>

SealPoll(v) ==
    /\ Seal(v, {x \in box : x.voting = v})
    /\ UNCHANGED talkVars

\* findOne and getUserSurveyStatus: who was struck off the roll "has voted".
ServeLook(b, k) ==
    /\ looks[b][k] = Sent
    /\ looks' = [looks EXCEPT ![b][k] =
                    [voted |-> Seat(b) \in roll, final |-> sealed[PollOf[b]] # Unsealed]]
    /\ UNCHANGED <<boxVars, talk, ended, drawn, calls, answers, drills, meant, hitches>>

-----------------------------------------------------------------------------

TalkInit ==
    /\ BoxInit
    /\ talk = [b \in Tabs |-> Quiet]
    /\ ended = [b \in Tabs |-> NoEnd]
    /\ looks = [b \in Tabs |-> [k \in LookKinds |-> NoLook]]
    /\ drawn = {} /\ calls = {} /\ answers = {} /\ drills = {}
    /\ meant = {} /\ hitches = {}

Serve == \E c \in calls : ServeSign(c) \/ ServeBallot(c) \/ Refuse(c)

-----------------------------------------------------------------------------
(* Properties.                                                             *)

\* Types; a page that rests talks about no token.
TalkTypeOK ==
    /\ talk \in [Tabs -> [stage : Stages, token : Tokens \cup {NoToken}, practice : BOOLEAN]]
    /\ ended \in [Tabs -> [token : Tokens \cup {NoToken}, practice : BOOLEAN]]
    /\ \A b \in Tabs : talk[b].stage = "rest" => talk[b] = Quiet
    /\ drawn \subseteq Tokens /\ drills \subseteq drawn
    /\ calls \subseteq [kind : CallKinds, poll : Votings, token : drawn, practice : BOOLEAN]
    /\ answers \subseteq [kind : CallKinds, token : drawn, ok : BOOLEAN]
    /\ looks \in [Tabs -> [LookKinds -> Told \cup {NoLook, Sent}]]
    /\ meant \subseteq Users \X Votings /\ hitches \subseteq Users \X Votings

\* What is stored is what was meant.  A conversation that ended well for real
\* left its ballot in the box, and a practice run left none: whatever was
\* reloaded, given up or sent twice meanwhile, by this page or another one of
\* the same voter.  And only who pressed the button for real is struck off the
\* roll: practising costs nobody the vote.
StoredAsMeant ==
    /\ \A b \in Tabs : ended[b].token # NoToken =>
          (Stored(ended[b].token) <=> ~ended[b].practice)
    /\ roll \subseteq meant

\* A voter struck off the roll whose ballot is not in the box, with nothing
\* under way, met a failure or left the page in the middle: two tabs at once,
\* and practice runs between, are no reason.
LostBallotIsExplained ==
    \A s \in roll \ hitches :
        \/ HasBallot(s)
        \/ \E b \in Tabs : Seat(b) = s /\ talk[b].stage # "rest"

\* Without a failure, who pressed the button for real has a ballot in the end.
SubmissionIsStored ==
    \A u \in Users, v \in Votings :
        <<u, v>> \in meant ~> HasBallot(<<u, v>>) \/ <<u, v>> \in hitches
=============================================================================
