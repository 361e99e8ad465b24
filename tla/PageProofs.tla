------------------------------ MODULE PageProofs ------------------------------
(***************************************************************************)
(* Theorems about the pages of the front end.                              *)
(*                                                                         *)
(* The pages of votings and surveys (VotingPage, SurveyPage), any number   *)
(* of them and for any number of voters, with the back end they talk to:   *)
(* what was meant is what is stored (MeantIsStored), and a signature spent *)
(* on no ballot has its reason (LostBallotsExplained).  Both follow from   *)
(* TalkInv, which says whose token is whose.  What the pages show of a     *)
(* participation is on the roll (ParticipationTrue, from ShownInv).        *)
(*                                                                         *)
(* The page of an audit chain (ChainExplorer): what it takes for a         *)
(* verification to be forgotten (ForgottenTakesFaults), from CheckInv,     *)
(* which owes every attempt and every stall of a job to a fault.           *)
(***************************************************************************)
EXTENDS MCPages, TLAPS

-----------------------------------------------------------------------------
(* The ballot box itself.                                                  *)

\* Only who was struck off the roll has a ballot, nobody has two in one voting,
\* and a result counts ballots of its voting.
BoxRules ==
    /\ \A x \in box : <<Owner[x.token], x.voting>> \in roll
    /\ \A x, y \in box : x.voting = y.voting /\ Owner[x.token] = Owner[y.token] => x = y
    /\ sealed \in [Votings -> (SUBSET box) \cup {Unsealed}]
    /\ \A v \in Votings : sealed[v] # Unsealed => \A x \in sealed[v] : x.voting = v

\* Nobody is put back on the roll, no ballot is altered or taken out, and no
\* result is announced anew.
NothingIsUndone ==
    /\ roll \subseteq roll' /\ box \subseteq box'
    /\ \A v \in Votings : sealed[v] # Unsealed => sealed'[v] = sealed[v]

LEMMA BoxKeepsRules ==
    ASSUME BoxRules, [BoxNext]_boxVars
    PROVE  BoxRules' /\ NothingIsUndone
  <1>1. CASE UNCHANGED boxVars  BY <1>1 DEF boxVars, BoxRules, NothingIsUndone
  <1>2. ASSUME NEW u \in Users, NEW v \in Votings, Authorise(u, v)
        PROVE  BoxRules' /\ NothingIsUndone
    BY <1>2 DEF Authorise, BoxRules, NothingIsUndone
  <1>3. ASSUME NEW v \in Votings, NEW t \in Tokens, NEW c \in Choices, Cast(v, t, c)
        PROVE  BoxRules' /\ NothingIsUndone
    BY <1>3 DEF Cast, BoxRules, NothingIsUndone
  <1>4. ASSUME NEW v \in Votings, NEW counted \in SUBSET box, Seal(v, counted)
        PROVE  BoxRules' /\ NothingIsUndone
    BY <1>4 DEF Seal, BoxRules, NothingIsUndone
  <1> QED  BY <1>1, <1>2, <1>3, <1>4 DEF BoxNext

\* What the ballot box promises; VoteService and SubmitService implement it for
\* clients that blind the token they name (FreshTokens, SurveyFreshTokens).
THEOREM BoxPromises == BoxSpec => []BoxRules /\ [][NothingIsUndone]_boxVars
  <1>1. BoxInit => BoxRules  BY DEF BoxInit, BoxRules
  <1>2. BoxRules /\ [BoxNext]_boxVars => BoxRules' /\ [NothingIsUndone]_boxVars
    BY BoxKeepsRules
  <1> QED  BY <1>1, <1>2, PTL DEF BoxSpec

-----------------------------------------------------------------------------
(* The conversations.                                                      *)

\* A page that is in the middle of one.
Talking(b) == talk[b].stage # "rest"

\* Every token belongs to one conversation of its owner's, about one poll, and
\* only a button pressed for real leads to the roll.
Belongs ==
    /\ \A b \in Tabs : Talking(b) =>
          /\ talk[b].token \in drawn /\ Owner[talk[b].token] = Visitor[b]
          /\ talk[b].practice \/ Seat(b) \in meant
    /\ \A a, b \in Tabs : Talking(a) /\ talk[a].token = talk[b].token => a = b
    /\ \A b \in Tabs, c \in calls : talk[b].token = c.token => c.poll = PollOf[b]
    /\ \A c \in calls : c.practice \/ Bearer(c) \in meant
    /\ roll \subseteq meant

\* Each of the two calls of a conversation is made once and answered once, the
\* second after the first.
AskedOnce ==
    /\ \A c, d \in calls : c.token = d.token /\ c.kind = d.kind => c = d
    /\ \A a, e \in answers : a.token = e.token /\ a.kind = e.kind => a = e
    /\ \A c \in calls, a \in answers : c.token = a.token => c.kind # a.kind
    /\ \A b \in Tabs, c \in calls :
          talk[b].stage \in CallKinds /\ c.token = talk[b].token => c.kind = talk[b].stage
    /\ \A b \in Tabs, a \in answers :
          talk[b].stage \in CallKinds /\ a.token = talk[b].token => a.kind = talk[b].stage

\* A token is used for real or for practice, never both.
Real(t) ==
    \/ Stored(t)
    \/ \E c \in calls : c.token = t /\ ~c.practice
    \/ \E b \in Tabs : (talk[b].token = t /\ ~talk[b].practice)
                          \/ (ended[b].token = t /\ ~ended[b].practice)
Drill(t) ==
    \/ t \in drills
    \/ \E c \in calls : c.token = t /\ c.practice
    \/ \E b \in Tabs : (talk[b].token = t /\ talk[b].practice)
                          \/ (ended[b].token = t /\ ended[b].practice)
Purposes ==
    \A t \in Tokens : ~(Real(t) /\ Drill(t)) /\ (Real(t) \/ Drill(t) => t \in drawn)

\* A success for real tells of a ballot in the box, a refusal of a failure.
Paid(b, t) == \E x \in box : x.token = t /\ x.voting = PollOf[b]
Truthful ==
    /\ \A b \in Tabs, a \in answers :
          a.kind = "submit" /\ talk[b].token = a.token =>
             IF a.ok THEN talk[b].practice \/ Paid(b, a.token) ELSE Seat(b) \in hitches
    /\ \A b \in Tabs :
          ended[b].token # NoToken => ended[b].practice \/ Stored(ended[b].token)

\* A call nobody waits for any more, and who carries a voter's one signature.
Waited == \A c \in calls : c.practice \/ Awaited(c) \/ Bearer(c) \in hitches
Carries(b) ==
    /\ ~talk[b].practice
    /\ \/ talk[b].stage = "sign" /\ Answer("sign", talk[b].token, TRUE) \in answers
       \/ talk[b].stage = "submit"
Carried == \A s \in roll \ hitches : HasBallot(s) \/ \E b \in Tabs : Seat(b) = s /\ Carries(b)

TalkInv == TalkTypeOK /\ Belongs /\ AskedOnce /\ Purposes /\ Truthful /\ Waited /\ Carried

-----------------------------------------------------------------------------
(* A page leaves a conversation.                                           *)

LEMMA SeatOfBearer ==
    ASSUME TalkInv, NEW b \in Tabs, NEW c \in calls, talk[b].token = c.token
    PROVE  Bearer(c) = Seat(b) /\ Talking(b) /\ c.token \in drawn /\ c.token \in Tokens
  <1>1. c.token \in drawn /\ c.token \in Tokens  BY DEF TalkInv, TalkTypeOK
  <1>2. Talking(b)
    BY <1>1, NoTokenAssumption DEF TalkInv, TalkTypeOK, Quiet, Talking
  <1> QED  BY <1>1, <1>2 DEF TalkInv, Belongs, Bearer, Seat

\* Whoever starts over met a failure, or leaves nothing open.
LEMMA Leaves ==
    ASSUME TalkInv, NEW b \in Tabs,
           talk' = [talk EXCEPT ![b] = Quiet], calls' \subseteq calls, answers' \subseteq answers,
           \A a \in answers : a.token # talk[b].token => a \in answers',
           UNCHANGED ended \/ ended' = [ended EXCEPT ![b] = NoEnd],
           looks' \in [Tabs -> [LookKinds -> Told \cup {NoLook, Sent}]],
           UNCHANGED <<boxVars, drawn, drills, meant>>,
           hitches \subseteq hitches', hitches' \subseteq Users \X Votings,
           \A c \in calls' : c.token = talk[b].token /\ c.kind = talk[b].stage => Seat(b) \in hitches',
           Carries(b) => Seat(b) \in hitches' \/ HasBallot(Seat(b))
    PROVE  TalkInv'
  <1>1. /\ talk'[b] = Quiet /\ \A a \in Tabs \ {b} : talk'[a] = talk[a]
        /\ talk' \in [Tabs -> [stage : Stages, token : Tokens \cup {NoToken}, practice : BOOLEAN]]
    BY DEF TalkInv, TalkTypeOK, Quiet, Stages
  <1>2. /\ ended' \in [Tabs -> [token : Tokens \cup {NoToken}, practice : BOOLEAN]]
        /\ \A a \in Tabs : ended'[a] = ended[a] \/ ended'[a] = NoEnd
    <2>1. ended \in [Tabs -> [token : Tokens \cup {NoToken}, practice : BOOLEAN]]
      BY DEF TalkInv, TalkTypeOK
    <2>2. NoEnd \in [token : Tokens \cup {NoToken}, practice : BOOLEAN]  BY DEF NoEnd
    <2> QED  BY <2>1, <2>2
  <1>3. \A a \in Tabs : talk'[a].token \in Tokens => a # b /\ talk'[a] = talk[a]
    BY <1>1, NoTokenAssumption DEF Quiet
  <1>4. UNCHANGED <<roll, box, sealed>>  BY DEF boxVars
  <1>5. TalkTypeOK'
    BY <1>1, <1>2 DEF TalkInv, TalkTypeOK
  <1>6. \A c \in calls' : c \in calls /\ c.token \in drawn /\ c.token \in Tokens
    BY DEF TalkInv, TalkTypeOK
  <1>7. Belongs'
    <2>1. \A a \in Tabs : Talking(a)' => Talking(a) /\ a # b /\ talk'[a] = talk[a]
      BY <1>1 DEF Talking, Quiet
    <2>2. \A a, e \in Tabs : Talking(a)' /\ talk'[a].token = talk'[e].token => a = e
      <3> SUFFICES ASSUME NEW a \in Tabs, NEW e \in Tabs, Talking(a)', talk'[a].token = talk'[e].token
                   PROVE  a = e
        OBVIOUS
      <3>1. talk[a].token \in Tokens /\ talk'[a] = talk[a]  BY <2>1 DEF TalkInv, Belongs, TalkTypeOK
      <3>2. talk'[e] = talk[e]  BY <1>3, <3>1
      <3> QED  BY <2>1, <3>1, <3>2 DEF TalkInv, Belongs
    <2>3. \A a \in Tabs, c \in calls' : talk'[a].token = c.token => c.poll = PollOf[a]
      BY <1>3, <1>6 DEF TalkInv, Belongs
    <2>4. \A c \in calls' : c.practice \/ Bearer(c) \in meant'
      BY <1>6 DEF TalkInv, Belongs
    <2>5. \A a \in Tabs : Talking(a)' =>
             /\ talk'[a].token \in drawn' /\ Owner[talk'[a].token] = Visitor[a]
             /\ talk'[a].practice \/ Seat(a) \in meant'
      BY <2>1 DEF TalkInv, Belongs
    <2> QED  BY <1>4, <2>2, <2>3, <2>4, <2>5 DEF TalkInv, Belongs
  <1>8. AskedOnce'
    <2>1. \A a \in Tabs : talk'[a].stage \in CallKinds => talk'[a] = talk[a]
      BY <1>1 DEF Quiet, CallKinds
    <2> QED  BY <2>1 DEF TalkInv, AskedOnce
  <1>9. Purposes'
    <2> SUFFICES ASSUME NEW t \in Tokens
                 PROVE  (Real(t)' => Real(t)) /\ (Drill(t)' => Drill(t))
      BY DEF TalkInv, Purposes
    <2>1. \A a \in Tabs : talk'[a].token = t => talk'[a] = talk[a]  BY <1>3
    <2>2. \A a \in Tabs : ended'[a].token = t => ended'[a] = ended[a]
      BY <1>2, NoTokenAssumption DEF NoEnd
    <2>3. Stored(t)' = Stored(t)  BY <1>4 DEF Stored
    <2> QED  BY <2>1, <2>2, <2>3 DEF Real, Drill
  <1>10. Truthful'
    <2>1. \A a \in Tabs, e \in answers' :
             e.kind = "submit" /\ talk'[a].token = e.token =>
                IF e.ok THEN talk'[a].practice \/ Paid(a, e.token)' ELSE Seat(a) \in hitches'
      <3> SUFFICES ASSUME NEW a \in Tabs, NEW e \in answers',
                          e.kind = "submit", talk'[a].token = e.token
                   PROVE  IF e.ok THEN talk'[a].practice \/ Paid(a, e.token)' ELSE Seat(a) \in hitches'
        OBVIOUS
      <3>1. e \in answers /\ e.token \in Tokens  BY DEF TalkInv, TalkTypeOK
      <3>2. talk'[a] = talk[a]  BY <1>3, <3>1
      <3>3. IF e.ok THEN talk[a].practice \/ Paid(a, e.token) ELSE Seat(a) \in hitches
        BY <3>1, <3>2 DEF TalkInv, Truthful
      <3>4. Paid(a, e.token)' = Paid(a, e.token)  BY <1>4 DEF Paid
      <3> QED  BY <3>2, <3>3, <3>4
    <2>2. \A a \in Tabs :
             ended'[a].token # NoToken => ended'[a].practice \/ Stored(ended'[a].token)
      <3> SUFFICES ASSUME NEW a \in Tabs, ended'[a].token # NoToken
                   PROVE  ended'[a].practice \/ Stored(ended'[a].token)
        OBVIOUS
      <3>1. ended'[a] = ended[a]  BY <1>2 DEF NoEnd
      <3> QED  BY <3>1 DEF TalkInv, Truthful
    <2>3. \A t : Stored(t)' = Stored(t)  BY <1>4 DEF Stored
    <2> QED  BY <2>1, <2>2, <1>4 DEF Truthful, Stored
  <1>11. Waited'
    <2> SUFFICES ASSUME NEW c \in calls', ~c.practice, Bearer(c) \notin hitches'
                 PROVE  Awaited(c)'
      BY DEF Waited, Bearer
    <2>1. c \in calls /\ Bearer(c) \notin hitches  OBVIOUS
    <2>2. PICK a \in Tabs : talk[a].token = c.token /\ talk[a].stage = c.kind
      BY <2>1 DEF TalkInv, Waited, Awaited
    <2>3. a # b  BY <2>1, <2>2, SeatOfBearer
    <2> QED  BY <1>1, <2>2, <2>3 DEF Awaited
  <1>12. Carried'
    <2> SUFFICES ASSUME NEW s \in roll', s \notin hitches', ~HasBallot(s)'
                 PROVE  \E a \in Tabs : Seat(a)' = s /\ Carries(a)'
      BY DEF Carried
    <2>1. s \in roll /\ s \notin hitches /\ ~HasBallot(s)  BY <1>4 DEF HasBallot
    <2>2. PICK a \in Tabs : Seat(a) = s /\ Carries(a)  BY <2>1 DEF TalkInv, Carried
    <2>3. a # b  BY <2>1, <2>2
    <2>4. Carries(a)'
      <3>1. talk'[a] = talk[a]  BY <1>1, <2>3
      <3>2. talk[a].token # talk[b].token  BY <2>2, <2>3 DEF TalkInv, Belongs, Carries, Talking
      <3> QED  BY <2>2, <3>1, <3>2 DEF Carries, Answer
    <2> QED  BY <2>2, <2>4 DEF Seat
  <1> QED  BY <1>5, <1>7, <1>8, <1>9, <1>10, <1>11, <1>12 DEF TalkInv

LEMMA SignRefusedKeeps ==
    ASSUME TalkInv, NEW b \in Tabs, talk[b].stage = "sign",
           Answer("sign", talk[b].token, FALSE) \in answers,
           talk' = [talk EXCEPT ![b] = Quiet], UNCHANGED calls, Forget(b),
           UNCHANGED <<boxVars, ended, drawn, drills, looks, meant, hitches>>
    PROVE  TalkInv'
  <1>1. PICK a \in answers : a.kind = "sign" /\ a.token = talk[b].token /\ a.ok = FALSE
    BY DEF Answer
  <1>2. \A c \in calls : c.token = talk[b].token => c.kind # talk[b].stage
    BY <1>1 DEF TalkInv, AskedOnce
  <1>3. ~Carries(b)
    <2> SUFFICES ASSUME Carries(b) PROVE FALSE  OBVIOUS
    <2>1. PICK e \in answers : e.kind = "sign" /\ e.token = talk[b].token /\ e.ok = TRUE
      BY DEF Carries, Answer
    <2> QED  BY <1>1, <2>1 DEF TalkInv, AskedOnce
  <1>4. /\ answers' \subseteq answers
        /\ \A x \in answers : x.token # talk[b].token => x \in answers'
    BY DEF Forget
  <1>5. hitches' \subseteq Users \X Votings /\ hitches \subseteq hitches'
        /\ looks' \in [Tabs -> [LookKinds -> Told \cup {NoLook, Sent}]]
    BY DEF TalkInv, TalkTypeOK
  <1> QED  BY <1>2, <1>3, <1>4, <1>5, Leaves

LEMMA BallotRefusedKeeps ==
    ASSUME TalkInv, NEW b \in Tabs, BallotRefused(b)
    PROVE  TalkInv'
  <1>1. PICK a \in answers : a.kind = "submit" /\ a.token = talk[b].token /\ a.ok = FALSE
    BY DEF Answer, BallotRefused
  <1>2. \A c \in calls : c.token = talk[b].token => c.kind # talk[b].stage
    BY <1>1 DEF TalkInv, AskedOnce, BallotRefused
  <1>3. Seat(b) \in hitches  BY <1>1 DEF TalkInv, Truthful
  <1>4. /\ answers' \subseteq answers
        /\ \A x \in answers : x.token # talk[b].token => x \in answers'
    BY DEF Forget, BallotRefused
  <1>5. /\ hitches' = hitches /\ hitches \subseteq Users \X Votings
        /\ looks' \in [Tabs -> [LookKinds -> Told \cup {NoLook, Sent}]]
        /\ talk' = [talk EXCEPT ![b] = Quiet]
        /\ UNCHANGED <<boxVars, calls, ended, drawn, drills, meant>>
    BY DEF TalkInv, TalkTypeOK, BallotRefused
  <1> QED  BY <1>2, <1>3, <1>4, <1>5, Leaves

LEMMA GiveUpKeeps ==
    ASSUME TalkInv, NEW b \in Tabs, GiveUp(b)
    PROVE  TalkInv'
  <1>1. calls' \subseteq calls  BY DEF GiveUp
  <1>2. Seat(b) \in Users \X Votings  BY TabsAssumption DEF Seat
  <1>3. /\ answers' \subseteq answers
        /\ \A x \in answers : x.token # talk[b].token => x \in answers'
    BY DEF Forget, GiveUp
  <1>4. /\ hitches' = hitches \cup {Seat(b)} /\ hitches' \subseteq Users \X Votings
        /\ looks' \in [Tabs -> [LookKinds -> Told \cup {NoLook, Sent}]]
        /\ talk' = [talk EXCEPT ![b] = Quiet]
        /\ UNCHANGED <<boxVars, ended, drawn, drills, meant>>
    BY <1>2 DEF TalkInv, TalkTypeOK, GiveUp
  <1> QED  BY <1>1, <1>3, <1>4, Leaves

LEMMA OpenTabKeeps ==
    ASSUME TalkInv, NEW b \in Tabs, NEW kinds, OpenTab(b, kinds)
    PROVE  TalkInv'
  <1>1. Seat(b) \in Users \X Votings  BY TabsAssumption DEF Seat
  <1>2. /\ answers' \subseteq answers
        /\ \A x \in answers : x.token # talk[b].token => x \in answers'
    BY DEF Forget, OpenTab
  <1>3. [k \in LookKinds |-> IF k \in kinds THEN Sent ELSE NoLook]
            \in [LookKinds -> Told \cup {NoLook, Sent}]
    OBVIOUS
  <1>4. /\ looks' \in [Tabs -> [LookKinds -> Told \cup {NoLook, Sent}]]
        /\ hitches \subseteq hitches' /\ hitches' \subseteq Users \X Votings
        /\ talk[b].stage \in CallKinds => Seat(b) \in hitches'
        /\ talk' = [talk EXCEPT ![b] = Quiet] /\ ended' = [ended EXCEPT ![b] = NoEnd]
        /\ UNCHANGED <<boxVars, calls, drawn, drills, meant>>
    BY <1>1, <1>3 DEF TalkInv, TalkTypeOK, OpenTab
  <1>5. \A c \in calls : c.kind \in CallKinds  BY DEF TalkInv, TalkTypeOK
  <1>6. Carries(b) => talk[b].stage \in CallKinds  BY DEF Carries, CallKinds
  <1> QED  BY <1>2, <1>4, <1>5, <1>6, Leaves

\* The GET with which a conversation ends, or another one.
LEMMA RefreshKeeps ==
    ASSUME TalkInv, NEW b \in Tabs,
           talk' = [talk EXCEPT ![b] = IF @.stage = "refresh" THEN Quiet ELSE @],
           looks' \in [Tabs -> [LookKinds -> Told \cup {NoLook, Sent}]],
           UNCHANGED <<boxVars, ended, drawn, calls, answers, drills, meant, hitches>>
    PROVE  TalkInv'
  <1>1. CASE talk[b].stage = "refresh"
    <2>1. talk' = [talk EXCEPT ![b] = Quiet]  BY <1>1
    <2>2. \A c \in calls : c.kind # talk[b].stage  BY <1>1 DEF TalkInv, TalkTypeOK, CallKinds
    <2>3. ~Carries(b)  BY <1>1 DEF Carries
    <2>4. hitches' \subseteq Users \X Votings  BY DEF TalkInv, TalkTypeOK
    <2> QED  BY <2>1, <2>2, <2>3, <2>4, Leaves
  <1>2. CASE talk[b].stage # "refresh"
    <2>1. UNCHANGED <<talk, ended, drawn, calls, answers, drills, meant, hitches, roll, box, sealed>>
      BY <1>2 DEF TalkInv, TalkTypeOK, boxVars
    <2>2. TalkTypeOK'  BY <2>1 DEF TalkInv, TalkTypeOK
    <2>3. Belongs' /\ AskedOnce'  BY <2>1 DEF TalkInv, Belongs, AskedOnce, Talking
    <2>4. Purposes' /\ Truthful'
      BY <2>1 DEF TalkInv, Purposes, Truthful, Real, Drill, Stored, Paid
    <2>5. Waited' /\ Carried'
      BY <2>1 DEF TalkInv, Waited, Carried, Awaited, Carries, HasBallot, Bearer, Seat
    <2> QED  BY <2>2, <2>3, <2>4, <2>5 DEF TalkInv
  <1> QED  BY <1>1, <1>2

-----------------------------------------------------------------------------
(* A page goes on.                                                         *)

\* A fresh token: nobody has used it yet.
LEMMA Fresh ==
    ASSUME TalkInv, NEW t \in Tokens \ drawn
    PROVE  /\ ~Real(t) /\ ~Drill(t)
           /\ \A c \in calls : c.token # t
           /\ \A a \in answers : a.token # t
           /\ \A b \in Tabs : talk[b].token # t
  <1>1. ~Real(t) /\ ~Drill(t)  BY DEF TalkInv, Purposes
  <1>2. \A b \in Tabs : talk[b].token # t
    BY NoTokenAssumption DEF TalkInv, TalkTypeOK, Belongs, Quiet, Talking
  <1> QED  BY <1>1, <1>2 DEF TalkInv, TalkTypeOK

LEMMA BeginKeeps ==
    ASSUME TalkInv, NEW b \in Tabs, NEW practice \in BOOLEAN, Begin(b, practice)
    PROVE  TalkInv'
  <1>1. PICK t \in Tokens \ drawn :
           /\ Owner[t] = Visitor[b] /\ drawn' = drawn \cup {t}
           /\ talk' = [talk EXCEPT ![b] = [stage |-> "sign", token |-> t, practice |-> practice]]
           /\ calls' = calls \cup {[kind |-> "sign", poll |-> PollOf[b], token |-> t,
                                   practice |-> practice]}
    BY DEF Begin, Call, SignFlag
  <1>2. PICK n : n = [kind |-> "sign", poll |-> PollOf[b], token |-> t, practice |-> practice]
    OBVIOUS
  <1>3. /\ calls' = calls \cup {n} /\ n.kind = "sign" /\ n.poll = PollOf[b]
        /\ n.token = t /\ n.practice = practice
        /\ n \in [kind : CallKinds, poll : Votings, token : drawn', practice : BOOLEAN]
    BY <1>1, <1>2, TabsAssumption DEF CallKinds
  <1>4. /\ talk[b] = Quiet /\ talk'[b].stage = "sign" /\ talk'[b].token = t
        /\ talk'[b].practice = practice /\ \A a \in Tabs \ {b} : talk'[a] = talk[a]
        /\ talk' \in [Tabs -> [stage : Stages, token : Tokens \cup {NoToken}, practice : BOOLEAN]]
    BY <1>1 DEF TalkInv, TalkTypeOK, Begin, MayBegin, Stages
  <1>5. /\ meant \subseteq meant' /\ (practice \/ Seat(b) \in meant')
        /\ meant' \subseteq Users \X Votings
    <2>1. Seat(b) \in Users \X Votings  BY TabsAssumption DEF Seat
    <2>2. meant' = IF practice THEN meant ELSE meant \cup {Seat(b)}  BY DEF Begin
    <2> QED  BY <2>1, <2>2 DEF TalkInv, TalkTypeOK
  <1>6. UNCHANGED <<roll, box, sealed, ended, answers, drills, looks, hitches>>
    BY DEF Begin, boxVars
  <1>7. /\ ~Real(t) /\ ~Drill(t)
        /\ \A c \in calls : c.token # t
        /\ \A a \in answers : a.token # t
        /\ \A a \in Tabs : talk[a].token # t
    BY Fresh
  <1>8. TalkTypeOK'
    <2>1. \A a \in Tabs : talk'[a].stage = "rest" => talk'[a] = Quiet
      BY <1>4 DEF TalkInv, TalkTypeOK
    <2>2. calls' \subseteq [kind : CallKinds, poll : Votings, token : drawn', practice : BOOLEAN]
      BY <1>1, <1>3 DEF TalkInv, TalkTypeOK
    <2>3. answers' \subseteq [kind : CallKinds, token : drawn', ok : BOOLEAN]
      BY <1>1, <1>6 DEF TalkInv, TalkTypeOK
    <2>4. drawn' \subseteq Tokens /\ drills' \subseteq drawn'
      BY <1>1, <1>6 DEF TalkInv, TalkTypeOK
    <2> QED  BY <1>4, <1>5, <1>6, <2>1, <2>2, <2>3, <2>4 DEF TalkInv, TalkTypeOK
  <1>9. Belongs'
    <2>1. \A a \in Tabs : Talking(a)' =>
             /\ talk'[a].token \in drawn' /\ Owner[talk'[a].token] = Visitor[a]
             /\ talk'[a].practice \/ Seat(a) \in meant'
      BY <1>1, <1>4, <1>5 DEF TalkInv, Belongs, Talking
    <2>2. \A a, e \in Tabs : Talking(a)' /\ talk'[a].token = talk'[e].token => a = e
      BY <1>4, <1>7 DEF TalkInv, Belongs, Talking
    <2>3. \A a \in Tabs, c \in calls' : talk'[a].token = c.token => c.poll = PollOf[a]
      BY <1>3, <1>4, <1>7 DEF TalkInv, Belongs
    <2>4. Bearer(n) = Seat(b)  BY <1>1, <1>3 DEF Bearer, Seat
    <2>5. \A c \in calls' : c.practice \/ Bearer(c) \in meant'
      BY <1>3, <1>5, <2>4 DEF TalkInv, Belongs
    <2>6. roll' \subseteq meant'  BY <1>5, <1>6 DEF TalkInv, Belongs
    <2> QED  BY <2>1, <2>2, <2>3, <2>5, <2>6 DEF Belongs, Seat, Bearer
  <1>10. AskedOnce'
    <2>1. \A c \in calls' : c = n \/ (c \in calls /\ c.token # t)  BY <1>3, <1>7
    <2>2. \A a \in Tabs \ {b} : talk'[a] = talk[a] /\ talk'[a].token # t  BY <1>4, <1>7
    <2>3. \A c, d \in calls' : c.token = d.token /\ c.kind = d.kind => c = d
      BY <1>3, <2>1 DEF TalkInv, AskedOnce
    <2>4. \A c \in calls', a \in answers' : c.token = a.token => c.kind # a.kind
      BY <1>3, <1>6, <1>7, <2>1 DEF TalkInv, AskedOnce
    <2>5. \A a \in Tabs, c \in calls' :
             talk'[a].stage \in CallKinds /\ c.token = talk'[a].token => c.kind = talk'[a].stage
      BY <1>3, <1>4, <2>1, <2>2 DEF TalkInv, AskedOnce
    <2>6. \A a \in Tabs, e \in answers' :
             talk'[a].stage \in CallKinds /\ e.token = talk'[a].token => e.kind = talk'[a].stage
      BY <1>4, <1>6, <1>7, <2>2 DEF TalkInv, AskedOnce
    <2> QED  BY <1>6, <2>3, <2>4, <2>5, <2>6 DEF TalkInv, AskedOnce
  <1>11. Purposes'
    <2> SUFFICES ASSUME NEW s \in Tokens
                 PROVE  ~(Real(s)' /\ Drill(s)') /\ (Real(s)' \/ Drill(s)' => s \in drawn')
      BY DEF Purposes
    <2>1. CASE s = t
      <3>1. Real(s)' => ~practice
        BY <1>3, <1>4, <1>6, <1>7, <2>1 DEF Real, Drill, Stored
      <3>2. Drill(s)' => practice
        BY <1>3, <1>4, <1>6, <1>7, <2>1 DEF Real, Drill
      <3> QED  BY <1>1, <2>1, <3>1, <3>2
    <2>2. CASE s # t
      <3>1. Real(s)' => Real(s)  BY <1>3, <1>4, <1>6, <2>2 DEF Real, Stored
      <3>2. Drill(s)' => Drill(s)  BY <1>3, <1>4, <1>6, <2>2 DEF Drill
      <3> QED  BY <1>1, <3>1, <3>2 DEF TalkInv, Purposes
    <2> QED  BY <2>1, <2>2
  <1>12. Truthful'
    BY <1>4, <1>6, <1>7 DEF TalkInv, Truthful, Paid, Stored, Seat
  <1>13. Waited'
    <2>1. Awaited(n)'  BY <1>3, <1>4 DEF Awaited
    <2>2. \A c \in calls : Awaited(c) => Awaited(c)'
      <3> SUFFICES ASSUME NEW c \in calls, NEW a \in Tabs, talk[a].token = c.token,
                          talk[a].stage = c.kind
                   PROVE  Awaited(c)'
        BY DEF Awaited
      <3>1. c.kind \in CallKinds  BY DEF TalkInv, TalkTypeOK
      <3>2. a # b  BY <1>4, <3>1 DEF Quiet, CallKinds
      <3> QED  BY <1>4, <3>2 DEF Awaited
    <2> QED  BY <1>3, <1>6, <2>1, <2>2 DEF TalkInv, Waited, Bearer
  <1>14. Carried'
    <2>1. \A a \in Tabs : Carries(a) => Carries(a)'
      <3> SUFFICES ASSUME NEW a \in Tabs, Carries(a) PROVE Carries(a)'  OBVIOUS
      <3>1. talk[a].stage \in CallKinds  BY DEF Carries, CallKinds
      <3>2. a # b  BY <1>4, <3>1 DEF Quiet, CallKinds
      <3> QED  BY <1>4, <1>6, <3>2 DEF Carries, Answer
    <2>2. \A s : HasBallot(s)' = HasBallot(s)  BY <1>6 DEF HasBallot
    <2> QED  BY <1>6, <2>1, <2>2 DEF TalkInv, Carried, Seat
  <1> QED  BY <1>8, <1>9, <1>10, <1>11, <1>12, <1>13, <1>14 DEF TalkInv

LEMMA SignGrantedKeeps ==
    ASSUME TalkInv, NEW b \in Tabs, NEW t, t = talk[b].token, talk[b].stage = "sign",
           Answer("sign", t, TRUE) \in answers,
           talk' = [talk EXCEPT ![b].stage = "submit"],
           calls' = calls \cup {Call(b, "submit", t, talk[b].practice)}, Forget(b),
           UNCHANGED <<boxVars, ended, drawn, drills, looks, meant, hitches>>
    PROVE  TalkInv'
  <1>1. PICK g \in answers : g.kind = "sign" /\ g.token = t  BY DEF Answer
  <1>2. /\ t \in drawn /\ t \in Tokens /\ Owner[t] = Visitor[b]
        /\ talk[b].practice \in BOOLEAN /\ (talk[b].practice \/ Seat(b) \in meant)
    BY DEF TalkInv, Belongs, TalkTypeOK, Talking
  <1>3. PICK n : n = Call(b, "submit", t, talk[b].practice)  OBVIOUS
  <1>4. /\ calls' = calls \cup {n} /\ n.kind = "submit" /\ n.poll = PollOf[b]
        /\ n.token = t /\ n.practice = talk[b].practice
        /\ n \in [kind : CallKinds, poll : Votings, token : drawn, practice : BOOLEAN]
    BY <1>2, <1>3, TabsAssumption DEF CallKinds, Call
  <1>5. /\ talk'[b].stage = "submit" /\ talk'[b].token = t /\ talk'[b].practice = talk[b].practice
        /\ \A a \in Tabs \ {b} : talk'[a] = talk[a]
        /\ talk' \in [Tabs -> [stage : Stages, token : Tokens \cup {NoToken}, practice : BOOLEAN]]
    BY DEF TalkInv, TalkTypeOK, Stages
  <1>6. UNCHANGED <<roll, box, sealed>>  BY DEF boxVars
  <1>7. answers' \subseteq answers /\ \A a \in answers' : a.token # t  BY DEF Forget
  <1>8. \A c \in calls : c.token # t
    BY <1>1 DEF TalkInv, AskedOnce, CallKinds
  <1>9. \A a \in Tabs \ {b} : talk[a].token # t
    BY DEF TalkInv, Belongs, Talking
  <1>10. \A a \in Tabs : talk'[a].token = talk[a].token /\ talk'[a].practice = talk[a].practice
    BY <1>5
  <1>11. TalkTypeOK'
    <2>1. \A a \in Tabs : talk'[a].stage = "rest" => talk'[a] = Quiet
      BY <1>5 DEF TalkInv, TalkTypeOK
    <2>2. calls' \subseteq [kind : CallKinds, poll : Votings, token : drawn, practice : BOOLEAN]
      BY <1>4 DEF TalkInv, TalkTypeOK
    <2> QED  BY <1>5, <1>7, <2>1, <2>2 DEF TalkInv, TalkTypeOK
  <1>12. Belongs'
    <2>1. \A a \in Tabs : Talking(a)' = Talking(a)  BY <1>5 DEF Talking
    <2>2. Bearer(n) = Seat(b)  BY <1>2, <1>4 DEF Bearer, Seat
    <2>3. \A a \in Tabs, c \in calls' : talk'[a].token = c.token => c.poll = PollOf[a]
      BY <1>4, <1>9, <1>10 DEF TalkInv, Belongs
    <2>4. \A c \in calls' : c.practice \/ Bearer(c) \in meant
      BY <1>2, <1>4, <2>2 DEF TalkInv, Belongs
    <2> QED  BY <1>6, <1>10, <2>1, <2>3, <2>4 DEF TalkInv, Belongs, Seat, Bearer
  <1>13. AskedOnce'
    <2>1. \A c \in calls' : c = n \/ (c \in calls /\ c.token # t)  BY <1>4, <1>8
    <2>2. \A c, d \in calls' : c.token = d.token /\ c.kind = d.kind => c = d
      BY <1>4, <2>1 DEF TalkInv, AskedOnce
    <2>3. \A c \in calls', a \in answers' : c.token = a.token => c.kind # a.kind
      BY <1>4, <1>7, <2>1 DEF TalkInv, AskedOnce
    <2>4. \A a \in Tabs, c \in calls' :
             talk'[a].stage \in CallKinds /\ c.token = talk'[a].token => c.kind = talk'[a].stage
      BY <1>4, <1>5, <1>9, <2>1 DEF TalkInv, AskedOnce
    <2>5. \A a \in Tabs, e \in answers' :
             talk'[a].stage \in CallKinds /\ e.token = talk'[a].token => e.kind = talk'[a].stage
      BY <1>5, <1>7 DEF TalkInv, AskedOnce
    <2> QED  BY <1>7, <2>2, <2>3, <2>4, <2>5 DEF TalkInv, AskedOnce
  <1>14. Purposes'
    <2> SUFFICES ASSUME NEW s \in Tokens
                 PROVE  (Real(s)' => Real(s)) /\ (Drill(s)' => Drill(s))
      BY DEF TalkInv, Purposes
    <2>1. Stored(s)' = Stored(s)  BY <1>6 DEF Stored
    <2> QED  BY <1>4, <1>10, <2>1 DEF Real, Drill
  <1>15. Truthful'
    <2>1. \A a, x : Paid(a, x)' = Paid(a, x)  BY <1>6 DEF Paid
    <2>2. \A x : Stored(x)' = Stored(x)  BY <1>6 DEF Stored
    <2>3. \A a \in Tabs, e \in answers' :
             e.kind = "submit" /\ talk'[a].token = e.token =>
                IF e.ok THEN talk'[a].practice \/ Paid(a, e.token) ELSE Seat(a) \in hitches
      BY <1>7, <1>10 DEF TalkInv, Truthful
    <2> QED  BY <2>1, <2>2, <2>3 DEF TalkInv, Truthful, Seat, Stored
  <1>16. Waited'
    <2>1. Awaited(n)'  BY <1>4, <1>5 DEF Awaited
    <2>2. \A c \in calls : Awaited(c) => Awaited(c)'  BY <1>5, <1>8 DEF Awaited
    <2> QED  BY <1>4, <2>1, <2>2 DEF TalkInv, Waited, Bearer
  <1>17. Carried'
    <2>1. \A a \in Tabs : Carries(a) => Carries(a)'
      <3> SUFFICES ASSUME NEW a \in Tabs, Carries(a) PROVE Carries(a)'  OBVIOUS
      <3>1. CASE a = b  BY <1>5, <3>1 DEF Carries
      <3>2. CASE a # b
        <4>1. talk'[a] = talk[a] /\ talk[a].token # t  BY <1>5, <1>9, <3>2
        <4>2. Answer("sign", talk[a].token, TRUE) \in answers
                 => Answer("sign", talk[a].token, TRUE) \in answers'
          BY <4>1 DEF Answer, Forget
        <4>3. talk[a].stage = "sign" => Answer("sign", talk[a].token, TRUE) \in answers
          BY <3>2 DEF Carries
        <4> QED  BY <4>1, <4>2, <4>3 DEF Carries, Answer
      <3> QED  BY <3>1, <3>2
    <2>2. \A s : HasBallot(s)' = HasBallot(s)  BY <1>6 DEF HasBallot
    <2> QED  BY <1>6, <2>1, <2>2 DEF TalkInv, Carried, Seat
  <1> QED  BY <1>11, <1>12, <1>13, <1>14, <1>15, <1>16, <1>17 DEF TalkInv

LEMMA SignAnsweredKeeps ==
    ASSUME TalkInv, NEW b \in Tabs, SignAnswered(b)
    PROVE  TalkInv'
  BY SignGrantedKeeps, SignRefusedKeeps DEF SignAnswered, BallotFlag

LEMMA BallotTakenKeeps ==
    ASSUME TalkInv, NEW b \in Tabs, BallotTaken(b)
    PROVE  TalkInv'
  <1>1. PICK t : t = talk[b].token  OBVIOUS
  <1>2. PICK g \in answers : g.kind = "submit" /\ g.token = t /\ g.ok = TRUE
    BY <1>1 DEF Answer, BallotTaken, Taken
  <1>3. /\ t \in drawn /\ t \in Tokens /\ Owner[t] = Visitor[b]
        /\ talk[b].practice \in BOOLEAN /\ talk[b].stage = "submit"
    BY <1>1 DEF TalkInv, Belongs, TalkTypeOK, Talking, BallotTaken
  <1>4. talk[b].practice \/ Paid(b, t)  BY <1>1, <1>2 DEF TalkInv, Truthful
  <1>5. talk[b].practice \/ (Stored(t) /\ HasBallot(Seat(b)))
    BY <1>3, <1>4 DEF Paid, Stored, HasBallot, Seat
  <1>6. /\ talk'[b].stage = "refresh" /\ talk'[b].token = t /\ talk'[b].practice = talk[b].practice
        /\ \A a \in Tabs \ {b} : talk'[a] = talk[a]
        /\ talk' \in [Tabs -> [stage : Stages, token : Tokens \cup {NoToken}, practice : BOOLEAN]]
    BY <1>1 DEF TalkInv, TalkTypeOK, Stages, BallotTaken
  <1>7. /\ ended' \in [Tabs -> [token : Tokens \cup {NoToken}, practice : BOOLEAN]]
        /\ ended'[b].token = t /\ ended'[b].practice = talk[b].practice
        /\ \A a \in Tabs \ {b} : ended'[a] = ended[a]
    BY <1>1, <1>3 DEF TalkInv, TalkTypeOK, BallotTaken
  <1>8. UNCHANGED <<roll, box, sealed, drawn, calls, drills, meant, hitches>>
    BY DEF BallotTaken, boxVars
  <1>9. looks' \in [Tabs -> [LookKinds -> Told \cup {NoLook, Sent}]]
    BY DEF TalkInv, TalkTypeOK, BallotTaken, LookKinds
  <1>10. answers' \subseteq answers /\ \A a \in answers' : a.token # t
    BY <1>1 DEF Forget, BallotTaken
  <1>11. \A c \in calls : c.token # t
    BY <1>1, <1>2, <1>3 DEF TalkInv, AskedOnce, CallKinds
  <1>12. \A a \in Tabs \ {b} : talk[a].token # t
    BY <1>1, <1>3 DEF TalkInv, Belongs, Talking
  <1>13. \A a \in Tabs : talk'[a].token = talk[a].token /\ talk'[a].practice = talk[a].practice
    BY <1>1, <1>6
  <1>14. TalkTypeOK'
    BY <1>6, <1>7, <1>8, <1>9, <1>10 DEF TalkInv, TalkTypeOK
  <1>15. Belongs'
    <2>1. \A a \in Tabs : Talking(a)' = Talking(a)  BY <1>3, <1>6 DEF Talking
    <2> QED  BY <1>8, <1>13, <2>1 DEF TalkInv, Belongs, Seat, Bearer
  <1>16. AskedOnce'
    <2>1. \A a \in Tabs : talk'[a].stage \in CallKinds => talk'[a] = talk[a]
      BY <1>6 DEF CallKinds
    <2> QED  BY <1>8, <1>10, <2>1 DEF TalkInv, AskedOnce
  <1>17. Purposes'
    <2> SUFFICES ASSUME NEW s \in Tokens
                 PROVE  (Real(s)' => Real(s)) /\ (Drill(s)' => Drill(s))
      BY <1>8 DEF TalkInv, Purposes
    <2>1. Stored(s)' = Stored(s)  BY <1>8 DEF Stored
    <2>2. \A a \in Tabs : ended'[a] = ended[a]
             \/ (ended'[a].token = talk[a].token /\ ended'[a].practice = talk[a].practice)
      BY <1>1, <1>7
    <2> QED  BY <1>8, <1>13, <2>1, <2>2 DEF Real, Drill
  <1>18. Truthful'
    <2>1. \A a, x : Paid(a, x)' = Paid(a, x)  BY <1>8 DEF Paid
    <2>2. \A a \in Tabs :
             ended'[a].token # NoToken => ended'[a].practice \/ Stored(ended'[a].token)
      BY <1>5, <1>7 DEF TalkInv, Truthful
    <2> QED  BY <1>8, <1>10, <1>13, <2>1, <2>2 DEF TalkInv, Truthful, Seat, Stored
  <1>19. Waited'
    <2>1. \A c \in calls : Awaited(c) => Awaited(c)'
      BY <1>1, <1>6, <1>11 DEF Awaited
    <2> QED  BY <1>8, <2>1 DEF TalkInv, Waited, Bearer
  <1>20. Carried'
    <2>1. \A a \in Tabs : Carries(a) => Carries(a)' \/ HasBallot(Seat(a))
      <3> SUFFICES ASSUME NEW a \in Tabs, Carries(a), a # b PROVE Carries(a)'
        BY <1>5 DEF Carries
      <3>1. talk'[a] = talk[a] /\ talk[a].token # t  BY <1>6, <1>12
      <3> QED  BY <1>1, <3>1 DEF Carries, Answer, Forget, BallotTaken
    <2>2. \A s : HasBallot(s)' = HasBallot(s)  BY <1>8 DEF HasBallot
    <2> QED  BY <1>8, <2>1, <2>2 DEF TalkInv, Carried, Seat
  <1> QED  BY <1>14, <1>15, <1>16, <1>17, <1>18, <1>19, <1>20 DEF TalkInv

-----------------------------------------------------------------------------
(* The back end answers.                                                   *)

LEMMA Replies ==
    ASSUME TalkInv, NEW c \in calls, NEW ok \in BOOLEAN, Reply(c, ok),
           UNCHANGED <<talk, ended, drawn, looks, meant>>,
           box \subseteq box', \A x \in box' : x \in box \/ (x.token = c.token /\ ~c.practice),
           UNCHANGED drills \/ (drills' = drills \cup {c.token} /\ c.practice),
           UNCHANGED roll \/ (roll' = roll \cup {Bearer(c)} /\ ~c.practice /\ c.kind = "sign" /\ ok),
           hitches \subseteq hitches', hitches' \subseteq Users \X Votings,
           \A b \in Tabs : c.kind = "submit" /\ talk[b].token = c.token =>
              IF ok THEN talk[b].practice \/ Paid(b, c.token)' ELSE Seat(b) \in hitches'
    PROVE  TalkInv'
  <1>1. PICK n : n = Answer(c.kind, c.token, ok)  OBVIOUS
  <1>2. /\ n.kind = c.kind /\ n.token = c.token /\ n.ok = ok
        /\ c.token \in drawn /\ c.token \in Tokens /\ c.kind \in CallKinds
        /\ n \in [kind : CallKinds, token : drawn, ok : BOOLEAN]
    BY <1>1 DEF Answer, TalkInv, TalkTypeOK
  <1>3. /\ calls' = calls \ {c} /\ answers \subseteq answers' /\ answers' \subseteq answers \cup {n}
        /\ Awaited(c) => n \in answers'
    BY <1>1 DEF Reply
  <1>4. TalkTypeOK'
    BY <1>2, <1>3 DEF TalkInv, TalkTypeOK
  <1>5. Belongs'
    <2>1. c.practice \/ Bearer(c) \in meant  BY DEF TalkInv, Belongs
    <2>2. roll' \subseteq meant  BY <2>1 DEF TalkInv, Belongs
    <2> QED  BY <1>3, <2>2 DEF TalkInv, Belongs, Talking, Bearer, Seat
  <1>6. AskedOnce'
    <2>1. \A d \in calls' : d.token = c.token => d.kind # c.kind
      BY <1>3 DEF TalkInv, AskedOnce
    <2>2. \A a \in answers : a.token = c.token => a.kind # c.kind
      BY DEF TalkInv, AskedOnce
    <2>3. \A a, e \in answers' : a.token = e.token /\ a.kind = e.kind => a = e
      BY <1>2, <1>3, <2>2 DEF TalkInv, AskedOnce
    <2>4. \A d \in calls', a \in answers' : d.token = a.token => d.kind # a.kind
      BY <1>2, <1>3, <2>1 DEF TalkInv, AskedOnce
    <2>5. \A b \in Tabs, a \in answers' :
             talk[b].stage \in CallKinds /\ a.token = talk[b].token => a.kind = talk[b].stage
      BY <1>2, <1>3 DEF TalkInv, AskedOnce
    <2> QED  BY <1>3, <2>3, <2>4, <2>5 DEF TalkInv, AskedOnce
  <1>7. Purposes'
    <2> SUFFICES ASSUME NEW s \in Tokens
                 PROVE  (Real(s)' => Real(s)) /\ (Drill(s)' => Drill(s))
      BY DEF TalkInv, Purposes
    <2>1. Stored(s)' => Stored(s) \/ (s = c.token /\ ~c.practice)  BY DEF Stored
    <2>2. Real(s)' => Real(s)  BY <1>3, <2>1 DEF Real
    <2>3. Drill(s)' => Drill(s)  BY <1>3 DEF Drill
    <2> QED  BY <2>2, <2>3
  <1>8. Truthful'
    <2>1. \A b, t : Paid(b, t) => Paid(b, t)'  BY DEF Paid
    <2>2. \A t : Stored(t) => Stored(t)'  BY DEF Stored
    <2>3. \A b \in Tabs, a \in answers' :
             a.kind = "submit" /\ talk[b].token = a.token =>
                IF a.ok THEN talk[b].practice \/ Paid(b, a.token)' ELSE Seat(b) \in hitches'
      <3> SUFFICES ASSUME NEW b \in Tabs, NEW a \in answers', a.kind = "submit",
                          talk[b].token = a.token
                   PROVE  IF a.ok THEN talk[b].practice \/ Paid(b, a.token)' ELSE Seat(b) \in hitches'
        OBVIOUS
      <3>1. CASE a \in answers
        <4>1. IF a.ok THEN talk[b].practice \/ Paid(b, a.token) ELSE Seat(b) \in hitches
          BY <3>1 DEF TalkInv, Truthful
        <4> QED  BY <4>1, <2>1
      <3>2. CASE a = n  BY <1>2, <3>2
      <3> QED  BY <1>3, <3>1, <3>2
    <2>4. \A b \in Tabs : ended[b].token # NoToken => ended[b].practice \/ Stored(ended[b].token)'
      BY <2>2 DEF TalkInv, Truthful
    <2> QED  BY <2>3, <2>4 DEF Truthful, Paid, Stored, Seat
  <1>9. Waited'
    BY <1>3 DEF TalkInv, Waited, Awaited, Bearer
  <1>10. Carried'
    <2>1. \A b \in Tabs : Carries(b) => Carries(b)'  BY <1>3 DEF Carries, Answer
    <2>2. \A s : HasBallot(s) => HasBallot(s)'  BY DEF HasBallot
    <2>3. ASSUME roll' = roll \cup {Bearer(c)}, ~c.practice, c.kind = "sign", ok = TRUE,
                 Bearer(c) \notin hitches'
          PROVE  \E b \in Tabs : Seat(b) = Bearer(c) /\ Carries(b)'
      <3>1. Awaited(c)  BY <2>3 DEF TalkInv, Waited
      <3>2. PICK b \in Tabs : talk[b].token = c.token /\ talk[b].stage = "sign"
        BY <3>1, <2>3 DEF Awaited
      <3>3. Real(c.token)  BY <2>3 DEF Real
      <3>4. ~talk[b].practice  BY <3>2, <3>3, <1>2 DEF TalkInv, Purposes, Drill
      <3>5. Answer("sign", talk[b].token, TRUE) \in answers'  BY <1>1, <1>3, <2>3, <3>1, <3>2
      <3>6. Carries(b)'  BY <3>2, <3>4, <3>5 DEF Carries, Answer
      <3> QED  BY <3>2, <3>6, SeatOfBearer
    <2> QED  BY <2>1, <2>2, <2>3 DEF TalkInv, Carried, Seat
  <1> QED  BY <1>4, <1>5, <1>6, <1>7, <1>8, <1>9, <1>10 DEF TalkInv

LEMMA ServeKeeps ==
    ASSUME TalkInv, Serve
    PROVE  TalkInv'
  <1>1. ASSUME NEW c \in calls, ServeSign(c) PROVE TalkInv'
    <2>1. /\ c.kind = "sign" /\ Reply(c, TRUE) /\ c.kind # "submit"
          /\ UNCHANGED <<talk, ended, drawn, looks, meant, box, hitches>>
      BY <1>1 DEF ServeSign, Authorise, boxVars
    <2>2. /\ UNCHANGED drills \/ (drills' = drills \cup {c.token} /\ c.practice)
          /\ UNCHANGED roll \/ (roll' = roll \cup {Bearer(c)} /\ ~c.practice /\ c.kind = "sign" /\ TRUE)
      BY <1>1 DEF ServeSign, Authorise, boxVars, Bearer
    <2>3. hitches' \subseteq Users \X Votings  BY <2>1 DEF TalkInv, TalkTypeOK
    <2> QED  BY <2>1, <2>2, <2>3, Replies
  <1>2. ASSUME NEW c \in calls, ServeBallot(c) PROVE TalkInv'
    <2>1. UNCHANGED <<talk, ended, drawn, drills, looks, meant, roll>> /\ c.kind = "submit"
      BY <1>2 DEF ServeBallot, Cast, boxVars
    <2>2. CASE /\ c.practice \/ c.token \in drills
               /\ Reply(c, TRUE) /\ UNCHANGED <<boxVars, hitches>>
      <3>1. Drill(c.token)  BY <2>2 DEF Drill
      <3>2. \A b \in Tabs : talk[b].token = c.token => talk[b].practice
        BY <3>1, SeatOfBearer DEF TalkInv, Purposes, Real
      <3>3. box' = box /\ hitches' \subseteq Users \X Votings
        BY <2>2 DEF boxVars, TalkInv, TalkTypeOK
      <3> QED  BY <2>1, <2>2, <3>2, <3>3, Replies
    <2>3. CASE /\ ~c.practice /\ \E x \in Choices : Cast(c.poll, c.token, x)
               /\ \/ Reply(c, TRUE) /\ UNCHANGED hitches
                  \/ Reply(c, FALSE) /\ hitches' = hitches \cup {Bearer(c)}
      <3>1. PICK x \in Choices : Cast(c.poll, c.token, x)  BY <2>3
      <3>2. PICK y : y = [voting |-> c.poll, option |-> x, token |-> c.token]  OBVIOUS
      <3>3. y.token = c.token /\ y.voting = c.poll /\ box' = box \cup {y}
        BY <3>1, <3>2 DEF Cast
      <3>4. \A b \in Tabs : talk[b].token = c.token => Paid(b, c.token)' /\ Seat(b) = Bearer(c)
        BY <3>3, SeatOfBearer DEF Paid, TalkInv, Belongs
      <3>5. Bearer(c) \in Users \X Votings
        BY TabsAssumption DEF Bearer, TalkInv, TalkTypeOK
      <3>6. CASE Reply(c, TRUE) /\ UNCHANGED hitches
        <4>1. hitches' \subseteq Users \X Votings  BY <3>6 DEF TalkInv, TalkTypeOK
        <4> QED  BY <2>1, <2>3, <3>3, <3>4, <3>6, <4>1, Replies
      <3>7. CASE Reply(c, FALSE) /\ hitches' = hitches \cup {Bearer(c)}
        <4>1. hitches' \subseteq Users \X Votings  BY <3>5, <3>7 DEF TalkInv, TalkTypeOK
        <4>2. \A b \in Tabs : talk[b].token = c.token => Seat(b) \in hitches'  BY <3>4, <3>7
        <4> QED  BY <2>1, <2>3, <3>3, <3>7, <4>1, <4>2, Replies
      <3> QED  BY <2>3, <3>6, <3>7
    <2>4. \/ /\ c.practice \/ c.token \in drills
             /\ Reply(c, TRUE) /\ UNCHANGED <<boxVars, hitches>>
          \/ /\ ~c.practice /\ \E x \in Choices : Cast(c.poll, c.token, x)
             /\ \/ Reply(c, TRUE) /\ UNCHANGED hitches
                \/ Reply(c, FALSE) /\ hitches' = hitches \cup {Bearer(c)}
      BY <1>2 DEF ServeBallot
    <2> QED  BY ONLY <2>2, <2>3, <2>4, Zenon
  <1>3. ASSUME NEW c \in calls, Refuse(c) PROVE TalkInv'
    <2>1. /\ Reply(c, FALSE)
          /\ UNCHANGED <<roll, box, talk, ended, drawn, drills, looks, meant>>
          /\ hitches' \in {hitches, hitches \cup {Bearer(c)}}
          /\ c.kind = "submit" => hitches' = hitches \cup {Bearer(c)}
      BY <1>3 DEF Refuse, boxVars
    <2>2. Bearer(c) \in Users \X Votings
      BY TabsAssumption DEF Bearer, TalkInv, TalkTypeOK
    <2>3. hitches \subseteq hitches' /\ hitches' \subseteq Users \X Votings
      BY <2>1, <2>2 DEF TalkInv, TalkTypeOK
    <2>4. \A b \in Tabs : c.kind = "submit" /\ talk[b].token = c.token => Seat(b) \in hitches'
      BY <2>1, SeatOfBearer
    <2> QED  BY <2>1, <2>3, <2>4, Replies
  <1> QED  BY <1>1, <1>2, <1>3 DEF Serve

-----------------------------------------------------------------------------
(* The pages of votings and of surveys, and the one back end behind them.   *)

pollPagesVars == <<boxVars, talkVars, votingPageVars, surveyPageVars>>

PollPagesInit == TalkInit /\ VotingPageInit /\ SurveyPageInit

PollPagesNext ==
    \/ VotingPageNext /\ UNCHANGED surveyPageVars
    \/ SurveyPageNext /\ UNCHANGED votingPageVars
    \/ /\ \/ Serve
          \/ \E b \in Tabs, k \in LookKinds : ServeLook(b, k)
          \/ \E v \in Votings : SealPoll(v)
       /\ UNCHANGED <<votingPageVars, surveyPageVars>>

PollPagesSpec == PollPagesInit /\ [][PollPagesNext]_pollPagesVars

PagesInv == TalkInv /\ isPractice \in [VotingTabs -> BOOLEAN]

LEMMA PagesInitially == PollPagesInit => PagesInv
  <1> SUFFICES ASSUME PollPagesInit PROVE PagesInv  OBVIOUS
  <1> USE TabsAssumption, NoTokenAssumption DEF PollPagesInit, TalkInit, BoxInit
  <1>1. TalkTypeOK
    BY DEF TalkTypeOK, Quiet, NoEnd, Stages, LookKinds
  <1>2. Belongs /\ AskedOnce /\ Waited
    BY DEF Belongs, AskedOnce, Waited, Talking, Quiet
  <1>3. Purposes  BY DEF Purposes, Real, Drill, Stored, Quiet, NoEnd
  <1>4. Truthful /\ Carried  BY DEF Truthful, Carried, NoEnd
  <1>5. isPractice \in [VotingTabs -> BOOLEAN]  BY DEF VotingPageInit
  <1> QED  BY <1>1, <1>2, <1>3, <1>4, <1>5 DEF PagesInv, TalkInv

\* Nothing of the conversation moves, except perhaps what a GET has to tell.
LEMMA TalkStands ==
    ASSUME TalkInv, looks' \in [Tabs -> [LookKinds -> Told \cup {NoLook, Sent}]],
           UNCHANGED <<roll, box, talk, ended, drawn, calls, answers, drills, meant, hitches>>
    PROVE  TalkInv'
  <1>1. TalkTypeOK'  BY DEF TalkInv, TalkTypeOK
  <1>2. Belongs' /\ AskedOnce'  BY DEF TalkInv, Belongs, AskedOnce, Talking, Seat, Bearer
  <1>3. Purposes' /\ Truthful'
    BY DEF TalkInv, Purposes, Truthful, Real, Drill, Stored, Paid, Seat
  <1>4. Waited' /\ Carried'
    BY DEF TalkInv, Waited, Carried, Awaited, Carries, HasBallot, Bearer, Seat, Answer
  <1> QED  BY <1>1, <1>2, <1>3, <1>4 DEF TalkInv

LEMMA ServerLooksKeep ==
    ASSUME TalkInv, (\E b \in Tabs, k \in LookKinds : ServeLook(b, k)) \/ \E v \in Votings : SealPoll(v)
    PROVE  TalkInv'
  <1>1. ASSUME NEW b \in Tabs, NEW k \in LookKinds, ServeLook(b, k) PROVE TalkInv'
    <2>1. [voted |-> Seat(b) \in roll, final |-> sealed[PollOf[b]] # Unsealed] \in Told
      BY DEF Told
    <2>2. looks' \in [Tabs -> [LookKinds -> Told \cup {NoLook, Sent}]]
      BY <1>1, <2>1 DEF ServeLook, TalkInv, TalkTypeOK
    <2> QED  BY <1>1, <2>2, TalkStands DEF ServeLook, boxVars
  <1>2. ASSUME NEW v \in Votings, SealPoll(v) PROVE TalkInv'
    <2>1. looks' \in [Tabs -> [LookKinds -> Told \cup {NoLook, Sent}]]
      BY <1>2 DEF SealPoll, talkVars, TalkInv, TalkTypeOK
    <2> QED  BY <1>2, <2>1, TalkStands DEF SealPoll, Seal, talkVars
  <1> QED  BY <1>1, <1>2

LEMMA VotingPageKeeps ==
    ASSUME PagesInv, VotingPageNext
    PROVE  PagesInv'
  <1>1. PICK b \in VotingTabs :
           \/ Open(b) \/ Submit(b) \/ StartPractice(b) \/ ExitPractice(b)
           \/ FetchVotingEnds(b) \/ Converse(b)
    BY DEF VotingPageNext
  <1>2. b \in Tabs  BY VotingTabsAssumption
  <1>3. looks \in [Tabs -> [LookKinds -> Told \cup {NoLook, Sent}]] /\ TalkInv
    BY DEF PagesInv, TalkInv, TalkTypeOK
  <1>4. isPractice' \in [VotingTabs -> BOOLEAN]
    BY <1>1 DEF Open, Submit, StartPractice, ExitPractice, FetchVotingEnds, Converse,
                votingPageVars, PagesInv
  <1>5. CASE Open(b)  BY <1>2, <1>3, <1>4, <1>5, OpenTabKeeps DEF Open, PagesInv
  <1>6. CASE Submit(b)
    <2>1. isPractice[b] \in BOOLEAN  BY DEF PagesInv
    <2> QED  BY <1>2, <1>3, <1>4, <1>6, <2>1, BeginKeeps DEF Submit, PagesInv
  <1>7. CASE StartPractice(b) \/ ExitPractice(b)
    BY <1>3, <1>4, <1>7, TalkStands DEF StartPractice, ExitPractice, boxVars, talkVars, PagesInv
  <1>8. CASE FetchVotingEnds(b)
    <2>1. looks' \in [Tabs -> [LookKinds -> Told \cup {NoLook, Sent}]]
      BY <1>2, <1>3, <1>8 DEF FetchVotingEnds
    <2> QED  BY <1>2, <1>3, <1>4, <1>8, <2>1, RefreshKeeps DEF FetchVotingEnds, PagesInv
  <1>9. CASE Converse(b)
    BY <1>2, <1>3, <1>4, <1>9, SignAnsweredKeeps, BallotTakenKeeps, BallotRefusedKeeps, GiveUpKeeps
    DEF Converse, PagesInv
  <1> QED  BY <1>1, <1>5, <1>6, <1>7, <1>8, <1>9

LEMMA SurveyPageKeeps ==
    ASSUME TalkInv, SurveyPageNext
    PROVE  TalkInv'
  <1>1. PICK b \in SurveyTabs :
           \/ OpenSurvey(b) \/ SubmitResponse(b) \/ PracticeSubmit(b)
           \/ FetchSurveyEnds(b) \/ MyStatusAnswered(b) \/ ConverseOnSurvey(b)
    BY DEF SurveyPageNext
  <1>2. b \in Tabs  BY SurveyTabsAssumption
  <1>3. looks \in [Tabs -> [LookKinds -> Told \cup {NoLook, Sent}]]
    BY DEF TalkInv, TalkTypeOK
  <1>4. CASE OpenSurvey(b)  BY <1>2, <1>4, OpenTabKeeps DEF OpenSurvey
  <1>5. CASE SubmitResponse(b) \/ PracticeSubmit(b)
    BY <1>2, <1>5, BeginKeeps DEF SubmitResponse, PracticeSubmit
  <1>6. CASE FetchSurveyEnds(b)
    <2>1. looks' \in [Tabs -> [LookKinds -> Told \cup {NoLook, Sent}]]
      BY <1>2, <1>3, <1>6 DEF FetchSurveyEnds
    <2>2. talk' = [talk EXCEPT ![b] = IF @.stage = "refresh" THEN Quiet ELSE @]
      BY <1>2, <1>6 DEF FetchSurveyEnds, TalkInv, TalkTypeOK
    <2> QED  BY <1>2, <1>6, <2>1, <2>2, RefreshKeeps DEF FetchSurveyEnds
  <1>7. CASE MyStatusAnswered(b)
    <2>1. looks' \in [Tabs -> [LookKinds -> Told \cup {NoLook, Sent}]]
      BY <1>2, <1>3, <1>7 DEF MyStatusAnswered
    <2> QED  BY <1>7, <2>1, TalkStands DEF MyStatusAnswered, boxVars
  <1>8. CASE ConverseOnSurvey(b)
    BY <1>2, <1>8, SignAnsweredKeeps, BallotTakenKeeps, BallotRefusedKeeps, GiveUpKeeps
    DEF ConverseOnSurvey
  <1> QED  BY <1>1, <1>4, <1>5, <1>6, <1>7, <1>8

\* Whatever is reloaded, given up, answered late or practised meanwhile, on any
\* number of pages and for any number of voters, the conversations keep apart.
THEOREM TalkInvariant == PollPagesSpec => []PagesInv
  <1>1. ASSUME PagesInv, [PollPagesNext]_pollPagesVars PROVE PagesInv'
    <2>1. CASE VotingPageNext  BY <1>1, <2>1, VotingPageKeeps
    <2>2. CASE SurveyPageNext /\ UNCHANGED votingPageVars
      BY <1>1, <2>2, SurveyPageKeeps DEF PagesInv, votingPageVars
    <2>3. CASE /\ \/ Serve
                  \/ \E b \in Tabs, k \in LookKinds : ServeLook(b, k)
                  \/ \E v \in Votings : SealPoll(v)
               /\ UNCHANGED <<votingPageVars, surveyPageVars>>
      BY <1>1, <2>3, ServeKeeps, ServerLooksKeep DEF PagesInv, votingPageVars
    <2>4. CASE UNCHANGED pollPagesVars
      <3>1. looks' \in [Tabs -> [LookKinds -> Told \cup {NoLook, Sent}]]
        BY <1>1, <2>4 DEF pollPagesVars, talkVars, PagesInv, TalkInv, TalkTypeOK
      <3> QED
        BY <1>1, <2>4, <3>1, TalkStands
        DEF pollPagesVars, boxVars, talkVars, votingPageVars, PagesInv
    <2> QED  BY <1>1, <2>1, <2>2, <2>3, <2>4 DEF PollPagesNext
  <1> QED  BY <1>1, PagesInitially, PTL DEF PollPagesSpec

\* The types of the conversation.
THEOREM TalkTypes == PollPagesSpec => []TalkTypeOK
  <1>1. PagesInv => TalkTypeOK  BY DEF PagesInv, TalkInv
  <1> QED  BY <1>1, TalkInvariant, PTL

\* What was meant is what is stored.
THEOREM MeantIsStored == PollPagesSpec => []StoredAsMeant
  <1>1. ASSUME PagesInv PROVE StoredAsMeant
    <2>1. ASSUME NEW b \in Tabs, ended[b].token # NoToken
          PROVE  Stored(ended[b].token) <=> ~ended[b].practice
      <3>1. ended[b].token \in Tokens /\ ended[b].practice \in BOOLEAN
        BY <1>1, <2>1 DEF PagesInv, TalkInv, TalkTypeOK
      <3>2. ended[b].practice \/ Stored(ended[b].token)
        BY <1>1, <2>1 DEF PagesInv, TalkInv, Truthful
      <3>3. ended[b].practice => Drill(ended[b].token)  BY DEF Drill
      <3>4. Stored(ended[b].token) => Real(ended[b].token)  BY DEF Real
      <3>5. ~(Real(ended[b].token) /\ Drill(ended[b].token))
        BY <1>1, <3>1 DEF PagesInv, TalkInv, Purposes
      <3> QED  BY <3>1, <3>2, <3>3, <3>4, <3>5
    <2> QED  BY <1>1, <2>1 DEF StoredAsMeant, PagesInv, TalkInv, Belongs
  <1> QED  BY <1>1, TalkInvariant, PTL

\* A signature spent for nothing has its reason.
THEOREM LostBallotsExplained == PollPagesSpec => []LostBallotIsExplained
  <1>1. ASSUME PagesInv PROVE LostBallotIsExplained
    BY <1>1 DEF LostBallotIsExplained, PagesInv, TalkInv, Carried, Carries
  <1> QED  BY <1>1, TalkInvariant, PTL

\* The pages lead their conversations with the ballot box that VoteService
\* implements for clients like them (BallotBoxRefined, under FreshTokens): no reload, lost answer or practice run makes
\* them ask anything of it that it does not offer.
THEOREM PagesUseBallotBox == PollPagesSpec => BoxSpec
  <1>1. PollPagesInit => BoxInit  BY DEF PollPagesInit, TalkInit
  <1>2. ASSUME PagesInv, [PollPagesNext]_pollPagesVars PROVE [BoxNext]_boxVars
    <2>1. CASE Serve
      <3>1. PICK c \in calls : ServeSign(c) \/ ServeBallot(c) \/ Refuse(c)  BY <2>1 DEF Serve
      <3>2. c.poll \in Votings /\ c.token \in Tokens /\ Owner[c.token] \in Users
        BY <1>2, TabsAssumption DEF PagesInv, TalkInv, TalkTypeOK
      <3> QED  BY <3>1, <3>2 DEF ServeSign, ServeBallot, Refuse, BoxNext
    <2>2. ASSUME NEW v \in Votings, SealPoll(v) PROVE [BoxNext]_boxVars
      <3>1. Seal(v, {x \in box : x.voting = v})  BY <2>2 DEF SealPoll
      <3>2. {x \in box : x.voting = v} \in SUBSET box  OBVIOUS
      <3> QED  BY <3>1, <3>2 DEF BoxNext
    <2>3. ASSUME NEW b \in Tabs, NEW k \in LookKinds, ServeLook(b, k) PROVE UNCHANGED boxVars
      BY <2>3 DEF ServeLook
    <2>4. ASSUME NEW b,
                 \/ \E practice : Begin(b, practice)
                 \/ \E kinds : OpenTab(b, kinds)
                 \/ SignAnswered(b) \/ BallotTaken(b) \/ BallotRefused(b) \/ GiveUp(b)
          PROVE  UNCHANGED boxVars
      BY <2>4 DEF Begin, OpenTab, SignAnswered, BallotTaken, BallotRefused, GiveUp
    <2>5. VotingPageNext => UNCHANGED boxVars
      BY <2>4 DEF VotingPageNext, Open, Submit, StartPractice, ExitPractice, FetchVotingEnds, Converse
    <2>6. SurveyPageNext => UNCHANGED boxVars
      BY <2>4 DEF SurveyPageNext, OpenSurvey, SubmitResponse, PracticeSubmit, FetchSurveyEnds,
                  MyStatusAnswered, ConverseOnSurvey
    <2>7. UNCHANGED pollPagesVars => UNCHANGED boxVars  BY DEF pollPagesVars
    <2> QED  BY <1>2, <2>1, <2>2, <2>3, <2>5, <2>6, <2>7 DEF PollPagesNext
  <1> QED  BY <1>1, <1>2, TalkInvariant, PTL DEF PollPagesSpec, BoxSpec

-----------------------------------------------------------------------------
(* What the pages say of participation.                                    *)

\* Where an answer, a page or the end of a submission says that the visitor took
\* part, the visitor was struck off the roll; only a survey's page says so after
\* a practice run too.
AnswersTrue ==
    \A b \in Tabs, k \in LookKinds :
        looks[b][k] \in Told /\ looks[b][k] # NoLook /\ looks[b][k].voted => Seat(b) \in roll
EndsTrue ==
    \A b \in Tabs :
        /\ ended[b].token # NoToken => ended[b].practice \/ Seat(b) \in roll
        /\ talk[b].stage = "refresh" =>
              /\ talk[b].token # NoToken
              /\ ended[b] = [token |-> talk[b].token, practice |-> talk[b].practice]
VotingPagesTrue ==
    \A b \in VotingTabs : shown[b] # Unknown /\ shown[b].voted => Seat(b) \in roll
SurveyPagesTrue ==
    \A b \in SurveyTabs :
        /\ survey[b] # NoSurvey /\ survey[b].voted => Seat(b) \in roll
        /\ myStatus[b] # NoSurvey /\ myStatus[b].voted => Seat(b) \in roll \/ ended[b].practice
ViewsTyped ==
    /\ shown \in [VotingTabs -> Told \cup {Unknown}]
    /\ survey \in [SurveyTabs -> Told \cup {NoSurvey}]
    /\ myStatus \in [SurveyTabs -> Told \cup {NoSurvey}]

ShownInv == ViewsTyped /\ AnswersTrue /\ EndsTrue /\ VotingPagesTrue /\ SurveyPagesTrue

LEMMA ShownInitially == PollPagesInit => ShownInv
  <1> SUFFICES ASSUME PollPagesInit PROVE ShownInv  OBVIOUS
  <1> USE DEF PollPagesInit, TalkInit, VotingPageInit, SurveyPageInit
  <1>1. ViewsTyped /\ VotingPagesTrue /\ SurveyPagesTrue
    BY DEF ViewsTyped, VotingPagesTrue, SurveyPagesTrue
  <1>2. AnswersTrue  BY DEF AnswersTrue
  <1>3. EndsTrue  BY DEF EndsTrue, NoEnd, Quiet
  <1> QED  BY <1>1, <1>2, <1>3 DEF ShownInv

\* The back end only adds to the roll.
LEMMA ServedTrue ==
    ASSUME ShownInv, roll \subseteq roll',
           UNCHANGED <<talk, ended, looks, shown, survey, myStatus>>
    PROVE  ShownInv'
  BY DEF ShownInv, ViewsTyped, AnswersTrue, EndsTrue, VotingPagesTrue, SurveyPagesTrue, Seat

LEMMA ServeLookTrue ==
    ASSUME ShownInv, TalkInv, NEW b \in Tabs, NEW k \in LookKinds, ServeLook(b, k),
           UNCHANGED <<shown, survey, myStatus>>
    PROVE  ShownInv'
  <1>1. looks \in [Tabs -> [LookKinds -> Told \cup {NoLook, Sent}]]
    BY DEF TalkInv, TalkTypeOK
  <1>2. /\ UNCHANGED <<roll, talk, ended>>
        /\ looks' = [looks EXCEPT ![b][k] =
                        [voted |-> Seat(b) \in roll, final |-> sealed[PollOf[b]] # Unsealed]]
    BY DEF ServeLook, boxVars
  <1>3. AnswersTrue'
    BY <1>1, <1>2 DEF ShownInv, AnswersTrue, Seat
  <1> QED
    BY <1>2, <1>3 DEF ShownInv, ViewsTyped, EndsTrue, VotingPagesTrue, SurveyPagesTrue, Seat

\* A real conversation ends well where the ballot is in the box, and a ballot in
\* the box is on the roll.
LEMMA TalkStepsTrue ==
    ASSUME TalkInv, BoxRules, AnswersTrue, EndsTrue, NEW b \in Tabs,
           \/ \E practice \in BOOLEAN : Begin(b, practice)
           \/ \E kinds \in SUBSET LookKinds : OpenTab(b, kinds)
           \/ SignAnswered(b) \/ BallotTaken(b) \/ BallotRefused(b) \/ GiveUp(b)
    PROVE  AnswersTrue' /\ EndsTrue' /\ roll' = roll
  <1> USE DEF Seat
  <1>t. /\ looks \in [Tabs -> [LookKinds -> Told \cup {NoLook, Sent}]]
        /\ talk \in [Tabs -> [stage : Stages, token : Tokens \cup {NoToken}, practice : BOOLEAN]]
        /\ ended \in [Tabs -> [token : Tokens \cup {NoToken}, practice : BOOLEAN]]
    BY DEF TalkInv, TalkTypeOK
  <1>0. roll' = roll
    BY DEF Begin, OpenTab, SignAnswered, BallotTaken, BallotRefused, GiveUp, boxVars
  <1>1. ASSUME NEW practice \in BOOLEAN, Begin(b, practice) PROVE AnswersTrue' /\ EndsTrue'
    BY <1>0, <1>1, <1>t DEF Begin, AnswersTrue, EndsTrue
  <1>2. ASSUME NEW kinds \in SUBSET LookKinds, OpenTab(b, kinds) PROVE AnswersTrue' /\ EndsTrue'
    <2>1. AnswersTrue'
      BY <1>0, <1>2, <1>t, SentAssumption DEF OpenTab, AnswersTrue
    <2>2. EndsTrue'
      BY <1>0, <1>2, <1>t DEF OpenTab, EndsTrue, Quiet, NoEnd
    <2> QED  BY <2>1, <2>2
  <1>3. CASE SignAnswered(b)
    <2>1. \/ talk' = [talk EXCEPT ![b].stage = "submit"]
          \/ talk' = [talk EXCEPT ![b] = Quiet]
      BY <1>3 DEF SignAnswered
    <2>2. UNCHANGED <<looks, ended>>  BY <1>3 DEF SignAnswered
    <2> QED  BY <1>0, <1>t, <2>1, <2>2 DEF AnswersTrue, EndsTrue, Quiet
  <1>4. CASE BallotTaken(b)
    <2>1. AnswersTrue'
      BY <1>0, <1>4, <1>t, SentAssumption DEF BallotTaken, AnswersTrue, LookKinds
    <2>2. talk[b].practice \/ Seat(b) \in roll
      <3>1. Taken(talk[b].token)  BY <1>4 DEF BallotTaken
      <3>2. talk[b].practice \/ Paid(b, talk[b].token)
        BY <3>1 DEF Taken, Answer, TalkInv, Truthful
      <3>3. Owner[talk[b].token] = Visitor[b]
        BY <1>4 DEF BallotTaken, TalkInv, Belongs, Talking
      <3> QED  BY <3>2, <3>3 DEF Paid, BoxRules
    <2>3. talk[b].token # NoToken
      BY <1>4, NoTokenAssumption DEF BallotTaken, TalkInv, TalkTypeOK, Belongs, Talking
    <2>4. EndsTrue'
      BY <1>0, <1>4, <1>t, <2>2, <2>3 DEF BallotTaken, EndsTrue
    <2> QED  BY <1>0, <2>1, <2>4
  <1>5. CASE BallotRefused(b)
    BY <1>0, <1>5, <1>t DEF BallotRefused, AnswersTrue, EndsTrue, Quiet
  <1>6. CASE GiveUp(b)
    BY <1>0, <1>6, <1>t DEF GiveUp, AnswersTrue, EndsTrue, Quiet
  <1> QED  BY <1>0, <1>1, <1>2, <1>3, <1>4, <1>5, <1>6

LEMMA VotingPageTrue ==
    ASSUME ShownInv, PagesInv, BoxRules, VotingPageNext, UNCHANGED surveyPageVars
    PROVE  ShownInv'
  <1> USE DEF Seat
  <1>1. PICK b \in VotingTabs :
           \/ Open(b) \/ Submit(b) \/ StartPractice(b) \/ ExitPractice(b)
           \/ FetchVotingEnds(b) \/ Converse(b)
    BY DEF VotingPageNext
  <1>2. b \in Tabs /\ b \notin SurveyTabs  BY VotingTabsAssumption, TabsApartAssumption
  <1>t. /\ looks \in [Tabs -> [LookKinds -> Told \cup {NoLook, Sent}]]
        /\ talk \in [Tabs -> [stage : Stages, token : Tokens \cup {NoToken}, practice : BOOLEAN]]
        /\ ended \in [Tabs -> [token : Tokens \cup {NoToken}, practice : BOOLEAN]]
    BY DEF PagesInv, TalkInv, TalkTypeOK
  <1>3. CASE StartPractice(b) \/ ExitPractice(b)
    BY <1>3, ServedTrue
    DEF StartPractice, ExitPractice, boxVars, talkVars, surveyPageVars
  <1>4. CASE FetchVotingEnds(b)
    <2>1. UNCHANGED <<roll, ended, survey, myStatus>>
      BY <1>4 DEF FetchVotingEnds, boxVars, surveyPageVars
    <2>2. AnswersTrue'
      BY <1>2, <1>4, <1>t, <2>1 DEF FetchVotingEnds, ShownInv, AnswersTrue, LookKinds
    <2>3. EndsTrue'
      BY <1>2, <1>4, <1>t, <2>1 DEF FetchVotingEnds, ShownInv, EndsTrue, Quiet
    <2>4. looks[b].poll \in Told /\ looks[b].poll # NoLook /\ looks[b].poll.voted => Seat(b) \in roll
      BY <1>2 DEF ShownInv, AnswersTrue, LookKinds
    <2>5. VotingPagesTrue' /\ shown' \in [VotingTabs -> Told \cup {Unknown}]
      BY <1>4, <2>1, <2>4 DEF FetchVotingEnds, ShownInv, ViewsTyped, VotingPagesTrue
    <2> QED  BY <2>1, <2>2, <2>3, <2>5 DEF ShownInv, ViewsTyped, SurveyPagesTrue
  <1>5. CASE Open(b) \/ Submit(b) \/ Converse(b)
    <2>1. \/ \E practice \in BOOLEAN : Begin(b, practice)
          \/ \E kinds \in SUBSET LookKinds : OpenTab(b, kinds)
          \/ SignAnswered(b) \/ BallotTaken(b) \/ BallotRefused(b) \/ GiveUp(b)
      BY <1>5 DEF Open, Submit, Converse, PagesInv, LookKinds
    <2>2. AnswersTrue' /\ EndsTrue' /\ roll' = roll
      BY <1>2, <2>1, TalkStepsTrue DEF PagesInv, ShownInv
    <2>3. UNCHANGED <<survey, myStatus>>  BY DEF surveyPageVars
    <2>e. \/ ended' = ended
          \/ ended' = [ended EXCEPT ![b] = NoEnd]
          \/ ended' = [ended EXCEPT ![b] = [token |-> talk[b].token, practice |-> talk[b].practice]]
      BY <2>1 DEF Begin, OpenTab, SignAnswered, BallotTaken, BallotRefused, GiveUp
    <2>4. \A c \in SurveyTabs : ended'[c] = ended[c]
      BY <1>2, <1>t, <2>e, SurveyTabsAssumption
    <2>5. shown' = shown \/ shown' = [shown EXCEPT ![b] = Unknown]
      BY <1>5 DEF Open, Submit, Converse, votingPageVars
    <2>6. VotingPagesTrue' /\ ViewsTyped'
      BY <2>2, <2>3, <2>5 DEF ShownInv, VotingPagesTrue, ViewsTyped
    <2>7. SurveyPagesTrue'
      BY <2>2, <2>3, <2>4 DEF ShownInv, SurveyPagesTrue
    <2> QED  BY <2>2, <2>6, <2>7 DEF ShownInv
  <1> QED  BY <1>1, <1>3, <1>4, <1>5

LEMMA SurveyPageTrue ==
    ASSUME ShownInv, TalkInv, BoxRules, SurveyPageNext, UNCHANGED votingPageVars
    PROVE  ShownInv'
  <1> USE DEF Seat
  <1>1. PICK b \in SurveyTabs :
           \/ OpenSurvey(b) \/ SubmitResponse(b) \/ PracticeSubmit(b)
           \/ FetchSurveyEnds(b) \/ MyStatusAnswered(b) \/ ConverseOnSurvey(b)
    BY DEF SurveyPageNext
  <1>2. b \in Tabs  BY SurveyTabsAssumption
  <1>t. /\ looks \in [Tabs -> [LookKinds -> Told \cup {NoLook, Sent}]]
        /\ talk \in [Tabs -> [stage : Stages, token : Tokens \cup {NoToken}, practice : BOOLEAN]]
        /\ ended \in [Tabs -> [token : Tokens \cup {NoToken}, practice : BOOLEAN]]
    BY DEF TalkInv, TalkTypeOK
  <1>s. shown' = shown  BY DEF votingPageVars
  <1>a. \A k \in LookKinds :
           looks[b][k] \in Told /\ looks[b][k] # NoLook /\ looks[b][k].voted => Seat(b) \in roll
    BY <1>2 DEF ShownInv, AnswersTrue
  <1>3. CASE FetchSurveyEnds(b)
    <2>1. UNCHANGED <<roll, ended>>  BY <1>3 DEF FetchSurveyEnds, boxVars
    <2>2. AnswersTrue'
      BY <1>2, <1>3, <1>t, <2>1, SentAssumption DEF FetchSurveyEnds, ShownInv, AnswersTrue, LookKinds
    <2>3. EndsTrue'
      BY <1>2, <1>3, <1>t, <2>1 DEF FetchSurveyEnds, ShownInv, EndsTrue, Quiet
    <2>4. talk[b].stage = "refresh" => Seat(b) \in roll \/ ended[b].practice
      <3>1. /\ ended[b].token # NoToken => ended[b].practice \/ Seat(b) \in roll
            /\ talk[b].stage = "refresh" =>
                  /\ talk[b].token # NoToken
                  /\ ended[b] = [token |-> talk[b].token, practice |-> talk[b].practice]
        BY <1>2, Zenon DEF ShownInv, EndsTrue
      <3>2. [token |-> talk[b].token, practice |-> talk[b].practice].token = talk[b].token
        OBVIOUS
      <3> QED  BY <3>1, <3>2, Zenon
    <2>5. /\ survey' \in [SurveyTabs -> Told \cup {NoSurvey}]
          /\ \A c \in SurveyTabs : survey'[c] # NoSurvey /\ survey'[c].voted => Seat(c) \in roll
      BY <1>3, <1>a DEF FetchSurveyEnds, ShownInv, ViewsTyped, SurveyPagesTrue, LookKinds
    <2>6. [voted |-> TRUE, final |-> FALSE] \in Told  BY DEF Told
    <2>7. /\ myStatus' \in [SurveyTabs -> Told \cup {NoSurvey}]
          /\ \A c \in SurveyTabs :
                myStatus'[c] # NoSurvey /\ myStatus'[c].voted => Seat(c) \in roll \/ ended[c].practice
      BY <1>3, <2>4, <2>6 DEF FetchSurveyEnds, ShownInv, ViewsTyped, SurveyPagesTrue
    <2> QED
      BY <1>s, <2>1, <2>2, <2>3, <2>5, <2>7
      DEF ShownInv, ViewsTyped, VotingPagesTrue, SurveyPagesTrue
  <1>4. CASE MyStatusAnswered(b)
    <2>1. UNCHANGED <<roll, ended, talk, survey>>  BY <1>4 DEF MyStatusAnswered, boxVars
    <2>2. AnswersTrue' /\ EndsTrue'
      BY <1>2, <1>4, <1>t, <2>1 DEF MyStatusAnswered, ShownInv, AnswersTrue, EndsTrue, LookKinds
    <2>3. /\ myStatus' \in [SurveyTabs -> Told \cup {NoSurvey}]
          /\ \A c \in SurveyTabs :
                myStatus'[c] # NoSurvey /\ myStatus'[c].voted => Seat(c) \in roll \/ ended[c].practice
      BY <1>4, <1>a DEF MyStatusAnswered, ShownInv, ViewsTyped, SurveyPagesTrue, LookKinds
    <2> QED
      BY <1>s, <2>1, <2>2, <2>3 DEF ShownInv, ViewsTyped, VotingPagesTrue, SurveyPagesTrue
  <1>5. CASE \/ OpenSurvey(b) \/ SubmitResponse(b) \/ PracticeSubmit(b) \/ ConverseOnSurvey(b)
    <2>1. \/ \E practice \in BOOLEAN : Begin(b, practice)
          \/ \E kinds \in SUBSET LookKinds : OpenTab(b, kinds)
          \/ SignAnswered(b) \/ BallotTaken(b) \/ BallotRefused(b) \/ GiveUp(b)
      BY <1>5 DEF OpenSurvey, SubmitResponse, PracticeSubmit, ConverseOnSurvey
    <2>2. AnswersTrue' /\ EndsTrue' /\ roll' = roll
      BY <1>2, <2>1, TalkStepsTrue DEF ShownInv
    <2>3. VotingPagesTrue'  BY <1>s, <2>2 DEF ShownInv, VotingPagesTrue
    <2>4. CASE OpenSurvey(b)
      <3>1. \A c \in SurveyTabs \ {b} : ended'[c] = ended[c]
        BY <1>2, <1>t, <2>4, SurveyTabsAssumption DEF OpenSurvey, OpenTab
      <3> QED
        BY <1>s, <2>2, <2>3, <2>4, <3>1
        DEF OpenSurvey, ShownInv, ViewsTyped, SurveyPagesTrue
    <2>5. CASE ~OpenSurvey(b)
      <3>1. UNCHANGED <<survey, myStatus>>
        BY <1>5, <2>5 DEF SubmitResponse, PracticeSubmit, ConverseOnSurvey, surveyPageVars
      <3>2. ended' = ended \/ BallotTaken(b)
        BY <1>5, <2>5
        DEF SubmitResponse, PracticeSubmit, ConverseOnSurvey, Begin, SignAnswered, BallotRefused, GiveUp
      <3>3. BallotTaken(b) => /\ ended'[b].token # NoToken
                              /\ \A c \in SurveyTabs \ {b} : ended'[c] = ended[c]
        <4> SUFFICES ASSUME BallotTaken(b)
                     PROVE  /\ ended'[b].token # NoToken
                            /\ \A c \in SurveyTabs \ {b} : ended'[c] = ended[c]
          OBVIOUS
        <4>1. ended' = [ended EXCEPT ![b] = [token |-> talk[b].token, practice |-> talk[b].practice]]
          BY DEF BallotTaken
        <4>2. talk'[b].stage = "refresh" /\ talk'[b].token = talk[b].token
          BY <1>2, <1>t DEF BallotTaken
        <4>3. talk[b].token # NoToken  BY <1>2, <2>2, <4>2 DEF EndsTrue
        <4> QED  BY <1>2, <1>t, <4>1, <4>3, SurveyTabsAssumption
      <3>4. BallotTaken(b) => ended'[b].practice \/ Seat(b) \in roll
        BY <1>2, <2>2, <3>3 DEF EndsTrue
      <3> QED
        BY <1>s, <2>2, <2>3, <3>1, <3>2, <3>3, <3>4
        DEF ShownInv, ViewsTyped, SurveyPagesTrue
    <2> QED  BY <2>4, <2>5
  <1> QED  BY <1>1, <1>3, <1>4, <1>5

\* Of any number of pages of any number of visitors, reloaded, given up and
\* answered late, none shows a participation that is not on the roll.
THEOREM ShownInvariant == PollPagesSpec => []ShownInv
  <1>1. ASSUME ShownInv, PagesInv, BoxRules, [BoxNext]_boxVars, [PollPagesNext]_pollPagesVars
        PROVE  ShownInv'
    <2>1. roll \subseteq roll'  BY <1>1, BoxKeepsRules DEF NothingIsUndone
    <2>2. CASE VotingPageNext /\ UNCHANGED surveyPageVars  BY <1>1, <2>2, VotingPageTrue
    <2>3. CASE SurveyPageNext /\ UNCHANGED votingPageVars
      BY <1>1, <2>3, SurveyPageTrue DEF PagesInv
    <2>4. CASE Serve /\ UNCHANGED <<votingPageVars, surveyPageVars>>
      <3>1. UNCHANGED <<talk, ended, looks>>
        BY <2>4 DEF Serve, ServeSign, ServeBallot, Refuse
      <3> QED  BY <1>1, <2>1, <2>4, <3>1, ServedTrue DEF votingPageVars, surveyPageVars
    <2>5. CASE /\ \E b \in Tabs, k \in LookKinds : ServeLook(b, k)
               /\ UNCHANGED <<votingPageVars, surveyPageVars>>
      BY <1>1, <2>5, ServeLookTrue DEF PagesInv, votingPageVars, surveyPageVars
    <2>6. CASE /\ \E v \in Votings : SealPoll(v)
               /\ UNCHANGED <<votingPageVars, surveyPageVars>>
      BY <1>1, <2>1, <2>6, ServedTrue DEF SealPoll, talkVars, votingPageVars, surveyPageVars
    <2>7. CASE UNCHANGED pollPagesVars
      BY <1>1, <2>1, <2>7, ServedTrue
      DEF pollPagesVars, boxVars, talkVars, votingPageVars, surveyPageVars
    <2> QED  BY <1>1, <2>2, <2>3, <2>4, <2>5, <2>6, <2>7 DEF PollPagesNext
  <1> QED
    BY <1>1, ShownInitially, TalkInvariant, PagesUseBallotBox, BoxPromises, PTL
    DEF PollPagesSpec, BoxSpec

\* "Participation Confirmed" is true of the roll, on every page of a voting; a
\* survey's page shows a participation without one only after practising there.
ParticipationIsTrue ==
    /\ \A b \in VotingTabs : SaysRecorded(b) => Seat(b) \in roll
    /\ \A b \in SurveyTabs :
          Loaded(b) /\ HasParticipated(b) => Seat(b) \in roll \/ ended[b].practice

THEOREM ParticipationTrue == PollPagesSpec => []ParticipationIsTrue
  <1>1. ShownInv => ParticipationIsTrue
    BY DEF ShownInv, VotingPagesTrue, SurveyPagesTrue, ParticipationIsTrue, SaysRecorded, Visible,
           Loaded, HasParticipated
  <1> QED  BY <1>1, ShownInvariant, PTL

\* What remains of "Your vote has been securely recorded", which RecordedMeansStored
\* refutes: with nothing of the visitor's under way, it is false only for a
\* visitor who met a failure or left a page in the middle.
RecordedOrHitch ==
    \A b \in VotingTabs :
        SaysRecorded(b) /\ Settled(Seat(b)) => HasBallot(Seat(b)) \/ Seat(b) \in hitches

THEOREM RecordedHasReason == PollPagesSpec => []RecordedOrHitch
  <1>1. ASSUME ParticipationIsTrue, PagesInv PROVE RecordedOrHitch
    <2> SUFFICES ASSUME NEW b \in VotingTabs, SaysRecorded(b), Settled(Seat(b)),
                        Seat(b) \notin hitches
                 PROVE  HasBallot(Seat(b))
      BY DEF RecordedOrHitch
    <2>1. Seat(b) \in roll \ hitches  BY <1>1 DEF ParticipationIsTrue
    <2>2. \A a \in Tabs : Seat(a) = Seat(b) => ~Carries(a)
      BY DEF Settled, Carries
    <2> QED  BY <1>1, <2>1, <2>2 DEF PagesInv, TalkInv, Carried
  <1> QED  BY <1>1, ParticipationTrue, TalkInvariant, PTL

-----------------------------------------------------------------------------
(* The page of an audit chain.                                             *)

\* A fault is counted at the check it hits, and nowhere else.
LEMMA TroubleCounts ==
    ASSUME NEW c \in Checks, Trouble(c), trouble \in [Checks -> Nat]
    PROVE  /\ trouble' = [trouble EXCEPT ![c] = @ + 1]
           /\ trouble' \in [Checks -> Nat]
  <1>1. trouble' = [trouble EXCEPT ![c] = @ + 1]  BY DEF Trouble
  <1> QED  BY <1>1

-----------------------------------------------------------------------------
\* A verification is asked for once, and its job queued once, whatever page is
\* loaded anew: the document is there before the job, and no second request for
\* it starts while there is one.
OnePost ==
    /\ posts \subseteq Post
    /\ \A p, q \in posts : p.check = q.check => p = q
    /\ \A p \in posts : p.stage = "create" <=> doc[p.check] = NoReport
    /\ \A p \in posts : p.stage # "answer" => task[p.check].status = "absent"
    /\ \A c \in Checks : doc[c] = NoReport => task[c].status = "absent"

\* What the queue counts stays below its limits until it gives the job up.
WithinLimits(t) ==
    IF t.status = "failed"
    THEN t.attempts = Attempts \/ t.stalled = MaxStalled + 1
    ELSE t.attempts < Attempts /\ t.stalled <= MaxStalled

\* The worker is at an active job that is its own.
OneJob ==
    /\ doc \in [Checks -> Report] /\ task \in [Checks -> Task]
    /\ desk \in Desk /\ (desk.pc = "idle" <=> desk.check = NoCheck)
    /\ desk.pc # "idle" => task[desk.check].status = "active"
    /\ recent \in BOOLEAN /\ trouble \in [Checks -> Nat]
    /\ \A c \in Checks : WithinLimits(task[c])

\* A job active in no worker, and a verification about to be written off.
Orphaned(c) == task[c].status = "active" /\ desk.check # c
Written(c) == desk.check = c /\ desk.pc = "regret"

\* Every attempt and every stall of a check that is never throttled took a
\* fault; a throttled one is given up without a word only after one.
BlamedFor(c) ==
    IF c \in Full
    THEN trouble[c] = 0 =>
            /\ ~Orphaned(c) /\ task[c].stalled = 0
            /\ task[c].status = "failed" => doc[c].status \in Finals
    ELSE task[c].attempts + task[c].stalled + (IF Orphaned(c) \/ Written(c) THEN 1 ELSE 0)
            <= trouble[c]
Blamed == \A c \in Checks : BlamedFor(c)

\* What the page holds, and what it has on the way.
PageTypes ==
    /\ polls \subseteq [check : Checks, read : Report \cup {Unread}]
    /\ watched \in Checks \cup {NoCheck} /\ jobStatus \in Report
    /\ integrity \in Verdicts \cup {NoVerdict}
    /\ rescan \in Verdicts \cup {NoVerdict, Unread} /\ known \in BOOLEAN

CheckInv == OnePost /\ OneJob /\ Blamed

LEMMA CheckInitially == ExplorerInit => CheckInv
  <1> SUFFICES ASSUME ExplorerInit PROVE CheckInv  OBVIOUS
  <1> USE ExplorerAssumption
  <1>1. OnePost  BY DEF ExplorerInit, OnePost
  <1>2. OneJob  BY DEF ExplorerInit, OneJob, WithinLimits, NoReport, AtRest, Report, Task, Desk
  <1>3. Blamed  BY DEF ExplorerInit, Blamed, BlamedFor, Orphaned, Written, AtRest
  <1> QED  BY <1>1, <1>2, <1>3 DEF CheckInv

LEMMA PageTypesInitially == ExplorerInit => PageTypes
  BY DEF ExplorerInit, PageTypes, Report, NoReport

\* A step that leaves the documents, the queue and the worker alone, and at
\* most adds a fault, keeps what is blamed on the faults.
LEMMA FaultsOnlyAdd ==
    ASSUME OneJob, Blamed, UNCHANGED <<doc, task, desk>>, recent' \in BOOLEAN,
           trouble' \in [Checks -> Nat], \A c \in Checks : trouble[c] <= trouble'[c]
    PROVE  OneJob' /\ Blamed'
  <1> USE ExplorerAssumption
  <1>1. OneJob'  BY DEF OneJob
  <1>2. Blamed'
    <2> SUFFICES ASSUME NEW c \in Checks PROVE BlamedFor(c)'  BY DEF Blamed
    <2>1. /\ Orphaned(c)' = Orphaned(c) /\ Written(c)' = Written(c)
      BY DEF Orphaned, Written
    <2>2. /\ trouble[c] \in Nat /\ trouble'[c] \in Nat /\ trouble[c] <= trouble'[c]
          /\ task[c].attempts \in Nat /\ task[c].stalled \in Nat
      BY DEF OneJob, Task
    <2>3. trouble'[c] = 0 => trouble[c] = 0  BY <2>2
    <2> QED  BY <2>1, <2>2, <2>3 DEF Blamed, BlamedFor
  <1> QED  BY <1>1, <1>2

\* The same of the requests, where they stand as they did.
LEMMA PostsStand ==
    ASSUME OnePost, UNCHANGED posts,
           \A c \in Checks : doc'[c] = NoReport => doc[c] = NoReport,
           \A c \in Checks : doc[c] = NoReport => doc'[c] = NoReport,
           \A c \in Checks : task[c].status = "absent" => task'[c].status = "absent"
    PROVE  OnePost'
  BY DEF OnePost, Post

-----------------------------------------------------------------------------
(* startVerification.                                                      *)

LEMMA CreateCheckKeeps ==
    ASSUME CheckInv, NEW p \in posts, CreateCheck(p)
    PROVE  CheckInv'
  <1> USE ExplorerAssumption DEF CheckInv
  <1>1. /\ p \in Post /\ p.check \in Checks /\ p.stage = "create" /\ doc[p.check] = NoReport
        /\ task[p.check].status = "absent"
    BY DEF CreateCheck, OnePost, Post
  <1>2. /\ doc' = [doc EXCEPT ![p.check] = [status |-> "pending", result |-> NoVerdict]]
        /\ UNCHANGED <<task, desk, recent, trouble>>
    <2>1. doc' = [doc EXCEPT ![p.check] = [doc[p.check] EXCEPT !.status = "pending"]]
      BY DEF CreateCheck
    <2>2. [doc[p.check] EXCEPT !.status = "pending"] = [status |-> "pending", result |-> NoVerdict]
      BY <1>1 DEF NoReport
    <2> QED  BY <2>1, <2>2 DEF CreateCheck
  <1> DEFINE q == [p EXCEPT !.stage = "queue"]
  <1>3. posts' = (posts \ {p}) \cup {q} /\ q \in Post /\ q.check = p.check /\ q.stage = "queue"
    BY <1>1 DEF CreateCheck, Onward, Post
  <1>4. OnePost'
    <2>1. posts' \subseteq Post  BY <1>3 DEF OnePost
    <2> HIDE DEF q
    <2>2. \A x, y \in posts' : x.check = y.check => x = y
      <3> SUFFICES ASSUME NEW x \in posts', NEW y \in posts', x.check = y.check PROVE x = y
        OBVIOUS
      <3>1. \A z \in posts : z.check = p.check => z = p  BY DEF OnePost
      <3>2. \A w, z \in posts : w.check = z.check => w = z  BY DEF OnePost
      <3> QED  BY <3>1, <3>2, <1>3
    <2>3. \A x \in posts' : x.stage = "create" <=> doc'[x.check] = NoReport
      <3> SUFFICES ASSUME NEW x \in posts' PROVE x.stage = "create" <=> doc'[x.check] = NoReport
        OBVIOUS
      <3>1. CASE x = q
        <4>1. doc'[p.check] = [status |-> "pending", result |-> NoVerdict]
          BY <1>1, <1>2 DEF OneJob
        <4> QED  BY <4>1, <3>1, <1>3 DEF NoReport
      <3>2. CASE x \in posts /\ x # p
        <4>1. x.check # p.check /\ (x.stage = "create" <=> doc[x.check] = NoReport) /\ x.check \in Checks
          BY <3>2 DEF OnePost, Post
        <4> QED  BY <4>1, <1>2 DEF OneJob
      <3> QED  BY <3>1, <3>2, <1>3
    <2>4. \A x \in posts' : x.stage # "answer" => task'[x.check].status = "absent"
      BY <1>1, <1>2, <1>3 DEF OnePost
    <2>5. \A c \in Checks : doc'[c] = NoReport => task'[c].status = "absent"
      BY <1>1, <1>2 DEF OnePost, OneJob
    <2> QED  BY <2>1, <2>2, <2>3, <2>4, <2>5 DEF OnePost
  <1>5. OneJob'  BY <1>1, <1>2 DEF OneJob, Report
  <1>6. Blamed'
    <2>1. \A c \in Checks : Orphaned(c)' = Orphaned(c) /\ Written(c)' = Written(c)
      BY <1>2 DEF Orphaned, Written
    <2>2. \A c \in Checks : task[c].status = "failed" => doc'[c] = doc[c]
      BY <1>1, <1>2 DEF OneJob
    <2> QED  BY <1>2, <2>1, <2>2 DEF Blamed, BlamedFor
  <1> QED  BY <1>4, <1>5, <1>6

LEMMA QueueCheckKeeps ==
    ASSUME CheckInv, NEW p \in posts, QueueCheck(p)
    PROVE  CheckInv'
  <1> USE ExplorerAssumption DEF CheckInv
  <1>1. /\ p \in Post /\ p.check \in Checks /\ p.stage = "queue"
        /\ task[p.check].status = "absent" /\ doc[p.check] \in Report
    BY DEF QueueCheck, OnePost, OneJob, Post
  <1>2. UNCHANGED <<doc, desk, recent>>  BY DEF QueueCheck
  <1>3. \A x \in posts' : (x \in posts /\ x # p) \/ x = [p EXCEPT !.stage = "answer"]
    BY DEF QueueCheck, Onward
  <1>4. CASE task' = [task EXCEPT ![p.check].status = "waiting"] /\ UNCHANGED trouble
    <2>1. OnePost'
      <3>1. /\ posts' \subseteq Post
            /\ \A x, y \in posts' : x.check = y.check => x = y
            /\ \A x \in posts' : x.stage = "create" <=> doc'[x.check] = NoReport
        BY <1>1, <1>2, <1>3 DEF OnePost, Post
      <3>2. \A x \in posts' : x.stage # "answer" => task'[x.check].status = "absent"
        <4> SUFFICES ASSUME NEW x \in posts', x.stage # "answer"
                     PROVE  task'[x.check].status = "absent"
          OBVIOUS
        <4>1. x \in posts /\ x # p  BY <1>1, <1>3 DEF Post
        <4>2. x.check \in Checks /\ x.check # p.check /\ task[x.check].status = "absent"
          BY <4>1 DEF OnePost, Post
        <4> QED  BY <4>2, <1>4 DEF OneJob
      <3>3. \A c \in Checks : doc'[c] = NoReport => task'[c].status = "absent"
        <4>1. doc[p.check] # NoReport  BY <1>1 DEF OnePost
        <4> QED  BY <4>1, <1>2, <1>4 DEF OnePost, OneJob
      <3> QED  BY <3>1, <3>2, <3>3 DEF OnePost
    <2>2. OneJob'  BY <1>1, <1>2, <1>4 DEF OneJob, WithinLimits, Task
    <2>3. Blamed'
      <3>1. desk.check # p.check  BY <1>1 DEF OneJob, Desk
      <3>2. \A c \in Checks : Orphaned(c)' => Orphaned(c)
        BY <1>2, <1>4 DEF Orphaned, OneJob
      <3>3. \A c \in Checks : Written(c)' = Written(c)  BY <1>2 DEF Written
      <3>4. \A c \in Checks : /\ task'[c].attempts = task[c].attempts
                              /\ task'[c].stalled = task[c].stalled
                              /\ task'[c].status = "failed" => task[c].status = "failed"
        BY <1>4 DEF OneJob, Task
      <3>5. \A c \in Checks : task[c].attempts \in Nat /\ task[c].stalled \in Nat /\ trouble[c] \in Nat
        BY DEF OneJob, Task
      <3> QED  BY <1>2, <1>4, <3>2, <3>3, <3>4, <3>5 DEF Blamed, BlamedFor
    <2> QED  BY <2>1, <2>2, <2>3
  <1>5. CASE Trouble(p.check) /\ UNCHANGED task
    <2>1. /\ trouble' \in [Checks -> Nat]
          /\ \A c \in Checks : trouble[c] <= trouble'[c]
      BY <1>1, <1>5, TroubleCounts DEF OneJob
    <2>2. OneJob' /\ Blamed'  BY <2>1, <1>2, <1>5, FaultsOnlyAdd DEF OneJob
    <2>3. OnePost'  BY <1>1, <1>2, <1>3, <1>5 DEF OnePost, Post
    <2> QED  BY <2>2, <2>3
  <1> QED  BY <1>4, <1>5 DEF QueueCheck

-----------------------------------------------------------------------------
(* The queue and its worker.                                               *)

\* A step at one check that is in the queue: what has to be seen is what it
\* makes of that check, and that it moves the worker at no other.
LEMMA JobMoves ==
    ASSUME CheckInv, NEW c \in Checks, NEW r \in Report, NEW t \in Task,
           doc' = [doc EXCEPT ![c] = r], task' = [task EXCEPT ![c] = t], UNCHANGED posts,
           task[c].status # "absent", t.status # "absent", r # NoReport,
           desk' \in Desk, desk'.pc = "idle" <=> desk'.check = NoCheck,
           desk'.pc # "idle" => task'[desk'.check].status = "active",
           \A d \in Checks \ {c} : (Orphaned(d)' => Orphaned(d)) /\ (Written(d)' => Written(d)),
           recent' \in BOOLEAN, trouble' \in [Checks -> Nat],
           \A d \in Checks : trouble[d] <= trouble'[d],
           WithinLimits(t),
           BlamedFor(c)'
    PROVE  CheckInv'
  <1> USE ExplorerAssumption DEF CheckInv
  <1>1. /\ doc' \in [Checks -> Report] /\ doc'[c] = r
        /\ task' \in [Checks -> Task] /\ task'[c] = t
        /\ \A d \in Checks \ {c} : doc'[d] = doc[d] /\ task'[d] = task[d]
    BY DEF OneJob
  <1>2. OnePost'
    <2>1. doc[c] # NoReport  BY DEF OnePost
    <2>2. \A d \in Checks : doc'[d] = NoReport <=> doc[d] = NoReport  BY <1>1, <2>1
    <2>3. \A d \in Checks : task[d].status = "absent" <=> task'[d].status = "absent"  BY <1>1
    <2> QED  BY <2>2, <2>3, PostsStand
  <1>3. OneJob'  BY <1>1 DEF OneJob
  <1>4. Blamed'
    <2> SUFFICES ASSUME NEW d \in Checks, d # c PROVE BlamedFor(d)'  BY DEF Blamed
    <2>1. /\ doc'[d] = doc[d] /\ task'[d] = task[d]
          /\ (Orphaned(d)' => Orphaned(d)) /\ (Written(d)' => Written(d))
      BY <1>1
    <2>2. /\ trouble[d] \in Nat /\ trouble'[d] \in Nat /\ trouble[d] <= trouble'[d]
          /\ task[d].attempts \in Nat /\ task[d].stalled \in Nat
      <3>1. task[d] \in Task /\ trouble[d] \in Nat  BY DEF OneJob
      <3>2. task[d].attempts \in Nat /\ task[d].stalled \in Nat  BY <3>1 DEF Task
      <3> QED  BY <3>1, <3>2
    <2>3. BlamedFor(d)  BY DEF Blamed
    <2>4. CASE d \in Full
      <3>1. trouble'[d] = 0 => trouble[d] = 0  BY <2>2
      <3> QED  BY <2>1, <2>3, <2>4, <3>1 DEF BlamedFor
    <2>5. CASE d \notin Full
      <3>1. task[d].attempts + task[d].stalled + (IF Orphaned(d) \/ Written(d) THEN 1 ELSE 0) <= trouble[d]
        BY <2>3, <2>5 DEF BlamedFor
      <3>2. task[d].attempts + task[d].stalled + (IF Orphaned(d)' \/ Written(d)' THEN 1 ELSE 0) <= trouble'[d]
        BY <3>1, <2>1, <2>2
      <3> QED  BY <2>1, <2>5, <3>2 DEF BlamedFor
    <2> QED  BY <2>4, <2>5
  <1> QED  BY <1>2, <1>3, <1>4

LEMMA TakeCheckKeeps ==
    ASSUME CheckInv, NEW c \in Checks, TakeCheck(c)
    PROVE  CheckInv'
  <1> USE ExplorerAssumption
  <1> DEFINE t == [task[c] EXCEPT !.status = "active"]
  <1>1. /\ task[c] \in Task /\ doc[c] \in Report /\ task[c].status = "waiting"
        /\ task[c].attempts < Attempts /\ task[c].stalled <= MaxStalled
        /\ trouble[c] \in Nat
    BY DEF CheckInv, OneJob, WithinLimits, TakeCheck
  <1>2. /\ t \in Task /\ t.status = "active" /\ t.attempts = task[c].attempts
        /\ t.stalled = task[c].stalled /\ WithinLimits(t)
    BY <1>1 DEF Task, WithinLimits
  <1>3. /\ task' = [task EXCEPT ![c] = t] /\ task'[c] = t
        /\ doc' = [doc EXCEPT ![c] = doc[c]] /\ doc'[c] = doc[c]
        /\ UNCHANGED <<posts, recent, trouble>>
    BY DEF TakeCheck, CheckInv, OneJob, pageVars
  <1>4. desk' = [pc |-> "announce", check |-> c, found |-> NoVerdict] /\ desk.check = NoCheck
    BY DEF TakeCheck, AtRest, CheckInv, OneJob
  <1>5. doc[c] # NoReport  BY <1>1 DEF CheckInv, OnePost
  <1>6. desk' \in Desk /\ desk'.pc # "idle" /\ desk'.check # NoCheck  BY <1>4 DEF Desk
  <1>7. \A d \in Checks \ {c} : (Orphaned(d)' => Orphaned(d)) /\ (Written(d)' => Written(d))
    BY <1>3, <1>4 DEF Orphaned, Written, CheckInv, OneJob
  <1>8. BlamedFor(c)'
    <2>1. ~Orphaned(c)' /\ ~Written(c)'  BY <1>4 DEF Orphaned, Written
    <2>2. ~Orphaned(c) /\ ~Written(c)  BY <1>1, <1>4 DEF Orphaned, Written
    <2>3. BlamedFor(c)  BY DEF CheckInv, Blamed
    <2> HIDE DEF t
    <2> QED  BY <1>1, <1>2, <1>3, <2>1, <2>2, <2>3 DEF BlamedFor
  <1>9. /\ recent' \in BOOLEAN /\ trouble' \in [Checks -> Nat]
        /\ \A d \in Checks : trouble[d] <= trouble'[d]
    BY <1>3 DEF CheckInv, OneJob
  <1> HIDE DEF t
  <1> QED  BY <1>1, <1>2, <1>3, <1>4, <1>5, <1>6, <1>7, <1>8, <1>9, JobMoves

\* What is known of the check the worker is at.
LEMMA AtWork ==
    ASSUME CheckInv, desk.pc # "idle"
    PROVE  /\ desk.check \in Checks /\ desk.check # NoCheck
           /\ task[desk.check] \in Task /\ doc[desk.check] \in Report
           /\ task[desk.check].status = "active" /\ doc[desk.check] # NoReport
           /\ task[desk.check].attempts \in Nat /\ task[desk.check].attempts < Attempts
           /\ task[desk.check].stalled \in Nat /\ task[desk.check].stalled <= MaxStalled
           /\ trouble[desk.check] \in Nat /\ ~Orphaned(desk.check)
           /\ BlamedFor(desk.check) /\ WithinLimits(task[desk.check])
  <1> USE ExplorerAssumption
  <1>1. desk.check \in Checks /\ desk.check # NoCheck  BY DEF CheckInv, OneJob, Desk
  <1>2. /\ task[desk.check] \in Task /\ doc[desk.check] \in Report
        /\ task[desk.check].status = "active" /\ trouble[desk.check] \in Nat
        /\ task[desk.check].attempts < Attempts /\ task[desk.check].stalled <= MaxStalled
        /\ WithinLimits(task[desk.check])
    BY <1>1 DEF CheckInv, OneJob, WithinLimits
  <1>3. task[desk.check].attempts \in Nat /\ task[desk.check].stalled \in Nat
    BY <1>2 DEF Task
  <1>4. doc[desk.check] # NoReport  BY <1>1, <1>2 DEF CheckInv, OnePost
  <1>5. ~Orphaned(desk.check)  BY DEF Orphaned
  <1>6. BlamedFor(desk.check)  BY <1>1 DEF CheckInv, Blamed
  <1> QED  BY <1>1, <1>2, <1>3, <1>4, <1>5, <1>6

\* A step of the worker at its check c: it stays there, its job as it was and
\* perhaps a new document, or leaves it.
LEMMA WorkMoves ==
    ASSUME CheckInv, desk.pc # "idle", NEW c, c = desk.check,
           NEW r \in Report, NEW t \in Task,
           doc' = [doc EXCEPT ![c] = r], task' = [task EXCEPT ![c] = t], UNCHANGED posts,
           t.status # "absent", r # NoReport,
           desk' = AtRest \/ (desk' \in Desk /\ desk'.pc # "idle" /\ desk'.check = c /\ t = task[c]),
           recent' \in BOOLEAN, trouble' \in [Checks -> Nat],
           \A d \in Checks : trouble[d] <= trouble'[d],
           WithinLimits(t),
           BlamedFor(c)'
    PROVE  CheckInv'
  <1> USE ExplorerAssumption
  <1>1. /\ c \in Checks /\ c # NoCheck /\ task[c].status = "active"  BY AtWork
  <1>2. /\ desk' \in Desk /\ (desk'.pc = "idle" <=> desk'.check = NoCheck)
        /\ desk'.check \in {c, NoCheck}
    BY <1>1 DEF AtRest, Desk
  <1>3. task'[c] = t /\ \A d \in Checks \ {c} : task'[d] = task[d]
    BY <1>1 DEF CheckInv, OneJob
  <1>4. desk'.pc # "idle" => task'[desk'.check].status = "active"
    BY <1>1, <1>2, <1>3 DEF AtRest
  <1>5. \A d \in Checks \ {c} : (Orphaned(d)' => Orphaned(d)) /\ (Written(d)' => Written(d))
    BY <1>2, <1>3 DEF Orphaned, Written
  <1> QED  BY <1>1, <1>2, <1>4, <1>5, JobMoves

\* An attempt that fails is counted; the job waits, or is given up.
LEMMA FailCounts ==
    ASSUME CheckInv, desk.pc # "idle", NEW c, c = desk.check, Fail(c)
    PROVE  \E t \in Task :
              /\ task' = [task EXCEPT ![c] = t] /\ task'[c] = t
              /\ t.attempts = task[c].attempts + 1 /\ t.stalled = task[c].stalled
              /\ t.status \in {"waiting", "failed"} /\ desk' = AtRest
              /\ WithinLimits(t)
  <1> USE ExplorerAssumption
  <1> DEFINE u == [task[c] EXCEPT !.attempts = task[c].attempts + 1]
             t == [u EXCEPT !.status = IF task[c].attempts + 1 < Attempts THEN "waiting" ELSE "failed"]
  <1>1. /\ c \in Checks /\ task[c] \in Task
        /\ task[c].attempts \in Nat /\ task[c].attempts < Attempts
        /\ task[c].stalled \in Nat /\ task[c].stalled <= MaxStalled
    BY AtWork
  <1>2. /\ t \in Task /\ t.attempts = task[c].attempts + 1 /\ t.stalled = task[c].stalled
        /\ t.status = IF task[c].attempts + 1 < Attempts THEN "waiting" ELSE "failed"
    <2>1. /\ u \in Task /\ u.attempts = task[c].attempts + 1 /\ u.stalled = task[c].stalled
      BY <1>1 DEF Task
    <2> HIDE DEF u
    <2> QED  BY <2>1 DEF Task
  <1>3. task' = [task EXCEPT ![c] = t] /\ task'[c] = t
    BY <1>1 DEF Fail, CheckInv, OneJob
  <1> HIDE DEF t, u
  <1>4. WithinLimits(t)  BY <1>1, <1>2 DEF WithinLimits
  <1>5. t.status \in {"waiting", "failed"} /\ desk' = AtRest  BY <1>2 DEF Fail
  <1> QED  BY <1>2, <1>3, <1>4, <1>5

LEMMA AnnounceKeeps ==
    ASSUME CheckInv, Announce
    PROVE  CheckInv'
  <1> USE ExplorerAssumption
  <1>1. desk.pc = "announce"  BY DEF Announce
  <1>2. PICK c : c = desk.check  OBVIOUS
  <1>3. /\ c \in Checks /\ c # NoCheck /\ task[c] \in Task /\ doc[c] \in Report
        /\ task[c].status = "active" /\ doc[c] # NoReport
        /\ task[c].attempts \in Nat /\ task[c].attempts < Attempts
        /\ task[c].stalled \in Nat /\ task[c].stalled <= MaxStalled
        /\ trouble[c] \in Nat /\ ~Orphaned(c) /\ ~Written(c) /\ BlamedFor(c)
        /\ WithinLimits(task[c])
    BY <1>1, <1>2, AtWork DEF Written
  <1>4. UNCHANGED <<posts, recent>> /\ recent \in BOOLEAN
    BY DEF Announce, pageVars, CheckInv, OneJob
  <1>5. CASE /\ doc' = [doc EXCEPT ![c].status = "processing"]
             /\ desk' = [desk EXCEPT !.pc = "verify"]
             /\ UNCHANGED <<task, trouble>>
    <2> DEFINE r == [doc[c] EXCEPT !.status = "processing"]
    <2>1. /\ r \in Report /\ r # NoReport /\ r.status = "processing"
      BY <1>3 DEF Report, NoReport
    <2>2. /\ doc' = [doc EXCEPT ![c] = r] /\ task' = [task EXCEPT ![c] = task[c]]
          /\ task'[c] = task[c]
      BY <1>5 DEF CheckInv, OneJob
    <2>3. desk' \in Desk /\ desk'.pc = "verify" /\ desk'.check = c
      BY <1>2, <1>5 DEF CheckInv, OneJob, Desk
    <2>4. /\ recent' \in BOOLEAN /\ trouble' \in [Checks -> Nat]
          /\ \A d \in Checks : trouble[d] <= trouble'[d]
      BY <1>4, <1>5 DEF CheckInv, OneJob
    <2>5. BlamedFor(c)'
      <3>1. ~Orphaned(c)' /\ ~Written(c)'  BY <2>3 DEF Orphaned, Written
      <3>2. c \notin Full => task[c].attempts + task[c].stalled <= trouble[c]
        BY <1>3 DEF BlamedFor
      <3>3. c \in Full /\ trouble[c] = 0 => task[c].stalled = 0
        BY <1>3 DEF BlamedFor
      <3> QED  BY <3>1, <3>2, <3>3, <1>3, <1>5, <2>2 DEF BlamedFor
    <2>6. task[c].status # "absent" /\ WithinLimits(task[c]) /\ desk.pc # "idle" /\ desk'.pc # "idle"
      BY <1>1, <1>3, <2>3
    <2> HIDE DEF r
    <2> QED  BY <1>2, <1>3, <1>4, <2>1, <2>2, <2>3, <2>4, <2>5, <2>6, WorkMoves
  <1>6. CASE Trouble(c) /\ Fail(c) /\ UNCHANGED doc
    <2>1. PICK t \in Task :
              /\ task' = [task EXCEPT ![c] = t] /\ task'[c] = t
              /\ t.attempts = task[c].attempts + 1 /\ t.stalled = task[c].stalled
              /\ t.status \in {"waiting", "failed"} /\ desk' = AtRest
              /\ WithinLimits(t)
      BY <1>1, <1>2, <1>6, FailCounts
    <2>2. /\ trouble' \in [Checks -> Nat] /\ trouble'[c] = trouble[c] + 1
          /\ \A d \in Checks : trouble[d] <= trouble'[d]
      BY <1>3, <1>6, TroubleCounts DEF CheckInv, OneJob
    <2>3. doc' = [doc EXCEPT ![c] = doc[c]]  BY <1>6 DEF CheckInv, OneJob
    <2>4. BlamedFor(c)'
      <3>1. ~Orphaned(c)' /\ ~Written(c)'  BY <1>3, <2>1 DEF Orphaned, Written, AtRest
      <3>2. c \notin Full => task[c].attempts + task[c].stalled <= trouble[c]
        BY <1>3 DEF BlamedFor
      <3>3. c \notin Full => task'[c].attempts + task'[c].stalled <= trouble'[c]
        BY <3>2, <2>1, <2>2, <1>3
      <3>4. trouble'[c] # 0  BY <1>3, <2>2
      <3>5. task'[c].attempts + task'[c].stalled \in Nat  BY <1>3, <2>1
      <3> QED  BY <3>1, <3>3, <3>4, <3>5 DEF BlamedFor
    <2>5. t.status # "absent"  BY <2>1
    <2>6. /\ doc' = [doc EXCEPT ![c] = doc[c]] /\ task' = [task EXCEPT ![c] = t] /\ UNCHANGED posts
          /\ t \in Task /\ t.status # "absent" /\ doc[c] \in Report /\ doc[c] # NoReport
          /\ desk' = AtRest
      BY <1>3, <1>4, <2>1, <2>3, <2>5
    <2>7. WithinLimits(t)
      BY <1>3, <1>4, <2>1, <2>3, <2>5
    <2> QED  BY <1>1, <1>2, <1>4, <2>1, <2>2, <2>4, <2>6, <2>7, WorkMoves
  <1> QED  BY <1>2, <1>5, <1>6 DEF Announce

\* The steps that leave the document and the job alone: the verification, and
\* the report or the worker that fails.
LEMMA WorkerOnly ==
    ASSUME CheckInv, desk.pc # "idle", NEW c, c = desk.check,
           UNCHANGED <<doc, task, posts>>, recent' \in BOOLEAN,
           desk' = AtRest \/ (desk' \in Desk /\ desk'.pc # "idle" /\ desk'.check = c),
           trouble' \in [Checks -> Nat], \A d \in Checks : trouble[d] <= trouble'[d],
           desk' = AtRest => Trouble(c),
           desk'.pc = "regret" => c \in Full \/ Trouble(c)
    PROVE  CheckInv'
  <1> USE ExplorerAssumption
  <1>1. /\ c \in Checks /\ c # NoCheck /\ task[c] \in Task /\ doc[c] \in Report
        /\ task[c].status = "active" /\ doc[c] # NoReport
        /\ task[c].attempts \in Nat /\ task[c].attempts < Attempts
        /\ task[c].stalled \in Nat /\ task[c].stalled <= MaxStalled
        /\ trouble[c] \in Nat /\ ~Orphaned(c) /\ BlamedFor(c)
        /\ WithinLimits(task[c])
    BY AtWork
  <1>2. /\ doc' = [doc EXCEPT ![c] = doc[c]] /\ task' = [task EXCEPT ![c] = task[c]]
    BY DEF CheckInv, OneJob
  <1>3. Trouble(c) => trouble'[c] = trouble[c] + 1
    BY <1>1, TroubleCounts DEF CheckInv, OneJob
  <1>4. BlamedFor(c)'
    <2>1. trouble[c] <= trouble'[c] /\ trouble'[c] \in Nat  BY <1>1
    <2>2. Orphaned(c)' => Trouble(c)  BY <1>1 DEF Orphaned
    <2>3. Written(c)' /\ c \notin Full => Trouble(c)  BY DEF Written
    <2>4. CASE c \in Full
      <3>1. trouble'[c] = 0 => ~Trouble(c) /\ trouble[c] = 0  BY <1>1, <1>3, <2>1
      <3>2. trouble'[c] = 0 => ~Orphaned(c)' /\ task'[c].stalled = 0
        BY <1>1, <2>2, <2>4, <3>1 DEF BlamedFor
      <3> QED  BY <1>1, <2>4, <3>2 DEF BlamedFor
    <2>5. CASE c \notin Full
      <3>1. task[c].attempts + task[c].stalled <= trouble[c]  BY <1>1, <2>5 DEF BlamedFor
      <3>2. task[c].attempts + task[c].stalled
              + (IF Orphaned(c)' \/ Written(c)' THEN 1 ELSE 0) <= trouble'[c]
        <4>1. CASE Orphaned(c)' \/ Written(c)'  BY <4>1, <3>1, <1>1, <1>3, <2>2, <2>3, <2>5
        <4>2. CASE ~(Orphaned(c)' \/ Written(c)')  BY <4>2, <3>1, <2>1, <1>1
        <4> QED  BY <4>1, <4>2
      <3> QED  BY <2>5, <3>2 DEF BlamedFor
    <2> QED  BY <2>4, <2>5
  <1>5. task[c].status # "absent" /\ WithinLimits(task[c])  BY <1>1
  <1> QED  BY <1>1, <1>2, <1>4, <1>5, WorkMoves

LEMMA VerifyKeeps ==
    ASSUME CheckInv, Verify
    PROVE  CheckInv'
  <1> USE ExplorerAssumption
  <1>1. desk.pc = "verify" /\ desk.pc # "idle"  BY DEF Verify
  <1>2. PICK c : c = desk.check  OBVIOUS
  <1>3. c \in Checks /\ desk \in Desk  BY <1>1, <1>2, AtWork DEF CheckInv, OneJob
  <1>4. UNCHANGED <<doc, task, posts>>  BY DEF Verify, pageVars
  <1>5. CASE /\ \E v \in Verdicts :
                   /\ desk' = [desk EXCEPT !.pc = "report", !.found = v]
                   /\ recent' = (recent \/ (desk.check \in Full /\ v = "valid"))
             /\ UNCHANGED trouble
    <2>1. PICK v \in Verdicts :
             /\ desk' = [desk EXCEPT !.pc = "report", !.found = v]
             /\ recent' = (recent \/ (desk.check \in Full /\ v = "valid"))
      BY <1>5
    <2>2. desk' \in Desk /\ desk'.pc = "report" /\ desk'.check = c
      BY <1>2, <1>3, <2>1 DEF Desk
    <2>3. recent' \in BOOLEAN  BY <2>1
    <2>4. trouble' \in [Checks -> Nat] /\ \A d \in Checks : trouble[d] <= trouble'[d]
      BY <1>5 DEF CheckInv, OneJob
    <2>5. desk' # AtRest  BY <2>2 DEF AtRest
    <2> QED  BY <1>1, <1>2, <1>4, <2>2, <2>3, <2>4, <2>5, WorkerOnly
  <1>6. CASE /\ desk' = [desk EXCEPT !.pc = "regret"]
             /\ IF c \in Full /\ recent THEN UNCHANGED trouble ELSE Trouble(c)
             /\ UNCHANGED recent
    <2>1. desk' \in Desk /\ desk'.pc = "regret" /\ desk'.check = c
      BY <1>2, <1>3, <1>6 DEF Desk
    <2>2. recent' \in BOOLEAN  BY <1>6 DEF CheckInv, OneJob
    <2>3. trouble' \in [Checks -> Nat] /\ \A d \in Checks : trouble[d] <= trouble'[d]
      <3>1. CASE UNCHANGED trouble  BY <3>1 DEF CheckInv, OneJob
      <3>2. CASE Trouble(c)  BY <3>2, <1>3, TroubleCounts DEF CheckInv, OneJob
      <3> QED  BY <1>6, <3>1, <3>2
    <2>4. desk' # AtRest  BY <2>1 DEF AtRest
    <2>5. c \in Full \/ Trouble(c)  BY <1>6
    <2> QED  BY <1>1, <1>2, <1>4, <2>1, <2>2, <2>3, <2>4, <2>5, WorkerOnly
  <1>7. desk.check = c  BY <1>2
  <1> QED  BY <1>5, <1>6, <1>7 DEF Verify

LEMMA ReportVerdictKeeps ==
    ASSUME CheckInv, ReportVerdict
    PROVE  CheckInv'
  <1> USE ExplorerAssumption
  <1>1. desk.pc = "report" /\ desk.pc # "idle"  BY DEF ReportVerdict
  <1>2. PICK c : c = desk.check  OBVIOUS
  <1>3. /\ c \in Checks /\ task[c].status = "active" /\ trouble[c] \in Nat /\ ~Orphaned(c)
        /\ task[c] \in Task /\ task[c].attempts \in Nat /\ task[c].stalled \in Nat
        /\ task[c].attempts < Attempts /\ task[c].stalled <= MaxStalled /\ BlamedFor(c)
        /\ WithinLimits(task[c])
    BY <1>1, <1>2, AtWork
  <1>4. /\ UNCHANGED <<task, recent, posts>> /\ recent' \in BOOLEAN /\ desk \in Desk
    BY DEF ReportVerdict, pageVars, CheckInv, OneJob
  <1>5. CASE /\ doc' = [doc EXCEPT ![c] = [status |-> "completed", result |-> desk.found]]
             /\ desk' = [desk EXCEPT !.pc = "ack"]
             /\ UNCHANGED trouble
    <2>1. PICK r : r = [status |-> "completed", result |-> desk.found]  OBVIOUS
    <2>2. r \in Report /\ r # NoReport  BY <1>4, <2>1 DEF Report, NoReport, Desk, Finals
    <2>3. /\ doc' = [doc EXCEPT ![c] = r] /\ task' = [task EXCEPT ![c] = task[c]]
      BY <1>4, <1>5, <2>1 DEF CheckInv, OneJob
    <2>4. desk' \in Desk /\ desk'.pc = "ack" /\ desk'.pc # "idle" /\ desk'.check = c
      BY <1>2, <1>4, <1>5 DEF Desk
    <2>5. trouble' \in [Checks -> Nat] /\ \A d \in Checks : trouble[d] <= trouble'[d]
      BY <1>5 DEF CheckInv, OneJob
    <2>6. BlamedFor(c)'
      <3>1. ~Orphaned(c)' /\ ~Written(c)'  BY <2>4 DEF Orphaned, Written
      <3>2. c \notin Full => task[c].attempts + task[c].stalled <= trouble[c]
        BY <1>3 DEF BlamedFor
      <3>3. c \in Full /\ trouble[c] = 0 => task[c].stalled = 0  BY <1>3 DEF BlamedFor
      <3> QED  BY <1>3, <1>4, <1>5, <3>1, <3>2, <3>3 DEF BlamedFor
    <2>7. task[c].status # "absent" /\ WithinLimits(task[c])  BY <1>3
    <2> QED  BY <1>1, <1>2, <1>3, <1>4, <2>2, <2>3, <2>4, <2>5, <2>6, <2>7, WorkMoves
  <1>6. CASE /\ Trouble(c) /\ desk' = [desk EXCEPT !.pc = "regret"] /\ UNCHANGED doc
    <2>1. desk' \in Desk /\ desk'.pc = "regret" /\ desk'.check = c /\ desk'.pc # "idle"
      BY <1>2, <1>4, <1>6 DEF Desk
    <2>2. trouble' \in [Checks -> Nat] /\ \A d \in Checks : trouble[d] <= trouble'[d]
      BY <1>3, <1>6, TroubleCounts DEF CheckInv, OneJob
    <2>3. desk' # AtRest  BY <2>1 DEF AtRest
    <2> QED  BY <1>1, <1>2, <1>4, <1>6, <2>1, <2>2, <2>3, WorkerOnly
  <1>7. desk.check = c  BY <1>2
  <1> QED  BY <1>5, <1>6, <1>7 DEF ReportVerdict

LEMMA RegretKeeps ==
    ASSUME CheckInv, Regret
    PROVE  CheckInv'
  <1> USE ExplorerAssumption
  <1>1. desk.pc = "regret" /\ desk.pc # "idle"  BY DEF Regret
  <1>2. PICK c : c = desk.check  OBVIOUS
  <1>3. /\ c \in Checks /\ task[c] \in Task /\ doc[c] \in Report /\ c # NoCheck
        /\ task[c].status = "active" /\ doc[c] # NoReport
        /\ task[c].attempts \in Nat /\ task[c].attempts < Attempts
        /\ task[c].stalled \in Nat /\ task[c].stalled <= MaxStalled
        /\ trouble[c] \in Nat /\ BlamedFor(c) /\ Written(c)
    BY <1>1, <1>2, AtWork DEF Written
  <1>4. UNCHANGED <<posts, recent>> /\ recent' \in BOOLEAN /\ Fail(c)
    BY <1>2 DEF Regret, pageVars, CheckInv, OneJob
  <1>5. PICK t \in Task :
            /\ task' = [task EXCEPT ![c] = t] /\ task'[c] = t
            /\ t.attempts = task[c].attempts + 1 /\ t.stalled = task[c].stalled
            /\ t.status \in {"waiting", "failed"} /\ desk' = AtRest
            /\ WithinLimits(t)
    BY <1>1, <1>2, <1>4, FailCounts
  <1>6. ~Orphaned(c)' /\ ~Written(c)'  BY <1>3, <1>5 DEF Orphaned, Written, AtRest
  <1>7. c \notin Full => task'[c].attempts + task'[c].stalled <= trouble[c]
    <2>1. c \notin Full => task[c].attempts + task[c].stalled + 1 <= trouble[c]
      BY <1>3 DEF BlamedFor
    <2> QED  BY <1>3, <1>5, <2>1
  <1>8. /\ c \in Full /\ trouble[c] = 0 => task'[c].stalled = 0
        /\ task'[c].attempts + task'[c].stalled \in Nat
        /\ t.status # "absent"
    BY <1>3, <1>5 DEF BlamedFor
  <1>9. CASE doc' = [doc EXCEPT ![c].status = "failed"] /\ UNCHANGED trouble
    <2> DEFINE r == [doc[c] EXCEPT !.status = "failed"]
    <2>1. /\ r \in Report /\ r # NoReport /\ r.status = "failed"
      BY <1>3 DEF Report, NoReport, Finals
    <2>2. doc' = [doc EXCEPT ![c] = r] /\ doc'[c] = r
      BY <1>3, <1>9 DEF CheckInv, OneJob
    <2>3. trouble' \in [Checks -> Nat] /\ \A d \in Checks : trouble[d] <= trouble'[d]
      BY <1>9 DEF CheckInv, OneJob
    <2> HIDE DEF r
    <2>4. doc'[c].status \in Finals  BY <2>1, <2>2 DEF Finals
    <2>5. BlamedFor(c)'  BY <1>6, <1>7, <1>8, <1>9, <2>4 DEF BlamedFor
    <2>6. /\ doc' = [doc EXCEPT ![c] = r] /\ task' = [task EXCEPT ![c] = t] /\ UNCHANGED posts
          /\ t \in Task /\ t.status # "absent" /\ r \in Report /\ r # NoReport
          /\ desk' = AtRest
      BY <1>3, <1>4, <1>5, <1>8, <2>1, <2>2
    <2>7. WithinLimits(t)
      BY <1>3, <1>4, <1>5, <1>8, <2>1, <2>2
    <2> QED  BY <1>1, <1>2, <1>4, <2>3, <2>5, <2>6, <2>7, WorkMoves
  <1>10. CASE Trouble(c) /\ UNCHANGED doc
    <2>1. /\ trouble' \in [Checks -> Nat] /\ trouble'[c] = trouble[c] + 1
          /\ \A d \in Checks : trouble[d] <= trouble'[d]
      BY <1>3, <1>10, TroubleCounts DEF CheckInv, OneJob
    <2>2. doc' = [doc EXCEPT ![c] = doc[c]]  BY <1>10 DEF CheckInv, OneJob
    <2>3. BlamedFor(c)'
      <3>1. trouble'[c] # 0 /\ trouble[c] <= trouble'[c] /\ trouble'[c] \in Nat  BY <1>3, <2>1
      <3>2. c \notin Full => task'[c].attempts + task'[c].stalled <= trouble'[c]
        BY <1>3, <1>7, <1>8, <3>1
      <3> QED  BY <1>6, <1>8, <3>1, <3>2 DEF BlamedFor
    <2>6. /\ doc' = [doc EXCEPT ![c] = doc[c]] /\ task' = [task EXCEPT ![c] = t] /\ UNCHANGED posts
          /\ t \in Task /\ t.status # "absent" /\ doc[c] \in Report /\ doc[c] # NoReport
          /\ desk' = AtRest
      BY <1>3, <1>4, <1>5, <1>8, <2>2
    <2>7. WithinLimits(t)
      BY <1>3, <1>4, <1>5, <1>8, <2>2
    <2> QED  BY <1>1, <1>2, <1>4, <2>1, <2>3, <2>6, <2>7, WorkMoves
  <1>11. desk.check = c  BY <1>2
  <1> QED  BY <1>9, <1>10, <1>11 DEF Regret

LEMMA AcknowledgeKeeps ==
    ASSUME CheckInv, Acknowledge
    PROVE  CheckInv'
  <1> USE ExplorerAssumption
  <1>1. desk.pc # "idle"  BY DEF Acknowledge
  <1>2. PICK c : c = desk.check  OBVIOUS
  <1>3. /\ c \in Checks /\ task[c] \in Task /\ doc[c] \in Report /\ c # NoCheck
        /\ doc[c] # NoReport /\ trouble[c] \in Nat /\ BlamedFor(c)
        /\ task[c].attempts \in Nat /\ task[c].attempts < Attempts
        /\ task[c].stalled \in Nat /\ task[c].stalled <= MaxStalled
    BY <1>1, <1>2, AtWork
  <1> DEFINE t == [task[c] EXCEPT !.status = "done"]
  <1>4. /\ t \in Task /\ t.status = "done" /\ t.attempts = task[c].attempts
        /\ t.stalled = task[c].stalled
    BY <1>3 DEF Task
  <1>5. /\ task' = [task EXCEPT ![c] = t] /\ task'[c] = t
        /\ doc' = [doc EXCEPT ![c] = doc[c]] /\ doc'[c] = doc[c]
        /\ desk' = AtRest /\ UNCHANGED <<posts, recent, trouble>>
    BY <1>2, <1>3 DEF Acknowledge, pageVars, CheckInv, OneJob
  <1> HIDE DEF t
  <1>6. t.status # "absent" /\ WithinLimits(t)  BY <1>3, <1>4 DEF WithinLimits
  <1>7. BlamedFor(c)'
    <2>1. ~Orphaned(c)' /\ ~Written(c)'  BY <1>3, <1>4, <1>5 DEF Orphaned, Written, AtRest
    <2>2. c \notin Full => task[c].attempts + task[c].stalled <= trouble[c]
      BY <1>3 DEF BlamedFor
    <2>3. c \in Full /\ trouble[c] = 0 => task[c].stalled = 0  BY <1>3 DEF BlamedFor
    <2> QED  BY <1>3, <1>4, <1>5, <2>1, <2>2, <2>3 DEF BlamedFor
  <1>8. /\ recent' \in BOOLEAN /\ trouble' \in [Checks -> Nat]
        /\ \A d \in Checks : trouble[d] <= trouble'[d]
    BY <1>5 DEF CheckInv, OneJob
  <1> QED  BY <1>1, <1>2, <1>3, <1>4, <1>5, <1>6, <1>7, <1>8, WorkMoves

LEMMA WorkerCrashKeeps ==
    ASSUME CheckInv, WorkerCrash
    PROVE  CheckInv'
  <1>1. desk.pc # "idle" /\ desk' = AtRest /\ UNCHANGED <<doc, task, posts, recent>>
    BY DEF WorkerCrash, pageVars
  <1>2. PICK c : c = desk.check  OBVIOUS
  <1>3. c \in Checks /\ Trouble(c)  BY <1>1, <1>2, AtWork DEF WorkerCrash
  <1>4. recent' \in BOOLEAN  BY <1>1 DEF CheckInv, OneJob
  <1>5. /\ trouble' \in [Checks -> Nat]
        /\ \A d \in Checks : trouble[d] <= trouble'[d]
    BY <1>3, TroubleCounts DEF CheckInv, OneJob
  <1>6. desk'.pc # "regret"  BY <1>1 DEF AtRest
  <1> QED  BY <1>1, <1>2, <1>3, <1>4, <1>5, <1>6, WorkerOnly

LEMMA StallCheckKeeps ==
    ASSUME CheckInv, NEW c \in Checks, StallCheck(c)
    PROVE  CheckInv'
  <1> USE ExplorerAssumption
  <1>1. /\ task[c] \in Task /\ doc[c] \in Report /\ trouble[c] \in Nat
        /\ task[c].status = "active" /\ Orphaned(c) /\ ~Written(c)
        /\ WithinLimits(task[c]) /\ BlamedFor(c)
    BY DEF CheckInv, OneJob, Blamed, StallCheck, Orphaned, Written
  <1>2. /\ task[c].attempts \in Nat /\ task[c].stalled \in Nat
        /\ task[c].attempts < Attempts /\ task[c].stalled <= MaxStalled
    BY <1>1 DEF Task, WithinLimits
  <1> DEFINE u == [task[c] EXCEPT !.stalled = task[c].stalled + 1]
             t == [u EXCEPT !.status = IF Redelivers(task[c].stalled) THEN "waiting" ELSE "failed"]
  <1>3. /\ t \in Task /\ t.stalled = task[c].stalled + 1 /\ t.attempts = task[c].attempts
        /\ t.status = IF task[c].stalled < MaxStalled THEN "waiting" ELSE "failed"
    <2>1. /\ u \in Task /\ u.stalled = task[c].stalled + 1 /\ u.attempts = task[c].attempts
      BY <1>1, <1>2 DEF Task
    <2> HIDE DEF u
    <2> QED  BY <2>1 DEF Task, Redelivers
  <1>4. /\ task' = [task EXCEPT ![c] = t] /\ task'[c] = t
        /\ doc' = [doc EXCEPT ![c] = doc[c]] /\ doc'[c] = doc[c]
        /\ UNCHANGED <<desk, posts, recent, trouble>>
    BY DEF StallCheck, pageVars, CheckInv, OneJob
  <1> HIDE DEF t, u
  <1>5. /\ t.status # "absent" /\ t.status # "active" /\ task[c].status # "absent"
        /\ WithinLimits(t)
    BY <1>1, <1>2, <1>3 DEF WithinLimits
  <1>6. doc[c] # NoReport  BY <1>5 DEF CheckInv, OnePost
  <1>7. /\ desk' \in Desk /\ (desk'.pc = "idle" <=> desk'.check = NoCheck)
        /\ recent' \in BOOLEAN /\ trouble' \in [Checks -> Nat]
        /\ \A d \in Checks : trouble[d] <= trouble'[d]
    BY <1>4 DEF CheckInv, OneJob
  <1>8. desk'.pc # "idle" => task'[desk'.check].status = "active"
    BY <1>4 DEF CheckInv, OneJob, Desk, StallCheck
  <1>9. \A d \in Checks \ {c} : (Orphaned(d)' => Orphaned(d)) /\ (Written(d)' => Written(d))
    BY <1>4 DEF Orphaned, Written, CheckInv, OneJob
  <1>10. BlamedFor(c)'
    <2>1. ~Orphaned(c)' /\ ~Written(c)'  BY <1>1, <1>4, <1>5 DEF Orphaned, Written
    <2>2. c \notin Full => task[c].attempts + task[c].stalled + 1 <= trouble[c]
      BY <1>1 DEF BlamedFor
    <2>3. c \in Full => trouble[c] # 0  BY <1>1 DEF BlamedFor
    <2>4. c \notin Full => task'[c].attempts + task'[c].stalled + 0 <= trouble'[c]
      BY <1>1, <1>2, <1>3, <1>4, <2>2
    <2>5. trouble'[c] = trouble[c]  BY <1>4
    <2> QED  BY <2>1, <2>3, <2>4, <2>5 DEF BlamedFor
  <1> QED  BY <1>1, <1>3, <1>4, <1>5, <1>6, <1>7, <1>8, <1>9, <1>10, JobMoves

-----------------------------------------------------------------------------
(* The page.                                                               *)

\* The page's steps ask for more, or forget what they asked for.
LEMMA PageKeeps ==
    ASSUME CheckInv, PageTypes,
           \/ PressScan \/ Poll \/ ServePoll \/ Heed \/ PollLost
           \/ Rescan \/ RescanAnswered \/ ReloadPage
           \/ \E p \in posts : TakeUp(p)
    PROVE  CheckInv'
  <1>1. UNCHANGED <<doc, task, desk>>
    BY DEF PressScan, Poll, ServePoll, Heed, PollLost, Rescan, RescanAnswered, ReloadPage,
           TakeUp, serverVars
  <1>2. recent' \in BOOLEAN
    BY DEF PressScan, Poll, ServePoll, Heed, PollLost, Rescan, RescanAnswered, ReloadPage,
           TakeUp, serverVars, CheckInv, OneJob
  <1>3. UNCHANGED trouble \/ \E c \in Checks : Trouble(c)
    <2>1. CASE PollLost
      <3>1. PICK p \in polls : Trouble(p.check)  BY <2>1 DEF PollLost
      <3> QED  BY <3>1 DEF PageTypes
    <2>2. CASE \E p \in posts : TakeUp(p)
      <3>1. PICK p \in posts : TakeUp(p)  BY <2>2
      <3>2. p.check \in Checks  BY DEF CheckInv, OnePost, Post
      <3> QED  BY <3>1, <3>2 DEF TakeUp
    <2>3. CASE PressScan \/ Poll \/ ServePoll \/ Heed \/ Rescan \/ RescanAnswered \/ ReloadPage
      BY <2>3 DEF PressScan, Poll, ServePoll, Heed, Rescan, RescanAnswered, ReloadPage
    <2> QED  BY <2>1, <2>2, <2>3
  <1>4. trouble' \in [Checks -> Nat] /\ \A c \in Checks : trouble[c] <= trouble'[c]
    BY <1>3, TroubleCounts DEF CheckInv, OneJob
  <1>5. OneJob' /\ Blamed'  BY <1>1, <1>2, <1>4, FaultsOnlyAdd DEF CheckInv
  <1>6. posts' \subseteq posts => OnePost'  BY <1>1 DEF CheckInv, OnePost
  <1>8. PressScan => OnePost'
    <2> SUFFICES ASSUME PressScan PROVE OnePost'  OBVIOUS
    <2>1. PICK c \in Checks :
             /\ doc[c] = NoReport /\ \A p \in posts : p.check # c
             /\ posts' = posts \cup {[check |-> c, stage |-> "create", awaited |-> TRUE]}
      BY DEF PressScan
    <2>2. task[c].status = "absent"  BY <2>1 DEF CheckInv, OnePost
    <2> DEFINE q == [check |-> c, stage |-> "create", awaited |-> TRUE]
    <2>3. q \in Post /\ q.check = c /\ q.stage = "create" /\ posts' = posts \cup {q}
      BY <2>1 DEF Post
    <2> HIDE DEF q
    <2>4. \A x \in posts' : x \in posts \/ x = q  BY <2>3
    <2>5. \A x, y \in posts' : x.check = y.check => x = y
      BY <2>1, <2>3, <2>4 DEF CheckInv, OnePost
    <2>6. \A x \in posts' : x.stage = "create" <=> doc'[x.check] = NoReport
      BY <1>1, <2>1, <2>3, <2>4 DEF CheckInv, OnePost
    <2>7. \A x \in posts' : x.stage # "answer" => task'[x.check].status = "absent"
      BY <1>1, <2>2, <2>3, <2>4 DEF CheckInv, OnePost
    <2>8. posts' \subseteq Post /\ \A d \in Checks : doc'[d] = NoReport => task'[d].status = "absent"
      BY <1>1, <2>3 DEF CheckInv, OnePost
    <2> QED  BY <2>5, <2>6, <2>7, <2>8 DEF OnePost
  <1>9. ReloadPage => OnePost'
    <2> SUFFICES ASSUME ReloadPage PROVE OnePost'  OBVIOUS
    <2>1. \A x \in posts' : \E p \in posts :
             x \in Post /\ x = [p EXCEPT !.awaited = FALSE] /\ x.check = p.check /\ x.stage = p.stage
      BY DEF ReloadPage, CheckInv, OnePost, Post
    <2>2. posts' \subseteq Post  BY <2>1
    <2>3. \A x, y \in posts' : x.check = y.check => x = y
      <3> SUFFICES ASSUME NEW x \in posts', NEW y \in posts', x.check = y.check PROVE x = y
        OBVIOUS
      <3>1. PICK p \in posts : x = [p EXCEPT !.awaited = FALSE] /\ x.check = p.check  BY <2>1
      <3>2. PICK q \in posts : y = [q EXCEPT !.awaited = FALSE] /\ y.check = q.check  BY <2>1
      <3>3. p = q  BY <3>1, <3>2 DEF CheckInv, OnePost
      <3> QED  BY <3>1, <3>2, <3>3
    <2>4. \A x \in posts' : x.stage = "create" <=> doc'[x.check] = NoReport
      BY <1>1, <2>1 DEF CheckInv, OnePost
    <2>5. \A x \in posts' : x.stage # "answer" => task'[x.check].status = "absent"
      BY <1>1, <2>1 DEF CheckInv, OnePost
    <2>6. \A d \in Checks : doc'[d] = NoReport => task'[d].status = "absent"
      BY <1>1 DEF CheckInv, OnePost
    <2> QED  BY <2>2, <2>3, <2>4, <2>5, <2>6 DEF OnePost
  <1> QED
    <2>1. posts' \subseteq posts \/ PressScan \/ ReloadPage
      BY DEF Poll, ServePoll, Heed, PollLost, Rescan, RescanAnswered, TakeUp
    <2> QED  BY <2>1, <1>5, <1>6, <1>8, <1>9 DEF CheckInv

-----------------------------------------------------------------------------

\* Only the page's own steps touch what it holds.
LEMMA PageTypesKept ==
    ASSUME CheckInv, PageTypes, [ExplorerNext]_explorerVars
    PROVE  PageTypes'
  <1>1. CASE UNCHANGED pageVars  BY <1>1 DEF pageVars, PageTypes
  <1>2. CASE UNCHANGED <<polls, watched, jobStatus, integrity, rescan, known>>
    BY <1>2 DEF PageTypes
  <1>3. ASSUME NEW p \in posts, TakeUp(p) PROVE PageTypes'
    <2>1. p.check \in Checks  BY DEF CheckInv, OnePost, Post
    <2>2. [NoReport EXCEPT !.status = "pending"] \in Report  BY DEF NoReport, Report
    <2> QED  BY <1>3, <2>1, <2>2 DEF TakeUp, PageTypes
  <1>4. CASE Poll  BY <1>4 DEF Poll, PageTypes
  <1>5. CASE ServePoll
    <2>1. PICK p \in polls : polls' = (polls \ {p}) \cup {[p EXCEPT !.read = doc[p.check]]}
      BY <1>5 DEF ServePoll
    <2>2. [p EXCEPT !.read = doc[p.check]] \in [check : Checks, read : Report \cup {Unread}]
      BY DEF PageTypes, CheckInv, OneJob
    <2> QED  BY <1>5, <2>1, <2>2 DEF ServePoll, PageTypes
  <1>6. CASE Heed
    <2>1. PICK p \in polls :
             /\ p.read # Unread /\ polls' = polls \ {p} /\ jobStatus' = p.read
             /\ watched' = IF EndsPolling(p.read.status) THEN NoCheck ELSE watched
             /\ integrity' = IF p.read.status = "completed" THEN p.read.result ELSE integrity
             /\ UNCHANGED <<rescan, known>>
      BY <1>6 DEF Heed
    <2>2. p.read \in Report /\ p.read.result \in Verdicts \cup {NoVerdict}
      BY <2>1 DEF PageTypes, Report
    <2> QED  BY <2>1, <2>2 DEF PageTypes
  <1>7. CASE PollLost  BY <1>7 DEF PollLost, PageTypes
  <1>8. CASE Rescan \/ RescanAnswered
    BY <1>8 DEF Rescan, RescanAnswered, PageTypes
  <1>9. CASE ReloadPage
    BY <1>9 DEF ReloadPage, PageTypes, CheckInv, OneJob, NoReport, Report
  <1>10. ASSUME NEW p \in posts, CreateCheck(p) \/ QueueCheck(p)
         PROVE  UNCHANGED <<polls, watched, jobStatus, integrity, rescan, known>>
    BY <1>10 DEF CreateCheck, QueueCheck
  <1>11. ASSUME NEW c \in Checks, TakeCheck(c) \/ StallCheck(c) PROVE UNCHANGED pageVars
    BY <1>11 DEF TakeCheck, StallCheck
  <1>12. Announce \/ Verify \/ ReportVerdict \/ Regret \/ Acknowledge \/ WorkerCrash
            => UNCHANGED pageVars
    BY DEF Announce, Verify, ReportVerdict, Regret, Acknowledge, WorkerCrash
  <1>13. PressScan => UNCHANGED <<polls, watched, jobStatus, integrity, rescan, known>>
    BY DEF PressScan
  <1> QED
    BY <1>1, <1>2, <1>3, <1>4, <1>5, <1>6, <1>7, <1>8, <1>9, <1>10, <1>11, <1>12, <1>13
    DEF ExplorerNext, Work, explorerVars

\* Whatever the page asks and the worker meets, a verification has one job, the
\* job keeps its counts, and each count is owed to a fault.
\* ExplorerSpec without its fairness.
ExplorerSteps == ExplorerInit /\ [][ExplorerNext]_explorerVars

\* Whatever the page asks and the worker meets, a verification has one job, the
\* job keeps its counts, and each count is owed to a fault.
THEOREM CheckInvariant == ExplorerSteps => [](CheckInv /\ PageTypes)
  <1>1. ASSUME CheckInv, PageTypes, [ExplorerNext]_explorerVars PROVE CheckInv'
    <2>1. CASE UNCHANGED explorerVars
      BY <1>1, <2>1 DEF explorerVars, serverVars, pageVars, CheckInv, OnePost, OneJob, Blamed,
                        BlamedFor, Orphaned, Written
    <2>2. CASE ExplorerNext
      BY <1>1, <2>2, CreateCheckKeeps, QueueCheckKeeps, TakeCheckKeeps, AnnounceKeeps, VerifyKeeps,
         ReportVerdictKeeps, RegretKeeps, AcknowledgeKeeps, WorkerCrashKeeps, StallCheckKeeps,
         PageKeeps
      DEF ExplorerNext, Work
    <2> QED  BY <1>1, <2>1, <2>2
  <1>2. ASSUME CheckInv, PageTypes, [ExplorerNext]_explorerVars PROVE PageTypes'
    BY <1>2, PageTypesKept
  <1> QED  BY <1>1, <1>2, CheckInitially, PageTypesInitially, PTL DEF ExplorerSteps

\* A fault hits a check, and no check is hit more often than the bound.
LEMMA FaultsHitChecks ==
    ASSUME CheckInv, PageTypes, ExplorerNext
    PROVE  UNCHANGED trouble \/ \E c \in Checks : Trouble(c)
  <1>1. desk.pc # "idle" => desk.check \in Checks
    BY DEF CheckInv, OneJob, Desk
  <1>2. ASSUME \/ Announce \/ Verify \/ ReportVerdict \/ Regret \/ Acknowledge \/ WorkerCrash
        PROVE  UNCHANGED trouble \/ \E c \in Checks : Trouble(c)
    BY <1>1, <1>2 DEF Announce, Verify, ReportVerdict, Regret, Acknowledge, WorkerCrash
  <1>3. ASSUME NEW p \in posts, CreateCheck(p) \/ QueueCheck(p) \/ TakeUp(p)
        PROVE  UNCHANGED trouble \/ \E c \in Checks : Trouble(c)
    <2>1. p.check \in Checks  BY DEF CheckInv, OnePost, Post
    <2> QED  BY <1>3, <2>1 DEF CreateCheck, QueueCheck, TakeUp
  <1>4. CASE PollLost
    <2>1. PICK p \in polls : Trouble(p.check)  BY <1>4 DEF PollLost
    <2>2. p.check \in Checks  BY DEF PageTypes
    <2> QED  BY <2>1, <2>2
  <1>5. ASSUME NEW c \in Checks, TakeCheck(c) \/ StallCheck(c) PROVE UNCHANGED trouble
    BY <1>5 DEF TakeCheck, StallCheck
  <1>6. PressScan \/ Poll \/ ServePoll \/ Heed \/ Rescan \/ RescanAnswered \/ ReloadPage
           => UNCHANGED trouble
    BY DEF PressScan, Poll, ServePoll, Heed, Rescan, RescanAnswered, ReloadPage
  <1> QED  BY <1>2, <1>3, <1>4, <1>5, <1>6 DEF ExplorerNext, Work

FaultsBounded == trouble \in [Checks -> 0..MaxTrouble]

\* What the page and the verifications hold has its type, and the worker is at a
\* job of its own, whatever is lost, retried or loaded anew.
THEOREM ExplorerTypes == ExplorerSteps => []ExplorerTypeOK
  <1> USE ExplorerAssumption
  <1>1. ExplorerInit => FaultsBounded
    BY DEF ExplorerInit, FaultsBounded
  <1>2. ASSUME CheckInv, PageTypes, FaultsBounded, [ExplorerNext]_explorerVars
        PROVE  FaultsBounded'
    <2>1. UNCHANGED trouble \/ \E c \in Checks : Trouble(c)
      BY <1>2, FaultsHitChecks DEF explorerVars
    <2>2. ASSUME NEW c \in Checks, Trouble(c) PROVE FaultsBounded'
      <3>1. /\ trouble[c] \in 0..MaxTrouble /\ trouble[c] < MaxTrouble
            /\ trouble' = [trouble EXCEPT ![c] = @ + 1]
        BY <1>2, <2>2 DEF FaultsBounded, Trouble
      <3>2. trouble[c] + 1 \in 0..MaxTrouble  BY <3>1
      <3> QED  BY <1>2, <3>1, <3>2 DEF FaultsBounded
    <2>3. UNCHANGED trouble => FaultsBounded'  BY <1>2 DEF FaultsBounded
    <2> QED  BY <2>1, <2>2, <2>3
  <1>3. CheckInv /\ PageTypes /\ FaultsBounded => ExplorerTypeOK
    BY DEF CheckInv, OnePost, OneJob, PageTypes, FaultsBounded, ExplorerTypeOK
  <1> QED  BY <1>1, <1>2, <1>3, CheckInvariant, PTL DEF ExplorerSteps

\* A job is tried more than once, and given to a second worker when the first
\* one vanishes (audit.module.ts:40; BullMQ's default).
RetriesAssumption == Attempts >= 2 /\ MaxStalled >= 1

\* What it takes for a verification to be forgotten.
THEOREM ForgottenTakesFaults ==
    ASSUME RetriesAssumption
    PROVE  ExplorerSteps => []ForgottenNeedsTrouble
  <1> USE ExplorerAssumption
  <1>1. ASSUME CheckInv PROVE ForgottenNeedsTrouble
    <2> SUFFICES ASSUME NEW c \in Checks, Forgotten(c)
                 PROVE  trouble[c] >= IF c \in Full THEN 1 ELSE 2
      BY DEF ForgottenNeedsTrouble
    <2>1. /\ task[c].status = "failed" /\ task[c] \in Task /\ trouble[c] \in Nat
          /\ WithinLimits(task[c]) /\ BlamedFor(c) /\ doc[c].status \notin Finals
      BY <1>1 DEF Forgotten, CheckInv, OneJob, Blamed
    <2>2. task[c].attempts \in Nat /\ task[c].stalled \in Nat  BY <2>1 DEF Task
    <2>3. task[c].attempts + task[c].stalled >= 2
      BY <2>1, <2>2 DEF WithinLimits, RetriesAssumption
    <2>4. CASE c \in Full
      <3>1. trouble[c] # 0  BY <2>1, <2>4 DEF BlamedFor
      <3> QED  BY <2>1, <2>4, <3>1
    <2>5. CASE c \notin Full
      <3>1. task[c].attempts + task[c].stalled <= trouble[c]
        <4>1. ~Orphaned(c)  BY <2>1 DEF Orphaned
        <4>2. CASE Written(c)  BY <2>1, <2>2, <2>5, <4>1, <4>2 DEF BlamedFor
        <4>3. CASE ~Written(c)  BY <2>1, <2>2, <2>5, <4>1, <4>3 DEF BlamedFor
        <4> QED  BY <4>2, <4>3
      <3> QED  BY <2>1, <2>2, <2>3, <2>5, <3>1
    <2> QED  BY <2>4, <2>5
  <1> QED  BY <1>1, CheckInvariant, PTL

-----------------------------------------------------------------------------
(* All pages next to each other, as MCPages composes them.                 *)

\* The pages of polls and the page of a chain share no state: a behaviour of
\* the composition is one of either.
THEOREM EachPageRuns == MCSpec => PollPagesSpec /\ ExplorerSteps
  <1>1. MCInit => PollPagesInit /\ ExplorerInit  BY DEF MCInit, PollPagesInit
  <1>2. MCPollNext => PollPagesNext
    BY PollsAssumption DEF MCPollNext, PollPagesNext, Backend
  <1>3. [MCNext]_<<part, pagesVars, explorerVars>> => [PollPagesNext]_pollPagesVars
    BY <1>2 DEF MCNext, pagesVars, pollPagesVars
  <1>4. [MCNext]_<<part, pagesVars, explorerVars>> => [ExplorerNext]_explorerVars
    BY DEF MCNext, MCExplorerNext
  <1> QED  BY <1>1, <1>3, <1>4, PTL DEF MCSpec, PollPagesSpec, ExplorerSteps

\* The state of every page has its type.
THEOREM PagesTyped == MCSpec => []PagesTypeOK
  <1>1. TalkTypeOK /\ ExplorerTypeOK => PagesTypeOK  BY DEF PagesTypeOK
  <1> QED  BY <1>1, EachPageRuns, TalkTypes, ExplorerTypes, PTL

\* What is proved of the pages of polls and of the page of a chain holds of all
\* of them together.
THEOREM PagesSafe ==
    ASSUME RetriesAssumption
    PROVE  MCSpec => /\ [](StoredAsMeant /\ LostBallotIsExplained /\ BoxRules)
                     /\ [](ParticipationIsTrue /\ RecordedOrHitch)
                     /\ []ForgottenNeedsTrouble
                     /\ [][NothingIsUndone]_boxVars
  <1>1. PollPagesSpec => [](StoredAsMeant /\ LostBallotIsExplained /\ BoxRules)
    BY MeantIsStored, LostBallotsExplained, PagesUseBallotBox, BoxPromises, PTL
  <1>2. PollPagesSpec => [](ParticipationIsTrue /\ RecordedOrHitch)
    BY ParticipationTrue, RecordedHasReason, PTL
  <1>3. PollPagesSpec => [][NothingIsUndone]_boxVars  BY PagesUseBallotBox, BoxPromises
  <1>4. ExplorerSteps => []ForgottenNeedsTrouble  BY ForgottenTakesFaults
  <1> QED  BY <1>1, <1>2, <1>3, <1>4, EachPageRuns
=============================================================================
