---------------------------- MODULE MCVoteService ----------------------------
(* Three votings, one in each part: a voter with two tokens in a voting     *)
(* without an end ("alone"), two voters whose ballots meet the end of the   *)
(* voting and its finalization ("crowd"), and a voter with a token of a     *)
(* survey, who abstains or makes two choices in a voting that may be        *)
(* finalized at any time ("mixed").  A request meets a fault in the first   *)
(* and the last, a pending ballot expires in the first.                     *)
EXTENDS VoteService, TLC

CONSTANTS u1, u2, t1, t2, t3, t4, v1, v2, v3, o1, o2
VARIABLE part

\* The clients are those of frontend/.
ASSUME VotingClients == FreshTokens

MCRules(max, hasEnd) == [single |-> max = 1, minChoices |-> 1, maxChoices |-> max,
                         allowOther |-> TRUE, hasEnd |-> hasEnd]
MCConfig == v1 :> MCRules(1, FALSE) @@ v2 :> MCRules(1, TRUE) @@ v3 :> MCRules(2, FALSE)
MCOwner == t1 :> u1 @@ t2 :> u1 @@ t3 :> u2 @@ t4 :> u2
MCSign(v, t, practice) == [voting |-> v, token |-> t, blinded |-> t, practice |-> practice]
MCVote(v, t, selection) ==
    [voting |-> v, token |-> t, selection |-> selection, abstain |-> selection = {},
     practice |-> FALSE]
MCSignArgs ==
    {MCSign(v1, t1, FALSE), MCSign(v1, t1, TRUE), MCSign(v1, t2, FALSE),
     MCSign(v2, t1, FALSE), MCSign(v2, t3, FALSE),
     MCSign(v3, t3, FALSE)}
MCVoteArgs ==
    {MCVote(v1, t1, {o1}), MCVote(v1, t2, {}),
     MCVote(v2, t1, {Other}), MCVote(v2, t3, {Other}),
     MCVote(v3, t3, {}), MCVote(v3, t3, {o1, o2}), MCVote(v3, t4, {o1})}

VotingIn == [alone |-> v1, crowd |-> v2, mixed |-> v3]

MCInit == part \in DOMAIN VotingIn /\ Init

MCNext ==
    /\ UNCHANGED part
    /\ Next
    /\ \A p \in Requests : arg'[p].voting \in {VotingIn[part], NoOne}
    /\ \A v \in Votings \ {VotingIn[part]} : voting'[v] = voting[v]
    /\ part # "mixed" => UNCHANGED [t \in SurveyedTokens |-> pending[t]]
    /\ part = "crowd" => faults' = 0
    /\ part # "alone" => \A t \in Tokens : pending'[t] # NoRow => ~pending'[t].expired

MCSpec == MCInit /\ [][MCNext]_<<part, vars>>

MCSymmetry == Permutations(Requests)
=============================================================================
