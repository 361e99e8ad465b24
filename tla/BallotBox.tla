------------------------------ MODULE BallotBox ------------------------------
(***************************************************************************)
(* What the voting back end promises, with nothing of how it does it: an   *)
(* electoral roll, a ballot box and the counts read out at the end.        *)
(*                                                                         *)
(*   - a voter is struck off the roll once per voting, for good;           *)
(*   - only a voter struck off the roll has a ballot in the box, and no    *)
(*     more than one per voting;                                           *)
(*   - a ballot is never altered or taken out;                             *)
(*   - a result is announced once, counts ballots that are in the box, and *)
(*     never changes.                                                      *)
(*                                                                         *)
(* Sealing does not close the box: vote() reads isFinalized in one query   *)
(* and inserts the ballot in a later one (see NoBallotAfterSeal in         *)
(* VoteService).                                                           *)
(***************************************************************************)
CONSTANTS Users, Votings, Tokens, Owner, Choices, Unsealed

VARIABLES
    roll,     \* the <<user, voting>> that were given their one signature
    box,      \* the ballots: a voting, a choice and the token it was paid with
    sealed    \* [Votings -> the ballots counted, or Unsealed]

boxVars == <<roll, box, sealed>>

BoxInit ==
    /\ roll = {}
    /\ box = {}
    /\ sealed = [v \in Votings |-> Unsealed]

Authorise(u, v) ==
    /\ <<u, v>> \notin roll
    /\ roll' = roll \cup {<<u, v>>}
    /\ UNCHANGED <<box, sealed>>

Cast(v, t, c) ==
    /\ <<Owner[t], v>> \in roll
    /\ \A b \in box : b.voting = v => Owner[b.token] # Owner[t]
    /\ box' = box \cup {[voting |-> v, option |-> c, token |-> t]}
    /\ UNCHANGED <<roll, sealed>>

Seal(v, counted) ==
    /\ sealed[v] = Unsealed
    /\ counted \subseteq {b \in box : b.voting = v}
    /\ sealed' = [sealed EXCEPT ![v] = counted]
    /\ UNCHANGED <<roll, box>>

BoxNext ==
    \/ \E u \in Users, v \in Votings : Authorise(u, v)
    \/ \E v \in Votings, t \in Tokens, c \in Choices : Cast(v, t, c)
    \/ \E v \in Votings, counted \in SUBSET box : Seal(v, counted)

BoxSpec == BoxInit /\ [][BoxNext]_boxVars
=============================================================================
