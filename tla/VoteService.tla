----------------------------- MODULE VoteService -----------------------------
(***************************************************************************)
(* The voting back end: issuing a blind signature, casting the anonymous   *)
(* ballot and sealing the result (backend/src/votings/vote.service.ts with *)
(* its repository, the Redis lock it takes and the unique columns of       *)
(* backend/prisma/schema.prisma it leans on).                              *)
(*                                                                         *)
(* Every HTTP request is a process that runs one handler; a handler is cut *)
(* into one action per await whose order against the other requests        *)
(* matters, and what it read before an await is kept in local[p].          *)
(*                                                                         *)
(* Data is abstracted to what the properties tell apart:                   *)
(*   - a secret T, its tokenHash = HMAC(T) and its RSA signature T^d are   *)
(*     all named by the token: each determines the others;                 *)
(*   - ballotHash = HMAC(voting:option:signature) is the whole ballot row; *)
(*   - a tally is kept as the set of the ballots it counted.               *)
(* A token is 256 random bits, so it has one Owner, the user whose client  *)
(* drew it.  The voting's key pair exists (module SigningKeys has the      *)
(* rest), so a signature is valid exactly when the server replied with it. *)
(*                                                                         *)
(* A sign request brings a token, whose hash goes into the pending ballot, *)
(* and a blinded value, which is what is signed.  The server cannot tell   *)
(* that the one blinds the other, so they are two fields here; a blinded   *)
(* value is named by the token it is a blinding of.  Surveys keep their    *)
(* pending ballots in the same table (module SubmitService has them), so   *)
(* rows of theirs come and go here.  What holds for any client is told     *)
(* from what needs the client of frontend/ by the hypothesis FreshTokens.  *)
(***************************************************************************)
EXTENDS Naturals, FiniteSets

CONSTANTS
    Users,       \* registered users
    Votings,     \* votings
    Tokens,      \* the secrets T the clients draw
    Owner,       \* [Tokens -> Users]: whose client drew the token
    Options,     \* ids of the options the votings were created with
    SignArgs,    \* bound: the sign requests clients send, a subset of SignArg
    VoteArgs,    \* bound: the vote requests clients send, a subset of VoteArg
    SurveyedTokens, \* the tokens that are sent to a survey's sign endpoint
    Finalizable, \* bound: the votings somebody asks to finalize
    Config,      \* [Votings -> rules]: the columns the vote guards read
    Requests,    \* HTTP requests in flight at once, over all replicas
    NoOne,       \* the null of a lock, a row or a reply
    MaxFaults    \* bound: crashes, failed queries and lost replies

VARIABLES
    pc, arg, local,                          \* the requests
    voting, participations, pending,
    ballots, dynOptions, results,            \* Postgres
    lock, voteCount,                         \* Redis
    jobs,                                    \* BullMQ: audit blocks to append
    replies, faults                          \* what the clients were told

vars == <<pc, arg, local, voting, participations, pending, ballots, dynOptions,
          results, lock, voteCount, jobs, replies, faults>>

requestVars == <<pc, arg, local>>
postgresVars == <<voting, participations, pending, ballots, dynOptions, results>>

Other == "other"             \* the free text of an "Other" answer
Abstention == "abstention"   \* the option of an abstention's row
OfSurvey == "survey"         \* the votingId, null, of a survey's pending ballot

\* The option a row may name: a static one, an abstention, or the dynamic
\* option a request created (named after that request).
RowOptions == Options \cup {Abstention} \cup Requests
Ballot == [voting : Votings, option : RowOptions, token : Tokens]
Rules == [single : BOOLEAN, minChoices : Nat, maxChoices : Nat, allowOther : BOOLEAN,
          hasEnd : BOOLEAN]

Phases == {"before", "open", "endAt", "ended"}
VotingRow == [phase : Phases, isFinalized : BOOLEAN]
PendingRow == [voting : Votings \cup {OfSurvey}, practice : BOOLEAN, expired : BOOLEAN]
Participation == [user : Users, voting : Votings, token : Tokens]
Sealed == [options : SUBSET Ballot, abstentions : SUBSET Ballot, total : SUBSET Ballot]
Reply == [kind : {"signed", "voted"}, voting : Votings, token : Tokens,
          practice : BOOLEAN]
JobType == [action : {"BLIND_SIGNATURE_ISSUED", "BALLOT_CAST", "VOTING_RESULT_SEALED"},
            voting : Votings, token : Tokens \cup {NoOne}]

SignPCs == {"signCheck", "signPending", "signParticipate", "signReply"}
VotePCs == {"votePending", "voteGuards", "voteTx", "voteCommit", "voteCache",
            "voteRelease"}
FinalizePCs == {"finOptions", "finAbstentions", "finTotal", "finSeal", "finAudit"}
PCs == {"idle"} \cup SignPCs \cup VotePCs \cup FinalizePCs

Selection == {s \in SUBSET (Options \cup Requests \cup {Other}) : IsFiniteSet(s)}
SignArg == [voting : Votings, token : Tokens, blinded : Tokens, practice : BOOLEAN]
VoteArg == [voting : Votings, token : Tokens, selection : Selection,
            abstain : BOOLEAN, practice : BOOLEAN]
Local == [practice : BOOLEAN, option : Requests \cup {NoOne}, ok : BOOLEAN,
          options : SUBSET Ballot, abstentions : SUBSET Ballot, total : SUBSET Ballot]

ASSUME TokensAssumption == Owner \in [Tokens -> Users]
ASSUME RulesAssumption == Config \in [Votings -> Rules]
ASSUME NullAssumption == NoOne \notin Requests \cup Tokens \cup Votings
ASSUME NamesAssumption ==
    /\ Options \cap Requests = {}
    /\ Abstention \notin Options \cup Requests
    /\ Other \notin Options \cup Requests
    /\ OfSurvey \notin Votings /\ OfSurvey # NoOne
ASSUME ArgsAssumption ==
    /\ \A a \in SignArgs : a \in SignArg
    /\ \A a \in VoteArgs : a \in VoteArg
    /\ SurveyedTokens \subseteq Tokens
ASSUME FinalizableAssumption == Finalizable \subseteq Votings
ASSUME FaultsAssumption == MaxFaults \in Nat

NoArg == [voting |-> NoOne]
FinalizeArg == [voting : Votings]
NoLocal == [practice |-> FALSE, option |-> NoOne, ok |-> FALSE,
            options |-> {}, abstentions |-> {}, total |-> {}]
NoRow == [voting |-> NoOne]
NotSealed == [total |-> NoOne]

\* The client of frontend/ draws a token for each request (useVotings.ts,
\* blindSign.ts: prepareBlind), blinds that one and uses it nowhere else.
FreshTokens == \A a \in SignArgs : a.blinded = a.token /\ a.token \notin SurveyedTokens

-----------------------------------------------------------------------------
(* What the handlers compute.                                              *)

\* The user of a sign or a vote request: the one whose client drew the token.
UserOf(p) == Owner[arg[p].token]
LockOf(p) == <<arg[p].voting, UserOf(p)>>

\* The client holds the signature of t for v: a reply carried it, to whichever
\* sign request brought a blinding of t.
HasSignature(v, t) ==
    \E r \in replies : r.kind = "signed" /\ r.voting = v /\ r.token = t

IsPending(t) == pending[t] # NoRow

\* assertTiming lets a vote in until now > endAt, finalizeVoting asks for
\* now >= endAt: at the instant endAt itself both are let through.
IsOpen(v) == voting[v].phase \in {"open", "endAt"}
HasEnded(v) == voting[v].phase \in {"endAt", "ended"}

\* The guards of vote() on the choice: Other, empty, contradictory, option
\* ids of this voting, single and multiple choice limits.
ChoiceAllowed(v, selection, abstain) ==
    LET rules == Config[v]
        hasOther == Other \in selection
        picked == selection \ {Other}
    IN  /\ hasOther => rules.allowOther
        /\ selection # {} \/ abstain
        /\ abstain => selection = {}
        /\ picked \subseteq Options \cup dynOptions[v]
        /\ picked # {} =>
              /\ rules.single => Cardinality(selection) <= 1
              /\ Cardinality(picked) < rules.minChoices => hasOther
              /\ Cardinality(selection) <= rules.maxChoices

\* What a vote inserts a row for: each option picked, the dynamic option of
\* its Other text, or the abstention.
Picked(p) ==
    (arg[p].selection \ {Other})
        \cup (IF Other \in arg[p].selection
              THEN {IF local[p].option = NoOne THEN p ELSE local[p].option}
              ELSE {})
        \cup (IF arg[p].abstain THEN {Abstention} ELSE {})

\* The rows, which all carry the same signature.
Rows(p) == {[voting |-> arg[p].voting, option |-> o, token |-> arg[p].token] : o \in Picked(p)}

\* Unique index on ballotHash.  The mutant hashes voting and option only.
MutHashesUnique(rows) ==
    \A r \in rows, b \in ballots : r.voting # b.voting \/ r.option # b.option
HashesUnique(rows) == rows \cap ballots = {}

\* Unique index on the signature, over the rows of one insert as well.  The
\* mutant leaves reuse to the pending ballot, which is deleted with the vote.
MutSignaturesUnique(rows) == \A r1, r2 \in rows : r1 = r2
SignaturesUnique(rows) ==
    /\ \A r \in rows, b \in ballots : r.token # b.token
    /\ \A r1, r2 \in rows : r1.token = r2.token => r1 = r2

BallotsOf(v) == {b \in ballots : b.voting = v}

-----------------------------------------------------------------------------
(* Steps a request takes.                                                  *)

Goto(p, label) == pc' = [pc EXCEPT ![p] = label]

Start(p, label, a) ==
    /\ pc[p] = "idle"
    /\ Goto(p, label)
    /\ arg' = [arg EXCEPT ![p] = a]
    /\ UNCHANGED local

\* The handler returns or throws: the request is over.
End(p) ==
    /\ Goto(p, "idle")
    /\ arg' = [arg EXCEPT ![p] = NoArg]
    /\ local' = [local EXCEPT ![p] = NoLocal]

\* The response reaches the client.  A signature is of what was blinded.
Tell(p, kind, t, practice) ==
    replies' = replies \cup {[kind |-> kind, voting |-> arg[p].voting,
                              token |-> t, practice |-> practice]}

Fault == faults < MaxFaults /\ faults' = faults + 1

\* appendChain() adds a job to the queue, or its failure is logged and
\* forgotten; either way the handler goes on.
Job(action, v, t) == [action |-> action, voting |-> v, token |-> t]
Enqueue(job) == jobs' = jobs \cup {job}

-----------------------------------------------------------------------------
(* signBlindedToken                                                        *)

SignBegin(p) ==
    /\ \E a \in SignArgs : Start(p, "signCheck", a)
    /\ UNCHANGED <<postgresVars, lock, voteCount, jobs, replies, faults>>

HasParticipated(u, v) == \E r \in participations : r.user = u /\ r.voting = v

\* Unique index on (userId, votingId).  The mutant has no such index.
MutParticipationUnique(u, v) == TRUE
ParticipationUnique(u, v) == ~HasParticipated(u, v)

\* findParticipation, skipped in practice mode; a row means 409.
SignCheck(p) ==
    /\ pc[p] = "signCheck"
    /\ \/ /\ arg[p].practice \/ ~HasParticipated(UserOf(p), arg[p].voting)
          /\ Goto(p, "signPending")
          /\ UNCHANGED <<arg, local>>
       \/ /\ ~arg[p].practice /\ HasParticipated(UserOf(p), arg[p].voting)
          /\ End(p)
    /\ UNCHANGED <<postgresVars, lock, voteCount, jobs, replies, faults>>

\* createPendingBallot: tokenHash is unique, so a second row throws.
SignPending(p) ==
    /\ pc[p] = "signPending"
    /\ LET t == arg[p].token IN
       \/ /\ ~IsPending(t)
          /\ pending' = [pending EXCEPT ![t] = [voting |-> arg[p].voting,
                                                practice |-> arg[p].practice,
                                                expired |-> FALSE]]
          /\ Goto(p, IF arg[p].practice THEN "signReply" ELSE "signParticipate")
          /\ UNCHANGED <<arg, local>>
       \/ /\ IsPending(t)
          /\ End(p)
          /\ UNCHANGED pending
    /\ UNCHANGED <<voting, participations, ballots, dynOptions, results,
                   lock, voteCount, jobs, replies, faults>>

\* createParticipation: (userId, votingId) is unique, so the loser of a race
\* throws here and its pending ballot stays behind.  The row has no token in
\* the code: the model keeps it as the history of which signature it paid for.
SignParticipate(p) ==
    /\ pc[p] = "signParticipate"
    /\ LET u == UserOf(p)
           v == arg[p].voting
       IN
       \/ /\ ParticipationUnique(u, v)
          /\ participations' = participations
                \cup {[user |-> u, voting |-> v, token |-> arg[p].blinded]}
          /\ Goto(p, "signReply")
          /\ UNCHANGED <<arg, local>>
       \/ /\ ~ParticipationUnique(u, v)
          /\ End(p)
          /\ UNCHANGED participations
    /\ UNCHANGED <<voting, pending, ballots, dynOptions, results,
                   lock, voteCount, jobs, replies, faults>>

\* The audit job, with the hash of the token, then the response with the
\* signature of what was blinded, which may be lost on the way.
SignReply(p) ==
    /\ pc[p] = "signReply"
    /\ LET issued == Job("BLIND_SIGNATURE_ISSUED", arg[p].voting, arg[p].token)
           signed == Tell(p, "signed", arg[p].blinded, arg[p].practice)
       IN
       \/ Enqueue(issued) /\ signed /\ UNCHANGED faults
       \/ Enqueue(issued) /\ UNCHANGED replies /\ Fault
       \/ UNCHANGED jobs /\ signed /\ Fault
    /\ End(p)
    /\ UNCHANGED <<postgresVars, lock, voteCount>>

-----------------------------------------------------------------------------
(* vote                                                                    *)

\* The mutant's lock names the user, not the request that took it.
MutVoteBegin(p) ==
    /\ \E a \in VoteArgs :
          /\ lock[<<a.voting, Owner[a.token]>>] = NoOne
          /\ lock' = [lock EXCEPT ![<<a.voting, Owner[a.token]>>] = Owner[a.token]]
          /\ Start(p, "votePending", a)
    /\ UNCHANGED <<postgresVars, voteCount, jobs, replies, faults>>

\* acquireLock: SET NX; a request that finds the lock taken gets 403 and
\* changes nothing.
VoteBegin(p) ==
    /\ \E a \in VoteArgs :
          /\ lock[<<a.voting, Owner[a.token]>>] = NoOne
          /\ lock' = [lock EXCEPT ![<<a.voting, Owner[a.token]>>] = p]
          /\ Start(p, "votePending", a)
    /\ UNCHANGED <<postgresVars, voteCount, jobs, replies, faults>>

\* A guard throws: the finally block still has to run.  In the mutant the
\* error is logged and the handler goes on.
MutVoteReject(p) ==
    /\ Goto(p, "voteCache")
    /\ UNCHANGED <<arg, local>>
VoteReject(p) ==
    /\ Goto(p, "voteRelease")
    /\ UNCHANGED <<arg, local>>

\* The mutant finds the pending ballot by the user instead of the token's hash.
MutIsPractice(p) ==
    \/ \E t \in Tokens : Owner[t] = UserOf(p) /\ IsPending(t) /\ pending[t].practice
    \/ arg[p].practice

\* A signature issued for practice counts for practice, whatever the vote says.
IsPractice(p) == pending[arg[p].token].practice \/ arg[p].practice

\* findPendingBallot, then verifyBlindSignature: no row, another voting's row,
\* an expired row or a signature the server never gave mean 403.  A survey's
\* row, which has no votingId, passes.
VotePending(p) ==
    /\ pc[p] = "votePending"
    /\ LET t == arg[p].token
           v == arg[p].voting
           admitted == /\ IsPending(t)
                       /\ pending[t].voting \in {v, OfSurvey}
                       /\ ~pending[t].expired
                       /\ HasSignature(v, t)
       IN
       \/ /\ admitted
          /\ local' = [local EXCEPT ![p].practice = IsPractice(p)]
          /\ Goto(p, "voteGuards")
          /\ UNCHANGED arg
       \/ ~admitted /\ VoteReject(p)
    /\ UNCHANGED <<postgresVars, lock, voteCount, jobs, replies, faults>>

\* findVotingById, then isFinalized, assertTiming and the guards on the choice.
VoteGuards(p) ==
    /\ pc[p] = "voteGuards"
    /\ LET v == arg[p].voting
           allowed == /\ ~voting[v].isFinalized
                      /\ IsOpen(v)
                      /\ ChoiceAllowed(v, arg[p].selection, arg[p].abstain)
       IN
       \/ /\ allowed
          /\ Goto(p, IF local[p].practice THEN "voteCache"
                     ELSE IF Other \in arg[p].selection THEN "voteTx" ELSE "voteCommit")
          /\ UNCHANGED <<arg, local>>
       \/ ~allowed /\ VoteReject(p)
    /\ UNCHANGED <<postgresVars, lock, voteCount, jobs, replies, faults>>

\* Inside the transaction: option.findFirst for the dynamic option of the text.
VoteTx(p) ==
    /\ pc[p] = "voteTx"
    /\ LET found == dynOptions[arg[p].voting] IN
       \E o \in IF found = {} THEN {NoOne} ELSE found :
          local' = [local EXCEPT ![p].option = o]
    /\ Goto(p, "voteCommit")
    /\ UNCHANGED arg
    /\ UNCHANGED <<postgresVars, lock, voteCount, jobs, replies, faults>>

\* The rest of the transaction commits or aborts as one: the new dynamic
\* option, the ballots (unique hashes and signatures), the pending row gone.
VoteCommit(p) ==
    /\ pc[p] = "voteCommit"
    /\ LET rows == Rows(p)
           v == arg[p].voting
           t == arg[p].token
           fits == HashesUnique(rows) /\ SignaturesUnique(rows)
       IN
       \/ /\ fits
          /\ ballots' = ballots \cup rows
          /\ dynOptions' = [dynOptions EXCEPT ![v] = @ \cup {o \in {p} :
                               Other \in arg[p].selection /\ local[p].option = NoOne}]
          /\ pending' = [pending EXCEPT ![t] = NoRow]
          /\ Goto(p, "voteCache")
          /\ UNCHANGED <<arg, local>>
       \/ /\ ~fits
          /\ VoteReject(p)
          /\ UNCHANGED <<ballots, dynOptions, pending>>
    /\ UNCHANGED <<voting, participations, results, lock, voteCount, jobs, replies, faults>>

\* After the commit: performVote (its failure is logged), the BALLOT_CAST job
\* and redis.del of the results snapshot.  The last is not in a try: when it
\* throws, the request fails although the ballot is stored.  In practice mode
\* none of the three happens.
VoteCache(p) ==
    /\ pc[p] = "voteCache"
    /\ LET v == arg[p].voting
           succeeds == local' = [local EXCEPT ![p].ok = TRUE]
           counted == voteCount' = [voteCount EXCEPT ![v] = @ + 1]
           queued == Enqueue(Job("BALLOT_CAST", v, arg[p].token))
       IN
       \/ local[p].practice /\ succeeds /\ UNCHANGED <<voteCount, jobs, faults>>
       \/ /\ ~local[p].practice
          /\ \/ counted /\ queued /\ succeeds /\ UNCHANGED faults
             \/ UNCHANGED voteCount /\ queued /\ succeeds /\ Fault
             \/ counted /\ UNCHANGED jobs /\ succeeds /\ Fault
             \/ counted /\ queued /\ UNCHANGED local /\ Fault
    /\ Goto(p, "voteRelease")
    /\ UNCHANGED <<arg, postgresVars, lock, replies>>

\* releaseLock deletes the key only while it holds this request's token.
Released(k, p) == IF lock[k] = p THEN NoOne ELSE lock[k]

\* finally: releaseLock; then the response, which may be lost.
VoteRelease(p) ==
    /\ pc[p] = "voteRelease"
    /\ lock' = [lock EXCEPT ![LockOf(p)] = Released(LockOf(p), p)]
    /\ \/ /\ local[p].ok
          /\ Tell(p, "voted", arg[p].token, local[p].practice)
          /\ UNCHANGED faults
       \/ ~local[p].ok /\ UNCHANGED <<replies, faults>>
       \/ Fault /\ UNCHANGED replies
    /\ End(p)
    /\ UNCHANGED <<postgresVars, voteCount, jobs>>

-----------------------------------------------------------------------------
(* finalizeVoting                                                          *)

\* findVotingRaw and its guards, then the audit gate: getAuditStatus finds
\* the chain secure (module AuditChain), or the request is refused and
\* nothing changes.
FinalizeBegin(p) ==
    /\ \E v \in Finalizable :
          /\ ~voting[v].isFinalized
          /\ Config[v].hasEnd => HasEnded(v)
          /\ Start(p, "finOptions", [voting |-> v])
    /\ UNCHANGED <<postgresVars, lock, voteCount, jobs, replies, faults>>

\* One count query after the other, each over the ballots of its own moment.
FinalizeRead(p, from, to, field, counted) ==
    /\ pc[p] = from
    /\ local' = [local EXCEPT ![p][field] = counted]
    /\ Goto(p, to)
    /\ UNCHANGED arg
    /\ UNCHANGED <<postgresVars, lock, voteCount, jobs, replies, faults>>

FinalizeOptions(p) ==
    FinalizeRead(p, "finOptions", "finAbstentions", "options",
                 {b \in BallotsOf(arg[p].voting) : b.option # Abstention})

FinalizeAbstentions(p) ==
    FinalizeRead(p, "finAbstentions", "finTotal", "abstentions",
                 {b \in BallotsOf(arg[p].voting) : b.option = Abstention})

\* The mutant counts the ballots that name an option.
MutFinalizeTotal(p) ==
    FinalizeRead(p, "finTotal", "finSeal", "total",
                 {b \in BallotsOf(arg[p].voting) : b.option # Abstention})
FinalizeTotal(p) ==
    FinalizeRead(p, "finTotal", "finSeal", "total", BallotsOf(arg[p].voting))

IsSealed(v) == results[v] # NotSealed

\* Unique index on the votingId of a result.
ResultUnique(v) == ~IsSealed(v)

\* The transaction: isFinalized and the result row, whose votingId is unique.
FinalizeSeal(p) ==
    /\ pc[p] = "finSeal"
    /\ LET v == arg[p].voting IN
       \/ /\ ResultUnique(v)
          /\ voting' = [voting EXCEPT ![v].isFinalized = TRUE]
          /\ results' = [results EXCEPT ![v] =
                            [options |-> local[p].options,
                             abstentions |-> local[p].abstentions,
                             total |-> local[p].total]]
          /\ Goto(p, "finAudit")
          /\ UNCHANGED <<arg, local>>
       \/ /\ ~ResultUnique(v)
          /\ End(p)
          /\ UNCHANGED <<voting, results>>
    /\ UNCHANGED <<participations, pending, ballots, dynOptions,
                   lock, voteCount, jobs, replies, faults>>

FinalizeAudit(p) ==
    /\ pc[p] = "finAudit"
    /\ \/ Enqueue(Job("VOTING_RESULT_SEALED", arg[p].voting, NoOne)) /\ UNCHANGED faults
       \/ UNCHANGED jobs /\ Fault
    /\ End(p)
    /\ UNCHANGED <<postgresVars, lock, voteCount, replies>>

-----------------------------------------------------------------------------
(* The environment: time, and what fails.                                  *)

\* startAt and endAt go by.
Tick(v) ==
    /\ \/ voting[v].phase = "before" /\ voting' = [voting EXCEPT ![v].phase = "open"]
       \/ /\ voting[v].phase = "open" /\ Config[v].hasEnd
          /\ voting' = [voting EXCEPT ![v].phase = "endAt"]
       \/ /\ voting[v].phase = "endAt"
          /\ voting' = [voting EXCEPT ![v].phase = "ended"]
    /\ UNCHANGED <<requestVars, participations, pending, ballots, dynOptions, results,
                   lock, voteCount, jobs, replies, faults>>

\* expiresAt of a pending ballot goes by.
PendingExpires(t) ==
    /\ IsPending(t) /\ ~pending[t].expired
    /\ pending' = [pending EXCEPT ![t].expired = TRUE]
    /\ UNCHANGED <<requestVars, voting, participations, ballots, dynOptions, results,
                   lock, voteCount, jobs, replies, faults>>

\* A survey's sign request stores its pending ballot, a survey's submission
\* deletes the row of its token.
SurveySignsToken(t) ==
    /\ ~IsPending(t)
    /\ \E practice \in BOOLEAN :
          pending' = [pending EXCEPT ![t] = [voting |-> OfSurvey, practice |-> practice,
                                             expired |-> FALSE]]
    /\ UNCHANGED <<requestVars, voting, participations, ballots, dynOptions, results,
                   lock, voteCount, jobs, replies, faults>>

SurveySpendsToken(t) ==
    /\ IsPending(t)
    /\ pending' = [pending EXCEPT ![t] = NoRow]
    /\ UNCHANGED <<requestVars, voting, participations, ballots, dynOptions, results,
                   lock, voteCount, jobs, replies, faults>>

PendingChanges ==
    \/ \E t \in Tokens : PendingExpires(t)
    \/ \E t \in SurveyedTokens : SurveySignsToken(t) \/ SurveySpendsToken(t)

\* The TTL of a lock goes by, whether or not its holder is still at work.
LockExpires(v, u) ==
    /\ lock[<<v, u>>] # NoOne
    /\ lock' = [lock EXCEPT ![<<v, u>>] = NoOne]
    /\ UNCHANGED <<requestVars, postgresVars, voteCount, jobs, replies, faults>>

\* The replica dies: no finally, no response.
Crash(p) ==
    /\ pc[p] # "idle"
    /\ Fault
    /\ End(p)
    /\ UNCHANGED <<postgresVars, lock, voteCount, jobs, replies>>

\* A query fails or the transaction aborts: the handler throws.
Throw(p) ==
    /\ Fault
    /\ \/ /\ pc[p] \in {"votePending", "voteGuards", "voteTx", "voteCommit"}
          /\ VoteReject(p)
       \/ /\ pc[p] \in {"signCheck", "signPending", "signParticipate"} \cup (FinalizePCs \ {"finAudit"})
          /\ End(p)
    /\ UNCHANGED <<postgresVars, lock, voteCount, jobs, replies>>

-----------------------------------------------------------------------------

Init ==
    /\ pc = [p \in Requests |-> "idle"]
    /\ arg = [p \in Requests |-> NoArg]
    /\ local = [p \in Requests |-> NoLocal]
    /\ voting = [v \in Votings |-> [phase |-> "before", isFinalized |-> FALSE]]
    /\ participations = {}
    /\ pending = [t \in Tokens |-> NoRow]
    /\ ballots = {}
    /\ dynOptions = [v \in Votings |-> {}]
    /\ results = [v \in Votings |-> NotSealed]
    /\ lock = [k \in Votings \X Users |-> NoOne]
    /\ voteCount = [v \in Votings |-> 0]
    /\ jobs = {}
    /\ replies = {}
    /\ faults = 0

SignStep(p) == SignCheck(p) \/ SignPending(p) \/ SignParticipate(p) \/ SignReply(p)

VoteStep(p) ==
    \/ VotePending(p) \/ VoteGuards(p) \/ VoteTx(p) \/ VoteCommit(p)
    \/ VoteCache(p) \/ VoteRelease(p)

FinalizeStep(p) ==
    \/ FinalizeOptions(p) \/ FinalizeAbstentions(p) \/ FinalizeTotal(p)
    \/ FinalizeSeal(p) \/ FinalizeAudit(p)

Begin(p) == SignBegin(p) \/ VoteBegin(p) \/ FinalizeBegin(p)

Next ==
    \/ \E p \in Requests :
          Begin(p) \/ SignStep(p) \/ VoteStep(p) \/ FinalizeStep(p) \/ Crash(p) \/ Throw(p)
    \/ \E v \in Votings : Tick(v)
    \/ PendingChanges
    \/ \E v \in Votings, u \in Users : LockExpires(v, u)

Spec == Init /\ [][Next]_vars

\* A replica runs the handler of a vote on, await after await.
Fairness == \A p \in Requests : WF_vars(VoteStep(p))

FairSpec == Spec /\ Fairness

-----------------------------------------------------------------------------
(* Properties.                                                             *)

RequestsOK ==
    /\ pc \in [Requests -> PCs]
    /\ arg \in [Requests -> SignArg \cup VoteArg \cup FinalizeArg \cup {NoArg}]
    /\ local \in [Requests -> Local]
    /\ \A p \in Requests :
          /\ pc[p] \in SignPCs => arg[p] \in SignArgs
          /\ pc[p] \in VotePCs => arg[p] \in VoteArgs
          /\ pc[p] \in FinalizePCs => arg[p] \in FinalizeArg

StoreOK ==
    /\ voting \in [Votings -> VotingRow]
    /\ participations \subseteq Participation
    /\ pending \in [Tokens -> PendingRow \cup {NoRow}]
    /\ ballots \subseteq Ballot
    /\ dynOptions \in [Votings -> SUBSET Requests]
    /\ results \in [Votings -> Sealed \cup {NotSealed}]
    /\ lock \in [Votings \X Users -> Requests \cup {NoOne}]
    /\ voteCount \in [Votings -> Nat]
    /\ jobs \subseteq JobType
    /\ replies \subseteq Reply
    /\ faults \in 0..MaxFaults

\* Types, and the kind of argument each handler holds.
TypeOK == RequestsOK /\ StoreOK

HasBallot(t) == \E b \in ballots : b.token = t

\* With clients that blind the token they name (FreshTokens), the server hands
\* out one signature that counts per voter and voting, however many of the
\* voter's requests race: the check of signBlindedToken is only a shortcut, the
\* unique (userId, votingId) of the participation decides.
OneSignaturePerVoter ==
    \A r1, r2 \in replies :
        /\ r1.kind = "signed" /\ r2.kind = "signed"
        /\ ~r1.practice /\ ~r2.practice
        /\ r1.voting = r2.voting
        /\ Owner[r1.token] = Owner[r2.token]
        => r1.token = r2.token

\* With such clients (FreshTokens) a voter has at most one ballot in a voting,
\* through racing sign requests, locks that expire under their holder, votes
\* sent again after they were stored, practice signatures and pending ballots
\* of surveys.
OneBallotPerVoter ==
    \A b1, b2 \in ballots :
        b1.voting = b2.voting /\ Owner[b1.token] = Owner[b2.token] => b1 = b2

\* What the back end claims of a ballot is in Postgres: a 200 of vote(), a
\* BALLOT_CAST block to append and the total of the Redis counter.
ClaimsAreStored ==
    /\ \A r \in replies : r.kind = "voted" /\ ~r.practice => HasBallot(r.token)
    /\ \A j \in jobs : j.action = "BALLOT_CAST" => HasBallot(j.token)
    /\ \A v \in Votings : voteCount[v] <= Cardinality(BallotsOf(v))

\* A vote that reaches the transaction is turned away only because its
\* signature is already on a ballot (of this vote, on an earlier try), or
\* because it has several rows to insert: they carry the same signature, whose
\* column is unique, so a choice of two options or more never gets in.
RefusedOnlyReuse ==
    [][\A p \in Requests :
          pc[p] = "voteCommit" /\ pc'[p] = "voteRelease" /\ faults' = faults
          => HasBallot(arg[p].token) \/ Cardinality(Picked(p)) > 1]_vars

\* The three queries of finalizeVoting run one after the other while votes
\* still come in, yet a sealed total never falls short of the sealed tally,
\* and nothing is counted that is not a ballot of the voting.
SealedTallyCovered ==
    \A v \in Votings : IsSealed(v) =>
        /\ results[v].options \cup results[v].abstentions \subseteq results[v].total
        /\ results[v].total \subseteq BallotsOf(v)

\* Once sealed, a result keeps its counts, through a second finalization that
\* read isFinalized before the first one wrote it.
SealedForever ==
    [][\A v \in Votings : IsSealed(v) => results'[v] = results[v]]_vars

\* With such clients, a real vote for one option, or an abstention, of a voter who
\* was sent the signature of its token gets its ballot into the box before the pending
\* ballot expires or the voting closes, unless something fails: neither the
\* voter's other requests, practice ones among them, nor a lock that expires
\* under it keep it out or turn it into a practice vote.
SignedVoteIsStored ==
    \A p \in Requests, v \in Votings, t \in Tokens :
        (/\ pc[p] = "votePending" /\ arg[p].voting = v /\ arg[p].token = t /\ ~arg[p].practice
         /\ ChoiceAllowed(v, arg[p].selection, arg[p].abstain)
         /\ Cardinality(arg[p].selection) <= 1
         /\ [kind |-> "signed", voting |-> v, token |-> t, practice |-> FALSE] \in replies)
            ~> (\/ HasBallot(t) \/ faults > 0
                \/ voting[v].isFinalized \/ ~IsOpen(v)
                \/ IsPending(t) /\ pending[t].expired)

\* "This voting has been finalized" (vote.service.ts:175): no ballot enters a
\* finalized voting.  Does not hold: vote() reads isFinalized, then inserts.
NoBallotAfterSeal ==
    [][\A b \in ballots' \ ballots : ~voting[b.voting].isFinalized]_vars

-----------------------------------------------------------------------------
(* The invariants that carry the proofs (VoteServiceProofs).  VoteInv holds  *)
(* whatever clients send, PaidInv with clients that blind the token they     *)
(* name (FreshTokens).                                                       *)

\* A vote past its checks has a signature; in the transaction it is no practice
\* and has something to insert.
VotingSigned(p) ==
    /\ pc[p] \in {"voteGuards", "voteTx", "voteCommit"}
          => HasSignature(arg[p].voting, arg[p].token)
    /\ pc[p] \in {"voteTx", "voteCommit"}
          => /\ ~local[p].practice
             /\ arg[p].selection # {} \/ arg[p].abstain

\* What a finalization has counted so far are ballots of its voting, the later
\* counts at least those of the earlier ones.
CountingCovered(p) ==
    LET tallied == local[p].options \cup local[p].abstentions
        inBox == BallotsOf(arg[p].voting)
    IN  /\ pc[p] = "finAbstentions" => local[p].options \subseteq inBox
        /\ pc[p] = "finTotal" => tallied \subseteq inBox
        /\ pc[p] = "finSeal" => tallied \subseteq local[p].total /\ local[p].total \subseteq inBox

\* The unique (userId, votingId) of participations.
OneParticipation ==
    \A r1, r2 \in participations :
        r1.user = r2.user /\ r1.voting = r2.voting => r1 = r2

\* Whatever clients send, a signature is good for one ballot, and no ballot is
\* there without one the server handed out for its voting.
BallotsSigned ==
    /\ \A b1, b2 \in ballots : b1.token = b2.token => b1 = b2
    /\ \A b \in ballots : HasSignature(b.voting, b.token)

RequestInv(p) == VotingSigned(p) /\ CountingCovered(p)

VoteInv ==
    /\ \A p \in Requests : RequestInv(p)
    /\ OneParticipation
    /\ BallotsSigned
    /\ SealedTallyCovered

\* The participation that pays for a ballot of v with t.
Paid(v, t) == [user |-> Owner[t], voting |-> v, token |-> t] \in participations

\* A practice row of t stays until t has a ballot, when t is of no more use; no
\* survey deletes it.
PracticeOnly(t) ==
    t \notin SurveyedTokens /\ ((IsPending(t) /\ pending[t].practice) \/ HasBallot(t))

\* A signature was paid for, or it is good for practice only.
SignaturePaid(v, t, practice) == IF practice THEN PracticeOnly(t) ELSE Paid(v, t)

RepliesPaid ==
    \A r \in replies : r.kind = "signed" => SignaturePaid(r.voting, r.token, r.practice)

SigningPaid(p) ==
    /\ pc[p] = "signParticipate" => ~arg[p].practice
    /\ pc[p] = "signReply" => SignaturePaid(arg[p].voting, arg[p].token, arg[p].practice)

\* A vote past the check of its signature has paid, or comes too late.
VotingPaid(p) ==
    pc[p] \in {"voteGuards", "voteTx", "voteCommit"} /\ ~local[p].practice
        => Paid(arg[p].voting, arg[p].token) \/ HasBallot(arg[p].token)

\* Each ballot was paid for by a participation.
BallotsPaid == \A b \in ballots : Paid(b.voting, b.token)

PaidInv ==
    /\ \A p \in Requests : SigningPaid(p) /\ VotingPaid(p)
    /\ RepliesPaid
    /\ BallotsPaid

-----------------------------------------------------------------------------
(* The back end implements the ballot box.                                 *)

Box == INSTANCE BallotBox WITH
    Choices <- RowOptions,
    Unsealed <- NoOne,
    roll <- {<<r.user, r.voting>> : r \in participations},
    box <- ballots,
    sealed <- [v \in Votings |-> results[v].total]

\* With clients that blind the token they name (FreshTokens), every step of the
\* handlers, crashes and repeated requests included, is a step of the ballot
\* box or leaves it alone.
ImplementsBallotBox == Box!BoxSpec
=============================================================================
