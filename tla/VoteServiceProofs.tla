--------------------------- MODULE VoteServiceProofs ---------------------------
(***************************************************************************)
(* Proofs about VoteService, for every value of its constants: types, the  *)
(* inductive invariant VoteInv, which holds whatever clients send, and     *)
(* PaidInv, which needs clients that blind the token they name (the        *)
(* hypothesis FreshTokens) and carries one ballot per voter and the        *)
(* refinement of BallotBox.                                                *)
(***************************************************************************)
EXTENDS VoteService, FiniteSetTheorems, TLAPS

-----------------------------------------------------------------------------
(* Types: the request a step belongs to.                                   *)

LEMMA GotoKeepsRequests ==
    ASSUME RequestsOK, NEW p \in Requests, NEW label \in PCs,
           Goto(p, label), UNCHANGED <<arg, local>>,
           label \in SignPCs => arg[p] \in SignArgs,
           label \in VotePCs => arg[p] \in VoteArgs,
           label \in FinalizePCs => arg[p] \in FinalizeArg
    PROVE  RequestsOK'
BY DEF RequestsOK, Goto

LEMMA EndKeepsRequests ==
    ASSUME RequestsOK, NEW p \in Requests, End(p)
    PROVE  RequestsOK'
<1>1. pc' = [pc EXCEPT ![p] = "idle"] /\ arg' = [arg EXCEPT ![p] = NoArg]
      /\ local' = [local EXCEPT ![p] = NoLocal]
  BY DEF End, Goto
<1>2. "idle" \in PCs /\ "idle" \notin SignPCs \cup VotePCs \cup FinalizePCs
  BY DEF PCs, SignPCs, VotePCs, FinalizePCs
<1>3. NoLocal \in Local
  BY DEF NoLocal, Local
<1> QED
  BY <1>1, <1>2, <1>3 DEF RequestsOK

LEMMA StartKeepsRequests ==
    ASSUME RequestsOK, NEW p \in Requests, NEW label \in PCs, NEW a, Start(p, label, a),
           \/ a \in SignArgs /\ label \in SignPCs
           \/ a \in VoteArgs /\ label \in VotePCs
           \/ a \in FinalizeArg /\ label \in FinalizePCs
    PROVE  RequestsOK'
<1>1. /\ label \in SignPCs => label \notin VotePCs \cup FinalizePCs
      /\ label \in VotePCs => label \notin FinalizePCs
  BY DEF SignPCs, VotePCs, FinalizePCs
<1>2. a \in SignArg \cup VoteArg \cup FinalizeArg
  BY ArgsAssumption
<1> QED
  BY <1>1, <1>2 DEF RequestsOK, Start, Goto

LEMMA WorkKeepsRequests ==
    ASSUME RequestsOK, NEW p \in Requests, NEW label \in PCs,
           Goto(p, label), UNCHANGED arg, local' \in [Requests -> Local],
           label \in SignPCs => arg[p] \in SignArgs,
           label \in VotePCs => arg[p] \in VoteArgs,
           label \in FinalizePCs => arg[p] \in FinalizeArg
    PROVE  RequestsOK'
BY DEF RequestsOK, Goto

LEMMA ArgFields ==
    ASSUME RequestsOK, NEW p \in Requests, pc[p] \in SignPCs \cup VotePCs
    PROVE  /\ arg[p].voting \in Votings /\ arg[p].token \in Tokens
           /\ arg[p].practice \in BOOLEAN /\ UserOf(p) \in Users
           /\ pc[p] \in SignPCs => arg[p] \in SignArgs /\ arg[p].blinded \in Tokens
           /\ pc[p] \in VotePCs =>
                 /\ arg[p] \in VoteArgs
                 /\ arg[p].selection \subseteq Options \cup Requests \cup {Other}
                 /\ arg[p].abstain \in BOOLEAN
<1>1. /\ pc[p] \in SignPCs => arg[p] \in SignArgs /\ arg[p] \in SignArg
      /\ pc[p] \in VotePCs => arg[p] \in VoteArgs /\ arg[p] \in VoteArg
  BY ArgsAssumption DEF RequestsOK
<1>2. arg[p].token \in Tokens
  BY <1>1 DEF SignArg, VoteArg
<1>3. Owner[arg[p].token] \in Users
  BY <1>2, TokensAssumption
<1> QED
  BY <1>1, <1>3 DEF SignArg, VoteArg, Selection, UserOf

-----------------------------------------------------------------------------
(* Types: one lemma per handler.                                           *)

LEMMA SignTypes ==
    ASSUME TypeOK, NEW p \in Requests, SignBegin(p) \/ SignStep(p)
    PROVE  TypeOK'
<1> USE DEF PCs, SignPCs, VotePCs, FinalizePCs
<1>1. CASE SignBegin(p)
  <2>1. PICK a \in SignArgs : Start(p, "signCheck", a)
    BY <1>1 DEF SignBegin
  <2>2. RequestsOK'
    BY <2>1, StartKeepsRequests DEF TypeOK
  <2> QED
    BY <1>1, <2>2 DEF SignBegin, TypeOK, StoreOK, postgresVars
<1>2. CASE SignCheck(p)
  <2>1. RequestsOK'
    BY <1>2, GotoKeepsRequests, EndKeepsRequests, ArgFields DEF SignCheck, TypeOK
  <2> QED
    BY <1>2, <2>1 DEF SignCheck, TypeOK, StoreOK, postgresVars
<1>3. CASE SignPending(p)
  <2>1. RequestsOK'
    BY <1>3, GotoKeepsRequests, EndKeepsRequests, ArgFields DEF SignPending, TypeOK
  <2>2. arg[p].voting \in Votings /\ arg[p].practice \in BOOLEAN /\ arg[p].token \in Tokens
    BY <1>3, ArgFields DEF SignPending, TypeOK
  <2>3. pending' \in [Tokens -> PendingRow \cup {NoRow}]
    <3>1. [voting |-> arg[p].voting, practice |-> arg[p].practice, expired |-> FALSE]
            \in PendingRow
      BY <2>2 DEF PendingRow
    <3> QED
      BY <1>3, <3>1 DEF SignPending, TypeOK, StoreOK
  <2> QED
    BY <1>3, <2>1, <2>3 DEF SignPending, TypeOK, StoreOK
<1>4. CASE SignParticipate(p)
  <2>1. RequestsOK'
    BY <1>4, GotoKeepsRequests, EndKeepsRequests, ArgFields DEF SignParticipate, TypeOK
  <2>2. arg[p].voting \in Votings /\ UserOf(p) \in Users /\ arg[p].blinded \in Tokens
    BY <1>4, ArgFields DEF SignParticipate, TypeOK
  <2> QED
    BY <1>4, <2>1, <2>2 DEF SignParticipate, TypeOK, StoreOK, Participation
<1>5. CASE SignReply(p)
  <2>1. RequestsOK'
    BY <1>5, EndKeepsRequests DEF SignReply, TypeOK
  <2>2. /\ arg[p].voting \in Votings /\ arg[p].practice \in BOOLEAN
        /\ arg[p].token \in Tokens /\ arg[p].blinded \in Tokens
    BY <1>5, ArgFields DEF SignReply, TypeOK
  <2>3. jobs' \subseteq JobType
    BY <1>5, <2>2 DEF SignReply, Enqueue, Job, JobType, TypeOK, StoreOK
  <2>4. replies' \subseteq Reply
    BY <1>5, <2>2 DEF SignReply, Tell, Reply, TypeOK, StoreOK
  <2>5. faults' \in 0..MaxFaults
    BY <1>5, FaultsAssumption DEF SignReply, Fault, TypeOK, StoreOK
  <2> QED
    BY <1>5, <2>1, <2>3, <2>4, <2>5 DEF SignReply, TypeOK, StoreOK, postgresVars
<1> QED
  BY <1>1, <1>2, <1>3, <1>4, <1>5 DEF SignStep

LEMMA VoteTypes ==
    ASSUME TypeOK, NEW p \in Requests, VoteBegin(p) \/ VoteStep(p)
    PROVE  TypeOK'
<1> USE DEF PCs, SignPCs, VotePCs, FinalizePCs
<1>1. CASE VoteBegin(p)
  <2>1. PICK a \in VoteArgs :
            /\ lock' = [lock EXCEPT ![<<a.voting, Owner[a.token]>>] = p]
            /\ Start(p, "votePending", a)
    BY <1>1 DEF VoteBegin
  <2>2. RequestsOK'
    BY <2>1, StartKeepsRequests DEF TypeOK
  <2> QED
    BY <1>1, <2>1, <2>2 DEF VoteBegin, TypeOK, StoreOK, postgresVars
<1>2. CASE VotePending(p)
  <2>1. IsPractice(p) \in BOOLEAN
    BY <1>2, ArgFields DEF IsPractice, VotePending, TypeOK, StoreOK
  <2>2. local' \in [Requests -> Local] /\ UNCHANGED arg
        /\ (Goto(p, "voteGuards") \/ Goto(p, "voteRelease"))
    BY <1>2, <2>1 DEF VotePending, VoteReject, TypeOK, RequestsOK, Local
  <2>3. RequestsOK'
    BY <1>2, <2>2, WorkKeepsRequests, ArgFields DEF VotePending, TypeOK
  <2> QED
    BY <1>2, <2>3 DEF VotePending, TypeOK, StoreOK, postgresVars
<1>3. CASE VoteGuards(p)
  <2>1. RequestsOK'
    BY <1>3, GotoKeepsRequests, ArgFields DEF VoteGuards, VoteReject, TypeOK
  <2> QED
    BY <1>3, <2>1 DEF VoteGuards, TypeOK, StoreOK, postgresVars
<1>4. CASE VoteTx(p)
  <2>1. dynOptions[arg[p].voting] \subseteq Requests
    BY <1>4, ArgFields DEF VoteTx, TypeOK, StoreOK
  <2>2. local' \in [Requests -> Local]
    BY <1>4, <2>1 DEF VoteTx, TypeOK, RequestsOK, Local
  <2>3. RequestsOK'
    BY <1>4, <2>2, WorkKeepsRequests, ArgFields DEF VoteTx, TypeOK
  <2> QED
    BY <1>4, <2>3 DEF VoteTx, TypeOK, StoreOK, postgresVars
<1>5. CASE VoteCommit(p)
  <2>1. RequestsOK'
    BY <1>5, GotoKeepsRequests, ArgFields DEF VoteCommit, VoteReject, TypeOK
  <2>2. Rows(p) \subseteq Ballot
    <3>1. local[p].option \in Requests \cup {NoOne}
      BY DEF TypeOK, RequestsOK, Local
    <3> QED
      BY <1>5, <3>1, ArgFields DEF VoteCommit, Rows, Picked, Ballot, RowOptions, TypeOK
  <2>3. ballots' \subseteq Ballot
    BY <1>5, <2>2 DEF VoteCommit, TypeOK, StoreOK
  <2>4. dynOptions' \in [Votings -> SUBSET Requests]
    BY <1>5 DEF VoteCommit, TypeOK, StoreOK
  <2>5. pending' \in [Tokens -> PendingRow \cup {NoRow}]
    BY <1>5 DEF VoteCommit, TypeOK, StoreOK
  <2> QED
    BY <1>5, <2>1, <2>3, <2>4, <2>5 DEF VoteCommit, TypeOK, StoreOK
<1>6. CASE VoteCache(p)
  <2>1. local' \in [Requests -> Local]
    <3>1. [local EXCEPT ![p].ok = TRUE] \in [Requests -> Local]
      BY DEF TypeOK, RequestsOK, Local
    <3>2. local' = [local EXCEPT ![p].ok = TRUE] \/ local' = local
      BY <1>6 DEF VoteCache
    <3> QED
      BY <3>1, <3>2 DEF TypeOK, RequestsOK
  <2>2. RequestsOK'
    BY <1>6, <2>1, WorkKeepsRequests, ArgFields DEF VoteCache, TypeOK
  <2>3. arg[p].voting \in Votings /\ arg[p].token \in Tokens
    BY <1>6, ArgFields DEF VoteCache, TypeOK
  <2>4. jobs' \subseteq JobType
    BY <1>6, <2>3 DEF VoteCache, Enqueue, Job, JobType, TypeOK, StoreOK
  <2>5. faults' \in 0..MaxFaults /\ voteCount' \in [Votings -> Nat]
    BY <1>6, <2>3, FaultsAssumption DEF VoteCache, Fault, TypeOK, StoreOK
  <2> QED
    BY <1>6, <2>2, <2>4, <2>5 DEF VoteCache, TypeOK, StoreOK, postgresVars
<1>7. CASE VoteRelease(p)
  <2>1. RequestsOK'
    BY <1>7, EndKeepsRequests DEF VoteRelease, TypeOK
  <2>2. arg[p].voting \in Votings /\ arg[p].token \in Tokens
    BY <1>7, ArgFields DEF VoteRelease, TypeOK
  <2>3. LockOf(p) \in Votings \X Users
    BY <1>7, ArgFields DEF VoteRelease, LockOf, TypeOK
  <2>4. lock' \in [Votings \X Users -> Requests \cup {NoOne}]
    BY <1>7, <2>3 DEF VoteRelease, Released, TypeOK, StoreOK
  <2>5. replies' \subseteq Reply
    <3>1. local[p].practice \in BOOLEAN
      BY DEF TypeOK, RequestsOK, Local
    <3> QED
      BY <1>7, <2>2, <3>1 DEF VoteRelease, Tell, Reply, TypeOK, StoreOK
  <2>6. faults' \in 0..MaxFaults
    BY <1>7, FaultsAssumption DEF VoteRelease, Fault, TypeOK, StoreOK
  <2> QED
    BY <1>7, <2>1, <2>4, <2>5, <2>6 DEF VoteRelease, TypeOK, StoreOK, postgresVars
<1> QED
  BY <1>1, <1>2, <1>3, <1>4, <1>5, <1>6, <1>7 DEF VoteStep

LEMMA FinalizeTypes ==
    ASSUME TypeOK, NEW p \in Requests, FinalizeBegin(p) \/ FinalizeStep(p)
    PROVE  TypeOK'
<1> USE DEF PCs, SignPCs, VotePCs, FinalizePCs
<1>1. ASSUME pc[p] \in FinalizePCs PROVE arg[p] \in FinalizeArg /\ arg[p].voting \in Votings
  BY <1>1 DEF TypeOK, RequestsOK, FinalizeArg
<1>2. CASE FinalizeBegin(p)
  <2>1. PICK v \in Finalizable : Start(p, "finOptions", [voting |-> v])
    BY <1>2 DEF FinalizeBegin
  <2>2. [voting |-> v] \in FinalizeArg
    BY FinalizableAssumption DEF FinalizeArg
  <2>3. RequestsOK'
    BY <2>1, <2>2, StartKeepsRequests DEF TypeOK
  <2> QED
    BY <1>2, <2>3 DEF FinalizeBegin, TypeOK, StoreOK, postgresVars
<1>3. CASE FinalizeOptions(p) \/ FinalizeAbstentions(p) \/ FinalizeTotal(p)
  <2>1. \A S \in SUBSET Ballot : \A f \in {"options", "abstentions", "total"} :
           [local EXCEPT ![p][f] = S] \in [Requests -> Local]
    BY DEF TypeOK, RequestsOK, Local
  <2>2. \A v \in Votings : BallotsOf(v) \subseteq Ballot
    BY DEF BallotsOf, TypeOK, StoreOK
  <2>3. arg[p] \in FinalizeArg /\ arg[p].voting \in Votings
    BY <1>1, <1>3 DEF FinalizeOptions, FinalizeAbstentions, FinalizeTotal, FinalizeRead
  <2>4. /\ local' \in [Requests -> Local]
        /\ UNCHANGED arg
        /\ Goto(p, "finAbstentions") \/ Goto(p, "finTotal") \/ Goto(p, "finSeal")
        /\ UNCHANGED <<postgresVars, lock, voteCount, jobs, replies, faults>>
    <3>1. CASE FinalizeOptions(p)
      BY <3>1, <2>1, <2>2, <2>3 DEF FinalizeOptions, FinalizeRead
    <3>2. CASE FinalizeAbstentions(p)
      BY <3>2, <2>1, <2>2, <2>3 DEF FinalizeAbstentions, FinalizeRead
    <3>3. CASE FinalizeTotal(p)
      BY <3>3, <2>1, <2>2, <2>3 DEF FinalizeTotal, FinalizeRead
    <3> QED
      BY <1>3, <3>1, <3>2, <3>3
  <2>5. RequestsOK'
    BY <2>3, <2>4, WorkKeepsRequests DEF TypeOK
  <2> QED
    BY <2>4, <2>5 DEF TypeOK, StoreOK, postgresVars
<1>4. CASE FinalizeSeal(p)
  <2>1. arg[p] \in FinalizeArg /\ arg[p].voting \in Votings
    BY <1>1, <1>4 DEF FinalizeSeal
  <2>2. RequestsOK'
    BY <1>4, <2>1, GotoKeepsRequests, EndKeepsRequests DEF FinalizeSeal, TypeOK
  <2>3. [options |-> local[p].options, abstentions |-> local[p].abstentions,
         total |-> local[p].total] \in Sealed
    BY DEF TypeOK, RequestsOK, Local, Sealed
  <2>4. results' \in [Votings -> Sealed \cup {NotSealed}]
    BY <1>4, <2>3 DEF FinalizeSeal, TypeOK, StoreOK
  <2>5. voting' \in [Votings -> VotingRow]
    <3>1. voting[arg[p].voting] \in VotingRow
      BY <2>1 DEF TypeOK, StoreOK
    <3>2. [voting[arg[p].voting] EXCEPT !.isFinalized = TRUE] \in VotingRow
      BY <3>1 DEF VotingRow
    <3> QED
      BY <1>4, <3>2 DEF FinalizeSeal, TypeOK, StoreOK
  <2> QED
    BY <1>4, <2>2, <2>4, <2>5 DEF FinalizeSeal, TypeOK, StoreOK
<1>5. CASE FinalizeAudit(p)
  <2>1. RequestsOK'
    BY <1>5, EndKeepsRequests DEF FinalizeAudit, TypeOK
  <2>2. arg[p].voting \in Votings
    BY <1>1, <1>5 DEF FinalizeAudit
  <2>3. jobs' \subseteq JobType
    BY <1>5, <2>2 DEF FinalizeAudit, Enqueue, Job, JobType, TypeOK, StoreOK
  <2>4. faults' \in 0..MaxFaults
    BY <1>5, FaultsAssumption DEF FinalizeAudit, Fault, TypeOK, StoreOK
  <2> QED
    BY <1>5, <2>1, <2>3, <2>4 DEF FinalizeAudit, TypeOK, StoreOK, postgresVars
<1> QED
  BY <1>2, <1>3, <1>4, <1>5 DEF FinalizeStep

LEMMA FailureTypes ==
    ASSUME TypeOK, NEW p \in Requests, Crash(p) \/ Throw(p)
    PROVE  TypeOK'
<1>1. faults' \in 0..MaxFaults
  BY FaultsAssumption DEF Crash, Throw, Fault, TypeOK, StoreOK
<1>2. RequestsOK'
  <2>1. CASE Crash(p)
    BY <2>1, EndKeepsRequests DEF Crash, TypeOK
  <2>2. CASE Throw(p)
    BY <2>2, EndKeepsRequests, GotoKeepsRequests, ArgFields
       DEF Throw, VoteReject, TypeOK, PCs, SignPCs, VotePCs, FinalizePCs
  <2> QED
    BY <2>1, <2>2
<1> QED
  BY <1>1, <1>2 DEF Crash, Throw, TypeOK, StoreOK, postgresVars

LEMMA EnvironmentTypes ==
    ASSUME TypeOK,
           \/ \E v \in Votings : Tick(v)
           \/ PendingChanges
           \/ \E v \in Votings, u \in Users : LockExpires(v, u)
    PROVE  TypeOK'
<1>1. ASSUME NEW v \in Votings, Tick(v) PROVE TypeOK'
  <2>1. \A f \in Phases : [voting[v] EXCEPT !.phase = f] \in VotingRow
    BY DEF TypeOK, StoreOK, VotingRow
  <2>2. voting' \in [Votings -> VotingRow]
    BY <1>1, <2>1 DEF Tick, Phases, TypeOK, StoreOK
  <2> QED
    BY <1>1, <2>2 DEF Tick, TypeOK, RequestsOK, StoreOK, requestVars
<1>4. ASSUME NEW t \in SurveyedTokens, SurveySignsToken(t) \/ SurveySpendsToken(t) PROVE TypeOK'
  <2>1. \A practice \in BOOLEAN :
           [voting |-> OfSurvey, practice |-> practice, expired |-> FALSE] \in PendingRow
    BY DEF PendingRow
  <2>2. pending' \in [Tokens -> PendingRow \cup {NoRow}]
    BY <1>4, <2>1, ArgsAssumption DEF SurveySignsToken, SurveySpendsToken, TypeOK, StoreOK
  <2> QED
    BY <1>4, <2>2 DEF SurveySignsToken, SurveySpendsToken, TypeOK, RequestsOK, StoreOK, requestVars
<1>2. ASSUME NEW t \in Tokens, PendingExpires(t) PROVE TypeOK'
  <2>1. pending[t] \in PendingRow
    BY <1>2 DEF PendingExpires, IsPending, TypeOK, StoreOK
  <2>2. [pending[t] EXCEPT !.expired = TRUE] \in PendingRow
    BY <2>1 DEF PendingRow
  <2>3. pending' \in [Tokens -> PendingRow \cup {NoRow}]
    BY <1>2, <2>2 DEF PendingExpires, TypeOK, StoreOK
  <2> QED
    BY <1>2, <2>3 DEF PendingExpires, TypeOK, RequestsOK, StoreOK, requestVars
<1>3. ASSUME NEW v \in Votings, NEW u \in Users, LockExpires(v, u) PROVE TypeOK'
  BY <1>3 DEF LockExpires, TypeOK, RequestsOK, StoreOK, requestVars, postgresVars
<1> QED
  BY <1>1, <1>2, <1>3, <1>4 DEF PendingChanges

\* The types and argument kinds of VoteService hold in every reachable state.
THEOREM TypeCorrect == Spec => []TypeOK
<1>1. Init => TypeOK
  <2>1. NoLocal \in Local
    BY DEF NoLocal, Local
  <2>2. [phase |-> "before", isFinalized |-> FALSE] \in VotingRow
    BY DEF VotingRow, Phases
  <2>3. Init => RequestsOK
    BY <2>1 DEF Init, RequestsOK, PCs, SignPCs, VotePCs, FinalizePCs
  <2>4. Init => StoreOK
    BY <2>2, FaultsAssumption DEF Init, StoreOK
  <2> QED
    BY <2>3, <2>4 DEF TypeOK
<1>2. TypeOK /\ [Next]_vars => TypeOK'
  <2> SUFFICES ASSUME TypeOK, [Next]_vars PROVE TypeOK'
    OBVIOUS
  <2>1. ASSUME NEW p \in Requests,
               \/ Begin(p) \/ SignStep(p) \/ VoteStep(p) \/ FinalizeStep(p)
               \/ Crash(p) \/ Throw(p)
        PROVE  TypeOK'
    BY <2>1, SignTypes, VoteTypes, FinalizeTypes, FailureTypes DEF Begin
  <2>2. CASE UNCHANGED vars
    BY <2>2 DEF vars, TypeOK, RequestsOK, StoreOK
  <2> QED
    BY <2>1, <2>2, EnvironmentTypes DEF Next
<1> QED
  BY <1>1, <1>2, PTL DEF Spec

-----------------------------------------------------------------------------
(* The invariant: what a step never takes away.                            *)

Grows ==
    /\ participations \subseteq participations'
    /\ ballots \subseteq ballots'
    /\ replies \subseteq replies'
    /\ \A t \in Tokens : PracticeOnly(t) => PracticeOnly(t)'

LEMMA RowsOfCommit ==
    ASSUME NEW p \in Requests, arg[p].selection # {} \/ arg[p].abstain
    PROVE  /\ \E r \in Rows(p) : r.token = arg[p].token
           /\ \A r \in Rows(p) : r.token = arg[p].token /\ r.voting = arg[p].voting
<1>1. PICK o : o \in Picked(p)
  <2>1. CASE arg[p].abstain
    BY <2>1 DEF Picked
  <2>2. CASE Other \in arg[p].selection
    BY <2>2 DEF Picked
  <2>3. CASE arg[p].selection # {} /\ Other \notin arg[p].selection
    BY <2>3 DEF Picked
  <2> QED
    BY <2>1, <2>2, <2>3
<1>2. [voting |-> arg[p].voting, option |-> o, token |-> arg[p].token] \in Rows(p)
  BY <1>1 DEF Rows
<1>3. \A r \in Rows(p) : r.token = arg[p].token /\ r.voting = arg[p].voting
  BY DEF Rows
<1> QED
  BY <1>2, <1>3

LEMMA StepGrows ==
    ASSUME TypeOK, VoteInv, [Next]_vars
    PROVE  Grows
<1>1. ASSUME NEW p \in Requests, VoteCommit(p) PROVE Grows
  <2>1. CASE UNCHANGED <<ballots, pending>>
    BY <1>1, <2>1 DEF Grows, VoteCommit, PracticeOnly, IsPending, HasBallot
  <2>2. CASE /\ ballots' = ballots \cup Rows(p)
             /\ pending' = [pending EXCEPT ![arg[p].token] = NoRow]
    <3>1. arg[p].selection # {} \/ arg[p].abstain
      BY <1>1 DEF VoteCommit, VoteInv, RequestInv, VotingSigned
    <3>2. \E b \in ballots' : b.token = arg[p].token
      BY <2>2, <3>1, RowsOfCommit
    <3>3. ASSUME NEW t \in Tokens, PracticeOnly(t), t # arg[p].token PROVE PracticeOnly(t)'
      BY <2>2, <3>3 DEF PracticeOnly, IsPending, HasBallot, TypeOK, StoreOK
    <3> QED
      BY <1>1, <2>2, <3>2, <3>3 DEF Grows, VoteCommit, PracticeOnly, HasBallot
  <2> QED
    BY <1>1, <2>1, <2>2 DEF VoteCommit
<1>2. ASSUME NEW p \in Requests, SignPending(p) PROVE Grows
  <2>1. arg[p].token \in Tokens
    BY <1>2, ArgFields DEF SignPending, TypeOK, SignPCs
  <2> QED
    BY <1>2, <2>1 DEF SignPending, Grows, PracticeOnly, IsPending, HasBallot, TypeOK, StoreOK
<1>3. ASSUME NEW p \in Requests, SignParticipate(p) PROVE Grows
  BY <1>3 DEF SignParticipate, Grows, PracticeOnly, IsPending, HasBallot
<1>4. ASSUME NEW t \in Tokens, PendingExpires(t) PROVE Grows
  <2>1. pending[t] \in PendingRow
    BY <1>4 DEF PendingExpires, IsPending, TypeOK, StoreOK
  <2>2. pending'[t] = [pending[t] EXCEPT !.expired = TRUE]
    BY <1>4 DEF PendingExpires, TypeOK, StoreOK
  <2>3. pending'[t].practice = pending[t].practice /\ pending'[t].voting = pending[t].voting
    BY <2>1, <2>2 DEF PendingRow
  <2>4. pending'[t] # NoRow
    <3>1. pending'[t] \in PendingRow
      BY <2>1, <2>2 DEF PendingRow
    <3> QED
      BY <3>1, NullAssumption DEF PendingRow, NoRow
  <2> QED
    BY <1>4, <2>3, <2>4
       DEF PendingExpires, Grows, PracticeOnly, IsPending, HasBallot, TypeOK, StoreOK
<1>8. ASSUME NEW t \in SurveyedTokens, SurveySignsToken(t) \/ SurveySpendsToken(t) PROVE Grows
  <2>1. \A u \in Tokens : u # t => pending'[u] = pending[u]
    BY <1>8, ArgsAssumption DEF SurveySignsToken, SurveySpendsToken, TypeOK, StoreOK
  <2> QED
    BY <1>8, <2>1 DEF SurveySignsToken, SurveySpendsToken, Grows, PracticeOnly, IsPending, HasBallot
<1>5. ASSUME UNCHANGED <<participations, ballots, pending>>, replies \subseteq replies' PROVE Grows
  BY <1>5 DEF Grows, PracticeOnly, IsPending, HasBallot
<1>6. ASSUME NEW p \in Requests,
             \/ SignBegin(p) \/ SignCheck(p) \/ SignReply(p) \/ VoteBegin(p) \/ VotePending(p)
             \/ VoteGuards(p) \/ VoteTx(p) \/ VoteCache(p) \/ VoteRelease(p)
             \/ FinalizeBegin(p) \/ FinalizeStep(p) \/ Crash(p) \/ Throw(p)
      PROVE  UNCHANGED <<participations, ballots, pending>> /\ replies \subseteq replies'
  BY <1>6 DEF SignBegin, SignCheck, SignReply, VoteBegin, VotePending, VoteGuards, VoteTx,
              VoteCache, VoteRelease, FinalizeBegin, FinalizeStep, FinalizeOptions,
              FinalizeAbstentions, FinalizeTotal, FinalizeRead, FinalizeSeal, FinalizeAudit,
              Crash, Throw, Tell, postgresVars
<1>7. ASSUME \/ UNCHANGED vars
             \/ \E v \in Votings : Tick(v)
             \/ \E v \in Votings, u \in Users : LockExpires(v, u)
      PROVE  UNCHANGED <<participations, ballots, pending, replies>>
  BY <1>7 DEF vars, Tick, LockExpires, postgresVars
<1> QED
  BY <1>1, <1>2, <1>3, <1>4, <1>5, <1>6, <1>7, <1>8 DEF Next, Begin, SignStep, VoteStep, PendingChanges

-----------------------------------------------------------------------------
(* The invariant: the requests.                                            *)

LEMMA GrowsKeepsPaid ==
    ASSUME Grows, NEW v, NEW t
    PROVE  /\ Paid(v, t) => Paid(v, t)'
           /\ HasBallot(t) => HasBallot(t)'
           /\ HasSignature(v, t) => HasSignature(v, t)'
           /\ BallotsOf(v) \subseteq BallotsOf(v)'
           /\ t \in Tokens => \A b \in BOOLEAN : SignaturePaid(v, t, b) => SignaturePaid(v, t, b)'
<1>1. HasSignature(v, t) => HasSignature(v, t)'
  BY DEF Grows, HasSignature
<1> QED
  BY <1>1 DEF Grows, Paid, HasBallot, BallotsOf, SignaturePaid

\* A request that does not move keeps its part of the invariant.
LEMMA StillKeepsInv ==
    ASSUME Grows, NEW q \in Requests, RequestInv(q),
           pc'[q] = pc[q], arg'[q] = arg[q], local'[q] = local[q]
    PROVE  RequestInv(q)'
<1>1. VotingSigned(q)'
  BY DEF Grows, HasSignature, VotingSigned, RequestInv
<1>2. CountingCovered(q)'
  BY GrowsKeepsPaid DEF CountingCovered, RequestInv
<1> QED
  BY <1>1, <1>2 DEF RequestInv

\* A request that is somewhere the invariant says nothing about.
LEMMA ElsewhereKeepsInv ==
    ASSUME NEW q \in Requests,
           pc'[q] \notin {"voteGuards", "voteTx", "voteCommit",
                          "finAbstentions", "finTotal", "finSeal"}
    PROVE  RequestInv(q)'
BY DEF RequestInv, VotingSigned, CountingCovered

StepOf(p) ==
    \/ Begin(p) \/ SignStep(p) \/ VoteStep(p) \/ FinalizeStep(p) \/ Crash(p) \/ Throw(p)

LEMMA StepsMoveOne ==
    ASSUME TypeOK, NEW p \in Requests, StepOf(p), NEW q \in Requests, q # p
    PROVE  pc'[q] = pc[q] /\ arg'[q] = arg[q] /\ local'[q] = local[q]
<1> USE DEF TypeOK, RequestsOK
<1>1. ASSUME End(p) PROVE pc'[q] = pc[q] /\ arg'[q] = arg[q] /\ local'[q] = local[q]
  BY <1>1 DEF End, Goto
<1>2. CASE Begin(p)
  BY <1>2 DEF Begin, SignBegin, VoteBegin, FinalizeBegin, Start, Goto
<1>3. CASE SignStep(p)
  BY <1>1, <1>3 DEF SignStep, SignCheck, SignPending, SignParticipate, SignReply, Goto
<1>4. CASE VoteStep(p)
  BY <1>1, <1>4 DEF VoteStep, VotePending, VoteGuards, VoteTx, VoteCommit, VoteCache, VoteRelease,
                    VoteReject, Goto
<1>5. CASE FinalizeStep(p)
  BY <1>1, <1>5 DEF FinalizeStep, FinalizeOptions, FinalizeAbstentions, FinalizeTotal,
                    FinalizeSeal, FinalizeAudit, FinalizeRead, Goto
<1>6. CASE Crash(p) \/ Throw(p)
  BY <1>1, <1>6 DEF Crash, Throw, VoteReject, Goto
<1> QED
  BY <1>2, <1>3, <1>4, <1>5, <1>6 DEF StepOf

LEMMA VoteStepKeepsInv ==
    ASSUME TypeOK, VoteInv, Grows, NEW p \in Requests, VoteStep(p)
    PROVE  RequestInv(p)'
<1> USE DEF TypeOK, RequestsOK, PCs, VotePCs
<1> DEFINE v == arg[p].voting
           t == arg[p].token
           Elsewhere == pc'[p] \in {"idle", "voteRelease", "voteCache"}
<1>1. CASE Elsewhere
  BY <1>1, ElsewhereKeepsInv
<1>2. ASSUME \/ pc'[p] = "voteGuards"
             \/ /\ pc'[p] \in {"voteTx", "voteCommit"}
                /\ ~local'[p].practice /\ (arg[p].selection # {} \/ arg[p].abstain),
             HasSignature(v, t),
             arg' = arg
      PROVE  RequestInv(p)'
  <2>1. HasSignature(v, t)'
    BY <1>2 DEF Grows, HasSignature
  <2> QED
    BY <1>2, <2>1 DEF RequestInv, VotingSigned, CountingCovered
<1>3. CASE VotePending(p) /\ ~Elsewhere
  <2>1. pc'[p] = "voteGuards" /\ arg' = arg /\ HasSignature(v, t)
    BY <1>3 DEF VotePending, VoteReject, Goto
  <2> QED
    BY <1>2, <2>1
<1>4. CASE VoteGuards(p) /\ ~Elsewhere
  <2>1. /\ pc'[p] \in {"voteTx", "voteCommit"} /\ UNCHANGED <<arg, local>>
        /\ ~local[p].practice
        /\ ChoiceAllowed(v, arg[p].selection, arg[p].abstain)
        /\ pc[p] = "voteGuards"
    BY <1>4 DEF VoteGuards, VoteReject, Goto
  <2>2. arg[p].selection # {} \/ arg[p].abstain
    BY <2>1 DEF ChoiceAllowed
  <2> QED
    BY <1>2, <2>1, <2>2 DEF VoteInv, RequestInv, VotingSigned
<1>5. CASE VoteTx(p)
  <2>1. /\ pc'[p] = "voteCommit" /\ arg' = arg /\ pc[p] = "voteTx"
        /\ local'[p].practice = local[p].practice
    BY <1>5 DEF VoteTx, Goto, Local
  <2> QED
    BY <1>2, <2>1 DEF VoteInv, RequestInv, VotingSigned
<1>6. CASE VoteCommit(p) \/ VoteCache(p) \/ VoteRelease(p)
  BY <1>1, <1>6 DEF VoteCommit, VoteCache, VoteRelease, VoteReject, End, Goto
<1> QED
  BY <1>1, <1>3, <1>4, <1>5, <1>6 DEF VoteStep

LEMMA FinalizeStepKeepsInv ==
    ASSUME TypeOK, VoteInv, Grows, NEW p \in Requests, FinalizeStep(p)
    PROVE  RequestInv(p)'
<1> USE DEF TypeOK, RequestsOK, PCs, FinalizePCs
<1>1. CASE FinalizeOptions(p)
  <2>1. /\ pc'[p] = "finAbstentions" /\ arg' = arg
        /\ local'[p].options \subseteq BallotsOf(arg[p].voting)
    BY <1>1 DEF FinalizeOptions, FinalizeRead, Goto, Local
  <2> QED
    BY <2>1, GrowsKeepsPaid DEF RequestInv, VotingSigned, CountingCovered
<1>2. CASE FinalizeAbstentions(p)
  <2>1. /\ pc[p] = "finAbstentions" /\ pc'[p] = "finTotal" /\ arg' = arg
        /\ local'[p].options = local[p].options
        /\ local'[p].abstentions \subseteq BallotsOf(arg[p].voting)
    BY <1>2 DEF FinalizeAbstentions, FinalizeRead, Goto, Local
  <2>2. local[p].options \subseteq BallotsOf(arg[p].voting)
    BY <2>1 DEF VoteInv, RequestInv, CountingCovered
  <2> QED
    BY <2>1, <2>2, GrowsKeepsPaid DEF RequestInv, VotingSigned, CountingCovered
<1>3. CASE FinalizeTotal(p)
  <2>1. /\ pc[p] = "finTotal" /\ pc'[p] = "finSeal" /\ arg' = arg
        /\ local'[p].options = local[p].options
        /\ local'[p].abstentions = local[p].abstentions
        /\ local'[p].total = BallotsOf(arg[p].voting)
    BY <1>3 DEF FinalizeTotal, FinalizeRead, Goto, Local
  <2>2. local[p].options \cup local[p].abstentions \subseteq BallotsOf(arg[p].voting)
    BY <2>1 DEF VoteInv, RequestInv, CountingCovered
  <2> QED
    BY <2>1, <2>2, GrowsKeepsPaid DEF RequestInv, VotingSigned, CountingCovered
<1>4. CASE FinalizeSeal(p) \/ FinalizeAudit(p)
  BY <1>4, ElsewhereKeepsInv DEF FinalizeSeal, FinalizeAudit, End, Goto
<1> QED
  BY <1>1, <1>2, <1>3, <1>4 DEF FinalizeStep

LEMMA RequestInvStep ==
    ASSUME TypeOK, VoteInv, Grows, [Next]_vars, NEW q \in Requests
    PROVE  RequestInv(q)'
<1>1. RequestInv(q)
  BY DEF VoteInv
<1>2. ASSUME NEW p \in Requests, StepOf(p), p # q PROVE RequestInv(q)'
  BY <1>1, <1>2, StepsMoveOne, StillKeepsInv
<1>3. ASSUME StepOf(q) PROVE RequestInv(q)'
  <2>1. CASE Begin(q) \/ Crash(q) \/ Throw(q) \/ SignStep(q)
    <3>1. pc'[q] \in {"votePending", "finOptions", "voteRelease", "idle"} \cup SignPCs
      BY <2>1 DEF Begin, SignBegin, VoteBegin, FinalizeBegin, Start, Crash, Throw, VoteReject,
                  SignStep, SignCheck, SignPending, SignParticipate, SignReply,
                  End, Goto, TypeOK, RequestsOK, SignPCs
    <3> QED
      BY <3>1, ElsewhereKeepsInv DEF SignPCs
  <2> QED
    BY <1>3, <2>1, VoteStepKeepsInv, FinalizeStepKeepsInv DEF StepOf
<1>4. ASSUME \/ UNCHANGED vars
             \/ \E v \in Votings : Tick(v)
             \/ PendingChanges
             \/ \E v \in Votings, u \in Users : LockExpires(v, u)
      PROVE  RequestInv(q)'
  <2>1. UNCHANGED <<pc, arg, local>>
    BY <1>4 DEF vars, Tick, PendingChanges, PendingExpires, SurveySignsToken, SurveySpendsToken,
              LockExpires, requestVars
  <2> QED
    BY <1>1, <2>1, StillKeepsInv
<1> QED
  BY <1>2, <1>3, <1>4 DEF Next, StepOf

-----------------------------------------------------------------------------
(* The invariant: what the steps write.                                    *)

LEMMA WritesOf ==
    ASSUME [Next]_vars
    PROVE  /\ \/ UNCHANGED participations
              \/ \E p \in Requests : SignParticipate(p)
           /\ \/ UNCHANGED ballots
              \/ \E p \in Requests : VoteCommit(p)
           /\ \/ UNCHANGED results
              \/ \E p \in Requests : FinalizeSeal(p)
           /\ \/ UNCHANGED replies
              \/ \E p \in Requests : SignReply(p) \/ VoteRelease(p)
<1> DEFINE Written ==
              /\ \/ UNCHANGED participations
                 \/ \E p \in Requests : SignParticipate(p)
              /\ \/ UNCHANGED ballots
                 \/ \E p \in Requests : VoteCommit(p)
              /\ \/ UNCHANGED results
                 \/ \E p \in Requests : FinalizeSeal(p)
              /\ \/ UNCHANGED replies
                 \/ \E p \in Requests : SignReply(p) \/ VoteRelease(p)
<1>1. ASSUME NEW p \in Requests, StepOf(p) PROVE Written
  <2>1. CASE Begin(p) \/ Crash(p) \/ Throw(p)
    BY <2>1 DEF Begin, SignBegin, VoteBegin, FinalizeBegin, Crash, Throw, postgresVars
  <2>2. CASE SignStep(p)
    BY <2>2 DEF SignStep, SignCheck, SignPending, SignParticipate, SignReply, postgresVars
  <2>3. CASE VoteStep(p)
    BY <2>3 DEF VoteStep, VotePending, VoteGuards, VoteTx, VoteCommit, VoteCache, VoteRelease,
                postgresVars
  <2>4. CASE FinalizeStep(p)
    BY <2>4 DEF FinalizeStep, FinalizeOptions, FinalizeAbstentions, FinalizeTotal, FinalizeRead,
                FinalizeSeal, FinalizeAudit, postgresVars
  <2> QED
    BY <1>1, <2>1, <2>2, <2>3, <2>4 DEF StepOf
<1>2. ASSUME \/ UNCHANGED vars
             \/ \E v \in Votings : Tick(v)
             \/ PendingChanges
             \/ \E v \in Votings, u \in Users : LockExpires(v, u)
      PROVE  Written
  BY <1>2 DEF vars, Tick, PendingChanges, PendingExpires, SurveySignsToken, SurveySpendsToken,
              LockExpires, postgresVars
<1> QED
  BY <1>1, <1>2 DEF Next, StepOf

LEMMA ParticipationsStep ==
    ASSUME VoteInv, [Next]_vars
    PROVE  OneParticipation'
<1>1. CASE UNCHANGED participations
  BY <1>1 DEF VoteInv, OneParticipation
<1>2. ASSUME NEW p \in Requests, SignParticipate(p) PROVE OneParticipation'
  BY <1>2 DEF SignParticipate, ParticipationUnique, HasParticipated, VoteInv, OneParticipation
<1> QED
  BY <1>1, <1>2, WritesOf

LEMMA BallotsStep ==
    ASSUME TypeOK, VoteInv, Grows, [Next]_vars
    PROVE  BallotsSigned'
<1>1. ASSUME NEW b \in ballots PROVE HasSignature(b.voting, b.token)'
  BY GrowsKeepsPaid DEF VoteInv, BallotsSigned
<1>2. CASE UNCHANGED ballots
  BY <1>1, <1>2 DEF VoteInv, BallotsSigned
<1>3. ASSUME NEW p \in Requests, VoteCommit(p), ~UNCHANGED ballots PROVE BallotsSigned'
  <2>1. /\ ballots' = ballots \cup Rows(p)
        /\ SignaturesUnique(Rows(p))
        /\ pc[p] = "voteCommit"
    BY <1>3 DEF VoteCommit
  <2>2. /\ arg[p].selection # {} \/ arg[p].abstain
        /\ HasSignature(arg[p].voting, arg[p].token)
    BY <2>1 DEF VoteInv, RequestInv, VotingSigned
  <2>4. ASSUME NEW b \in Rows(p) PROVE HasSignature(b.voting, b.token)'
    <3>1. b.voting = arg[p].voting /\ b.token = arg[p].token
      BY <2>2, RowsOfCommit
    <3>2. HasSignature(b.voting, b.token)
      BY <2>2, <3>1
    <3> QED
      BY <3>2, GrowsKeepsPaid
  <2>5. \A b1, b2 \in ballots' : b1.token = b2.token => b1 = b2
    BY <2>1 DEF SignaturesUnique, VoteInv, BallotsSigned
  <2> QED
    BY <1>1, <2>1, <2>4, <2>5 DEF BallotsSigned
<1> QED
  BY <1>2, <1>3, WritesOf

LEMMA SealedStep ==
    ASSUME TypeOK, VoteInv, Grows, [Next]_vars
    PROVE  SealedTallyCovered'
<1>1. ASSUME NEW v \in Votings, results'[v] = results[v], IsSealed(v)'
      PROVE  /\ results'[v].options \cup results'[v].abstentions \subseteq results'[v].total
             /\ results'[v].total \subseteq BallotsOf(v)'
  BY <1>1, GrowsKeepsPaid DEF VoteInv, SealedTallyCovered, IsSealed
<1>2. CASE UNCHANGED results
  BY <1>1, <1>2 DEF SealedTallyCovered
<1>3. ASSUME NEW p \in Requests, FinalizeSeal(p) PROVE SealedTallyCovered'
  <2>1. PICK w \in Votings : w = arg[p].voting
    BY <1>3 DEF FinalizeSeal, TypeOK, RequestsOK, FinalizePCs, FinalizeArg
  <2>2. \A v \in Votings : v # w => results'[v] = results[v]
    BY <1>3, <2>1 DEF FinalizeSeal, TypeOK, StoreOK
  <2>3. \/ results'[w] = results[w]
        \/ results'[w] = [options |-> local[p].options, abstentions |-> local[p].abstentions,
                          total |-> local[p].total]
    BY <1>3, <2>1 DEF FinalizeSeal, TypeOK, StoreOK
  <2>4. /\ local[p].options \cup local[p].abstentions \subseteq local[p].total
        /\ local[p].total \subseteq BallotsOf(w)
    BY <1>3, <2>1 DEF FinalizeSeal, VoteInv, RequestInv, CountingCovered
  <2>5. BallotsOf(w) \subseteq BallotsOf(w)'
    BY GrowsKeepsPaid
  <2>6. IsSealed(w)' =>
          /\ results'[w].options \cup results'[w].abstentions \subseteq results'[w].total
          /\ results'[w].total \subseteq BallotsOf(w)'
    BY <1>1, <2>3, <2>4, <2>5
  <2> QED
    BY <1>1, <2>2, <2>6 DEF SealedTallyCovered
<1> QED
  BY <1>2, <1>3, WritesOf

-----------------------------------------------------------------------------
(* The theorems.                                                           *)

LEMMA VoteInvInit == Init => VoteInv
<1> SUFFICES ASSUME Init PROVE VoteInv
  OBVIOUS
<1>1. \A p \in Requests : RequestInv(p)
  BY DEF Init, RequestInv, VotingSigned, CountingCovered
<1>2. SealedTallyCovered
  BY DEF Init, SealedTallyCovered, IsSealed
<1> QED
  BY <1>1, <1>2 DEF Init, VoteInv, OneParticipation, BallotsSigned

\* Whatever clients send: a vote that reaches its transaction has a signature of
\* its voting and something to insert, participations and ballots keep their
\* unique columns, and counts are of ballots.
THEOREM VoteInvariant == Spec => []VoteInv
<1>1. TypeOK /\ TypeOK' /\ VoteInv /\ [Next]_vars => VoteInv'
  <2> SUFFICES ASSUME TypeOK, VoteInv, [Next]_vars PROVE VoteInv'
    OBVIOUS
  <2>1. Grows
    BY StepGrows
  <2> QED
    BY <2>1, RequestInvStep, ParticipationsStep, BallotsStep, SealedStep DEF VoteInv
<1> QED
  BY <1>1, VoteInvInit, TypeCorrect, PTL DEF Spec

\* Whatever clients send, signing what they like and naming the tokens they
\* like, every ballot has a signature the server handed out for its voting, and
\* no signature is on two ballots.
THEOREM EveryBallotSigned == Spec => []BallotsSigned
<1>1. VoteInv => BallotsSigned
  BY DEF VoteInv
<1> QED
  BY <1>1, VoteInvariant, PTL

-----------------------------------------------------------------------------
(* What was paid for, with clients that blind the token they name.         *)

\* A request that does not move keeps what it paid.
LEMMA StillKeepsPaid ==
    ASSUME TypeOK, Grows, NEW q \in Requests, SigningPaid(q) /\ VotingPaid(q),
           pc'[q] = pc[q], arg'[q] = arg[q], local'[q] = local[q]
    PROVE  SigningPaid(q)' /\ VotingPaid(q)'
<1>1. SigningPaid(q)'
  BY ArgFields, GrowsKeepsPaid DEF SigningPaid, TypeOK, SignPCs, SignaturePaid
<1>2. VotingPaid(q)'
  BY GrowsKeepsPaid DEF VotingPaid
<1> QED
  BY <1>1, <1>2

LEMMA SignStepKeepsPaid ==
    ASSUME FreshTokens, TypeOK, PaidInv, Grows, NEW p \in Requests, SignStep(p)
    PROVE  SigningPaid(p)' /\ VotingPaid(p)'
<1> USE DEF TypeOK, RequestsOK, PCs, SignPCs
<1>1. CASE pc'[p] # "signReply"
  <2>1. pc'[p] \in {"idle", "signPending", "signParticipate"}
    BY <1>1 DEF SignStep, SignCheck, SignPending, SignParticipate, SignReply, End, Goto
  <2>2. pc'[p] = "signParticipate" => ~arg'[p].practice
    BY DEF SignStep, SignCheck, SignPending, SignParticipate, SignReply, End, Goto
  <2> QED
    BY <2>1, <2>2 DEF SigningPaid, VotingPaid
<1>2. CASE pc'[p] = "signReply"
  <2>1. CASE SignPending(p)
    <3>1. /\ arg[p].practice /\ UNCHANGED arg /\ arg[p].token \in Tokens \ SurveyedTokens
          /\ pending' = [pending EXCEPT ![arg[p].token] =
                [voting |-> arg[p].voting, practice |-> arg[p].practice, expired |-> FALSE]]
      BY <1>2, <2>1, ArgFields DEF SignPending, End, Goto, FreshTokens
    <3>2. pending'[arg[p].token] # NoRow
      <4>1. arg[p].voting \in Votings
        BY <2>1, ArgFields DEF SignPending
      <4>2. pending'[arg[p].token].voting = arg[p].voting
        BY <3>1 DEF StoreOK
      <4> QED
        BY <4>1, <4>2, NullAssumption DEF NoRow
    <3>3. PracticeOnly(arg[p].token)'
      BY <3>1, <3>2 DEF PracticeOnly, IsPending, StoreOK
    <3> QED
      BY <1>2, <3>1, <3>3 DEF SigningPaid, SignaturePaid, VotingPaid
  <2>2. CASE SignParticipate(p)
    <3>1. Paid(arg[p].voting, arg[p].token)' /\ UNCHANGED arg
      <4>1. arg[p].blinded = arg[p].token
        BY <2>2, ArgFields DEF SignParticipate, FreshTokens
      <4> QED
        BY <1>2, <2>2, <4>1 DEF SignParticipate, Paid, UserOf, End, Goto
    <3>2. ~arg[p].practice
      BY <2>2 DEF SignParticipate, PaidInv, SigningPaid
    <3> QED
      BY <1>2, <3>1, <3>2 DEF SigningPaid, SignaturePaid, VotingPaid
  <2> QED
    BY <1>2, <2>1, <2>2 DEF SignStep, SignCheck, SignReply, End, Goto
<1> QED
  BY <1>1, <1>2

LEMMA VoteStepKeepsPaid ==
    ASSUME TypeOK, PaidInv, Grows, NEW p \in Requests, VoteStep(p)
    PROVE  SigningPaid(p)' /\ VotingPaid(p)'
<1> USE DEF TypeOK, RequestsOK, PCs, VotePCs
<1> DEFINE v == arg[p].voting
           t == arg[p].token
<1>1. CASE pc'[p] \in {"idle", "voteRelease", "voteCache"}
  BY <1>1 DEF SigningPaid, VotingPaid
<1>2. ASSUME pc'[p] \in {"voteGuards", "voteTx", "voteCommit"}, arg' = arg,
             ~local'[p].practice => Paid(v, t) \/ HasBallot(t)
      PROVE  SigningPaid(p)' /\ VotingPaid(p)'
  BY <1>2, GrowsKeepsPaid DEF SigningPaid, VotingPaid
<1>3. CASE VotePending(p) /\ pc'[p] = "voteGuards"
  <2>1. /\ arg' = arg /\ IsPending(t) /\ HasSignature(v, t)
        /\ local'[p].practice = IsPractice(p)
    BY <1>3 DEF VotePending, VoteReject, Goto, Local
  <2>2. PICK r \in replies : r.kind = "signed" /\ r.voting = v /\ r.token = t
    BY <2>1 DEF HasSignature
  <2>3. SignaturePaid(v, t, r.practice)
    BY <2>2 DEF PaidInv, RepliesPaid
  <2>4. ~IsPractice(p) => Paid(v, t) \/ HasBallot(t)
    BY <2>3 DEF SignaturePaid, PracticeOnly, IsPractice
  <2> QED
    BY <1>2, <1>3, <2>1, <2>4
<1>4. CASE VoteGuards(p) /\ pc'[p] \in {"voteTx", "voteCommit"}
  <2>1. UNCHANGED <<arg, local>> /\ pc[p] = "voteGuards"
    BY <1>4 DEF VoteGuards, VoteReject, Goto
  <2> QED
    BY <1>2, <1>4, <2>1 DEF PaidInv, VotingPaid
<1>5. CASE VoteTx(p)
  <2>1. /\ pc'[p] = "voteCommit" /\ arg' = arg /\ pc[p] = "voteTx"
        /\ local'[p].practice = local[p].practice
    BY <1>5 DEF VoteTx, Goto, Local
  <2> QED
    BY <1>2, <2>1 DEF PaidInv, VotingPaid
<1>6. CASE VoteCommit(p) \/ VoteCache(p) \/ VoteRelease(p)
  BY <1>1, <1>6 DEF VoteCommit, VoteCache, VoteRelease, VoteReject, End, Goto
<1>7. \/ pc'[p] \in {"idle", "voteRelease", "voteCache"}
      \/ VotePending(p) /\ pc'[p] = "voteGuards"
      \/ VoteGuards(p) /\ pc'[p] \in {"voteTx", "voteCommit"}
      \/ VoteTx(p) \/ VoteCommit(p) \/ VoteCache(p) \/ VoteRelease(p)
  BY DEF VoteStep, VotePending, VoteGuards, VoteReject, Goto
<1> QED
  BY <1>1, <1>3, <1>4, <1>5, <1>6, <1>7

LEMMA RequestPaidStep ==
    ASSUME FreshTokens, TypeOK, PaidInv, Grows, [Next]_vars, NEW q \in Requests
    PROVE  SigningPaid(q)' /\ VotingPaid(q)'
<1>1. SigningPaid(q) /\ VotingPaid(q)
  BY DEF PaidInv
<1>2. ASSUME NEW p \in Requests, StepOf(p), p # q PROVE SigningPaid(q)' /\ VotingPaid(q)'
  BY <1>1, <1>2, StepsMoveOne, StillKeepsPaid
<1>3. ASSUME StepOf(q) PROVE SigningPaid(q)' /\ VotingPaid(q)'
  <2>1. CASE Begin(q) \/ Crash(q) \/ Throw(q) \/ FinalizeStep(q)
    <3>1. pc'[q] \in {"signCheck", "votePending", "voteRelease", "idle"} \cup FinalizePCs
      BY <2>1 DEF Begin, SignBegin, VoteBegin, FinalizeBegin, Start, Crash, Throw, VoteReject,
                  FinalizeStep, FinalizeOptions, FinalizeAbstentions, FinalizeTotal,
                  FinalizeRead, FinalizeSeal, FinalizeAudit, End, Goto, TypeOK, RequestsOK,
                  FinalizePCs
    <3> QED
      BY <3>1 DEF SigningPaid, VotingPaid, FinalizePCs
  <2> QED
    BY <1>3, <2>1, SignStepKeepsPaid, VoteStepKeepsPaid DEF StepOf
<1>4. ASSUME \/ UNCHANGED vars
             \/ \E v \in Votings : Tick(v)
             \/ PendingChanges
             \/ \E v \in Votings, u \in Users : LockExpires(v, u)
      PROVE  SigningPaid(q)' /\ VotingPaid(q)'
  <2>1. UNCHANGED <<pc, arg, local>>
    BY <1>4 DEF vars, Tick, PendingChanges, PendingExpires, SurveySignsToken, SurveySpendsToken,
              LockExpires, requestVars
  <2> QED
    BY <1>1, <2>1, StillKeepsPaid
<1> QED
  BY <1>2, <1>3, <1>4 DEF Next, StepOf

LEMMA RepliesStep ==
    ASSUME FreshTokens, TypeOK, PaidInv, Grows, [Next]_vars
    PROVE  RepliesPaid'
<1>1. ASSUME NEW r \in replies, r.kind = "signed"
      PROVE  SignaturePaid(r.voting, r.token, r.practice)'
  <2>1. r.token \in Tokens /\ r.practice \in BOOLEAN
    BY DEF TypeOK, StoreOK, Reply
  <2>2. SignaturePaid(r.voting, r.token, r.practice)
    BY <1>1 DEF PaidInv, RepliesPaid
  <2> QED
    BY <2>1, <2>2, GrowsKeepsPaid DEF SignaturePaid
<1>2. CASE UNCHANGED replies
  BY <1>1, <1>2 DEF RepliesPaid
<1>3. ASSUME NEW p \in Requests, SignReply(p) PROVE RepliesPaid'
  <2>1. arg[p].token \in Tokens /\ arg[p].practice \in BOOLEAN /\ arg[p].blinded = arg[p].token
    BY <1>3, ArgFields DEF SignReply, SignPCs, TypeOK, FreshTokens
  <2>2. SignaturePaid(arg[p].voting, arg[p].token, arg[p].practice)
    BY <1>3 DEF SignReply, PaidInv, SigningPaid
  <2>3. ASSUME NEW r \in replies' \ replies
        PROVE  r.voting = arg[p].voting /\ r.token = arg[p].token /\ r.practice = arg[p].practice
    BY <1>3, <2>1 DEF SignReply, Tell
  <2>4. ASSUME NEW r \in replies' \ replies
        PROVE  SignaturePaid(r.voting, r.token, r.practice)'
    BY <2>1, <2>2, <2>3, GrowsKeepsPaid DEF SignaturePaid
  <2> QED
    BY <1>1, <2>4 DEF RepliesPaid
<1>4. ASSUME NEW p \in Requests, VoteRelease(p) PROVE RepliesPaid'
  <2>1. ASSUME NEW r \in replies' \ replies PROVE r.kind = "voted"
    BY <1>4 DEF VoteRelease, Tell
  <2> QED
    BY <1>1, <2>1 DEF RepliesPaid
<1> QED
  BY <1>2, <1>3, <1>4, WritesOf

LEMMA BallotsPaidStep ==
    ASSUME TypeOK, VoteInv, PaidInv, Grows, [Next]_vars
    PROVE  BallotsPaid'
<1>1. ASSUME NEW b \in ballots PROVE Paid(b.voting, b.token)'
  BY GrowsKeepsPaid DEF PaidInv, BallotsPaid
<1>2. CASE UNCHANGED ballots
  BY <1>1, <1>2 DEF BallotsPaid
<1>3. ASSUME NEW p \in Requests, VoteCommit(p), ~UNCHANGED ballots PROVE BallotsPaid'
  <2>1. /\ ballots' = ballots \cup Rows(p)
        /\ SignaturesUnique(Rows(p))
        /\ pc[p] = "voteCommit"
    BY <1>3 DEF VoteCommit
  <2>2. /\ arg[p].selection # {} \/ arg[p].abstain
        /\ Paid(arg[p].voting, arg[p].token) \/ HasBallot(arg[p].token)
    BY <2>1 DEF VoteInv, RequestInv, VotingSigned, PaidInv, VotingPaid
  <2>3. ~HasBallot(arg[p].token)
    BY <2>1, <2>2, RowsOfCommit DEF SignaturesUnique, HasBallot
  <2>4. ASSUME NEW b \in Rows(p) PROVE Paid(b.voting, b.token)'
    <3>1. b.voting = arg[p].voting /\ b.token = arg[p].token
      BY <2>2, RowsOfCommit
    <3>2. Paid(b.voting, b.token)
      BY <2>2, <2>3, <3>1
    <3> QED
      BY <3>2, GrowsKeepsPaid DEF Paid
  <2> QED
    BY <1>1, <2>1, <2>4 DEF BallotsPaid
<1> QED
  BY <1>2, <1>3, WritesOf

\* With clients that blind the token they name, drawn for one request, every
\* signature that counts and every ballot is paid for by a participation.
THEOREM PaidInvariant ==
    ASSUME FreshTokens
    PROVE  Spec => []PaidInv
<1>1. Init => PaidInv
  <2>1. Init => \A p \in Requests : SigningPaid(p) /\ VotingPaid(p)
    BY DEF Init, SigningPaid, VotingPaid
  <2> QED
    BY <2>1 DEF Init, PaidInv, RepliesPaid, BallotsPaid
<1>2. TypeOK /\ VoteInv /\ PaidInv /\ [Next]_vars => PaidInv'
  <2> SUFFICES ASSUME TypeOK, VoteInv, PaidInv, [Next]_vars PROVE PaidInv'
    OBVIOUS
  <2>1. Grows
    BY StepGrows
  <2>2. \A p \in Requests : SigningPaid(p)' /\ VotingPaid(p)'
    BY <2>1, RequestPaidStep
  <2>3. RepliesPaid' /\ BallotsPaid'
    BY <2>1, RepliesStep, BallotsPaidStep
  <2> QED
    BY <2>2, <2>3 DEF PaidInv
<1> QED
  BY <1>1, <1>2, TypeCorrect, VoteInvariant, PTL DEF Spec

\* With such clients no voter has two ballots in a voting, however the requests,
\* the locks, the practice signatures, the surveys' pending ballots and the
\* crashes interleave.
THEOREM NoDoubleVote ==
    ASSUME FreshTokens
    PROVE  Spec => []OneBallotPerVoter
<1>1. VoteInv /\ PaidInv => OneBallotPerVoter
  <2> SUFFICES ASSUME VoteInv, PaidInv, NEW b1 \in ballots, NEW b2 \in ballots,
                      b1.voting = b2.voting, Owner[b1.token] = Owner[b2.token]
               PROVE  b1 = b2
    BY DEF OneBallotPerVoter
  <2>1. Paid(b1.voting, b1.token) /\ Paid(b2.voting, b2.token)
    BY DEF PaidInv, BallotsPaid
  <2>2. b1.token = b2.token
    BY <2>1 DEF Paid, VoteInv, OneParticipation
  <2> QED
    BY <2>2 DEF VoteInv, BallotsSigned
<1> QED
  BY <1>1, VoteInvariant, PaidInvariant, PTL

\* With such clients a voter is handed at most one signature that counts per
\* voting.
THEOREM NoDoubleSignature ==
    ASSUME FreshTokens
    PROVE  Spec => []OneSignaturePerVoter
<1>1. VoteInv /\ PaidInv => OneSignaturePerVoter
  BY DEF VoteInv, PaidInv, RepliesPaid, SignaturePaid, Paid, OneParticipation, OneSignaturePerVoter
<1> QED
  BY <1>1, VoteInvariant, PaidInvariant, PTL

-----------------------------------------------------------------------------
(* The counts.                                                             *)

\* Sealed totals cover the sealed tallies and count only ballots.
THEOREM SealedTotalsCover == Spec => []SealedTallyCovered
<1>1. VoteInv => SealedTallyCovered
  BY DEF VoteInv
<1> QED
  BY <1>1, VoteInvariant, PTL

\* A sealed result is never written again.
THEOREM SealedResultsStay == Spec => SealedForever
<1>1. ASSUME TypeOK, [Next]_vars, NEW v \in Votings, IsSealed(v)
      PROVE  results'[v] = results[v]
  <2>1. ASSUME NEW p \in Requests, FinalizeSeal(p) PROVE results'[v] = results[v]
    <3>1. CASE v = arg[p].voting
      <4>1. ~ResultUnique(arg[p].voting)
        BY <1>1, <3>1 DEF ResultUnique, IsSealed
      <4>2. UNCHANGED results
        BY <2>1, <4>1 DEF FinalizeSeal
      <4> QED
        BY <4>2
    <3>2. CASE v # arg[p].voting
      BY <1>1, <2>1, <3>2 DEF FinalizeSeal, TypeOK, StoreOK
    <3> QED
      BY <3>1, <3>2
  <2> QED
    BY <1>1, <2>1, WritesOf
<1>2. TypeOK /\ [Next]_vars => [\A v \in Votings : IsSealed(v) => results'[v] = results[v]]_vars
  BY <1>1
<1> QED
  BY <1>2, TypeCorrect, PTL DEF Spec, SealedForever

-----------------------------------------------------------------------------
(* What is left of "no ballot after the seal".                             *)

\* A vote in v that has passed its checks and has yet to store its ballot.
Past(p, v) == pc[p] \in {"voteTx", "voteCommit"} /\ arg[p].voting = v

\* Finalized, and no vote is past its checks.
Shut(v) == voting[v].isFinalized /\ \A p \in Requests : ~Past(p, v)

LEMMA FinalizedStays ==
    ASSUME TypeOK, [Next]_vars, NEW v \in Votings, voting[v].isFinalized
    PROVE  voting'[v].isFinalized
<1>0. voting \in [Votings -> VotingRow]
  BY DEF TypeOK, StoreOK
<1>1. ASSUME NEW p \in Requests, StepOf(p) PROVE voting'[v].isFinalized
  <2>1. CASE FinalizeSeal(p)
    <3>1. voting' = voting \/ voting' = [voting EXCEPT ![arg[p].voting].isFinalized = TRUE]
      BY <2>1 DEF FinalizeSeal
    <3> QED BY <1>0, <3>1 DEF VotingRow
  <2>2. CASE ~FinalizeSeal(p)
    <3>1. UNCHANGED voting
      BY <1>1, <2>2
      DEF StepOf, Begin, SignBegin, VoteBegin, FinalizeBegin, SignStep, SignCheck, SignPending,
          SignParticipate, SignReply, VoteStep, VotePending, VoteGuards, VoteTx, VoteCommit,
          VoteCache, VoteRelease, FinalizeStep, FinalizeOptions, FinalizeAbstentions,
          FinalizeTotal, FinalizeRead, FinalizeAudit, Crash, Throw, postgresVars
    <3> QED BY <3>1
  <2> QED BY <2>1, <2>2
<1>2. ASSUME NEW w \in Votings, Tick(w) PROVE voting'[v].isFinalized
  BY <1>0, <1>2 DEF Tick, VotingRow
<1>3. ASSUME \/ UNCHANGED vars
             \/ PendingChanges
             \/ \E w \in Votings, u \in Users : LockExpires(w, u)
      PROVE  UNCHANGED voting
  BY <1>3 DEF vars, PendingChanges, PendingExpires, SurveySignsToken, SurveySpendsToken, LockExpires, postgresVars
<1> QED BY <1>1, <1>2, <1>3 DEF Next, StepOf

\* Only the checks let a vote go on to its transaction.
LEMMA PastTheChecks ==
    ASSUME TypeOK, NEW p \in Requests, StepOf(p), NEW v \in Votings, Past(p, v)'
    PROVE  Past(p, v) \/ ~voting[v].isFinalized
<1> USE DEF TypeOK, RequestsOK, Goto, Past
<1>1. CASE VoteGuards(p)
  BY <1>1 DEF VoteGuards, VoteReject
<1>2. CASE VoteTx(p)
  BY <1>2 DEF VoteTx
<1>3. CASE Begin(p) \/ Crash(p) \/ Throw(p)
  BY <1>3 DEF Begin, SignBegin, VoteBegin, FinalizeBegin, Start, Crash, Throw, VoteReject, End
<1>4. CASE SignStep(p)
  BY <1>4 DEF SignStep, SignCheck, SignPending, SignParticipate, SignReply, End
<1>5. CASE VotePending(p) \/ VoteCommit(p) \/ VoteCache(p) \/ VoteRelease(p)
  BY <1>5 DEF VotePending, VoteCommit, VoteCache, VoteRelease, VoteReject, End
<1>6. CASE FinalizeStep(p)
  BY <1>6 DEF FinalizeStep, FinalizeOptions, FinalizeAbstentions, FinalizeTotal, FinalizeRead,
              FinalizeSeal, FinalizeAudit, End
<1> QED BY <1>1, <1>2, <1>3, <1>4, <1>5, <1>6 DEF StepOf, VoteStep

\* NoBallotAfterSeal, which the code refutes, holds up to the votes that had
\* passed their checks before the seal: once those are through, the ballots of
\* a finalized voting are the same for good.
StaysShut == [][\A v \in Votings : Shut(v) => Shut(v)' /\ BallotsOf(v)' = BallotsOf(v)]_vars

THEOREM FinalizedBoxCloses == Spec => StaysShut
<1>1. ASSUME TypeOK, VoteInv, [Next]_vars, NEW v \in Votings, Shut(v)
      PROVE  Shut(v)' /\ BallotsOf(v)' = BallotsOf(v)
  <2>1. BallotsOf(v)' = BallotsOf(v)
    <3>1. CASE UNCHANGED ballots
      BY <3>1 DEF BallotsOf
    <3>2. ASSUME NEW p \in Requests, VoteCommit(p) PROVE BallotsOf(v)' = BallotsOf(v)
      <4>1. pc[p] = "voteCommit" /\ arg[p].voting # v
        BY <1>1, <3>2 DEF Shut, Past, VoteCommit
      <4>2. arg[p].selection # {} \/ arg[p].abstain
        BY <1>1, <4>1 DEF VoteInv, RequestInv, VotingSigned
      <4>3. \A r \in Rows(p) : r.voting # v
        BY <4>1, <4>2, RowsOfCommit
      <4>4. ballots' = ballots \/ ballots' = ballots \cup Rows(p)
        BY <3>2 DEF VoteCommit
      <4> QED BY <4>3, <4>4 DEF BallotsOf
    <3> QED BY <1>1, <3>1, <3>2, WritesOf
  <2>2. voting'[v].isFinalized
    BY <1>1, FinalizedStays DEF Shut
  <2>3. ASSUME NEW q \in Requests PROVE ~Past(q, v)'
    <3>1. ASSUME NEW p \in Requests, StepOf(p) PROVE ~Past(q, v)'
      <4>1. CASE q = p
        BY <1>1, <3>1, <4>1, PastTheChecks DEF Shut
      <4>2. CASE q # p
        BY <1>1, <3>1, <4>2, StepsMoveOne DEF Shut, Past
      <4> QED BY <4>1, <4>2
    <3>2. ASSUME \/ UNCHANGED vars
                 \/ \E w \in Votings : Tick(w)
                 \/ PendingChanges
                 \/ \E w \in Votings, u \in Users : LockExpires(w, u)
          PROVE  ~Past(q, v)'
      <4>1. UNCHANGED <<pc, arg>>
        BY <3>2 DEF vars, Tick, PendingChanges, PendingExpires, SurveySignsToken, SurveySpendsToken,
              LockExpires, requestVars
      <4> QED BY <1>1, <4>1 DEF Shut, Past
    <3> QED BY <1>1, <3>1, <3>2 DEF Next, StepOf
  <2> QED BY <2>1, <2>2, <2>3 DEF Shut
<1>2. TypeOK /\ VoteInv /\ [Next]_vars
         => [\A v \in Votings : Shut(v) => Shut(v)' /\ BallotsOf(v)' = BallotsOf(v)]_vars
  BY <1>1
<1> QED BY <1>2, TypeCorrect, VoteInvariant, PTL DEF Spec, StaysShut

-----------------------------------------------------------------------------
(* What the back end claims of a ballot.                                   *)

\* The votes that are committed and not yet counted.
Uncounted(v) ==
    {p \in Requests : pc[p] = "voteCache" /\ ~local[p].practice /\ arg[p].voting = v}

\* A vote that is past its transaction, or says it succeeded, has its ballot;
\* before, it says nothing.  One that reaches the transaction does not abstain
\* and choose at once.
RequestClaim(p) ==
    /\ local[p].ok => pc[p] = "voteRelease"
    /\ pc[p] = "voteCache" \/ local[p].ok => local[p].practice \/ HasBallot(arg[p].token)
    /\ pc[p] \in {"voteTx", "voteCommit"} => (arg[p].abstain => arg[p].selection = {})

ClaimsTold ==
    /\ \A r \in replies : r.kind = "voted" /\ ~r.practice => HasBallot(r.token)
    /\ \A j \in jobs : j.action = "BALLOT_CAST" => HasBallot(j.token)

\* The counter of Redis is behind the ballots by the votes still to be counted,
\* and by those whose increment failed.
CountBehind(v) ==
    /\ IsFiniteSet(BallotsOf(v)) /\ IsFiniteSet(Uncounted(v))
    /\ voteCount[v] + Cardinality(Uncounted(v)) <= Cardinality(BallotsOf(v))

ClaimInv ==
    /\ \A p \in Requests : RequestClaim(p)
    /\ ClaimsTold
    /\ \A v \in Votings : CountBehind(v)

LEMMA StillKeepsClaim ==
    ASSUME Grows, NEW q \in Requests, RequestClaim(q),
           pc'[q] = pc[q], arg'[q] = arg[q], local'[q] = local[q]
    PROVE  RequestClaim(q)'
BY GrowsKeepsPaid DEF RequestClaim

\* A request that is over, or begins, claims nothing.
LEMMA NewKeepsClaim ==
    ASSUME TypeOK, NEW q \in Requests, ~local'[q].ok,
           pc'[q] \notin {"voteCache", "voteTx", "voteCommit"}
    PROVE  RequestClaim(q)'
BY DEF RequestClaim

LEMMA EndKeepsClaim ==
    ASSUME TypeOK, NEW q \in Requests, End(q)
    PROVE  RequestClaim(q)'
<1>1. pc'[q] = "idle" /\ local'[q] = NoLocal /\ ~NoLocal.ok
  BY DEF End, Goto, TypeOK, RequestsOK, NoLocal
<1> QED
  BY <1>1, NewKeepsClaim

\* The request that moves.
LEMMA OwnClaim ==
    ASSUME TypeOK, VoteInv, Grows, NEW p \in Requests, RequestClaim(p), StepOf(p)
    PROVE  RequestClaim(p)'
<1> USE DEF VotePCs
<1>0. /\ pc[p] # "voteRelease" => ~local[p].ok
      /\ \A x \in PCs : Goto(p, x) => pc'[p] = x
  BY DEF RequestClaim, Goto, TypeOK, RequestsOK
<1> USE DEF TypeOK, RequestsOK
<1>1. CASE Begin(p)
  <2>1. /\ pc[p] = "idle" /\ UNCHANGED local
        /\ pc'[p] \in {"signCheck", "finOptions", "votePending"}
    BY <1>1 DEF Begin, SignBegin, VoteBegin, FinalizeBegin, Start, Goto
  <2> QED
    BY <1>0, <2>1, NewKeepsClaim
<1>2. CASE SignStep(p)
  <2>1. CASE End(p)
    BY <2>1, EndKeepsClaim
  <2>2. CASE UNCHANGED <<arg, local>> /\ pc'[p] \in SignPCs /\ pc[p] \in SignPCs
    BY <1>0, <2>2, NewKeepsClaim DEF SignPCs
  <2> QED
    BY <1>2, <2>1, <2>2
    DEF SignStep, SignCheck, SignPending, SignParticipate, SignReply, Goto, SignPCs
<1>3. CASE VoteStep(p)
  <2>1. ASSUME VoteReject(p), pc[p] \in VotePCs \ {"voteRelease"} PROVE RequestClaim(p)'
    <3>1. pc'[p] = "voteRelease" /\ UNCHANGED <<arg, local>>
      BY <2>1 DEF VoteReject, Goto
    <3> QED
      BY <1>0, <2>1, <3>1 DEF RequestClaim
  <2>2. CASE VotePending(p)
    <3>1. CASE VoteReject(p)
      BY <2>1, <2>2, <3>1 DEF VotePending
    <3>2. CASE ~VoteReject(p)
      <4>1. /\ pc'[p] = "voteGuards" /\ arg' = arg /\ local'[p].ok = local[p].ok
            /\ pc[p] = "votePending"
        BY <2>2, <3>2 DEF VotePending, Goto, Local
      <4> QED
        BY <1>0, <4>1 DEF RequestClaim
    <3> QED
      BY <3>1, <3>2
  <2>3. CASE VoteGuards(p)
    <3>1. CASE VoteReject(p)
      BY <2>1, <2>3, <3>1 DEF VoteGuards
    <3>2. CASE ~VoteReject(p)
      <4>1. /\ pc[p] = "voteGuards" /\ UNCHANGED <<arg, local>>
            /\ ChoiceAllowed(arg[p].voting, arg[p].selection, arg[p].abstain)
            /\ \/ pc'[p] = "voteCache" /\ local[p].practice
               \/ pc'[p] \in {"voteTx", "voteCommit"}
        BY <2>3, <3>2 DEF VoteGuards, Goto
      <4>2. arg[p].abstain => arg[p].selection = {}
        BY <4>1 DEF ChoiceAllowed
      <4> QED
        BY <1>0, <4>1, <4>2 DEF RequestClaim
    <3> QED
      BY <3>1, <3>2
  <2>4. CASE VoteTx(p)
    <3>1. /\ pc[p] = "voteTx" /\ pc'[p] = "voteCommit" /\ arg' = arg
          /\ local'[p].ok = local[p].ok
      BY <2>4 DEF VoteTx, Goto, Local
    <3> QED
      BY <1>0, <3>1 DEF RequestClaim
  <2>5. CASE VoteCommit(p)
    <3>1. CASE VoteReject(p)
      BY <2>1, <2>5, <3>1 DEF VoteCommit
    <3>2. CASE ~VoteReject(p)
      <4>1. /\ pc[p] = "voteCommit" /\ pc'[p] = "voteCache" /\ UNCHANGED <<arg, local>>
            /\ ballots' = ballots \cup Rows(p)
        BY <2>5, <3>2 DEF VoteCommit, Goto
      <4>2. arg[p].selection # {} \/ arg[p].abstain
        BY <4>1 DEF VoteInv, RequestInv, VotingSigned
      <4>3. HasBallot(arg[p].token)'
        BY <4>1, <4>2, RowsOfCommit DEF HasBallot
      <4> QED
        BY <1>0, <4>1, <4>3 DEF RequestClaim, HasBallot
    <3> QED
      BY <3>1, <3>2
  <2>6. CASE VoteCache(p)
    <3>1. /\ pc[p] = "voteCache" /\ pc'[p] = "voteRelease" /\ arg' = arg /\ UNCHANGED ballots
          /\ local'[p].practice = local[p].practice
      <4>1. local' = [local EXCEPT ![p].ok = TRUE] \/ local' = local
        BY <2>6 DEF VoteCache
      <4>2. [local EXCEPT ![p].ok = TRUE][p].practice = local[p].practice
        BY DEF Local
      <4> QED
        BY <2>6, <4>1, <4>2 DEF VoteCache, Goto, postgresVars
    <3> QED
      BY <3>1 DEF RequestClaim, HasBallot
  <2>7. CASE VoteRelease(p)
    BY <2>7, EndKeepsClaim DEF VoteRelease
  <2> QED
    BY <1>3, <2>2, <2>3, <2>4, <2>5, <2>6, <2>7 DEF VoteStep
<1>4. CASE FinalizeStep(p)
  <2>1. CASE End(p)
    BY <2>1, EndKeepsClaim
  <2>2. CASE /\ pc[p] \in FinalizePCs /\ pc'[p] \in FinalizePCs /\ local'[p].ok = local[p].ok
    BY <1>0, <2>2, NewKeepsClaim DEF FinalizePCs
  <2>3. ASSUME NEW from \in FinalizePCs, NEW to \in FinalizePCs,
               NEW f \in {"options", "abstentions", "total"}, NEW counted,
               FinalizeRead(p, from, to, f, counted)
        PROVE  RequestClaim(p)'
    <3>1. pc[p] = from /\ pc'[p] = to /\ local' = [local EXCEPT ![p][f] = counted]
      BY <2>3 DEF FinalizeRead, Goto
    <3>2. local'[p].ok = local[p].ok
      BY <3>1 DEF Local
    <3> QED
      BY <2>2, <3>1, <3>2
  <2> QED
    BY <1>4, <2>1, <2>2, <2>3
    DEF FinalizeStep, FinalizeOptions, FinalizeAbstentions, FinalizeTotal, FinalizeSeal,
        FinalizeAudit, FinalizePCs, Goto
<1>5. CASE Crash(p)
  BY <1>5, EndKeepsClaim DEF Crash
<1>6. CASE Throw(p)
  <2>1. CASE End(p)
    BY <2>1, EndKeepsClaim
  <2>2. CASE pc[p] \in VotePCs \ {"voteRelease"} /\ VoteReject(p)
    <3>1. pc'[p] = "voteRelease" /\ UNCHANGED <<arg, local>>
      BY <2>2 DEF VoteReject, Goto
    <3> QED
      BY <1>0, <2>2, <3>1 DEF RequestClaim
  <2> QED
    BY <1>6, <2>1, <2>2 DEF Throw
<1> QED
  BY <1>1, <1>2, <1>3, <1>4, <1>5, <1>6 DEF StepOf

LEMMA RequestClaimStep ==
    ASSUME TypeOK, VoteInv, Grows, [Next]_vars, NEW q \in Requests, RequestClaim(q)
    PROVE  RequestClaim(q)'
<1>1. ASSUME NEW p \in Requests, StepOf(p), p # q PROVE RequestClaim(q)'
  BY <1>1, StepsMoveOne, StillKeepsClaim
<1>2. ASSUME \/ UNCHANGED vars
             \/ \E v \in Votings : Tick(v)
             \/ PendingChanges
             \/ \E v \in Votings, u \in Users : LockExpires(v, u)
      PROVE  RequestClaim(q)'
  <2>1. UNCHANGED <<pc, arg, local>>
    BY <1>2 DEF vars, Tick, PendingChanges, PendingExpires, SurveySignsToken, SurveySpendsToken,
              LockExpires, requestVars
  <2> QED
    BY <2>1, StillKeepsClaim
<1> QED
  BY <1>1, <1>2, OwnClaim DEF Next, StepOf

\* Replies and jobs speak of ballots that are there, and stay.
LEMMA ClaimsToldStep ==
    ASSUME TypeOK, Grows, ClaimInv, [Next]_vars
    PROVE  ClaimsTold'
<1>1. ASSUME UNCHANGED <<replies, jobs>> PROVE ClaimsTold'
  BY <1>1, GrowsKeepsPaid DEF ClaimInv, ClaimsTold
<1>2. ASSUME NEW p \in Requests, SignReply(p) \/ FinalizeAudit(p) PROVE ClaimsTold'
  <2>1. /\ \A r \in replies' \ replies : r.kind = "signed"
        /\ \A j \in jobs' \ jobs : j.action \in {"BLIND_SIGNATURE_ISSUED", "VOTING_RESULT_SEALED"}
    BY <1>2 DEF SignReply, FinalizeAudit, Tell, Enqueue, Job
  <2> QED
    BY <2>1, GrowsKeepsPaid DEF ClaimInv, ClaimsTold
<1>3. ASSUME NEW p \in Requests, VoteCache(p) PROVE ClaimsTold'
  <2>1. UNCHANGED replies
    BY <1>3 DEF VoteCache
  <2>2. \A j \in jobs' \ jobs : j.token = arg[p].token /\ ~local[p].practice
    BY <1>3 DEF VoteCache, Enqueue, Job
  <2>3. local[p].practice \/ HasBallot(arg[p].token)
    BY <1>3 DEF VoteCache, ClaimInv, RequestClaim
  <2> QED
    BY <2>1, <2>2, <2>3, GrowsKeepsPaid DEF ClaimInv, ClaimsTold
<1>4. ASSUME NEW p \in Requests, VoteRelease(p) PROVE ClaimsTold'
  <2>1. UNCHANGED jobs
    BY <1>4 DEF VoteRelease
  <2>2. \A r \in replies' \ replies :
           /\ r.token = arg[p].token /\ r.practice = local[p].practice /\ local[p].ok
    BY <1>4 DEF VoteRelease, Tell
  <2>3. local[p].ok => local[p].practice \/ HasBallot(arg[p].token)
    BY DEF ClaimInv, RequestClaim
  <2> QED
    BY <2>1, <2>2, <2>3, GrowsKeepsPaid DEF ClaimInv, ClaimsTold
<1>5. ASSUME NEW p \in Requests,
             \/ Begin(p) \/ SignCheck(p) \/ SignPending(p) \/ SignParticipate(p)
             \/ VotePending(p) \/ VoteGuards(p) \/ VoteTx(p) \/ VoteCommit(p)
             \/ FinalizeOptions(p) \/ FinalizeAbstentions(p) \/ FinalizeTotal(p)
             \/ FinalizeSeal(p) \/ Crash(p) \/ Throw(p)
      PROVE  UNCHANGED <<replies, jobs>>
  BY <1>5 DEF Begin, SignBegin, VoteBegin, FinalizeBegin, SignCheck, SignPending,
              SignParticipate, VotePending, VoteGuards, VoteTx, VoteCommit, FinalizeOptions,
              FinalizeAbstentions, FinalizeTotal, FinalizeRead, FinalizeSeal, Crash, Throw
<1>6. ASSUME \/ UNCHANGED vars
             \/ \E v \in Votings : Tick(v)
             \/ PendingChanges
             \/ \E v \in Votings, u \in Users : LockExpires(v, u)
      PROVE  UNCHANGED <<replies, jobs>>
  BY <1>6 DEF vars, Tick, PendingChanges, PendingExpires, SurveySignsToken, SurveySpendsToken,
              LockExpires
<1> QED
  BY <1>1, <1>2, <1>3, <1>4, <1>5, <1>6 DEF Next, SignStep, VoteStep, FinalizeStep

-----------------------------------------------------------------------------
(* The counter.                                                            *)

\* One element less is at most the same, and one less when it was there.
LEMMA OneLess ==
    ASSUME NEW S, IsFiniteSet(S), NEW p
    PROVE  /\ IsFiniteSet(S \ {p}) /\ Cardinality(S) \in Nat /\ Cardinality(S \ {p}) \in Nat
           /\ Cardinality(S \ {p}) <= Cardinality(S)
           /\ p \in S => Cardinality(S \ {p}) = Cardinality(S) - 1
<1>1. Cardinality(S) \in Nat
  BY FS_CardinalityType
<1>2. /\ IsFiniteSet(S \ {p})
      /\ Cardinality(S \ {p}) = IF p \in S THEN Cardinality(S) - 1 ELSE Cardinality(S)
  BY FS_RemoveElement
<1>3. Cardinality(S \ {p}) \in Nat
  BY <1>2, FS_CardinalityType
<1> QED
  BY <1>1, <1>2, <1>3

\* The votes left uncounted, none added.
LEMMA FewerUncounted ==
    ASSUME TypeOK, NEW v \in Votings, CountBehind(v), NEW p,
           UNCHANGED ballots, voteCount'[v] \in Nat,
           Uncounted(v)' = Uncounted(v) \/ Uncounted(v)' = Uncounted(v) \ {p},
           \/ voteCount'[v] = voteCount[v]
           \/ /\ voteCount'[v] = voteCount[v] + 1
              /\ p \in Uncounted(v) /\ Uncounted(v)' = Uncounted(v) \ {p}
    PROVE  CountBehind(v)'
<1>1. BallotsOf(v)' = BallotsOf(v)
  BY DEF BallotsOf
<1>2. voteCount[v] \in Nat /\ Cardinality(BallotsOf(v)) \in Nat
  BY FS_CardinalityType DEF CountBehind, TypeOK, StoreOK
<1>3. IsFiniteSet(Uncounted(v))
  BY DEF CountBehind
<1>4. /\ IsFiniteSet(Uncounted(v)') /\ Cardinality(Uncounted(v)') \in Nat
      /\ Cardinality(Uncounted(v)') <= Cardinality(Uncounted(v))
      /\ Cardinality(Uncounted(v)) \in Nat
      /\ voteCount'[v] # voteCount[v] =>
            Cardinality(Uncounted(v)') = Cardinality(Uncounted(v)) - 1
  <2>1. Cardinality(Uncounted(v)) \in Nat
    BY <1>3, FS_CardinalityType
  <2>2. CASE Uncounted(v)' = Uncounted(v) \ {p}
    BY <1>2, <1>3, <2>2, OneLess
  <2>3. CASE Uncounted(v)' = Uncounted(v) /\ voteCount'[v] = voteCount[v]
    BY <1>3, <2>1, <2>3
  <2> QED
    BY <2>2, <2>3
<1>5. voteCount'[v] + Cardinality(Uncounted(v)') <= Cardinality(BallotsOf(v))
  BY <1>2, <1>4 DEF CountBehind
<1> QED
  BY <1>1, <1>4, <1>5 DEF CountBehind

\* A committed vote adds its one ballot, and is to be counted.
LEMMA CommitCounts ==
    ASSUME TypeOK, VoteInv, ClaimInv, NEW v \in Votings, NEW p \in Requests, VoteCommit(p)
    PROVE  CountBehind(v)'
<1> USE DEF TypeOK, RequestsOK, PCs, VotePCs
<1>0. CountBehind(v) /\ voteCount[v] \in Nat /\ UNCHANGED voteCount /\ pc[p] = "voteCommit"
  BY DEF ClaimInv, VoteCommit, StoreOK
<1>1. CASE UNCHANGED ballots /\ VoteReject(p)
  <2>1. Uncounted(v)' = Uncounted(v)
    BY <1>0, <1>1 DEF Uncounted, VoteReject, Goto
  <2> QED
    BY <1>0, <1>1, <2>1, FewerUncounted
<1>2. CASE /\ ballots' = ballots \cup Rows(p) /\ HashesUnique(Rows(p)) /\ SignaturesUnique(Rows(p))
           /\ Goto(p, "voteCache") /\ UNCHANGED <<arg, local>>
  <2>1. PICK r \in Rows(p) : r.voting = arg[p].voting
    BY <1>0, RowsOfCommit DEF VoteInv, RequestInv, VotingSigned
  <2>2. Rows(p) = {r} /\ r \notin ballots
    <3>1. \A q \in Rows(p) : q.token = r.token
      BY <2>1 DEF Rows
    <3> QED
      BY <1>2, <2>1, <3>1 DEF SignaturesUnique, HashesUnique
  <2>3. ~local[p].practice
    BY <1>0 DEF VoteInv, RequestInv, VotingSigned
  <2>4. CASE v = arg[p].voting
    <3>1. BallotsOf(v)' = BallotsOf(v) \cup {r} /\ r \notin BallotsOf(v)
      BY <1>2, <2>1, <2>2, <2>4 DEF BallotsOf
    <3>2. Uncounted(v)' = Uncounted(v) \cup {p} /\ p \notin Uncounted(v)
      BY <1>0, <1>2, <2>3, <2>4 DEF Uncounted, Goto
    <3>3. /\ IsFiniteSet(BallotsOf(v)) /\ IsFiniteSet(Uncounted(v))
          /\ Cardinality(BallotsOf(v)) \in Nat /\ Cardinality(Uncounted(v)) \in Nat
      BY <1>0, FS_CardinalityType DEF CountBehind
    <3>4. /\ IsFiniteSet(BallotsOf(v)') /\ Cardinality(BallotsOf(v)') = Cardinality(BallotsOf(v)) + 1
      BY <3>1, <3>3, FS_AddElement
    <3>5. /\ IsFiniteSet(Uncounted(v)') /\ Cardinality(Uncounted(v)') = Cardinality(Uncounted(v)) + 1
      BY <3>2, <3>3, FS_AddElement
    <3>6. voteCount'[v] + Cardinality(Uncounted(v)') <= Cardinality(BallotsOf(v)')
      BY <1>0, <3>3, <3>4, <3>5 DEF CountBehind
    <3> QED
      BY <3>4, <3>5, <3>6 DEF CountBehind
  <2>5. CASE v # arg[p].voting
    <3>1. BallotsOf(v)' = BallotsOf(v)
      BY <1>2, <2>1, <2>2, <2>5 DEF BallotsOf
    <3>2. Uncounted(v)' = Uncounted(v)
      BY <1>0, <1>2, <2>5 DEF Uncounted, Goto
    <3> QED
      BY <1>0, <3>1, <3>2 DEF CountBehind
  <2> QED
    BY <2>4, <2>5
<1> QED
  BY <1>1, <1>2 DEF VoteCommit

\* Any other step of a request takes at most itself out of the uncounted.
LEMMA OthersCount ==
    ASSUME TypeOK, TypeOK', ClaimInv, NEW v \in Votings, NEW p \in Requests, StepOf(p),
           ~VoteCommit(p)
    PROVE  CountBehind(v)'
<1>0. CountBehind(v) /\ voteCount'[v] \in Nat
  BY DEF ClaimInv, TypeOK, StoreOK
<1>1. \A q \in Requests \ {p} : q \in Uncounted(v)' <=> q \in Uncounted(v)
  BY StepsMoveOne DEF Uncounted
<1>2. UNCHANGED ballots
  BY DEF StepOf, Begin, SignBegin, VoteBegin, FinalizeBegin, SignStep, SignCheck, SignPending,
         SignParticipate, SignReply, VoteStep, VotePending, VoteGuards, VoteTx, VoteCache,
         VoteRelease, FinalizeStep, FinalizeOptions, FinalizeAbstentions, FinalizeTotal,
         FinalizeRead, FinalizeSeal, FinalizeAudit, Crash, Throw, postgresVars
<1>3. p \notin Uncounted(v)'
  <2>1. CASE VoteGuards(p)
    BY <2>1 DEF VoteGuards, VoteReject, Goto, TypeOK, RequestsOK, Uncounted
  <2>2. CASE ~VoteGuards(p)
    BY <2>2 DEF StepOf, Begin, SignBegin, VoteBegin, FinalizeBegin, SignStep, SignCheck,
         SignPending, SignParticipate, SignReply, VoteStep, VotePending, VoteTx, VoteCache,
         VoteRelease, FinalizeStep, FinalizeOptions, FinalizeAbstentions, FinalizeTotal,
         FinalizeRead, FinalizeSeal, FinalizeAudit, Crash, Throw, VoteReject, Start, End, Goto,
         TypeOK, RequestsOK, Uncounted
  <2> QED
    BY <2>1, <2>2
<1>4. Uncounted(v)' = Uncounted(v) \ {p}
  BY <1>1, <1>3 DEF Uncounted
<1>5. voteCount'[v] = voteCount[v] \/ (voteCount'[v] = voteCount[v] + 1 /\ p \in Uncounted(v))
  <2>1. CASE VoteCache(p)
    <3>1. pc[p] = "voteCache" /\ arg[p].voting \in Votings
      BY <2>1, ArgFields DEF VoteCache, TypeOK, VotePCs
    <3>2. UNCHANGED voteCount \/
             (~local[p].practice /\ voteCount' = [voteCount EXCEPT ![arg[p].voting] = @ + 1])
      BY <2>1 DEF VoteCache
    <3> QED
      BY <3>1, <3>2 DEF Uncounted, TypeOK, StoreOK
  <2>2. CASE ~VoteCache(p)
    BY <2>2 DEF StepOf, Begin, SignBegin, VoteBegin, FinalizeBegin, SignStep, SignCheck,
         SignPending, SignParticipate, SignReply, VoteStep, VotePending, VoteGuards, VoteTx,
         VoteRelease, FinalizeStep, FinalizeOptions, FinalizeAbstentions, FinalizeTotal,
         FinalizeRead, FinalizeSeal, FinalizeAudit, Crash, Throw
  <2> QED
    BY <2>1, <2>2
<1> QED
  BY <1>0, <1>2, <1>4, <1>5, FewerUncounted

LEMMA CountStep ==
    ASSUME TypeOK, TypeOK', VoteInv, ClaimInv, [Next]_vars, NEW v \in Votings
    PROVE  CountBehind(v)'
<1>1. ASSUME NEW p \in Requests, StepOf(p) PROVE CountBehind(v)'
  BY <1>1, CommitCounts, OthersCount
<1>2. ASSUME \/ UNCHANGED vars
             \/ \E w \in Votings : Tick(w)
             \/ PendingChanges
             \/ \E w \in Votings, u \in Users : LockExpires(w, u)
      PROVE  CountBehind(v)'
  <2>1. UNCHANGED <<pc, arg, local, ballots, voteCount>>
    BY <1>2 DEF vars, Tick, PendingChanges, PendingExpires, SurveySignsToken, SurveySpendsToken,
              LockExpires, requestVars, postgresVars
  <2> QED
    BY <2>1 DEF ClaimInv, CountBehind, Uncounted, BallotsOf
<1> QED
  BY <1>1, <1>2 DEF Next, StepOf

\* Votes speak of their ballots only once they are stored, and are counted
\* once at most.
THEOREM ClaimInvariant == Spec => []ClaimInv
<1>1. Init => ClaimInv
  <2> SUFFICES ASSUME Init PROVE ClaimInv
    OBVIOUS
  <2>1. \A p \in Requests : RequestClaim(p)
    BY DEF Init, RequestClaim, NoLocal, VotePCs
  <2>2. \A v \in Votings : BallotsOf(v) = {} /\ Uncounted(v) = {} /\ voteCount[v] = 0
    BY DEF Init, BallotsOf, Uncounted
  <2>3. \A v \in Votings : CountBehind(v)
    BY <2>2, FS_EmptySet DEF CountBehind
  <2> QED
    BY <2>1, <2>3 DEF Init, ClaimInv, ClaimsTold
<1>2. TypeOK /\ TypeOK' /\ VoteInv /\ ClaimInv /\ [Next]_vars => ClaimInv'
  <2> SUFFICES ASSUME TypeOK, TypeOK', VoteInv, ClaimInv, [Next]_vars PROVE ClaimInv'
    OBVIOUS
  <2>1. Grows
    BY StepGrows
  <2> QED
    BY <2>1, RequestClaimStep, ClaimsToldStep, CountStep DEF ClaimInv
<1> QED
  BY <1>1, <1>2, TypeCorrect, VoteInvariant, PTL DEF Spec

\* A vote the server answered, a BALLOT_CAST block to append and every unit of
\* the Redis counter stand for a ballot in Postgres.
THEOREM ClaimsStored == Spec => []ClaimsAreStored
<1>1. TypeOK /\ ClaimInv => ClaimsAreStored
  <2> SUFFICES ASSUME TypeOK, ClaimInv, NEW v \in Votings
               PROVE  voteCount[v] <= Cardinality(BallotsOf(v))
    BY DEF ClaimsAreStored, ClaimInv, ClaimsTold
  <2>1. CountBehind(v) /\ voteCount[v] \in Nat
    BY DEF ClaimInv, TypeOK, StoreOK
  <2>2. Cardinality(Uncounted(v)) \in Nat /\ Cardinality(BallotsOf(v)) \in Nat
    BY <2>1, FS_CardinalityType DEF CountBehind
  <2> QED
    BY <2>1, <2>2 DEF CountBehind
<1> QED
  BY <1>1, TypeCorrect, ClaimInvariant, PTL

\* A vote that is turned away in its transaction has its signature on a ballot
\* already, or several rows to insert, which share it.
THEOREM RefusalsAreReuse == Spec => RefusedOnlyReuse
<1>1. ASSUME TypeOK, VoteInv, ClaimInv, [Next]_vars, NEW p \in Requests,
             pc[p] = "voteCommit", pc'[p] = "voteRelease", faults' = faults
      PROVE  HasBallot(arg[p].token) \/ Cardinality(Picked(p)) > 1
  <2>1. VoteCommit(p)
    <3>1. ASSUME NEW q \in Requests, StepOf(q) PROVE q = p
      BY <1>1, <3>1, StepsMoveOne
    <3>2. ~(Crash(p) \/ Throw(p))
      BY <1>1 DEF Crash, Throw, Fault, TypeOK, StoreOK
    <3>3. \E q \in Requests : StepOf(q)
      BY <1>1 DEF Next, StepOf, vars, Tick, PendingChanges, PendingExpires, SurveySignsToken, SurveySpendsToken,
              LockExpires, requestVars
    <3>4. StepOf(p)
      BY <3>1, <3>3
    <3>5. ~Begin(p) /\ ~SignStep(p) /\ ~FinalizeStep(p)
      BY <1>1 DEF Begin, SignBegin, VoteBegin, FinalizeBegin, Start, SignStep, SignCheck,
          SignPending, SignParticipate, SignReply, FinalizeStep, FinalizeOptions,
          FinalizeAbstentions, FinalizeTotal, FinalizeRead, FinalizeSeal, FinalizeAudit
    <3>6. ~(VotePending(p) \/ VoteGuards(p) \/ VoteTx(p) \/ VoteCache(p) \/ VoteRelease(p))
      BY <1>1 DEF VotePending, VoteGuards, VoteTx, VoteCache, VoteRelease
    <3> QED
      BY <3>2, <3>4, <3>5, <3>6 DEF StepOf, VoteStep
  <2>2. ~(HashesUnique(Rows(p)) /\ SignaturesUnique(Rows(p)))
    BY <1>1, <2>1 DEF VoteCommit, Goto, TypeOK, RequestsOK
  <2>3. \A r \in Rows(p) : r.token = arg[p].token
    BY DEF Rows
  <2>4. CASE \A c, d \in Picked(p) : c = d
    <3>1. \A r1, r2 \in Rows(p) : r1 = r2
      BY <2>4 DEF Rows
    <3> QED
      BY <2>2, <2>3, <3>1 DEF HashesUnique, SignaturesUnique, HasBallot
  <2>5. ASSUME NEW c \in Picked(p), NEW d \in Picked(p), c # d PROVE Cardinality(Picked(p)) > 1
    <3>1. IsFiniteSet(Picked(p))
      <4>1. IsFiniteSet(arg[p].selection)
        BY <1>1, ArgsAssumption DEF TypeOK, RequestsOK, VotePCs, VoteArg, Selection
      <4>2. IsFiniteSet(arg[p].selection \ {Other})
        BY <4>1, FS_Difference
      <4>3. /\ \A x : IsFiniteSet({x})
            /\ IsFiniteSet({})
        BY FS_Singleton, FS_EmptySet
      <4> QED
        BY <4>2, <4>3, FS_Union DEF Picked
    <3>2. {c, d} \subseteq Picked(p) /\ Cardinality({c, d}) = 2
      <4>1. Cardinality({c}) = 1 /\ IsFiniteSet({c}) /\ {c, d} = {c} \cup {d} /\ d \notin {c}
        BY <2>5, FS_Singleton
      <4> QED
        BY <4>1, FS_AddElement
    <3>3. Cardinality({c, d}) <= Cardinality(Picked(p)) /\ Cardinality(Picked(p)) \in Nat
      BY <3>1, <3>2, FS_Subset, FS_CardinalityType
    <3> QED
      BY <3>2, <3>3
  <2> QED
    BY <2>4, <2>5
<1>2. TypeOK /\ VoteInv /\ ClaimInv /\ [Next]_vars =>
        [\A p \in Requests :
            pc[p] = "voteCommit" /\ pc'[p] = "voteRelease" /\ faults' = faults
            => HasBallot(arg[p].token) \/ Cardinality(Picked(p)) > 1]_vars
  BY <1>1
<1> QED
  BY <1>2, TypeCorrect, VoteInvariant, ClaimInvariant, PTL DEF Spec, RefusedOnlyReuse

-----------------------------------------------------------------------------
(* VoteService implements BallotBox: createParticipation is Authorise, the *)
(* transaction of vote() is Cast, the one of finalizeVoting is Seal, and   *)
(* nothing else touches the roll, the box or the results.                  *)


roll == {<<r.user, r.voting>> : r \in participations}
totals == [v \in Votings |-> results[v].total]

LEMMA InitRefines == Init => Box!BoxInit
BY DEF Init, Box!BoxInit, NotSealed

LEMMA ParticipateRefines ==
    ASSUME TypeOK, NEW p \in Requests, SignParticipate(p)
    PROVE  [Box!BoxNext]_(Box!boxVars)
<1>0. PICK u \in Users, v \in Votings : u = UserOf(p) /\ v = arg[p].voting
  BY ArgFields DEF SignParticipate, SignPCs, TypeOK
<1>1. UNCHANGED <<ballots, totals>>
  BY DEF SignParticipate, totals
<1>2. CASE UNCHANGED participations
  BY <1>1, <1>2 DEF Box!boxVars, totals
<1>3. CASE /\ ParticipationUnique(u, v)
           /\ participations' = participations
                 \cup {[user |-> u, voting |-> v, token |-> arg[p].blinded]}
  <2>1. <<u, v>> \notin roll
    BY <1>3 DEF roll, ParticipationUnique, HasParticipated
  <2>2. roll' = roll \cup {<<u, v>>}
    <3> DEFINE new == [user |-> u, voting |-> v, token |-> arg[p].blinded]
    <3>1. new.user = u /\ new.voting = v /\ participations' = participations \cup {new}
      BY <1>3
    <3> HIDE DEF new
    <3> QED
      BY <3>1 DEF roll
  <2>3. Box!Authorise(u, v)
    BY <1>1, <2>1, <2>2 DEF Box!Authorise, roll, totals
  <2> QED
    BY <2>3 DEF Box!BoxNext
<1> QED
  BY <1>0, <1>2, <1>3 DEF SignParticipate

LEMMA CommitRefines ==
    ASSUME TypeOK, VoteInv, PaidInv, NEW p \in Requests, VoteCommit(p)
    PROVE  [Box!BoxNext]_(Box!boxVars)
<1>0. PICK v \in Votings, t \in Tokens : v = arg[p].voting /\ t = arg[p].token
  BY ArgFields DEF VoteCommit, VotePCs, TypeOK
<1>1. UNCHANGED <<participations, results>>
  BY DEF VoteCommit
<1>2. CASE UNCHANGED ballots
  BY <1>1, <1>2 DEF Box!boxVars
<1>3. CASE ballots' = ballots \cup Rows(p) /\ SignaturesUnique(Rows(p))
  <2>1. /\ arg[p].selection # {} \/ arg[p].abstain
        /\ Paid(v, t) \/ HasBallot(t)
    BY <1>0 DEF VoteCommit, VoteInv, RequestInv, VotingSigned, PaidInv, VotingPaid
  <2>2. PICK r \in Rows(p) : TRUE
    BY <2>1, RowsOfCommit
  <2>3. Rows(p) = {r}
    BY <1>3, <2>1, <2>2, RowsOfCommit DEF SignaturesUnique
  <2>4. PICK c \in Picked(p) : r = [voting |-> v, option |-> c, token |-> t]
    BY <1>0, <2>2 DEF Rows
  <2>5. c \in RowOptions
    <3>1. local[p].option \in Requests \cup {NoOne}
      BY DEF TypeOK, RequestsOK, Local
    <3>2. arg[p].selection \subseteq Options \cup Requests \cup {Other}
      BY ArgFields DEF VoteCommit, VotePCs, TypeOK
    <3> QED
      BY <3>1, <3>2 DEF Picked, RowOptions
  <2>6. Paid(v, t)
    BY <1>0, <1>3, <2>1, <2>2, RowsOfCommit DEF SignaturesUnique, HasBallot
  <2>7. <<Owner[t], v>> \in roll
    BY <2>6 DEF Paid, roll
  <2>8. ASSUME NEW b \in ballots, b.voting = v PROVE Owner[b.token] # Owner[t]
    <3>1. Paid(b.voting, b.token)
      BY DEF PaidInv, BallotsPaid
    <3>2. b.token # t
      BY <1>0, <1>3, <2>1, <2>2, RowsOfCommit DEF SignaturesUnique
    <3> QED
      BY <2>6, <2>8, <3>1, <3>2 DEF Paid, VoteInv, OneParticipation
  <2>9. Box!Cast(v, t, c)
    BY <1>1, <1>3, <2>3, <2>4, <2>7, <2>8 DEF Box!Cast, roll
  <2> QED
    BY <2>5, <2>9 DEF Box!BoxNext
<1> QED
  BY <1>2, <1>3 DEF VoteCommit

LEMMA SealRefines ==
    ASSUME TypeOK, VoteInv, NEW p \in Requests, FinalizeSeal(p)
    PROVE  [Box!BoxNext]_(Box!boxVars)
<1>0. PICK v \in Votings, counted \in SUBSET ballots :
           /\ v = arg[p].voting /\ counted = local[p].total
           /\ counted \subseteq {b \in ballots : b.voting = v}
  <2>1. arg[p].voting \in Votings
    BY DEF FinalizeSeal, TypeOK, RequestsOK, FinalizePCs, FinalizeArg
  <2>2. local[p].total \subseteq BallotsOf(arg[p].voting)
    BY DEF FinalizeSeal, VoteInv, RequestInv, CountingCovered
  <2> QED
    BY <2>1, <2>2 DEF BallotsOf
<1>1. UNCHANGED <<participations, ballots>>
  BY DEF FinalizeSeal
<1>2. CASE UNCHANGED results
  BY <1>1, <1>2 DEF Box!boxVars
<1>3. CASE /\ ~IsSealed(v)
           /\ results' = [results EXCEPT ![v] =
                 [options |-> local[p].options, abstentions |-> local[p].abstentions,
                  total |-> local[p].total]]
  <2>1. totals[v] = NoOne
    BY <1>3 DEF totals, IsSealed, NotSealed
  <2>2. totals' = [totals EXCEPT ![v] = counted]
    BY <1>0, <1>3 DEF totals, TypeOK, StoreOK
  <2>3. Box!Seal(v, counted)
    BY <1>0, <1>1, <2>1, <2>2 DEF Box!Seal, totals
  <2> QED
    BY <2>3 DEF Box!BoxNext
<1> QED
  BY <1>0, <1>2, <1>3 DEF FinalizeSeal, ResultUnique

\* With clients that blind the token they name, every behaviour of the handlers,
\* with its races, lost replies and crashes, is a behaviour of the ballot box.
THEOREM BallotBoxRefined ==
    ASSUME FreshTokens
    PROVE  Spec => ImplementsBallotBox
<1>1. TypeOK /\ VoteInv /\ PaidInv /\ [Next]_vars => [Box!BoxNext]_(Box!boxVars)
  <2> SUFFICES ASSUME TypeOK, VoteInv, PaidInv, [Next]_vars PROVE [Box!BoxNext]_(Box!boxVars)
    OBVIOUS
  <2>1. CASE UNCHANGED <<participations, ballots, results>>
    BY <2>1 DEF Box!boxVars
  <2>2. ASSUME NEW p \in Requests, SignParticipate(p) \/ VoteCommit(p) \/ FinalizeSeal(p)
        PROVE  [Box!BoxNext]_(Box!boxVars)
    BY <2>2, ParticipateRefines, CommitRefines, SealRefines
  <2> QED
    BY <2>1, <2>2, WritesOf
<1> QED
  BY <1>1, InitRefines, TypeCorrect, VoteInvariant, PaidInvariant, PTL
     DEF Spec, ImplementsBallotBox, Box!BoxSpec
=============================================================================
