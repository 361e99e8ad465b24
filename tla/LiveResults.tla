------------------------------ MODULE LiveResults ------------------------------
(***************************************************************************)
(* The results of a running voting: what vote() emits after a ballot, what *)
(* getResults answers, and the snapshot it keeps in Redis (vote.service.ts *)
(* with vote.gateway.ts, socket-emitter.service.ts and redis.service.ts).   *)
(*                                                                         *)
(* A count is kept as the set of the ballots it counted, a ballot is named *)
(* by its voter.  The options and the abstentions are two queries.         *)
(***************************************************************************)
EXTENDS Naturals, FiniteSets

CONSTANTS
    Voters,        \* vote() requests past their transaction, one ballot each
    Abstainers,    \* those of them that abstain
    Readers,       \* calls of getResults in flight at once
    NoView,        \* the null of a snapshot
    MaxLiveFaults  \* bound: Redis commands and emissions that fail

VARIABLES
    livePc, live,         \* vote() and getResults, and what each has read
    boxed, sealedView,    \* Postgres: the ballots, the sealed result
    snapshot, due,        \* Redis; now >= nextBroadcastAt
    closed,               \* now > endAt
    complete,             \* history: the room has been sent every ballot
    raced,                \* history: voters whose deletion failed or came too early
    liveFaults

liveRows == <<boxed, sealedView, closed>>
liveHistory == <<complete, raced>>
liveVars == <<livePc, live, liveRows, snapshot, due, liveHistory, liveFaults>>

Views == SUBSET Voters
Parts == {"options", "abstentions"}
VoterPCs == {"uncast", "drop", "vCount", "emit", "done"}
ReaderPCs == {"find", "look", "rCount", "keep", "answer", "idle"}
Audience == {"asker", "room"}   \* who gets the answer of getResults
Working == [view : Views, todo : SUBSET Parts, late : BOOLEAN, closed : BOOLEAN, to : Audience]

ASSUME VotersAssumption ==
    Abstainers \subseteq Voters /\ IsFiniteSet(Voters) /\ Voters \cap Readers = {}
ASSUME LiveFaultsAssumption == MaxLiveFaults \in Nat
ASSUME NoViewAssumption == \A view \in Views : view # NoView

NoWork == [view |-> {}, todo |-> Parts, late |-> FALSE, closed |-> FALSE, to |-> "asker"]

-----------------------------------------------------------------------------

LiveGoto(p, label) == livePc' = [livePc EXCEPT ![p] = label]
LiveEnd(p, label) == LiveGoto(p, label) /\ live' = [live EXCEPT ![p] = NoWork]
LiveFault == liveFaults < MaxLiveFaults /\ liveFaults' = liveFaults + 1
PartOf(k) == IF k = "abstentions" THEN Abstainers ELSE Voters \ Abstainers

\* findOptionsWithBallotCounts and countAbstentions, in either order.
CountPart(p, from, to) ==
    /\ livePc[p] = from
    /\ \E k \in live[p].todo :
          /\ live' = [live EXCEPT ![p].view = @ \cup (boxed \cap PartOf(k)),
                                  ![p].todo = @ \ {k}]
          /\ LiveGoto(p, IF live[p].todo = {k} THEN to ELSE from)
    /\ UNCHANGED <<liveRows, snapshot, due, liveHistory, liveFaults>>

\* An emission into the room.
EmitToRoom(view) == complete' = (complete \/ boxed \subseteq view)

\* r holds counts that lack the ballot of v, and may yet write them.
HoldsOldCounts(r, v) ==
    /\ livePc[r] \in {"rCount", "keep"} /\ v \notin live[r].view
    /\ \E k \in Parts \ live[r].todo : v \in PartOf(k)

-----------------------------------------------------------------------------
(* vote(), from its transaction on.                                        *)

\* The ballot is stored.  The checks of vote() came earlier, so this may
\* happen after endAt and after the finalization (module VoteService).
CastBallot(v) ==
    /\ livePc[v] = "uncast"
    /\ boxed' = boxed \cup {v}
    /\ complete' = FALSE
    /\ LiveGoto(v, "drop")
    /\ UNCHANGED <<live, sealedView, closed, snapshot, due, raced, liveFaults>>

\* The deletion of the snapshot; the mutant forgets it.
MutDropped == snapshot
Dropped == NoView

\* redis.del of the snapshot, in no try: a failure ends the request.
DropSnapshot(v) ==
    /\ livePc[v] = "drop"
    /\ \/ /\ snapshot' = Dropped
          /\ LiveGoto(v, "vCount")
          /\ raced' = raced \cup {u \in {v} : \E r \in Readers : HoldsOldCounts(r, v)}
          /\ UNCHANGED liveFaults
       \/ /\ LiveFault
          /\ LiveGoto(v, "done")
          /\ raced' = raced \cup {v}
          /\ UNCHANGED snapshot
    /\ UNCHANGED <<live, liveRows, due, complete>>

\* vote() counts anew; the mutant counts before the transaction, with the checks.
MutCountAfterVote(v) ==
    /\ livePc[v] = "vCount"
    /\ live' = [live EXCEPT ![v].view = boxed \ {v}]
    /\ LiveGoto(v, "emit")
    /\ UNCHANGED <<liveRows, snapshot, due, liveHistory, liveFaults>>
CountAfterVote(v) == CountPart(v, "vCount", "emit")

\* emitVotingResultsDirect; a failure of the counts or of the emission is logged.
EmitAfterVote(v) ==
    /\ livePc[v] = "emit"
    /\ \/ EmitToRoom(live[v].view) /\ UNCHANGED liveFaults
       \/ LiveFault /\ UNCHANGED complete
    /\ LiveEnd(v, "done")
    /\ UNCHANGED <<liveRows, snapshot, due, raced>>

-----------------------------------------------------------------------------
(* getResults.                                                             *)

\* GET results, voting:join and voting:get_results, or update of the
\* voting, which sends the answer into the room.
AskResults(r, to) ==
    /\ livePc[r] = "idle"
    /\ live' = [live EXCEPT ![r].to = to]
    /\ LiveGoto(r, "find")
    /\ UNCHANGED <<liveRows, snapshot, due, liveHistory, liveFaults>>

\* findVotingById: a finalized voting is answered from its sealed result, a
\* closed one without the snapshot.
FindForResults(r) ==
    /\ livePc[r] = "find"
    /\ \/ /\ sealedView # NoView
          /\ live' = [live EXCEPT ![r].view = sealedView]
          /\ LiveGoto(r, "answer")
       \/ /\ sealedView = NoView
          /\ live' = [live EXCEPT ![r].late = due, ![r].closed = closed]
          /\ LiveGoto(r, IF closed THEN "rCount" ELSE "look")
    /\ UNCHANGED <<liveRows, snapshot, due, liveHistory, liveFaults>>

\* now < nextBroadcastAt, from the lastBroadcastAt read before.  The mutant
\* takes any snapshot it finds.
MutMayServe(r) == snapshot # NoView
MayServe(r) == snapshot # NoView /\ ~due /\ ~live[r].late

\* getSnapshot; the first reader after nextBroadcastAt moves it.
LookUpSnapshot(r) ==
    /\ livePc[r] = "look"
    /\ \/ /\ MayServe(r)
          /\ live' = [live EXCEPT ![r].view = snapshot]
          /\ LiveGoto(r, "answer")
          /\ UNCHANGED due
       \/ /\ ~MayServe(r)
          /\ due' = FALSE
          /\ live' = [live EXCEPT ![r].late = FALSE]
          /\ LiveGoto(r, "rCount")
    /\ UNCHANGED <<liveRows, snapshot, liveHistory, liveFaults>>

CountForResults(r) == CountPart(r, "rCount", "keep")

\* setSnapshot, unless the voting was closed; a failure ends the request.
KeepSnapshot(r) ==
    /\ livePc[r] = "keep"
    /\ \/ /\ snapshot' = IF live[r].closed THEN snapshot ELSE live[r].view
          /\ LiveGoto(r, "answer")
          /\ UNCHANGED <<live, liveFaults>>
       \/ /\ ~live[r].closed /\ LiveFault
          /\ LiveEnd(r, "idle")
          /\ UNCHANGED snapshot
    /\ UNCHANGED <<liveRows, due, liveHistory>>

AnswerResults(r) ==
    /\ livePc[r] = "answer"
    /\ \/ live[r].to = "room" /\ EmitToRoom(live[r].view)
       \/ live[r].to # "room" /\ UNCHANGED complete
    /\ LiveEnd(r, "idle")
    /\ UNCHANGED <<liveRows, snapshot, due, raced, liveFaults>>

-----------------------------------------------------------------------------
(* The environment.                                                        *)

\* broadcastInterval goes by.
IntervalPasses ==
    /\ ~due /\ due' = TRUE
    /\ UNCHANGED <<livePc, live, liveRows, snapshot, liveHistory, liveFaults>>

\* The TTL of the snapshot goes by, or Redis evicts it.
SnapshotExpires ==
    /\ snapshot # NoView /\ snapshot' = NoView
    /\ UNCHANGED <<livePc, live, liveRows, due, liveHistory, liveFaults>>

CloseVoting ==
    /\ ~closed /\ closed' = TRUE
    /\ UNCHANGED <<livePc, live, boxed, sealedView, snapshot, due, liveHistory, liveFaults>>

\* finalizeVoting (module VoteService): ballots stored so far are the result.
SealVoting ==
    /\ closed /\ sealedView = NoView
    /\ sealedView' = boxed
    /\ UNCHANGED <<livePc, live, boxed, closed, snapshot, due, liveHistory, liveFaults>>

-----------------------------------------------------------------------------

LiveInit ==
    /\ livePc = [p \in Voters \cup Readers |-> IF p \in Voters THEN "uncast" ELSE "idle"]
    /\ live = [p \in Voters \cup Readers |-> NoWork]
    /\ boxed = {} /\ sealedView = NoView /\ closed = FALSE
    /\ snapshot = NoView /\ due = FALSE
    /\ complete = TRUE /\ raced = {}
    /\ liveFaults = 0

Read(r) ==
    \/ FindForResults(r) \/ LookUpSnapshot(r) \/ CountForResults(r)
    \/ KeepSnapshot(r) \/ AnswerResults(r)

LiveNext ==
    \/ \E v \in Voters :
          CastBallot(v) \/ DropSnapshot(v) \/ CountAfterVote(v) \/ EmitAfterVote(v)
    \/ \E r \in Readers : Read(r) \/ \E to \in Audience : AskResults(r, to)
    \/ IntervalPasses \/ SnapshotExpires \/ CloseVoting \/ SealVoting

LiveSpec == LiveInit /\ [][LiveNext]_liveVars

\* A replica runs its handlers on, somebody keeps asking, the interval goes by.
\* Nothing is assumed of the snapshot's TTL.
LiveFairness ==
    /\ \A r \in Readers : /\ WF_liveVars(Read(r))
                          /\ WF_liveVars(AskResults(r, "asker"))
    /\ WF_liveVars(IntervalPasses)

-----------------------------------------------------------------------------
(* Properties.                                                             *)

\* Types; an idle reader holds nothing.
LiveTypeOK ==
    /\ livePc \in [Voters \cup Readers -> VoterPCs \cup ReaderPCs]
    /\ \A v \in Voters : livePc[v] \in VoterPCs
    /\ \A r \in Readers :
          livePc[r] \in ReaderPCs /\ (livePc[r] = "idle" => live[r] = NoWork)
    /\ live \in [Voters \cup Readers -> Working]
    /\ boxed \in Views /\ sealedView \in Views \cup {NoView}
    /\ snapshot \in Views \cup {NoView} /\ due \in BOOLEAN /\ closed \in BOOLEAN
    /\ complete \in BOOLEAN /\ raced \in Views
    /\ liveFaults \in 0..MaxLiveFaults

\* Whatever the order in which votes store, count and emit, and whatever the
\* snapshots answered meanwhile, one emission has carried every ballot when the
\* votes are through, unless Redis failed.
AllBallotsEmitted ==
    (\A v \in Voters : livePc[v] \in {"uncast", "done"}) /\ liveFaults = 0 => complete

\* A snapshot lacks a ballot whose vote is past the deletion of the snapshot
\* only when that failed, or a getResults held older counts at that moment: the
\* deletion is not ordered with setSnapshot.
StaleSnapshotNeedsRace ==
    \A v \in Voters :
        livePc[v] \in {"vCount", "emit", "done"} /\ snapshot # NoView =>
            v \in snapshot \/ v \in raced

\* Such a snapshot does not hide a ballot for good: while somebody asks, an
\* answer of getResults has the ballot in the end, or the voting is sealed.
BallotIsServed ==
    \A v \in Voters :
        v \in boxed ~>
            \/ \E r \in Readers : livePc[r] = "answer" /\ v \in live[r].view
            \/ sealedView # NoView
=============================================================================
