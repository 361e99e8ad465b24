--------------------------- MODULE LiveResultsProofs ---------------------------
(***************************************************************************)
(* Proofs about LiveResults and ResultsPage, for any number of voters and  *)
(* readers: types, the race a stale snapshot needs, the emission of every  *)
(* ballot, and the ballots an open page comes to show.                     *)
(***************************************************************************)
EXTENDS ResultsPage, SequenceTheorems, TLAPS

Processes == Voters \cup Readers
PastDrop == {"vCount", "emit", "done"}

\* What a handler at each step has read.
WorkOK ==
    /\ \A v \in Voters : /\ livePc[v] \in {"uncast", "drop"} => live[v] = NoWork
                         /\ livePc[v] = "emit" => live[v].todo = {}
    /\ \A r \in Readers : /\ livePc[r] \in {"find", "look"} => live[r].todo = Parts
                          /\ livePc[r] = "keep" => live[r].todo = {}

\* A ballot whose vote is past the deletion is in the snapshot and in every
\* count that may become one, unless it was raced.
SnapshotInv ==
    \A v \in Voters :
        /\ livePc[v] # "uncast" => v \in boxed
        /\ livePc[v] \in PastDrop /\ v \notin raced =>
              /\ snapshot = NoView \/ v \in snapshot
              /\ \A r \in Readers : ~HoldsOldCounts(r, v)

\* v has read nothing that a ballot since stored is missing from.
Fresh(v) ==
    \/ livePc[v] = "drop"
    \/ /\ livePc[v] \in {"vCount", "emit"}
       /\ \A w \in boxed : w \in live[v].view \/ \E k \in live[v].todo : w \in PartOf(k)

\* While an emission is owed, somebody will make it.
EmissionInv == ~complete /\ liveFaults = 0 => \E v \in Voters : Fresh(v)

LiveInv == LiveTypeOK /\ WorkOK /\ SnapshotInv /\ EmissionInv

-----------------------------------------------------------------------------

LEMMA EveryVoterIsCounted ==
    ASSUME NEW v \in Voters
    PROVE  \E k \in Parts : v \in PartOf(k)
BY VotersAssumption DEF Parts, PartOf

LEMMA VotersAreNotReaders ==
    /\ \A v \in Voters : v \in Processes /\ v \notin Readers
    /\ \A r \in Readers : r \in Processes /\ r \notin Voters
    /\ \A l \in VoterPCs : l \notin ReaderPCs
BY VotersAssumption DEF Processes, VoterPCs, ReaderPCs

LEMMA LiveInitially == LiveInit => LiveInv
<1> SUFFICES ASSUME LiveInit PROVE LiveInv
  OBVIOUS
<1>1. NoWork \in Working
  BY DEF NoWork, Working, Views, Audience
<1>2. LiveTypeOK
  <2>1. /\ livePc \in [Voters \cup Readers -> VoterPCs \cup ReaderPCs]
        /\ \A v \in Voters : livePc[v] \in VoterPCs
        /\ \A r \in Readers : livePc[r] \in ReaderPCs /\ live[r] = NoWork
    BY VotersAreNotReaders DEF LiveInit, VoterPCs, ReaderPCs
  <2>2. live \in [Voters \cup Readers -> Working]
    BY <1>1 DEF LiveInit
  <2>3. liveFaults \in 0..MaxLiveFaults
    BY LiveFaultsAssumption DEF LiveInit
  <2> QED BY <2>1, <2>2, <2>3 DEF LiveInit, LiveTypeOK, Views
<1>3. WorkOK /\ SnapshotInv /\ EmissionInv
  BY VotersAreNotReaders
  DEF LiveInit, WorkOK, SnapshotInv, EmissionInv, PastDrop, Processes
<1> QED BY <1>2, <1>3 DEF LiveInv

\* One part more is counted, of a voter or of a reader.
LEMMA CountTyped ==
    ASSUME LiveInv, NEW p \in Processes, NEW from, NEW to, CountPart(p, from, to),
           \/ p \in Voters /\ from = "vCount" /\ to = "emit"
           \/ p \in Readers /\ from = "rCount" /\ to = "keep"
    PROVE  /\ LiveTypeOK' /\ WorkOK'
           /\ UNCHANGED <<liveRows, snapshot, due, liveHistory, liveFaults>>
           /\ \A q \in Processes \ {p} : livePc'[q] = livePc[q] /\ live'[q] = live[q]
           /\ livePc[p] = from /\ livePc'[p] \in {from, to}
           /\ \E k \in live[p].todo :
                 /\ live'[p].view = live[p].view \cup (boxed \cap PartOf(k))
                 /\ live'[p].todo = live[p].todo \ {k}
<1> USE DEF LiveInv
<1>1. PICK k \in live[p].todo :
          /\ live' = [live EXCEPT ![p].view = @ \cup (boxed \cap PartOf(k)),
                                  ![p].todo = @ \ {k}]
          /\ LiveGoto(p, IF live[p].todo = {k} THEN to ELSE from)
  BY DEF CountPart
<1>2. /\ UNCHANGED <<liveRows, snapshot, due, liveHistory, liveFaults>>
      /\ livePc[p] = from
  BY DEF CountPart
<1>3. live[p] \in Working /\ boxed \in Views
  BY DEF LiveTypeOK, Processes
<1>4. /\ \A q \in Processes \ {p} : livePc'[q] = livePc[q] /\ live'[q] = live[q]
      /\ livePc'[p] = IF live[p].todo = {k} THEN to ELSE from
      /\ live'[p].view = live[p].view \cup (boxed \cap PartOf(k))
      /\ live'[p].todo = live[p].todo \ {k}
  BY <1>1, <1>3 DEF LiveTypeOK, LiveGoto, Processes, Working
<1>5. live' \in [Processes -> Working]
  BY <1>1, <1>3 DEF LiveTypeOK, Processes, Working, Views
<1>6. LiveTypeOK'
  <2>1. livePc' \in [Processes -> VoterPCs \cup ReaderPCs]
    BY <1>1 DEF LiveGoto, LiveTypeOK, Processes, VoterPCs, ReaderPCs
  <2>2. \A v \in Voters : livePc'[v] \in VoterPCs
    BY <1>4, VotersAreNotReaders DEF LiveTypeOK, VoterPCs
  <2>3. \A r \in Readers : livePc'[r] \in ReaderPCs /\ (livePc'[r] = "idle" => live'[r] = NoWork)
    BY <1>4, VotersAreNotReaders DEF LiveTypeOK, ReaderPCs
  <2> QED BY <1>2, <1>5, <2>1, <2>2, <2>3 DEF LiveTypeOK, Processes, liveRows, liveHistory
<1>7. WorkOK'
  BY <1>2, <1>4, VotersAreNotReaders DEF WorkOK
<1> QED BY <1>2, <1>4, <1>6, <1>7

\* A handler goes to another step, with what it holds.
LEMMA MoveTyped ==
    ASSUME LiveInv, NEW p \in Processes, NEW pc, NEW work \in Working,
           LiveGoto(p, pc), live' = [live EXCEPT ![p] = work],
           \/ /\ p \in Voters /\ pc \in VoterPCs
              /\ pc \in {"uncast", "drop"} => work = NoWork
              /\ pc = "emit" => work.todo = {}
           \/ /\ p \in Readers /\ pc \in ReaderPCs
              /\ pc = "idle" => work = NoWork
              /\ pc \in {"find", "look"} => work.todo = Parts
              /\ pc = "keep" => work.todo = {}
    PROVE  /\ livePc' \in [Voters \cup Readers -> VoterPCs \cup ReaderPCs]
           /\ \A v \in Voters : livePc'[v] \in VoterPCs
           /\ \A r \in Readers :
                 livePc'[r] \in ReaderPCs /\ (livePc'[r] = "idle" => live'[r] = NoWork)
           /\ live' \in [Voters \cup Readers -> Working]
           /\ WorkOK'
           /\ \A q \in Processes \ {p} : livePc'[q] = livePc[q] /\ live'[q] = live[q]
           /\ livePc'[p] = pc /\ live'[p] = work
<1> USE DEF LiveInv
<1>1. /\ \A q \in Processes \ {p} : livePc'[q] = livePc[q] /\ live'[q] = live[q]
      /\ livePc'[p] = pc /\ live'[p] = work
  BY DEF LiveGoto, LiveTypeOK, Processes
<1>2. /\ livePc' \in [Voters \cup Readers -> VoterPCs \cup ReaderPCs]
      /\ live' \in [Voters \cup Readers -> Working]
  BY DEF LiveGoto, LiveTypeOK, Processes
<1>3. /\ \A v \in Voters : livePc'[v] \in VoterPCs
      /\ \A r \in Readers :
            livePc'[r] \in ReaderPCs /\ (livePc'[r] = "idle" => live'[r] = NoWork)
  BY <1>1, VotersAreNotReaders DEF LiveTypeOK
<1>4. WorkOK'
  BY <1>1, VotersAreNotReaders DEF WorkOK
<1> QED BY <1>1, <1>2, <1>3, <1>4

\* A handler that stands still at its step keeps what it holds.
LEMMA KeptWork ==
    ASSUME LiveTypeOK, NEW p \in Processes
    PROVE  live = [live EXCEPT ![p] = live[p]] /\ live[p] \in Working
BY DEF LiveTypeOK, Processes

LEMMA NoWorkTyped == NoWork \in Working
BY DEF NoWork, Working, Views, Audience

-----------------------------------------------------------------------------
(* The parts of the invariant, when nobody counts and nothing is stored.   *)

\* A fresh voter stays fresh while no ballot is stored and it does not move.
LEMMA FreshStays ==
    ASSUME NEW v \in Voters, Fresh(v), livePc'[v] = livePc[v], live'[v] = live[v],
           boxed' = boxed
    PROVE  Fresh(v)'
BY DEF Fresh

LEMMA EmissionKept ==
    ASSUME LiveInv, NEW p \in Processes, ~ \E v \in Voters : v = p /\ Fresh(v),
           \A q \in Processes \ {p} : livePc'[q] = livePc[q] /\ live'[q] = live[q],
           boxed' = boxed, complete => complete', liveFaults' = 0 => liveFaults = 0
    PROVE  EmissionInv'
<1> SUFFICES ASSUME ~complete', liveFaults' = 0 PROVE \E v \in Voters : Fresh(v)'
  BY DEF EmissionInv
<1>1. PICK v \in Voters : Fresh(v)
  BY DEF LiveInv, EmissionInv
<1>2. v \in Processes \ {p}
  BY <1>1 DEF Processes
<1> QED BY <1>1, <1>2, FreshStays

LEMMA SnapshotKept ==
    ASSUME LiveInv, NEW p \in Readers,
           \A q \in Processes \ {p} : livePc'[q] = livePc[q] /\ live'[q] = live[q],
           boxed' = boxed, raced' = raced, snapshot' \in {snapshot, NoView},
           livePc'[p] = "rCount" => live'[p].todo = Parts,
           livePc'[p] # "keep"
    PROVE  SnapshotInv'
<1>1. ASSUME NEW v \in Voters
      PROVE  livePc'[v] = livePc[v]
  BY VotersAreNotReaders
<1>2. ASSUME NEW v \in Voters, livePc[v] \in PastDrop, v \notin raced, NEW r \in Readers
      PROVE  ~HoldsOldCounts(r, v)'
  <2>1. CASE r # p
    BY <1>2, <2>1, VotersAreNotReaders DEF HoldsOldCounts, LiveInv, SnapshotInv
  <2>2. CASE r = p
    BY <1>2, <2>2 DEF HoldsOldCounts
  <2> QED BY <2>1, <2>2
<1> QED BY <1>1, <1>2 DEF LiveInv, SnapshotInv

\* A vote that moves on does not disturb the snapshot either.
LEMMA SnapshotKeptByVote ==
    ASSUME LiveInv, NEW p \in Voters,
           \A q \in Processes \ {p} : livePc'[q] = livePc[q] /\ live'[q] = live[q],
           boxed' = boxed, raced' = raced, snapshot' = snapshot,
           livePc[p] \in PastDrop
    PROVE  SnapshotInv'
<1>1. ASSUME NEW v \in Voters
      PROVE  /\ livePc[v] # "uncast" \/ livePc'[v] = livePc[v]
             /\ livePc'[v] \in PastDrop => livePc[v] \in PastDrop
  BY <1>1, VotersAreNotReaders DEF PastDrop
<1>2. ASSUME NEW v \in Voters, NEW r \in Readers, ~HoldsOldCounts(r, v)
      PROVE  ~HoldsOldCounts(r, v)'
  BY <1>2, VotersAreNotReaders DEF HoldsOldCounts
<1> QED BY <1>1, <1>2 DEF LiveInv, SnapshotInv

-----------------------------------------------------------------------------
(* The steps of a vote.                                                    *)

LEMMA VoteStep ==
    ASSUME LiveInv, NEW v \in Voters,
           CastBallot(v) \/ DropSnapshot(v) \/ CountAfterVote(v) \/ EmitAfterVote(v)
    PROVE  LiveInv'
<1> USE DEF LiveInv
<1>0. v \in Processes /\ v \notin Readers
  BY VotersAreNotReaders
<1>1. CASE CastBallot(v)
  <2>1. live[v] = NoWork /\ live[v] \in Working /\ live' = [live EXCEPT ![v] = live[v]]
    BY <1>0, <1>1, KeptWork DEF CastBallot, WorkOK
  <2>2. /\ livePc' \in [Voters \cup Readers -> VoterPCs \cup ReaderPCs]
        /\ \A w \in Voters : livePc'[w] \in VoterPCs
        /\ \A r \in Readers :
              livePc'[r] \in ReaderPCs /\ (livePc'[r] = "idle" => live'[r] = NoWork)
        /\ live' \in [Voters \cup Readers -> Working]
        /\ WorkOK'
        /\ \A q \in Processes \ {v} : livePc'[q] = livePc[q] /\ live'[q] = live[q]
        /\ livePc'[v] = "drop"
    BY <1>0, <1>1, <2>1, MoveTyped DEF CastBallot, VoterPCs
  <2>3. LiveTypeOK'
    BY <1>1, <2>2 DEF CastBallot, LiveTypeOK, Views
  <2>4. SnapshotInv'
    <3>1. ASSUME NEW w \in Voters, w # v PROVE livePc'[w] = livePc[w]
      BY <2>2, <3>1, VotersAreNotReaders
    <3>2. ASSUME NEW w \in Voters, NEW r \in Readers, ~HoldsOldCounts(r, w)
          PROVE  ~HoldsOldCounts(r, w)'
      BY <1>0, <2>2, <3>2, VotersAreNotReaders DEF HoldsOldCounts
    <3> QED BY <1>1, <2>2, <3>1, <3>2 DEF CastBallot, SnapshotInv, PastDrop
  <2>5. Fresh(v)'
    BY <2>2 DEF Fresh
  <2> QED BY <2>2, <2>3, <2>4, <2>5 DEF EmissionInv
<1>2. CASE DropSnapshot(v)
  <2>1. live[v] = NoWork /\ live[v] \in Working /\ live' = [live EXCEPT ![v] = live[v]]
    BY <1>0, <1>2, KeptWork DEF DropSnapshot, WorkOK
  <2>2. PICK pc \in {"vCount", "done"} : LiveGoto(v, pc)
    BY <1>2 DEF DropSnapshot
  <2>3. /\ livePc' \in [Voters \cup Readers -> VoterPCs \cup ReaderPCs]
        /\ \A w \in Voters : livePc'[w] \in VoterPCs
        /\ \A r \in Readers :
              livePc'[r] \in ReaderPCs /\ (livePc'[r] = "idle" => live'[r] = NoWork)
        /\ live' \in [Voters \cup Readers -> Working]
        /\ WorkOK'
        /\ \A q \in Processes \ {v} : livePc'[q] = livePc[q] /\ live'[q] = live[q]
        /\ livePc'[v] = pc /\ live'[v] = NoWork
    BY <1>0, <2>1, <2>2, MoveTyped DEF VoterPCs
  <2>4. LiveTypeOK'
    <3>1. liveFaults' \in 0..MaxLiveFaults
      BY <1>2, LiveFaultsAssumption DEF DropSnapshot, LiveFault, LiveTypeOK
    <3>2. snapshot' \in Views \cup {NoView} /\ raced' \in Views
      BY <1>2 DEF DropSnapshot, Dropped, LiveTypeOK, Views
    <3> QED BY <1>2, <2>3, <3>1, <3>2 DEF DropSnapshot, LiveTypeOK, liveRows
  <2>5. SnapshotInv'
    <3>1. ASSUME NEW w \in Voters, w # v PROVE livePc'[w] = livePc[w]
      BY <2>3, <3>1, VotersAreNotReaders
    <3>2. ASSUME NEW w \in Voters, NEW r \in Readers
          PROVE  HoldsOldCounts(r, w)' = HoldsOldCounts(r, w)
      BY <1>0, <2>3, <3>2, VotersAreNotReaders DEF HoldsOldCounts
    <3>3. raced \subseteq raced' /\ boxed' = boxed /\ snapshot' \in {snapshot, NoView}
      BY <1>2 DEF DropSnapshot, Dropped, liveRows
    <3>4. v \notin raced' => snapshot' = NoView /\ \A r \in Readers : ~HoldsOldCounts(r, v)
      BY <1>2 DEF DropSnapshot, Dropped
    <3>5. v \in boxed /\ livePc'[v] # "uncast"
      BY <1>2, <2>3 DEF DropSnapshot, SnapshotInv
    <3> QED BY <3>1, <3>2, <3>3, <3>4, <3>5 DEF SnapshotInv
  <2>6. EmissionInv'
    <3>1. CASE pc = "vCount"
      BY <2>3, <3>1, EveryVoterIsCounted, <1>2
      DEF EmissionInv, Fresh, NoWork, DropSnapshot, liveRows, LiveTypeOK, Views
    <3>2. CASE pc = "done"
      <4>1. liveFaults' > 0
        BY <1>2, <2>3, <3>2
        DEF DropSnapshot, LiveGoto, LiveFault, LiveTypeOK, Processes
      <4> QED BY <4>1 DEF EmissionInv
    <3> QED BY <3>1, <3>2
  <2> QED BY <2>3, <2>4, <2>5, <2>6
<1>3. CASE CountAfterVote(v)
  <2>1. /\ LiveTypeOK' /\ WorkOK'
        /\ UNCHANGED <<liveRows, snapshot, due, liveHistory, liveFaults>>
        /\ \A q \in Processes \ {v} : livePc'[q] = livePc[q] /\ live'[q] = live[q]
        /\ livePc[v] = "vCount" /\ livePc'[v] \in {"vCount", "emit"}
        /\ \E k \in live[v].todo :
              /\ live'[v].view = live[v].view \cup (boxed \cap PartOf(k))
              /\ live'[v].todo = live[v].todo \ {k}
    BY <1>0, <1>3, CountTyped DEF CountAfterVote
  <2>2. SnapshotInv'
    BY <2>1, SnapshotKeptByVote DEF liveRows, liveHistory, PastDrop
  <2>3. Fresh(v) => Fresh(v)'
    BY <2>1 DEF Fresh, liveRows, PartOf
  <2>4. EmissionInv'
    <3>1. CASE Fresh(v)
      BY <2>3, <3>1 DEF EmissionInv
    <3>2. CASE ~Fresh(v)
      BY <1>0, <2>1, <3>2, EmissionKept DEF liveRows, liveHistory
    <3> QED BY <3>1, <3>2
  <2> QED BY <2>1, <2>2, <2>4
<1>4. CASE EmitAfterVote(v)
  <2>1. /\ livePc' \in [Voters \cup Readers -> VoterPCs \cup ReaderPCs]
        /\ \A w \in Voters : livePc'[w] \in VoterPCs
        /\ \A r \in Readers :
              livePc'[r] \in ReaderPCs /\ (livePc'[r] = "idle" => live'[r] = NoWork)
        /\ live' \in [Voters \cup Readers -> Working]
        /\ WorkOK'
        /\ \A q \in Processes \ {v} : livePc'[q] = livePc[q] /\ live'[q] = live[q]
        /\ livePc'[v] = "done"
    BY <1>0, <1>4, MoveTyped, NoWorkTyped DEF EmitAfterVote, LiveEnd, VoterPCs
  <2>2. LiveTypeOK'
    <3>1. liveFaults' \in 0..MaxLiveFaults
      BY <1>4, LiveFaultsAssumption DEF EmitAfterVote, LiveFault, LiveTypeOK
    <3>2. complete' \in BOOLEAN
      BY <1>4, Zenon DEF EmitAfterVote, EmitToRoom, LiveTypeOK
    <3> QED BY <1>4, <2>1, <3>1, <3>2 DEF EmitAfterVote, LiveTypeOK, liveRows
  <2>3. SnapshotInv'
    BY <1>4, <2>1, SnapshotKeptByVote DEF EmitAfterVote, liveRows, PastDrop
  <2>4. EmissionInv'
    <3>1. CASE liveFaults' # liveFaults
      <4>1. liveFaults' > 0
        BY <1>4, <3>1 DEF EmitAfterVote, LiveFault, LiveTypeOK
      <4> QED BY <4>1 DEF EmissionInv
    <3>2. CASE Fresh(v) /\ liveFaults' = liveFaults
      <4>1. boxed \subseteq live[v].view
        BY <1>4, <3>2 DEF Fresh, EmitAfterVote, WorkOK, LiveTypeOK, Views
      <4>2. EmitToRoom(live[v].view)
        BY <1>4, <3>2 DEF EmitAfterVote, LiveFault, LiveTypeOK
      <4>3. complete'
        BY <4>1, <4>2, Zenon DEF EmitToRoom
      <4> QED BY <4>3 DEF EmissionInv
    <3>3. CASE ~Fresh(v) /\ liveFaults' = liveFaults
      <4>1. complete => complete'
        BY <1>4 DEF EmitAfterVote, EmitToRoom
      <4> QED BY <1>0, <1>4, <2>1, <3>3, <4>1, EmissionKept DEF EmitAfterVote, liveRows
    <3> QED BY <3>1, <3>2, <3>3
  <2> QED BY <2>1, <2>2, <2>3, <2>4
<1> QED BY <1>1, <1>2, <1>3, <1>4

-----------------------------------------------------------------------------
(* The steps of getResults, and the environment.                           *)

\* The steps of a reader that neither count nor keep.
LEMMA ReaderMoves ==
    ASSUME LiveInv, NEW r \in Readers, NEW pc \in ReaderPCs, NEW work \in Working,
           LiveGoto(r, pc), live' = [live EXCEPT ![r] = work],
           pc = "idle" => work = NoWork, pc # "keep",
           pc \in {"find", "look", "rCount"} => work.todo = Parts,
           UNCHANGED <<liveRows, raced>>, snapshot' \in {snapshot, NoView},
           due' \in BOOLEAN, complete' \in BOOLEAN, complete => complete',
           liveFaults' \in 0..MaxLiveFaults, liveFaults' = 0 => liveFaults = 0
    PROVE  LiveInv'
<1>1. /\ livePc' \in [Voters \cup Readers -> VoterPCs \cup ReaderPCs]
      /\ \A v \in Voters : livePc'[v] \in VoterPCs
      /\ \A q \in Readers :
            livePc'[q] \in ReaderPCs /\ (livePc'[q] = "idle" => live'[q] = NoWork)
      /\ live' \in [Voters \cup Readers -> Working]
      /\ WorkOK'
      /\ \A q \in Processes \ {r} : livePc'[q] = livePc[q] /\ live'[q] = live[q]
      /\ livePc'[r] = pc /\ live'[r] = work
  BY VotersAreNotReaders, MoveTyped
<1>2. LiveTypeOK'
  BY <1>1 DEF LiveInv, LiveTypeOK, liveRows
<1>3. SnapshotInv'
  BY <1>1, SnapshotKept DEF liveRows
<1>4. EmissionInv'
  BY <1>1, VotersAreNotReaders, EmissionKept DEF liveRows
<1> QED BY <1>1, <1>2, <1>3, <1>4 DEF LiveInv

LEMMA ReaderStep ==
    ASSUME LiveInv, NEW r \in Readers, Read(r) \/ \E to \in Audience : AskResults(r, to)
    PROVE  LiveInv'
<1> USE DEF LiveInv
<1>0. /\ r \in Processes /\ r \notin Voters /\ live[r] \in Working
      /\ live = [live EXCEPT ![r] = live[r]]
  BY VotersAreNotReaders, KeptWork
<1>1. ASSUME NEW to \in Audience, AskResults(r, to) PROVE LiveInv'
  <2>1. [live[r] EXCEPT !.to = to] \in Working
    BY <1>0 DEF Working
  <2>2. live' = [live EXCEPT ![r] = [live[r] EXCEPT !.to = to]]
    BY <1>0, <1>1 DEF AskResults, LiveTypeOK
  <2>3. [live[r] EXCEPT !.to = to].todo = Parts
    BY <1>0, <1>1 DEF AskResults, LiveTypeOK, NoWork
  <2> QED BY <1>1, <2>1, <2>2, <2>3, ReaderMoves
      DEF AskResults, ReaderPCs, LiveTypeOK, liveHistory
<1>2. CASE FindForResults(r)
  <2>1. CASE sealedView # NoView /\ live' = [live EXCEPT ![r].view = sealedView]
                 /\ LiveGoto(r, "answer")
    <3>1. [live[r] EXCEPT !.view = sealedView] \in Working
      BY <1>0, <2>1 DEF Working, LiveTypeOK
    <3>2. live' = [live EXCEPT ![r] = [live[r] EXCEPT !.view = sealedView]]
      BY <1>0, <2>1 DEF LiveTypeOK
    <3> QED BY <1>2, <2>1, <3>1, <3>2, ReaderMoves
        DEF FindForResults, ReaderPCs, LiveTypeOK, liveHistory
  <2>2. CASE /\ live' = [live EXCEPT ![r].late = due, ![r].closed = closed]
             /\ LiveGoto(r, IF closed THEN "rCount" ELSE "look")
    <3> DEFINE work == [live[r] EXCEPT !.late = due, !.closed = closed]
    <3>1. work \in Working
      BY <1>0 DEF Working, LiveTypeOK
    <3>2. live' = [live EXCEPT ![r] = work]
      BY <1>0, <2>2 DEF LiveTypeOK
    <3>3. work.todo = Parts
      BY <1>0, <1>2 DEF Working, WorkOK, FindForResults
    <3> QED BY <1>2, <2>2, <3>1, <3>2, <3>3, ReaderMoves
        DEF FindForResults, ReaderPCs, LiveTypeOK, liveHistory
  <2> QED BY <1>2, <2>1, <2>2 DEF FindForResults
<1>3. CASE LookUpSnapshot(r)
  <2>1. CASE /\ MayServe(r)
             /\ live' = [live EXCEPT ![r].view = snapshot]
             /\ LiveGoto(r, "answer")
             /\ UNCHANGED due
    <3>1. [live[r] EXCEPT !.view = snapshot] \in Working
      BY <1>0, <2>1 DEF MayServe, Working, LiveTypeOK
    <3>2. live' = [live EXCEPT ![r] = [live[r] EXCEPT !.view = snapshot]]
      BY <1>0, <2>1 DEF LiveTypeOK
    <3> QED BY <1>3, <2>1, <3>1, <3>2, ReaderMoves
        DEF LookUpSnapshot, ReaderPCs, LiveTypeOK, liveHistory
  <2>2. CASE /\ due' = FALSE
             /\ live' = [live EXCEPT ![r].late = FALSE]
             /\ LiveGoto(r, "rCount")
    <3> DEFINE work == [live[r] EXCEPT !.late = FALSE]
    <3>1. work \in Working
      BY <1>0 DEF Working
    <3>2. live' = [live EXCEPT ![r] = work]
      BY <1>0, <2>2 DEF LiveTypeOK
    <3>3. work.todo = Parts
      BY <1>0, <1>3 DEF Working, WorkOK, LookUpSnapshot
    <3> QED BY <1>3, <2>2, <3>1, <3>2, <3>3, ReaderMoves
        DEF LookUpSnapshot, ReaderPCs, LiveTypeOK, liveHistory
  <2> QED BY <1>3, <2>1, <2>2 DEF LookUpSnapshot
<1>4. CASE CountForResults(r)
  <2>1. /\ LiveTypeOK' /\ WorkOK'
        /\ UNCHANGED <<liveRows, snapshot, due, liveHistory, liveFaults>>
        /\ \A q \in Processes \ {r} : livePc'[q] = livePc[q] /\ live'[q] = live[q]
        /\ livePc[r] = "rCount" /\ livePc'[r] \in {"rCount", "keep"}
        /\ \E k \in live[r].todo :
              /\ live'[r].view = live[r].view \cup (boxed \cap PartOf(k))
              /\ live'[r].todo = live[r].todo \ {k}
    BY <1>0, <1>4, CountTyped DEF CountForResults
  <2>2. SnapshotInv'
    <3>1. ASSUME NEW v \in Voters PROVE livePc'[v] = livePc[v]
      BY <2>1, VotersAreNotReaders
    <3>2. ASSUME NEW v \in Voters, v \in boxed, ~HoldsOldCounts(r, v)
          PROVE  ~HoldsOldCounts(r, v)'
      BY <2>1, <3>2 DEF HoldsOldCounts, PartOf
    <3>3. ASSUME NEW v \in Voters, NEW q \in Readers, q # r, ~HoldsOldCounts(q, v)
          PROVE  ~HoldsOldCounts(q, v)'
      BY <2>1, <3>3, VotersAreNotReaders DEF HoldsOldCounts
    <3> QED BY <2>1, <3>1, <3>2, <3>3 DEF SnapshotInv, liveRows, liveHistory, PastDrop
  <2>3. EmissionInv'
    BY <1>0, <2>1, EmissionKept DEF liveRows, liveHistory
  <2> QED BY <2>1, <2>2, <2>3
<1>5. CASE KeepSnapshot(r)
  <2>1. CASE /\ snapshot' = IF live[r].closed THEN snapshot ELSE live[r].view
             /\ LiveGoto(r, "answer")
             /\ UNCHANGED <<live, liveFaults>>
    <3>1. /\ livePc' \in [Voters \cup Readers -> VoterPCs \cup ReaderPCs]
          /\ \A v \in Voters : livePc'[v] \in VoterPCs
          /\ \A q \in Readers :
                livePc'[q] \in ReaderPCs /\ (livePc'[q] = "idle" => live'[q] = NoWork)
          /\ live' \in [Voters \cup Readers -> Working]
          /\ WorkOK'
          /\ \A q \in Processes \ {r} : livePc'[q] = livePc[q] /\ live'[q] = live[q]
          /\ livePc'[r] = "answer"
      BY <1>0, <2>1, MoveTyped DEF ReaderPCs
    <3>2. LiveTypeOK'
      BY <1>0, <1>5, <2>1, <3>1 DEF KeepSnapshot, LiveTypeOK, Working, liveRows, liveHistory
    <3>3. SnapshotInv'
      <4>1. ASSUME NEW v \in Voters PROVE livePc'[v] = livePc[v]
        BY <3>1, VotersAreNotReaders
      <4>2. ASSUME NEW v \in Voters, ~HoldsOldCounts(r, v) PROVE v \in live[r].view
        BY <1>5, <4>2, EveryVoterIsCounted DEF HoldsOldCounts, KeepSnapshot, WorkOK
      <4>3. ASSUME NEW v \in Voters, NEW q \in Readers, ~HoldsOldCounts(q, v)
            PROVE  ~HoldsOldCounts(q, v)'
        BY <3>1, <4>3, VotersAreNotReaders DEF HoldsOldCounts
      <4> QED BY <1>5, <2>1, <4>1, <4>2, <4>3
          DEF KeepSnapshot, SnapshotInv, liveRows, liveHistory
    <3>4. EmissionInv'
      BY <1>0, <1>5, <2>1, <3>1, EmissionKept DEF KeepSnapshot, liveRows, liveHistory
    <3> QED BY <3>1, <3>2, <3>3, <3>4
  <2>2. CASE /\ LiveFault
             /\ LiveEnd(r, "idle")
             /\ UNCHANGED snapshot
    <3>1. liveFaults' \in 0..MaxLiveFaults /\ (liveFaults' = 0 => liveFaults = 0)
      BY <2>2, LiveFaultsAssumption DEF LiveFault, LiveTypeOK
    <3> QED BY <1>5, <2>2, <3>1, NoWorkTyped, ReaderMoves
        DEF KeepSnapshot, LiveEnd, ReaderPCs, LiveTypeOK, liveHistory
  <2> QED BY <1>5, <2>1, <2>2 DEF KeepSnapshot
<1>6. CASE AnswerResults(r)
  <2>1. complete' \in BOOLEAN /\ (complete => complete')
    <3>1. CASE EmitToRoom(live[r].view)
      <4>1. complete' \in BOOLEAN
        BY <3>1, Zenon DEF EmitToRoom
      <4>2. complete => complete'
        BY <3>1, Zenon DEF EmitToRoom
      <4> QED BY <4>1, <4>2
    <3>2. CASE UNCHANGED complete
      BY <3>2 DEF LiveTypeOK
    <3> QED BY <1>6, <3>1, <3>2 DEF AnswerResults
  <2> QED BY <1>6, <2>1, NoWorkTyped, ReaderMoves
      DEF AnswerResults, LiveEnd, ReaderPCs, LiveTypeOK
<1> QED BY <1>1, <1>2, <1>3, <1>4, <1>5, <1>6 DEF Read

LEMMA EnvironmentStep ==
    ASSUME LiveInv, IntervalPasses \/ SnapshotExpires \/ CloseVoting \/ SealVoting
    PROVE  LiveInv'
<1> USE DEF LiveInv
<1>1. UNCHANGED <<livePc, live, boxed, complete, raced, liveFaults>>
  BY DEF IntervalPasses, SnapshotExpires, CloseVoting, SealVoting, liveRows, liveHistory
<1>2. snapshot' \in {snapshot, NoView}
  BY DEF IntervalPasses, SnapshotExpires, CloseVoting, SealVoting
<1>3. LiveTypeOK'
  <2>1. sealedView' \in Views \cup {NoView} /\ due' \in BOOLEAN /\ closed' \in BOOLEAN
    BY DEF IntervalPasses, SnapshotExpires, CloseVoting, SealVoting, liveRows, LiveTypeOK
  <2> QED BY <1>1, <1>2, <2>1 DEF LiveTypeOK
<1>4. WorkOK' /\ EmissionInv'
  BY <1>1 DEF WorkOK, EmissionInv, Fresh
<1>5. SnapshotInv'
  BY <1>1, <1>2 DEF SnapshotInv, HoldsOldCounts
<1> QED BY <1>3, <1>4, <1>5

-----------------------------------------------------------------------------
(* The theorems.                                                           *)

\* Types, what each handler has read, and the two arguments below.
THEOREM LiveInvariant == LiveSpec => []LiveInv
<1>1. LiveInv /\ [LiveNext]_liveVars => LiveInv'
  <2>1. CASE UNCHANGED liveVars
    BY <2>1 DEF liveVars, liveRows, liveHistory, LiveInv, LiveTypeOK, WorkOK, SnapshotInv,
                HoldsOldCounts, EmissionInv, Fresh
  <2> QED BY <2>1, VoteStep, ReaderStep, EnvironmentStep DEF LiveNext
<1> QED BY <1>1, LiveInitially, PTL DEF LiveSpec

\* A snapshot that lacks a ballot past the deletion of the snapshot was written
\* by a getResults that had counted before it (vote, getResults, setSnapshot).
THEOREM StaleSnapshots == LiveSpec => []StaleSnapshotNeedsRace
<1>1. LiveInv => StaleSnapshotNeedsRace
  BY DEF LiveInv, SnapshotInv, StaleSnapshotNeedsRace, PastDrop
<1> QED BY <1>1, LiveInvariant, PTL

\* When the votes are through and Redis has not failed, the room has been sent
\* every ballot: the last ballot's own vote counts after it (vote, emit).
THEOREM BallotsEmitted == LiveSpec => []AllBallotsEmitted
<1>1. LiveInv => AllBallotsEmitted
  BY DEF LiveInv, LiveTypeOK, EmissionInv, AllBallotsEmitted, Fresh
<1> QED BY <1>1, LiveInvariant, PTL

-----------------------------------------------------------------------------
(* The open page.                                                          *)

\* The counts of p have the ballot of v, or will when p has counted all parts.
Carries(p, v) == v \in live[p].view \/ \E k \in live[p].todo : v \in PartOf(k)

\* The ballot of v is on its way to a page in the room: with v's own emission,
\* with the answer to voting:join, or in the page's socket.
OwnVote(v) ==
    \/ livePc[v] = "drop"
    \/ livePc[v] \in {"vCount", "emit"} /\ Carries(v, v)
Asked(v) ==
    \/ livePc[Joiner] \in {"find", "look"}
    \/ livePc[Joiner] \in {"rCount", "keep"} /\ Carries(Joiner, v)
    \/ livePc[Joiner] = "answer" /\ v \in live[Joiner].view
Queued(v) == \E i \in DOMAIN inbox : v \in inbox[i]
Arriving(v) == OwnVote(v) \/ Asked(v) \/ Queued(v)

CastBoxed == \A v \in boxed : livePc[v] # "uncast"

\* A page in the room that has not lapsed shows each ballot, or it is coming.
Shown(v) == counts # NoView /\ v \in counts
RoomInv ==
    channel = "room" /\ liveFaults = 0 /\ ~lapsed =>
        \A v \in Owed \ raced : Shown(v) \/ Arriving(v)

PageInv == LiveInv /\ ResultsPageTypeOK /\ CastBoxed /\ RoomInv

-----------------------------------------------------------------------------

LEMMA PageInitially == ResultsPageInit => PageInv
<1> SUFFICES ASSUME ResultsPageInit PROVE PageInv
  OBVIOUS
<1>1. LiveInv
  BY LiveInitially DEF ResultsPageInit
<1>2. ResultsPageTypeOK
  <2>1. NoPageFetch \in PageFetch
    BY DEF NoPageFetch, PageFetch, Views
  <2>2. <<>> \in Seq(Views)
    OBVIOUS
  <2>3. fetches \in 0..MaxFetches /\ drops \in 0..MaxDrops
    BY PageBoundsAssumption DEF ResultsPageInit
  <2>4. /\ channel \in Channels /\ inbox \in Seq(Views)
        /\ counts \in Views \cup {NoView} /\ lapsed \in BOOLEAN
    BY <2>2 DEF ResultsPageInit, Channels
  <2>5. fetched = NoPageFetch
    BY DEF ResultsPageInit
  <2> QED BY <2>1, <2>3, <2>4, <2>5 DEF ResultsPageTypeOK
<1>3. CastBoxed /\ RoomInv
  BY DEF ResultsPageInit, LiveInit, CastBoxed, RoomInv
<1> QED BY <1>1, <1>2, <1>3 DEF PageInv

\* Every step of the page is a step of the back end, or none of it.
LEMMA PageStepsBackEnd == ResultsPageNext => [LiveNext]_liveVars
<1>1. BackendStep => LiveNext
  BY DEF BackendStep, LiveNext, Read
<1>2. ASSUME NEW v \in Voters, EmitAndDeliver(v) PROVE LiveNext
  BY <1>2 DEF EmitAndDeliver, LiveNext
<1>3. ASSUME NEW r \in Readers, AnswerAndDeliver(r) \/ \E to \in Audience : OthersAsk(r, to)
      PROVE  LiveNext
  BY <1>3 DEF AnswerAndDeliver, OthersAsk, LiveNext, Read
<1>4. Join => LiveNext
  BY PageBoundsAssumption DEF Join, LiveNext, Audience
<1>5. LoseConnection \/ Reconnect \/ Hear \/ FetchVoting \/ CountForFetch \/ FetchAnswered
          => UNCHANGED liveVars
  BY DEF LoseConnection, Reconnect, Hear, FetchVoting, CountForFetch, FetchAnswered
<1> QED BY <1>1, <1>2, <1>3, <1>4, <1>5 DEF ResultsPageNext

LEMMA LiveStep ==
    ASSUME LiveInv, [LiveNext]_liveVars
    PROVE  LiveInv'
<1>1. CASE UNCHANGED liveVars
  BY <1>1 DEF liveVars, liveRows, liveHistory, LiveInv, LiveTypeOK, WorkOK, SnapshotInv,
              HoldsOldCounts, EmissionInv, Fresh
<1> QED BY <1>1, VoteStep, ReaderStep, EnvironmentStep DEF LiveNext

\* What a step of a reader, or of the environment, leaves alone.
LEMMA ReaderFrame ==
    ASSUME LiveTypeOK, NEW r \in Readers, Read(r) \/ \E to \in Audience : AskResults(r, to)
    PROVE  /\ \A q \in Processes \ {r} : livePc'[q] = livePc[q] /\ live'[q] = live[q]
           /\ UNCHANGED <<boxed, sealedView, raced>>
           /\ liveFaults' = 0 => liveFaults = 0
<1>1. \A q \in Processes \ {r} : livePc'[q] = livePc[q] /\ live'[q] = live[q]
  BY DEF Read, FindForResults, LookUpSnapshot, CountForResults, CountPart, KeepSnapshot,
         AnswerResults, AskResults, LiveGoto, LiveEnd, LiveTypeOK, Processes
<1>2. UNCHANGED <<boxed, sealedView, raced>>
  BY DEF Read, FindForResults, LookUpSnapshot, CountForResults, CountPart, KeepSnapshot,
         AnswerResults, AskResults, liveRows, liveHistory
<1>3. liveFaults' = 0 => liveFaults = 0
  BY DEF Read, FindForResults, LookUpSnapshot, CountForResults, CountPart, KeepSnapshot,
         AnswerResults, AskResults, LiveFault, LiveTypeOK
<1> QED BY <1>1, <1>2, <1>3

LEMMA EnvironmentFrame ==
    ASSUME IntervalPasses \/ SnapshotExpires \/ CloseVoting \/ SealVoting
    PROVE  UNCHANGED <<livePc, live, boxed, raced, liveFaults>> /\ Owed' \subseteq Owed
<1>1. UNCHANGED <<livePc, live, boxed, raced, liveFaults>>
  BY DEF IntervalPasses, SnapshotExpires, CloseVoting, SealVoting, liveRows, liveHistory
<1>2. Owed' \subseteq Owed
  BY <1>1 DEF IntervalPasses, SnapshotExpires, CloseVoting, SealVoting, liveRows, Owed
<1> QED BY <1>1, <1>2

LEMMA VoteFrame ==
    ASSUME LiveTypeOK, NEW v \in Voters,
           CastBallot(v) \/ DropSnapshot(v) \/ CountAfterVote(v) \/ EmitAfterVote(v)
    PROVE  /\ \A q \in Processes \ {v} : livePc'[q] = livePc[q] /\ live'[q] = live[q]
           /\ livePc'[v] # "uncast"
           /\ boxed \subseteq boxed' /\ boxed' \subseteq boxed \cup {v}
           /\ sealedView' = sealedView /\ raced \subseteq raced'
           /\ liveFaults' = 0 => liveFaults = 0
<1>1. \A q \in Processes \ {v} : livePc'[q] = livePc[q] /\ live'[q] = live[q]
  BY DEF CastBallot, DropSnapshot, CountAfterVote, CountPart, EmitAfterVote,
         LiveGoto, LiveEnd, LiveTypeOK, Processes
<1>2. livePc'[v] # "uncast"
  BY DEF CastBallot, DropSnapshot, CountAfterVote, CountPart, EmitAfterVote,
         LiveGoto, LiveEnd, LiveTypeOK, Processes
<1>3. /\ boxed \subseteq boxed' /\ boxed' \subseteq boxed \cup {v}
      /\ sealedView' = sealedView /\ raced \subseteq raced'
  BY DEF CastBallot, DropSnapshot, CountAfterVote, CountPart, EmitAfterVote,
         liveRows, liveHistory
<1>4. liveFaults' = 0 => liveFaults = 0
  BY DEF CastBallot, DropSnapshot, CountAfterVote, CountPart, EmitAfterVote,
         LiveFault, LiveTypeOK
<1> QED BY <1>1, <1>2, <1>3, <1>4

LEMMA StoredKept ==
    ASSUME LiveInv, CastBoxed, [LiveNext]_liveVars
    PROVE  CastBoxed'
<1> USE DEF LiveInv
<1>0. boxed \subseteq Voters
  BY DEF LiveTypeOK, Views
<1>1. ASSUME NEW v \in Voters,
             CastBallot(v) \/ DropSnapshot(v) \/ CountAfterVote(v) \/ EmitAfterVote(v)
      PROVE  CastBoxed'
  BY <1>0, <1>1, VoteFrame DEF CastBoxed, Processes
<1>2. ASSUME NEW r \in Readers, Read(r) \/ \E to \in Audience : AskResults(r, to)
      PROVE  CastBoxed'
  BY <1>0, <1>2, ReaderFrame, VotersAreNotReaders DEF CastBoxed
<1>3. CASE IntervalPasses \/ SnapshotExpires \/ CloseVoting \/ SealVoting
  BY <1>3, EnvironmentFrame DEF CastBoxed
<1>4. CASE UNCHANGED liveVars
  BY <1>4 DEF liveVars, liveRows, CastBoxed
<1> QED BY <1>1, <1>2, <1>3, <1>4 DEF LiveNext

\* The types of the page: what it is sent and what it fetches are views.
LEMMA PageTypesStep ==
    ASSUME PageInv, ResultsPageNext
    PROVE  ResultsPageTypeOK'
<1> USE DEF PageInv, LiveInv
<1>1. inbox \in Seq(Views) /\ fetched \in PageFetch
  BY DEF ResultsPageTypeOK
<1>2. ASSUME NEW p \in Processes PROVE live[p].view \in Views
  BY <1>2 DEF LiveTypeOK, Working, Processes
<1>3. ASSUME NEW view \in Views, ToRoom(view) PROVE inbox' \in Seq(Views)
  <2>1. Append(inbox, view) \in Seq(Views)
    BY <1>1
  <2> QED BY <1>1, <1>3, <2>1 DEF ToRoom, Deliver
<1>4. CASE BackendStep
  BY <1>4 DEF BackendStep, pageVars, ResultsPageTypeOK
<1>5. ASSUME NEW v \in Voters, EmitAndDeliver(v) PROVE ResultsPageTypeOK'
  <2>1. inbox' \in Seq(Views)
    BY <1>1, <1>2, <1>3, <1>5 DEF EmitAndDeliver, Processes
  <2> QED BY <1>5, <2>1 DEF EmitAndDeliver, ResultsPageTypeOK
<1>6. ASSUME NEW r \in Readers, AnswerAndDeliver(r) PROVE ResultsPageTypeOK'
  <2>1. inbox' \in Seq(Views)
    BY <1>1, <1>2, <1>3, <1>6 DEF AnswerAndDeliver, Processes
  <2> QED BY <1>6, <2>1 DEF AnswerAndDeliver, ResultsPageTypeOK
<1>7. ASSUME NEW r \in Readers, NEW to \in Audience, OthersAsk(r, to)
      PROVE  ResultsPageTypeOK'
  BY <1>7 DEF OthersAsk, pageVars, ResultsPageTypeOK
<1>8. CASE Join \/ LoseConnection \/ Reconnect
  <2>1. channel' \in Channels
    BY <1>8 DEF Join, LoseConnection, Reconnect, Channels
  <2>2. inbox' \in Seq(Views)
    <3>1. inbox' \in {inbox, <<>>}
      BY <1>8 DEF Join, LoseConnection, Reconnect
    <3>2. <<>> \in Seq(Views)
      OBVIOUS
    <3> QED BY <1>1, <3>1, <3>2
  <2>3. drops' \in 0..MaxDrops
    BY <1>8, PageBoundsAssumption DEF Join, LoseConnection, Reconnect, ResultsPageTypeOK
  <2>4. UNCHANGED <<counts, fetched, fetches, lapsed>>
    BY <1>8 DEF Join, LoseConnection, Reconnect
  <2> QED BY <2>1, <2>2, <2>3, <2>4 DEF ResultsPageTypeOK
<1>9. CASE Hear
  <2>1. Head(inbox) \in Views /\ Tail(inbox) \in Seq(Views)
    BY <1>1, <1>9 DEF Hear
  <2>2. counts' \in Views \cup {NoView}
    BY <1>9, <2>1 DEF Hear, Synced, ResultsPageTypeOK
  <2>3. lapsed' \in BOOLEAN
    BY <1>9, Zenon DEF Hear
  <2> QED BY <1>9, <2>1, <2>2, <2>3 DEF Hear, ResultsPageTypeOK
<1>10. CASE FetchVoting
  <2>1. fetched' \in PageFetch /\ fetched'.busy
    BY <1>10 DEF FetchVoting, NoPageFetch, PageFetch, Views
  <2>2. fetches' \in 0..MaxFetches
    BY <1>10, PageBoundsAssumption DEF FetchVoting, ResultsPageTypeOK
  <2> QED BY <1>10, <2>1, <2>2 DEF FetchVoting, ResultsPageTypeOK
<1>11. CASE CountForFetch
  <2>1. PICK k \in fetched.todo :
            fetched' = [fetched EXCEPT !.view = @ \cup (boxed \cap PartOf(k)),
                                       !.todo = @ \ {k}]
    BY <1>11 DEF CountForFetch
  <2>2. boxed \in Views
    BY DEF LiveTypeOK
  <2>3. fetched' \in PageFetch /\ fetched'.busy
    BY <1>1, <1>11, <2>1, <2>2 DEF CountForFetch, PageFetch, Views
  <2> QED BY <1>11, <2>3 DEF CountForFetch, ResultsPageTypeOK
<1>12. CASE FetchAnswered
  <2>1. fetched.view \in Views
    BY <1>1 DEF PageFetch
  <2>2. lapsed' \in BOOLEAN
    BY <1>12, Zenon DEF FetchAnswered
  <2>3. NoPageFetch \in PageFetch
    BY DEF NoPageFetch, PageFetch, Views
  <2> QED BY <1>12, <2>1, <2>2, <2>3 DEF FetchAnswered, AfterFetch, ResultsPageTypeOK
<1> QED BY <1>4, <1>5, <1>6, <1>7, <1>8, <1>9, <1>10, <1>11, <1>12 DEF ResultsPageNext

-----------------------------------------------------------------------------
(* What is on its way keeps coming.                                        *)

\* A step after which each ballot owed was owed and on its way before, and
\* still is, or is on its way now.
LEMMA RoomKept ==
    ASSUME RoomInv, channel' = channel, counts' = counts, lapsed' = lapsed,
           liveFaults' = 0 => liveFaults = 0,
           \A v \in Owed' \ raced' :
               liveFaults' = 0 =>
                   Arriving(v)' \/ (v \in Owed \ raced /\ (Arriving(v) => Arriving(v)'))
    PROVE  RoomInv'
BY DEF RoomInv, Shown

\* The vote of another goes on, what v's holds stays.
LEMMA OwnVoteStays ==
    ASSUME NEW v \in Voters, OwnVote(v), livePc'[v] = livePc[v], live'[v] = live[v]
    PROVE  OwnVote(v)'
BY DEF OwnVote, Carries

LEMMA AskedStays ==
    ASSUME NEW v \in Voters, Asked(v), livePc'[Joiner] = livePc[Joiner],
           live'[Joiner] = live[Joiner]
    PROVE  Asked(v)'
BY DEF Asked, Carries

\* v's own vote carries its ballot from the transaction to the emission.
LEMMA OwnVoteGoesOn ==
    ASSUME LiveInv, NEW v \in Voters, OwnVote(v), v \in boxed, liveFaults' = 0,
           DropSnapshot(v) \/ CountAfterVote(v)
    PROVE  OwnVote(v)'
<1> USE DEF LiveInv
<1>1. CASE DropSnapshot(v)
  <2>1. livePc'[v] = "vCount" /\ live'[v] = NoWork
    BY <1>1 DEF DropSnapshot, LiveFault, LiveGoto, LiveTypeOK, WorkOK
  <2>2. Carries(v, v)'
    BY <2>1, EveryVoterIsCounted DEF Carries, NoWork
  <2> QED BY <2>1, <2>2 DEF OwnVote
<1>2. CASE CountAfterVote(v)
  <2>1. /\ livePc[v] = "vCount" /\ livePc'[v] \in {"vCount", "emit"}
        /\ \E k \in live[v].todo :
              /\ live'[v].view = live[v].view \cup (boxed \cap PartOf(k))
              /\ live'[v].todo = live[v].todo \ {k}
    BY <1>2, CountTyped DEF CountAfterVote, Processes
  <2>2. Carries(v, v)'
    BY <2>1 DEF Carries, OwnVote, PartOf
  <2> QED BY <2>1, <2>2 DEF OwnVote
<1> QED BY <1>1, <1>2

\* The reader that answers voting:join: it counts every ballot that is stored,
\* and what it finds in the snapshot has each ballot past its deletion.
LEMMA AskedGoesOn ==
    ASSUME LiveInv, CastBoxed, NEW v \in Voters, Asked(v), v \in Owed \ raced, liveFaults' = 0,
           \/ FindForResults(Joiner) \/ LookUpSnapshot(Joiner)
           \/ CountForResults(Joiner) \/ KeepSnapshot(Joiner)
    PROVE  Asked(v)' \/ OwnVote(v)'
<1> USE DEF LiveInv
<1>0. /\ Joiner \in Readers /\ Joiner \in Processes /\ v \in boxed
      /\ livePc \in [Processes -> VoterPCs \cup ReaderPCs]
      /\ live \in [Processes -> Working]
  BY PageBoundsAssumption DEF Processes, Owed, LiveTypeOK
<1>1. CASE FindForResults(Joiner)
  <2>1. live[Joiner].todo = Parts
    BY <1>0, <1>1 DEF FindForResults, WorkOK
  <2>2. CASE sealedView # NoView
    <3>1. livePc'[Joiner] = "answer" /\ live'[Joiner].view = sealedView
      BY <1>0, <1>1, <2>2 DEF FindForResults, LiveGoto, Working
    <3> QED BY <2>2, <3>1 DEF Asked, Owed
  <2>3. CASE sealedView = NoView
    <3>1. livePc'[Joiner] \in {"rCount", "look"} /\ live'[Joiner].todo = Parts
      BY <1>0, <1>1, <2>1, <2>3 DEF FindForResults, LiveGoto, Working
    <3> QED BY <3>1, EveryVoterIsCounted DEF Asked, Carries
  <2> QED BY <2>2, <2>3
<1>2. CASE LookUpSnapshot(Joiner)
  <2>1. live[Joiner].todo = Parts
    BY <1>0, <1>2 DEF LookUpSnapshot, WorkOK
  <2>2. CASE MayServe(Joiner)
    <3>1. /\ livePc'[Joiner] = "answer" /\ live'[Joiner].view = snapshot
          /\ snapshot # NoView
      BY <1>0, <1>2, <2>2 DEF LookUpSnapshot, LiveGoto, Working, MayServe
    <3>2. livePc'[v] = livePc[v]
      BY <1>0, <1>2, VotersAreNotReaders DEF LookUpSnapshot, LiveGoto
    <3>3. CASE livePc[v] = "drop"
      BY <3>2, <3>3 DEF OwnVote
    <3>4. CASE livePc[v] # "drop"
      <4>1. livePc[v] \in PastDrop
        BY <1>0, <3>4 DEF CastBoxed, PastDrop, LiveTypeOK, VoterPCs
      <4>2. v \in snapshot
        BY <3>1, <4>1 DEF SnapshotInv
      <4> QED BY <3>1, <4>2 DEF Asked
    <3> QED BY <3>3, <3>4
  <2>3. CASE ~MayServe(Joiner)
    <3>1. livePc'[Joiner] = "rCount" /\ live'[Joiner].todo = Parts
      BY <1>0, <1>2, <2>1, <2>3 DEF LookUpSnapshot, LiveGoto, Working
    <3> QED BY <3>1, EveryVoterIsCounted DEF Asked, Carries
  <2> QED BY <2>2, <2>3
<1>3. CASE CountForResults(Joiner)
  <2>1. /\ livePc[Joiner] = "rCount" /\ livePc'[Joiner] \in {"rCount", "keep"}
        /\ \E k \in live[Joiner].todo :
              /\ live'[Joiner].view = live[Joiner].view \cup (boxed \cap PartOf(k))
              /\ live'[Joiner].todo = live[Joiner].todo \ {k}
    BY <1>0, <1>3, CountTyped DEF CountForResults
  <2>2. Carries(Joiner, v)'
    BY <1>0, <2>1 DEF Carries, Asked
  <2> QED BY <2>1, <2>2 DEF Asked
<1>4. CASE KeepSnapshot(Joiner)
  <2>1. livePc'[Joiner] = "answer" /\ live'[Joiner] = live[Joiner]
    BY <1>0, <1>4 DEF KeepSnapshot, LiveFault, LiveGoto, LiveTypeOK
  <2>2. v \in live[Joiner].view
    BY <1>0, <1>4 DEF KeepSnapshot, WorkOK, Asked, Carries
  <2> QED BY <2>1, <2>2 DEF Asked
<1> QED BY <1>1, <1>2, <1>3, <1>4

\* An emission into the page's room has what it carries in the page's socket.
LEMMA SentIsQueued ==
    ASSUME inbox \in Seq(Views), NEW view \in Views, channel = "room", ToRoom(view)
    PROVE  /\ \A v \in view : Queued(v)'
           /\ \A v \in Voters : Queued(v) => Queued(v)'
<1>1. inbox' = Append(inbox, view)
  BY DEF ToRoom, Deliver
<1>2. /\ Len(inbox') = Len(inbox) + 1 /\ inbox'[Len(inbox) + 1] = view
      /\ \A i \in 1..Len(inbox) : inbox'[i] = inbox[i]
      /\ DOMAIN inbox = 1..Len(inbox) /\ DOMAIN inbox' = 1..Len(inbox')
      /\ Len(inbox) \in Nat
  BY <1>1
<1>3. \A v \in view : Queued(v)'
  BY <1>2 DEF Queued
<1>4. ASSUME NEW v \in Voters, Queued(v) PROVE Queued(v)'
  <2>1. PICK i \in 1..Len(inbox) : v \in inbox[i]
    BY <1>2, <1>4 DEF Queued
  <2>2. i \in DOMAIN inbox' /\ v \in inbox'[i]
    BY <1>2, <2>1
  <2> QED BY <2>2 DEF Queued
<1> QED BY <1>3, <1>4

\* What the page hears is the head of its queue, the rest stays queued.
LEMMA HeadOrQueued ==
    ASSUME inbox \in Seq(Views), inbox # <<>>, inbox' = Tail(inbox), NEW v, Queued(v)
    PROVE  v \in Head(inbox) \/ Queued(v)'
<1>1. PICK i \in 1..Len(inbox) : v \in inbox[i]
  BY DEF Queued
<1>2. /\ Len(inbox') = Len(inbox) - 1 /\ Head(inbox) = inbox[1]
      /\ \A j \in 1..Len(inbox') : inbox'[j] = inbox[j + 1]
      /\ Len(inbox) \in Nat /\ DOMAIN inbox' = 1..Len(inbox')
  OBVIOUS
<1>3. CASE i = 1
  BY <1>1, <1>2, <1>3
<1>4. CASE i # 1
  <2>1. i - 1 \in 1..Len(inbox') /\ inbox'[i - 1] = inbox[i]
    BY <1>1, <1>2, <1>4
  <2> QED BY <1>1, <1>2, <2>1 DEF Queued
<1> QED BY <1>3, <1>4

\* The steps of the back end and of the page, each with what it may disturb.
LEMMA RoomStep ==
    ASSUME PageInv, ResultsPageNext
    PROVE  RoomInv'
<1> USE DEF PageInv
<1>0. /\ inbox \in Seq(Views) /\ LiveTypeOK /\ boxed \subseteq Voters
      /\ livePc \in [Processes -> VoterPCs \cup ReaderPCs]
      /\ live \in [Processes -> Working]
      /\ Joiner \in Readers /\ Joiner \in Processes
  BY PageBoundsAssumption DEF ResultsPageTypeOK, LiveInv, LiveTypeOK, Views, Processes
<1>1. Owed \subseteq Voters
  BY <1>0 DEF Owed
<1>2. ASSUME NEW w \in Voters, CastBallot(w) \/ DropSnapshot(w) \/ CountAfterVote(w),
             UNCHANGED pageVars
      PROVE  RoomInv'
  <2>1. /\ \A q \in Processes \ {w} : livePc'[q] = livePc[q] /\ live'[q] = live[q]
        /\ boxed' \subseteq boxed \cup {w}
        /\ sealedView' = sealedView /\ raced \subseteq raced'
        /\ liveFaults' = 0 => liveFaults = 0
    BY <1>0, <1>2, VoteFrame
  <2>2. /\ channel' = channel /\ counts' = counts /\ lapsed' = lapsed /\ inbox' = inbox
    BY <1>2 DEF pageVars
  <2>3. ASSUME NEW v \in Owed' \ raced', liveFaults' = 0
        PROVE  Arriving(v)' \/ (v \in Owed \ raced /\ (Arriving(v) => Arriving(v)'))
    <3>1. v \in Owed \cup {w} /\ v \notin raced
      BY <2>1, <2>3 DEF Owed
    <3>2. v \in Voters
      BY <1>1, <3>1
    <3>3. CASE CastBallot(w) /\ v = w
      <4>1. livePc'[v] = "drop"
        BY <1>0, <3>3 DEF CastBallot, LiveGoto, Processes
      <4> QED BY <4>1 DEF Arriving, OwnVote
    <3>4. CASE ~(CastBallot(w) /\ v = w)
      <4>1. v \in Owed
        BY <1>2, <2>1, <2>3, <3>1, <3>4
        DEF CastBallot, DropSnapshot, CountAfterVote, CountPart, liveRows, Owed
      <4>2. ASSUME OwnVote(v) PROVE OwnVote(v)'
        <5>1. CASE v = w
          <6>1. v \in boxed
            BY <4>1 DEF Owed
          <6> QED BY <1>2, <2>3, <3>2, <3>4, <4>2, <5>1, <6>1, OwnVoteGoesOn
        <5>2. CASE v # w
          BY <2>1, <3>2, <4>2, <5>2, OwnVoteStays DEF Processes
        <5> QED BY <5>1, <5>2
      <4>3. Asked(v) => Asked(v)'
        BY <1>0, <2>1, <3>2, VotersAreNotReaders, AskedStays
      <4>4. Queued(v) => Queued(v)'
        BY <2>2 DEF Queued
      <4> QED BY <3>1, <4>1, <4>2, <4>3, <4>4 DEF Arriving
    <3> QED BY <3>3, <3>4
  <2> QED BY <2>1, <2>2, <2>3, RoomKept
<1>3. ASSUME NEW r \in Readers,
             \/ /\ r = Joiner
                /\ \/ FindForResults(r) \/ LookUpSnapshot(r)
                   \/ CountForResults(r) \/ KeepSnapshot(r)
             \/ r # Joiner /\ (Read(r) \/ \E to \in Audience : AskResults(r, to)),
             UNCHANGED <<channel, counts, lapsed>>,
             channel = "room" => \A v \in Voters : Queued(v) => Queued(v)'
      PROVE  RoomInv'
  <2>1. Read(r) \/ \E to \in Audience : AskResults(r, to)
    BY <1>3 DEF Read
  <2>2. /\ \A q \in Processes \ {r} : livePc'[q] = livePc[q] /\ live'[q] = live[q]
        /\ UNCHANGED <<boxed, sealedView, raced>>
        /\ liveFaults' = 0 => liveFaults = 0
    BY <1>0, <2>1, ReaderFrame
  <2>3. ASSUME NEW v \in Owed' \ raced', liveFaults' = 0, channel = "room"
        PROVE  v \in Owed \ raced /\ (Arriving(v) => Arriving(v)')
    <3>1. v \in Owed \ raced
      BY <2>2, <2>3 DEF Owed
    <3>2. v \in Voters /\ v \in Processes \ {r}
      BY <1>1, <3>1, VotersAreNotReaders DEF Processes
    <3>3. OwnVote(v) => OwnVote(v)'
      BY <2>2, <3>2, OwnVoteStays
    <3>4. Queued(v) => Queued(v)'
      BY <1>3, <2>3, <3>2
    <3>5. ASSUME Asked(v) PROVE Asked(v)' \/ OwnVote(v)'
      <4>1. CASE r = Joiner
        BY <1>3, <2>3, <3>1, <3>2, <3>5, <4>1, AskedGoesOn
      <4>2. CASE r # Joiner
        BY <1>0, <2>2, <3>2, <3>5, <4>2, AskedStays
      <4> QED BY <4>1, <4>2
    <3> QED BY <3>1, <3>3, <3>4, <3>5 DEF Arriving
  <2> QED BY <1>3, <2>2, <2>3 DEF RoomInv, Shown
<1>4. CASE BackendStep
  <2>1. CASE \E w \in Voters : CastBallot(w) \/ DropSnapshot(w) \/ CountAfterVote(w)
    BY <1>2, <1>4, <2>1 DEF BackendStep
  <2>2. CASE \E r \in Readers :
                FindForResults(r) \/ LookUpSnapshot(r) \/ CountForResults(r) \/ KeepSnapshot(r)
    <3>1. UNCHANGED <<channel, counts, lapsed, inbox>>
      BY <1>4 DEF BackendStep, pageVars
    <3>2. \A v \in Voters : Queued(v) => Queued(v)'
      BY <3>1 DEF Queued
    <3> QED BY <1>3, <2>2, <3>1, <3>2 DEF Read
  <2>3. CASE IntervalPasses \/ SnapshotExpires \/ CloseVoting \/ SealVoting
    <3>1. UNCHANGED <<channel, counts, lapsed, inbox>>
      BY <1>4 DEF BackendStep, pageVars
    <3>2. UNCHANGED <<livePc, live, boxed, raced, liveFaults>> /\ Owed' \subseteq Owed
      BY <2>3, EnvironmentFrame
    <3>3. ASSUME NEW v \in Owed, Arriving(v) PROVE Arriving(v)'
      BY <3>1, <3>2, <3>3 DEF Arriving, OwnVote, Asked, Queued, Carries
    <3> QED BY <3>1, <3>2, <3>3 DEF RoomInv, Shown
  <2> QED BY <1>4, <2>1, <2>2, <2>3 DEF BackendStep
<1>5. ASSUME NEW w \in Voters, EmitAndDeliver(w) PROVE RoomInv'
  <2>1. /\ \A q \in Processes \ {w} : livePc'[q] = livePc[q] /\ live'[q] = live[q]
        /\ liveFaults' = 0 => liveFaults = 0
        /\ UNCHANGED <<boxed, sealedView, raced, channel, counts, lapsed>>
    BY <1>0, <1>5, VoteFrame DEF EmitAndDeliver, EmitAfterVote, liveRows
  <2>2. live[w].view \in Views /\ live[w].todo = {} /\ livePc[w] = "emit"
    BY <1>0, <1>5
    DEF EmitAndDeliver, EmitAfterVote, LiveInv, WorkOK, Working, Processes
  <2>3. ASSUME NEW v \in Owed \ raced, liveFaults' = 0, channel = "room", Arriving(v)
        PROVE  Arriving(v)'
    <3>1. v \in Voters /\ ToRoom(live[w].view)
      BY <1>1, <1>5, <2>1, <2>3 DEF EmitAndDeliver
    <3>2. (\A u \in live[w].view : Queued(u)') /\ (Queued(v) => Queued(v)')
      BY <1>0, <2>2, <2>3, <3>1, SentIsQueued
    <3>3. ASSUME OwnVote(v) PROVE OwnVote(v)' \/ Queued(v)'
      <4>1. CASE v = w
        BY <2>2, <3>2, <3>3, <4>1 DEF OwnVote, Carries
      <4>2. CASE v # w
        BY <2>1, <3>1, <3>3, <4>2, OwnVoteStays DEF Processes
      <4> QED BY <4>1, <4>2
    <3>4. Asked(v) => Asked(v)'
      BY <1>0, <2>1, <3>1, VotersAreNotReaders, AskedStays
    <3> QED BY <2>3, <3>2, <3>3, <3>4 DEF Arriving
  <2>4. Owed' = Owed
    BY <2>1 DEF Owed
  <2> QED BY <2>1, <2>3, <2>4 DEF RoomInv, Shown
<1>6. ASSUME NEW r \in Readers, AnswerAndDeliver(r) PROVE RoomInv'
  <2>1. AnswerResults(r) /\ UNCHANGED <<channel, counts, lapsed>> /\ live[r].view \in Views
    BY <1>0, <1>6 DEF AnswerAndDeliver, Working, Processes
  <2>2. ASSUME channel = "room", NEW v \in Voters, Queued(v) PROVE Queued(v)'
    <3>1. CASE ToRoom(live[r].view)
      BY <1>0, <2>1, <2>2, <3>1, SentIsQueued
    <3>2. CASE UNCHANGED inbox
      BY <2>2, <3>2 DEF Queued
    <3> QED BY <1>6, <3>1, <3>2 DEF AnswerAndDeliver
  <2>3. CASE r # Joiner
    BY <1>3, <2>1, <2>2, <2>3 DEF Read
  <2>4. CASE r = Joiner
    <3>1. /\ \A q \in Processes \ {r} : livePc'[q] = livePc[q] /\ live'[q] = live[q]
          /\ UNCHANGED <<boxed, sealedView, raced>>
          /\ liveFaults' = 0 => liveFaults = 0
      BY <1>0, <2>1, ReaderFrame DEF Read
    <3>2. ASSUME NEW v \in Owed \ raced, channel = "room", Arriving(v) PROVE Arriving(v)'
      <4>1. v \in Voters /\ v \in Processes \ {r} /\ ToRoom(live[r].view)
        BY <1>1, <1>6, <2>4, VotersAreNotReaders DEF AnswerAndDeliver, Processes
      <4>2. OwnVote(v) => OwnVote(v)'
        BY <3>1, <4>1, OwnVoteStays
      <4>3. Asked(v) => v \in live[r].view
        BY <2>1, <2>4 DEF AnswerResults, Asked
      <4>4. \A u \in live[r].view : Queued(u)'
        BY <1>0, <2>1, <3>2, <4>1, SentIsQueued
      <4> QED BY <2>2, <3>2, <4>1, <4>2, <4>3, <4>4 DEF Arriving
    <3>3. Owed' = Owed
      BY <3>1 DEF Owed
    <3> QED BY <2>1, <3>1, <3>2, <3>3 DEF RoomInv, Shown
  <2> QED BY <2>3, <2>4
<1>7. ASSUME NEW r \in Readers, NEW to \in Audience, OthersAsk(r, to) PROVE RoomInv'
  <2>1. UNCHANGED <<channel, counts, lapsed, inbox>>
    BY <1>7 DEF OthersAsk, pageVars
  <2>2. \A v \in Voters : Queued(v) => Queued(v)'
    BY <2>1 DEF Queued
  <2> QED BY <1>3, <1>7, <2>1, <2>2 DEF OthersAsk
<1>8. CASE Join
  <2>1. livePc'[Joiner] = "find"
    BY <1>0, <1>8 DEF Join, AskResults, LiveGoto
  <2> QED BY <2>1 DEF RoomInv, Arriving, Asked
<1>9. CASE LoseConnection \/ Reconnect
  <2>1. channel' # "room"
    BY <1>9 DEF LoseConnection, Reconnect
  <2> QED BY <2>1 DEF RoomInv
<1>10. CASE Hear
  <2> SUFFICES ASSUME channel = "room", liveFaults = 0, ~lapsed',
                      NEW v \in Owed \ raced
               PROVE  Shown(v)' \/ Arriving(v)'
    BY <1>10 DEF Hear, liveVars, liveRows, liveHistory, RoomInv, Owed
  <2>1. /\ ~lapsed /\ counts # NoView /\ counts \subseteq Head(inbox)
        /\ counts' = Head(inbox)
    BY <1>10 DEF Hear, Synced
  <2>2. UNCHANGED <<livePc, live>>
    BY <1>10 DEF Hear, liveVars
  <2>3. Shown(v) \/ Arriving(v)
    BY <2>1 DEF RoomInv
  <2>4. inbox # <<>> /\ inbox' = Tail(inbox)
    BY <1>10 DEF Hear
  <2>5. CASE OwnVote(v) \/ Asked(v)
    BY <2>2, <2>5 DEF Arriving, OwnVote, Asked, Carries
  <2>6. CASE v \in Head(inbox)
    <3>1. v \in counts'
      BY <2>1, <2>6
    <3>2. counts' # NoView
      BY <1>0, <1>10, <2>1, NoViewAssumption DEF Hear
    <3> QED BY <3>1, <3>2 DEF Shown
  <2>7. CASE Queued(v) /\ ~(v \in Head(inbox))
    <3>1. Queued(v)'
      BY <1>0, <2>4, <2>7, HeadOrQueued
    <3> QED BY <3>1 DEF Arriving
  <2>8. Shown(v) => v \in Head(inbox)
    BY <2>1 DEF Shown
  <2> QED BY <2>3, <2>5, <2>6, <2>7, <2>8 DEF Arriving
<1>11. CASE FetchVoting \/ CountForFetch
  <2>1. UNCHANGED <<liveVars, channel, inbox, counts, lapsed>>
    BY <1>11 DEF FetchVoting, CountForFetch
  <2> QED BY <2>1 DEF liveVars, liveRows, liveHistory, RoomInv, Owed, Shown, Arriving,
                      OwnVote, Asked, Queued, Carries
<1>12. CASE FetchAnswered
  <2> SUFFICES ASSUME channel = "room", liveFaults = 0, ~lapsed',
                      NEW v \in Owed \ raced
               PROVE  Shown(v)' \/ Arriving(v)'
    BY <1>12 DEF FetchAnswered, liveVars, liveRows, liveHistory, RoomInv, Owed
  <2>1. /\ ~lapsed /\ counts' = fetched.view
        /\ counts = NoView \/ counts \subseteq fetched.view
    BY <1>12 DEF FetchAnswered
  <2>2. Shown(v) \/ Arriving(v)
    BY <2>1 DEF RoomInv
  <2>3. UNCHANGED <<livePc, live, inbox>>
    BY <1>12 DEF FetchAnswered, liveVars
  <2>4. Arriving(v) => Arriving(v)'
    BY <2>3 DEF Arriving, OwnVote, Asked, Queued, Carries
  <2>5. CASE Shown(v)
    <3>1. v \in counts' /\ counts' \in Views
      BY <2>1, <2>5 DEF Shown, ResultsPageTypeOK, PageFetch
    <3> QED BY <3>1, NoViewAssumption DEF Shown
  <2> QED BY <2>2, <2>4, <2>5
<1> QED BY <1>4, <1>5, <1>6, <1>7, <1>8, <1>9, <1>10, <1>11, <1>12 DEF ResultsPageNext

-----------------------------------------------------------------------------

\* The page in the room and its back end, in every behaviour.
THEOREM PageInvariant == ResultsPageSpec => []PageInv
<1>1. PageInv /\ [ResultsPageNext]_resultsPageVars => PageInv'
  <2> SUFFICES ASSUME PageInv, [ResultsPageNext]_resultsPageVars PROVE PageInv'
    OBVIOUS
  <2>1. CASE ResultsPageNext
    <3>1. LiveInv' /\ CastBoxed'
      BY <2>1, PageStepsBackEnd, LiveStep, StoredKept DEF PageInv
    <3> QED BY <2>1, <3>1, PageTypesStep, RoomStep DEF PageInv
  <2>2. CASE UNCHANGED resultsPageVars
    <3>1. UNCHANGED <<liveVars, channel, inbox, counts, fetched, fetches, drops, lapsed>>
      BY <2>2 DEF resultsPageVars, pageVars
    <3>2. LiveInv' /\ CastBoxed'
      BY <3>1, LiveStep, StoredKept DEF PageInv
    <3>3. ResultsPageTypeOK'
      BY <3>1 DEF PageInv, ResultsPageTypeOK
    <3>4. RoomInv'
      BY <3>1 DEF PageInv, liveVars, liveRows, liveHistory, RoomInv, Owed, Shown, Arriving,
                  OwnVote, Asked, Queued, Carries
    <3> QED BY <3>2, <3>3, <3>4 DEF PageInv
  <2> QED BY <2>1, <2>2
<1> QED BY <1>1, PageInitially, PTL DEF ResultsPageSpec

\* A page in the room that has come to rest shows every ballot, unless Redis
\* failed, a snapshot had raced the ballot, or the page dropped an update or
\* took older counts (useVotings.ts: syncResults, fetchVoting).
THEOREM GapsAreLapses == ResultsPageSpec => []GapIsALapse
<1>1. PageInv => GapIsALapse
  <2> SUFFICES ASSUME PageInv, AtRest, channel = "room", liveFaults = 0, ~lapsed,
                      NEW v \in Owed \ raced
               PROVE  v \in counts
    BY DEF GapIsALapse, PageInv, ResultsPageTypeOK
  <2>1. v \in Voters /\ Joiner \in Readers
    BY PageBoundsAssumption DEF PageInv, LiveInv, LiveTypeOK, Owed, Views
  <2>2. ~OwnVote(v)
    BY <2>1 DEF AtRest, OwnVote
  <2>3. ~Asked(v)
    BY <2>1 DEF AtRest, Asked
  <2>4. ~Queued(v)
    BY DEF AtRest, Queued
  <2> QED BY <2>2, <2>3, <2>4 DEF PageInv, RoomInv, Arriving, Shown
<1> QED BY <1>1, PageInvariant, PTL
-----------------------------------------------------------------------------
(* Nothing is counted that was not cast.                                   *)

\* What the back end has counted, keeps and has sealed; what is under way to the
\* page and what it shows.
BackEndCounts ==
    /\ \A p \in Processes : live[p].view \subseteq boxed
    /\ snapshot = NoView \/ snapshot \subseteq boxed
    /\ sealedView = NoView \/ sealedView \subseteq boxed
PageCounts ==
    /\ counts = NoView \/ counts \subseteq boxed
    /\ fetched.view \subseteq boxed
    /\ \A i \in DOMAIN inbox : inbox[i] \subseteq boxed
OnlyBallotsCount == BackEndCounts /\ PageCounts

LEMMA CountedIsBoxed ==
    ASSUME LiveTypeOK, BackEndCounts, NEW p \in Processes, NEW from, NEW to, CountPart(p, from, to)
    PROVE  BackEndCounts' /\ boxed' = boxed
<1>1. UNCHANGED <<boxed, sealedView, snapshot>>
  BY DEF CountPart, liveRows
<1>2. PICK k \in live[p].todo :
         live' = [live EXCEPT ![p].view = @ \cup (boxed \cap PartOf(k)), ![p].todo = @ \ {k}]
  BY DEF CountPart
<1>3. live \in [Processes -> Working]
  BY DEF LiveTypeOK, Processes
<1>4. \A q \in Processes : live'[q].view \subseteq boxed
  BY <1>2, <1>3 DEF BackEndCounts, Working
<1> QED BY <1>1, <1>4 DEF BackEndCounts

LEMMA BackEndCountsKept ==
    ASSUME LiveInv, BackEndCounts, [LiveNext]_liveVars
    PROVE  BackEndCounts' /\ boxed \subseteq boxed'
<1>0. LiveTypeOK /\ live \in [Processes -> Working]
  BY DEF LiveInv, LiveTypeOK, Processes
<1>1. ASSUME NEW v \in Voters,
             CastBallot(v) \/ DropSnapshot(v) \/ CountAfterVote(v) \/ EmitAfterVote(v)
      PROVE  BackEndCounts' /\ boxed \subseteq boxed'
  <2>1. v \in Processes
    BY DEF Processes
  <2>2. CASE CastBallot(v)
    BY <2>2 DEF CastBallot, BackEndCounts
  <2>3. CASE DropSnapshot(v)
    BY <2>3 DEF DropSnapshot, Dropped, liveRows, BackEndCounts
  <2>4. CASE CountAfterVote(v)
    BY <1>0, <2>1, <2>4, CountedIsBoxed DEF CountAfterVote
  <2>5. CASE EmitAfterVote(v)
    BY <1>0, <2>1, <2>5 DEF EmitAfterVote, LiveEnd, NoWork, liveRows, BackEndCounts
  <2> QED BY <1>1, <2>2, <2>3, <2>4, <2>5
<1>2. ASSUME NEW r \in Readers, Read(r) \/ \E to \in Audience : AskResults(r, to)
      PROVE  BackEndCounts' /\ boxed \subseteq boxed'
  <2>1. r \in Processes
    BY DEF Processes
  <2>2. CASE FindForResults(r)
    BY <1>0, <2>1, <2>2 DEF FindForResults, liveRows, BackEndCounts, Working
  <2>3. CASE LookUpSnapshot(r)
    BY <1>0, <2>1, <2>3 DEF LookUpSnapshot, MayServe, liveRows, BackEndCounts, Working
  <2>4. CASE CountForResults(r)
    BY <1>0, <2>1, <2>4, CountedIsBoxed DEF CountForResults
  <2>5. CASE KeepSnapshot(r)
    BY <1>0, <2>1, <2>5 DEF KeepSnapshot, LiveEnd, NoWork, liveRows, BackEndCounts
  <2>6. CASE AnswerResults(r)
    BY <1>0, <2>1, <2>6 DEF AnswerResults, LiveEnd, NoWork, liveRows, BackEndCounts
  <2>7. CASE \E to \in Audience : AskResults(r, to)
    BY <1>0, <2>1, <2>7 DEF AskResults, liveRows, BackEndCounts, Working
  <2> QED BY <1>2, <2>2, <2>3, <2>4, <2>5, <2>6, <2>7 DEF Read
<1>3. CASE IntervalPasses \/ SnapshotExpires \/ CloseVoting \/ SealVoting
  BY <1>3 DEF IntervalPasses, SnapshotExpires, CloseVoting, SealVoting, liveRows, BackEndCounts
<1>4. CASE UNCHANGED liveVars
  BY <1>4 DEF liveVars, liveRows, BackEndCounts
<1> QED BY <1>1, <1>2, <1>3, <1>4 DEF LiveNext

\* A delivery is of a view the back end has counted.
LEMMA DeliveredIsBoxed ==
    ASSUME PageInv, PageCounts, boxed \subseteq boxed', NEW view, view \in Views,
           view \subseteq boxed, ToRoom(view) \/ UNCHANGED inbox, UNCHANGED <<counts, fetched>>
    PROVE  PageCounts'
<1>1. inbox \in Seq(Views)
  BY DEF PageInv, ResultsPageTypeOK
<1>2. \A i \in DOMAIN Append(inbox, view) : Append(inbox, view)[i] \subseteq boxed
  BY <1>1 DEF PageCounts
<1> QED BY <1>2 DEF ToRoom, Deliver, PageCounts

LEMMA PageCountsKept ==
    ASSUME PageInv, OnlyBallotsCount, ResultsPageNext, boxed \subseteq boxed'
    PROVE  PageCounts'
<1> USE DEF OnlyBallotsCount
<1>0. /\ inbox \in Seq(Views) /\ fetched \in PageFetch
      /\ live \in [Processes -> Working] /\ \A p \in Processes : live[p].view \in Views
  BY DEF PageInv, LiveInv, LiveTypeOK, ResultsPageTypeOK, Processes, Working
<1>1. CASE UNCHANGED <<inbox, counts, fetched>>
  BY <1>1 DEF PageCounts
<1>2. ASSUME NEW v \in Voters, EmitAndDeliver(v) PROVE PageCounts'
  BY <1>0, <1>2, DeliveredIsBoxed DEF EmitAndDeliver, BackEndCounts, Processes
<1>3. ASSUME NEW r \in Readers, AnswerAndDeliver(r) PROVE PageCounts'
  BY <1>0, <1>3, DeliveredIsBoxed DEF AnswerAndDeliver, BackEndCounts, Processes
<1>4. CASE LoseConnection
  BY <1>4 DEF LoseConnection, PageCounts
<1>5. CASE Hear
  <2>1. Head(inbox) \subseteq boxed
    BY <1>0, <1>5 DEF Hear, PageCounts
  <2>2. \A i \in DOMAIN Tail(inbox) : Tail(inbox)[i] \subseteq boxed
    BY <1>0, <1>5 DEF Hear, PageCounts
  <2> QED BY <1>5, <2>1, <2>2 DEF Hear, Synced, PageCounts
<1>6. CASE FetchVoting
  BY <1>6 DEF FetchVoting, NoPageFetch, PageCounts
<1>7. CASE CountForFetch
  BY <1>0, <1>7 DEF CountForFetch, PageCounts, PageFetch
<1>8. CASE FetchAnswered
  BY <1>8 DEF FetchAnswered, AfterFetch, NoPageFetch, PageCounts
<1>9. BackendStep \/ Join \/ Reconnect \/ (\E r \in Readers, to \in Audience : OthersAsk(r, to))
          => UNCHANGED <<inbox, counts, fetched>>
  BY DEF BackendStep, Join, Reconnect, OthersAsk, pageVars
<1> QED BY <1>1, <1>2, <1>3, <1>4, <1>5, <1>6, <1>7, <1>8, <1>9 DEF ResultsPageNext

\* Whatever overtakes what, an emission, a snapshot, a sealed result and the page
\* count ballots that are stored: no practice run and no vote that failed.
THEOREM CountsAreBallots == ResultsPageSpec => []OnlyBallotsCount
<1>1. ResultsPageInit => OnlyBallotsCount
  BY DEF ResultsPageInit, LiveInit, NoWork, NoPageFetch, Processes, OnlyBallotsCount, BackEndCounts,
         PageCounts
<1>2. ASSUME PageInv, OnlyBallotsCount, [ResultsPageNext]_resultsPageVars
      PROVE  OnlyBallotsCount'
  <2>1. [LiveNext]_liveVars
    BY <1>2, PageStepsBackEnd DEF resultsPageVars
  <2>2. BackEndCounts' /\ boxed \subseteq boxed'
    BY <1>2, <2>1, BackEndCountsKept DEF PageInv, OnlyBallotsCount
  <2>3. PageCounts'
    <3>1. CASE ResultsPageNext
      BY <1>2, <2>2, <3>1, PageCountsKept
    <3>2. CASE UNCHANGED resultsPageVars
      BY <1>2, <2>2, <3>2 DEF resultsPageVars, pageVars, OnlyBallotsCount, PageCounts
    <3> QED BY <1>2, <3>1, <3>2
  <2> QED BY <2>2, <2>3 DEF OnlyBallotsCount
<1> QED BY <1>1, <1>2, PageInvariant, PTL DEF ResultsPageSpec
=============================================================================
