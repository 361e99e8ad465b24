------------------------------ MODULE AuditChain ------------------------------
(***************************************************************************)
(* The audit chain (backend/src/audit): append jobs wait in a BullMQ       *)
(* queue, a worker draws one number per scope from Redis, reads the head   *)
(* of each scope and inserts a block; verifications scan a scope and move  *)
(* its marker; the finalization of a voting asks whether it is secure.     *)
(*                                                                         *)
(* A scope is the whole chain (Global) or the blocks of one group, voting  *)
(* or survey.  A block's hash covers its sequence, which is unique, so the *)
(* sequence stands for the hash, and 0 for the hash of the genesis seed.   *)
(* A block outside a scope has sequence 0 there.  Blocks are never updated *)
(* or deleted, so recomputing a hash always agrees.                        *)
(***************************************************************************)
EXTENDS Naturals, FiniteSets

CONSTANTS
    Jobs,         \* bound: the append jobs
    Scopes,       \* the scopes of the chain
    Global,       \* the scope of all blocks
    Votings,      \* the scopes that belong to a voting
    ScopesOf,     \* [Jobs -> the scopes the job's block belongs to]
    Workers,      \* processes that run the audit processor
    Verifiers,    \* bound: verifications in flight
    Attempts,     \* attempts of a job before BullMQ gives it up
    MaxStalled,   \* times BullMQ takes a job back from a worker that vanished
    NoWorker, NoJob,
    MaxFaults,    \* bound: crashes, failed attempts, lapsed locks, lost jobs
    MaxLosses     \* bound: counters evicted from Redis

VARIABLES
    job,          \* the queue: each job's status, attempts, stalls and holder
    counter,      \* Redis: audit_seq of each scope, 0 when the key is missing
    chain,        \* Mongo: the blocks
    worker,       \* the append each worker is at
    marker,       \* Mongo: each scope's verification record
    scan,         \* the verifications in flight
    gate,         \* the answer getAuditStatus gives a finalization
    faults, losses

queueVars == <<job, counter, worker>>
verifyVars == <<marker, scan>>
boundVars == <<faults, losses>>
vars == <<job, counter, chain, worker, marker, scan, gate, faults, losses>>

ASSUME ScopesAssumption ==
    /\ Global \in Scopes /\ Votings \subseteq Scopes \ {Global}
    /\ ScopesOf \in [Jobs -> {S \in SUBSET Scopes : Global \in S}]
ASSUME NullAssumption == NoWorker \notin Workers /\ NoJob \notin Jobs
ASSUME BoundsAssumption ==
    Attempts \in Nat \ {0} /\ MaxStalled \in Nat /\ MaxFaults \in Nat /\ MaxLosses \in Nat

Numbers == [Scopes -> Nat]
Block == [job : Jobs, seq : Numbers, prev : Numbers]
Hash(b) == b.seq[Global]
Within(s) == {b \in chain : b.seq[s] > 0}

JobRecord == [status : {"new", "dropped", "waiting", "active", "done", "failed"},
              attempts : 0..Attempts, stalled : 0..(MaxStalled + 1), holder : Workers \cup {NoWorker}]
Append == [pc : {"idle", "draw", "insert", "ack"}, job : Jobs \cup {NoJob}, seq : Numbers, prev : Numbers]
Marker == [last : Nat, full : {"never", "fresh", "stale"}]
Scan == [pc : {"idle", "throttle", "read", "scan", "mark", "broken"}, scope : Scopes, full : BOOLEAN,
         last : Nat, anchored : BOOLEAN, pos : Nat, expect : SUBSET Nat]
Status == [asked : BOOLEAN, last : Nat, fresh : BOOLEAN]

Idle == [pc |-> "idle", job |-> NoJob, seq |-> [s \in Scopes |-> 0], prev |-> [s \in Scopes |-> 0]]
NoScan == [pc |-> "idle", scope |-> Global, full |-> FALSE, last |-> 0,
           anchored |-> FALSE, pos |-> 0, expect |-> {}]
NotAsked == [asked |-> FALSE, last |-> 0, fresh |-> FALSE]

Fault == faults < MaxFaults /\ faults' = faults + 1

-----------------------------------------------------------------------------
(* The queue.                                                              *)

\* appendChain: the job is queued, or the queue refuses and the error is only logged.
AppendChain(j) ==
    /\ job[j].status = "new"
    /\ \/ job' = [job EXCEPT ![j].status = "waiting"] /\ UNCHANGED faults
       \/ job' = [job EXCEPT ![j].status = "dropped"] /\ Fault
    /\ UNCHANGED <<counter, chain, worker, verifyVars, gate, losses>>

\* A worker takes a waiting job, any of them: delayed retries overtake each other.
Take(w, j) ==
    /\ worker[w].pc = "idle" /\ job[j].status = "waiting"
    /\ job' = [job EXCEPT ![j].status = "active", ![j].holder = w]
    /\ worker' = [worker EXCEPT ![w] = [Idle EXCEPT !.pc = "draw", !.job = j]]
    /\ UNCHANGED <<counter, chain, verifyVars, gate, boundVars>>

\* What BullMQ makes of a failed attempt, and how it takes a job back from a
\* worker it no longer hears of.  The mutant allows one attempt too many.
MutRetries(a) == a <= Attempts
Retries(a) == a < Attempts

AfterFailure(j) ==
    [job[j] EXCEPT !.attempts = @ + 1, !.holder = NoWorker,
                   !.status = IF Retries(job[j].attempts + 1) THEN "waiting" ELSE "failed"]
AfterStall(j) ==
    [job[j] EXCEPT !.stalled = @ + 1, !.holder = NoWorker,
                   !.status = IF job[j].stalled < MaxStalled THEN "waiting" ELSE "failed"]

\* The worker reports: only if it still holds the job does the queue listen.
Report(w, outcome) ==
    LET j == worker[w].job
    IN  /\ job' = IF job[j].holder = w THEN [job EXCEPT ![j] = outcome] ELSE job
        /\ worker' = [worker EXCEPT ![w] = Idle]

-----------------------------------------------------------------------------
(* processAppendInternal.                                                  *)

\* One INCR per scope of the job; Promise.all sends them over one connection,
\* the global one first.
DrawSequence(w, s) ==
    /\ worker[w].pc = "draw" /\ s \in ScopesOf[worker[w].job] /\ worker[w].seq[s] = 0
    /\ s # Global => worker[w].seq[Global] > 0
    /\ counter' = [counter EXCEPT ![s] = @ + 1]
    /\ worker' = [worker EXCEPT ![w].seq[s] = counter[s] + 1]
    /\ UNCHANGED <<job, chain, verifyVars, gate, boundVars>>

\* h is the hash of the last block of s, or of the genesis seed.  The mutant
\* reads some block of s: it forgets to sort.
MutIsHead(s, h) ==
    IF Within(s) = {} THEN h = 0 ELSE \E b \in Within(s) : h = Hash(b)
IsHead(s, h) ==
    IF Within(s) = {} THEN h = 0
    ELSE \E b \in Within(s) : h = Hash(b) /\ \A c \in Within(s) : c.seq[s] <= b.seq[s]

Hashes == {0} \cup {Hash(b) : b \in chain}

\* The reads of the transaction, all from one snapshot.
ReadHeads(w) ==
    /\ worker[w].pc = "draw"
    /\ \A s \in ScopesOf[worker[w].job] : worker[w].seq[s] > 0
    /\ \E prev \in [Scopes -> Hashes] :
          /\ \A s \in Scopes :
                IF s \in ScopesOf[worker[w].job] THEN IsHead(s, prev[s]) ELSE prev[s] = 0
          /\ worker' = [worker EXCEPT ![w].prev = prev, ![w].pc = "insert"]
    /\ UNCHANGED <<job, counter, chain, verifyVars, gate, boundVars>>

\* The unique indexes of audit_chain: sequence, and the sequence within each scope.
Taken(b) == \E c \in chain, s \in Scopes : b.seq[s] > 0 /\ c.seq[s] = b.seq[s]
NewBlock(w) == [job |-> worker[w].job, seq |-> worker[w].seq, prev |-> worker[w].prev]

\* The insert and the commit of the transaction.
InsertBlock(w) ==
    /\ worker[w].pc = "insert" /\ ~Taken(NewBlock(w))
    /\ chain' = chain \cup {NewBlock(w)}
    /\ worker' = [worker EXCEPT ![w].pc = "ack"]
    /\ UNCHANGED <<job, counter, verifyVars, gate, boundVars>>

\* A duplicate key: the transaction throws, and so does the job.
RejectBlock(w) ==
    /\ worker[w].pc = "insert" /\ Taken(NewBlock(w))
    /\ Report(w, AfterFailure(worker[w].job))
    /\ UNCHANGED <<counter, chain, verifyVars, gate, boundVars>>

\* withTransaction runs its callback again after a transient error, with the
\* same sequences.
RereadHeads(w) ==
    /\ worker[w].pc = "insert" /\ Fault
    /\ worker' = [worker EXCEPT ![w].pc = "draw", ![w].prev = Idle.prev]
    /\ UNCHANGED <<job, counter, chain, verifyVars, gate, losses>>

\* Redis or Mongo fails for good: the sequences drawn so far are lost.  The
\* mutant also calls an attempt failed whose block is in the chain.
MutFailAttempt(w) ==
    /\ worker[w].pc \in {"draw", "insert", "ack"} /\ Fault
    /\ Report(w, AfterFailure(worker[w].job))
    /\ UNCHANGED <<counter, chain, verifyVars, gate, losses>>
FailAttempt(w) ==
    /\ worker[w].pc \in {"draw", "insert"} /\ Fault
    /\ Report(w, AfterFailure(worker[w].job))
    /\ UNCHANGED <<counter, chain, verifyVars, gate, losses>>

CompleteJob(w) ==
    /\ worker[w].pc = "ack"
    /\ Report(w, [job[worker[w].job] EXCEPT !.status = "done", !.holder = NoWorker])
    /\ UNCHANGED <<counter, chain, verifyVars, gate, boundVars>>

-----------------------------------------------------------------------------
(* Crashes, lapsed locks, evicted counters.                                *)

\* The worker process dies; the job stays active with nobody to hold it.
Crash(w) ==
    /\ worker[w].pc # "idle" /\ Fault
    /\ LET j == worker[w].job
       IN  job' = IF job[j].holder = w THEN [job EXCEPT ![j].holder = NoWorker] ELSE job
    /\ worker' = [worker EXCEPT ![w] = Idle]
    /\ UNCHANGED <<counter, chain, verifyVars, gate, losses>>

\* The worker lives but fails to renew the job's lock.
LockLapses(w) ==
    /\ worker[w].pc # "idle" /\ job[worker[w].job].holder = w /\ Fault
    /\ job' = [job EXCEPT ![worker[w].job].holder = NoWorker]
    /\ UNCHANGED <<counter, chain, worker, verifyVars, gate, losses>>

\* BullMQ's stalled check.  The mutant forgets the jobs that stalled too often.
MutStallCheck(j) ==
    /\ job[j].status = "active" /\ job[j].holder = NoWorker /\ job[j].stalled < MaxStalled
    /\ job' = [job EXCEPT ![j] = AfterStall(j)]
    /\ UNCHANGED <<counter, chain, worker, verifyVars, gate, boundVars>>
StallCheck(j) ==
    /\ job[j].status = "active" /\ job[j].holder = NoWorker
    /\ job' = [job EXCEPT ![j] = AfterStall(j)]
    /\ UNCHANGED <<counter, chain, worker, verifyVars, gate, boundVars>>

\* Redis runs with allkeys-lru and may evict any counter.
LoseCounter(s) ==
    /\ losses < MaxLosses /\ counter[s] > 0
    /\ losses' = losses + 1 /\ counter' = [counter EXCEPT ![s] = 0]
    /\ UNCHANGED <<job, chain, worker, verifyVars, gate, faults>>

\* onModuleInit of any process: SET NX of the global counter, and of no other.
Bootstrap ==
    /\ counter[Global] = 0
    /\ \E b \in chain :
          /\ \A c \in chain : c.seq[Global] <= b.seq[Global]
          /\ counter' = [counter EXCEPT ![Global] = b.seq[Global]]
    /\ UNCHANGED <<job, chain, worker, verifyVars, gate, boundVars>>

-----------------------------------------------------------------------------
(* verifyChain, verifyGroupChain, verifyVotingChain, verifySurveyChain: by *)
(* the processor, or in a back-end process by getCompromisedBlocks.        *)

Goto(v, label) == scan' = [scan EXCEPT ![v].pc = label]
Mark(s, n) == marker' = [marker EXCEPT ![s].last = n]

Begin(v, s, full, label) ==
    scan' = [scan EXCEPT ![v] = [NoScan EXCEPT !.pc = label, !.scope = s, !.full = full]]

\* verifyChain and its kin, from a verify-chain job or from getCompromisedBlocks.
\* A full verification within 24 hours of the last one throws.
Verify(v, s, full) ==
    /\ scan[v].pc = "idle"
    /\ full => marker[s].full # "fresh"
    /\ Begin(v, s, full, "read")
    /\ UNCHANGED <<queueVars, chain, marker, gate, boundVars>>

\* getCompromisedBlocks with forceFull resets the marker, then asks for a full
\* verification.
ForceFull(v, s) ==
    /\ scan[v].pc = "idle" /\ s # Global
    /\ Mark(s, 0)
    /\ Begin(v, s, TRUE, "throttle")
    /\ UNCHANGED <<queueVars, chain, gate, boundVars>>

Throttle(v) ==
    /\ scan[v].pc = "throttle"
    /\ IF marker[scan[v].scope].full = "fresh"
       THEN scan' = [scan EXCEPT ![v] = NoScan] ELSE Goto(v, "read")
    /\ UNCHANGED <<queueVars, chain, marker, gate, boundVars>>

\* Where the numbers of a scope must begin: only the chain of a voting starts
\* with prevSequence 0, the others accept any first number.  The mutant treats
\* all alike.
MutAnchored(s, last) == last > 0
Anchored(s, last) == last > 0 \/ s \in Votings

\* The hashes the next block may link to, none when lastDoc is missing.  The
\* mutant starts from the genesis hash even after a marker.
MutLinkAfter(s, last) == {0}
LinkAfter(s, last) ==
    IF last = 0 THEN {0} ELSE {Hash(b) : b \in {c \in chain : c.seq[s] = last}}

\* The marker (ignored by a full verification) and the block it names.
ReadMarker(v) ==
    /\ scan[v].pc = "read"
    /\ LET s == scan[v].scope
           last == IF scan[v].full THEN 0 ELSE marker[s].last
       IN  scan' = [scan EXCEPT ![v] = [@ EXCEPT !.pc = "scan", !.last = last, !.pos = last,
                       !.anchored = Anchored(s, last), !.expect = LinkAfter(s, last)]]
    /\ UNCHANGED <<queueVars, chain, marker, gate, boundVars>>

Beyond(v) == {b \in chain : b.seq[scan[v].scope] > scan[v].pos}
Follows(v, b) ==
    LET s == scan[v].scope
    IN  /\ scan[v].anchored => b.seq[s] = scan[v].pos + 1
        /\ scan[v].expect # {} => b.prev[s] \in scan[v].expect

\* One turn of the loop over the cursor, which is sorted by the scope's sequence.
ScanBlock(v) ==
    /\ scan[v].pc = "scan"
    /\ \E b \in Beyond(v) :
          /\ \A c \in Beyond(v) : b.seq[scan[v].scope] <= c.seq[scan[v].scope]
          /\ IF Follows(v, b)
             THEN scan' = [scan EXCEPT ![v] = [@ EXCEPT !.pos = b.seq[scan[v].scope],
                              !.anchored = TRUE, !.expect = {Hash(b)}]]
             ELSE Goto(v, "broken")
    /\ UNCHANGED <<queueVars, chain, marker, gate, boundVars>>

\* The cursor is exhausted: valid, with something to mark or nothing new.
EndScan(v) ==
    /\ scan[v].pc = "scan" /\ Beyond(v) = {}
    /\ IF scan[v].pos > scan[v].last THEN Goto(v, "mark")
       ELSE scan' = [scan EXCEPT ![v] = NoScan]
    /\ UNCHANGED <<queueVars, chain, marker, gate, boundVars>>

\* setLastVerifiedSequence of the head; a full verification also sets the time.
MarkVerified(v) ==
    /\ scan[v].pc = "mark"
    /\ marker' = [marker EXCEPT ![scan[v].scope] =
                     [last |-> scan[v].pos, full |-> IF scan[v].full THEN "fresh" ELSE @.full]]
    /\ scan' = [scan EXCEPT ![v] = NoScan]
    /\ UNCHANGED <<queueVars, chain, gate, boundVars>>

\* A break resets the marker and is reported.
MarkBroken(v) ==
    /\ scan[v].pc = "broken"
    /\ Mark(scan[v].scope, 0)
    /\ scan' = [scan EXCEPT ![v] = NoScan]
    /\ UNCHANGED <<queueVars, chain, gate, boundVars>>

-----------------------------------------------------------------------------
(* The gate of a finalization: getAuditStatus.                             *)

\* verificationModel.findOne.
ReadStatus(s) ==
    /\ s # Global /\ ~gate[s].asked
    /\ gate' = [gate EXCEPT ![s] = [asked |-> TRUE, last |-> marker[s].last,
                                     fresh |-> marker[s].full = "fresh"]]
    /\ UNCHANGED <<queueVars, chain, verifyVars, boundVars>>

\* The mutant forgets isUpToDate.
MutIsSecure(s) == gate[s].fresh
IsSecure(s) == gate[s].fresh /\ \A b \in chain : b.seq[s] <= gate[s].last

Answer(s) ==
    /\ gate[s].asked
    /\ gate' = [gate EXCEPT ![s] = NotAsked]
    /\ UNCHANGED <<queueVars, chain, verifyVars, boundVars>>

\* The last block is read: the finalization goes on, or is refused.
PassGate(s) == IsSecure(s) /\ Answer(s)
RefuseGate(s) == ~IsSecure(s) /\ Answer(s)

\* 24 hours pass since the last full verification.
DayPasses(s) ==
    /\ marker[s].full = "fresh"
    /\ marker' = [marker EXCEPT ![s].full = "stale"]
    /\ gate' = [gate EXCEPT ![s].fresh = FALSE]
    /\ UNCHANGED <<queueVars, chain, scan, boundVars>>

-----------------------------------------------------------------------------
Init ==
    /\ job = [j \in Jobs |-> [status |-> "new", attempts |-> 0, stalled |-> 0, holder |-> NoWorker]]
    /\ counter = [s \in Scopes |-> 0]
    /\ chain = {}
    /\ worker = [w \in Workers |-> Idle]
    /\ marker = [s \in Scopes |-> [last |-> 0, full |-> "never"]]
    /\ scan = [v \in Verifiers |-> NoScan]
    /\ gate = [s \in Scopes |-> NotAsked]
    /\ faults = 0 /\ losses = 0

Run(w) ==
    \/ \E j \in Jobs : Take(w, j)
    \/ \E s \in Scopes : DrawSequence(w, s)
    \/ ReadHeads(w) \/ InsertBlock(w) \/ RejectBlock(w) \/ CompleteJob(w)

Trouble ==
    \/ \E w \in Workers : RereadHeads(w) \/ FailAttempt(w) \/ Crash(w) \/ LockLapses(w)
    \/ \E s \in Scopes : LoseCounter(s)
    \/ Bootstrap

Verification(v) ==
    \/ \E s \in Scopes : ForceFull(v, s) \/ \E full \in BOOLEAN : Verify(v, s, full)
    \/ Throttle(v) \/ ReadMarker(v) \/ ScanBlock(v) \/ EndScan(v)
    \/ MarkVerified(v) \/ MarkBroken(v)

Next ==
    \/ \E j \in Jobs : AppendChain(j) \/ StallCheck(j)
    \/ \E w \in Workers : Run(w)
    \/ Trouble
    \/ \E v \in Verifiers : Verification(v)
    \/ \E s \in Scopes : ReadStatus(s) \/ PassGate(s) \/ RefuseGate(s) \/ DayPasses(s)

Spec == Init /\ [][Next]_vars

\* The worker process runs, and BullMQ checks for stalled jobs on a timer.
FairSpec ==
    /\ Spec
    /\ \A w \in Workers : WF_vars(Run(w))
    /\ \A j \in Jobs : WF_vars(StallCheck(j))

-----------------------------------------------------------------------------
(* Properties.                                                             *)

\* A job that may still run has an attempt and a stall left, only an active job
\* has a holder, and a worker at work has a job.
QueueOK ==
    /\ \A j \in Jobs :
          /\ job[j].status \in {"new", "waiting", "active"} =>
                 job[j].attempts < Attempts /\ job[j].stalled <= MaxStalled
          /\ job[j].holder # NoWorker => job[j].status = "active"
    /\ \A w \in Workers : worker[w].pc # "idle" => worker[w].job \in Jobs

\* Types; the queue gives up a job after Attempts failures or MaxStalled + 1 stalls.
TypeOK ==
    /\ job \in [Jobs -> JobRecord]
    /\ counter \in Numbers
    /\ chain \subseteq Block
    /\ worker \in [Workers -> Append]
    /\ marker \in [Scopes -> Marker]
    /\ scan \in [Verifiers -> Scan]
    /\ gate \in [Scopes -> Status]
    /\ faults \in 0..MaxFaults /\ losses \in 0..MaxLosses
    /\ QueueOK

Previous(s, b) == {c \in Within(s) : c.seq[s] < b.seq[s]}

\* b names the block before it in s, or the genesis seed.
LinkedIn(s, b) ==
    IF Previous(s, b) = {} THEN b.prev[s] = 0
    ELSE \E c \in Previous(s, b) :
            b.prev[s] = Hash(c) /\ \A d \in Previous(s, b) : d.seq[s] <= c.seq[s]

\* processAppendInternal: in every scope each block links to the block before
\* it, whatever fails, is retried, redelivered or crashes, as long as one worker
\* appends and Redis keeps its counters.
ChainLinked == losses = 0 => \A s \in Scopes : \A b \in Within(s) : LinkedIn(s, b)

\* One block of s has each number from 1 to n, and it links to the one before.
Whole(s, n) ==
    \A i \in 1..n : \E b \in chain :
        /\ \A c \in chain : c.seq[s] = i <=> c = b
        /\ IF i = 1 THEN b.prev[s] = 0
           ELSE \E c \in chain : c.seq[s] = i - 1 /\ b.prev[s] = Hash(c)

\* setLastVerifiedSequence: the marker of a voting vouches only for a whole
\* prefix of its chain, through resets, racing verifications, evicted counters
\* and blocks appended meanwhile.
MarkerVouches == \A s \in Votings : Whole(s, marker[s].last)

\* No two blocks have one number in one scope.
NumbersUnique ==
    \A b, c \in chain, s \in Scopes : b.seq[s] > 0 /\ b.seq[s] = c.seq[s] => b = c

\* What a scan of a voting has passed is whole, and the hash it expects next is
\* that of the last block passed.
ScanVouches ==
    \A v \in Verifiers :
        LET s == scan[v].scope
        IN  scan[v].pc \in {"scan", "mark"} /\ s \in Votings =>
                /\ scan[v].anchored /\ scan[v].expect # {}
                /\ Whole(s, scan[v].pos)
                /\ \A h \in scan[v].expect :
                      IF scan[v].pos = 0 THEN h = 0
                      ELSE \E c \in chain : c.seq[s] = scan[v].pos /\ h = Hash(c)

\* The inductive invariant behind MarkerVouches: all that may ever become a
\* marker, or was read from one, is whole, and blocks are only ever added
\* beyond it.
VouchInv ==
    /\ NumbersUnique
    /\ MarkerVouches
    /\ ScanVouches
    /\ \A s \in Votings : Whole(s, gate[s].last)

Missing(s) == {n \in 1..counter[s] : \A b \in chain : b.seq[s] # n}
Hole(s) == \E b \in Within(s) : \E n \in Missing(s) : n < b.seq[s]

\* A verification that reports a break tells of a number that was drawn for a
\* block nobody stored, which takes a failed or interrupted attempt; a healthy
\* chain is never called broken, even while blocks are appended to it.
NoFalseAlarm ==
    losses = 0 => \A v \in Verifiers : scan[v].pc = "broken" => Hole(scan[v].scope) /\ faults > 0

\* A job's block is in the chain once, and once more for each time BullMQ took
\* the job back from a worker: no failed attempt leaves a block behind.
OneBlockPerDelivery ==
    \A j \in Jobs : Cardinality({b \in chain : b.job = j}) <= 1 + job[j].stalled

\* isSecure: a finalization is let through only when all blocks its voting has
\* at that moment form a whole chain.
SecureMeansVerified ==
    [][\A s \in Votings :
          PassGate(s) => Whole(s, gate[s].last) /\ \A b \in Within(s) : b.seq[s] <= gate[s].last]_vars

\* An accepted job ends in the chain or in the failed set, where it can be seen.
EveryJobSettles ==
    \A j \in Jobs : job[j].status = "waiting" ~> job[j].status \in {"done", "failed"}

\* "Uses Redis locking to ensure sequential chain writes even with multiple
\* workers" (audit.service.ts:569), of processAppendInternal: each block links
\* to the one before it.  There is no lock, and two workers read one head.
SequentialChainWrites == \A s \in Scopes : \A b \in Within(s) : LinkedIn(s, b)
=============================================================================
