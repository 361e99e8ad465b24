-------------------------- MODULE AuditChainProofs --------------------------
(***************************************************************************)
(* Proofs about AuditChain, for any numbers of verifications, faults and   *)
(* evicted counters: types, what markers vouch for, the gate, one block    *)
(* per delivery; and for one worker the links and the alarms.              *)
(***************************************************************************)
EXTENDS AuditChain, FiniteSetTheorems, TLAPS

\* The records without a job, a scan or a question are of their types.
LEMMA NullRecords ==
    /\ Idle \in Append /\ Idle.pc = "idle"
    /\ NoScan \in Scan /\ NoScan.pc = "idle"
    /\ NotAsked \in Status /\ NotAsked.last = 0
  <1>1. Idle \in Append /\ Idle.pc = "idle"
    BY ScopesAssumption DEF Idle, Append, Numbers
  <1>2. NoScan \in Scan /\ NoScan.pc = "idle"
    BY ScopesAssumption DEF NoScan, Scan
  <1>3. NotAsked \in Status /\ NotAsked.last = 0
    BY DEF NotAsked, Status
  <1> QED BY <1>1, <1>2, <1>3

\* A job that may run again has an attempt and a stall left.
Runnable(r) ==
    r.status \in {"new", "waiting", "active"} => r.attempts < Attempts /\ r.stalled <= MaxStalled

\* What the queue makes of a failed or a stalled job.
LEMMA QueueSteps ==
    ASSUME TypeOK, NEW j \in Jobs, job[j].status = "active"
    PROVE  /\ AfterFailure(j) \in JobRecord /\ AfterFailure(j).holder = NoWorker
           /\ AfterStall(j) \in JobRecord /\ AfterStall(j).holder = NoWorker
           /\ Runnable(AfterFailure(j)) /\ Runnable(AfterStall(j))
  <1>1. /\ job[j] \in JobRecord /\ job[j].attempts < Attempts /\ job[j].stalled <= MaxStalled
    BY DEF TypeOK, QueueOK
  <1>2. Attempts \in Nat /\ MaxStalled \in Nat
    BY BoundsAssumption
  <1>3. /\ job[j].attempts \in 0..Attempts /\ job[j].attempts + 1 \in 0..Attempts
        /\ job[j].stalled \in 0..MaxStalled /\ job[j].stalled + 1 \in 0..(MaxStalled + 1)
    BY <1>1, <1>2 DEF JobRecord
  <1>4. AfterFailure(j) \in JobRecord /\ AfterStall(j) \in JobRecord
    BY <1>1, <1>3 DEF JobRecord, AfterFailure, AfterStall
  <1>5. /\ AfterFailure(j).holder = NoWorker /\ AfterFailure(j).attempts = job[j].attempts + 1
        /\ AfterFailure(j).stalled = job[j].stalled
        /\ AfterFailure(j).status = IF job[j].attempts + 1 < Attempts THEN "waiting" ELSE "failed"
    BY <1>1 DEF JobRecord, AfterFailure, Retries
  <1>6. /\ AfterStall(j).holder = NoWorker /\ AfterStall(j).attempts = job[j].attempts
        /\ AfterStall(j).stalled = job[j].stalled + 1
        /\ AfterStall(j).status = IF job[j].stalled < MaxStalled THEN "waiting" ELSE "failed"
    BY <1>1 DEF JobRecord, AfterStall
  <1>7. Runnable(AfterFailure(j))
    BY <1>1, <1>2, <1>3, <1>5 DEF Runnable
  <1>8. Runnable(AfterStall(j))
    BY <1>1, <1>2, <1>3, <1>6 DEF Runnable
  <1> QED BY <1>4, <1>5, <1>6, <1>7, <1>8

\* A step of the queue and its workers only.
LEMMA QueueTyped ==
    ASSUME TypeOK, job' \in [Jobs -> JobRecord], worker' \in [Workers -> Append], QueueOK',
           UNCHANGED <<counter, chain, verifyVars, gate, losses>>, faults' \in 0..MaxFaults
    PROVE  TypeOK'
  BY DEF TypeOK, verifyVars

\* A step of the verifications only.
LEMMA ScanTyped ==
    ASSUME TypeOK, scan' \in [Verifiers -> Scan], marker' \in [Scopes -> Marker],
           UNCHANGED <<queueVars, chain, gate, boundVars>>
    PROVE  TypeOK'
  BY DEF TypeOK, QueueOK, queueVars, boundVars

\* A worker's report leaves the queue and the worker well typed.
LEMMA ReportTyped ==
    ASSUME TypeOK, NEW w \in Workers, worker[w].pc # "idle", NEW outcome, Report(w, outcome),
           job[worker[w].job].status = "active" =>
               outcome \in JobRecord /\ outcome.holder = NoWorker /\ Runnable(outcome)
    PROVE  job' \in [Jobs -> JobRecord] /\ worker' \in [Workers -> Append] /\ QueueOK'
  <1> DEFINE j == worker[w].job
  <1>1. /\ j \in Jobs /\ job \in [Jobs -> JobRecord] /\ worker \in [Workers -> Append]
        /\ QueueOK
    BY DEF TypeOK, QueueOK
  <1>2. worker' = [worker EXCEPT ![w] = Idle]
    BY DEF Report
  <1>3. /\ worker' \in [Workers -> Append]
        /\ \A u \in Workers : worker'[u].pc # "idle" => worker'[u].job \in Jobs
    BY <1>1, <1>2, NullRecords DEF QueueOK
  <1>4. CASE job[j].holder = w
    <2>1. job' = [job EXCEPT ![j] = outcome]
      BY <1>4 DEF Report
    <2>2. job[j].status = "active"
      BY <1>1, <1>4, NullAssumption DEF QueueOK
    <2> QED BY <1>1, <1>3, <2>1, <2>2 DEF QueueOK, Runnable
  <1>5. CASE job[j].holder # w
    <2>1. job' = job
      BY <1>5 DEF Report
    <2> QED BY <1>1, <1>3, <2>1 DEF QueueOK
  <1> QED BY <1>4, <1>5

\* TypeOK holds initially.
LEMMA TypeInit == Init => TypeOK
  <1> SUFFICES ASSUME Init PROVE TypeOK OBVIOUS
  <1>1. Attempts \in Nat /\ 0 < Attempts /\ MaxStalled \in Nat /\ MaxFaults \in Nat /\ MaxLosses \in Nat
    BY BoundsAssumption
  <1>2. job \in [Jobs -> JobRecord]
    BY <1>1 DEF Init, JobRecord
  <1>3. worker \in [Workers -> Append] /\ scan \in [Verifiers -> Scan] /\ gate \in [Scopes -> Status]
    BY NullRecords DEF Init
  <1>4. QueueOK
    BY <1>1, NullRecords DEF Init, QueueOK
  <1>5. counter \in Numbers /\ chain \subseteq Block /\ marker \in [Scopes -> Marker]
    BY DEF Init, Numbers, Marker
  <1>6. faults \in 0..MaxFaults /\ losses \in 0..MaxLosses
    BY <1>1 DEF Init
  <1> QED BY <1>2, <1>3, <1>4, <1>5, <1>6 DEF TypeOK

\* Each step preserves TypeOK.
LEMMA TypeStep == TypeOK /\ [Next]_vars => TypeOK'
  <1> SUFFICES ASSUME TypeOK, [Next]_vars PROVE TypeOK' OBVIOUS
  <1>0. /\ job \in [Jobs -> JobRecord] /\ counter \in Numbers /\ chain \subseteq Block
        /\ worker \in [Workers -> Append] /\ marker \in [Scopes -> Marker]
        /\ scan \in [Verifiers -> Scan] /\ gate \in [Scopes -> Status] /\ QueueOK
        /\ faults \in 0..MaxFaults /\ MaxFaults \in Nat /\ losses \in 0..MaxLosses /\ MaxLosses \in Nat
    BY BoundsAssumption DEF TypeOK
  <1>f. Fault => faults' \in 0..MaxFaults
    BY <1>0 DEF Fault
  <1>h. \A b \in chain : Hash(b) \in Nat /\ \A s \in Scopes : b.seq[s] \in Nat
    BY <1>0, ScopesAssumption DEF Block, Numbers, Hash
  <1>1. ASSUME NEW j \in Jobs, AppendChain(j) PROVE TypeOK'
    <2>1. PICK st \in {"waiting", "dropped"} : job' = [job EXCEPT ![j].status = st]
      BY <1>1 DEF AppendChain
    <2>2. job' \in [Jobs -> JobRecord]
      BY <1>0, <2>1 DEF JobRecord
    <2>3. job'[j].attempts = job[j].attempts /\ job'[j].stalled = job[j].stalled
          /\ job'[j].holder = job[j].holder /\ job[j].status = "new"
      BY <1>0, <1>1, <2>1 DEF JobRecord, AppendChain
    <2>4. QueueOK'
      BY <1>0, <1>1, <2>1, <2>3 DEF QueueOK, AppendChain
    <2>5. faults' \in 0..MaxFaults
      BY <1>0, <1>1, <1>f DEF AppendChain
    <2> QED BY <1>0, <1>1, <2>2, <2>4, <2>5, QueueTyped DEF AppendChain
  <1>2. ASSUME NEW j \in Jobs, StallCheck(j) PROVE TypeOK'
    <2>1. AfterStall(j) \in JobRecord /\ AfterStall(j).holder = NoWorker /\ Runnable(AfterStall(j))
      BY <1>2, QueueSteps DEF StallCheck
    <2>2. job' \in [Jobs -> JobRecord] /\ QueueOK'
      BY <1>0, <1>2, <2>1 DEF StallCheck, QueueOK, Runnable
    <2> QED BY <1>0, <1>2, <2>2, QueueTyped DEF StallCheck, boundVars
  <1>3. ASSUME NEW w \in Workers, NEW j \in Jobs, Take(w, j) PROVE TypeOK'
    <2> DEFINE r == [Idle EXCEPT !.pc = "draw", !.job = j]
               q == [job[j] EXCEPT !.status = "active", !.holder = w]
    <2>1. r \in Append /\ r.job = j
      BY NullRecords DEF Append
    <2>2. /\ q \in JobRecord /\ q.status = "active" /\ q.attempts = job[j].attempts
          /\ q.stalled = job[j].stalled
      BY <1>0 DEF JobRecord
    <2>3. job' = [job EXCEPT ![j] = q] /\ worker' = [worker EXCEPT ![w] = r] /\ job[j].status = "waiting"
      BY <1>0, <1>3 DEF Take
    <2> HIDE DEF r, q
    <2>4. job' \in [Jobs -> JobRecord] /\ worker' \in [Workers -> Append] /\ QueueOK'
      BY <1>0, <2>1, <2>2, <2>3 DEF QueueOK
    <2> QED BY <1>0, <1>3, <2>4, QueueTyped DEF Take, boundVars
  <1>4. ASSUME NEW w \in Workers, NEW s \in Scopes, DrawSequence(w, s) PROVE TypeOK'
    <2> DEFINE r == [worker[w] EXCEPT !.seq = [worker[w].seq EXCEPT ![s] = counter[s] + 1]]
    <2>1. worker[w] \in Append /\ worker[w].seq \in Numbers /\ counter[s] \in Nat
      BY <1>0 DEF Append, Numbers
    <2>2. [worker[w].seq EXCEPT ![s] = counter[s] + 1] \in Numbers
      BY <2>1 DEF Numbers
    <2>3. r \in Append /\ r.pc = worker[w].pc /\ r.job = worker[w].job
      BY <2>1, <2>2 DEF Append
    <2>4. worker' = [worker EXCEPT ![w] = r] /\ counter' = [counter EXCEPT ![s] = counter[s] + 1]
      BY <1>0, <1>4 DEF DrawSequence
    <2>5. counter' \in Numbers
      BY <1>0, <2>1, <2>4 DEF Numbers
    <2> HIDE DEF r
    <2>6. worker' \in [Workers -> Append] /\ QueueOK'
      BY <1>0, <1>4, <2>3, <2>4 DEF QueueOK, DrawSequence
    <2> QED BY <1>0, <1>4, <2>5, <2>6 DEF DrawSequence, TypeOK, verifyVars, boundVars
  <1>5. ASSUME NEW w \in Workers, ReadHeads(w) PROVE TypeOK'
    <2>1. Hashes \subseteq Nat
      BY <1>h DEF Hashes
    <2>2. PICK prev \in [Scopes -> Hashes] :
             worker' = [worker EXCEPT ![w].prev = prev, ![w].pc = "insert"]
      BY <1>5 DEF ReadHeads
    <2> DEFINE r == [worker[w] EXCEPT !.prev = prev, !.pc = "insert"]
    <2>3. prev \in Numbers
      BY <2>1 DEF Numbers
    <2>4. r \in Append /\ r.job = worker[w].job
      BY <1>0, <2>3 DEF Append
    <2>5. worker' = [worker EXCEPT ![w] = r]
      BY <1>0, <2>2
    <2> HIDE DEF r
    <2>6. worker' \in [Workers -> Append] /\ QueueOK'
      BY <1>0, <1>5, <2>4, <2>5 DEF QueueOK, ReadHeads
    <2> QED BY <1>0, <1>5, <2>6, QueueTyped DEF ReadHeads, boundVars
  <1>6. ASSUME NEW w \in Workers, InsertBlock(w) PROVE TypeOK'
    <2>1. NewBlock(w) \in Block
      <3>1. worker[w].job \in Jobs
        BY <1>0, <1>6 DEF InsertBlock, QueueOK
      <3>2. worker[w].seq \in Numbers /\ worker[w].prev \in Numbers
        BY <1>0 DEF Append
      <3> QED BY <3>1, <3>2 DEF NewBlock, Block
    <2> DEFINE r == [worker[w] EXCEPT !.pc = "ack"]
    <2>2. r \in Append /\ r.job = worker[w].job
      BY <1>0 DEF Append
    <2>3. worker' = [worker EXCEPT ![w] = r]
      BY <1>0, <1>6 DEF InsertBlock
    <2> HIDE DEF r
    <2>4. worker' \in [Workers -> Append] /\ QueueOK'
      BY <1>0, <1>6, <2>2, <2>3 DEF QueueOK, InsertBlock
    <2> QED BY <1>0, <1>6, <2>1, <2>4 DEF InsertBlock, TypeOK, verifyVars, boundVars
  <1>7. ASSUME NEW w \in Workers, RejectBlock(w) \/ FailAttempt(w) PROVE TypeOK'
    <2>1. worker[w].pc # "idle" /\ Report(w, AfterFailure(worker[w].job))
      BY <1>7 DEF RejectBlock, FailAttempt
    <2>2. worker[w].job \in Jobs
      BY <1>0, <2>1 DEF QueueOK
    <2>3. job[worker[w].job].status = "active" =>
             /\ AfterFailure(worker[w].job) \in JobRecord
             /\ AfterFailure(worker[w].job).holder = NoWorker
             /\ Runnable(AfterFailure(worker[w].job))
      BY <2>2, QueueSteps
    <2>4. job' \in [Jobs -> JobRecord] /\ worker' \in [Workers -> Append] /\ QueueOK'
      BY <2>1, <2>3, ReportTyped
    <2>5. faults' \in 0..MaxFaults /\ UNCHANGED <<counter, chain, verifyVars, gate, losses>>
      BY <1>0, <1>7, <1>f DEF RejectBlock, FailAttempt, boundVars
    <2> QED BY <2>4, <2>5, QueueTyped
  <1>8. ASSUME NEW w \in Workers, CompleteJob(w) PROVE TypeOK'
    <2> DEFINE r == [job[worker[w].job] EXCEPT !.status = "done", !.holder = NoWorker]
    <2>1. worker[w].pc # "idle" /\ Report(w, r)
      BY <1>8 DEF CompleteJob
    <2>2. worker[w].job \in Jobs
      BY <1>0, <2>1 DEF QueueOK
    <2>3. r \in JobRecord /\ r.holder = NoWorker /\ Runnable(r)
      BY <1>0, <2>2 DEF JobRecord, Runnable
    <2> HIDE DEF r
    <2>4. job' \in [Jobs -> JobRecord] /\ worker' \in [Workers -> Append] /\ QueueOK'
      BY <2>1, <2>3, ReportTyped
    <2> QED BY <1>0, <1>8, <2>4, QueueTyped DEF CompleteJob, boundVars
  <1>9. ASSUME NEW w \in Workers, RereadHeads(w) PROVE TypeOK'
    <2> DEFINE r == [worker[w] EXCEPT !.pc = "draw", !.prev = Idle.prev]
    <2>1. Idle.prev \in Numbers
      BY NullRecords DEF Append
    <2>2. r \in Append /\ r.job = worker[w].job
      BY <1>0, <2>1 DEF Append
    <2>3. worker' = [worker EXCEPT ![w] = r]
      BY <1>0, <1>9 DEF RereadHeads
    <2> HIDE DEF r
    <2>4. worker' \in [Workers -> Append] /\ QueueOK'
      BY <1>0, <1>9, <2>2, <2>3 DEF QueueOK, RereadHeads
    <2> QED BY <1>0, <1>9, <1>f, <2>4, QueueTyped DEF RereadHeads
  <1>10. ASSUME NEW w \in Workers, Crash(w) \/ LockLapses(w) PROVE TypeOK'
    <2> DEFINE j == worker[w].job
               q == [job[j] EXCEPT !.holder = NoWorker]
    <2>1. j \in Jobs
      BY <1>0, <1>10 DEF Crash, LockLapses, QueueOK
    <2>2. /\ q \in JobRecord /\ q.holder = NoWorker /\ q.status = job[j].status
          /\ q.attempts = job[j].attempts /\ q.stalled = job[j].stalled
      BY <1>0, <2>1 DEF JobRecord
    <2>3. job' = [job EXCEPT ![j] = q] \/ job' = job
      BY <1>0, <1>10, <2>1 DEF Crash, LockLapses
    <2>4. worker' = [worker EXCEPT ![w] = Idle] \/ worker' = worker
      BY <1>10 DEF Crash, LockLapses
    <2> HIDE DEF q
    <2>5. job' \in [Jobs -> JobRecord] /\ worker' \in [Workers -> Append]
      BY <1>0, <2>1, <2>2, <2>3, <2>4, NullRecords
    <2>6. QueueOK'
      BY <1>0, <2>1, <2>2, <2>3, <2>4, NullRecords DEF QueueOK
    <2>7. faults' \in 0..MaxFaults /\ UNCHANGED <<counter, chain, verifyVars, gate, losses>>
      BY <1>10, <1>f DEF Crash, LockLapses
    <2> QED BY <2>5, <2>6, <2>7, QueueTyped
  <1>12. ASSUME NEW s \in Scopes, LoseCounter(s) PROVE TypeOK'
    <2>1. counter' \in Numbers /\ losses' \in 0..MaxLosses
      BY <1>0, <1>12 DEF LoseCounter, Numbers
    <2> QED BY <1>0, <1>12, <2>1 DEF LoseCounter, TypeOK, QueueOK, verifyVars
  <1>13. CASE Bootstrap
    <2>1. counter' \in Numbers
      BY <1>0, <1>h, <1>13, ScopesAssumption DEF Bootstrap, Numbers
    <2> QED BY <1>0, <1>13, <2>1 DEF Bootstrap, TypeOK, QueueOK, verifyVars, boundVars
  <1>14. ASSUME NEW v \in Verifiers, NEW s \in Scopes, NEW full \in BOOLEAN, NEW label \in {"read", "throttle"},
                Begin(v, s, full, label)
         PROVE  scan' \in [Verifiers -> Scan]
    <2>1. [NoScan EXCEPT !.pc = label, !.scope = s, !.full = full] \in Scan
      BY NullRecords DEF Scan
    <2> QED BY <1>0, <1>14, <2>1 DEF Begin
  <1>15. ASSUME NEW v \in Verifiers, NEW s \in Scopes, NEW full \in BOOLEAN, Verify(v, s, full) PROVE TypeOK'
    <2>1. scan' \in [Verifiers -> Scan]
      BY <1>14, <1>15 DEF Verify
    <2> QED BY <1>0, <1>15, <2>1, ScanTyped DEF Verify
  <1>16. ASSUME NEW s \in Scopes, NEW n \in Nat, Mark(s, n) PROVE marker' \in [Scopes -> Marker]
    BY <1>0, <1>16 DEF Mark, Marker
  <1>17. ASSUME NEW v \in Verifiers, NEW s \in Scopes, ForceFull(v, s) PROVE TypeOK'
    <2>1. scan' \in [Verifiers -> Scan] /\ marker' \in [Scopes -> Marker]
      BY <1>14, <1>16, <1>17 DEF ForceFull
    <2> QED BY <1>17, <2>1, ScanTyped DEF ForceFull
  <1>18. ASSUME NEW v \in Verifiers, NEW label \in {"read", "mark", "broken"}, Goto(v, label)
         PROVE  scan' \in [Verifiers -> Scan]
    BY <1>0, <1>18 DEF Goto, Scan
  <1>19. ASSUME NEW v \in Verifiers, Throttle(v) \/ EndScan(v) PROVE TypeOK'
    <2>1. scan' = [scan EXCEPT ![v] = NoScan] \/ Goto(v, "read") \/ Goto(v, "mark")
      BY <1>19 DEF Throttle, EndScan
    <2>2. scan' \in [Verifiers -> Scan]
      BY <1>0, <1>18, <2>1, NullRecords
    <2> QED BY <1>0, <1>19, <2>2, ScanTyped DEF Throttle, EndScan
  <1>20. ASSUME NEW v \in Verifiers, ReadMarker(v) PROVE TypeOK'
    <2> DEFINE s == scan[v].scope
               last == IF scan[v].full THEN 0 ELSE marker[s].last
               r == [scan[v] EXCEPT !.pc = "scan", !.last = last, !.pos = last,
                       !.anchored = Anchored(s, last), !.expect = LinkAfter(s, last)]
    <2>1. last \in Nat /\ s \in Scopes
      BY <1>0 DEF Scan, Marker
    <2>2. LinkAfter(s, last) \in SUBSET Nat
      BY <1>h, <2>1 DEF LinkAfter
    <2>3. Anchored(s, last) \in BOOLEAN
      BY DEF Anchored
    <2>4. scan' = [scan EXCEPT ![v] = r]
      BY <1>20 DEF ReadMarker
    <2> HIDE DEF last
    <2>5. r \in Scan
      BY <1>0, <2>1, <2>2, <2>3 DEF Scan
    <2> HIDE DEF r
    <2>6. scan' \in [Verifiers -> Scan]
      BY <1>0, <2>4, <2>5
    <2> QED BY <1>0, <1>20, <2>6, ScanTyped DEF ReadMarker
  <1>21. ASSUME NEW v \in Verifiers, ScanBlock(v) PROVE TypeOK'
    <2>1. PICK b \in chain :
             \/ scan' = [scan EXCEPT ![v] = [@ EXCEPT !.pos = b.seq[scan[v].scope],
                            !.anchored = TRUE, !.expect = {Hash(b)}]]
             \/ Goto(v, "broken")
      BY <1>21 DEF ScanBlock, Beyond
    <2> DEFINE r == [scan[v] EXCEPT !.pos = b.seq[scan[v].scope], !.anchored = TRUE, !.expect = {Hash(b)}]
    <2>2. b.seq[scan[v].scope] \in Nat /\ Hash(b) \in Nat
      BY <1>0, <1>h DEF Scan
    <2>3. r \in Scan
      BY <1>0, <2>2 DEF Scan
    <2>4. scan' = [scan EXCEPT ![v] = r] \/ Goto(v, "broken")
      BY <2>1
    <2> HIDE DEF r
    <2>5. scan' \in [Verifiers -> Scan]
      BY <1>0, <1>18, <2>3, <2>4
    <2> QED BY <1>0, <1>21, <2>5, ScanTyped DEF ScanBlock
  <1>22. ASSUME NEW v \in Verifiers, MarkVerified(v) PROVE TypeOK'
    <2> DEFINE s == scan[v].scope
               m == [last |-> scan[v].pos, full |-> IF scan[v].full THEN "fresh" ELSE marker[s].full]
    <2>1. s \in Scopes /\ scan[v].pos \in Nat /\ marker[s].full \in {"never", "fresh", "stale"}
      BY <1>0 DEF Scan, Marker
    <2>2. m \in Marker
      BY <2>1 DEF Marker
    <2>3. marker' = [marker EXCEPT ![s] = m] /\ scan' = [scan EXCEPT ![v] = NoScan]
      BY <1>22 DEF MarkVerified
    <2> HIDE DEF m
    <2>4. scan' \in [Verifiers -> Scan] /\ marker' \in [Scopes -> Marker]
      BY <1>0, <2>2, <2>3, NullRecords
    <2> QED BY <1>22, <2>4, ScanTyped DEF MarkVerified
  <1>23. ASSUME NEW v \in Verifiers, MarkBroken(v) PROVE TypeOK'
    <2>1. scan[v].scope \in Scopes
      BY <1>0 DEF Scan
    <2>2. scan' \in [Verifiers -> Scan] /\ marker' \in [Scopes -> Marker]
      BY <1>0, <1>16, <1>23, <2>1, NullRecords DEF MarkBroken
    <2> QED BY <1>23, <2>2, ScanTyped DEF MarkBroken
  <1>24. ASSUME NEW s \in Scopes, ReadStatus(s) \/ PassGate(s) \/ RefuseGate(s) PROVE TypeOK'
    <2>1. [asked |-> TRUE, last |-> marker[s].last, fresh |-> marker[s].full = "fresh"] \in Status
      BY <1>0 DEF Marker, Status
    <2>2. gate' \in [Scopes -> Status]
      BY <1>0, <1>24, <2>1, NullRecords DEF ReadStatus, PassGate, RefuseGate, Answer
    <2>3. UNCHANGED <<queueVars, chain, verifyVars, boundVars>>
      BY <1>24 DEF ReadStatus, PassGate, RefuseGate, Answer
    <2> QED BY <1>0, <2>2, <2>3 DEF TypeOK, QueueOK, queueVars, verifyVars, boundVars
  <1>25. ASSUME NEW s \in Scopes, DayPasses(s) PROVE TypeOK'
    <2>1. marker' \in [Scopes -> Marker] /\ gate' \in [Scopes -> Status]
      BY <1>0, <1>25 DEF DayPasses, Marker, Status
    <2> QED BY <1>0, <1>25, <2>1 DEF DayPasses, TypeOK, QueueOK, queueVars, boundVars
  <1>26. CASE UNCHANGED vars
    BY <1>26 DEF vars, TypeOK, QueueOK
  <1>27. ASSUME NEW w \in Workers, Run(w) PROVE TypeOK'
    BY <1>27, <1>3, <1>4, <1>5, <1>6, <1>7, <1>8 DEF Run
  <1>28. CASE Trouble
    BY <1>28, <1>7, <1>9, <1>10, <1>12, <1>13 DEF Trouble
  <1>29. ASSUME NEW v \in Verifiers, Verification(v) PROVE TypeOK'
    BY <1>29, <1>15, <1>17, <1>19, <1>20, <1>21, <1>22, <1>23 DEF Verification
  <1> QED BY <1>1, <1>2, <1>24, <1>25, <1>26, <1>27, <1>28, <1>29 DEF Next

\* Type correctness of the queue, the chain, the verifications and the gate.
THEOREM TypeCorrect == Spec => []TypeOK
  BY TypeInit, TypeStep, PTL DEF Spec

-----------------------------------------------------------------------------
\* Blocks and numbers that are there stay whole when blocks with new numbers join.
LEMMA WholeStays ==
    ASSUME TypeOK, TypeOK', NumbersUnique', chain \subseteq chain',
           NEW s \in Scopes, NEW n \in Nat, Whole(s, n)
    PROVE  Whole(s, n)'
  <1> SUFFICES ASSUME NEW i \in 1..n
               PROVE  \E b \in chain' :
                         /\ \A c \in chain' : c.seq[s] = i <=> c = b
                         /\ IF i = 1 THEN b.prev[s] = 0
                            ELSE \E c \in chain' : c.seq[s] = i - 1 /\ b.prev[s] = Hash(c)
    BY DEF Whole, Hash
  <1>1. PICK b \in chain :
           /\ \A c \in chain : c.seq[s] = i <=> c = b
           /\ IF i = 1 THEN b.prev[s] = 0
              ELSE \E c \in chain : c.seq[s] = i - 1 /\ b.prev[s] = Hash(c)
    BY DEF Whole
  <1>2. b \in chain' /\ b.seq[s] = i /\ i > 0
    BY <1>1
  <1>3. \A c \in chain' : c.seq[s] = i <=> c = b
    BY <1>2 DEF NumbersUnique
  <1> QED BY <1>1, <1>2, <1>3

\* A scan that accepts the next number of a voting extends what is whole by it.
LEMMA WholeGrows ==
    ASSUME TypeOK, NumbersUnique, NEW s \in Scopes, NEW n \in Nat, Whole(s, n),
           NEW b \in chain, b.seq[s] = n + 1,
           IF n = 0 THEN b.prev[s] = 0 ELSE \E c \in chain : c.seq[s] = n /\ b.prev[s] = Hash(c)
    PROVE  Whole(s, n + 1)
  <1>1. \A c \in chain : c.seq[s] = n + 1 <=> c = b
    BY DEF NumbersUnique
  <1>2. ASSUME NEW i \in 1..(n + 1)
        PROVE  \E d \in chain :
                  /\ \A c \in chain : c.seq[s] = i <=> c = d
                  /\ IF i = 1 THEN d.prev[s] = 0
                     ELSE \E c \in chain : c.seq[s] = i - 1 /\ d.prev[s] = Hash(c)
    <2>1. CASE i = n + 1
      BY <1>1, <2>1
    <2>2. CASE i # n + 1
      BY <2>2 DEF Whole
    <2> QED BY <2>1, <2>2
  <1> QED BY <1>2 DEF Whole

\* VouchInv holds initially.
LEMMA VouchInit == Init => VouchInv
  <1> SUFFICES ASSUME Init PROVE VouchInv OBVIOUS
  <1>1. \A s : Whole(s, 0)
    BY DEF Whole
  <1>2. NumbersUnique /\ MarkerVouches
    BY <1>1, ScopesAssumption DEF Init, NumbersUnique, MarkerVouches
  <1>3. ScanVouches
    BY NullRecords DEF Init, ScanVouches
  <1>4. \A s \in Votings : Whole(s, gate[s].last)
    BY <1>1, NullRecords, ScopesAssumption DEF Init
  <1> QED BY <1>2, <1>3, <1>4 DEF VouchInv

\* Steps of the queue and of the workers that insert nothing leave VouchInv alone.
LEMMA VouchUnchanged ==
    VouchInv /\ UNCHANGED <<chain, verifyVars, gate>> => VouchInv'
  BY DEF VouchInv, NumbersUnique, MarkerVouches, ScanVouches, Whole, verifyVars, Hash

\* What one scan is at; ScanVouches says this of all of them.
ScanFine(v) ==
    LET s == scan[v].scope
    IN  scan[v].pc \in {"scan", "mark"} /\ s \in Votings =>
            /\ scan[v].anchored /\ scan[v].expect # {}
            /\ Whole(s, scan[v].pos)
            /\ \A h \in scan[v].expect :
                  IF scan[v].pos = 0 THEN h = 0
                  ELSE \E c \in chain : c.seq[s] = scan[v].pos /\ h = Hash(c)

\* A step of one verification that leaves the marker alone, or gives it what is
\* whole.
LEMMA VouchScan ==
    ASSUME TypeOK, TypeOK', VouchInv, NEW v \in Verifiers, NEW r, scan' = [scan EXCEPT ![v] = r],
           UNCHANGED <<chain, gate>>, ScanFine(v)', MarkerVouches'
    PROVE  VouchInv'
  <1>1. NumbersUnique' /\ \A s \in Votings : Whole(s, gate[s].last)'
    BY DEF VouchInv, NumbersUnique, Whole, Hash
  <1>2. ASSUME NEW u \in Verifiers PROVE ScanFine(u)'
    <2>1. CASE u = v
      BY <2>1
    <2>2. CASE u # v
      <3>1. scan'[u] = scan[u]
        BY <2>2 DEF TypeOK
      <3>2. ScanFine(u)
        BY DEF VouchInv, ScanVouches, ScanFine
      <3> QED BY <3>1, <3>2 DEF ScanFine, Whole, Hash
    <2> QED BY <2>1, <2>2
  <1>3. ScanVouches'
    BY <1>2 DEF ScanVouches, ScanFine
  <1> QED BY <1>1, <1>3 DEF VouchInv

\* Each step preserves VouchInv.
LEMMA VouchStep == TypeOK /\ TypeOK' /\ VouchInv /\ [Next]_vars => VouchInv'
  <1> SUFFICES ASSUME TypeOK, TypeOK', VouchInv, [Next]_vars PROVE VouchInv'
    OBVIOUS
  <1>0. /\ NumbersUnique /\ MarkerVouches /\ ScanVouches
        /\ \A s \in Votings : Whole(s, gate[s].last)
        /\ scan \in [Verifiers -> Scan] /\ marker \in [Scopes -> Marker] /\ chain \subseteq Block
        /\ Votings \subseteq Scopes
    BY ScopesAssumption DEF VouchInv, TypeOK
  <1>m. UNCHANGED <<chain, marker>> => MarkerVouches'
    BY <1>0 DEF MarkerVouches, Whole, Hash
  <1>w. \A s : Whole(s, 0)
    BY DEF Whole
  <1>1. ASSUME NEW w \in Workers, InsertBlock(w) PROVE VouchInv'
    <2>1. chain' = chain \cup {NewBlock(w)} /\ ~Taken(NewBlock(w)) /\ UNCHANGED <<verifyVars, gate>>
      BY <1>1 DEF InsertBlock
    <2>2. NumbersUnique'
      BY <1>0, <2>1 DEF NumbersUnique, Taken
    <2>3. \A s \in Scopes, n \in Nat : Whole(s, n) => Whole(s, n)'
      BY <2>1, <2>2, WholeStays
    <2>5. MarkerVouches'
      <3>1. ASSUME NEW s \in Votings PROVE Whole(s, marker[s].last)'
        <4>1. s \in Scopes /\ marker[s].last \in Nat /\ marker' = marker /\ Whole(s, marker[s].last)
          BY <1>0, <2>1 DEF Marker, verifyVars, MarkerVouches
        <4> QED BY <2>3, <4>1 DEF Whole
      <3> QED BY <3>1 DEF MarkerVouches
    <2>6. \A s \in Votings : Whole(s, gate[s].last)'
      <3>1. ASSUME NEW s \in Votings PROVE Whole(s, gate[s].last)'
        <4>1. s \in Scopes /\ gate[s].last \in Nat /\ gate' = gate /\ Whole(s, gate[s].last)
          BY <1>0, <2>1 DEF TypeOK, Status
        <4> QED BY <2>3, <4>1 DEF Whole
      <3> QED BY <3>1
    <2>7. ASSUME NEW v \in Verifiers PROVE ScanFine(v)'
      <3> SUFFICES ASSUME scan[v].pc \in {"scan", "mark"}, scan[v].scope \in Votings
                   PROVE  ScanFine(v)'
        BY <2>1 DEF ScanFine, verifyVars
      <3>1. /\ scan[v].scope \in Scopes /\ scan[v].pos \in Nat /\ scan' = scan
            /\ scan[v].anchored /\ scan[v].expect # {} /\ Whole(scan[v].scope, scan[v].pos)
            /\ \A h \in scan[v].expect :
                  IF scan[v].pos = 0 THEN h = 0
                  ELSE \E c \in chain : c.seq[scan[v].scope] = scan[v].pos /\ h = Hash(c)
        BY <1>0, <2>1 DEF Scan, verifyVars, ScanVouches
      <3>2. Whole(scan[v].scope, scan[v].pos)'
        <4>1. PICK x \in Scopes, m \in Nat : x = scan[v].scope /\ m = scan[v].pos
          BY <3>1
        <4>2. Whole(x, m)'
          BY <2>3, <3>1, <4>1
        <4>3. x = scan'[v].scope /\ m = scan'[v].pos
          BY <3>1, <4>1
        <4> QED BY <4>2, <4>3 DEF Whole
      <3> QED BY <2>1, <3>1, <3>2 DEF ScanFine, Hash
    <2>8. ScanVouches'
      BY <2>7 DEF ScanVouches, ScanFine
    <2> QED BY <2>2, <2>5, <2>6, <2>8 DEF VouchInv
  <1>2. ASSUME NEW v \in Verifiers, NEW s \in Scopes, NEW full \in BOOLEAN, Verify(v, s, full) PROVE VouchInv'
    <2> DEFINE r == [NoScan EXCEPT !.pc = "read", !.scope = s, !.full = full]
    <2>1. scan' = [scan EXCEPT ![v] = r] /\ UNCHANGED <<chain, gate, marker>>
      BY <1>2 DEF Verify, Begin
    <2>2. r.pc = "read"
      BY DEF NoScan
    <2> HIDE DEF r
    <2>3. ScanFine(v)'
      BY <1>0, <2>1, <2>2 DEF ScanFine
    <2> QED BY <1>m, <2>1, <2>3, VouchScan
  <1>3. ASSUME NEW v \in Verifiers, NEW s \in Scopes, ForceFull(v, s) PROVE VouchInv'
    <2> DEFINE r == [NoScan EXCEPT !.pc = "throttle", !.scope = s, !.full = TRUE]
    <2>1. scan' = [scan EXCEPT ![v] = r] /\ UNCHANGED <<chain, gate>> /\ Mark(s, 0)
      BY <1>3 DEF ForceFull, Begin
    <2>2. r.pc = "throttle"
      BY DEF NoScan
    <2> HIDE DEF r
    <2>3. ScanFine(v)'
      BY <1>0, <2>1, <2>2 DEF ScanFine
    <2>4. MarkerVouches'
      <3>1. \A u \in Votings : marker'[u].last = 0 \/ marker'[u] = marker[u]
        BY <1>0, <2>1 DEF Mark, Marker
      <3> QED BY <1>0, <2>1, <3>1 DEF MarkerVouches, Whole, Hash
    <2> QED BY <2>1, <2>3, <2>4, VouchScan
  <1>4. ASSUME NEW v \in Verifiers, Throttle(v) \/ EndScan(v) PROVE VouchInv'
    <2>1. PICK r \in {NoScan, [scan[v] EXCEPT !.pc = "read"], [scan[v] EXCEPT !.pc = "mark"]} :
             scan' = [scan EXCEPT ![v] = r] /\ (r.pc = "mark" => EndScan(v) /\ r = [scan[v] EXCEPT !.pc = "mark"])
      <3>1. NoScan.pc = "idle" /\ [scan[v] EXCEPT !.pc = "read"].pc = "read"
        BY <1>0, NullRecords DEF Scan
      <3> QED BY <1>0, <1>4, <3>1 DEF Throttle, EndScan, Goto
    <2>2. UNCHANGED <<chain, gate, marker>>
      BY <1>4 DEF Throttle, EndScan
    <2>3. ScanFine(v)'
      <3>1. CASE r.pc = "mark"
        <4>1. scan[v].pc = "scan"
          BY <2>1, <3>1 DEF EndScan
        <4>2. /\ scan'[v].scope = scan[v].scope /\ scan'[v].pos = scan[v].pos
              /\ scan'[v].anchored = scan[v].anchored /\ scan'[v].expect = scan[v].expect
          BY <1>0, <2>1, <3>1 DEF Scan
        <4> SUFFICES ASSUME scan[v].scope \in Votings PROVE ScanFine(v)'
          BY <4>2 DEF ScanFine
        <4>3. /\ scan[v].anchored /\ scan[v].expect # {}
              /\ Whole(scan[v].scope, scan[v].pos)
              /\ \A h \in scan[v].expect :
                    IF scan[v].pos = 0 THEN h = 0
                    ELSE \E c \in chain : c.seq[scan[v].scope] = scan[v].pos /\ h = Hash(c)
          BY <1>0, <4>1 DEF ScanVouches
        <4>4. Whole(scan[v].scope, scan[v].pos)'
          BY <2>2, <4>2, <4>3 DEF Whole, Hash
        <4> QED BY <2>2, <4>2, <4>3, <4>4 DEF ScanFine, Hash
      <3>2. CASE r.pc # "mark"
        <4>1. r.pc \in {"idle", "read"}
          BY <1>0, <2>1, <3>2, NullRecords DEF Scan
        <4> QED BY <1>0, <2>1, <4>1 DEF ScanFine
      <3> QED BY <3>1, <3>2
    <2> QED BY <1>m, <2>1, <2>2, <2>3, VouchScan
  <1>5. ASSUME NEW v \in Verifiers, ReadMarker(v) PROVE VouchInv'
    <2> DEFINE s == scan[v].scope
               last == IF scan[v].full THEN 0 ELSE marker[s].last
               r == [scan[v] EXCEPT !.pc = "scan", !.last = last, !.pos = last,
                       !.anchored = Anchored(s, last), !.expect = LinkAfter(s, last)]
    <2>1. scan' = [scan EXCEPT ![v] = r] /\ UNCHANGED <<chain, gate, marker>>
      BY <1>5 DEF ReadMarker
    <2>2. last \in Nat /\ s \in Scopes /\ (s \in Votings => Whole(s, last))
      <3>1. s \in Scopes /\ marker[s].last \in Nat
        BY <1>0 DEF Scan, Marker
      <3>2. s \in Votings => Whole(s, marker[s].last)
        BY <1>0 DEF MarkerVouches
      <3> QED BY <1>w, <3>1, <3>2
    <2>3. /\ scan'[v].scope = s /\ scan'[v].pos = last /\ scan'[v].anchored = Anchored(s, last)
          /\ scan'[v].expect = LinkAfter(s, last)
      BY <1>0, <2>1 DEF Scan
    <2> HIDE DEF r, last, s
    <2>4. SUFFICES ASSUME s \in Votings PROVE ScanFine(v)'
      <3>1. s \notin Votings => ScanFine(v)'
        BY <2>3 DEF ScanFine
      <3> QED BY <1>m, <2>1, <3>1, <2>4, VouchScan
    <2>5. Anchored(s, last)
      BY <2>4 DEF Anchored
    <2>6. /\ LinkAfter(s, last) # {}
          /\ \A h \in LinkAfter(s, last) :
                IF last = 0 THEN h = 0 ELSE \E c \in chain : c.seq[s] = last /\ h = Hash(c)
      <3>1. last # 0 => \E c \in chain : c.seq[s] = last
        BY <2>2, <2>4 DEF Whole
      <3> QED BY <3>1 DEF LinkAfter
    <2>7. Whole(s, last)
      BY <2>2, <2>4
    <2>8. Whole(scan[v].scope, scan[v].pos)'
      BY <2>1, <2>3, <2>7 DEF Whole, Hash
    <2>9. \A h \in scan'[v].expect :
             IF scan'[v].pos = 0 THEN h = 0
             ELSE \E c \in chain' : c.seq[scan'[v].scope] = scan'[v].pos /\ h = Hash(c)'
      BY <2>1, <2>3, <2>6 DEF Hash
    <2> QED BY <2>3, <2>5, <2>6, <2>8, <2>9 DEF ScanFine, Hash
  <1>6. ASSUME NEW v \in Verifiers, ScanBlock(v) PROVE VouchInv'
    <2> DEFINE s == scan[v].scope
               n == scan[v].pos
    <2>0. UNCHANGED <<chain, gate, marker>> /\ scan[v].pc = "scan" /\ n \in Nat /\ s \in Scopes
      BY <1>0, <1>6 DEF ScanBlock, Scan
    <2>1. PICK b \in chain :
             IF Follows(v, b)
             THEN scan' = [scan EXCEPT ![v] = [@ EXCEPT !.pos = b.seq[s],
                            !.anchored = TRUE, !.expect = {Hash(b)}]]
             ELSE Goto(v, "broken")
      BY <1>6 DEF ScanBlock, Beyond
    <2>2. CASE ~Follows(v, b)
      <3> DEFINE r == [scan[v] EXCEPT !.pc = "broken"]
      <3>1. scan' = [scan EXCEPT ![v] = r] /\ r.pc = "broken"
        BY <1>0, <2>1, <2>2 DEF Goto, Scan
      <3> HIDE DEF r
      <3>2. ScanFine(v)'
        BY <1>0, <3>1 DEF ScanFine
      <3> QED BY <1>m, <2>0, <3>1, <3>2, VouchScan
    <2>3. CASE Follows(v, b)
      <3> DEFINE r == [scan[v] EXCEPT !.pos = b.seq[s], !.anchored = TRUE, !.expect = {Hash(b)}]
      <3>1. scan' = [scan EXCEPT ![v] = r]
        BY <2>1, <2>3
      <3>2. scan'[v].scope = s /\ scan'[v].pos = b.seq[s] /\ scan'[v].anchored /\ scan'[v].expect = {Hash(b)}
        BY <1>0, <3>1 DEF Scan
      <3>3. ASSUME s \in Votings PROVE Whole(s, n + 1) /\ b.seq[s] = n + 1
        <4>1. /\ scan[v].anchored /\ scan[v].expect # {} /\ Whole(s, n)
              /\ \A h \in scan[v].expect :
                    IF n = 0 THEN h = 0 ELSE \E c \in chain : c.seq[s] = n /\ h = Hash(c)
          BY <1>0, <2>0, <3>3 DEF ScanVouches
        <4>2. b.seq[s] = n + 1 /\ b.prev[s] \in scan[v].expect
          BY <2>3, <4>1 DEF Follows
        <4>3. IF n = 0 THEN b.prev[s] = 0 ELSE \E c \in chain : c.seq[s] = n /\ b.prev[s] = Hash(c)
          BY <4>1, <4>2
        <4> HIDE DEF s, n
        <4> QED BY <1>0, <2>0, <4>1, <4>2, <4>3, WholeGrows
      <3>4. ScanFine(v)'
        <4> SUFFICES ASSUME s \in Votings PROVE ScanFine(v)'
          BY <3>2 DEF ScanFine
        <4>1. Whole(s, n + 1) /\ b.seq[s] = n + 1 /\ n + 1 # 0
          BY <2>0, <3>3
        <4>2. Whole(scan[v].scope, scan[v].pos)'
          BY <2>0, <3>2, <4>1 DEF Whole, Hash
        <4>3. \A h \in scan'[v].expect :
                 \E c \in chain' : c.seq[scan'[v].scope] = scan'[v].pos /\ h = Hash(c)'
          BY <2>0, <3>2 DEF Hash
        <4> QED BY <3>2, <4>1, <4>2, <4>3 DEF ScanFine, Hash
      <3> HIDE DEF r
      <3> QED BY <1>m, <2>0, <3>1, <3>4, VouchScan
    <2> QED BY <2>2, <2>3
  <1>7. ASSUME NEW v \in Verifiers, MarkVerified(v) PROVE VouchInv'
    <2> DEFINE s == scan[v].scope
    <2>1. scan' = [scan EXCEPT ![v] = NoScan] /\ UNCHANGED <<chain, gate>> /\ scan[v].pc = "mark"
      BY <1>7 DEF MarkVerified
    <2>2. ScanFine(v)'
      BY <1>0, <2>1, NullRecords DEF ScanFine
    <2>3. ASSUME NEW u \in Votings PROVE Whole(u, marker[u].last)'
      <3>1. CASE u = s
        <4>1. marker'[u].last = scan[v].pos
          BY <1>0, <1>7, <3>1 DEF MarkVerified
        <4>2. Whole(u, scan[v].pos)
          BY <1>0, <2>1, <3>1 DEF ScanVouches
        <4> QED BY <2>1, <4>1, <4>2 DEF Whole, Hash
      <3>2. CASE u # s
        <4>1. marker'[u] = marker[u]
          BY <1>0, <1>7, <3>2 DEF MarkVerified
        <4>2. Whole(u, marker[u].last)
          BY <1>0 DEF MarkerVouches
        <4> QED BY <2>1, <4>1, <4>2 DEF Whole, Hash
      <3> QED BY <3>1, <3>2
    <2>4. MarkerVouches'
      BY <2>3 DEF MarkerVouches
    <2> QED BY <2>1, <2>2, <2>4, VouchScan
  <1>8. ASSUME NEW v \in Verifiers, MarkBroken(v) PROVE VouchInv'
    <2>1. scan' = [scan EXCEPT ![v] = NoScan] /\ UNCHANGED <<chain, gate>> /\ Mark(scan[v].scope, 0)
      BY <1>8 DEF MarkBroken
    <2>2. ScanFine(v)'
      BY <1>0, <2>1, NullRecords DEF ScanFine
    <2>3. \A u \in Votings : marker'[u].last = 0 \/ marker'[u] = marker[u]
      BY <1>0, <2>1 DEF Mark, Marker
    <2>4. MarkerVouches'
      BY <1>0, <2>1, <2>3 DEF MarkerVouches, Whole, Hash
    <2> QED BY <2>1, <2>2, <2>4, VouchScan
  <1>9. ASSUME NEW s \in Scopes, ReadStatus(s) \/ PassGate(s) \/ RefuseGate(s) PROVE VouchInv'
    <2>1. UNCHANGED <<chain, marker, scan>>
      BY <1>9 DEF ReadStatus, PassGate, RefuseGate, Answer, verifyVars
    <2>2. \A u \in Votings : gate'[u].last \in {0, marker[u].last, gate[u].last}
      <3>1. gate \in [Scopes -> Status]
        BY DEF TypeOK
      <3> QED BY <1>0, <1>9, <3>1, NullRecords DEF ReadStatus, PassGate, RefuseGate, Answer
    <2>3. \A u \in Votings : Whole(u, gate[u].last)'
      BY <1>0, <2>1, <2>2 DEF MarkerVouches, Whole, Hash
    <2>4. NumbersUnique' /\ MarkerVouches' /\ ScanVouches'
      BY <1>0, <1>m, <2>1 DEF NumbersUnique, ScanVouches, Whole, Hash
    <2> QED BY <2>3, <2>4 DEF VouchInv
  <1>10. ASSUME NEW s \in Scopes, DayPasses(s) PROVE VouchInv'
    <2>1. UNCHANGED <<chain, scan>>
      BY <1>10 DEF DayPasses
    <2>2. \A u \in Votings : marker'[u].last = marker[u].last /\ gate'[u].last = gate[u].last
      <3>1. gate \in [Scopes -> Status]
        BY DEF TypeOK
      <3> QED BY <1>0, <1>10, <3>1 DEF DayPasses, Marker, Status
    <2>3. \A u \in Votings : Whole(u, gate[u].last)'
      BY <1>0, <2>1, <2>2 DEF Whole, Hash
    <2>4. MarkerVouches'
      BY <1>0, <2>1, <2>2 DEF MarkerVouches, Whole, Hash
    <2>5. NumbersUnique' /\ ScanVouches'
      BY <1>0, <2>1 DEF NumbersUnique, ScanVouches, Whole, Hash
    <2> QED BY <2>3, <2>4, <2>5 DEF VouchInv
  <1>11. ASSUME NEW w \in Workers, Run(w) PROVE VouchInv'
    <2>1. InsertBlock(w) \/ UNCHANGED <<chain, verifyVars, gate>>
      BY <1>11 DEF Run, Take, DrawSequence, ReadHeads, RejectBlock, CompleteJob
    <2> QED BY <1>1, <2>1, VouchUnchanged
  <1>12. ASSUME NEW j \in Jobs, AppendChain(j) \/ StallCheck(j) PROVE VouchInv'
    BY <1>12, VouchUnchanged DEF AppendChain, StallCheck
  <1>13. CASE Trouble
    BY <1>13, VouchUnchanged
       DEF Trouble, RereadHeads, FailAttempt, Crash, LockLapses, LoseCounter, Bootstrap
  <1>14. ASSUME NEW v \in Verifiers, Verification(v) PROVE VouchInv'
    BY <1>14, <1>2, <1>3, <1>4, <1>5, <1>6, <1>7, <1>8 DEF Verification
  <1>15. CASE UNCHANGED vars
    BY <1>15, VouchUnchanged DEF vars, verifyVars
  <1> QED BY <1>9, <1>10, <1>11, <1>12, <1>13, <1>14, <1>15 DEF Next

\* Whatever may become a marker is whole, with any number of workers and
\* verifications, and whatever fails, crashes or is evicted.
THEOREM VouchInvariant == Spec => []VouchInv
  <1>1. Init => VouchInv
    BY VouchInit
  <1>2. TypeOK /\ TypeOK' /\ VouchInv /\ [Next]_vars => VouchInv'
    BY VouchStep
  <1> QED BY <1>1, <1>2, TypeCorrect, PTL DEF Spec

\* The marker of a voting vouches only for a whole prefix of its chain.
THEOREM MarkersVouch == Spec => []MarkerVouches
  <1>1. VouchInv => MarkerVouches
    BY DEF VouchInv
  <1> QED BY <1>1, VouchInvariant, PTL

\* A finalization is let through only when its voting's whole chain is verified.
THEOREM GateSound == Spec => SecureMeansVerified
  <1>1. VouchInv /\ [Next]_vars =>
           [\A s \in Votings : PassGate(s) =>
               Whole(s, gate[s].last) /\ \A b \in Within(s) : b.seq[s] <= gate[s].last]_vars
    BY DEF VouchInv, PassGate, IsSecure, Within
  <1> QED BY <1>1, VouchInvariant, PTL DEF Spec, SecureMeansVerified

-----------------------------------------------------------------------------
(* One block per delivery.                                                 *)

\* The worker is between taking a job and inserting its block.
Appending(w) == worker[w].pc \in {"draw", "insert"}

\* The job the worker may still insert a block for.
At(w) == IF Appending(w) THEN worker[w].job ELSE NoJob

Blocks(j) == {b \in chain : b.job = j}
InFlight(j) == {w \in Workers : At(w) = j}

\* The blocks of a job, the workers that may still insert one and the delivery
\* it waits for add up to its first delivery and those BullMQ took back.  A
\* worker whose lock lapsed counts although the queue gave its job away.
Deliveries(j) ==
    /\ IsFiniteSet(Blocks(j)) /\ IsFiniteSet(InFlight(j))
    /\ Cardinality(Blocks(j)) + Cardinality(InFlight(j))
          + (IF job[j].status \in {"new", "waiting"} THEN 1 ELSE 0) <= 1 + job[j].stalled

DeliveryInv == \A j \in Jobs : Deliveries(j)

\* A set with an element more or less.
LEMMA OneMoreOrLess ==
    ASSUME NEW S, IsFiniteSet(S), NEW x
    PROVE  /\ Cardinality(S) \in Nat
           /\ x \notin S => IsFiniteSet(S \cup {x}) /\ Cardinality(S \cup {x}) = Cardinality(S) + 1
           /\ x \in S => /\ IsFiniteSet(S \ {x}) /\ Cardinality(S \ {x}) \in Nat
                         /\ Cardinality(S \ {x}) + 1 = Cardinality(S)
  <1>1. Cardinality(S) \in Nat
    BY FS_CardinalityType
  <1>2. x \notin S => IsFiniteSet(S \cup {x}) /\ Cardinality(S \cup {x}) = Cardinality(S) + 1
    BY FS_AddElement
  <1>3. ASSUME x \in S
        PROVE  /\ IsFiniteSet(S \ {x}) /\ Cardinality(S \ {x}) \in Nat
               /\ Cardinality(S \ {x}) + 1 = Cardinality(S)
    <2>1. IsFiniteSet(S \ {x}) /\ Cardinality(S \ {x}) = Cardinality(S) - 1
      BY <1>3, FS_RemoveElement
    <2>2. Cardinality(S \ {x}) \in Nat
      BY <2>1, FS_CardinalityType
    <2> QED BY <1>1, <2>1, <2>2
  <1> QED BY <1>1, <1>2, <1>3

\* A step that adds no block, takes up no job and makes no job wait.
LEMMA DeliveriesKept ==
    ASSUME TypeOK, NEW j \in Jobs, Deliveries(j), UNCHANGED chain,
           \A w \in Workers : At(w)' = At(w),
           job'[j].stalled = job[j].stalled,
           job'[j].status \in {"new", "waiting"} => job[j].status \in {"new", "waiting"}
    PROVE  Deliveries(j)'
  <1>1. Blocks(j)' = Blocks(j) /\ InFlight(j)' = InFlight(j)
    BY DEF Blocks, InFlight
  <1>2. Cardinality(Blocks(j)) \in Nat /\ Cardinality(InFlight(j)) \in Nat /\ job[j].stalled \in Nat
    BY FS_CardinalityType DEF Deliveries, TypeOK, JobRecord
  <1> QED BY <1>1, <1>2 DEF Deliveries

\* A worker is done with its attempt, and at most makes its job wait again.
LEMMA DeliveriesLeft ==
    ASSUME TypeOK, NEW j \in Jobs, Deliveries(j), UNCHANGED chain,
           NEW w \in Workers, At(w)' = NoJob,
           \A u \in Workers \ {w} : At(u)' = At(u),
           job'[j].stalled = job[j].stalled,
           (At(w) # j /\ job'[j].status \in {"new", "waiting"}) => job[j].status \in {"new", "waiting"}
    PROVE  Deliveries(j)'
  <1>0. /\ Cardinality(Blocks(j)) \in Nat /\ Cardinality(InFlight(j)) \in Nat
        /\ IsFiniteSet(InFlight(j)) /\ job[j].stalled \in Nat /\ j # NoJob
    BY FS_CardinalityType, NullAssumption DEF Deliveries, TypeOK, JobRecord
  <1>1. CASE At(w) # j
    <2>1. \A u \in Workers : At(u)' = j <=> At(u) = j
      BY <1>0, <1>1
    <2>2. Blocks(j)' = Blocks(j) /\ InFlight(j)' = InFlight(j)
      BY <2>1 DEF Blocks, InFlight
    <2> QED BY <1>0, <1>1, <2>2 DEF Deliveries
  <1>2. CASE At(w) = j
    <2>1. w \in InFlight(j) /\ InFlight(j)' = InFlight(j) \ {w}
      BY <1>0, <1>2 DEF InFlight
    <2>2. /\ IsFiniteSet(InFlight(j)') /\ Cardinality(InFlight(j)') \in Nat
          /\ Cardinality(InFlight(j)') + 1 = Cardinality(InFlight(j))
      BY <1>0, <2>1, OneMoreOrLess
    <2>3. Blocks(j)' = Blocks(j)
      BY DEF Blocks
    <2> QED BY <1>0, <1>2, <2>2, <2>3 DEF Deliveries
  <1> QED BY <1>1, <1>2

\* No job is in flight initially.
LEMMA DeliveryInit == Init => DeliveryInv
  <1> SUFFICES ASSUME Init, NEW j \in Jobs PROVE Deliveries(j)
    BY DEF DeliveryInv
  <1>1. Blocks(j) = {} /\ InFlight(j) = {}
    BY NullAssumption DEF Init, Blocks, InFlight, At, Appending, Idle
  <1>2. job[j].stalled = 0
    BY DEF Init
  <1> QED BY <1>1, <1>2, FS_EmptySet DEF Deliveries

\* Each step preserves DeliveryInv.
LEMMA DeliveryStep == TypeOK /\ DeliveryInv /\ [Next]_vars => DeliveryInv'
  <1> SUFFICES ASSUME TypeOK, DeliveryInv, [Next]_vars, NEW j \in Jobs
               PROVE  Deliveries(j)'
    BY DEF DeliveryInv
  <1>0. /\ Deliveries(j) /\ job \in [Jobs -> JobRecord] /\ worker \in [Workers -> Append]
        /\ job[j] \in JobRecord /\ QueueOK /\ j # NoJob
        /\ Cardinality(Blocks(j)) \in Nat /\ Cardinality(InFlight(j)) \in Nat
        /\ job[j].stalled \in Nat
    BY FS_CardinalityType, NullAssumption DEF DeliveryInv, Deliveries, TypeOK, JobRecord
  <1>s. UNCHANGED <<job, chain, worker>> => Deliveries(j)'
    BY <1>0, DeliveriesKept DEF At, Appending
  <1>1. ASSUME NEW i \in Jobs, AppendChain(i) PROVE Deliveries(j)'
    <2>1. PICK st \in {"waiting", "dropped"} : job' = [job EXCEPT ![i].status = st]
      BY <1>1 DEF AppendChain
    <2>2. /\ job'[j].stalled = job[j].stalled
          /\ job'[j].status \in {"new", "waiting"} => job[j].status \in {"new", "waiting"}
      BY <1>0, <1>1, <2>1 DEF JobRecord, AppendChain
    <2>3. \A w \in Workers : At(w)' = At(w)
      BY <1>1 DEF AppendChain, At, Appending
    <2> QED BY <1>0, <1>1, <2>2, <2>3, DeliveriesKept DEF AppendChain
  <1>2. ASSUME NEW i \in Jobs, StallCheck(i) PROVE Deliveries(j)'
    <2>1. CASE i = j
      <3>1. /\ job[j].status = "active" /\ job'[j].stalled = job[j].stalled + 1
        BY <1>0, <1>2, <2>1 DEF StallCheck, AfterStall, JobRecord
      <3>2. Blocks(j)' = Blocks(j) /\ InFlight(j)' = InFlight(j)
        BY <1>2 DEF StallCheck, Blocks, InFlight, At, Appending
      <3> QED BY <1>0, <3>1, <3>2 DEF Deliveries
    <2>2. CASE i # j
      <3>1. job'[j] = job[j]
        BY <1>0, <1>2, <2>2 DEF StallCheck
      <3>2. \A w \in Workers : At(w)' = At(w)
        BY <1>2 DEF StallCheck, At, Appending
      <3> QED BY <1>0, <1>2, <3>1, <3>2, DeliveriesKept DEF StallCheck
    <2> QED BY <2>1, <2>2
  <1>3. ASSUME NEW w \in Workers, NEW i \in Jobs, Take(w, i) PROVE Deliveries(j)'
    <2>1. /\ worker[w].pc = "idle" /\ UNCHANGED chain /\ job[i].status = "waiting"
          /\ worker' = [worker EXCEPT ![w] = [Idle EXCEPT !.pc = "draw", !.job = i]]
      BY <1>3 DEF Take
    <2>2. At(w) = NoJob /\ At(w)' = i /\ \A u \in Workers \ {w} : At(u)' = At(u)
      BY <1>0, <2>1 DEF At, Appending, Idle
    <2>3. Blocks(j)' = Blocks(j)
      BY <2>1 DEF Blocks
    <2>4. CASE i = j
      <3>1. w \notin InFlight(j) /\ InFlight(j)' = InFlight(j) \cup {w}
        BY <1>0, <2>2, <2>4 DEF InFlight
      <3>2. IsFiniteSet(InFlight(j)') /\ Cardinality(InFlight(j)') = Cardinality(InFlight(j)) + 1
        BY <1>0, <3>1, OneMoreOrLess DEF Deliveries
      <3>3. job'[j].status = "active" /\ job'[j].stalled = job[j].stalled
        BY <1>0, <1>3, <2>4 DEF Take, JobRecord
      <3> QED BY <1>0, <2>1, <2>3, <2>4, <3>2, <3>3 DEF Deliveries
    <2>5. CASE i # j
      <3>1. InFlight(j)' = InFlight(j)
        BY <1>0, <2>2, <2>5 DEF InFlight
      <3>2. job'[j] = job[j]
        BY <1>0, <1>3, <2>5 DEF Take
      <3> QED BY <1>0, <2>3, <3>1, <3>2 DEF Deliveries
    <2> QED BY <2>4, <2>5
  <1>4. ASSUME NEW w \in Workers, (\E s \in Scopes : DrawSequence(w, s)) \/ ReadHeads(w) \/ RereadHeads(w)
        PROVE  Deliveries(j)'
    <2>1. UNCHANGED <<job, chain>>
      BY <1>4 DEF DrawSequence, ReadHeads, RereadHeads
    <2>2. \A u \in Workers : At(u)' = At(u)
      <3>1. /\ worker'[w].job = worker[w].job /\ worker[w].pc \in {"draw", "insert"}
            /\ worker'[w].pc \in {"draw", "insert"} /\ \A u \in Workers \ {w} : worker'[u] = worker[u]
        BY <1>0, <1>4 DEF DrawSequence, ReadHeads, RereadHeads, Append
      <3> QED BY <3>1 DEF At, Appending
    <2> QED BY <1>0, <2>1, <2>2, DeliveriesKept
  <1>5. ASSUME NEW w \in Workers, InsertBlock(w) PROVE Deliveries(j)'
    <2>1. /\ worker[w].pc = "insert" /\ chain' = chain \cup {NewBlock(w)} /\ job' = job
          /\ At(w) = worker[w].job /\ At(w)' = NoJob /\ \A u \in Workers \ {w} : At(u)' = At(u)
      BY <1>0, <1>5 DEF InsertBlock, At, Appending, Append
    <2>2. NewBlock(w).job = worker[w].job
      BY DEF NewBlock
    <2>3. CASE At(w) = j
      <3>1. w \in InFlight(j) /\ InFlight(j)' = InFlight(j) \ {w}
        BY <1>0, <2>1, <2>3 DEF InFlight
      <3>2. /\ IsFiniteSet(InFlight(j)') /\ Cardinality(InFlight(j)') \in Nat
            /\ Cardinality(InFlight(j)') + 1 = Cardinality(InFlight(j))
        BY <1>0, <3>1, OneMoreOrLess DEF Deliveries
      <3>3. Blocks(j)' = Blocks(j) \cup {NewBlock(w)}
        BY <2>1, <2>2, <2>3 DEF Blocks
      <3>4. NewBlock(w) \in Blocks(j) => Blocks(j)' = Blocks(j)
        BY <3>3
      <3>5. NewBlock(w) \notin Blocks(j) =>
               IsFiniteSet(Blocks(j)') /\ Cardinality(Blocks(j)') = Cardinality(Blocks(j)) + 1
        BY <1>0, <3>3, OneMoreOrLess DEF Deliveries
      <3> QED BY <1>0, <2>1, <3>2, <3>4, <3>5 DEF Deliveries
    <2>4. CASE At(w) # j
      <3>1. Blocks(j)' = Blocks(j) /\ InFlight(j)' = InFlight(j)
        BY <1>0, <2>1, <2>2, <2>4 DEF Blocks, InFlight
      <3> QED BY <1>0, <2>1, <3>1 DEF Deliveries
    <2> QED BY <2>3, <2>4
  <1>6. ASSUME NEW w \in Workers, RejectBlock(w) \/ FailAttempt(w) PROVE Deliveries(j)'
    <2>1. /\ worker[w].pc \in {"draw", "insert"} /\ UNCHANGED chain
          /\ Report(w, AfterFailure(worker[w].job))
      BY <1>6 DEF RejectBlock, FailAttempt
    <2>2. At(w) = worker[w].job /\ At(w)' = NoJob /\ \A u \in Workers \ {w} : At(u)' = At(u)
      BY <1>0, <2>1, NullRecords DEF Report, At, Appending
    <2>3. CASE job[At(w)].holder = w /\ At(w) = j
      <3>1. job'[j].stalled = job[j].stalled
        BY <1>0, <2>1, <2>2, <2>3 DEF Report, AfterFailure, JobRecord
      <3> QED BY <1>0, <2>1, <2>2, <2>3, <3>1, DeliveriesLeft
    <2>4. CASE ~(job[At(w)].holder = w /\ At(w) = j)
      <3>1. job'[j] = job[j]
        BY <1>0, <2>1, <2>2, <2>4 DEF Report
      <3> QED BY <1>0, <2>1, <2>2, <3>1, DeliveriesLeft
    <2> QED BY <2>3, <2>4
  <1>7. ASSUME NEW w \in Workers, CompleteJob(w) PROVE Deliveries(j)'
    <2> DEFINE r == [job[worker[w].job] EXCEPT !.status = "done", !.holder = NoWorker]
    <2>1. worker[w].pc = "ack" /\ UNCHANGED chain /\ Report(w, r)
      BY <1>7 DEF CompleteJob
    <2>2. \A u \in Workers : At(u)' = At(u)
      BY <1>0, <2>1, NullRecords DEF Report, At, Appending
    <2>3. worker[w].job = j => r.status = "done" /\ r.stalled = job[j].stalled
      BY <1>0 DEF JobRecord
    <2> HIDE DEF r
    <2>4. job'[j] = job[j] \/ (worker[w].job = j /\ job'[j] = r)
      BY <1>0, <2>1 DEF Report
    <2>5. /\ job'[j].stalled = job[j].stalled
          /\ job'[j].status \in {"new", "waiting"} => job[j].status \in {"new", "waiting"}
      BY <2>3, <2>4
    <2> QED BY <1>0, <2>1, <2>2, <2>5, DeliveriesKept
  <1>8. ASSUME NEW w \in Workers, Crash(w) PROVE Deliveries(j)'
    <2>1. UNCHANGED chain /\ worker' = [worker EXCEPT ![w] = Idle]
      BY <1>8 DEF Crash
    <2>2. At(w)' = NoJob /\ \A u \in Workers \ {w} : At(u)' = At(u)
      BY <1>0, <2>1, NullRecords DEF At, Appending
    <2>3. \/ job' = job
          \/ worker[w].job \in Jobs /\ job[worker[w].job].holder = w
             /\ job' = [job EXCEPT ![worker[w].job].holder = NoWorker]
      BY <1>0, <1>8 DEF Crash, QueueOK
    <2>4. job'[j].stalled = job[j].stalled /\ job'[j].status = job[j].status
      BY <1>0, <2>3 DEF JobRecord
    <2> QED BY <1>0, <2>1, <2>2, <2>4, DeliveriesLeft
  <1>9. ASSUME NEW w \in Workers, LockLapses(w) PROVE Deliveries(j)'
    <2>1. job'[j].stalled = job[j].stalled /\ job'[j].status = job[j].status
      BY <1>0, <1>9 DEF LockLapses, JobRecord, QueueOK
    <2>2. UNCHANGED chain /\ \A u \in Workers : At(u)' = At(u)
      BY <1>9 DEF LockLapses, At, Appending
    <2> QED BY <1>0, <2>1, <2>2, DeliveriesKept
  <1>10. ASSUME NEW s \in Scopes,
                LoseCounter(s) \/ ReadStatus(s) \/ PassGate(s) \/ RefuseGate(s) \/ DayPasses(s)
         PROVE  Deliveries(j)'
    BY <1>10, <1>s DEF LoseCounter, ReadStatus, PassGate, RefuseGate, Answer, DayPasses, queueVars
  <1>11. ASSUME Bootstrap PROVE Deliveries(j)'
    BY <1>11, <1>s DEF Bootstrap
  <1>12. ASSUME NEW v \in Verifiers, Verification(v) PROVE Deliveries(j)'
    BY <1>12, <1>s DEF Verification, ForceFull, Verify, Throttle, ReadMarker, ScanBlock, EndScan,
                       MarkVerified, MarkBroken, queueVars
  <1>13. CASE UNCHANGED vars
    BY <1>13, <1>s DEF vars
  <1> QED
    BY <1>1, <1>2, <1>3, <1>4, <1>5, <1>6, <1>7, <1>8, <1>9, <1>10, <1>11, <1>12, <1>13
       DEF Next, Run, Trouble

\* Blocks, attempts in flight and deliveries waited for never exceed the deliveries,
\* with any number of workers, lapsed locks and crashes.
THEOREM DeliveryInvariant == Spec => []DeliveryInv
  <1>1. Init => DeliveryInv
    BY DeliveryInit
  <1>2. TypeOK /\ DeliveryInv /\ [Next]_vars => DeliveryInv'
    BY DeliveryStep
  <1> QED BY <1>1, <1>2, TypeCorrect, PTL DEF Spec

\* A job has one block for each time the queue delivered it, and no more.
THEOREM DeliveredOnce == Spec => []OneBlockPerDelivery
  <1>1. TypeOK /\ DeliveryInv => OneBlockPerDelivery
    <2> SUFFICES ASSUME TypeOK, DeliveryInv, NEW j \in Jobs
                 PROVE  Cardinality(Blocks(j)) <= 1 + job[j].stalled
      BY DEF OneBlockPerDelivery, Blocks
    <2>1. /\ Cardinality(Blocks(j)) \in Nat /\ Cardinality(InFlight(j)) \in Nat /\ job[j].stalled \in Nat
          /\ Deliveries(j)
      BY FS_CardinalityType DEF DeliveryInv, Deliveries, TypeOK, JobRecord
    <2> QED BY <2>1 DEF Deliveries
  <1> QED BY <1>1, TypeCorrect, DeliveryInvariant, PTL

-----------------------------------------------------------------------------
(* One worker appends and no counter is lost: the chain is linked.         *)

\* The counters are not behind the chain.
NumbersCounted ==
    \A b \in chain : b.seq[Global] > 0 /\ \A s \in Scopes : b.seq[s] <= counter[s]

\* The numbers a worker has drawn are those of scopes of its job, and beyond all
\* in the chain.
DrawnAhead ==
    \A w \in Workers : Appending(w) => \A s \in Scopes :
        /\ worker[w].seq[s] <= counter[s]
        /\ worker[w].seq[s] > 0 =>
              s \in ScopesOf[worker[w].job] /\ \A b \in chain : b.seq[s] < worker[w].seq[s]

\* The heads a worker has read are still the heads when it inserts.
HeadsRead ==
    \A w \in Workers : worker[w].pc = "insert" =>
        \A s \in ScopesOf[worker[w].job] : worker[w].seq[s] > 0 /\ IsHead(s, worker[w].prev[s])

\* In every scope each block links to the one before it.
Linked == \A s \in Scopes : \A b \in Within(s) : LinkedIn(s, b)

\* The inductive invariant behind ChainLinked.
AppendInv == losses = 0 => NumbersCounted /\ DrawnAhead /\ HeadsRead /\ Linked

\* One process runs the audit processor: with two, blocks do not link (the run
\* AuditWorkers).
OneWorker == \A u, w \in Workers : u = w

\* What a worker at the insert adds to the chain.
LEMMA InsertLinks ==
    ASSUME TypeOK, AppendInv, losses = 0, OneWorker, NEW w \in Workers, InsertBlock(w)
    PROVE  /\ NewBlock(w) \in Block /\ NewBlock(w).seq = worker[w].seq
           /\ \A s \in Scopes : NewBlock(w).seq[s] > 0 => \A b \in chain : b.seq[s] < NewBlock(w).seq[s]
           /\ NumbersCounted' /\ DrawnAhead' /\ HeadsRead' /\ Linked'
  <1> DEFINE n == NewBlock(w)
  <1>0. /\ worker \in [Workers -> Append] /\ chain \subseteq Block /\ counter \in Numbers /\ QueueOK
        /\ worker[w].pc = "insert" /\ Appending(w)
        /\ NumbersCounted /\ DrawnAhead /\ HeadsRead /\ Linked
    BY DEF TypeOK, AppendInv, InsertBlock, Appending
  <1>1. /\ n \in Block /\ n.seq = worker[w].seq /\ n.prev = worker[w].prev /\ n.job = worker[w].job
        /\ worker[w].job \in Jobs
    BY <1>0 DEF NewBlock, Append, Block, QueueOK
  <1>2. /\ ScopesOf[worker[w].job] \subseteq Scopes /\ Global \in ScopesOf[worker[w].job]
    BY <1>1, ScopesAssumption
  <1>n. /\ \A b \in chain, s \in Scopes : b.seq[s] \in Nat /\ b.prev[s] \in Nat /\ Hash(b) \in Nat
        /\ \A s \in Scopes : n.seq[s] \in Nat /\ n.prev[s] \in Nat /\ counter[s] \in Nat
    BY <1>0, <1>1, ScopesAssumption DEF Block, Numbers, Hash
  <1>3. \A s \in Scopes : n.seq[s] > 0 => \A b \in chain : b.seq[s] < n.seq[s]
    BY <1>0, <1>1 DEF DrawnAhead
  <1>4. /\ chain' = chain \cup {n} /\ counter' = counter
        /\ \A u \in Workers : worker'[u].pc = "ack"
    BY <1>0 DEF InsertBlock, OneWorker, Append
  <1> HIDE DEF n
  <1>5. NumbersCounted'
    <2>1. n.seq[Global] > 0 /\ \A s \in Scopes : n.seq[s] <= counter[s]
      BY <1>0, <1>1, <1>2 DEF HeadsRead, DrawnAhead
    <2> QED BY <1>0, <1>4, <2>1 DEF NumbersCounted
  <1>6. DrawnAhead' /\ HeadsRead'
    BY <1>4 DEF DrawnAhead, HeadsRead, Appending
  <1>7. Linked'
    <2> SUFFICES ASSUME NEW s \in Scopes, NEW b \in Within(s)' PROVE LinkedIn(s, b)'
      BY DEF Linked
    <2>1. CASE b \in chain
      <3>1. b \in Within(s) /\ LinkedIn(s, b)
        BY <1>0, <2>1 DEF Within, Linked
      <3>2. Previous(s, b)' = Previous(s, b)
        BY <1>3, <1>4, <1>n, <2>1 DEF Previous, Within
      <3> QED BY <3>1, <3>2 DEF LinkedIn, Hash
    <2>2. CASE b \notin chain
      <3>1. b = n /\ n.seq[s] > 0
        BY <1>4, <2>2 DEF Within
      <3>2. Previous(s, b)' = Within(s)
        BY <1>3, <1>4, <1>n, <3>1 DEF Previous, Within
      <3>3. s \in ScopesOf[worker[w].job] /\ IsHead(s, b.prev[s])
        BY <1>0, <1>1, <3>1 DEF DrawnAhead, HeadsRead
      <3> QED BY <3>2, <3>3 DEF LinkedIn, IsHead, Hash
    <2> QED BY <2>1, <2>2
  <1> QED BY <1>1, <1>3, <1>5, <1>6, <1>7 DEF n

\* A step that leaves the chain, the counters and the appends alone.
LEMMA AppendUnchanged ==
    ASSUME AppendInv, UNCHANGED <<chain, counter, worker, losses>>
    PROVE  AppendInv'
  BY DEF AppendInv, NumbersCounted, DrawnAhead, HeadsRead, Linked, Appending, LinkedIn, Previous,
         Within, IsHead, Hash

\* A step that ends the attempt of a worker.
LEMMA AppendEnds ==
    ASSUME TypeOK, AppendInv, UNCHANGED <<chain, counter, losses>>, NEW w \in Workers,
           worker' = [worker EXCEPT ![w] = Idle]
    PROVE  AppendInv'
  <1>1. \A u \in Workers : worker'[u] = worker[u] \/ worker'[u].pc = "idle"
    BY NullRecords DEF TypeOK
  <1> QED
    BY <1>1 DEF AppendInv, NumbersCounted, DrawnAhead, HeadsRead, Linked, Appending, LinkedIn, Previous,
           Within, IsHead, Hash

\* The empty chain is linked.
LEMMA AppendInit == Init => AppendInv
  BY DEF Init, AppendInv, NumbersCounted, DrawnAhead, HeadsRead, Linked, Appending, Within, Idle

\* Each step of one worker, and of all others, preserves AppendInv.
LEMMA AppendStep == OneWorker /\ TypeOK /\ AppendInv /\ [Next]_vars => AppendInv'
  <1> SUFFICES ASSUME OneWorker, TypeOK, AppendInv, [Next]_vars PROVE AppendInv'
    OBVIOUS
  <1>0. /\ worker \in [Workers -> Append] /\ chain \subseteq Block /\ counter \in Numbers /\ QueueOK
        /\ \A s \in Scopes : counter[s] \in Nat
        /\ \A b \in chain, s \in Scopes : b.seq[s] \in Nat
    BY DEF TypeOK, Block, Numbers
  <1>1. ASSUME NEW w \in Workers, NEW j \in Jobs, Take(w, j) PROVE AppendInv'
    <2>1. /\ UNCHANGED <<chain, counter, losses>>
          /\ worker' = [worker EXCEPT ![w] = [Idle EXCEPT !.pc = "draw", !.job = j]]
      BY <1>1 DEF Take, boundVars
    <2>2. \A u \in Workers : \/ worker'[u] = worker[u]
                             \/ worker'[u].pc = "draw" /\ worker'[u].seq = [s \in Scopes |-> 0]
      BY <1>0, <2>1 DEF Idle
    <2> SUFFICES ASSUME losses = 0 PROVE NumbersCounted' /\ DrawnAhead' /\ HeadsRead' /\ Linked'
      BY <2>1 DEF AppendInv
    <2>4. DrawnAhead'
      <3> SUFFICES ASSUME NEW u \in Workers, Appending(u)', NEW s \in Scopes
                   PROVE  /\ worker'[u].seq[s] <= counter[s]
                          /\ worker'[u].seq[s] > 0 =>
                                s \in ScopesOf[worker'[u].job] /\ \A b \in chain : b.seq[s] < worker'[u].seq[s]
        BY <2>1 DEF DrawnAhead
      <3>1. CASE worker'[u] = worker[u]
        BY <3>1 DEF AppendInv, DrawnAhead, Appending
      <3>2. CASE worker'[u].seq = [x \in Scopes |-> 0]
        BY <1>0, <3>2
      <3> QED BY <2>2, <3>1, <3>2
    <2>5. HeadsRead'
      BY <2>1, <2>2 DEF AppendInv, HeadsRead, IsHead, Within, Hash
    <2> QED BY <2>1, <2>4, <2>5 DEF AppendInv, NumbersCounted, Linked, LinkedIn, Previous, Within, Hash
  <1>2. ASSUME NEW w \in Workers, NEW s \in Scopes, DrawSequence(w, s) PROVE AppendInv'
    <2>1. /\ UNCHANGED <<chain, losses>> /\ worker[w].pc = "draw" /\ s \in ScopesOf[worker[w].job]
          /\ counter' = [counter EXCEPT ![s] = @ + 1]
          /\ worker' = [worker EXCEPT ![w].seq[s] = counter[s] + 1]
      BY <1>2 DEF DrawSequence, boundVars
    <2> SUFFICES ASSUME losses = 0 PROVE NumbersCounted' /\ DrawnAhead' /\ HeadsRead' /\ Linked'
      BY <2>1 DEF AppendInv
    <2>2. \A x \in Scopes : counter'[x] = IF x = s THEN counter[s] + 1 ELSE counter[x]
      BY <1>0, <2>1 DEF Numbers
    <2>3. NumbersCounted'
      BY <1>0, <2>1, <2>2 DEF AppendInv, NumbersCounted
    <2>4. /\ worker'[w].pc = "draw" /\ worker'[w].job = worker[w].job
          /\ \A x \in Scopes : worker'[w].seq[x] = IF x = s THEN counter[s] + 1 ELSE worker[w].seq[x]
          /\ \A u \in Workers : u = w
      BY <1>0, <2>1 DEF Append, Numbers, OneWorker
    <2>5. DrawnAhead'
      <3> SUFFICES ASSUME NEW x \in Scopes
                   PROVE  /\ worker'[w].seq[x] <= counter'[x]
                          /\ worker'[w].seq[x] > 0 =>
                                x \in ScopesOf[worker'[w].job] /\ \A b \in chain : b.seq[x] < worker'[w].seq[x]
        BY <2>1, <2>4 DEF DrawnAhead
      <3>1. CASE x = s
        <4>1. \A b \in chain : b.seq[s] <= counter[s]
          BY DEF AppendInv, NumbersCounted
        <4> QED BY <1>0, <2>1, <2>2, <2>4, <3>1, <4>1
      <3>2. CASE x # s
        BY <1>0, <2>1, <2>2, <2>4, <3>2 DEF AppendInv, DrawnAhead, Appending
      <3> QED BY <3>1, <3>2
    <2>6. HeadsRead'
      BY <2>4 DEF HeadsRead
    <2> QED BY <2>1, <2>3, <2>5, <2>6 DEF AppendInv, Linked, LinkedIn, Previous, Within, Hash
  <1>3. ASSUME NEW w \in Workers, ReadHeads(w) PROVE AppendInv'
    <2>1. PICK prev \in [Scopes -> Hashes] :
             /\ \A s \in Scopes :
                   IF s \in ScopesOf[worker[w].job] THEN IsHead(s, prev[s]) ELSE prev[s] = 0
             /\ worker' = [worker EXCEPT ![w].prev = prev, ![w].pc = "insert"]
      BY <1>3 DEF ReadHeads
    <2>2. /\ UNCHANGED <<chain, counter, losses>> /\ worker[w].pc = "draw"
          /\ \A s \in ScopesOf[worker[w].job] : worker[w].seq[s] > 0
      BY <1>3 DEF ReadHeads, boundVars
    <2>3. /\ worker'[w].pc = "insert" /\ worker'[w].job = worker[w].job
          /\ worker'[w].seq = worker[w].seq /\ worker'[w].prev = prev
          /\ \A u \in Workers : u = w
      BY <1>0, <2>1 DEF Append, OneWorker
    <2>4. ScopesOf[worker[w].job] \subseteq Scopes
      BY <1>0, <2>2, ScopesAssumption DEF QueueOK
    <2> SUFFICES ASSUME losses = 0 PROVE NumbersCounted' /\ DrawnAhead' /\ HeadsRead' /\ Linked'
      BY <2>2 DEF AppendInv
    <2>5. HeadsRead'
      BY <2>1, <2>2, <2>3, <2>4 DEF HeadsRead, IsHead, Within, Hash
    <2>6. DrawnAhead'
      BY <2>2, <2>3 DEF AppendInv, DrawnAhead, Appending
    <2> QED BY <2>2, <2>5, <2>6 DEF AppendInv, NumbersCounted, Linked, LinkedIn, Previous, Within, Hash
  <1>4. ASSUME NEW w \in Workers, RereadHeads(w) PROVE AppendInv'
    <2>1. /\ UNCHANGED <<chain, counter, losses>> /\ worker[w].pc = "insert"
          /\ worker'[w].pc = "draw" /\ worker'[w].job = worker[w].job
          /\ worker'[w].seq = worker[w].seq /\ \A u \in Workers : u = w
      BY <1>0, <1>4 DEF RereadHeads, Append, OneWorker
    <2> SUFFICES ASSUME losses = 0 PROVE NumbersCounted' /\ DrawnAhead' /\ HeadsRead' /\ Linked'
      BY <2>1 DEF AppendInv
    <2>2. HeadsRead' /\ DrawnAhead'
      BY <2>1 DEF AppendInv, DrawnAhead, HeadsRead, Appending
    <2> QED BY <2>1, <2>2 DEF AppendInv, NumbersCounted, Linked, LinkedIn, Previous, Within, Hash
  <1>5. ASSUME NEW w \in Workers, InsertBlock(w) PROVE AppendInv'
    BY <1>5, InsertLinks DEF AppendInv, InsertBlock, boundVars
  <1>6. ASSUME NEW w \in Workers, RejectBlock(w) \/ FailAttempt(w) \/ CompleteJob(w) \/ Crash(w)
        PROVE  AppendInv'
    <2>1. worker' = [worker EXCEPT ![w] = Idle] /\ UNCHANGED <<chain, counter, losses>>
      BY <1>6 DEF RejectBlock, FailAttempt, CompleteJob, Crash, Report, boundVars
    <2> QED BY <2>1, AppendEnds
  <1>7. CASE Bootstrap
    <2>1. losses # 0
      BY <1>0, <1>7, ScopesAssumption DEF Bootstrap, AppendInv, NumbersCounted
    <2> QED BY <1>7, <2>1 DEF Bootstrap, AppendInv, boundVars
  <1>8. ASSUME NEW s \in Scopes, LoseCounter(s) PROVE AppendInv'
    <2>1. losses \in Nat /\ losses' = losses + 1
      BY <1>8, BoundsAssumption DEF LoseCounter, TypeOK
    <2> QED BY <2>1 DEF AppendInv
  <1>9. ASSUME NEW j \in Jobs, AppendChain(j) \/ StallCheck(j) PROVE AppendInv'
    BY <1>9, AppendUnchanged DEF AppendChain, StallCheck, boundVars
  <1>10. ASSUME NEW w \in Workers, LockLapses(w) PROVE AppendInv'
    BY <1>10, AppendUnchanged DEF LockLapses
  <1>11. ASSUME NEW s \in Scopes, ReadStatus(s) \/ PassGate(s) \/ RefuseGate(s) \/ DayPasses(s)
         PROVE  AppendInv'
    BY <1>11, AppendUnchanged
       DEF ReadStatus, PassGate, RefuseGate, Answer, DayPasses, queueVars, boundVars
  <1>12. ASSUME NEW v \in Verifiers, Verification(v) PROVE AppendInv'
    BY <1>12, AppendUnchanged
       DEF Verification, ForceFull, Verify, Throttle, ReadMarker, ScanBlock, EndScan,
           MarkVerified, MarkBroken, queueVars, boundVars
  <1>13. CASE UNCHANGED vars
    BY <1>13, AppendUnchanged DEF vars
  <1> QED
    BY <1>1, <1>2, <1>3, <1>4, <1>5, <1>6, <1>7, <1>8, <1>9, <1>10, <1>11, <1>12, <1>13
       DEF Next, Run, Trouble

\* With one worker and no counter lost, the numbers drawn are beyond the chain and
\* the heads read are the heads.
THEOREM AppendInvariant == ASSUME OneWorker PROVE Spec => []AppendInv
  <1>1. Init => AppendInv
    BY AppendInit
  <1>2. TypeOK /\ AppendInv /\ [Next]_vars => AppendInv'
    BY AppendStep
  <1> QED BY <1>1, <1>2, TypeCorrect, PTL DEF Spec

\* With one worker and no counter lost each block links to the one before it,
\* whatever is retried, redelivered or crashes.
THEOREM ChainIsLinked == ASSUME OneWorker PROVE Spec => []ChainLinked
  <1>1. AppendInv => ChainLinked
    BY DEF AppendInv, Linked, ChainLinked
  <1> QED BY <1>1, AppendInvariant, PTL

-----------------------------------------------------------------------------
(* No false alarm.                                                         *)

\* Until something fails, each number drawn is that of a block or of the append
\* the worker is at.
NumbersUsed ==
    faults = 0 => \A s \in Scopes : \A n \in 1..counter[s] :
        \/ \E b \in chain : b.seq[s] = n
        \/ \E w \in Workers : Appending(w) /\ worker[w].seq[s] = n

\* A scan that knows what the next block must link to knows the hash of the block
\* it stands at, or the genesis hash.
Aligned(v) ==
    scan[v].pc = "scan" /\ scan[v].expect # {} =>
        IF scan[v].pos = 0 THEN scan[v].expect = {0}
        ELSE /\ \E c \in chain : c.seq[scan[v].scope] = scan[v].pos
             /\ \A c \in chain : c.seq[scan[v].scope] = scan[v].pos => Hash(c) \in scan[v].expect

\* The inductive invariant behind NoFalseAlarm.
AlarmInv ==
    losses = 0 =>
        /\ NumbersUsed
        /\ \A v \in Verifiers : Aligned(v) /\ (scan[v].pc = "broken" => Hole(scan[v].scope))

\* A number missing below a block takes a failed or interrupted attempt.
LEMMA HoleBlamed ==
    ASSUME TypeOK, AppendInv, AlarmInv, losses = 0, NEW s \in Scopes, Hole(s)
    PROVE  faults > 0
  <1>1. PICK b \in Within(s), n \in Missing(s) : n < b.seq[s]
    BY DEF Hole
  <1>2. n \in 1..counter[s] /\ n \in Nat /\ b \in chain /\ b.seq[s] \in Nat /\ n > 0
    BY <1>1 DEF Missing, Within, TypeOK, Numbers, Block
  <1>3. \A c \in chain : c.seq[s] # n
    BY <1>1 DEF Missing
  <1>4. \A w \in Workers : Appending(w) => worker[w].seq[s] # n
    <2> SUFFICES ASSUME NEW w \in Workers, Appending(w), worker[w].seq[s] = n PROVE FALSE
      OBVIOUS
    <2>1. b.seq[s] < n
      BY <1>2 DEF AppendInv, DrawnAhead
    <2> QED BY <1>1, <1>2, <2>1
  <1>5. faults # 0
    BY <1>2, <1>3, <1>4 DEF AlarmInv, NumbersUsed
  <1> QED BY <1>5, BoundsAssumption DEF TypeOK

\* A block that does not follow the one before it in a scan tells of a hole.
LEMMA BreakTellsOfHole ==
    ASSUME TypeOK, AppendInv, AlarmInv, losses = 0, NEW v \in Verifiers, scan[v].pc = "scan",
           NEW b \in Beyond(v), \A c \in Beyond(v) : b.seq[scan[v].scope] <= c.seq[scan[v].scope],
           ~Follows(v, b)
    PROVE  Hole(scan[v].scope)
  <1> DEFINE s == scan[v].scope
             p == scan[v].pos
  <1>0. /\ s \in Scopes /\ p \in Nat /\ b \in chain /\ b.seq[s] > p
        /\ \A c \in chain : c.seq[s] \in Nat /\ Hash(c) \in Nat
        /\ counter[s] \in Nat
    BY ScopesAssumption DEF TypeOK, Scan, Beyond, Block, Numbers, Hash
  <1>1. \A c \in chain : c.seq[s] <= p \/ b.seq[s] <= c.seq[s]
    BY <1>0 DEF Beyond
  <1>2. NumbersCounted /\ Linked /\ Aligned(v)
    BY DEF AppendInv, AlarmInv
  <1>3. CASE b.seq[s] # p + 1
    <2>1. p + 1 \in Missing(s)
      <3>1. p + 1 \in 1..counter[s]
        BY <1>0, <1>2, <1>3 DEF NumbersCounted
      <3>2. \A c \in chain : c.seq[s] # p + 1
        BY <1>0, <1>1, <1>3
      <3> QED BY <3>1, <3>2 DEF Missing
    <2>2. b \in Within(s) /\ p + 1 < b.seq[s]
      BY <1>0, <1>3 DEF Within
    <2> QED BY <2>1, <2>2 DEF Hole
  <1>4. CASE b.seq[s] = p + 1
    <2>1. scan[v].expect # {} /\ b.prev[s] \notin scan[v].expect
      BY <1>4 DEF Follows
    <2>2. b \in Within(s) /\ LinkedIn(s, b)
      BY <1>0, <1>2, <1>4 DEF Within, Linked
    <2>3. \A c \in chain : c \in Previous(s, b) <=> (c.seq[s] > 0 /\ c.seq[s] <= p)
      BY <1>0, <1>4 DEF Previous, Within
    <2>4. CASE p = 0
      <3>1. Previous(s, b) = {}
        BY <1>0, <2>3, <2>4 DEF Previous, Within
      <3>2. b.prev[s] = 0 /\ scan[v].expect = {0}
        BY <1>2, <2>1, <2>2, <2>4, <3>1 DEF LinkedIn, Aligned
      <3> QED BY <2>1, <3>2
    <2>5. CASE p # 0
      <3>1. /\ \E c \in chain : c.seq[s] = p
            /\ \A c \in chain : c.seq[s] = p => Hash(c) \in scan[v].expect
        BY <1>2, <2>1, <2>5 DEF Aligned
      <3>2. PICK d \in chain : d.seq[s] = p
        BY <3>1
      <3>3. d \in Previous(s, b)
        BY <1>0, <2>3, <2>5, <3>2
      <3>4. PICK c \in Previous(s, b) : b.prev[s] = Hash(c) /\ d.seq[s] <= c.seq[s]
        BY <2>2, <3>3 DEF LinkedIn
      <3>5. c \in chain /\ c.seq[s] = p
        BY <1>0, <2>3, <3>2, <3>4 DEF Previous, Within
      <3> QED BY <2>1, <3>1, <3>4, <3>5
    <2> QED BY <2>4, <2>5
  <1> QED BY <1>3, <1>4

\* A step of the verifications only.
LEMMA AlarmScan ==
    ASSUME TypeOK, AlarmInv, UNCHANGED <<queueVars, chain, boundVars>>, NEW v \in Verifiers, NEW r,
           scan' = [scan EXCEPT ![v] = r],
           losses = 0 => Aligned(v)' /\ (r.pc = "broken" => Hole(r.scope))
    PROVE  AlarmInv'
  <1> SUFFICES ASSUME losses = 0
               PROVE  NumbersUsed' /\ \A u \in Verifiers :
                         Aligned(u)' /\ (scan'[u].pc = "broken" => Hole(scan[u].scope)')
    BY DEF AlarmInv, boundVars
  <1>1. NumbersUsed'
    BY DEF AlarmInv, NumbersUsed, Appending, queueVars, boundVars
  <1>2. \A s : Hole(s)' <=> Hole(s)
    BY DEF Hole, Missing, Within, queueVars
  <1>3. scan'[v] = r
    BY DEF TypeOK
  <1>4. ASSUME NEW u \in Verifiers, u # v
        PROVE  Aligned(u)' /\ (scan'[u].pc = "broken" => Hole(scan[u].scope)')
    <2>1. scan'[u] = scan[u]
      BY <1>4 DEF TypeOK
    <2>2. Aligned(u) /\ (scan[u].pc = "broken" => Hole(scan[u].scope))
      BY DEF AlarmInv
    <2> QED BY <1>2, <2>1, <2>2 DEF Aligned, Hash
  <1>5. scan'[v].pc = "broken" => Hole(scan[v].scope)'
    BY <1>2, <1>3
  <1> QED BY <1>1, <1>3, <1>4, <1>5

\* A step that leaves the scans alone, and under which holes stay and the blocks
\* scans stand at remain.
LEMMA AlarmAppend ==
    ASSUME TypeOK, AlarmInv, UNCHANGED scan, losses' = 0 => losses = 0,
           losses' = 0 => NumbersUsed',
           losses' = 0 => \A s \in Scopes : Hole(s) => Hole(s)',
           chain \subseteq chain',
           losses' = 0 => \A s \in Scopes, b \in chain' \ chain, c \in chain :
                              b.seq[s] = c.seq[s] => b.seq[s] = 0
    PROVE  AlarmInv'
  <1> SUFFICES ASSUME losses' = 0, NEW v \in Verifiers
               PROVE  Aligned(v)' /\ (scan[v].pc = "broken" => Hole(scan[v].scope)')
    BY DEF AlarmInv
  <1>1. scan[v].scope \in Scopes /\ scan[v].pos \in Nat
    BY DEF TypeOK, Scan
  <1>2. Aligned(v) /\ (scan[v].pc = "broken" => Hole(scan[v].scope))
    BY DEF AlarmInv
  <1>3. scan[v].pc = "broken" => Hole(scan[v].scope)'
    <2>1. ASSUME NEW s \in Scopes, s = scan[v].scope, scan[v].pc = "broken" PROVE Hole(s)'
      BY <1>2, <2>1
    <2> QED BY <1>1, <2>1 DEF Hole, Missing, Within
  <1>4. Aligned(v)'
    <2> SUFFICES ASSUME scan[v].pc = "scan", scan[v].expect # {}, scan[v].pos # 0
                 PROVE  /\ \E c \in chain' : c.seq[scan[v].scope] = scan[v].pos
                        /\ \A c \in chain' : c.seq[scan[v].scope] = scan[v].pos => Hash(c) \in scan[v].expect
      BY <1>2 DEF Aligned, Hash
    <2>1. /\ \E c \in chain : c.seq[scan[v].scope] = scan[v].pos
          /\ \A c \in chain : c.seq[scan[v].scope] = scan[v].pos => Hash(c) \in scan[v].expect
      BY <1>2 DEF Aligned
    <2> QED BY <1>1, <2>1
  <1> QED BY <1>3, <1>4

\* Nothing is drawn or scanned initially.
LEMMA AlarmInit == Init => AlarmInv
  <1> SUFFICES ASSUME Init PROVE AlarmInv OBVIOUS
  <1>1. NumbersUsed
    BY DEF Init, NumbersUsed
  <1>2. \A v \in Verifiers : scan[v].pc = "idle"
    BY NullRecords DEF Init
  <1> QED BY <1>1, <1>2 DEF AlarmInv, Aligned

\* Each step preserves AlarmInv.
LEMMA AlarmStep ==
    OneWorker /\ TypeOK /\ NumbersUnique /\ AppendInv /\ AlarmInv /\ [Next]_vars => AlarmInv'
  <1> SUFFICES ASSUME OneWorker, TypeOK, NumbersUnique, AppendInv, AlarmInv, [Next]_vars PROVE AlarmInv'
    OBVIOUS
  <1>0. /\ worker \in [Workers -> Append] /\ chain \subseteq Block /\ counter \in Numbers /\ QueueOK
        /\ \A s \in Scopes : counter[s] \in Nat
        /\ \A b \in chain, s \in Scopes : b.seq[s] \in Nat
        /\ scan \in [Verifiers -> Scan] /\ marker \in [Scopes -> Marker]
        /\ faults \in Nat /\ losses \in Nat
    BY BoundsAssumption DEF TypeOK, Block, Numbers
  <1>u. UNCHANGED <<chain, counter>> => \A s : Hole(s) => Hole(s)'
    BY DEF Hole, Missing, Within
  <1>1. ASSUME NEW w \in Workers, NEW j \in Jobs, Take(w, j) PROVE AlarmInv'
    <2>1. /\ UNCHANGED <<chain, counter, losses, faults, scan>> /\ worker[w].pc = "idle"
          /\ \A u \in Workers \ {w} : worker'[u] = worker[u]
      BY <1>0, <1>1 DEF Take, boundVars, verifyVars
    <2>2. losses = 0 => NumbersUsed'
      BY <2>1 DEF AlarmInv, NumbersUsed, Appending
    <2> QED BY <1>u, <2>1, <2>2, AlarmAppend
  <1>2. ASSUME NEW w \in Workers, NEW s \in Scopes, DrawSequence(w, s) PROVE AlarmInv'
    <2>1. /\ UNCHANGED <<chain, losses, faults, scan>> /\ worker[w].pc = "draw" /\ worker[w].seq[s] = 0
          /\ counter' = [counter EXCEPT ![s] = @ + 1]
          /\ worker' = [worker EXCEPT ![w].seq[s] = counter[s] + 1]
      BY <1>2 DEF DrawSequence, boundVars, verifyVars
    <2>2. \A x \in Scopes : counter'[x] = IF x = s THEN counter[s] + 1 ELSE counter[x]
      BY <1>0, <2>1 DEF Numbers
    <2>3. /\ worker'[w].pc = "draw"
          /\ \A x \in Scopes : worker'[w].seq[x] = IF x = s THEN counter[s] + 1 ELSE worker[w].seq[x]
          /\ \A u \in Workers : u = w
      BY <1>0, <2>1 DEF Append, Numbers, OneWorker
    <2>4. ASSUME losses = 0 PROVE NumbersUsed'
      <3> SUFFICES ASSUME faults = 0, NEW x \in Scopes, NEW n \in 1..counter'[x],
                          \A b \in chain : b.seq[x] # n
                   PROVE  worker'[w].seq[x] = n
        BY <2>1, <2>3 DEF NumbersUsed, Appending
      <3>1. n \in 1..counter[x] => worker[w].seq[x] = n
        BY <2>3, <2>4 DEF AlarmInv, NumbersUsed
      <3>2. n \in Nat /\ n > 0 /\ n <= counter'[x] /\ counter'[x] \in Nat
        BY <1>0, <2>2
      <3> QED BY <1>0, <2>1, <2>2, <2>3, <3>1, <3>2
    <2>5. \A x \in Scopes : Hole(x) => Hole(x)'
      <3> SUFFICES ASSUME NEW x \in Scopes PROVE Missing(x) \subseteq Missing(x)'
        BY <2>1 DEF Hole, Within
      <3> QED BY <1>0, <2>1, <2>2 DEF Missing
    <2> QED BY <2>1, <2>4, <2>5, AlarmAppend
  <1>3. ASSUME NEW w \in Workers, ReadHeads(w) \/ RereadHeads(w) PROVE AlarmInv'
    <2>1. /\ UNCHANGED <<chain, counter, losses, scan>> /\ worker'[w].seq = worker[w].seq
          /\ worker'[w].pc \in {"draw", "insert"} /\ \A u \in Workers \ {w} : worker'[u] = worker[u]
      BY <1>0, <1>3 DEF ReadHeads, RereadHeads, Append, boundVars, verifyVars
    <2>2. faults' = 0 => faults = 0
      BY <1>0, <1>3 DEF ReadHeads, RereadHeads, Fault, boundVars
    <2>3. losses = 0 => NumbersUsed'
      BY <2>1, <2>2 DEF AlarmInv, NumbersUsed, Appending
    <2> QED BY <1>u, <2>1, <2>3, AlarmAppend
  <1>4. ASSUME NEW w \in Workers, InsertBlock(w) PROVE AlarmInv'
    <2>1. /\ chain' = chain \cup {NewBlock(w)} /\ UNCHANGED <<counter, losses, faults, scan>>
      BY <1>4 DEF InsertBlock, boundVars, verifyVars
    <2>2. ASSUME losses = 0
          PROVE  /\ NewBlock(w) \in Block /\ NewBlock(w).seq = worker[w].seq
                 /\ \A s \in Scopes : NewBlock(w).seq[s] > 0 => \A b \in chain : b.seq[s] < NewBlock(w).seq[s]
      BY <1>4, <2>2, InsertLinks
    <2>3. ASSUME losses = 0 PROVE NumbersUsed'
      <3>1. \A u \in Workers : u = w
        BY DEF OneWorker
      <3>2. NumbersUsed
        BY <2>3 DEF AlarmInv
      <3> QED BY <2>1, <2>2, <2>3, <3>1, <3>2 DEF NumbersUsed
    <2>4. ASSUME losses = 0, NEW s \in Scopes, Hole(s) PROVE Hole(s)'
      <3>1. PICK b \in Within(s), n \in Missing(s) : n < b.seq[s]
        BY <2>4 DEF Hole
      <3>2. /\ n \in Nat /\ n > 0 /\ b \in chain /\ b.seq[s] \in Nat /\ NewBlock(w).seq[s] \in Nat
        BY <1>0, <2>2, <2>4, <3>1 DEF Missing, Within, Block, Numbers
      <3>3. NewBlock(w).seq[s] # n
        BY <2>2, <2>4, <3>1, <3>2
      <3>4. n \in Missing(s)' /\ b \in Within(s)'
        BY <2>1, <3>1, <3>3 DEF Missing, Within
      <3> QED BY <3>1, <3>4 DEF Hole
    <2>5. ASSUME losses = 0, NEW s \in Scopes, NEW b \in chain' \ chain, NEW c \in chain,
                 b.seq[s] = c.seq[s]
          PROVE  b.seq[s] = 0
      <3>1. b = NewBlock(w) /\ b.seq[s] \in Nat /\ c.seq[s] \in Nat
        BY <1>0, <2>1, <2>2, <2>5 DEF Block, Numbers
      <3> QED BY <2>2, <2>5, <3>1
    <2> QED BY <2>1, <2>3, <2>4, <2>5, AlarmAppend
  <1>5. ASSUME NEW w \in Workers, RejectBlock(w) PROVE AlarmInv'
    <2>1. UNCHANGED <<chain, counter, losses, scan>> /\ worker[w].pc = "insert" /\ Taken(NewBlock(w))
      BY <1>5 DEF RejectBlock, boundVars, verifyVars
    <2>2. losses # 0
      <3> SUFFICES ASSUME losses = 0 PROVE FALSE
        OBVIOUS
      <3>1. PICK c \in chain, s \in Scopes : worker[w].seq[s] > 0 /\ c.seq[s] = worker[w].seq[s]
        BY <2>1 DEF Taken, NewBlock
      <3>2. c.seq[s] < worker[w].seq[s]
        BY <2>1, <3>1 DEF AppendInv, DrawnAhead, Appending
      <3> QED BY <1>0, <3>1, <3>2
    <2> QED BY <2>1, <2>2 DEF AlarmInv
  <1>6. ASSUME NEW w \in Workers, FailAttempt(w) \/ Crash(w) \/ LockLapses(w) PROVE AlarmInv'
    <2>1. UNCHANGED <<chain, counter, losses, scan>> /\ faults' # 0
      BY <1>0, <1>6 DEF FailAttempt, Crash, LockLapses, Fault, verifyVars
    <2>2. NumbersUsed'
      BY <2>1 DEF NumbersUsed
    <2> QED BY <1>u, <2>1, <2>2, AlarmAppend
  <1>7. ASSUME NEW w \in Workers, CompleteJob(w) PROVE AlarmInv'
    <2>1. /\ UNCHANGED <<chain, counter, losses, faults, scan>> /\ worker[w].pc = "ack"
          /\ \A u \in Workers \ {w} : worker'[u] = worker[u]
      BY <1>0, <1>7 DEF CompleteJob, Report, boundVars, verifyVars
    <2>2. losses = 0 => NumbersUsed'
      BY <2>1 DEF AlarmInv, NumbersUsed, Appending
    <2> QED BY <1>u, <2>1, <2>2, AlarmAppend
  <1>8. ASSUME NEW s \in Scopes, LoseCounter(s) PROVE AlarmInv'
    BY <1>0, <1>8 DEF LoseCounter, AlarmInv
  <1>9. CASE Bootstrap
    <2>1. losses # 0
      BY <1>0, <1>9, ScopesAssumption DEF Bootstrap, AppendInv, NumbersCounted
    <2> QED BY <1>9, <2>1 DEF Bootstrap, AlarmInv, boundVars
  <1>10. ASSUME UNCHANGED <<chain, counter, worker, scan, losses>>, faults' = faults \/ faults' # 0
         PROVE  AlarmInv'
    <2>1. losses = 0 => NumbersUsed'
      BY <1>10 DEF AlarmInv, NumbersUsed, Appending
    <2> QED BY <1>10, <1>u, <2>1, AlarmAppend
  <1>11. ASSUME NEW j \in Jobs, AppendChain(j) \/ StallCheck(j) PROVE AlarmInv'
    BY <1>0, <1>10, <1>11 DEF AppendChain, StallCheck, Fault, boundVars, verifyVars
  <1>12. ASSUME NEW s \in Scopes, ReadStatus(s) \/ PassGate(s) \/ RefuseGate(s) \/ DayPasses(s)
         PROVE  AlarmInv'
    BY <1>10, <1>12 DEF ReadStatus, PassGate, RefuseGate, Answer, DayPasses, queueVars, boundVars, verifyVars
  <1>13. ASSUME NEW v \in Verifiers, NEW r, scan' = [scan EXCEPT ![v] = r],
                r.pc \notin {"scan", "broken"}, UNCHANGED <<queueVars, chain, boundVars>>
         PROVE  AlarmInv'
    <2>1. Aligned(v)'
      BY <1>0, <1>13 DEF Aligned
    <2> QED BY <1>13, <2>1, AlarmScan
  <1>14. ASSUME NEW v \in Verifiers, NEW s \in Scopes, ForceFull(v, s) \/ \E full \in BOOLEAN : Verify(v, s, full)
         PROVE  AlarmInv'
    <2>1. PICK full \in BOOLEAN, label \in {"read", "throttle"} : Begin(v, s, full, label)
      BY <1>14 DEF ForceFull, Verify
    <2> DEFINE r == [NoScan EXCEPT !.pc = label, !.scope = s, !.full = full]
    <2>2. scan' = [scan EXCEPT ![v] = r] /\ r.pc = label
      BY <2>1 DEF Begin, NoScan
    <2>3. UNCHANGED <<queueVars, chain, boundVars>>
      BY <1>14 DEF ForceFull, Verify
    <2> HIDE DEF r
    <2> QED BY <1>13, <2>2, <2>3
  <1>15. ASSUME NEW v \in Verifiers, Throttle(v) \/ EndScan(v) \/ MarkVerified(v) \/ MarkBroken(v)
         PROVE  AlarmInv'
    <2>1. PICK r \in {NoScan, [scan[v] EXCEPT !.pc = "read"], [scan[v] EXCEPT !.pc = "mark"]} :
             scan' = [scan EXCEPT ![v] = r]
      BY <1>15 DEF Throttle, EndScan, MarkVerified, MarkBroken, Goto
    <2>2. r.pc \notin {"scan", "broken"}
      BY <1>0, <2>1, NullRecords DEF Scan
    <2>3. UNCHANGED <<queueVars, chain, boundVars>>
      BY <1>15 DEF Throttle, EndScan, MarkVerified, MarkBroken
    <2> QED BY <1>13, <2>1, <2>2, <2>3
  <1>16. ASSUME NEW v \in Verifiers, ReadMarker(v) PROVE AlarmInv'
    <2> DEFINE s == scan[v].scope
               last == IF scan[v].full THEN 0 ELSE marker[s].last
               r == [scan[v] EXCEPT !.pc = "scan", !.last = last, !.pos = last,
                       !.anchored = Anchored(s, last), !.expect = LinkAfter(s, last)]
    <2>1. scan' = [scan EXCEPT ![v] = r] /\ UNCHANGED <<queueVars, chain, boundVars>>
      BY <1>16 DEF ReadMarker
    <2>2. /\ scan'[v] = r /\ r.pc = "scan" /\ r.scope = s /\ r.pos = last /\ r.expect = LinkAfter(s, last)
      BY <1>0, <2>1 DEF Scan
    <2> HIDE DEF r, last
    <2>3. Aligned(v)'
      BY <2>1, <2>2 DEF Aligned, LinkAfter, Hash
    <2> QED BY <2>1, <2>2, <2>3, AlarmScan
  <1>17. ASSUME NEW v \in Verifiers, ScanBlock(v) PROVE AlarmInv'
    <2> DEFINE s == scan[v].scope
    <2>1. PICK b \in Beyond(v) :
             /\ \A c \in Beyond(v) : b.seq[s] <= c.seq[s]
             /\ IF Follows(v, b)
                THEN scan' = [scan EXCEPT ![v] = [@ EXCEPT !.pos = b.seq[s],
                                 !.anchored = TRUE, !.expect = {Hash(b)}]]
                ELSE Goto(v, "broken")
      BY <1>17 DEF ScanBlock
    <2>2. scan[v].pc = "scan" /\ UNCHANGED <<queueVars, chain, boundVars>>
      BY <1>17 DEF ScanBlock
    <2>3. CASE Follows(v, b)
      <3> DEFINE r == [scan[v] EXCEPT !.pos = b.seq[s], !.anchored = TRUE, !.expect = {Hash(b)}]
      <3>1. scan' = [scan EXCEPT ![v] = r]
        BY <2>1, <2>3
      <3>2. /\ scan'[v] = r /\ r.pc = "scan" /\ r.scope = s /\ r.pos = b.seq[s] /\ r.expect = {Hash(b)}
        BY <1>0, <2>2, <3>1 DEF Scan
      <3> HIDE DEF r
      <3>3. ASSUME losses = 0 PROVE Aligned(v)'
        <4>1. b \in chain /\ b.seq[s] > scan[v].pos /\ scan[v].pos \in Nat /\ s \in Scopes /\ b.seq[s] \in Nat
          BY <1>0 DEF Beyond, Scan
        <4>2. \A c \in chain : c.seq[s] = b.seq[s] => Hash(c) = Hash(b)
          BY <4>1 DEF NumbersUnique
        <4> QED BY <2>2, <3>2, <4>1, <4>2 DEF Aligned, Hash
      <3> QED BY <2>2, <3>1, <3>2, <3>3, AlarmScan
    <2>4. CASE ~Follows(v, b)
      <3> DEFINE r == [scan[v] EXCEPT !.pc = "broken"]
      <3>1. scan' = [scan EXCEPT ![v] = r] /\ r.pc = "broken" /\ r.scope = s
        BY <1>0, <2>1, <2>4 DEF Goto, Scan
      <3>2. losses = 0 => Hole(s)
        BY <2>1, <2>2, <2>4, BreakTellsOfHole
      <3> HIDE DEF r
      <3>3. Aligned(v)'
        BY <1>0, <3>1 DEF Aligned
      <3> QED BY <2>2, <3>1, <3>2, <3>3, AlarmScan
    <2> QED BY <2>3, <2>4
  <1>18. CASE UNCHANGED vars
    BY <1>10, <1>18 DEF vars
  <1> QED
    BY <1>1, <1>2, <1>3, <1>4, <1>5, <1>6, <1>7, <1>8, <1>9, <1>11, <1>12, <1>14, <1>15, <1>16, <1>17, <1>18
       DEF Next, Run, Trouble, Verification

\* With one worker and no counter lost, a number without a block is that of the
\* append in flight or of one that failed, and a scan reports only holes.
THEOREM AlarmInvariant == ASSUME OneWorker PROVE Spec => []AlarmInv
  <1>1. Init => AlarmInv
    BY AlarmInit
  <1>2. TypeOK /\ VouchInv /\ AppendInv /\ AlarmInv /\ [Next]_vars => AlarmInv'
    BY AlarmStep DEF VouchInv
  <1> QED BY <1>1, <1>2, TypeCorrect, VouchInvariant, AppendInvariant, PTL DEF Spec

\* A verification that reports a break tells of a number drawn for a block that
\* nobody stored, and of a failed or interrupted attempt.
THEOREM AlarmsAreTrue == ASSUME OneWorker PROVE Spec => []NoFalseAlarm
  <1>1. TypeOK /\ AppendInv /\ AlarmInv => NoFalseAlarm
    <2> SUFFICES ASSUME TypeOK, AppendInv, AlarmInv, losses = 0,
                        NEW v \in Verifiers, scan[v].pc = "broken"
                 PROVE  Hole(scan[v].scope) /\ faults > 0
      BY DEF NoFalseAlarm
    <2>1. scan[v].scope \in Scopes /\ Hole(scan[v].scope)
      BY DEF TypeOK, Scan, AlarmInv
    <2> QED BY <2>1, HoleBlamed
  <1> QED BY <1>1, TypeCorrect, AppendInvariant, AlarmInvariant, PTL
=============================================================================
