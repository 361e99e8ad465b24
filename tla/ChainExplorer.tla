----------------------------- MODULE ChainExplorer -----------------------------
(***************************************************************************)
(* The page of an audit chain (app/(dashboard)/audit/.../[id]/page.tsx with *)
(* hooks/api/useAudit.ts) and the verifications it starts: a request makes  *)
(* a document in Mongo and a job in the queue, the audit worker runs the    *)
(* job and writes to the document, the page polls the document.             *)
(*                                                                          *)
(* What a verification reads is in AuditChain; here it finds the chain      *)
(* valid, finds it broken, or throws.                                       *)
(***************************************************************************)
EXTENDS Naturals, FiniteSets

CONSTANTS
    Checks,       \* bound: the verifications asked for
    Full,         \* those from genesis, allowed once in 24 hours
    Attempts,     \* attempts of a job before BullMQ gives it up
    MaxStalled,   \* times BullMQ takes a job back from a worker that vanished
    MaxPolls,     \* bound: status requests in flight
    MaxTrouble,   \* bound: crashes, failed writes, lost answers of one check
    NoCheck, NoVerdict, Unread

VARIABLES
    doc,          \* audit_verification_jobs: status and result
    task,         \* the queue: status, attempts, stalls
    desk,         \* what the audit worker is at
    recent,       \* a full verification found the chain valid within 24 hours
    posts,        \* POST verify/start under way
    polls,        \* GET verify/status under way: the check, and what was read
    watched,      \* activeJobId
    jobStatus,    \* the last status the page was told
    integrity,    \* useAudit: the verdict to show meanwhile; localStorage has the same
    rescan,       \* the rescan from genesis under way, or its verdict
    known,        \* auditStatus, read as the page is opened: recent
    trouble       \* faults so far, by check

serverVars == <<doc, task, desk, recent>>
pageVars == <<posts, polls, watched, jobStatus, integrity, rescan, known>>
explorerVars == <<serverVars, pageVars, trouble>>

ASSUME ExplorerAssumption ==
    /\ Full \subseteq Checks /\ NoCheck \notin Checks
    /\ Attempts \in Nat \ {0} /\ MaxStalled \in Nat
    /\ MaxPolls \in Nat /\ MaxTrouble \in Nat

Verdicts == {"valid", "broken"}
Finals == {"completed", "failed"}
Report == [status : {"none", "pending", "processing"} \cup Finals,
           result : Verdicts \cup {NoVerdict}]
Task == [status : {"absent", "waiting", "active", "done", "failed"},
         attempts : 0..Attempts, stalled : 0..(MaxStalled + 1)]
Desk == [pc : {"idle", "announce", "verify", "report", "regret", "ack"},
         check : Checks \cup {NoCheck}, found : Verdicts \cup {NoVerdict}]
Post == [check : Checks, stage : {"create", "queue", "answer"}, awaited : BOOLEAN]

NoReport == [status |-> "none", result |-> NoVerdict]
AtRest == [pc |-> "idle", check |-> NoCheck, found |-> NoVerdict]

Trouble(c) ==
    /\ trouble[c] < MaxTrouble
    /\ trouble' = [trouble EXCEPT ![c] = @ + 1]

-----------------------------------------------------------------------------
(* startVerification.                                                      *)

Onward(p, stage) == (posts \ {p}) \cup {[p EXCEPT !.stage = stage]}

\* The document comes first, in one query.
CreateCheck(p) ==
    /\ p.stage = "create"
    /\ doc' = [doc EXCEPT ![p.check].status = "pending"]
    /\ posts' = Onward(p, "queue")
    /\ UNCHANGED <<task, desk, recent, polls, watched, jobStatus, integrity, rescan, known, trouble>>

\* Then the job; if the queue refuses it, the document waits for ever and the
\* page hears an error.
QueueCheck(p) ==
    /\ p.stage = "queue"
    /\ \/ /\ task' = [task EXCEPT ![p.check].status = "waiting"]
          /\ posts' = IF p.awaited THEN Onward(p, "answer") ELSE posts \ {p}
          /\ UNCHANGED trouble
       \/ /\ Trouble(p.check)
          /\ posts' = posts \ {p}
          /\ UNCHANGED task
    /\ UNCHANGED <<doc, desk, recent, polls, watched, jobStatus, integrity, rescan, known>>

-----------------------------------------------------------------------------
(* handleVerifyChain, in the one audit worker.                             *)

TakeCheck(c) ==
    /\ desk.pc = "idle" /\ task[c].status = "waiting"
    /\ task' = [task EXCEPT ![c].status = "active"]
    /\ desk' = [AtRest EXCEPT !.pc = "announce", !.check = c]
    /\ UNCHANGED <<doc, recent, pageVars, trouble>>

\* What BullMQ makes of an attempt that threw, and of a worker that vanished.
\* The mutant never gives a job to a second worker.
MutRedelivers(n) == FALSE
Redelivers(n) == n < MaxStalled

\* An attempt that failed leaves the worker.
Fail(c) ==
    /\ task' = [task EXCEPT ![c].attempts = @ + 1,
                            ![c].status = IF task[c].attempts + 1 < Attempts
                                          THEN "waiting" ELSE "failed"]
    /\ desk' = AtRest

\* status: 'processing', outside the try: a failed write fails the attempt and
\* leaves the document alone.  The result of an earlier attempt stays.
Announce ==
    /\ desk.pc = "announce"
    /\ \/ /\ doc' = [doc EXCEPT ![desk.check].status = "processing"]
          /\ desk' = [desk EXCEPT !.pc = "verify"]
          /\ UNCHANGED <<task, trouble>>
       \/ Trouble(desk.check) /\ Fail(desk.check) /\ UNCHANGED doc
    /\ UNCHANGED <<recent, pageVars>>

\* verifyVotingChain and its kin: a verdict, or an exception, which a full one
\* always is within 24 hours of a full one that found the chain valid, its own
\* earlier attempt included.
Verify ==
    /\ desk.pc = "verify"
    /\ \/ /\ desk.check \notin Full \/ ~recent
          /\ \E v \in Verdicts :
                /\ desk' = [desk EXCEPT !.pc = "report", !.found = v]
                /\ recent' = (recent \/ (desk.check \in Full /\ v = "valid"))
          /\ UNCHANGED trouble
       \/ /\ desk' = [desk EXCEPT !.pc = "regret"]
          /\ IF desk.check \in Full /\ recent THEN UNCHANGED trouble ELSE Trouble(desk.check)
          /\ UNCHANGED recent
    /\ UNCHANGED <<doc, task, pageVars>>

\* status: 'completed', inside the try.
ReportVerdict ==
    /\ desk.pc = "report"
    /\ \/ /\ doc' = [doc EXCEPT ![desk.check] = [status |-> "completed", result |-> desk.found]]
          /\ desk' = [desk EXCEPT !.pc = "ack"]
          /\ UNCHANGED trouble
       \/ /\ Trouble(desk.check)
          /\ desk' = [desk EXCEPT !.pc = "regret"]
          /\ UNCHANGED doc
    /\ UNCHANGED <<task, recent, pageVars>>

\* The catch block: status 'failed', and the attempt fails either way.
Regret ==
    /\ desk.pc = "regret"
    /\ Fail(desk.check)
    /\ \/ doc' = [doc EXCEPT ![desk.check].status = "failed"] /\ UNCHANGED trouble
       \/ Trouble(desk.check) /\ UNCHANGED doc
    /\ UNCHANGED <<recent, pageVars>>

\* The handler returns.
Acknowledge ==
    /\ desk.pc = "ack"
    /\ task' = [task EXCEPT ![desk.check].status = "done"]
    /\ desk' = AtRest
    /\ UNCHANGED <<doc, recent, pageVars, trouble>>

\* The worker dies: also when one of its progress writes, which nobody awaits,
\* is rejected.
WorkerCrash ==
    /\ desk.pc # "idle" /\ Trouble(desk.check)
    /\ desk' = AtRest
    /\ UNCHANGED <<doc, task, recent, pageVars>>

\* BullMQ finds an active job nobody works at.
StallCheck(c) ==
    /\ task[c].status = "active" /\ desk.check # c
    /\ task' = [task EXCEPT ![c].stalled = @ + 1,
                            ![c].status = IF Redelivers(task[c].stalled)
                                          THEN "waiting" ELSE "failed"]
    /\ UNCHANGED <<doc, desk, recent, pageVars, trouble>>

-----------------------------------------------------------------------------
(* The page.                                                               *)

\* The verdict in the banner.
Banner == IF jobStatus.status = "completed" THEN jobStatus.result ELSE integrity

\* "Incremental Scan" and "Full Scan", disabled while a job is watched, but not
\* while a POST is under way.  The full one also looks at auditStatus, which may
\* be out of date.
PressScan ==
    /\ watched = NoCheck
    /\ \E c \in Checks :
          /\ c \in Full => ~known
          /\ doc[c] = NoReport /\ \A p \in posts : p.check # c
          /\ posts' = posts \cup {[check |-> c, stage |-> "create", awaited |-> TRUE]}
    /\ UNCHANGED <<serverVars, polls, watched, jobStatus, integrity, rescan, known, trouble>>

\* handleStartVerification goes on; or the answer is lost.
TakeUp(p) ==
    /\ p.stage = "answer"
    /\ posts' = posts \ {p}
    /\ \/ /\ watched' = p.check
          /\ jobStatus' = [NoReport EXCEPT !.status = "pending"]
          /\ UNCHANGED trouble
       \/ Trouble(p.check) /\ UNCHANGED <<watched, jobStatus>>
    /\ UNCHANGED <<serverVars, polls, integrity, rescan, known>>

\* setInterval, whether or not the last request has been answered.
Poll ==
    /\ watched # NoCheck /\ Cardinality(polls) < MaxPolls
    /\ polls' = polls \cup {[check |-> watched, read |-> Unread]}
    /\ UNCHANGED <<serverVars, posts, watched, jobStatus, integrity, rescan, known, trouble>>

ServePoll ==
    /\ \E p \in polls :
          /\ p.read = Unread
          /\ polls' = (polls \ {p}) \cup {[p EXCEPT !.read = doc[p.check]]}
    /\ UNCHANGED <<serverVars, posts, watched, jobStatus, integrity, rescan, known, trouble>>

\* The statuses with which polling stops.  The mutant waits for success only.
MutEndsPolling(status) == status = "completed"
EndsPolling(status) == status \in Finals

\* The callback of the interval, which also runs after clearInterval: it lets go
\* of whatever check is watched by now.
Heed ==
    \E p \in polls :
        /\ p.read # Unread
        /\ polls' = polls \ {p}
        /\ jobStatus' = p.read
        /\ watched' = IF EndsPolling(p.read.status) THEN NoCheck ELSE watched
        /\ integrity' = IF p.read.status = "completed" THEN p.read.result ELSE integrity
        /\ UNCHANGED <<serverVars, posts, rescan, known, trouble>>

PollLost ==
    \E p \in polls :
        /\ Trouble(p.check)
        /\ polls' = polls \ {p}
        /\ UNCHANGED <<serverVars, posts, watched, jobStatus, integrity, rescan, known>>

\* "Rescan from genesis", offered under a banner that tells of a break: the
\* caches go, and getCompromisedBlocks is asked.
Rescan ==
    /\ Banner = "broken" /\ rescan # Unread
    /\ integrity' = NoVerdict /\ rescan' = Unread
    /\ UNCHANGED <<serverVars, posts, polls, watched, jobStatus, known, trouble>>

\* A full verification, refused within 24 hours of the last.  Its blocks are
\* listed; the verdict shows in nothing else.
RescanAnswered ==
    /\ rescan = Unread
    /\ rescan' \in IF recent THEN {NoVerdict} ELSE Verdicts
    /\ recent' = (recent \/ rescan' = "valid")
    /\ UNCHANGED <<doc, task, desk, posts, polls, watched, jobStatus, integrity, known, trouble>>

\* The page is loaded anew: what was cached stays for 12 hours.
ReloadPage ==
    /\ posts' = {[p EXCEPT !.awaited = FALSE] : p \in {q \in posts : q.stage # "answer"}}
    /\ polls' = {} /\ watched' = NoCheck /\ jobStatus' = NoReport
    /\ integrity' \in {integrity, NoVerdict}
    /\ rescan' = NoVerdict /\ known' = recent
    /\ UNCHANGED <<serverVars, trouble>>

-----------------------------------------------------------------------------

ExplorerInit ==
    /\ doc = [c \in Checks |-> NoReport]
    /\ task = [c \in Checks |-> [status |-> "absent", attempts |-> 0, stalled |-> 0]]
    /\ desk = AtRest /\ recent \in BOOLEAN /\ known = recent
    /\ posts = {} /\ polls = {} /\ watched = NoCheck
    /\ jobStatus = NoReport
    /\ integrity = NoVerdict /\ rescan = NoVerdict
    /\ trouble = [c \in Checks |-> 0]

Work ==
    \/ \E c \in Checks : TakeCheck(c)
    \/ Announce \/ Verify \/ ReportVerdict \/ Regret \/ Acknowledge

ExplorerNext ==
    \/ \E p \in posts : CreateCheck(p) \/ QueueCheck(p) \/ TakeUp(p)
    \/ Work \/ WorkerCrash \/ \E c \in Checks : StallCheck(c)
    \/ PressScan \/ Poll \/ ServePoll \/ Heed \/ PollLost
    \/ Rescan \/ RescanAnswered \/ ReloadPage

\* The worker runs and BullMQ looks for stalled jobs; the interval fires, and
\* its requests are answered.
ExplorerSpec ==
    /\ ExplorerInit /\ [][ExplorerNext]_explorerVars
    /\ WF_explorerVars(Work) /\ \A c \in Checks : WF_explorerVars(StallCheck(c))
    /\ WF_explorerVars(Poll) /\ WF_explorerVars(ServePoll) /\ WF_explorerVars(Heed)

-----------------------------------------------------------------------------
(* Properties.                                                             *)

\* Types; the worker is at a job that is its own, and only then at one.
ExplorerTypeOK ==
    /\ doc \in [Checks -> Report] /\ task \in [Checks -> Task]
    /\ desk \in Desk /\ (desk.pc = "idle" <=> desk.check = NoCheck)
    /\ desk.pc # "idle" => task[desk.check].status = "active"
    /\ posts \subseteq Post /\ {recent, known} \subseteq BOOLEAN
    /\ polls \subseteq [check : Checks, read : Report \cup {Unread}]
    /\ watched \in Checks \cup {NoCheck} /\ jobStatus \in Report
    /\ integrity \in Verdicts \cup {NoVerdict}
    /\ rescan \in Verdicts \cup {NoVerdict, Unread}
    /\ trouble \in [Checks -> 0..MaxTrouble]

\* The queue has given the check up, and nobody wrote so in the document.
Forgotten(c) == task[c].status = "failed" /\ doc[c].status \notin Finals

\* It takes more than one crash or failed write before a check is forgotten;
\* one is enough for a full one, which its earlier attempts may have throttled.
ForgottenNeedsTrouble ==
    \A c \in Checks : Forgotten(c) => trouble[c] >= IF c \in Full THEN 1 ELSE 2

\* A page stops watching a check, and its buttons work again, unless the check
\* was forgotten: whatever is retried, redelivered or answered out of order.
PageIsReleased ==
    \A c \in Checks : watched = c ~> watched # c \/ Forgotten(c)
=============================================================================
