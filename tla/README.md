# A verification of voting-secure in TLA+

`voting-secure` runs anonymous votings and surveys: a NestJS back end
(`backend/src`) in three replicas behind a load balancer, with Postgres
(Prisma), Redis (locks, counters, caches, BullMQ queues), MongoDB (the audit
chain), worker processes for the queues, and a Next.js front end. This directory
models its protocols as TLA+ modules, checks them with TLC on small instances
and proves the most important properties with TLAPS for every instance.

## 1. The system

| Component | State it keeps | Operations | What makes it correct |
|---|---|---|---|
| Voting (`votings/vote.service.ts`) | Postgres: `Voting`, `Option`, `VoteParticipation`, `PendingBallot`, `Ballot`, `VotingResult`; Redis: `vote_lock`, counters | `signBlindedToken`, `vote`, `finalizeVoting` | one signature and one ballot per voter; claims are stored; sealed results are right and final; a signed vote gets in |
| Signing keys (`signing-keys/`) | Postgres: public key rows; the environment of each process: private keys | `ensure*Key`, `get*Key` | a signature handed out verifies on every replica; somebody can get the first one |
| Audit chain (`audit/`, `workers/audit.worker.ts`) | Mongo: blocks, verification markers, checkpoints; Redis: sequences; BullMQ: append and verify jobs | append, verify, status | blocks are linked, in order, without gaps; a marker vouches only for what was verified; finalization relies on it |
| Surveys (`surveys/submit.service.ts`) | the survey tables, Redis counters | sign, submit, finalize, results | one answer per respondent; counters and sealed results agree with the rows; a response is broadcast |
| Results and broadcasts (`getResults`, `broadcast/`, `vote.gateway.ts`) | Redis snapshot, BullMQ jobs with fixed ids, sockets | read, invalidate, emit | a stale snapshot needs a race and does not stay; every ballot is emitted |
| Voting administration (`votings.service.ts`) | `Voting`, `Option` | create, update, delete | a finalized or deleted voting is frozen |
| Groups (`groups/`) | `Group`, `UserGroup` with roles | create, add, remove, change role, delete | ownership is not given away; a group without members is explained |
| Accounts (`auth/auth.service.ts`, `mail/`) | `User`, verification and reset tokens, refresh tokens, the mail queue | register, sign in, verify, forget, reset | a link works once; a registered address can be verified |
| Session (`auth/auth.controller.ts`, front end `useApi.ts`, `context.tsx`) | two cookies, the user shown, requests under way | sign in and out, refresh, update | the browser acts as who signed in last, and shows it |
| Pages of a voting and a survey (`votings/[id]`, `surveys/[id]`, `useVotings.ts`, `useSurveys.ts`) | the conversation under way, what was read, the practice switch | open, submit, practise, give up, reload | a conversation that ends well has stored its ballot; practising costs nothing; a lost ballot goes back to a failure |
| Live results in the browser (`socketService.ts`, `useSocket.ts`, `syncResults`) | the socket's room, the counts shown | join, hear, fetch, reconnect | the page comes to show every ballot |
| Page of an audit chain (`audit/.../audit-chain/[id]`, `useAudit.ts`) and the verification jobs (`audit.processor.ts`) | Mongo: job documents; BullMQ: verify jobs; the job watched, the verdict cached | start, poll, rescan | a page that watches a job is told how it ended |
| Users, admin, other mails, remaining pages | | | no protocol of their own (see `PROJECT.json`) |

The components meet in few places. `vote.service.ts` asks the signing keys for
a key while signing and while voting, enqueues audit jobs after it committed,
and asks the audit chain's status before it seals. Surveys use the keys and the
chain in the same way. The results of a voting are read from the ballots a vote
has stored; votings and surveys keep their pending ballots in one table; administration and votes meet in the voting's row. Everything else
is shared rows: replicas coordinate only through Postgres' unique columns and
one Redis lock, which surveys do not take.

Hard behaviours: handlers of one voter racing on several replicas; what is read
before an `await` and used after it; a lock that expires under its holder;
crashes, failed queries and lost replies between two steps of which only some
are in a transaction; retries of what was already done; time passing `endAt` in
the middle of a handler; counters that Redis evicts; broadcast jobs dropped
because their id is still known; answers of the back end that reach the browser
after somebody else signed in; pages that are reloaded, duplicated or give up
waiting while their calls are still handled. `PROJECT.json` lists each hazard at its line with the
properties aimed at it.

## 2. Modules

| Module | Role |
|---|---|
| `BallotBox` | abstract specification: an electoral roll, a ballot box, sealed counts |
| `VoteService` | the voting component, and the refinement `ImplementsBallotBox` |
| `VoteServiceProofs` | TLAPS proofs about `VoteService`, and that it implements `BallotBox` |
| `SigningKeys` | the key pairs on several replicas |
| `SigningKeysProofs` | TLAPS proofs about `SigningKeys` |
| `AuditChain` | append jobs, the chain, its verification and the finalization gate |
| `AuditChainProofs` | TLAPS proofs about `AuditChain` |
| `SubmitService`, `SubmitServiceProofs` | surveys: sign, submit, count, broadcast, seal; the proofs include that it implements `BallotBox` |
| `LiveResults`, `LiveResultsProofs` | the results of a running voting and their snapshot; the proofs cover `ResultsPage` too |
| `Administration` | groups, memberships and what administrators do to votings |
| `Accounts` | registration, verification, password reset, mails |
| `Session` | the session of one browser |
| `AccessProofs` | TLAPS proofs about `Administration`, `Accounts` and `Session` |
| `BallotTalk` | the conversation of a page with the ballot box; extends `BallotBox` |
| `VotingPage`, `SurveyPage` | what the two pages offer and say; extend `BallotTalk` |
| `ResultsPage` | the results an open page shows; extends `LiveResults` |
| `ChainExplorer` | verification jobs, their documents and the page that polls them |
| `PageProofs` | TLAPS proofs about `BallotBox`, `BallotTalk`, `VotingPage`, `SurveyPage` and `ChainExplorer`, alone and as `MCPages` composes them |
| `MCVoteService`, `MCSigningKeys`, `MCAuditChain` | instances for TLC, with a `.cfg` per run |
| `MCServices` | `SubmitService`, `LiveResults`, `ResultsPage`, `Administration`, `Accounts` and `Session` side by side |
| `ServicesProofs` | TLAPS proofs about all services side by side, as `MCServices` composes them |
| `MCPages` | `VotingPage`, `SurveyPage` and `ChainExplorer` side by side, under fairness |
| `MCLive` | `VoteService`, `SubmitService` and `LiveResults` under fairness |

### VoteService

A request in flight is a process `p` with a program counter `pc[p]`, its
arguments `arg[p]` and what it has read so far `local[p]`. Requests of all
replicas are one set: replicas share nothing but the databases, so which of them
serves a request does not matter here. One action is one `await` (or several
whose order nobody can observe):

| Handler | Actions, in order |
|---|---|
| `signBlindedToken` | `SignBegin`, `SignCheck` (findParticipation), `SignPending` (createPendingBallot, of the token), `SignParticipate` (createParticipation), `SignReply` (audit job, response: what was blinded, signed) |
| `vote` | `VoteBegin` (lock), `VotePending` (pending row, signature), `VoteGuards` (voting row and guards), `VoteTx` (option.findFirst), `VoteCommit` (rest of the transaction), `VoteCache` (performVote, audit job, redis.del), `VoteRelease` (finally, response) |
| `finalizeVoting` | `FinalizeBegin` (guards, audit gate), `FinalizeOptions`, `FinalizeAbstentions`, `FinalizeTotal`, `FinalizeSeal` (transaction), `FinalizeAudit` |
| environment | `Tick` (startAt, endAt), `PendingExpires`, `LockExpires`, `Crash`, `Throw`; of the survey service: `SurveySignsToken`, `SurveySpendsToken` |

State: `voting`, `participations`, `pending`, `ballots`, `dynOptions`, `results`
are the tables; `lock` and `voteCount` are Redis; `jobs` are the audit jobs
accepted by BullMQ; `replies` is what clients were told (history); `faults`
counts crashes, failed queries and lost replies.

Abstractions, each with its reason:

- A token stands for the secret T, its hash and its signature: each determines
  the others. Clients draw 256 random bits, so a token has one owner, and a
  client sends only tokens it drew. `verifyBlindSignature` then succeeds exactly
  if the server replied with the signature. The key pair is there; `SigningKeys`
  models how it comes to be.
- A sign request brings two strings, `token`, whose hash goes into the pending
  ballot, and `blinded`, which is signed; the server has no means to tell whether
  the one blinds the other (63-76). They are two fields of `SignArg`, and a reply
  carries the signature of what was blinded. `PendingBallot` is one table for
  votings and surveys, and the check at 157 lets a survey's row pass, whose
  `votingId` is null: such rows come and go by `SurveySignsToken` and
  `SurveySpendsToken` (`OfSurvey`), and `VotePending` accepts them as the code does.
- The client of `frontend/` draws a token for each request, blinds that one and
  uses it nowhere else (`prepareBlind`, useVotings.ts:285-298). This is the
  hypothesis `FreshTokens`: what needs it names it, and what holds whatever
  clients send does without. It is needed: a signature is not bound to the
  request it was issued for, so for other clients "one participation, one ballot"
  is nothing the server enforces; what it enforces is `BallotsSigned` (a ballot has a
  signature of its voting, and a signature is good for one ballot).
- A ballot is a voting, an option and a token; `ballotHash` is a hash of the
  three. A tally is the set of ballots it counted, which says more than a number.
- The schema calls the column `signatureToken`, the code writes
  `blindSignature` (schema.prisma:211, votings.repository.ts:261); the model
  follows the code and keeps the uniqueness the schema gives that column.
- A participation has no token in the code. The model keeps it as history, and
  no guard reads it.
- There is one "Other" text per voting; a dynamic option is named after the
  request that created it.
- The audit gate of `finalizeVoting` either refuses, which changes nothing, or
  lets the request go on; `AuditChain` models how it decides.
- `performVote`, the audit job and `redis.del` are one action: no handler reads
  between them what they write, and each may fail alone.
- Updates and soft deletion of votings are in `Administration`, which has votes
  and finalizations only as far as they read and write the voting's row.

### SigningKeys

`row` is the table of public keys, `env[n]` the private keys in replica n's
environment. A client fetches the public key (`FetchKey`), posts the blinded
secret to some replica (`PostSign`), and there `ensureVotingKey` runs as
`FindRow`, then `UseKey` (row exists) or `MakeKey` and `CreateRow` (it does
not). `Restart` empties an environment. A survey's key has the same code. The
clients in `Direct` post without asking for the key: their own signature is of
no use to them, but they create the row, which the shipped front end cannot do.

### AuditChain

| Code | Actions |
|---|---|
| `appendChain` (any back-end process) | `AppendChain`: the job is queued, or the error is logged and the block never written |
| `AuditProcessor`, `processAppendInternal` | `Take`, `DrawSequence` (one INCR per scope), `ReadHeads`, `InsertBlock` or `RejectBlock` (duplicate key), `RereadHeads` (`withTransaction` starts over), `FailAttempt`, `CompleteJob` |
| BullMQ | `Retries`, `AfterFailure` (3 attempts), `LockLapses`, `StallCheck`, `AfterStall` (one redelivery, then failed) |
| Redis, restarts | `Crash`, `LoseCounter`, `Bootstrap` (`onModuleInit`) |
| `verifyChain`, `verifyGroupChain`, `verifyVotingChain`, `verifySurveyChain`, `getCompromisedBlocks` | `Verify`, `ForceFull`, `Throttle`, `ReadMarker`, `ScanBlock`, `EndScan`, `MarkVerified`, `MarkBroken` |
| `getAuditStatus` before a finalization | `ReadStatus`, then `PassGate` or `RefuseGate`; `DayPasses` |

A scope is the global chain, a group, a voting or a survey. A block has a number
and a predecessor's hash in each scope it belongs to.

- A hash covers the block's global sequence, which is unique, so the sequence
  stands for the hash. Blocks are append-only (the schema's `pre` hook), so
  recomputing a hash agrees, and `createdAt` is not modelled: an attempt takes
  its time stamp and its numbers in one order as long as clocks do not go back.
- The four verification functions differ in one thing that matters: only
  `verifyVotingChain` begins with `prevSequence = 0` (audit.service.ts:1165);
  the others accept any first number (`Anchored`).
- Verifications run in the audit worker and, through `getCompromisedBlocks`, in
  any back-end process. `Verifiers` are independent of `Workers`, which allows
  more interleavings than a worker of concurrency 1 that also runs the verify
  jobs. `ForceFull` and the gate are open to every scope but the global one; the
  code offers them to votings and surveys.
- Any waiting job may be taken: a retry is delayed and others overtake it. The
  INCRs of one attempt go over one connection, the global one first.
- `Taken` is the uniqueness the schema declares (audit-chain.schema.ts:13,
  68-90). For `surveySequence` only the schema declares it: mongo-init creates
  that index without `unique` (init.sh:19). The proofs rest on it for votings,
  whose index mongo-init also declares unique.
- The Redis keys `audit_ver:*` of `redis.service.ts` are not modelled: nothing
  reads them; the marker is the Mongo record.
- No code calls `createCheckpoint`, so `verifyCheckpoints` finds nothing to
  check.

### SubmitService

| Handler | Actions, in order |
|---|---|
| `signBlindedToken` | `SurveySignBegin`, `SurveySignCheck`, `SurveySignPending`, `SurveySignParticipate`, `SurveySignReply` |
| `submitResponse` | `SubmitBegin` (survey guards), `SubmitPending` (pending row, signature, validation), `SubmitFind` and `SubmitCreate` for each free text (`getOrCreateDynamicOption`), `SubmitCommit` (transaction), `SubmitCount` and `SubmitTally` (Redis pipeline), `SubmitNotify` (audit job, mail, broadcast, response) |
| `BroadcastProcessor` | `TakeBroadcast`, `EmitBroadcast`, `CompleteBroadcast`, `FailBroadcast` |
| `finalizeSurvey` | `SealBegin`, `SealHashes`, `SealTotal`, `SealRows` (the reads of `getResults`), `SealCommit` |
| environment | `SurveyTick`, `SurveyPendingExpires`, `DeleteOption`, `EvictCounter`, `SubmissionFails`; of the voting service: `VotingSignsToken`, `VotingSpendsToken` |

It is the protocol of `VoteService` with three differences: no lock keeps two
submissions of a respondent apart, an abstention stores no row, and what is
shown and sealed comes from Redis counters that are incremented after the commit.
Counters are numbers here, since a set could not be counted twice.

What the model says of the code, besides the properties:

- Every row of an answer carries the same signature in a unique column
  (`AnswerSignatureUnique`, rows of one insert included): an answer with more
  than one row can never be stored.
- A dynamic option is created outside the transaction, by practice runs and by
  submissions that fail later as well; two submissions with one text make two.
- Two submissions of one token that are past the pending row at once both count if
  one of them is an abstention: nothing unique stops the second. The history
  variable `repeats` counts them (`IsRepeat`), and `ResponsesWithinRoll` bounds the
  responses by the roll and these.
- `token` and `blinded` are two strings here too (68-82), and a voting's pending row,
  whose `surveyId` is null, passes the check at 166. `SurveyFreshTokens` is the
  hypothesis about the clients: they blind the token they name, and a token is used
  for one survey and for no voting. For such clients `SubmitService` implements
  `BallotBox` (`SurveyBox` in `SubmitServiceProofs`): `createParticipation` is
  `Authorise`, the transaction `Cast`, the one of `finalizeSurvey` `Seal`.
- Redis may evict a counter (`allkeys-lru`, docker-compose.yml:34-39); the total
  falls back to the rows only when the counter is nought, and then misses
  abstentions; a question's counts fall back when its whole hash is empty.
- An id BullMQ still knows is ignored: a response counted after the active job
  has read waits for the next response (`missed`).

### LiveResults

`CastBallot`, `DropSnapshot`, `CountAfterVote`, `EmitAfterVote` are `vote` from its
transaction on; `AskResults`, `FindForResults`, `LookUpSnapshot`, `CountForResults`,
`KeepSnapshot`, `AnswerResults` are `getResults`, asked over HTTP, on joining the
room, or by `update`, which sends the answer to the room. A
count is the set of the ballots it counted; options and abstentions are two
queries in either order. `IntervalPasses` is `nextBroadcastAt`, `SnapshotExpires` the
TTL or an eviction, `CloseVoting` and `SealVoting` the end. Sockets deliver in
order; what a page makes of an emission is in `ResultsPage`. `vote` emits directly and does not use the broadcast queue.

### Administration

Each handler is `AdminBegin`, its guards (`FindVoting`, `CheckPermission`) and one
write: `CreateGroup`, `AddUsers`,
`RemoveUsers`, `ChangeUserRole`, `DropMemberships` then `DropGroup`, `CreateVoting`,
`UpdateVoting`, `SoftDeleteVoting`; `StoreBallot` and `Finalize` stand
for `vote` and `finalizeVoting`. None asks again in the transaction of its write, so
each guard may be stale when the write comes. Two history variables tell a stale guard
from a missing one: `foundIntact` holds the requests whose own read found the row neither
finalized nor deleted, and `overtakenAct` the votings written to by such a request after
that had changed. A write on a finalized voting by a request that was let through although
its read showed it is not excused.

- `POST /groups` names at least one address (`ArrayMinSize`), and
  `getUserIdsByEmails` compares the addresses with the stored column, which
  `UsersService.create` fills with randomised ciphertext: it finds only rows whose
  address is stored in clear (`InClear`; `CryptoUtils.decrypt` accepts such rows). On
  a data base with encrypted addresses alone every creation of a group is
  refused, and groups come from the seed. Adding and removing go through
  `ResolveEmailsPipe`, which uses the blind index and finds everybody.
- An owner may be removed from the group like anybody else. They come back as a
  member only, as the role OWNER is refused and the creator's role is never
  changed: the group can then not be deleted any more (`NoNewOwner`).
- The foreign keys of votings and memberships refuse the deletion of the group
  after its memberships are gone.
- Not modelled: `update` of a group and the `votingIds` of its creation, which move
  votings between groups (`GroupOf` is a constant).
- Not modelled: `VotingsService.updateOption`. No route and no service calls it. It checks
  one voting and then renames an option by its id alone (votings.service.ts:199,
  votings.repository.ts:238-243), so it would also rename an option of another,
  finalized voting: nothing here vouches for it, should it be given a route.

### Accounts

A link is a token row with its mail. `VisitBegin` starts a request; then come
`SignInVisit`; or `CreateUser`, `NewVerification`, `QueueMail`, `Remember` (`register`);
or `NewReset`, `QueueMail` (`forgotPassword`); or `CheckVerification`, `VerifyEmail`,
`Remember`; or `CheckReset`, `ResetPassword`. Mails arrive or are lost (one attempt),
links expire, a request may fail at any step. `uses` counts what a link did;
`readUnused` holds the requests whose own read found the link unused, and
`contested` the links such a request has spent a second time. A user may
not delete themselves after a registration (the foreign key of the refresh
token), and a change of the address asks for no verification; neither is
modelled.

### Session

One browser: the cookies `access` and `refresh` stand for the account they name,
`view` is the user of `AuthContext`, `fetch` the requests under way, each with the
account it was sent as, `renewal` the shared `refreshPromise`. Requests are sent
(`Call`, `Identify`, `SignOut`, `Reload`) and answered in any order: `CallAnswered` (a 401
waits for the refresh), `Refreshed`, `NotRefreshed`, `RetryAnswered`, `CheckAnswered`,
`SignedIn`, `AddressVerified`, `SignedUp`, `SignedOut`, `ProfileSaved`, `FetchFails`;
`CookieExpires` is time. `who` (the last to sign in) and `stray` (that sign-in or
sign-out met an answer or a cookie of another account) are history. An answer's
headers and body arrive together: a timeout between them is not modelled. What
follows from the code and is worth knowing: `checkAuth` never refreshes
(`skipRefresh`, and `/users/me` is excluded), so a remembered session is not
restored on page load; sign-out and reset revoke no refresh token; `signOut`
clears the view even if the cookies stay.

### BallotTalk, VotingPage, SurveyPage

The front end votes in two calls: `requestSignature` and `submitBlindedVote` (for a
survey `submitSurvey`, `practiceSubmit`). `BallotTalk` is that conversation, over
`BallotBox` as the back end: since `VoteService` implements `BallotBox` for clients like
these (`FreshTokens`), what it does to
the roll and the box on behalf of a call is `Authorise` or `Cast`.

| Code | Actions |
|---|---|
| a button, `prepareBlind`, POST sign | `Begin` (through `Submit`, `SubmitResponse`, `PracticeSubmit`) |
| `finalizeBlind`, POST of the ballot | `SignAnswered` |
| the answer to the ballot, `fetchVoting` | `BallotTaken`, then `FetchVotingEnds` or `FetchSurveyEnds`; `BallotRefused` |
| `apiFetch`: failure, or 30 s | `GiveUp` |
| opening or reloading a page | `Open`, `OpenSurvey`; `MyStatusAnswered` |
| the practice switch of a voting | `StartPractice`, `ExitPractice` |
| back end | `ServeSign`, `ServeBallot`, `Refuse`, `ServeLook`, `SealPoll` |

- A call is handled at any moment after it was sent, also when nobody waits for
  it any more, or never. A refusal for a reason other than the roll (a closed
  voting, an error) is a `hitch` of the voter, as are a lost answer and a page
  left in the middle; `meant` notes who pressed the button for real.
- The GET of the signing key before `prepareBlind` is in `SigningKeys`. Sending
  again what failed is `Begin` with a new token, as in the code: token, blinding
  factor and signature are in no storage.
- What a page is told of a voting is whether the visitor has participated and
  whether it is sealed; drafts and votings not yet begun only hide the form.

What follows from the code and is worth knowing, besides the finding:

- A voter whose signature or ballot was lost cannot ask for another signature:
  signBlindedToken answers 409, although docs/blind-signature-changes.md:510 says that
  after a reload the signature has to be requested again.
- The receipt section of a voting ("Vote Confirmed", "No real vote was cast") is drawn
  by the practice switch as it is now, not by what was sent
  (votings/[id]/page.tsx:278-285); the switch can be turned while a ballot is on its way.
- The practice switch of a survey changes a banner only: under "No real data will be
  recorded" "Submit Response" sends a real response (surveys/[id]/page.tsx:228, 328), and
  after a practice submission the page says "Your response has been recorded" (252, 467).
  The model has no such switch; its submissions are real or practice by the button.

### ResultsPage

`LiveResults` with one page attached. `Join` is `voting:join`, emitted once per mount
and answered by a reader of `LiveResults`; `EmitAndDeliver` and `AnswerAndDeliver` are
`EmitAfterVote` and `AnswerResults` with the room; `Hear` is `syncResults`, `FetchVoting`,
`CountForFetch`, `FetchAnswered` are `fetchVoting` with the counts of `findOne`;
`LoseConnection` takes what is in flight with it, `Reconnect` joins nothing. `counts` is
the set of ballots counted in what the page shows, and `lapsed` notes that the page
itself dropped an update (one that comes before it has loaded the voting) or went back to
older counts; nothing repeats what it lost until somebody votes again. After a
reconnection the page is outside the room and hears nothing more.

### ChainExplorer

| Code | Actions |
|---|---|
| `startVerification` | `PressScan`, `CreateCheck` (document), `QueueCheck` (job), `TakeUp` (the answer) |
| `handleVerifyChain` | `TakeCheck`, `Announce`, `Verify`, `ReportVerdict`, `Regret` (catch), `Acknowledge` |
| BullMQ, crashes | `Fail` (attempts), `StallCheck`, `WorkerCrash` |
| the page | `Poll`, `ServePoll`, `Heed`, `PollLost`, `Rescan`, `RescanAnswered`, `ReloadPage` |

What a verification reads and marks is in `AuditChain`; here it yields a verdict or
throws, which a full one does within 24 hours of another full one that found the
chain valid (`recent`), its own earlier attempt included. `integrity` also stands for the
copy in localStorage, whose 12 hours are a choice of `ReloadPage`. `Rescan` merges the
two check boxes of the votings' page; the surveys' page has none of them. The banner does
not follow a rescan, as a comment there promises (page.tsx:183-184): it reads `jobStatus`
and `integrity`, and the answer fills neither.

## 3. What the runs check

| Run | Instance | Question |
|---|---|---|
| `Voting` | three parts: 1 voter, 2 tokens, 2 requests in flight, a practice signature, an option or an abstention, pending ballots that expire, 1 fault; 2 voters who answer Other, 2 requests in flight, endAt and the finalization; 1 voter of a voting of two choices without endAt, who abstains or takes both, also has a token whose pending ballot is a survey's and may meet the finalization and 1 fault | Can one voter's tabs, repeated votes, expired locks and a fault produce two signatures or two ballots, or a claim with no ballot? Is a vote refused for anything but reuse or a choice of two options? Are sealed counts coherent, and does every step implement the ballot box? |
| `VoteSealed` | as `Voting` | Can a ballot enter a finalized voting? It can. |
| `KeysRace` | 2 entities, 3 keys, 2 replicas, 1 fetching and 3 direct clients, 1 restart | Is the modulus always the stored one; does it take a race to get a bad signature? |
| `KeysMismatch` | 1 entity, 2 direct clients and one that fetches | Does every signature verify? No. |
| `KeysFirst` | 2 clients that fetch, fairness | Is the first voter ever signed? No. |
| `AuditVerify` | 2 jobs of one voting, 1 worker, 1 verification, 1 fault, 1 evicted counter | Is the chain linked, does a marker vouch only for a whole prefix, is a break reported only when a number is missing, does the gate pass only whole chains? |
| `AuditQueue` | 2 jobs, 1 worker, no verification, 2 faults, 1 evicted counter, 2 attempts, fairness | Is a block written once per delivery, and does every accepted job settle? |
| `AuditWorkers` | 2 jobs, 2 workers | Is the chain linked with two workers? No. |
| `Pages` | see below, fairness | Is what is stored what was meant, is a lost ballot explained, and without a failure is the voter heard? Does a page stop watching a verification, and is a document left unfinished only by as many faults as it should take? |
| `PagesRecorded` | as `Pages` | Is "securely recorded" true? No. |
| `Services` | see below | Are answers, counters, snapshots, groups, votings, links and sessions what they should be, whatever overlaps? |
| `Live` | see below, fairness | Is a signed vote stored, a response broadcast, a ballot served? |

`Services`, `Live` and `Pages` hold several services or pages that share no state. A behaviour
belongs to one `part`, chosen at the start, in which one service moves and the others
stay in their initial states: the state space is the sum, not the product, and
nothing is lost, since no action of one reads a variable of another.

| Part | Instance |
|---|---|
| `alone` | one respondent, two tokens, a practice signature, abstention, 2 requests in flight, 1 fault |
| `mixed` | one respondent, and a token of theirs whose pending ballot is a voting's |
| `seal` | two respondents, one abstains, and two finalizations |
| `evict` | one respondent, a finalization, 1 evicted counter |
| `texts` | two respondents, free texts on two questions, one of them in practice, an option that is deleted |
| `watched`, `crowded`, `closing` | an open page: two votes, one of them an abstention; one vote and another reader; one vote, a lost connection and the end of the voting |
| `groups` | one group with one voting, an owner and a member, every operation, 2 requests in flight, 1 fault |
| `accounts` | one person, two links, 2 requests in flight, 1 fault |
| `session` | two accounts, two requests under way besides the refresh |
| `Live`: `voting` | 1 voter, a token for a real vote and one for practice runs, 2 requests in flight, locks and pending ballots that expire, no fault |
| `Live`: `survey` | 1 respondent who abstains, 2 requests in flight, endAt, expiry, 1 fault |
| `Pages`: `voting`, `survey` | one voter with two tokens; two tabs of a voting, or one page of a survey |
| `Pages`: `faults`, `polls` | one verification, incremental or full, with at most two faults, and a rescan; one of each, at most one of them with a fault, two polls in flight |
| `Live`: `asked`, `closing` | two votes and a reader who asks; one vote with a failure, the end of the voting and an answer to the room |

Bounds. Two requests in flight are enough for every race in this code: no
handler waits for another, and each conflict is between two of them (two signs,
two votes, two finalizations, a vote and a finalization). Since a request that
ends may start again, sequences of any length are covered. One fault suffices
for each "lost after commit" case; `MaxFaults` bounds crashes, failed queries
and lost replies together. Two tokens let a voter hold two pending ballots. In
`KeysRace` three keys allow both racers of one entity and the other entity to
generate a pair; when the keys run out `MakeKey` stops. Requests (and keys and
replicas) are interchangeable, so those runs use them as a symmetry set; the
runs with liveness do not. `CHECK_DEADLOCK FALSE` appears only for the signing
keys, for `AuditWorkers` and for `Services` (its results pages), where all clients are served, all
jobs done or all votes shown and nothing is left to do. For the audit chain two blocks of one voting give a first
block, a link and every kind of gap; one verification beside the appends and one
fault reach each race of the marker, since a marker may also be reset and
verified again any number of times. In `Services` the two
requests of every part are the same two model values, so one permutation is a
symmetry of all parts; each race of these handlers is between two requests, and
a third actor (the broadcast worker, the mail, time) is an action of its own.
Two accounts are enough for a session to be confused, two links for a
verification beside a reset. `AuditQueue` allows two attempts instead of
the code's three, so that two faults can exhaust them, and so do the runs of
`ChainExplorer`. A voter has two tokens in `Pages`, so that a second conversation may
run beside the calls of an abandoned one; there is one voter, since pages of
different voters meet only in the box. Two polls in flight let an old answer overtake
a new one. Failures of Redis beside an open page are not explored (`MaxLiveFaults` is 0 there); `Live` meets one without a page. In the voting part of `Live` there is no fault: after one the
property asks for nothing.

Clients. `MCVoteService`, `MCServices` and `MCLive` assume by name that the clients of
their instance are those of `frontend/` (`VotingClients`, `ServicesClients`, `LiveClients`: `FreshTokens`,
`SurveyFreshTokens`). The tables still hold rows of the other kind: `t4` of the part `mixed` is a
token that was sent to the other service, and what comes of sending it here is checked.

Fairness. Handlers run on (weak fairness on the steps of a request: Node serves
every pending promise). Nothing is assumed of clients for `SignedVoteIsStored`: no client
sends a vote again, since token and signature are in no storage (useVotings.ts:265-350), so
the property follows one vote that has the lock and its signature. In `AuditQueue`
the worker process runs (weak fairness on `Run`) and BullMQ looks for stalled jobs
on a timer (weak fairness on `StallCheck`). In
`Live` the steps of a submission and of the broadcast worker are fair in the
same sense (`SurveyFairness`); for `BallotIsServed`, replicas serve `getResults`, some
client asks again and again (`AskResults`: a page is opened or joins; the premise of
the property), and the broadcast interval passes (`LiveFairness`). `MCLive` states each of these conditions with its
part conjoined, so that a part owes nothing to actions of the others. In
`Pages` a page that waits is answered or gives up after 30 s, and nothing is
assumed of the back end; for a verification the worker runs, BullMQ checks for stalled
jobs, the interval fires and its GETs are answered (`ExplorerSpec`, repeated by part in
`MCFairness`). No fairness is assumed
for time, faults or other requests.

Two findings are races of the back end (`VoteSealed`, `KeysMismatch`); three are documents,
comments or texts that promise what the code does not do (`KeysFirst`; `AuditWorkers`:
there is no Redis lock around an append; `PagesRecorded`: "securely recorded" is shown to
whoever has been signed). `PROJECT.json` quotes the lines.

One consequence of `NoFalseAlarm` is worth knowing: when an attempt fails after
drawing its numbers, the number is never used. Once the voting's next block is
stored, every verification of that voting reports a gap and resets the marker,
and the gate refuses to finalize it for good. The model reaches this with one fault. It is
what the code's own log message calls a "sequence leak risk"
(audit.service.ts:691), so no property contradicts it.

## 4. What is proved

All theorems hold for any sets of users, votings, tokens, options, requests,
workers, replicas, pages and readers, any rules and any number of faults. Every safety
property the passing runs check is proved; only liveness is not.

Assumptions. The constants are constrained by the named `ASSUME`s of the modules alone:
owners and rules are functions of the right type, the requests are of the form
the clients send, null values, option names and other
names do not collide (an option is named by a UUID, so that it is neither null nor
the key of the Other texts: `CounterKeysAssumption`; the null of a snapshot is no count:
`NoViewAssumption`; what a call was sent for is no answer: `SentAssumption`; a tab shows a voting
or a survey: `TabsApartAssumption`; the polls of `MCPages` are polls: `PollsAssumption`). TLC
evaluates all of them. Some theorems have a hypothesis of their own, because the property is
false without it:

| Hypothesis | Theorems | Why |
|---|---|---|
| `OneWorker` | `ChainIsLinked`, `AlarmsAreTrue` and their invariants | appends of two workers do not link (the run `AuditWorkers`); docker-compose starts one worker of concurrency 1 |
| `FreshTokens` | `PaidInvariant`, `NoDoubleVote`, `NoDoubleSignature`, `BallotBoxRefined` | `token` and `blinded` of a sign request are independent for the server, and a survey's pending ballot passes for a voting's: who pays for which signature is known only of clients that blind the token they name and use it once, as `prepareBlind` and its callers do (frontend/lib/security/blindSign.ts:126, hooks/api/useVotings.ts:285) |
| `SurveyFreshTokens` | `SurveyPaidInvariant`, `OneAnswer`, `RollInvariant`, `RollCovers`, `SurveyBoxRefined`, `ServicesSafe` | the same for surveys (hooks/api/useSurveys.ts:352); a token of two surveys may besides lose its practice row in one to the other |
| `RetriesAssumption` | `ForgottenTakesFaults`, `PagesSafe` | `attempts: 3` (audit.module.ts:40) and BullMQ's one redelivery; a job tried once is given up after one fault |

None of the safety properties is inductive, so each component has a
strengthening, which is a theorem too. Where a component has several, each is inductive
relative to those before it. The large ones were checked with TLC on the instance of
their run before they were proved.

### VoteService, BallotBox

- `TypeCorrect`: `TypeOK` is inductive by itself. It includes that a handler's
  argument is of its kind, which the other proofs need.
- `VoteInvariant` holds whatever clients send: a vote past its checks has a signature
  of its voting (`VotingSigned`), participations are unique, a signature is on one ballot
  and every ballot has one (`BallotsSigned`, stated by `EveryBallotSigned`), and of a
  finalization in flight the later counts cover the earlier ones because ballots are
  never deleted (`CountingCovered`, hence `SealedTotalsCover`).
- `PaidInvariant` has one idea: *everything is paid for*, by clients that blind the
  token they name (`FreshTokens`). A participation is the one coin a voter has in a
  voting. A signature handed out, a vote beyond its checks and a ballot must each be
  backed by it (`RepliesPaid`, `VotingPaid`, `BallotsPaid`), unless the signature is for
  practice and its pending row says so or is used up (`PracticeOnly`), which no survey
  changes since the token is in none. Two ballots of one voter would need two coins
  (`NoDoubleVote`), and so would two signatures (`NoDoubleSignature`).
- `SealedResultsStay`: the unique `votingId` of a result; TLC checks the same as part of
  `ImplementsBallotBox`.
- `ClaimInvariant`: a request that is past its transaction, or about to say it
  succeeded, has its ballot (`RequestClaim`); the counter of Redis is behind the ballots by
  the votes that are committed and not counted (`CountBehind`): this makes the counting of
  a vote safe at the moment it happens. `ClaimsStored` follows. `RefusalsAreReuse` uses
  that only a stored ballot, or another row of the same vote, can occupy the signature:
  a vote with two or more options is always refused, as its rows share the unique column.
- `BallotBoxRefined`: each step of the handlers maps to `Authorise`, `Cast` or
  `Seal` of `BallotBox`, or to a stutter. That `Cast` happens once per voter is
  where `PaidInv`, and with it `FreshTokens`, is used.
- `BoxPromises` is what the abstract box is good for, proved of `BoxSpec` itself: a ballot
  needs a name struck off the roll, nobody has two in one voting, nothing is altered
  or taken out, a result is announced once and counts ballots of its voting
  (`BoxRules`, `NothingIsUndone`). What implements the box inherits it.
- `FinalizedBoxCloses`: the run `VoteSealed` refutes "no ballot after the seal". What is left is
  that only a vote past its checks (`Past`) can enter a finalized voting: once none is
  under way, its ballots stay as they are (`StaysShut`).

### SigningKeys

- `KeysInvariant`, `ModulusAgrees`: a public key row, once created, stays, so
  what a client blinded with and what the server answers agree.
- `KeysOwnedInvariant`, `RaceNeeded`: every key in use was generated for the entity that
  uses it. The key that signs and the key of the row are then two of one entity if they
  differ.

### AuditChain

- `TypeCorrect` includes that the queue keeps its promise
  about attempts and stalls. `MarkersVouch` and `GateSound` rest on
  `VouchInvariant`: *whatever may become a marker is already whole*. A prefix
  `1..n` of a voting is `Whole` if each number has one block, linked to the one
  before. The invariant says it of the markers, of what each scan has passed
  (`ScanVouches`, with the hash it expects next) and of what the gate has read.
  A whole prefix stays whole because blocks are only added and never with a taken
  number (`NumbersUnique`, `WholeStays`); one turn of the scan extends it by one
  (`WholeGrows`). They hold for any number of workers, and for votings
  only, since the other scopes are not anchored at 1.
- `DeliveryInvariant`, `DeliveredOnce`: a job's blocks, the workers that may still insert
  one (a worker whose lock lapsed counts, although its job was given away) and the
  delivery it waits for are at most one more than what BullMQ took back.
- `AppendInvariant`, `ChainIsLinked`: the counters are not behind the chain, what the
  worker has drawn is ahead of it, and the heads it has read are still the heads when
  it inserts (`HeadsRead`); a second worker breaks exactly this last conjunct.
- `AlarmInvariant`, `AlarmsAreTrue`: until something fails, each number drawn is a
  block's or the worker's (`NumbersUsed`), and a scan that expects a hash expects that of
  the block it stands at (`Aligned`); so it can only stop at a missing number.

### SubmitService

- `SurveyInvariant` holds whatever clients send: the roll and the signatures on answers
  are unique, each signature was asked for, and what is stored or about to be has one
  (`SubmissionSigned`, `AnswersSigned`).
- `SurveyPaidInvariant` is the argument of `PaidInv` without the
  lock, for clients that draw a token for each request (`SurveyFreshTokens`): every
  signature, submission in flight and answer is paid for by a
  participation (`SurveyPaid`), or its practice row is still there (`HasPracticeRow`), which
  makes the submission a practice run. Two answers of one respondent would then
  carry the same token, and the unique signature refuses the second
  (`OneAnswer`). `SurveyTypes` types requests and rows, `AllSurveyTypes` the counters
  too.
- `BackedInvariant`, `CountsBacked`: each count, *and each submission that is stored and
  still to be counted*, has a row of its own. Without the second half the increment
  could overtake the rows. The deletion of an option turns its rows into those of nobody, so
  the invariant speaks of options that are there.
- `TokenInvariant`: a token that was not sent again is signed for one survey, stored by one
  submission, and its pending row is gone from then on. `RollInvariant`, `RollCovers`
  build on it: responses counted and to be counted are at most the participations whose
  signature was used, and the repeats.
- `CountedInvariant` is the converse of the two, while Redis loses nothing: answers
  confirmed, and those about to be, are among the responses, and their rows among the
  tally.
- `SealInvariant`, `SealedCovers`: what a finalization has read so far lies
  between the rows it owes (confirmed before it began) and the rows there are. It needs
  `BackedInv` for the upper bound and `CountedInv` for the lower one, at each of its reads.
- `SurveyBoxRefined`: each step is one of `BallotBox` or a stutter. A ballot of the
  mapping leaves out what was chosen, since `deleteOption` rewrites it, and a sealed result
  is mapped to "announced", since it holds numbers (`SealedCovers` bounds them).
- `FinalizedSurveyCloses`: `submitResponse` does not read `isFinalized` again either. Once the
  submissions admitted before the seal are through, who answered which question stays as
  it is (`SurveyStaysShut`), whatever practice runs and deletions of options still do.

### LiveResults, ResultsPage

- `LiveInvariant` has two parts. Ballots whose vote has dropped
  the snapshot are in every count that may still become the snapshot, unless the
  vote is `raced` (`StaleSnapshots`). And while some emission lacks a ballot, the vote
  that stored the last one is still on its way and will count them all, or has
  (`BallotsEmitted`).
- `PageInvariant`, `GapsAreLapses`: while the page is in the room and has not lapsed, each
  ballot owed is shown or `Arriving`: with its own vote, with the reader that answers the
  join, or in the socket. The reader that finds a snapshot is where `SnapshotInv` is used;
  that the page never drops what it shows is what `lapsed` leaves.
- `CountsAreBallots` is the converse: emissions, snapshots, sealed results and the page count
  only stored ballots, whatever overtakes what (`OnlyBallotsCount`).

### Administration, Accounts, Session

- `AdminInvariant` adds to the types what each request has
  established by the step it is at (`RequestsOK`): one that may write on a voting had read
  its row intact, so that a row is spoilt only by a request that was overtaken
  (`FrozenVotings`), only a removal or a deletion
  leaves a group without members (`MemberlessGroups`), and no step writes OWNER into a
  group that exists (`OwnersOnlyLeave`).
- `AccountInvariant`: what each request is about (`VisitSane`: a token that is drawn, of
  the kind it was checked for, and had read it unused), and that a link that has worked is
  marked used: who spends it again had read it before. `TokensWorkOnce` and `RegisteredVerify` are then preserved together with it.
- `SessionInvariant`: unless `stray`, every cookie, the refresh under
  way, the checks and updates under way and the view belong to `who` or to nobody.
  The view is excepted after a registration (`newcomer`). `FollowsSignIn` and
  `ShownActs` are its consequences, with the same exceptions.

### The pages

`PollPagesSpec` (in `PageProofs`) puts any number of voting and survey pages of any number
of voters in front of one back end; the parts `voting` and `survey` of `Pages` are
instances of it.

- `TalkInvariant`: whose token is whose (`Belongs`), each call is made once
  (`AskedOnce`), a token serves a real ballot or practice and never both (`Purposes`),
  a success for real tells of a ballot in the box and a refusal of a failure (`Truthful`), a
  call nobody waits for goes back to a failure (`Waited`), and a voter struck off
  the roll without a failure has a ballot, or one conversation carries the
  signature (`Carried`). `MeantIsStored` and `LostBallotsExplained` are consequences; the
  latter needs `Carried`, since "under way" alone would not tell which of two tabs has
  the signature.
- `CheckInvariant`, `ForgottenTakesFaults`: one POST and one active job at a time, and a
  ledger (`Blamed`): attempts and stalls of a check, and one more while its job is orphaned or
  its verification is about to be written off, are at most its faults. A full check may be
  throttled by its own earlier attempt, which needs no second fault.
- `PagesUseBallotBox`: `PollPagesSpec` implements `BoxSpec`. However pages reload, practise and
  give up, they ask of the box only what it offers, so that `BoxPromises` holds of them.
- `ShownInvariant`, `ParticipationTrue`: no page shows a participation that is not on the roll,
  apart from a survey's page after a practice run on it. The invariant follows the fact from
  the roll into the answers under way (`looks`), which may be old: the roll only
  grows. `RecordedHasReason` is what remains of the sentence `PagesRecorded` refutes:
  with nothing of the visitor's under way, "securely recorded" is false only for a visitor
  who met a failure or left a page in the middle.

### All together

`MCServices` and `MCPages` put components beside each other. `EachServiceRuns` and `EachPageRuns`
prove that a behaviour of either is, for each component, a behaviour of its own
specification, so that what is proved of one alone holds among the others:
`ServicesSafe` and `PagesSafe` collect the safety properties of these runs, `ServicesTyped`
(`TypesOK`) and `PagesTyped` (`PagesTypeOK`) the types. `ExplorerTypes` types the page of a chain:
faults are bounded for each check, not in sum, since lemmas about sums over a set need
induction.

### What is model-checked only

- Liveness: `SignedVoteIsStored`, `EveryJobSettles`, `EveryResponseBroadcast`,
  `BallotIsServed`, `SubmissionIsStored`, `PageIsReleased` (beyond TLAPS).
- That the fair parts of `Live` and `Pages` may be checked part by part: the composition
  theorems speak of steps, not of fairness.

Proved and not in a run of its own: the inductive invariants, `SealedForever`, the
types of `SigningKeys` and `SubmitService`, `BoxPromises`, `FinalizedBoxCloses`,
`FinalizedSurveyCloses`, `CountsAreBallots`, `ParticipationTrue`, `RecordedHasReason` and the refinements
`SurveyBoxRefined` and `PagesUseBallotBox`. Not every inductive invariant is listed
in `PROJECT.json`; each is a theorem of its module.

## 5. What is not modelled, and the plan

Left out, with the reason:

- Surveys: creating, editing and deleting surveys, questions and options, other
  than `deleteOption`: single writes after `checkAdminPermission`. (The deletion of a
  survey does not ask whether it is finalized, and the routes for options ask
  nothing of the survey: there is no guard a race could overtake.)
- Groups: `update`, and votings moved by `votingIds`. Users: the admin routes, a change
  of address, deletion. Mails other than the two that carry a link.
- Audit: checkpoints (never created), security events (one insert each), `tamper` (a
  test helper). A commit of MongoDB that is applied while its answer is lost for longer than
  `withTransaction` tries again (audit.service.ts:588-697): the attempt would fail, and the
  next one append the block again, without a crash or a lapsed lock.
  `OneBlockPerDelivery` says nothing of it.
- Votings: `updateOption`, which nothing calls (see Administration).
- Front end: lists, dashboards, charts, the forms that create and edit, component
  library, translations, theming. They make up about half of the source lines
  and present what the back end answers; none keeps state two actors share.
- RSA and hash arithmetic (library functions), container configuration,
  statistics counters (`global:*` in Redis).

What would add most next:

1. `ResultsPage` behind `BallotBox`: `CountsAreBallots` speaks of the ballots `LiveResults` stores,
   which are a box only by reading both modules.
2. The finalization of a survey as a refinement that keeps the counts, with a box that
   records what was chosen and a deletion of options as an operation of its own.
3. Updates that move votings between groups, with the audit scopes they change.
