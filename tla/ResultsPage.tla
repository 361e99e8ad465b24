------------------------------ MODULE ResultsPage ------------------------------
(***************************************************************************)
(* The results one open voting page shows (syncResults and fetchVoting of  *)
(* useVotings.ts), fed through its socket (lib/socket/socketService.ts,    *)
(* hooks/useSocket.ts) by the room the back end emits to (vote.gateway.ts) *)
(* and by the GET of the voting.  LiveResults is the back end; one of its  *)
(* readers answers the page's voting:join, the others are other visitors'. *)
(***************************************************************************)
EXTENDS LiveResults, Sequences

CONSTANTS
    Joiner,       \* the reader that answers this page's voting:join
    MaxFetches,   \* bound: GETs of the page
    MaxDrops      \* bound: connections lost

VARIABLES
    channel,   \* the socket: "opening", "joining", "room", "offline", "outside"
    inbox,     \* emissions on their way to the page, in order
    counts,     \* the counts of currentVoting, or NoView while there is none
    fetched,   \* the GET under way: what it has counted, what it has yet to
    fetches, drops,
    lapsed     \* history: the page dropped an update, or took older counts

pageVars == <<channel, inbox, counts, fetched, fetches, drops, lapsed>>
resultsPageVars == <<liveVars, pageVars>>

Channels == {"opening", "joining", "room", "offline", "outside"}
PageFetch == [busy : BOOLEAN, view : Views, todo : SUBSET Parts]
NoPageFetch == [busy |-> FALSE, view |-> {}, todo |-> Parts]

ASSUME PageBoundsAssumption == Joiner \in Readers /\ MaxFetches \in Nat /\ MaxDrops \in Nat

-----------------------------------------------------------------------------
(* The socket.                                                             *)

Deliver(view) == inbox' = Append(inbox, view)
ToRoom(view) == IF channel = "room" THEN Deliver(view) ELSE UNCHANGED inbox

\* The effect of useVotingUpdates emits voting:join, which waits in the
\* socket's buffer until it is connected; handleJoin enters the room, and then
\* answers the results.
Join ==
    /\ channel = "opening"
    /\ channel' = "room"
    /\ AskResults(Joiner, "asker")
    /\ UNCHANGED <<inbox, counts, fetched, fetches, drops, lapsed>>

\* The back end forgets the rooms of a lost connection.
LoseConnection ==
    /\ channel = "room" /\ drops < MaxDrops
    /\ channel' = "offline" /\ drops' = drops + 1
    /\ inbox' = <<>>
    /\ UNCHANGED <<liveVars, counts, fetched, fetches, lapsed>>

\* socket.io connects again; nothing emits voting:join again.
Reconnect ==
    /\ channel = "offline" /\ channel' = "outside"
    /\ UNCHANGED <<liveVars, inbox, counts, fetched, fetches, drops, lapsed>>

\* An emission that succeeds reaches every socket of the room.
EmitAndDeliver(v) ==
    /\ EmitAfterVote(v)
    /\ IF liveFaults' = liveFaults THEN ToRoom(live[v].view) ELSE UNCHANGED inbox
    /\ UNCHANGED <<channel, counts, fetched, fetches, drops, lapsed>>

\* Other visitors ask, or an update of the voting does for the room.
OthersAsk(r, to) ==
    /\ r # Joiner /\ AskResults(r, to)
    /\ UNCHANGED pageVars

\* The answer of getResults, to the page that asked or to the room.
AnswerAndDeliver(r) ==
    /\ AnswerResults(r)
    /\ IF r = Joiner \/ live[r].to = "room" THEN ToRoom(live[r].view) ELSE UNCHANGED inbox
    /\ UNCHANGED <<channel, counts, fetched, fetches, drops, lapsed>>

-----------------------------------------------------------------------------
(* The page.                                                               *)

\* syncResults: no currentVoting, no update.  The mutant keeps what it shows.
MutSynced(view) == counts
Synced(view) == IF counts = NoView THEN NoView ELSE view
Hear ==
    /\ inbox # <<>>
    /\ counts' = Synced(Head(inbox))
    /\ lapsed' = (lapsed \/ counts = NoView \/ ~(counts \subseteq Head(inbox)))
    /\ inbox' = Tail(inbox)
    /\ UNCHANGED <<liveVars, channel, fetched, fetches, drops>>

\* fetchVoting, of the first effect and after the visitor's own vote.
FetchVoting ==
    /\ ~fetched.busy /\ fetches < MaxFetches
    /\ fetched' = [NoPageFetch EXCEPT !.busy = TRUE]
    /\ fetches' = fetches + 1
    /\ UNCHANGED <<liveVars, channel, inbox, counts, drops, lapsed>>

\* findOne counts the options, then the abstentions.
CountForFetch ==
    /\ fetched.busy
    /\ \E k \in fetched.todo :
          /\ k = "abstentions" => "options" \notin fetched.todo
          /\ fetched' = [fetched EXCEPT !.view = @ \cup (boxed \cap PartOf(k)), !.todo = @ \ {k}]
    /\ UNCHANGED <<liveVars, channel, inbox, counts, fetches, drops, lapsed>>

\* The request is over.
AfterFetch == NoPageFetch

\* The answer replaces currentVoting, whatever the socket has told meanwhile.
FetchAnswered ==
    /\ fetched.busy /\ fetched.todo = {}
    /\ counts' = fetched.view
    /\ lapsed' = (lapsed \/ (counts # NoView /\ ~(counts \subseteq fetched.view)))
    /\ fetched' = AfterFetch
    /\ UNCHANGED <<liveVars, channel, inbox, fetches, drops>>

-----------------------------------------------------------------------------

ResultsPageInit ==
    /\ LiveInit
    /\ channel = "opening" /\ inbox = <<>>
    /\ counts = NoView /\ fetched = NoPageFetch
    /\ fetches = 0 /\ drops = 0 /\ lapsed = FALSE

BackendStep ==
    /\ \/ \E v \in Voters : CastBallot(v) \/ DropSnapshot(v) \/ CountAfterVote(v)
       \/ \E r \in Readers :
             FindForResults(r) \/ LookUpSnapshot(r) \/ CountForResults(r) \/ KeepSnapshot(r)
       \/ IntervalPasses \/ SnapshotExpires \/ CloseVoting \/ SealVoting
    /\ UNCHANGED pageVars

ResultsPageNext ==
    \/ BackendStep
    \/ \E v \in Voters : EmitAndDeliver(v)
    \/ \E r \in Readers : AnswerAndDeliver(r) \/ \E to \in Audience : OthersAsk(r, to)
    \/ Join
    \/ LoseConnection \/ Reconnect
    \/ Hear \/ FetchVoting \/ CountForFetch \/ FetchAnswered

ResultsPageSpec == ResultsPageInit /\ [][ResultsPageNext]_resultsPageVars

-----------------------------------------------------------------------------
(* Properties.                                                             *)

\* Types; a page that does not fetch holds no counts of an earlier GET.
ResultsPageTypeOK ==
    /\ channel \in Channels /\ inbox \in Seq(Views)
    /\ counts \in Views \cup {NoView} /\ lapsed \in BOOLEAN
    /\ fetched \in PageFetch /\ (~fetched.busy => fetched = NoPageFetch)
    /\ fetches \in 0..MaxFetches /\ drops \in 0..MaxDrops

\* Nothing is under way to the page.
AtRest ==
    /\ \A v \in Voters : livePc[v] \in {"uncast", "done"}
    /\ \A r \in Readers : livePc[r] = "idle"
    /\ inbox = <<>> /\ ~fetched.busy /\ counts # NoView

\* The ballots the page should show: of a sealed voting, those of the result.
Owed == IF sealedView = NoView THEN boxed ELSE boxed \cap sealedView

\* A page in the room that has come to rest shows every ballot, unless Redis
\* failed, it was answered from a snapshot that had raced the ballot, it dropped
\* an update while it was loading, or it took counts older than those it showed:
\* the order of join and GET, of votes that count and emit on different replicas
\* and of the page's own reads leaves no other gap.
GapIsALapse ==
    AtRest /\ channel = "room" /\ liveFaults = 0 => Owed \ raced \subseteq counts \/ lapsed
=============================================================================
