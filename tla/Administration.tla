---------------------------- MODULE Administration ----------------------------
(***************************************************************************)
(* Groups, their members, and what administrators do to the votings of a   *)
(* group (groups.service.ts, votings.service.ts with its repository).      *)
(*                                                                         *)
(* Every handler reads first and writes in a later query, in no            *)
(* transaction: a membership or the row of the voting may have changed in  *)
(* between.  updateOption of votings.service.ts has no caller.             *)
(***************************************************************************)
EXTENDS Naturals, FiniteSets

CONSTANTS
    Members,        \* users
    Groups,         \* ids of groups, each created once
    Votings,        \* ids of votings, each created once
    GroupOf,        \* [Votings -> Groups]
    AdminRequests,  \* bound: the requests sent, a subset of AdminRequest
    Handlers,       \* requests in flight at once, over all replicas
    Nobody,         \* no creator, no request
    InClear,        \* users whose address is stored as it is, not encrypted
    MaxAdminFaults  \* bound: requests that fail half-way

VARIABLES
    adminPc, adminArg,     \* the requests
    foundIntact,           \* history: those that read their voting intact
    creator, role,         \* Group.creatorId and the UserGroup rows
    goneGroups,            \* deleted groups
    votingRow,             \* Voting
    emptied, overtakenAct, \* history
    adminFaults

requestVars == <<adminPc, adminArg, foundIntact>>
groupVars == <<creator, role, goneGroups, emptied>>
contentVars == <<votingRow, overtakenAct>>
adminVars == <<requestVars, groupVars, contentVars, adminFaults>>

AdminRoles == {"OWNER", "ADMIN", "MODERATOR"}
Roles == AdminRoles \cup {"MEMBER", "none"}   \* none: no row
NoVotingRow == [made |-> FALSE]
VotingRow == [made : {TRUE}, isFinalized : BOOLEAN, isDeleted : BOOLEAN, spoilt : BOOLEAN]

MemberOps == {"addUsers", "removeUsers", "changeUserRole"}
GroupOps == MemberOps \cup {"create", "delete"}
RowOps == {"update", "deleteVoting", "vote", "finalize"}
VotingOps == RowOps \cup {"createVoting"}
GroupRequest == [op : GroupOps, by : Members, group : Groups, who : SUBSET Members, to : Roles]
VotingRequest == [op : VotingOps, by : Members, voting : Votings]
AdminRequest == GroupRequest \cup VotingRequest
AdminPCs == {"idle", "find", "permit", "act", "dropGroup"}

ASSUME GroupOfAssumption == GroupOf \in [Votings -> Groups] /\ Nobody \notin Members
ASSUME InClearAssumption == InClear \subseteq Members
ASSUME AdminRequestsAssumption ==
    /\ \A a \in AdminRequests : a \in AdminRequest
    /\ \A a \in AdminRequests : a.op \in MemberOps \cup {"create"} => a.who # {}
    /\ \A a \in AdminRequests : a.op = "changeUserRole" => a.to # "none"
ASSUME AdminFaultsAssumption == MaxAdminFaults \in Nat

NoRequest == [op |-> "none"]

-----------------------------------------------------------------------------
(* What the handlers read.                                                 *)

Op(p) == adminArg[p].op
VotingAt(p) == adminArg[p].voting
GroupAt(p) == IF Op(p) \in VotingOps THEN GroupOf[VotingAt(p)]
              ELSE adminArg[p].group
GroupThere(g) == creator[g] # Nobody /\ g \notin goneGroups
MembersOf(g) == {u \in Members : role[g][u] # "none"}
Owners(g) == {u \in Members : role[g][u] = "OWNER"}
HasContent(g) == \E v \in Votings : GroupOf[v] = g /\ votingRow[v].made

\* checkAdminPermission; the owner alone deletes a group.  A voter was asked when
\* they signed, and a platform administrator finalizes any voting.
Permits(p) ==
    LET mine == role[GroupAt(p)][adminArg[p].by] IN
    \/ Op(p) \in {"vote", "finalize"} \/ mine = "OWNER"
    \/ Op(p) # "delete" /\ mine \in AdminRoles

\* changeUserRole: OWNER is not given away.  The mutant lets it be.
MutMayGive(r) == TRUE
MayGive(r) == r # "OWNER"

Intact(v) ==
    votingRow[v].made /\ ~votingRow[v].isFinalized /\ ~votingRow[v].isDeleted

\* What the handlers ask of the row: findVotingRaw finds none that is deleted,
\* then isFinalized.  The mutant lacks the second check.
MutRowAdmits(v) == votingRow[v].made /\ ~votingRow[v].isDeleted
RowAdmits(v) ==
    votingRow[v].made /\ ~votingRow[v].isDeleted /\ ~votingRow[v].isFinalized

-----------------------------------------------------------------------------

AdminGoto(p, label) == adminPc' = [adminPc EXCEPT ![p] = label] /\ UNCHANGED adminArg
AdminEnd(p) ==
    /\ adminPc' = [adminPc EXCEPT ![p] = "idle"]
    /\ adminArg' = [adminArg EXCEPT ![p] = NoRequest]

\* A request is over, and so is what it had read.
Concluded(p) == AdminEnd(p) /\ foundIntact' = foundIntact \ {p}

\* A step that goes on when its guard holds and ends the request when not.
Check(p, from, guard, to) ==
    /\ adminPc[p] = from
    /\ \/ guard /\ AdminGoto(p, to)
       \/ ~guard /\ AdminEnd(p)
    /\ UNCHANGED <<groupVars, contentVars, adminFaults>>

\* createGroup asks nobody, the operations on a voting read its row first.
AdminBegin(p) ==
    /\ adminPc[p] = "idle"
    /\ \E a \in AdminRequests :
          /\ adminArg' = [adminArg EXCEPT ![p] = a]
          /\ adminPc' = [adminPc EXCEPT ![p] =
                IF a.op = "create" THEN "act"
                ELSE IF a.op \in RowOps THEN "find" ELSE "permit"]
    /\ UNCHANGED <<foundIntact, groupVars, contentVars, adminFaults>>

FindVoting(p) ==
    /\ Check(p, "find", RowAdmits(VotingAt(p)), "permit")
    /\ foundIntact' = IF Intact(VotingAt(p)) THEN foundIntact \cup {p} ELSE foundIntact

CheckPermission(p) ==
    /\ Check(p, "permit", Permits(p), "act")
    /\ foundIntact' = IF Permits(p) THEN foundIntact ELSE foundIntact \ {p}

-----------------------------------------------------------------------------
(* The writes on a group.                                                  *)

\* A write that the database takes if ok, and refuses otherwise.
ActOnGroup(p, op, ok, newCreator, newRoles) ==
    LET g == GroupAt(p) IN
    /\ adminPc[p] = "act" /\ Op(p) = op
    /\ \/ /\ ok
          /\ creator' = [creator EXCEPT ![g] = newCreator]
          /\ role' = [role EXCEPT ![g] = newRoles]
          /\ emptied' = IF op = "removeUsers" /\ \A u \in Members : newRoles[u] = "none"
                        THEN emptied \cup {g} ELSE emptied
          /\ UNCHANGED goneGroups
       \/ ~ok /\ UNCHANGED groupVars
    /\ Concluded(p)
    /\ UNCHANGED <<contentVars, adminFaults>>

\* getUserIdsByEmails compares the addresses with the stored column, which holds
\* ciphertext but for rows from before the encryption: it finds those users only,
\* and a creation that names another is refused.
CreateGroup(p) ==
    LET a == adminArg[p] IN
    ActOnGroup(p, "create", creator[a.group] = Nobody /\ a.who \subseteq InClear, a.by,
               [u \in Members |-> IF u = a.by THEN "OWNER"
                                  ELSE IF u \in a.who THEN "MEMBER" ELSE "none"])

\* createMany with skipDuplicates.
AddUsers(p) ==
    LET a == adminArg[p] IN
    ActOnGroup(p, "addUsers", GroupThere(a.group), creator[a.group],
               [u \in Members |-> IF u \in a.who /\ role[a.group][u] = "none"
                                  THEN "MEMBER" ELSE role[a.group][u]])

\* deleteMany: the owner and whoever asks are not spared.
RemoveUsers(p) ==
    LET a == adminArg[p] IN
    ActOnGroup(p, "removeUsers", GroupThere(a.group), creator[a.group],
               [u \in Members |-> IF u \in a.who THEN "none" ELSE role[a.group][u]])

\* The creator keeps their role; the update needs a row.
ChangeUserRole(p) ==
    LET a == adminArg[p] IN
    Op(p) = "changeUserRole" /\ \E u \in a.who :
        ActOnGroup(p, "changeUserRole",
                   /\ MayGive(a.to) /\ GroupThere(a.group) /\ u # creator[a.group]
                   /\ role[a.group][u] # "none",
                   creator[a.group], [role[a.group] EXCEPT ![u] = a.to])

\* delete: the memberships ...
DropMemberships(p) ==
    LET g == GroupAt(p) IN
    /\ adminPc[p] = "act" /\ Op(p) = "delete"
    /\ role' = [role EXCEPT ![g] = [u \in Members |-> "none"]]
    /\ AdminGoto(p, "dropGroup")
    /\ UNCHANGED <<foundIntact, creator, goneGroups, emptied, contentVars, adminFaults>>

\* The deletion of the group; the mutant forgets it.
MutWithout(g) == goneGroups
Without(g) == goneGroups \cup {g}

\* ... then the group, unless a voting or a membership still refers to it.
DropGroup(p) ==
    LET g == GroupAt(p) IN
    /\ adminPc[p] = "dropGroup"
    /\ IF HasContent(g) \/ MembersOf(g) # {}
       THEN UNCHANGED goneGroups ELSE goneGroups' = Without(g)
    /\ Concluded(p)
    /\ UNCHANGED <<creator, role, emptied, contentVars, adminFaults>>

-----------------------------------------------------------------------------
(* The writes on a voting.  None asks again what the guards asked.         *)

ActOnVoting(p, op, row) ==
    LET v == VotingAt(p) IN
    /\ adminPc[p] = "act" /\ Op(p) = op
    /\ votingRow' = [votingRow EXCEPT ![v] = row]
    /\ overtakenAct' = IF p \in foundIntact /\ ~Intact(v) THEN overtakenAct \cup {v}
                       ELSE overtakenAct
    /\ Concluded(p)
    /\ UNCHANGED <<groupVars, adminFaults>>

\* createVoting; the foreign key wants the group, the id is new.
CreateVoting(p) ==
    LET v == VotingAt(p) IN
    /\ adminPc[p] = "act" /\ Op(p) = "createVoting"
    /\ votingRow' = IF votingRow[v].made \/ ~GroupThere(GroupOf[v]) THEN votingRow
                    ELSE [votingRow EXCEPT ![v] =
                            [made |-> TRUE, isFinalized |-> FALSE, isDeleted |-> FALSE,
                             spoilt |-> FALSE]]
    /\ Concluded(p)
    /\ UNCHANGED <<groupVars, overtakenAct, adminFaults>>

RowAt(p) == votingRow[VotingAt(p)]
\* What finalized or deleted votings should not see any more.
Spoilt(p) == RowAt(p).spoilt \/ RowAt(p).isFinalized \/ RowAt(p).isDeleted

\* Title, rules and times.
UpdateVoting(p) == ActOnVoting(p, "update", [RowAt(p) EXCEPT !.spoilt = Spoilt(p)])

SoftDeleteVoting(p) == ActOnVoting(p, "deleteVoting", [RowAt(p) EXCEPT !.isDeleted = TRUE])

\* vote and finalizeVoting of VoteService, by what they read and write here.
StoreBallot(p) == ActOnVoting(p, "vote", [RowAt(p) EXCEPT !.spoilt = Spoilt(p)])

Finalize(p) == ActOnVoting(p, "finalize", [RowAt(p) EXCEPT !.isFinalized = TRUE])

-----------------------------------------------------------------------------

\* A query fails or the replica dies: what is done stays done.
AdminFails(p) ==
    /\ adminPc[p] # "idle" /\ adminFaults < MaxAdminFaults
    /\ adminFaults' = adminFaults + 1
    /\ Concluded(p)
    /\ UNCHANGED <<groupVars, contentVars>>

AdminInit ==
    /\ adminPc = [p \in Handlers |-> "idle"]
    /\ adminArg = [p \in Handlers |-> NoRequest]
    /\ foundIntact = {}
    /\ creator = [g \in Groups |-> Nobody]
    /\ role = [g \in Groups |-> [u \in Members |-> "none"]]
    /\ votingRow = [v \in Votings |-> NoVotingRow]
    /\ goneGroups = {} /\ emptied = {} /\ overtakenAct = {} /\ adminFaults = 0

GroupStep(p) ==
    \/ CreateGroup(p) \/ AddUsers(p) \/ RemoveUsers(p) \/ ChangeUserRole(p)
    \/ DropMemberships(p) \/ DropGroup(p)

VotingStep(p) ==
    \/ CreateVoting(p) \/ UpdateVoting(p) \/ SoftDeleteVoting(p)
    \/ StoreBallot(p) \/ Finalize(p)

AdminNext ==
    \E p \in Handlers :
        \/ AdminBegin(p) \/ FindVoting(p) \/ CheckPermission(p)
        \/ GroupStep(p) \/ VotingStep(p) \/ AdminFails(p)

AdminSpec == AdminInit /\ [][AdminNext]_adminVars

-----------------------------------------------------------------------------
(* Properties.                                                             *)

AdminTypeOK ==
    /\ adminPc \in [Handlers -> AdminPCs]
    /\ adminArg \in [Handlers -> AdminRequest \cup {NoRequest}]
    /\ foundIntact \subseteq Handlers
    /\ creator \in [Groups -> Members \cup {Nobody}]
    /\ role \in [Groups -> [Members -> Roles]]
    /\ votingRow \in [Votings -> VotingRow \cup {NoVotingRow}]
    /\ goneGroups \subseteq Groups /\ emptied \subseteq Groups /\ overtakenAct \subseteq Votings
    /\ adminFaults \in 0..MaxAdminFaults

\* Nobody becomes an owner once the group is created: an owner who was removed
\* from the group comes back as a member, and the group cannot be deleted again.
NoNewOwner ==
    [][\A g \in Groups : GroupThere(g) => Owners(g)' \subseteq Owners(g)]_adminVars

\* A group loses its last member only by a removal that names everybody, or by
\* a deletion: one that is between its two writes, that failed there, or that
\* the database refused because the group has votings.
MemberlessIsExplained ==
    \A g \in Groups : GroupThere(g) /\ MembersOf(g) = {} =>
        \/ g \in emptied \/ HasContent(g) \/ adminFaults > 0
        \/ \E p \in Handlers : adminPc[p] = "dropGroup" /\ GroupAt(p) = g

\* A voting is deleted and finalized both, takes a ballot or changes after
\* either, only if the row was finalized or deleted between the time a request
\* read it, intact, and the write of that request.
FrozenUnlessOvertaken ==
    \A v \in Votings : votingRow[v].made /\ v \notin overtakenAct =>
        ~(votingRow[v].isFinalized /\ votingRow[v].isDeleted) /\ ~votingRow[v].spoilt
=============================================================================
