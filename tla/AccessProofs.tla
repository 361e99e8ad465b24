------------------------------ MODULE AccessProofs ------------------------------
(***************************************************************************)
(* Proofs about Administration, Session and Accounts, which share no       *)
(* state: who may do what, for any number of groups, members, votings,     *)
(* accounts, links and requests in flight.                                 *)
(*   - groups and votings: who may become an owner, how a group loses its  *)
(*     last member, and what a frozen voting may not suffer.               *)
(*   - sessions: SessionInv is inductive next to the types and says what a *)
(*     browser that is not stray holds: cookies, a shown user, a refresh   *)
(*     and answers under way of one account.                               *)
(*   - accounts: AccountInv says what each request is about, and that a    *)
(*     token that has worked is used.                                      *)
(***************************************************************************)
EXTENDS Administration, Session, Accounts, TLAPS

\* What a request has established by the step it has reached.
RequestsOK ==
    \A p \in Handlers :
        /\ adminPc[p] # "idle" => adminArg[p] \in AdminRequests
        /\ adminPc[p] = "find" => Op(p) \in RowOps
        /\ adminPc[p] \in {"permit", "act"} /\ Op(p) \in RowOps =>
              votingRow[VotingAt(p)].made /\ p \in foundIntact
        /\ adminPc[p] = "dropGroup" => Op(p) = "delete"

AdminInv == AdminTypeOK /\ RequestsOK /\ FrozenUnlessOvertaken /\ MemberlessIsExplained

-----------------------------------------------------------------------------
(* Requests.                                                               *)

LEMMA GroupRequestTyped ==
    ASSUME AdminTypeOK, RequestsOK, NEW p \in Handlers, adminPc[p] # "idle", Op(p) \in GroupOps
    PROVE  /\ adminArg[p].by \in Members /\ adminArg[p].group \in Groups
           /\ adminArg[p].who \subseteq Members /\ adminArg[p].to \in Roles
           /\ GroupAt(p) = adminArg[p].group
BY AdminRequestsAssumption
DEF RequestsOK, Op, GroupAt, AdminRequest, GroupRequest, VotingRequest, GroupOps, MemberOps,
    VotingOps, RowOps

LEMMA VotingRequestTyped ==
    ASSUME AdminTypeOK, RequestsOK, NEW p \in Handlers, adminPc[p] # "idle", Op(p) \in VotingOps
    PROVE  VotingAt(p) \in Votings
BY AdminRequestsAssumption
DEF RequestsOK, Op, VotingAt, AdminRequest, GroupRequest, VotingRequest, GroupOps, MemberOps,
    VotingOps, RowOps

LEMMA RequestEnds ==
    ASSUME AdminTypeOK, RequestsOK, NEW p \in Handlers, AdminEnd(p),
           foundIntact' \subseteq Handlers, foundIntact \ {p} \subseteq foundIntact',
           \A v \in Votings : votingRow[v].made => votingRow'[v].made
    PROVE  /\ adminPc' \in [Handlers -> AdminPCs]
           /\ adminArg' \in [Handlers -> AdminRequest \cup {NoRequest}]
           /\ RequestsOK'
<1>1. /\ adminPc' \in [Handlers -> AdminPCs]
      /\ adminArg' \in [Handlers -> AdminRequest \cup {NoRequest}]
  BY DEF AdminTypeOK, AdminEnd, AdminPCs
<1>2. ASSUME NEW q \in Handlers, q # p
      PROVE  adminPc'[q] = adminPc[q] /\ adminArg'[q] = adminArg[q]
  BY <1>2 DEF AdminTypeOK, AdminEnd
<1>3. adminPc'[p] = "idle"
  BY DEF AdminTypeOK, AdminEnd
<1>4. ASSUME NEW q \in Handlers, adminPc[q] # "idle", Op(q) \in RowOps
      PROVE  VotingAt(q) \in Votings
  BY <1>4, VotingRequestTyped DEF VotingOps
<1>5. RequestsOK'
  BY <1>2, <1>3, <1>4 DEF RequestsOK, Op, VotingAt, RowOps
<1> QED BY <1>1, <1>5

\* A voting once made stays made, and groups keep what a request leaves alone.
LEMMA BeginAndGuards ==
    ASSUME AdminInv, NEW p \in Handlers,
           AdminBegin(p) \/ FindVoting(p) \/ CheckPermission(p)
    PROVE  AdminTypeOK' /\ RequestsOK' /\ UNCHANGED <<groupVars, contentVars, adminFaults>>
<1> USE DEF AdminInv, AdminPCs
<1>1. CASE AdminBegin(p)
  <2>1. PICK a \in AdminRequests :
            /\ adminPc[p] = "idle"
            /\ adminArg' = [adminArg EXCEPT ![p] = a]
            /\ adminPc' = [adminPc EXCEPT ![p] =
                  IF a.op = "create" THEN "act"
                  ELSE IF a.op \in RowOps THEN "find" ELSE "permit"]
            /\ UNCHANGED <<foundIntact, groupVars, contentVars, adminFaults>>
    BY <1>1 DEF AdminBegin
  <2>2. AdminTypeOK'
    BY <2>1, AdminRequestsAssumption DEF AdminTypeOK, groupVars, contentVars
  <2>3. RequestsOK'
    BY <2>1 DEF RequestsOK, AdminTypeOK, Op, VotingAt, RowOps, contentVars
  <2> QED BY <2>1, <2>2, <2>3
<1>2. CASE FindVoting(p) \/ CheckPermission(p)
  <2>1. /\ UNCHANGED <<groupVars, contentVars, adminFaults>>
        /\ foundIntact' \subseteq Handlers /\ foundIntact \ {p} \subseteq foundIntact'
        /\ \/ AdminEnd(p)
           \/ /\ adminPc[p] = "find" /\ RowAdmits(VotingAt(p)) /\ AdminGoto(p, "permit")
              /\ p \in foundIntact'
           \/ /\ adminPc[p] = "permit" /\ AdminGoto(p, "act") /\ foundIntact' = foundIntact
    <3>1. CASE FindVoting(p)
      BY <3>1 DEF FindVoting, Check, RowAdmits, Intact, AdminTypeOK
    <3>2. CASE CheckPermission(p)
      BY <3>2 DEF CheckPermission, Check, AdminTypeOK
    <3> QED BY <1>2, <3>1, <3>2
  <2>2. CASE AdminEnd(p)
    BY <2>1, <2>2, RequestEnds DEF AdminTypeOK, groupVars, contentVars
  <2>3. CASE ~AdminEnd(p)
    <3>1. AdminTypeOK'
      BY <2>1, <2>3 DEF AdminTypeOK, AdminGoto, groupVars, contentVars
    <3>2. UNCHANGED <<adminArg, votingRow>>
          /\ \A q \in Handlers \ {p} : adminPc'[q] = adminPc[q]
      BY <2>1, <2>3 DEF AdminTypeOK, AdminGoto, contentVars
    <3>3. ASSUME NEW q \in Handlers, q # p
          PROVE  /\ adminPc'[q] = adminPc[q] /\ Op(q)' = Op(q) /\ VotingAt(q)' = VotingAt(q)
                 /\ q \in foundIntact => q \in foundIntact'
      BY <2>1, <3>2, <3>3 DEF Op, VotingAt
    <3>4. Op(p)' = Op(p) /\ VotingAt(p)' = VotingAt(p) /\ adminArg'[p] = adminArg[p]
      BY <3>2 DEF Op, VotingAt
    <3>5. /\ adminPc[p] # "idle" /\ adminPc'[p] \in {"permit", "act"}
          /\ Op(p) \in RowOps => votingRow[VotingAt(p)].made /\ p \in foundIntact'
      BY <2>1, <2>3 DEF AdminTypeOK, RequestsOK, AdminGoto, RowAdmits, RowOps
    <3>6. RequestsOK'
      BY <3>2, <3>3, <3>4, <3>5 DEF RequestsOK, RowOps
    <3> QED BY <2>1, <3>1, <3>6
  <2> QED BY <2>2, <2>3
<1> QED BY <1>1, <1>2

-----------------------------------------------------------------------------
(* Writes on a group.                                                      *)

LEMMA ActOnGroupTyped ==
    ASSUME AdminInv, NEW p \in Handlers, NEW op \in GroupOps, NEW ok, NEW c, NEW roles,
           ActOnGroup(p, op, ok, c, roles),
           ok => c \in Members \cup {Nobody} /\ roles \in [Members -> Roles]
    PROVE  AdminTypeOK' /\ RequestsOK'
<1> USE DEF AdminInv
<1>1. /\ adminPc[p] = "act" /\ Op(p) = op /\ AdminEnd(p)
      /\ foundIntact' = foundIntact \ {p} /\ foundIntact' \subseteq Handlers
  BY DEF ActOnGroup, Concluded, AdminTypeOK
<1>2. GroupAt(p) \in Groups
  BY <1>1, GroupRequestTyped
<1>3. /\ adminPc' \in [Handlers -> AdminPCs]
      /\ adminArg' \in [Handlers -> AdminRequest \cup {NoRequest}]
      /\ RequestsOK'
  BY <1>1, RequestEnds DEF ActOnGroup, contentVars
<1>4. creator' \in [Groups -> Members \cup {Nobody}] /\ role' \in [Groups -> [Members -> Roles]]
  <2>1. CASE ok /\ role' = [role EXCEPT ![GroupAt(p)] = roles]
                /\ creator' = [creator EXCEPT ![GroupAt(p)] = c]
    BY <1>2, <2>1 DEF AdminTypeOK
  <2>2. CASE UNCHANGED <<role, creator>>
    BY <2>2 DEF AdminTypeOK
  <2> QED BY <2>1, <2>2 DEF ActOnGroup, groupVars
<1>5. goneGroups' \subseteq Groups /\ emptied' \subseteq Groups
  BY <1>2 DEF ActOnGroup, AdminTypeOK, groupVars
<1>6. UNCHANGED <<votingRow, overtakenAct, adminFaults>>
  BY DEF ActOnGroup, contentVars
<1>7. AdminTypeOK'
  BY <1>1, <1>3, <1>4, <1>5, <1>6 DEF AdminTypeOK
<1> QED BY <1>3, <1>7

\* A group has its creator and roles from before, or those the write gave it.
LEMMA ActOnGroupRoles ==
    ASSUME AdminTypeOK, NEW p \in Handlers, NEW op, NEW ok, NEW c, NEW roles,
           ActOnGroup(p, op, ok, c, roles), NEW g \in Groups
    PROVE  \/ role'[g] = role[g] /\ creator'[g] = creator[g]
           \/ ok /\ g = GroupAt(p) /\ role'[g] = roles /\ creator'[g] = c
BY DEF ActOnGroup, AdminTypeOK, groupVars

LEMMA GroupStepTyped ==
    ASSUME AdminInv, NEW p \in Handlers, GroupStep(p)
    PROVE  AdminTypeOK' /\ RequestsOK'
<1> USE DEF AdminInv
<1>0. adminPc[p] \in {"act", "dropGroup"} /\ Op(p) \in GroupOps
  BY DEF GroupStep, CreateGroup, AddUsers, RemoveUsers, ChangeUserRole, DropMemberships,
         DropGroup, ActOnGroup, GroupOps, MemberOps, RequestsOK
<1>1. /\ adminArg[p].by \in Members /\ adminArg[p].group \in Groups
      /\ adminArg[p].who \subseteq Members /\ adminArg[p].to \in Roles
      /\ GroupAt(p) = adminArg[p].group
  BY <1>0, GroupRequestTyped
<1>2. role[adminArg[p].group] \in [Members -> Roles]
      /\ creator[adminArg[p].group] \in Members \cup {Nobody}
  BY <1>1 DEF AdminTypeOK
<1>3. CASE CreateGroup(p)
  BY <1>1, <1>3, ActOnGroupTyped
  DEF CreateGroup, GroupOps, Roles, AdminRoles
<1>4. CASE AddUsers(p)
  BY <1>1, <1>2, <1>4, ActOnGroupTyped DEF AddUsers, GroupOps, MemberOps, Roles
<1>5. CASE RemoveUsers(p)
  BY <1>1, <1>2, <1>5, ActOnGroupTyped DEF RemoveUsers, GroupOps, MemberOps, Roles
<1>6. CASE ChangeUserRole(p)
  BY <1>1, <1>2, <1>6, ActOnGroupTyped DEF ChangeUserRole, GroupOps, MemberOps
<1>7. CASE DropMemberships(p)
  <2>1. AdminTypeOK'
    BY <1>1, <1>7
    DEF DropMemberships, AdminGoto, AdminTypeOK, AdminPCs, contentVars, Roles
  <2>2. RequestsOK'
    BY <1>7 DEF DropMemberships, AdminGoto, RequestsOK, AdminTypeOK, Op, VotingAt, contentVars
  <2> QED BY <2>1, <2>2
<1>8. CASE DropGroup(p)
  <2>0. foundIntact' = foundIntact \ {p} /\ foundIntact' \subseteq Handlers
    BY <1>8 DEF DropGroup, Concluded, AdminTypeOK
  <2>1. /\ adminPc' \in [Handlers -> AdminPCs]
        /\ adminArg' \in [Handlers -> AdminRequest \cup {NoRequest}]
        /\ RequestsOK'
    BY <1>8, <2>0, RequestEnds DEF DropGroup, Concluded, contentVars
  <2>2. AdminTypeOK'
    BY <1>1, <1>8, <2>0, <2>1 DEF DropGroup, Without, AdminTypeOK, contentVars
  <2> QED BY <2>1, <2>2
<1> QED BY <1>3, <1>4, <1>5, <1>6, <1>7, <1>8 DEF GroupStep

LEMMA GroupStepOwners ==
    ASSUME AdminInv, NEW p \in Handlers, GroupStep(p), NEW g \in Groups, GroupThere(g)
    PROVE  Owners(g)' \subseteq Owners(g)
<1> USE DEF AdminInv, Owners
<1>0. adminPc[p] # "idle" /\ Op(p) \in GroupOps
  BY DEF GroupStep, CreateGroup, AddUsers, RemoveUsers, ChangeUserRole, DropMemberships,
         DropGroup, ActOnGroup, GroupOps, MemberOps, RequestsOK
<1>1. GroupAt(p) = adminArg[p].group
  BY <1>0, GroupRequestTyped
<1>2. CASE CreateGroup(p)
  <2> DEFINE h == adminArg[p].group
             ok == creator[h] = Nobody /\ adminArg[p].who \subseteq InClear
             roles == [u \in Members |-> IF u = adminArg[p].by THEN "OWNER"
                                         ELSE IF u \in adminArg[p].who THEN "MEMBER" ELSE "none"]
  <2>0. ActOnGroup(p, "create", ok, adminArg[p].by, roles) /\ (ok => creator[h] = Nobody)
    BY <1>2 DEF CreateGroup
  <2> HIDE DEF ok, roles
  <2>1. role'[g] = role[g] \/ creator[g] = Nobody
    BY <1>1, <2>0, ActOnGroupRoles
  <2> QED BY <2>1 DEF GroupThere
<1>3. CASE AddUsers(p)
  <2> DEFINE roles == [u \in Members |-> IF u \in adminArg[p].who /\ role[g][u] = "none"
                                         THEN "MEMBER" ELSE role[g][u]]
  <2>1. role'[g] = role[g] \/ role'[g] = roles
    BY <1>1, <1>3, ActOnGroupRoles DEF AddUsers
  <2> QED BY <2>1
<1>4. CASE RemoveUsers(p)
  <2> DEFINE roles == [u \in Members |-> IF u \in adminArg[p].who THEN "none" ELSE role[g][u]]
  <2>1. role'[g] = role[g] \/ role'[g] = roles
    BY <1>1, <1>4, ActOnGroupRoles DEF RemoveUsers
  <2> QED BY <2>1
<1>5. CASE ChangeUserRole(p)
  <2>1. \/ role'[g] = role[g]
        \/ \E w \in adminArg[p].who :
              adminArg[p].to # "OWNER" /\ role'[g] = [role[g] EXCEPT ![w] = adminArg[p].to]
    <3>1. PICK w \in adminArg[p].who :
              ActOnGroup(p, "changeUserRole",
                   /\ MayGive(adminArg[p].to) /\ GroupThere(adminArg[p].group)
                   /\ w # creator[adminArg[p].group]
                   /\ role[adminArg[p].group][w] # "none",
                   creator[adminArg[p].group],
                   [role[adminArg[p].group] EXCEPT ![w] = adminArg[p].to])
      BY <1>5 DEF ChangeUserRole
    <3>2. \/ role'[g] = role[g]
          \/ /\ MayGive(adminArg[p].to) /\ g = adminArg[p].group
             /\ role'[g] = [role[adminArg[p].group] EXCEPT ![w] = adminArg[p].to]
      <4> DEFINE ok == /\ MayGive(adminArg[p].to) /\ GroupThere(adminArg[p].group)
                       /\ w # creator[adminArg[p].group]
                       /\ role[adminArg[p].group][w] # "none"
                 roles == [role[adminArg[p].group] EXCEPT ![w] = adminArg[p].to]
      <4>1. ActOnGroup(p, "changeUserRole", ok, creator[adminArg[p].group], roles)
        BY <3>1
      <4>2. ok => MayGive(adminArg[p].to)
        OBVIOUS
      <4> HIDE DEF ok, roles
      <4>3. \/ role'[g] = role[g]
            \/ ok /\ g = GroupAt(p) /\ role'[g] = roles
        BY <4>1, ActOnGroupRoles
      <4> QED BY <1>1, <4>2, <4>3 DEF roles
    <3> QED BY <3>2 DEF MayGive
  <2> QED BY <2>1 DEF AdminTypeOK
<1>6. CASE DropMemberships(p)
  BY <1>6 DEF DropMemberships, AdminTypeOK
<1>7. CASE DropGroup(p)
  BY <1>7 DEF DropGroup
<1> QED BY <1>2, <1>3, <1>4, <1>5, <1>6, <1>7 DEF GroupStep

-----------------------------------------------------------------------------
(* Who is left in a group.                                                 *)

\* What explains a group without members; nothing else may.
Explained(g) ==
    \/ g \in emptied \/ HasContent(g) \/ adminFaults > 0
    \/ \E p \in Handlers : adminPc[p] = "dropGroup" /\ GroupAt(p) = g

\* An explanation stays, unless the request that gave it drops the group.
LEMMA ExplanationStays ==
    ASSUME AdminInv, NEW p \in Handlers, NEW g \in Groups, Explained(g),
           \A q \in Handlers \ {p} : adminPc'[q] = adminPc[q] /\ adminArg'[q] = adminArg[q],
           emptied \subseteq emptied',
           \A v \in Votings : votingRow[v].made => votingRow'[v].made,
           adminFaults' \in {adminFaults, adminFaults + 1}
    PROVE  Explained(g)' \/ (adminPc[p] = "dropGroup" /\ GroupAt(p) = g)
<1>1. CASE g \in emptied \/ HasContent(g)
  BY <1>1 DEF Explained, HasContent
<1>2. CASE adminFaults > 0
  BY <1>2, AdminFaultsAssumption DEF Explained, AdminInv, AdminTypeOK
<1>3. ASSUME NEW q \in Handlers, q # p, adminPc[q] = "dropGroup", GroupAt(q) = g
      PROVE  Explained(g)'
  <2>1. adminPc'[q] = "dropGroup" /\ GroupAt(q)' = g
    BY <1>3 DEF GroupAt, Op, VotingAt
  <2> QED BY <2>1 DEF Explained
<1> QED BY <1>1, <1>2, <1>3 DEF Explained

\* The other requests do not move.
LEMMA OthersWait ==
    ASSUME AdminTypeOK, NEW p \in Handlers, NEW q \in Handlers, q # p,
           \/ AdminBegin(p) \/ FindVoting(p) \/ CheckPermission(p)
           \/ GroupStep(p) \/ VotingStep(p) \/ AdminFails(p)
    PROVE  adminPc'[q] = adminPc[q] /\ adminArg'[q] = adminArg[q]
<1> USE DEF AdminTypeOK, AdminGoto, Concluded, AdminEnd
<1>1. CASE AdminBegin(p) \/ FindVoting(p) \/ CheckPermission(p)
  BY <1>1 DEF AdminBegin, FindVoting, CheckPermission, Check
<1>2. CASE GroupStep(p)
  BY <1>2 DEF GroupStep, CreateGroup, AddUsers, RemoveUsers, ChangeUserRole, ActOnGroup,
              DropMemberships, DropGroup
<1>3. CASE VotingStep(p) \/ AdminFails(p)
  BY <1>3 DEF VotingStep, CreateVoting, UpdateVoting, SoftDeleteVoting,
              StoreBallot, Finalize, ActOnVoting, AdminFails
<1> QED BY <1>1, <1>2, <1>3

LEMMA GroupStepExplained ==
    ASSUME AdminInv, NEW p \in Handlers, GroupStep(p)
    PROVE  MemberlessIsExplained'
<1> USE DEF AdminInv
<1> SUFFICES ASSUME NEW g \in Groups, GroupThere(g)', MembersOf(g)' = {}
             PROVE  Explained(g)'
  BY DEF MemberlessIsExplained, Explained
<1>0. adminPc[p] \in {"act", "dropGroup"} /\ Op(p) \in GroupOps
  BY DEF GroupStep, CreateGroup, AddUsers, RemoveUsers, ChangeUserRole, DropMemberships,
         DropGroup, ActOnGroup, GroupOps, MemberOps, RequestsOK
<1>1. /\ GroupAt(p) = adminArg[p].group /\ adminArg[p].by \in Members
      /\ adminArg[p].group \in Groups /\ adminArg[p].who \subseteq Members
  BY <1>0, GroupRequestTyped
<1>2. GroupThere(g) /\ MembersOf(g) = {} => Explained(g)
  BY DEF MemberlessIsExplained, Explained
<1>3. ASSUME adminPc[p] = "act", GroupThere(g), MembersOf(g) = {}, emptied \subseteq emptied',
             UNCHANGED <<contentVars, adminFaults>>
      PROVE  Explained(g)'
  BY <1>2, <1>3, ExplanationStays, OthersWait DEF contentVars, AdminTypeOK
<1>4. ASSUME GroupThere(g), MembersOf(g) = {}, adminPc[p] = "act" PROVE Explained(g)'
  <2>1. emptied \subseteq emptied' /\ UNCHANGED <<contentVars, adminFaults>>
    BY <1>4 DEF GroupStep, CreateGroup, AddUsers, RemoveUsers, ChangeUserRole, ActOnGroup,
                DropMemberships, DropGroup, groupVars
  <2> QED BY <1>3, <1>4, <2>1
<1>5. ASSUME NEW op, NEW ok, NEW c, NEW roles, ActOnGroup(p, op, ok, c, roles),
             ~(ok /\ g = GroupAt(p) /\ role'[g] = roles)
      PROVE  Explained(g)'
  <2>1. role'[g] = role[g] /\ creator'[g] = creator[g]
    BY <1>5, ActOnGroupRoles
  <2>2. GroupThere(g) /\ MembersOf(g) = {} /\ adminPc[p] = "act"
    BY <1>5, <2>1 DEF ActOnGroup, groupVars, GroupThere, MembersOf
  <2> QED BY <1>4, <2>2
<1>6. CASE CreateGroup(p)
  <2> DEFINE roles == [u \in Members |-> IF u = adminArg[p].by THEN "OWNER"
                                         ELSE IF u \in adminArg[p].who THEN "MEMBER" ELSE "none"]
  <2>1. role'[g] # roles
    BY <1>1 DEF MembersOf
  <2> QED BY <1>5, <1>6, <2>1 DEF CreateGroup
<1>7. CASE AddUsers(p)
  <2> DEFINE h == adminArg[p].group
             roles == [u \in Members |-> IF u \in adminArg[p].who /\ role[h][u] = "none"
                                         THEN "MEMBER" ELSE role[h][u]]
  <2>1. ActOnGroup(p, "addUsers", GroupThere(h), creator[h], roles)
    BY <1>7 DEF AddUsers
  <2>2. CASE GroupThere(h) /\ g = GroupAt(p) /\ role'[g] = roles
    <3>1. GroupThere(g) /\ MembersOf(g) = {}
      BY <1>1, <2>2 DEF MembersOf
    <3> QED BY <1>4, <2>1, <3>1 DEF ActOnGroup
  <2> HIDE DEF roles
  <2> QED BY <1>5, <2>1, <2>2
<1>8. CASE RemoveUsers(p)
  <2> DEFINE h == adminArg[p].group
             roles == [u \in Members |-> IF u \in adminArg[p].who THEN "none" ELSE role[h][u]]
  <2>1. ActOnGroup(p, "removeUsers", GroupThere(h), creator[h], roles)
    BY <1>8 DEF RemoveUsers
  <2> HIDE DEF roles
  <2>2. CASE GroupThere(h) /\ g = GroupAt(p) /\ role'[g] = roles
    <3>1. \A u \in Members : roles[u] = "none"
      BY <2>2 DEF MembersOf
    <3>2. g \in emptied' \/ UNCHANGED groupVars
      BY <2>1, <2>2, <3>1 DEF ActOnGroup
    <3>3. CASE UNCHANGED groupVars
      BY <1>4, <2>1, <3>3 DEF groupVars, GroupThere, MembersOf, ActOnGroup
    <3> QED BY <3>2, <3>3 DEF Explained
  <2> QED BY <1>5, <2>1, <2>2
<1>9. CASE ChangeUserRole(p)
  <2>1. PICK w \in adminArg[p].who :
            ActOnGroup(p, "changeUserRole",
                 /\ MayGive(adminArg[p].to) /\ GroupThere(adminArg[p].group)
                 /\ w # creator[adminArg[p].group]
                 /\ role[adminArg[p].group][w] # "none",
                 creator[adminArg[p].group],
                 [role[adminArg[p].group] EXCEPT ![w] = adminArg[p].to])
    BY <1>9 DEF ChangeUserRole
  <2>2. adminArg[p].to # "none" /\ w \in Members
    BY <1>0, <1>1, <1>9, AdminRequestsAssumption DEF ChangeUserRole, Op, RequestsOK
  <2> DEFINE roles == [role[adminArg[p].group] EXCEPT ![w] = adminArg[p].to]
  <2>3. role'[g] # roles \/ g # GroupAt(p)
    BY <1>1, <2>2 DEF MembersOf, AdminTypeOK
  <2> HIDE DEF roles
  <2> QED BY <1>5, <2>1, <2>3 DEF roles
<1>10. CASE DropMemberships(p)
  <2>1. CASE g = GroupAt(p)
    <3>1. adminPc'[p] = "dropGroup" /\ GroupAt(p)' = g
      BY <1>10, <2>1 DEF DropMemberships, AdminGoto, AdminTypeOK, GroupAt, Op, VotingAt
    <3> QED BY <3>1 DEF Explained
  <2>2. CASE g # GroupAt(p)
    BY <1>4, <1>10, <2>2 DEF DropMemberships, AdminTypeOK, GroupThere, MembersOf
  <2> QED BY <2>1, <2>2
<1>11. CASE DropGroup(p)
  <2>1. GroupThere(g) /\ MembersOf(g) = {}
    BY <1>11 DEF DropGroup, Without, GroupThere, MembersOf
  <2>2. CASE g = GroupAt(p)
    <3>1. HasContent(g)
      BY <1>11, <2>1, <2>2 DEF DropGroup, Without, GroupThere
    <3> QED BY <1>11, <3>1 DEF DropGroup, Explained, HasContent, contentVars
  <2>3. CASE g # GroupAt(p)
    <3>1. Explained(g)' \/ GroupAt(p) = g
      BY <1>2, <1>11, <2>1, ExplanationStays, OthersWait
      DEF DropGroup, contentVars, AdminTypeOK
    <3> QED BY <2>3, <3>1
  <2> QED BY <2>2, <2>3
<1> QED BY <1>6, <1>7, <1>8, <1>9, <1>10, <1>11 DEF GroupStep

-----------------------------------------------------------------------------
(* Writes on a voting.                                                     *)

\* A write on a voting keeps its row a row and once made it stays made.
LEMMA ActOnVotingTyped ==
    ASSUME AdminInv, NEW p \in Handlers, NEW op \in VotingOps, NEW row \in VotingRow,
           ActOnVoting(p, op, row)
    PROVE  AdminTypeOK' /\ RequestsOK'
<1> USE DEF AdminInv
<1>1. VotingAt(p) \in Votings
  BY VotingRequestTyped DEF ActOnVoting
<1>2. \A v \in Votings : votingRow[v].made => votingRow'[v].made
  BY <1>1 DEF ActOnVoting, AdminTypeOK, VotingRow
<1>0. foundIntact' = foundIntact \ {p} /\ foundIntact' \subseteq Handlers
  BY DEF ActOnVoting, Concluded, AdminTypeOK
<1>3. /\ adminPc' \in [Handlers -> AdminPCs]
      /\ adminArg' \in [Handlers -> AdminRequest \cup {NoRequest}]
      /\ RequestsOK'
  BY <1>0, <1>2, RequestEnds DEF ActOnVoting, Concluded
<1>4. /\ votingRow' \in [Votings -> VotingRow \cup {NoVotingRow}]
      /\ overtakenAct' \subseteq Votings
  BY <1>1 DEF ActOnVoting, AdminTypeOK
<1>5. AdminTypeOK'
  BY <1>0, <1>3, <1>4 DEF ActOnVoting, AdminTypeOK, groupVars
<1> QED BY <1>3, <1>5

\* A voting that is still intact takes the write; one that is not was overtaken.
LEMMA ActOnVotingFrozen ==
    ASSUME AdminInv, NEW p \in Handlers, NEW op \in RowOps, NEW row, ActOnVoting(p, op, row),
           Intact(VotingAt(p)) /\ VotingAt(p) \notin overtakenAct =>
              ~(row.isFinalized /\ row.isDeleted) /\ ~row.spoilt
    PROVE  FrozenUnlessOvertaken'
<1>0. p \in foundIntact
  BY DEF ActOnVoting, AdminInv, RequestsOK
<1>1. ASSUME NEW v \in Votings, v # VotingAt(p), v \notin overtakenAct'
      PROVE  votingRow'[v] = votingRow[v] /\ v \notin overtakenAct
  BY <1>1 DEF ActOnVoting, AdminInv, AdminTypeOK
<1>2. ASSUME VotingAt(p) \in Votings, VotingAt(p) \notin overtakenAct'
      PROVE  /\ votingRow'[VotingAt(p)] = row
             /\ Intact(VotingAt(p)) /\ VotingAt(p) \notin overtakenAct
  BY <1>0, <1>2 DEF ActOnVoting, AdminInv, AdminTypeOK
<1> QED BY <1>1, <1>2 DEF FrozenUnlessOvertaken, AdminInv

LEMMA VotingStepTyped ==
    ASSUME AdminInv, NEW p \in Handlers, VotingStep(p)
    PROVE  AdminTypeOK' /\ RequestsOK' /\ FrozenUnlessOvertaken'
<1> USE DEF AdminInv
<1>0. adminPc[p] = "act" /\ Op(p) \in VotingOps
  BY DEF VotingStep, CreateVoting, UpdateVoting, SoftDeleteVoting, StoreBallot,
         Finalize, ActOnVoting, VotingOps, RowOps
<1>1. VotingAt(p) \in Votings
  BY <1>0, VotingRequestTyped
<1>2. CASE CreateVoting(p)
  <2>1. \A v \in Votings : votingRow[v].made => votingRow'[v] = votingRow[v]
    BY <1>1, <1>2 DEF CreateVoting, AdminTypeOK
  <2>0. foundIntact' = foundIntact \ {p} /\ foundIntact' \subseteq Handlers
    BY <1>2 DEF CreateVoting, Concluded, AdminTypeOK
  <2>2. /\ adminPc' \in [Handlers -> AdminPCs]
        /\ adminArg' \in [Handlers -> AdminRequest \cup {NoRequest}]
        /\ RequestsOK'
    BY <1>2, <2>0, <2>1, RequestEnds DEF CreateVoting, Concluded
  <2>3. [made |-> TRUE, isFinalized |-> FALSE, isDeleted |-> FALSE, spoilt |-> FALSE]
            \in VotingRow
    BY DEF VotingRow
  <2>4. AdminTypeOK'
    BY <1>2, <2>0, <2>2, <2>3 DEF CreateVoting, AdminTypeOK, groupVars
  <2>5. FrozenUnlessOvertaken'
    BY <1>1, <1>2, <2>1 DEF CreateVoting, FrozenUnlessOvertaken, AdminTypeOK
  <2> QED BY <2>2, <2>4, <2>5
<1>3. ASSUME Op(p) \in RowOps
      PROVE  /\ RowAt(p) \in VotingRow
             /\ Intact(VotingAt(p)) /\ VotingAt(p) \notin overtakenAct =>
                   ~RowAt(p).isFinalized /\ ~RowAt(p).isDeleted /\ ~RowAt(p).spoilt
  <2>1. votingRow[VotingAt(p)].made
    BY <1>0, <1>3 DEF RequestsOK
  <2>2. RowAt(p) \in VotingRow
    BY <1>1, <2>1 DEF RowAt, AdminTypeOK, NoVotingRow
  <2>3. VotingAt(p) \notin overtakenAct => ~RowAt(p).spoilt
    BY <1>1, <2>1 DEF RowAt, FrozenUnlessOvertaken
  <2> QED BY <2>2, <2>3 DEF Intact, RowAt
<1>4. ASSUME NEW op \in RowOps, NEW row \in VotingRow, ActOnVoting(p, op, row),
             Intact(VotingAt(p)) /\ VotingAt(p) \notin overtakenAct =>
                ~(row.isFinalized /\ row.isDeleted) /\ ~row.spoilt
      PROVE  AdminTypeOK' /\ RequestsOK' /\ FrozenUnlessOvertaken'
  BY <1>4, ActOnVotingTyped, ActOnVotingFrozen DEF VotingOps
<1>5. CASE UpdateVoting(p)
  <2>1. RowAt(p) \in VotingRow /\ Op(p) = "update"
    BY <1>3, <1>5 DEF UpdateVoting, ActOnVoting, RowOps
  <2>2. [RowAt(p) EXCEPT !.spoilt = Spoilt(p)] \in VotingRow
    BY <2>1 DEF VotingRow, Spoilt
  <2> QED BY <1>3, <1>4, <1>5, <2>1, <2>2 DEF UpdateVoting, RowOps, Spoilt, VotingRow
<1>7. CASE SoftDeleteVoting(p)
  <2>1. RowAt(p) \in VotingRow /\ Op(p) = "deleteVoting"
    BY <1>3, <1>7 DEF SoftDeleteVoting, ActOnVoting, RowOps
  <2>2. [RowAt(p) EXCEPT !.isDeleted = TRUE] \in VotingRow
    BY <2>1 DEF VotingRow
  <2> QED BY <1>3, <1>4, <1>7, <2>1, <2>2 DEF SoftDeleteVoting, RowOps, VotingRow
<1>8. CASE StoreBallot(p)
  <2>1. RowAt(p) \in VotingRow /\ Op(p) = "vote"
    BY <1>3, <1>8 DEF StoreBallot, ActOnVoting, RowOps
  <2>2. [RowAt(p) EXCEPT !.spoilt = Spoilt(p)] \in VotingRow
    BY <2>1 DEF VotingRow, Spoilt
  <2> QED BY <1>3, <1>4, <1>8, <2>1, <2>2 DEF StoreBallot, RowOps, Spoilt, VotingRow
<1>9. CASE Finalize(p)
  <2>1. RowAt(p) \in VotingRow /\ Op(p) = "finalize"
    BY <1>3, <1>9 DEF Finalize, ActOnVoting, RowOps
  <2>2. [RowAt(p) EXCEPT !.isFinalized = TRUE] \in VotingRow
    BY <2>1 DEF VotingRow
  <2> QED BY <1>3, <1>4, <1>9, <2>1, <2>2 DEF Finalize, RowOps, VotingRow
<1> QED BY <1>2, <1>5, <1>7, <1>8, <1>9 DEF VotingStep

-----------------------------------------------------------------------------
(* The theorems.                                                           *)

LEMMA AdminInitially == AdminInit => AdminInv
BY AdminFaultsAssumption
DEF AdminInit, AdminInv, AdminTypeOK, AdminPCs, Roles, RequestsOK, FrozenUnlessOvertaken,
    MemberlessIsExplained, GroupThere, NoVotingRow

LEMMA AdminStep ==
    ASSUME AdminInv, [AdminNext]_adminVars
    PROVE  AdminInv'
<1> USE DEF AdminInv
<1>1. ASSUME NEW p \in Handlers, GroupStep(p) PROVE AdminInv'
  <2>1. UNCHANGED contentVars
    BY <1>1 DEF GroupStep, CreateGroup, AddUsers, RemoveUsers, ChangeUserRole, ActOnGroup,
                DropMemberships, DropGroup
  <2>2. FrozenUnlessOvertaken'
    BY <2>1 DEF FrozenUnlessOvertaken, contentVars
  <2> QED BY <1>1, <2>2, GroupStepTyped, GroupStepExplained
<1>2. ASSUME NEW p \in Handlers, UNCHANGED groupVars, adminPc[p] # "dropGroup" \/ AdminFails(p),
             \A v \in Votings : votingRow[v].made => votingRow'[v].made,
             adminFaults' \in {adminFaults, adminFaults + 1},
             AdminFails(p) => adminFaults' > 0,
             \A q \in Handlers \ {p} : adminPc'[q] = adminPc[q] /\ adminArg'[q] = adminArg[q]
      PROVE  MemberlessIsExplained'
  <2> SUFFICES ASSUME NEW g \in Groups, GroupThere(g)', MembersOf(g)' = {}
               PROVE  Explained(g)'
    BY DEF MemberlessIsExplained, Explained
  <2>1. Explained(g)
    BY <1>2 DEF MemberlessIsExplained, Explained, GroupThere, MembersOf, groupVars
  <2>2. Explained(g)' \/ adminPc[p] = "dropGroup"
    BY <1>2, <2>1, ExplanationStays DEF groupVars
  <2> QED BY <1>2, <2>2 DEF Explained
<1>3. ASSUME NEW p \in Handlers, VotingStep(p) PROVE AdminInv'
  <2>1. /\ UNCHANGED <<groupVars, adminFaults>> /\ adminPc[p] # "dropGroup"
    BY <1>3 DEF VotingStep, CreateVoting, UpdateVoting, SoftDeleteVoting,
                StoreBallot, Finalize, ActOnVoting
  <2>2. \A v \in Votings : votingRow[v].made => votingRow'[v].made
    <3>1. adminPc[p] = "act" /\ Op(p) \in VotingOps
      BY <1>3 DEF VotingStep, CreateVoting, UpdateVoting, SoftDeleteVoting,
                  StoreBallot, Finalize, ActOnVoting, VotingOps, RowOps
    <3>2. VotingAt(p) \in Votings
      BY <3>1, VotingRequestTyped
    <3>3. CASE CreateVoting(p)
      BY <3>2, <3>3 DEF CreateVoting, AdminTypeOK
    <3>4. CASE ~CreateVoting(p)
      <4>1. RowAt(p) \in VotingRow
        <5>1. Op(p) \in RowOps
          BY <1>3, <3>4 DEF VotingStep, UpdateVoting, SoftDeleteVoting,
                            StoreBallot, Finalize, ActOnVoting, RowOps
        <5> QED BY <3>1, <3>2, <5>1 DEF RequestsOK, RowAt, AdminTypeOK, NoVotingRow
      <4>2. votingRow'[VotingAt(p)].made = RowAt(p).made
        <5> USE DEF ActOnVoting, VotingRow, AdminTypeOK
        <5>1. CASE UpdateVoting(p)
          BY <3>2, <4>1, <5>1 DEF UpdateVoting
        <5>3. CASE SoftDeleteVoting(p)
          BY <3>2, <4>1, <5>3 DEF SoftDeleteVoting
        <5>4. CASE StoreBallot(p)
          BY <3>2, <4>1, <5>4 DEF StoreBallot
        <5>5. CASE Finalize(p)
          BY <3>2, <4>1, <5>5 DEF Finalize
        <5> QED BY <1>3, <3>4, <5>1, <5>3, <5>4, <5>5 DEF VotingStep
      <4>3. \A v \in Votings \ {VotingAt(p)} : votingRow'[v] = votingRow[v]
        BY <1>3, <3>4 DEF VotingStep, UpdateVoting, SoftDeleteVoting,
                          StoreBallot, Finalize, ActOnVoting, AdminTypeOK
      <4> QED BY <4>2, <4>3 DEF RowAt
    <3> QED BY <3>3, <3>4
  <2>3. ~AdminFails(p) \/ adminPc[p] # "dropGroup"
    BY <2>1
  <2>4. AdminFails(p) => adminFaults' > 0
    BY <2>1 DEF AdminFails, AdminTypeOK
  <2>5. MemberlessIsExplained'
    BY <1>2, <1>3, <2>1, <2>2, <2>4, OthersWait
  <2> QED BY <1>3, <2>5, VotingStepTyped
<1>4. ASSUME NEW p \in Handlers,
             AdminBegin(p) \/ FindVoting(p) \/ CheckPermission(p)
      PROVE  AdminInv'
  <2>1. AdminTypeOK' /\ RequestsOK' /\ UNCHANGED <<groupVars, contentVars, adminFaults>>
    BY <1>4, BeginAndGuards
  <2>2. FrozenUnlessOvertaken'
    BY <2>1 DEF FrozenUnlessOvertaken, contentVars
  <2>3. adminPc[p] # "dropGroup" /\ (AdminFails(p) => adminFaults' > 0)
    BY <1>4, <2>1 DEF AdminBegin, FindVoting, CheckPermission, Check, AdminFails,
                      AdminTypeOK
  <2>4. MemberlessIsExplained'
    BY <1>2, <1>4, <2>1, <2>3, OthersWait DEF contentVars
  <2> QED BY <2>1, <2>2, <2>4
<1>5. ASSUME NEW p \in Handlers, AdminFails(p) PROVE AdminInv'
  <2>1. /\ UNCHANGED <<groupVars, contentVars>> /\ AdminEnd(p)
        /\ foundIntact' = foundIntact \ {p} /\ foundIntact' \subseteq Handlers
        /\ adminFaults' = adminFaults + 1 /\ adminFaults' \in 0..MaxAdminFaults
        /\ adminFaults' > 0
    BY <1>5, AdminFaultsAssumption DEF AdminFails, Concluded, AdminTypeOK
  <2>2. AdminTypeOK' /\ RequestsOK'
    BY <2>1, RequestEnds DEF AdminTypeOK, groupVars, contentVars
  <2>3. FrozenUnlessOvertaken'
    BY <2>1 DEF FrozenUnlessOvertaken, contentVars
  <2>4. MemberlessIsExplained'
    BY <2>1 DEF MemberlessIsExplained
  <2> QED BY <2>2, <2>3, <2>4
<1>6. CASE UNCHANGED adminVars
  BY <1>6 DEF adminVars, requestVars, groupVars, contentVars, AdminTypeOK, RequestsOK, Op,
              VotingAt, FrozenUnlessOvertaken, MemberlessIsExplained, GroupThere, MembersOf,
              HasContent, GroupAt
<1> QED BY <1>1, <1>3, <1>4, <1>5, <1>6 DEF AdminNext

\* The groups and votings of groups.service.ts and votings.service.ts stay well
\* typed, a request about to write on a voting had read its row intact if it is
\* in foundIntact, and the two properties below hold.
THEOREM AdminInvariant == AdminSpec => []AdminInv
BY AdminInitially, AdminStep, PTL DEF AdminSpec

\* A finalized or deleted voting takes no ballot and no change, unless it was
\* finalized or deleted after the writing request had read it intact (update and
\* delete of votings.service.ts, vote and finalizeVoting).
THEOREM FrozenVotings == AdminSpec => []FrozenUnlessOvertaken
BY AdminInvariant, PTL DEF AdminInv

\* A group without members was emptied by name, or its deletion is between its
\* writes, failed there or was refused (removeUsers, delete of groups.service.ts).
THEOREM MemberlessGroups == AdminSpec => []MemberlessIsExplained
BY AdminInvariant, PTL DEF AdminInv

\* No operation makes an owner: addUsers gives MEMBER, changeUserRole refuses
\* OWNER, and only createGroup writes it (groups.service.ts).
THEOREM OwnersOnlyLeave == AdminSpec => NoNewOwner
<1>1. AdminInv /\ [AdminNext]_adminVars =>
          [\A g \in Groups : GroupThere(g) => Owners(g)' \subseteq Owners(g)]_adminVars
  <2> SUFFICES ASSUME AdminInv, AdminNext, NEW g \in Groups, GroupThere(g)
               PROVE  Owners(g)' \subseteq Owners(g)
    OBVIOUS
  <2>1. ASSUME NEW p \in Handlers, ~GroupStep(p),
               \/ AdminBegin(p) \/ FindVoting(p) \/ CheckPermission(p)
               \/ VotingStep(p) \/ AdminFails(p)
        PROVE  role' = role
    BY <2>1 DEF AdminBegin, FindVoting, CheckPermission, Check, VotingStep,
                CreateVoting, UpdateVoting, SoftDeleteVoting, StoreBallot,
                Finalize, ActOnVoting, AdminFails, groupVars
  <2>2. role' = role => Owners(g)' \subseteq Owners(g)
    BY DEF Owners
  <2> QED BY <2>1, <2>2, GroupStepOwners DEF AdminNext
<1> QED BY <1>1, AdminInvariant, PTL DEF AdminSpec, NoNewOwner

-----------------------------------------------------------------------------
(* Sessions.                                                               *)

\* An update of a slot leaves a request in every slot.
LEMMA BecomeType ==
    ASSUME fetch \in [Slots -> Fetch], NEW p \in Slots,
           NEW kind \in FetchKinds, NEW as \in Somebody
    PROVE  [fetch EXCEPT ![p] = [kind |-> kind, as |-> as]] \in [Slots -> Fetch]
BY DEF Fetch

LEMMA DoneType ==
    ASSUME fetch \in [Slots -> Fetch], NEW p \in Slots
    PROVE  [fetch EXCEPT ![p] = NoFetch] \in [Slots -> Fetch]
<1>1. NoFetch \in Fetch
  BY DEF NoFetch, Fetch, FetchKinds, Somebody
<1> QED BY <1>1

\* A request belongs to somebody.
LEMMA FetchFields ==
    ASSUME fetch \in [Slots -> Fetch], NEW p \in Slots
    PROVE  As(p) \in Somebody /\ Kind(p) \in FetchKinds
BY DEF As, Kind, Fetch

-----------------------------------------------------------------------------
(* Types.                                                                  *)

LEMMA SendTypes ==
    ASSUME SessionTypeOK, NEW p \in Slots, Call(p) \/ Identify(p) \/ SignOut(p)
    PROVE  SessionTypeOK'
<1>1. ASSUME NEW kind \in FetchKinds, NEW as \in Somebody, Send(p, kind, as)
      PROVE  SessionTypeOK'
  BY <1>1, BecomeType
  DEF Send, Become, SessionTypeOK, cookieVars, viewVars, personVars
<1>2. CASE Call(p)
  <2>1. access \in Somebody /\ {"call", "profile"} \subseteq FetchKinds
    BY DEF SessionTypeOK, FetchKinds
  <2> QED BY <1>1, <1>2, <2>1 DEF Call
<1>3. CASE Identify(p)
  <2>1. Persons \subseteq Somebody
    BY DEF Somebody
  <2>2. {"login", "loginRemember", "verify", "register"} \subseteq FetchKinds
    BY DEF FetchKinds
  <2> QED BY <1>1, <1>3, <2>1, <2>2 DEF Identify
<1>4. CASE SignOut(p)
  <2>1. NoAccount \in Somebody /\ "logout" \in FetchKinds
    BY DEF Somebody, FetchKinds
  <2> QED BY <1>1, <1>4, <2>1 DEF SignOut
<1> QED BY <1>2, <1>3, <1>4

LEMMA AnswerTypes ==
    ASSUME SessionTypeOK, NEW p \in Slots,
           \/ CallAnswered(p) \/ RetryAnswered(p) \/ CheckAnswered(p) \/ SignedUp(p)
           \/ ProfileSaved(p) \/ FetchFails(p) \/ SignedIn(p) \/ AddressVerified(p)
           \/ SignedOut(p)
    PROVE  SessionTypeOK'
<1> USE DEF SessionTypeOK, cookieVars, viewVars, personVars
<1>0. /\ As(p) \in Somebody /\ NoAccount \in Somebody
      /\ [fetch EXCEPT ![p] = NoFetch] \in [Slots -> Fetch]
  BY DoneType, FetchFields DEF Somebody
<1>1. CASE CallAnswered(p)
  <2>1. CASE Done(p) /\ UNCHANGED renewal
    BY <1>0, <1>1, <2>1 DEF CallAnswered, Done
  <2>2. CASE /\ Become(p, "wait", NoAccount)
             /\ renewal' = IF renewal.sent THEN renewal ELSE [sent |-> TRUE, as |-> refresh]
    <3>1. fetch' \in [Slots -> Fetch]
      BY <1>0, <2>2, BecomeType DEF Become, FetchKinds
    <3>2. renewal' \in Renewal /\ (~renewal'.sent => renewal'.as = NoAccount)
      BY <2>2 DEF Renewal
    <3> QED BY <1>1, <3>1, <3>2 DEF CallAnswered
  <2> QED BY <1>1, <2>1, <2>2 DEF CallAnswered
<1>2. CASE RetryAnswered(p)
  BY <1>0, <1>2 DEF RetryAnswered, Done, Show
<1>3. CASE CheckAnswered(p)
  BY <1>0, <1>3 DEF CheckAnswered, Done, Show
<1>4. CASE SignedUp(p)
  BY <1>0, <1>4 DEF SignedUp, Done
<1>5. CASE ProfileSaved(p)
  BY <1>0, <1>5 DEF ProfileSaved, Done, Show
<1>6. CASE FetchFails(p)
  BY <1>0, <1>6 DEF FetchFails, Done, Show
<1>7. CASE SignedIn(p)
  BY <1>0, <1>7 DEF SignedIn, Done, Show, ShownAfter, RefreshAfter, Switch, LateFor, Others
<1>8. CASE AddressVerified(p)
  <2>1. fetch' \in [Slots -> Fetch]
    BY <1>0, <1>8, BecomeType DEF AddressVerified, Become, FetchKinds
  <2> QED BY <1>0, <1>8, <2>1 DEF AddressVerified, Switch, LateFor, Others
<1>9. CASE SignedOut(p)
  BY <1>0, <1>9 DEF SignedOut, Done, Show, Switch, LateFor, Others
<1> QED BY <1>1, <1>2, <1>3, <1>4, <1>5, <1>6, <1>7, <1>8, <1>9

LEMMA PageTypes ==
    ASSUME SessionTypeOK,
           \/ \E p \in Slots : Reload(p) \/ Refreshed(p)
           \/ NotRefreshed \/ CookieExpires
    PROVE  SessionTypeOK'
<1> USE DEF SessionTypeOK, cookieVars, viewVars, personVars
<1>0. /\ NoFetch \in Fetch /\ NoAccount \in Somebody
      /\ NoRenewal \in Renewal /\ NoRenewal.as = NoAccount
      /\ \A u \in Somebody : /\ [kind |-> "check", as |-> u] \in Fetch
                             /\ [kind |-> "retry", as |-> u] \in Fetch
  BY DEF NoFetch, NoRenewal, Renewal, Fetch, FetchKinds, Somebody
<1>1. ASSUME NEW p \in Slots, Reload(p) PROVE SessionTypeOK'
  BY <1>0, <1>1 DEF Reload, Show
<1>2. ASSUME NEW p \in Slots, Refreshed(p) PROVE SessionTypeOK'
  <2>1. renewal.as \in Somebody
    BY DEF Renewal
  <2>2. fetch' \in [Slots -> Fetch]
    BY <1>0, <1>2, <2>1 DEF Refreshed
  <2> QED BY <1>0, <1>2, <2>1, <2>2 DEF Refreshed
<1>3. CASE NotRefreshed
  BY <1>0, <1>3 DEF NotRefreshed, Show
<1>4. CASE CookieExpires
  BY <1>0, <1>4 DEF CookieExpires
<1> QED BY <1>1, <1>2, <1>3, <1>4

\* The type invariant.
THEOREM SessionTypes == SessionSpec => []SessionTypeOK
<1>1. SessionInit => SessionTypeOK
  <2>1. NoFetch \in Fetch /\ NoAccount \in Somebody
    BY DEF NoFetch, Fetch, FetchKinds, Somebody
  <2>2. NoRenewal \in Renewal /\ NoRenewal.as = NoAccount
    BY <2>1 DEF NoRenewal, Renewal
  <2> QED BY <2>1, <2>2 DEF SessionInit, SessionTypeOK
<1>2. SessionTypeOK /\ [SessionNext]_sessionVars => SessionTypeOK'
  <2> SUFFICES ASSUME SessionTypeOK, [SessionNext]_sessionVars PROVE SessionTypeOK'
    OBVIOUS
  <2>1. CASE SessionNext
    BY <2>1, SendTypes, AnswerTypes, PageTypes DEF SessionNext
  <2>2. CASE UNCHANGED sessionVars
    BY <2>2 DEF SessionTypeOK, sessionVars, cookieVars, viewVars, personVars
  <2> QED BY <2>1, <2>2
<1> QED BY <1>1, <1>2, PTL DEF SessionSpec

-----------------------------------------------------------------------------
(* The invariant.                                                          *)

\* Nothing of another account is under way towards u once p is answered.
LEMMA NothingLate ==
    ASSUME SessionTypeOK, NEW u \in Somebody, NEW p \in Slots, ~LateFor(u, p)
    PROVE  /\ renewal.as \in {NoAccount, u}
           /\ \A q \in Slots \ {p} :
                 Kind(q) \in {"check", "profile"} => As(q) \in {NoAccount, u}
<1>1. renewal.as \in Somebody
  BY DEF SessionTypeOK, Renewal
<1>2. \A q \in Slots : As(q) \in Somebody
  BY FetchFields DEF SessionTypeOK
<1> QED BY <1>1, <1>2 DEF LateFor, Others, Somebody

\* What is sent carries the access cookie, or sets nothing before it is a sign-in.
LEMMA SendKeepsInv ==
    ASSUME SessionTypeOK, SessionInv, NEW p \in Slots,
           Call(p) \/ Identify(p) \/ SignOut(p)
    PROVE  SessionInv'
<1>1. ASSUME NEW kind, NEW as, Send(p, kind, as),
             kind \in {"check", "profile"} => as = access
      PROVE  SessionInv'
  BY <1>1 DEF Send, Become, SessionInv, SessionTypeOK, OfWho, Kind, As,
              cookieVars, viewVars, personVars
<1> QED BY <1>1 DEF Call, Identify, SignOut

\* An answer that is no sign-in or sign-out sets what it carries.
LEMMA AnswerKeepsInv ==
    ASSUME SessionTypeOK, SessionInv, NEW p \in Slots,
           \/ CallAnswered(p) \/ RetryAnswered(p) \/ CheckAnswered(p) \/ SignedUp(p)
           \/ ProfileSaved(p) \/ FetchFails(p)
    PROVE  SessionInv'
<1> USE DEF SessionInv, SessionTypeOK, OfWho, Kind, As, cookieVars, viewVars, personVars
<1>1. CASE CallAnswered(p)
  BY <1>1 DEF CallAnswered, Done, Become, NoFetch
<1>2. CASE RetryAnswered(p)
  BY <1>2 DEF RetryAnswered, Done, Show, NoFetch
<1>3. CASE CheckAnswered(p)
  BY <1>3 DEF CheckAnswered, Done, Show, NoFetch
<1>4. CASE SignedUp(p)
  BY <1>4 DEF SignedUp, Done, NoFetch
<1>5. CASE ProfileSaved(p)
  BY <1>5 DEF ProfileSaved, Done, Show, NoFetch
<1>6. CASE FetchFails(p)
  BY <1>6 DEF FetchFails, Done, Show, NoFetch
<1> QED BY <1>1, <1>2, <1>3, <1>4, <1>5, <1>6

\* A sign-in or sign-out leaves the browser to one account, or stray.
LEMMA SwitchKeepsInv ==
    ASSUME SessionTypeOK, NEW p \in Slots,
           SignedIn(p) \/ AddressVerified(p) \/ SignedOut(p)
    PROVE  SessionInv'
<1>0. As(p) \in Somebody /\ NoAccount \in Somebody
  BY FetchFields DEF SessionTypeOK, Somebody
<1> USE DEF SessionInv, SessionTypeOK, OfWho, Kind, As, Switch, Others, Somebody
<1>1. CASE SignedIn(p)
  <2> SUFFICES ASSUME ~LateFor(As(p), p),
                      ~(Kind(p) = "login" /\ refresh \in Others(As(p)))
               PROVE  SessionInv'
    BY <1>1 DEF SignedIn
  <2>1. /\ renewal.as \in {NoAccount, As(p)}
        /\ \A q \in Slots \ {p} :
              Kind(q) \in {"check", "profile"} => As(q) \in {NoAccount, As(p)}
    BY <1>0, NothingLate
  <2>2. refresh' \in {NoAccount, As(p)}
    BY <1>1 DEF SignedIn, RefreshAfter
  <2> QED BY <1>1, <2>1, <2>2 DEF SignedIn, Show, ShownAfter, Done, NoFetch
<1>2. CASE AddressVerified(p)
  <2> SUFFICES ASSUME ~LateFor(As(p), p), view \notin Others(As(p))
               PROVE  SessionInv'
    BY <1>2 DEF AddressVerified
  <2>1. /\ renewal.as \in {NoAccount, As(p)}
        /\ \A q \in Slots \ {p} :
              Kind(q) \in {"check", "profile"} => As(q) \in {NoAccount, As(p)}
    BY <1>0, NothingLate
  <2> QED BY <1>2, <2>1 DEF AddressVerified, Become, viewVars
<1>3. CASE SignedOut(p)
  <2> SUFFICES ASSUME ~LateFor(NoAccount, p) PROVE SessionInv'
    BY <1>3 DEF SignedOut
  <2>1. /\ renewal.as = NoAccount
        /\ \A q \in Slots \ {p} : Kind(q) \in {"check", "profile"} => As(q) = NoAccount
    BY <1>0, NothingLate
  <2> QED BY <1>3, <2>1 DEF SignedOut, Show, Done, NoFetch
<1> QED BY <1>1, <1>2, <1>3

\* The refresh, a page load and an expiry stay with the account.
LEMMA PageKeepsInv ==
    ASSUME SessionTypeOK, SessionInv,
           \/ \E p \in Slots : Reload(p) \/ Refreshed(p)
           \/ NotRefreshed \/ CookieExpires
    PROVE  SessionInv'
<1> USE DEF SessionInv, SessionTypeOK, OfWho, Kind, As, cookieVars, viewVars, personVars
<1>1. ASSUME NEW p \in Slots, Reload(p) PROVE SessionInv'
  BY <1>1 DEF Reload, Show, NoFetch, NoRenewal
<1>2. ASSUME NEW p \in Slots, Refreshed(p) PROVE SessionInv'
  BY <1>2 DEF Refreshed, NoRenewal
<1>3. CASE NotRefreshed
  BY <1>3 DEF NotRefreshed, Show, NoFetch, NoRenewal
<1>4. CASE CookieExpires
  BY <1>4 DEF CookieExpires
<1> QED BY <1>1, <1>2, <1>3, <1>4

\* Unless stray, the browser holds one account.
THEOREM SessionInvariant == SessionSpec => []SessionInv
<1>1. SessionInit => SessionInv
  BY DEF SessionInit, SessionInv, OfWho, Kind, As, NoFetch, NoRenewal
<1>2. SessionTypeOK /\ SessionInv /\ [SessionNext]_sessionVars => SessionInv'
  <2> SUFFICES ASSUME SessionTypeOK, SessionInv, [SessionNext]_sessionVars
               PROVE  SessionInv'
    OBVIOUS
  <2>1. CASE SessionNext
    BY <2>1, SendKeepsInv, AnswerKeepsInv, SwitchKeepsInv, PageKeepsInv DEF SessionNext
  <2>2. CASE UNCHANGED sessionVars
    BY <2>2 DEF SessionInv, OfWho, Kind, As, sessionVars, cookieVars, viewVars, personVars
  <2> QED BY <2>1, <2>2
<1> QED BY <1>1, <1>2, SessionTypes, PTL DEF SessionSpec

\* The browser acts as the account that signed in last, or as nobody.
THEOREM FollowsSignIn == SessionSpec => []SessionFollowsSignIn
<1>1. SessionInv => SessionFollowsSignIn
  BY DEF SessionInv, SessionFollowsSignIn, OfWho
<1> QED BY <1>1, SessionInvariant, PTL

\* The account the page shows is the one its requests act as.
THEOREM ShownActs == SessionSpec => []ActsAsShown
<1>1. SessionInv => ActsAsShown
  BY DEF SessionInv, ActsAsShown, OfWho
<1> QED BY <1>1, SessionInvariant, PTL

-----------------------------------------------------------------------------
(* Accounts.                                                               *)

\* What each request of Accounts is about: a person, or a token that is drawn
\* and of the kind the request has checked it for; it was unused then.
VisitSane(p) ==
    /\ visitPc[p] \in {"signIn", "create", "newVerify", "newReset", "remember"} =>
          visitFor[p] \in People
    /\ visitPc[p] \in {"mail", "checkVerify", "checkReset", "useVerify", "useReset"} =>
          visitFor[p] \in Links /\ Exists(visitFor[p])
    /\ visitPc[p] = "useVerify" => link[visitFor[p]].kind = "verify"
    /\ visitPc[p] = "useReset" => link[visitFor[p]].kind = "reset"
    /\ visitPc[p] \in {"useVerify", "useReset"} => p \in readUnused

\* A token that has worked is used.
UsesMarked == \A k \in Links : uses[k] > 0 => Exists(k) /\ link[k].isUsed

AccountInv ==
    /\ AccountTypeOK
    /\ \A p \in Visits : VisitSane(p)
    /\ UsesMarked
    /\ LinkWorksOnce
    /\ RegisteredCanVerify

\* A row is there, and only a row.
LEMMA RowThere ==
    ASSUME AccountTypeOK, NEW k \in Links
    PROVE  Exists(k) <=> link[k] \in LinkRow
BY NoPersonAssumption DEF AccountTypeOK, Exists, NoLink, LinkRow

\* Rows never go and keep their owner and kind: a request is about what it was.
LEMMA OthersStay ==
    ASSUME \A p \in Visits : VisitSane(p), NEW p \in Visits,
           \A q \in Visits \ {p} : visitPc'[q] = visitPc[q] /\ visitFor'[q] = visitFor[q],
           readUnused \ {p} \subseteq readUnused',
           \A k \in Links : Exists(k) => Exists(k)' /\ link'[k].kind = link[k].kind,
           VisitSane(p)'
    PROVE  \A q \in Visits : VisitSane(q)'
<1> SUFFICES ASSUME NEW q \in Visits, q # p PROVE VisitSane(q)'
  OBVIOUS
<1>1. visitPc'[q] = visitPc[q] /\ visitFor'[q] = visitFor[q] /\ VisitSane(q)
  OBVIOUS
<1> QED BY <1>1 DEF VisitSane

\* Where a request goes.
LEMMA GotoIs ==
    ASSUME AccountTypeOK, NEW p \in Visits, NEW label \in VisitPCs,
           NEW what \in People \cup Links \cup {NoPerson}, VisitGoto(p, label, what)
    PROVE  /\ visitPc' \in [Visits -> VisitPCs]
           /\ visitFor' \in [Visits -> People \cup Links \cup {NoPerson}]
           /\ visitPc'[p] = label /\ visitFor'[p] = what
           /\ \A q \in Visits \ {p} : visitPc'[q] = visitPc[q] /\ visitFor'[q] = visitFor[q]
           /\ readUnused' \subseteq Visits /\ readUnused \ {p} \subseteq readUnused'
           /\ label \in {"useVerify", "useReset"} /\ Unused(what) => p \in readUnused'
BY DEF AccountTypeOK, VisitGoto

\* A request that only moves.
LEMMA MovesKeep ==
    ASSUME AccountInv, NEW p \in Visits, NEW label \in VisitPCs,
           NEW what \in People \cup Links \cup {NoPerson}, VisitGoto(p, label, what),
           VisitSane(p)', visitPc[p] # "newVerify",
           UNCHANGED <<accountRows, accountFaults>>
    PROVE  AccountInv'
<1> USE DEF AccountInv, accountRows
<1>1. AccountTypeOK'
  BY GotoIs DEF AccountTypeOK
<1>2. \A q \in Visits : VisitSane(q)'
  BY GotoIs, OthersStay DEF Exists
<1>3. UsesMarked' /\ LinkWorksOnce'
  BY DEF UsesMarked, LinkWorksOnce, Exists
<1>4. RegisteredCanVerify'
  BY GotoIs DEF RegisteredCanVerify, Usable, Unused, Exists
<1> QED BY <1>1, <1>2, <1>3, <1>4

LEMMA VisitMoves ==
    ASSUME AccountInv, NEW p \in Visits,
           \/ VisitBegin(p) \/ SignInVisit(p) \/ CheckVerification(p) \/ CheckReset(p)
    PROVE  AccountInv'
<1> USE DEF VisitPCs
<1>0. VisitSane(p)
  BY DEF AccountInv
<1>1. CASE VisitBegin(p)
  <2>1. visitPc[p] = "idle" /\ UNCHANGED <<accountRows, accountFaults>>
    BY <1>1 DEF VisitBegin
  <2>2. ASSUME NEW u \in People, NEW label \in {"signIn", "create", "newReset"},
               VisitGoto(p, label, u)
        PROVE  AccountInv'
    <3>1. VisitSane(p)'
      BY <2>2, GotoIs DEF VisitSane, AccountInv
    <3> QED BY <2>1, <2>2, <3>1, MovesKeep
  <2>3. ASSUME NEW k \in Links, Exists(k), NEW label \in {"checkVerify", "checkReset"},
               VisitGoto(p, label, k)
        PROVE  AccountInv'
    <3>1. VisitSane(p)'
      BY <2>1, <2>3, GotoIs DEF VisitSane, AccountInv, accountRows, Exists
    <3> QED BY <2>1, <2>3, <3>1, MovesKeep
  <2> QED BY <1>1, <2>2, <2>3 DEF VisitBegin
<1>2. CASE SignInVisit(p)
  <2>1. PICK label \in {"remember", "idle"}, what \in People \cup {NoPerson} :
            /\ VisitGoto(p, label, what)
            /\ label = "remember" => what \in People
    BY <1>0, <1>2 DEF SignInVisit, VisitEnd, VisitSane
  <2>2. VisitSane(p)'
    BY <2>1, GotoIs DEF VisitSane, AccountInv
  <2> QED BY <1>2, <2>1, <2>2, MovesKeep DEF SignInVisit
<1>3. ASSUME NEW kind \in Kinds, NEW from \in {"checkVerify", "checkReset"},
             NEW to \in {"useVerify", "useReset"}, CheckLink(p, kind, from, to),
             kind = "verify" => to = "useVerify", kind = "reset" => to = "useReset"
      PROVE  AccountInv'
  <2>1. /\ visitPc[p] = from /\ UNCHANGED <<accountRows, accountFaults>>
        /\ visitFor[p] \in Links /\ Exists(visitFor[p])
    BY <1>0, <1>3 DEF CheckLink, VisitSane
  <2>2. CASE Usable(visitFor[p], kind)
    <3>1. /\ VisitGoto(p, to, visitFor[p])
          /\ link[visitFor[p]].kind = kind /\ Unused(visitFor[p])
      BY <1>3, <2>2 DEF CheckLink, Usable
    <3>2. VisitSane(p)'
      BY <1>3, <2>1, <3>1, GotoIs DEF VisitSane, AccountInv, accountRows, Exists, Kinds
    <3> QED BY <2>1, <3>1, <3>2, MovesKeep
  <2>3. CASE ~Usable(visitFor[p], kind)
    <3>1. VisitGoto(p, "idle", NoPerson)
      BY <1>3, <2>3 DEF CheckLink, VisitEnd
    <3>2. VisitSane(p)'
      BY <3>1, GotoIs DEF VisitSane, AccountInv
    <3> QED BY <2>1, <3>1, <3>2, MovesKeep
  <2> QED BY <2>2, <2>3
<1> QED BY <1>1, <1>2, <1>3 DEF CheckVerification, CheckReset, Kinds

\* A registration draws its token next.
LEMMA CreateKeeps ==
    ASSUME AccountInv, NEW p \in Visits, CreateUser(p)
    PROVE  AccountInv'
<1> DEFINE u == visitFor[p]
<1>0. u \in People /\ visitPc[p] = "create" /\ UNCHANGED <<remembered, link, uses, contested, accountFaults>>
  BY DEF AccountInv, VisitSane, CreateUser
<1>1. CASE /\ account' = [account EXCEPT ![u] = "unverified"]
           /\ VisitGoto(p, "newVerify", u)
  <2>1. AccountTypeOK'
    BY <1>0, <1>1, GotoIs DEF AccountInv, AccountTypeOK, AccountStates, VisitPCs
  <2>2. VisitSane(p)'
    BY <1>0, <1>1, GotoIs DEF VisitSane, AccountInv, VisitPCs
  <2>3. \A q \in Visits : VisitSane(q)'
    BY <1>0, <1>1, <2>2, GotoIs, OthersStay DEF AccountInv, Exists, VisitPCs
  <2>4. UsesMarked' /\ LinkWorksOnce'
    BY <1>0 DEF AccountInv, UsesMarked, LinkWorksOnce, Exists
  <2>5. RegisteredCanVerify'
    <3>1. visitPc'[p] = "newVerify" /\ visitFor'[p] = u
      BY <1>0, <1>1, GotoIs DEF AccountInv, VisitPCs
    <3>2. \A v \in People \ {u} : account'[v] = account[v]
      BY <1>0, <1>1 DEF AccountInv, AccountTypeOK
    <3>3. \A q \in Visits : visitPc[q] = "newVerify" =>
             visitPc'[q] = "newVerify" /\ visitFor'[q] = visitFor[q]
      BY <1>0, <1>1, GotoIs DEF AccountInv, VisitPCs
    <3> QED BY <1>0, <3>1, <3>2, <3>3
        DEF AccountInv, RegisteredCanVerify, Usable, Unused, Exists
  <2> QED BY <2>1, <2>3, <2>4, <2>5 DEF AccountInv
<1>2. CASE VisitEnd(p) /\ UNCHANGED account
  <2>1. VisitSane(p)'
    BY <1>2, GotoIs DEF VisitEnd, VisitSane, AccountInv, VisitPCs
  <2> QED BY <1>0, <1>2, <2>1, MovesKeep DEF VisitEnd, VisitPCs, accountRows
<1> QED BY <1>1, <1>2 DEF CreateUser

\* A new row; a new verification can be followed.
LEMMA DrawKeeps ==
    ASSUME AccountInv, NEW p \in Visits, NewVerification(p) \/ NewReset(p)
    PROVE  AccountInv'
<1>1. ASSUME NEW kind \in Kinds, NEW pc \in {"newVerify", "newReset"}, NewLink(p, kind, pc),
             pc = "newVerify" => kind = "verify"
      PROVE  AccountInv'
  <2> DEFINE u == visitFor[p]
  <2>0. u \in People /\ visitPc[p] = pc /\ UNCHANGED <<account, remembered, uses, contested, accountFaults>>
    BY <1>1 DEF AccountInv, VisitSane, NewLink
  <2> DEFINE row == [of |-> u, kind |-> kind, isUsed |-> FALSE, isExpired |-> FALSE, mail |-> "no"]
  <2>1. PICK k \in Links : ~Exists(k) /\ link' = [link EXCEPT ![k] = row]
                           /\ VisitGoto(p, "mail", k)
    BY <1>1 DEF NewLink
  <2>2. row \in LinkRow /\ row # NoLink
    BY <2>0, NoPersonAssumption DEF LinkRow, NoLink, Kinds
  <2>3. link'[k] = row /\ \A l \in Links \ {k} : link'[l] = link[l]
    BY <2>1 DEF AccountInv, AccountTypeOK
  <2> HIDE DEF row
  <2>4. AccountTypeOK'
    BY <2>0, <2>1, <2>2, GotoIs DEF AccountInv, AccountTypeOK, VisitPCs
  <2>5. \A l \in Links : Exists(l) => Exists(l)' /\ link'[l] = link[l]
    BY <2>1, <2>3 DEF Exists
  <2>6. VisitSane(p)'
    BY <2>1, <2>2, <2>3, GotoIs DEF VisitSane, AccountInv, VisitPCs, Exists
  <2>7. \A q \in Visits : VisitSane(q)'
    BY <2>1, <2>5, <2>6, GotoIs, OthersStay DEF AccountInv, VisitPCs
  <2>8. UsesMarked' /\ LinkWorksOnce'
    BY <2>0, <2>1, <2>5 DEF AccountInv, UsesMarked, LinkWorksOnce
  <2>9. RegisteredCanVerify'
    <3>1. pc = "newVerify" => Usable(k, "verify")' /\ link'[k].of = u
      BY <1>1, <2>2, <2>3 DEF Usable, Unused, Exists, row
    <3>2. \A q \in Visits \ {p} : visitPc'[q] = visitPc[q] /\ visitFor'[q] = visitFor[q]
      BY <2>1, GotoIs DEF AccountInv, VisitPCs
    <3>3. \A l \in Links : (Usable(l, "verify") => Usable(l, "verify")' /\ link'[l] = link[l])
      BY <2>5 DEF Usable, Unused
    <3> QED BY <2>0, <2>5, <3>1, <3>2, <3>3 DEF AccountInv, RegisteredCanVerify
  <2> QED BY <2>4, <2>7, <2>8, <2>9 DEF AccountInv
<1> QED BY <1>1 DEF NewVerification, NewReset, Kinds

\* A row that changes keeps its owner and its kind; its mark only appears.
LEMMA RowSteps ==
    ASSUME AccountInv, NEW k \in Links, Exists(k), NEW row \in LinkRow,
           row.of = link[k].of, row.kind = link[k].kind, row.isUsed = link[k].isUsed,
           link' = [link EXCEPT ![k] = row],
           row.isExpired = link[k].isExpired \/ row.isExpired
    PROVE  /\ \A l \in Links : Exists(l) <=> Exists(l)'
           /\ \A l \in Links : Exists(l) =>
                 /\ link'[l].of = link[l].of /\ link'[l].kind = link[l].kind
                 /\ link'[l].isUsed = link[l].isUsed
                 /\ link[l].isExpired => link'[l].isExpired
                 /\ Usable(l, "verify") => Usable(l, "verify")' \/ link'[l].isExpired
           /\ link' \in [Links -> LinkRow \cup {NoLink}]
<1>1. row # NoLink /\ link[k] \in LinkRow
  BY RowThere, NoPersonAssumption DEF AccountInv, LinkRow, NoLink
<1>2. link'[k] = row /\ \A l \in Links \ {k} : link'[l] = link[l]
  BY DEF AccountInv, AccountTypeOK
<1>3. link' \in [Links -> LinkRow \cup {NoLink}]
  BY DEF AccountInv, AccountTypeOK
<1> QED BY <1>1, <1>2, <1>3 DEF Exists, Usable, Unused

\* A registration's mail is queued; a mail arrives, is lost, or is too old.
LEMMA MailKeeps ==
    ASSUME AccountInv,
           \/ \E p \in Visits : QueueMail(p)
           \/ \E k \in Links : MailArrives(k) \/ MailLost(k) \/ LinkExpires(k)
    PROVE  AccountInv'
<1>1. ASSUME NEW k \in Links, Exists(k), NEW row \in LinkRow,
             row.of = link[k].of, row.kind = link[k].kind, row.isUsed = link[k].isUsed,
             row.isExpired = link[k].isExpired \/ row.isExpired,
             link' = [link EXCEPT ![k] = row],
             UNCHANGED <<visitVars, account, remembered, uses, contested>>,
             accountFaults' \in 0..MaxAccountFaults, accountFaults' >= accountFaults
      PROVE  AccountInv'
  <2>0. accountFaults \in Nat
    BY AccountFaultsAssumption DEF AccountInv, AccountTypeOK
  <2>1. AccountTypeOK'
    BY <1>1, RowSteps DEF AccountInv, AccountTypeOK, visitVars
  <2>a. \A l \in Links : Exists(l) =>
           /\ Exists(l)' /\ link'[l].of = link[l].of /\ link'[l].kind = link[l].kind
           /\ link[l].isExpired => link'[l].isExpired
    BY <1>1, RowSteps
  <2>2. \A q \in Visits : VisitSane(q)'
    BY <1>1, <2>a DEF AccountInv, VisitSane, visitVars
  <2>3. UsesMarked' /\ LinkWorksOnce'
    BY <1>1, RowSteps DEF AccountInv, UsesMarked, LinkWorksOnce
  <2>4. RegisteredCanVerify'
    <3> SUFFICES ASSUME NEW u \in People, account'[u] = "unverified",
                        ~ \E l \in Links : Exists(l)' /\ link'[l].of = u /\ link'[l].isExpired,
                        ~ accountFaults' > 0,
                        ~ \E p \in Visits : visitPc'[p] = "newVerify" /\ visitFor'[p] = u
                 PROVE  \E l \in Links : Usable(l, "verify")' /\ link'[l].of = u
      BY DEF RegisteredCanVerify
    <3>1. ~(accountFaults > 0)
      BY <1>1, <2>0
    <3>2. PICK l \in Links : Usable(l, "verify") /\ link[l].of = u
      BY <1>1, <2>a, <3>1 DEF AccountInv, RegisteredCanVerify, visitVars
    <3> QED BY <1>1, <3>2, RowSteps DEF Usable, Unused
  <2> QED BY <2>1, <2>2, <2>3, <2>4 DEF AccountInv
<1> USE RowThere DEF AccountInv
<1>0. accountFaults \in 0..MaxAccountFaults /\ accountFaults \in Nat
  BY AccountFaultsAssumption DEF AccountTypeOK
<1>2. ASSUME NEW k \in Links, MailArrives(k) PROVE AccountInv'
  <2> DEFINE row == [link[k] EXCEPT !.mail = "sent"]
  <2>1. /\ Exists(k) /\ row \in LinkRow /\ row.of = link[k].of /\ row.kind = link[k].kind
        /\ row.isUsed = link[k].isUsed /\ row.isExpired = link[k].isExpired
    BY <1>2 DEF MailArrives, LinkRow
  <2>2. /\ link' = [link EXCEPT ![k] = row] /\ UNCHANGED accountFaults
        /\ UNCHANGED <<visitVars, account, remembered, uses, contested>>
    BY <1>2 DEF MailArrives, LinkStep
  <2>3. accountFaults' \in 0..MaxAccountFaults /\ accountFaults' >= accountFaults
    BY <1>0, <2>2
  <2> QED BY <1>1, <2>1, <2>2, <2>3
<1>3. ASSUME NEW k \in Links, MailLost(k) PROVE AccountInv'
  <2> DEFINE row == [link[k] EXCEPT !.mail = "no"]
  <2>1. /\ Exists(k) /\ row \in LinkRow /\ row.of = link[k].of /\ row.kind = link[k].kind
        /\ row.isUsed = link[k].isUsed /\ row.isExpired = link[k].isExpired
    BY <1>3 DEF MailLost, LinkRow
  <2>2. /\ link' = [link EXCEPT ![k] = row]
        /\ UNCHANGED <<visitVars, account, remembered, uses, contested>>
    BY <1>3 DEF MailLost, LinkStep
  <2>3. accountFaults' \in 0..MaxAccountFaults /\ accountFaults' >= accountFaults
    BY <1>0, <1>3, AccountFaultsAssumption DEF MailLost, AccountFault
  <2> QED BY <1>1, <2>1, <2>2, <2>3
<1>4. ASSUME NEW k \in Links, LinkExpires(k) PROVE AccountInv'
  <2> DEFINE row == [link[k] EXCEPT !.isExpired = TRUE]
  <2>1. /\ Exists(k) /\ row \in LinkRow /\ row.of = link[k].of /\ row.kind = link[k].kind
        /\ row.isUsed = link[k].isUsed /\ row.isExpired
    BY <1>4 DEF LinkExpires, LinkRow
  <2>2. /\ link' = [link EXCEPT ![k] = row] /\ UNCHANGED accountFaults
        /\ UNCHANGED <<visitVars, account, remembered, uses, contested>>
    BY <1>4 DEF LinkExpires, LinkStep
  <2>3. accountFaults' \in 0..MaxAccountFaults /\ accountFaults' >= accountFaults
    BY <1>0, <2>2
  <2> QED BY <1>1, <2>1, <2>2, <2>3
<1>5. ASSUME NEW p \in Visits, QueueMail(p) PROVE AccountInv'
  <2> DEFINE k == visitFor[p]
  <2>0. k \in Links /\ Exists(k) /\ visitPc[p] = "mail" /\ link[k] \in LinkRow
    BY <1>5 DEF QueueMail, VisitSane
  <2> DEFINE row == [link[k] EXCEPT !.mail = "queued"]
  <2>1. row \in LinkRow /\ row.of = link[k].of /\ row.kind = link[k].kind
        /\ row.isUsed = link[k].isUsed /\ row.isExpired = link[k].isExpired
        /\ link[k].of \in People
    BY <2>0 DEF LinkRow
  <2>2. link' = [link EXCEPT ![k] = row] /\ UNCHANGED <<account, remembered, uses, contested, accountFaults>>
    BY <1>5 DEF QueueMail
  <2>3. PICK label \in {"remember", "idle"}, what \in People \cup {NoPerson} :
            /\ VisitGoto(p, label, what)
            /\ label = "remember" => what \in People
    BY <1>5, <2>1 DEF QueueMail, VisitEnd
  <2> HIDE DEF row, k
  <2>4. /\ \A l \in Links : Exists(l) => Exists(l)' /\ link'[l].kind = link[l].kind
                              /\ link'[l].isUsed = link[l].isUsed /\ link'[l].of = link[l].of
        /\ link' \in [Links -> LinkRow \cup {NoLink}]
        /\ \A l \in Links : Exists(l) /\ link[l].isExpired => link'[l].isExpired
        /\ \A l \in Links : Usable(l, "verify") => Usable(l, "verify")' \/ link'[l].isExpired
    BY <2>0, <2>1, <2>2, RowSteps DEF Usable, Unused
  <2>5. AccountTypeOK'
    BY <2>2, <2>3, <2>4, GotoIs DEF AccountTypeOK, VisitPCs
  <2>6. VisitSane(p)'
    BY <2>3, GotoIs DEF VisitSane, VisitPCs
  <2>7. \A q \in Visits : VisitSane(q)'
    BY <2>3, <2>4, <2>6, GotoIs, OthersStay DEF VisitPCs
  <2>8. UsesMarked' /\ LinkWorksOnce'
    BY <2>2, <2>4 DEF UsesMarked, LinkWorksOnce
  <2>9. RegisteredCanVerify'
    <3>1. \A q \in Visits : visitPc[q] = "newVerify" =>
             visitPc'[q] = "newVerify" /\ visitFor'[q] = visitFor[q]
      BY <2>0, <2>3, GotoIs DEF VisitPCs
    <3>2. \A l \in Links : Usable(l, "verify") => Exists(l)
      BY DEF Usable, Unused
    <3> QED BY <2>2, <2>4, <3>1, <3>2 DEF RegisteredCanVerify
  <2> QED BY <2>5, <2>7, <2>8, <2>9
<1> QED BY <1>2, <1>3, <1>4, <1>5

\* Spending a token marks it, and counts a second use as contested.
LEMMA SpendKeeps ==
    ASSUME AccountInv, NEW p \in Visits, VerifyEmail(p) \/ ResetPassword(p)
    PROVE  AccountInv'
<1> DEFINE k == visitFor[p]
<1> USE DEF AccountInv
<1>0. /\ k \in Links /\ Exists(k) /\ visitPc[p] \in {"useVerify", "useReset"}
      /\ visitPc[p] = "useReset" => link[k].kind = "reset"
      /\ PersonAt(p) = link[k].of
      /\ link' = [link EXCEPT ![k].isUsed = TRUE]
      /\ uses' = [uses EXCEPT ![k] = @ + 1]
      /\ p \in readUnused
      /\ contested' = IF link[k].isUsed /\ p \in readUnused THEN contested \cup {k} ELSE contested
      /\ UNCHANGED <<accountFaults, remembered>>
  BY DEF VerifyEmail, ResetPassword, Spend, Marked, VisitSane, PersonAt
<1>1. link[k] \in LinkRow /\ link[k].of \in People
  BY <1>0, RowThere DEF LinkRow
<1> DEFINE row == [link[k] EXCEPT !.isUsed = TRUE]
<1>2. /\ row \in LinkRow /\ row # NoLink /\ row.isUsed
      /\ row.of = link[k].of /\ row.kind = link[k].kind /\ row.isExpired = link[k].isExpired
  BY <1>1, NoPersonAssumption DEF LinkRow, NoLink
<1>3. /\ link'[k] = row /\ \A l \in Links \ {k} : link'[l] = link[l]
      /\ link' \in [Links -> LinkRow \cup {NoLink}]
  BY <1>0, <1>2 DEF AccountTypeOK
<1>4. PICK label \in {"remember", "idle"}, what \in People \cup {NoPerson} :
          /\ VisitGoto(p, label, what)
          /\ label = "remember" => what \in People
  BY <1>0, <1>1 DEF VerifyEmail, ResetPassword, VisitEnd
<1>5. /\ \A u \in People : account'[u] = "unverified" => account[u] = "unverified"
      /\ visitPc[p] = "useVerify" => account'[link[k].of] = "verified"
      /\ account' \in [People -> AccountStates]
  <2>1. CASE VerifyEmail(p)
    BY <1>0, <1>1, <2>1 DEF VerifyEmail, Verified, AccountTypeOK, AccountStates
  <2>2. CASE ResetPassword(p)
    BY <2>2 DEF ResetPassword, Spend, AccountTypeOK
  <2> QED BY <2>1, <2>2
<1> HIDE DEF row, k
<1>6. AccountTypeOK'
  BY <1>0, <1>3, <1>4, <1>5, GotoIs DEF AccountTypeOK, VisitPCs
<1>7. VisitSane(p)'
  BY <1>4, GotoIs DEF VisitSane, VisitPCs
<1>8. \A l \in Links : Exists(l) => Exists(l)' /\ link'[l].kind = link[l].kind
                          /\ link'[l].of = link[l].of /\ link'[l].isExpired = link[l].isExpired
  BY <1>2, <1>3 DEF Exists
<1>9. \A q \in Visits : VisitSane(q)'
  BY <1>4, <1>7, <1>8, GotoIs, OthersStay DEF VisitPCs
<1>10. UsesMarked' /\ LinkWorksOnce'
  <2> SUFFICES ASSUME NEW l \in Links
               PROVE  /\ uses'[l] > 0 => Exists(l)' /\ link'[l].isUsed
                      /\ uses'[l] <= 1 \/ l \in contested'
    BY DEF UsesMarked, LinkWorksOnce
  <2>1. CASE l = k
    <3>1. uses'[k] = uses[k] + 1 /\ uses[k] \in Nat
      BY <1>0 DEF AccountTypeOK
    <3>2. uses[k] > 0 => link[k].isUsed
      BY <1>0 DEF UsesMarked
    <3>3. Exists(l)' /\ link'[l].isUsed
      BY <1>2, <1>3, <2>1 DEF Exists
    <3>4. uses'[l] <= 1 \/ l \in contested'
      BY <1>0, <2>1, <3>1, <3>2
    <3> QED BY <3>3, <3>4
  <2>2. CASE l # k
    <3>1. uses'[l] = uses[l] /\ link'[l] = link[l] /\ contested \subseteq contested'
      BY <1>0, <1>3, <2>2 DEF AccountTypeOK
    <3> QED BY <3>1 DEF UsesMarked, LinkWorksOnce, Exists
  <2> QED BY <2>1, <2>2
<1>11. RegisteredCanVerify'
  <2>1. \A q \in Visits : visitPc[q] = "newVerify" =>
           visitPc'[q] = "newVerify" /\ visitFor'[q] = visitFor[q]
    BY <1>0, <1>4, GotoIs DEF VisitPCs
  <2>2. \A l \in Links \ {k} : Usable(l, "verify") => Usable(l, "verify")'
    BY <1>3 DEF Usable, Unused, Exists
  <2>3. \A u \in People : account'[u] = "unverified" => ~(Usable(k, "verify") /\ link[k].of = u)
    BY <1>0, <1>5 DEF Usable
  <2>4. \A l \in Links : Usable(l, "verify") => Exists(l)
    BY DEF Usable, Unused
  <2> QED BY <1>0, <1>5, <1>8, <2>1, <2>2, <2>3, <2>4 DEF RegisteredCanVerify
<1> QED BY <1>6, <1>9, <1>10, <1>11

\* A refresh token, or a failure.
LEMMA EndKeeps ==
    ASSUME AccountInv, NEW p \in Visits, Remember(p) \/ VisitFails(p)
    PROVE  AccountInv'
<1> USE DEF AccountInv
<1>0. VisitGoto(p, "idle", NoPerson) /\ UNCHANGED <<account, link, uses, contested>>
  BY DEF Remember, VisitFails, VisitEnd, accountRows
<1>1. /\ remembered' \subseteq People /\ accountFaults' \in 0..MaxAccountFaults
      /\ (accountFaults' = accountFaults /\ visitPc[p] = "remember") \/ accountFaults' > 0
  BY AccountFaultsAssumption
  DEF Remember, VisitFails, AccountTypeOK, AccountFault, accountRows, VisitSane
<1>2. AccountTypeOK'
  BY <1>0, <1>1, GotoIs DEF AccountTypeOK, VisitPCs
<1>3. VisitSane(p)'
  BY <1>0, GotoIs DEF VisitSane, VisitPCs
<1>4. \A q \in Visits : VisitSane(q)'
  BY <1>0, <1>3, GotoIs, OthersStay DEF VisitPCs, Exists
<1>5. UsesMarked' /\ LinkWorksOnce'
  BY <1>0 DEF UsesMarked, LinkWorksOnce, Exists
<1>6. RegisteredCanVerify'
  <2>1. \A q \in Visits \ {p} : visitPc'[q] = visitPc[q] /\ visitFor'[q] = visitFor[q]
    BY <1>0, GotoIs DEF VisitPCs
  <2> QED BY <1>0, <1>1, <2>1 DEF RegisteredCanVerify, Usable, Unused, Exists
<1> QED BY <1>2, <1>4, <1>5, <1>6

\* The inductive invariant of the accounts.
THEOREM AccountInvariant == AccountSpec => []AccountInv
<1>1. AccountInit => AccountInv
  BY AccountFaultsAssumption
  DEF AccountInit, AccountInv, AccountTypeOK, VisitPCs, AccountStates, VisitSane, UsesMarked,
      LinkWorksOnce, RegisteredCanVerify, Exists
<1>2. AccountInv /\ [AccountNext]_accountVars => AccountInv'
  <2> SUFFICES ASSUME AccountInv, [AccountNext]_accountVars PROVE AccountInv'
    OBVIOUS
  <2>1. CASE AccountNext
    BY <2>1, VisitMoves, CreateKeeps, DrawKeeps, MailKeeps, SpendKeeps, EndKeeps DEF AccountNext
  <2>2. CASE UNCHANGED accountVars
    BY <2>2 DEF AccountInv, AccountTypeOK, VisitSane, UsesMarked, LinkWorksOnce,
        RegisteredCanVerify, Usable, Unused, Exists, accountVars, visitVars, accountRows
  <2> QED BY <2>1, <2>2
<1> QED BY <1>1, <1>2, PTL DEF AccountSpec

\* A token works once, unless the request that spends it again had itself read
\* it before it was spent (the usedAt checks of auth.service.ts).
THEOREM TokensWorkOnce == AccountSpec => []LinkWorksOnce
BY AccountInvariant, PTL DEF AccountInv

\* Nobody is registered with an address that nothing can verify any more, unless
\* a step failed or the link expired.
THEOREM RegisteredVerify == AccountSpec => []RegisteredCanVerify
BY AccountInvariant, PTL DEF AccountInv
================================================================================
