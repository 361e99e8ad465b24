------------------------------- MODULE Accounts -------------------------------
(***************************************************************************)
(* Registration, the verification of the address and the reset of a        *)
(* password: the requests of auth.service.ts, the tokens they keep in      *)
(* Postgres and the mails that carry them.                                 *)
(*                                                                         *)
(* A link is the row of an EmailVerificationToken or a PasswordResetToken, *)
(* with the mail that carries it.                                          *)
(***************************************************************************)
EXTENDS Naturals, FiniteSets

CONSTANTS
    People,          \* those who register, one address each
    Links,           \* bound: the tokens ever drawn
    Visits,          \* requests in flight at once, over all replicas
    NoPerson,        \* no link, no request
    MaxAccountFaults \* bound: requests and mails that fail

VARIABLES
    visitPc, visitFor,   \* the requests: the person or the link each is about
    readUnused,          \* history: those that read their link before its first use
    account, remembered, \* User; who has a RefreshToken row
    link,                \* the rows, and their mails
    uses, contested,     \* history
    accountFaults

visitVars == <<visitPc, visitFor, readUnused>>
accountRows == <<account, remembered, link, uses, contested>>
accountVars == <<visitVars, accountRows, accountFaults>>

Kinds == {"verify", "reset"}
VisitPCs == {"idle", "signIn", "create", "newVerify", "newReset", "mail", "remember",
             "checkVerify", "checkReset", "useVerify", "useReset"}
AccountStates == {"none", "unverified", "verified"}
LinkRow == [of : People, kind : Kinds, isUsed : BOOLEAN, isExpired : BOOLEAN,
            mail : {"no", "queued", "sent"}]
NoLink == [of |-> NoPerson]

ASSUME NoPersonAssumption == NoPerson \notin People
ASSUME AccountFaultsAssumption == MaxAccountFaults \in Nat

-----------------------------------------------------------------------------

Exists(k) == link[k] # NoLink
Unused(k) == Exists(k) /\ ~link[k].isUsed

\* The check of a token; the mutant does not look at usedAt.
MutUsable(k, kind) == Exists(k) /\ link[k].kind = kind /\ ~link[k].isExpired
Usable(k, kind) == Unused(k) /\ link[k].kind = kind /\ ~link[k].isExpired

VisitGoto(p, label, what) ==
    /\ visitPc' = [visitPc EXCEPT ![p] = label]
    /\ visitFor' = [visitFor EXCEPT ![p] = what]
    /\ readUnused' = IF label \in {"useVerify", "useReset"} /\ Unused(what)
                     THEN readUnused \cup {p} ELSE readUnused \ {p}
VisitEnd(p) == VisitGoto(p, "idle", NoPerson)

\* Who a request is about: the person, or the owner of the link.
PersonAt(p) == IF visitFor[p] \in Links THEN link[visitFor[p]].of ELSE visitFor[p]

\* Bound: every request that draws a token finds one.
Drawing(p) == visitPc[p] \in {"create", "newVerify", "newReset"}
LinksLeft ==
    Cardinality({p \in Visits : Drawing(p)}) < Cardinality({k \in Links : ~Exists(k)})

\* register, signIn and forgotPassword name a person; a link is followed when
\* its mail has come.
VisitBegin(p) ==
    /\ visitPc[p] = "idle"
    /\ \/ \E u \in People : VisitGoto(p, "signIn", u)
       \/ \E u \in People : LinksLeft /\ VisitGoto(p, "create", u)
       \/ \E u \in People : LinksLeft /\ account[u] # "none" /\ VisitGoto(p, "newReset", u)
       \/ \E k \in Links :
             /\ Exists(k) /\ link[k].mail = "sent"
             /\ VisitGoto(p, IF link[k].kind = "verify" THEN "checkVerify" ELSE "checkReset", k)
    /\ UNCHANGED <<accountRows, accountFaults>>

\* signIn: refused until the address is verified; a wrong password is refused
\* as well.  rememberMe asks for a refresh token.
SignInVisit(p) ==
    /\ visitPc[p] = "signIn"
    /\ \/ account[visitFor[p]] = "verified" /\ VisitGoto(p, "remember", visitFor[p])
       \/ VisitEnd(p)
    /\ UNCHANGED <<accountRows, accountFaults>>

\* usersService.create: the address is unique.
CreateUser(p) ==
    LET u == visitFor[p] IN
    /\ visitPc[p] = "create"
    /\ \/ /\ account[u] = "none"
          /\ account' = [account EXCEPT ![u] = "unverified"]
          /\ VisitGoto(p, "newVerify", u)
       \/ /\ account[u] # "none"
          /\ VisitEnd(p)
          /\ UNCHANGED account
    /\ UNCHANGED <<remembered, link, uses, contested, accountFaults>>

\* The row of a token, by a query of its own.
NewLink(p, kind, pc) ==
    /\ visitPc[p] = pc
    /\ \E k \in Links :
          /\ ~Exists(k)
          /\ link' = [link EXCEPT ![k] = [of |-> visitFor[p], kind |-> kind, isUsed |-> FALSE,
                                          isExpired |-> FALSE, mail |-> "no"]]
          /\ VisitGoto(p, "mail", k)
    /\ UNCHANGED <<account, remembered, uses, contested, accountFaults>>

NewVerification(p) == NewLink(p, "verify", "newVerify")
NewReset(p) == NewLink(p, "reset", "newReset")

\* mailQueue.add; a registration goes on to its refresh token.
QueueMail(p) ==
    LET k == visitFor[p] IN
    /\ visitPc[p] = "mail"
    /\ link' = [link EXCEPT ![k].mail = "queued"]
    /\ IF link[k].kind = "verify" THEN VisitGoto(p, "remember", link[k].of) ELSE VisitEnd(p)
    /\ UNCHANGED <<account, remembered, uses, contested, accountFaults>>

\* generateRefreshToken.
Remember(p) ==
    /\ visitPc[p] = "remember"
    /\ remembered' = remembered \cup {visitFor[p]}
    /\ VisitEnd(p)
    /\ UNCHANGED <<account, link, uses, contested, accountFaults>>

\* verifyEmail and resetPassword read the token ...
CheckLink(p, kind, from, to) ==
    /\ visitPc[p] = from
    /\ IF Usable(visitFor[p], kind) THEN VisitGoto(p, to, visitFor[p]) ELSE VisitEnd(p)
    /\ UNCHANGED <<accountRows, accountFaults>>

CheckVerification(p) == CheckLink(p, "verify", "checkVerify", "useVerify")
CheckReset(p) == CheckLink(p, "reset", "checkReset", "useReset")

\* usedAt, in the transaction of its effect.
Marked(k) == [link EXCEPT ![k].isUsed = TRUE]

Spend(p, from) ==
    LET k == visitFor[p] IN
    /\ visitPc[p] = from
    /\ link' = Marked(k)
    /\ uses' = [uses EXCEPT ![k] = @ + 1]
    /\ contested' = IF link[k].isUsed /\ p \in readUnused THEN contested \cup {k} ELSE contested
    /\ UNCHANGED accountFaults

\* What the transaction of verifyEmail makes of the user; the mutant spends the
\* token alone.
MutVerified(u) == account
Verified(u) == [account EXCEPT ![u] = "verified"]

\* ... and write in a transaction that does not look at it again.
VerifyEmail(p) ==
    /\ Spend(p, "useVerify")
    /\ account' = Verified(PersonAt(p))
    /\ VisitGoto(p, "remember", PersonAt(p))
    /\ UNCHANGED remembered

ResetPassword(p) ==
    /\ Spend(p, "useReset")
    /\ VisitEnd(p)
    /\ UNCHANGED <<account, remembered>>

-----------------------------------------------------------------------------
(* Mail, time and failures.                                                *)

LinkStep(k, row) ==
    /\ link' = [link EXCEPT ![k] = row]
    /\ UNCHANGED <<visitVars, account, remembered, uses, contested>>

MailArrives(k) ==
    /\ Exists(k) /\ link[k].mail = "queued"
    /\ LinkStep(k, [link[k] EXCEPT !.mail = "sent"])
    /\ UNCHANGED accountFaults

\* A mail job has one attempt.
AccountFault == accountFaults < MaxAccountFaults /\ accountFaults' = accountFaults + 1
MailLost(k) ==
    /\ Exists(k) /\ link[k].mail = "queued" /\ AccountFault
    /\ LinkStep(k, [link[k] EXCEPT !.mail = "no"])

\* 24 hours for a verification, one for a reset.
LinkExpires(k) ==
    /\ Exists(k) /\ ~link[k].isExpired
    /\ LinkStep(k, [link[k] EXCEPT !.isExpired = TRUE])
    /\ UNCHANGED accountFaults

\* A query or Redis fails, or the replica dies.
VisitFails(p) ==
    /\ visitPc[p] # "idle" /\ AccountFault
    /\ VisitEnd(p)
    /\ UNCHANGED accountRows

AccountInit ==
    /\ visitPc = [p \in Visits |-> "idle"]
    /\ visitFor = [p \in Visits |-> NoPerson]
    /\ readUnused = {}
    /\ account = [u \in People |-> "none"]
    /\ remembered = {}
    /\ link = [k \in Links |-> NoLink]
    /\ uses = [k \in Links |-> 0] /\ contested = {}
    /\ accountFaults = 0

AccountNext ==
    \/ \E p \in Visits :
          \/ VisitBegin(p) \/ SignInVisit(p) \/ CreateUser(p) \/ NewVerification(p)
          \/ NewReset(p) \/ QueueMail(p) \/ Remember(p) \/ CheckVerification(p)
          \/ CheckReset(p) \/ VerifyEmail(p) \/ ResetPassword(p) \/ VisitFails(p)
    \/ \E k \in Links : MailArrives(k) \/ MailLost(k) \/ LinkExpires(k)

AccountSpec == AccountInit /\ [][AccountNext]_accountVars

-----------------------------------------------------------------------------
(* Properties.                                                             *)

AccountTypeOK ==
    /\ visitPc \in [Visits -> VisitPCs]
    /\ visitFor \in [Visits -> People \cup Links \cup {NoPerson}]
    /\ readUnused \subseteq Visits
    /\ account \in [People -> AccountStates] /\ remembered \subseteq People
    /\ link \in [Links -> LinkRow \cup {NoLink}]
    /\ uses \in [Links -> Nat] /\ contested \subseteq Links
    /\ accountFaults \in 0..MaxAccountFaults

\* A link verifies an address or sets a password once, unless the request that
\* spends it again had itself read the token before it was spent.
LinkWorksOnce == \A k \in Links : uses[k] <= 1 \/ k \in contested

\* Nobody is left with an address they cannot verify and cannot register again,
\* unless a step of the registration or its mail failed, or the link expired:
\* nothing sends another one.
RegisteredCanVerify ==
    \A u \in People : account[u] = "unverified" =>
        \/ \E k \in Links : Usable(k, "verify") /\ link[k].of = u
        \/ \E p \in Visits : visitPc[p] = "newVerify" /\ visitFor[p] = u
        \/ accountFaults > 0
        \/ \E k \in Links : Exists(k) /\ link[k].of = u /\ link[k].isExpired
=============================================================================
