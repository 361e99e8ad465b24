------------------------------ MODULE SigningKeys ------------------------------
(***************************************************************************)
(* The RSA key pair of a voting or a survey                                *)
(* (backend/src/signing-keys/signing-keys.service.ts): the public key is a *)
(* row of VotingSigningKey, the private key lives in the environment of    *)
(* the process that generated the pair, one of several replicas.           *)
(*                                                                         *)
(* A key pair is named by one key.  A client asks for the public key,      *)
(* blinds its secret with it, posts the blinded secret to be signed and    *)
(* unblinds the answer (requestSignature of frontend/hooks/api/useVotings.ts); *)
(* the signature verifies when the key that blinded, the key that signed   *)
(* and the row are one.  A client in Direct posts without asking first.    *)
(***************************************************************************)
EXTENDS Naturals, FiniteSets

CONSTANTS
    Entities,     \* votings and surveys
    Keys,         \* bound: the key pairs that can be generated
    Replicas,     \* back-end processes behind the load balancer
    Clients,      \* clients that want a signature
    Direct,       \* the clients that do not ask for the key first
    EntityOf,     \* [Clients -> Entities]: what the client wants to vote in
    NoKey, NoReplica,
    MaxRestarts   \* bound: restarts of a replica

VARIABLES
    row,          \* [Entities -> the public key stored, or NoKey]
    env,          \* [Replicas -> [Entities -> the private key, or NoKey]]
    pc, at,       \* where each client's request is, and at which replica
    blinded,      \* the key a client blinded its secret with
    found, made,  \* what ensureVotingKey read, what it generated
    signature,    \* what the client was answered
    generated,    \* history: [Keys -> the entity a pair was generated for]
    restarts

vars == <<row, env, pc, at, blinded, found, made, signature, generated, restarts>>
keyRequestVars == <<blinded, found, made, signature>>

NoEntity == NoKey
Environment == [Entities -> Keys \cup {NoKey}]
NoSignature == [signedBy |-> NoKey, modulus |-> NoKey]
Signature == [signedBy : Keys \cup {NoKey}, modulus : Keys \cup {NoKey}]

ASSUME ClientsAssumption == Direct \subseteq Clients /\ EntityOf \in [Clients -> Entities]
ASSUME NullAssumption == NoKey \notin Keys \cup Entities /\ NoReplica \notin Replicas
ASSUME RestartsAssumption == MaxRestarts \in Nat

Entity(c) == EntityOf[c]

\* VOTING_PRIVATE_KEY_<entityId>, the variable of the environment a private key
\* is kept in.  The mutant keeps all of them in one.
MutPrivateKeyEnvKey(e) == CHOOSE x \in Entities : TRUE
PrivateKeyEnvKey(e) == e

PrivateKey(c) == env[at[c]][PrivateKeyEnvKey(Entity(c))]

AnswerKey(c, k, n) == signature' = [signature EXCEPT ![c] = [signedBy |-> k, modulus |-> n]]
Goto(c, label) == pc' = [pc EXCEPT ![c] = label]

-----------------------------------------------------------------------------
(* The client.                                                             *)

\* GET signing-key: getVotingKey reads the row; no row means 404, and the
\* client gives up this attempt.
FetchKey(c) ==
    /\ pc[c] = "start" /\ c \notin Direct
    /\ \/ row[Entity(c)] # NoKey /\ Goto(c, "post")
       \/ row[Entity(c)] = NoKey /\ Goto(c, "refused")
    /\ blinded' = [blinded EXCEPT ![c] = row[Entity(c)]]
    /\ UNCHANGED <<row, env, at, found, made, signature, generated, restarts>>

\* POST sign: the load balancer picks a replica.
PostSign(c) ==
    /\ pc[c] = "post" \/ (pc[c] = "start" /\ c \in Direct)
    /\ \E n \in Replicas : at' = [at EXCEPT ![c] = n]
    /\ Goto(c, "find")
    /\ UNCHANGED <<row, env, keyRequestVars, generated, restarts>>

\* The user tries again after an error.
Retry(c) ==
    /\ pc[c] = "refused"
    /\ Goto(c, "start")
    /\ UNCHANGED <<row, env, at, keyRequestVars, generated, restarts>>

-----------------------------------------------------------------------------
(* ensureVotingKey and ensureSurveyKey, within signBlindedToken.           *)

\* findUnique.
FindRow(c) ==
    /\ pc[c] = "find"
    /\ found' = [found EXCEPT ![c] = row[Entity(c)]]
    /\ Goto(c, IF row[Entity(c)] = NoKey THEN "make" ELSE "use")
    /\ UNCHANGED <<row, env, at, blinded, made, signature, generated, restarts>>

\* The modulus that goes with a signature by an existing key.  The mutant
\* derives it from the private key.
MutModulus(c) == PrivateKey(c)
Modulus(c) == found[c]

\* The row exists: sign with the private key this process holds, which is the
\* one it stored last; a process without one throws.
UseKey(c) ==
    /\ pc[c] = "use"
    /\ \/ /\ PrivateKey(c) # NoKey
          /\ AnswerKey(c, PrivateKey(c), Modulus(c))
          /\ Goto(c, "signed")
       \/ /\ PrivateKey(c) = NoKey
          /\ Goto(c, "refused")
          /\ UNCHANGED signature
    /\ UNCHANGED <<row, env, at, blinded, found, made, generated, restarts>>

\* No row: generateVotingKeyPair, then storePrivateKey, which replaces the
\* private key a concurrent request of this process may have stored.
MakeKey(c) ==
    /\ pc[c] = "make"
    /\ \E k \in Keys :
          /\ generated[k] = NoEntity
          /\ generated' = [generated EXCEPT ![k] = Entity(c)]
          /\ made' = [made EXCEPT ![c] = k]
          /\ env' = [env EXCEPT ![at[c]][PrivateKeyEnvKey(Entity(c))] = k]
    /\ Goto(c, "create")
    /\ UNCHANGED <<row, at, blinded, found, signature, restarts>>

\* Unique index on votingId and surveyId.
RowUnique(e) == row[e] = NoKey

\* create: the row of the request that comes first stays, and that request
\* signs with its own pair; the unique index turns the others away.
CreateRow(c) ==
    /\ pc[c] = "create"
    /\ \/ /\ RowUnique(Entity(c))
          /\ row' = [row EXCEPT ![Entity(c)] = made[c]]
          /\ AnswerKey(c, made[c], made[c])
          /\ Goto(c, "signed")
       \/ /\ ~RowUnique(Entity(c))
          /\ Goto(c, "refused")
          /\ UNCHANGED <<row, signature>>
    /\ UNCHANGED <<env, at, blinded, found, made, generated, restarts>>

NoPrivateKeys == [e \in Entities |-> NoKey]

\* A replica restarts: the private keys it generated were in its environment,
\* and the requests it was serving fail.
Restart(n) ==
    /\ restarts < MaxRestarts
    /\ restarts' = restarts + 1
    /\ env' = [env EXCEPT ![n] = NoPrivateKeys]
    /\ pc' = [c \in Clients |->
                 IF at[c] = n /\ pc[c] \in {"find", "use", "make", "create"}
                 THEN "refused" ELSE pc[c]]
    /\ UNCHANGED <<row, at, keyRequestVars, generated>>

-----------------------------------------------------------------------------

Init ==
    /\ row = [e \in Entities |-> NoKey]
    /\ env = [n \in Replicas |-> NoPrivateKeys]
    /\ pc = [c \in Clients |-> "start"]
    /\ at = [c \in Clients |-> NoReplica]
    /\ blinded = [c \in Clients |-> NoKey]
    /\ found = [c \in Clients |-> NoKey]
    /\ made = [c \in Clients |-> NoKey]
    /\ signature = [c \in Clients |-> NoSignature]
    /\ generated = [k \in Keys |-> NoEntity]
    /\ restarts = 0

Ensure(c) == FindRow(c) \/ UseKey(c) \/ MakeKey(c) \/ CreateRow(c)
Ask(c) == FetchKey(c) \/ PostSign(c) \/ Retry(c)

Next ==
    \/ \E c \in Clients : Ask(c) \/ Ensure(c)
    \/ \E n \in Replicas : Restart(n)

Spec == Init /\ [][Next]_vars

\* Replicas run their handlers on and clients keep asking.
FairSpec == Spec /\ \A c \in Clients : WF_vars(Ensure(c)) /\ WF_vars(Ask(c))

-----------------------------------------------------------------------------
(* Properties.                                                             *)

TypeOK ==
    /\ row \in [Entities -> Keys \cup {NoKey}]
    /\ env \in [Replicas -> Environment]
    /\ pc \in [Clients -> {"start", "post", "find", "use", "make", "create",
                           "signed", "refused"}]
    /\ at \in [Clients -> Replicas \cup {NoReplica}]
    /\ \A c \in Clients : pc[c] \in {"find", "use", "make", "create"} => at[c] \in Replicas
    /\ blinded \in [Clients -> Keys \cup {NoKey}]
    /\ found \in [Clients -> Keys \cup {NoKey}]
    /\ made \in [Clients -> Keys \cup {NoKey}]
    /\ signature \in [Clients -> Signature]
    /\ generated \in [Keys -> Entities \cup {NoEntity}]
    /\ restarts \in 0..MaxRestarts

\* Whatever replica answers, the modulus that goes with a signature is the one
\* of the row, now and ever after: a client that unblinds with it and a vote
\* that is verified against the row speak of the same public key.
ModulusIsTheRow ==
    \A c \in Clients : pc[c] = "signed" =>
        /\ signature[c].modulus = row[Entity(c)]
        /\ c \notin Direct => blinded[c] = row[Entity(c)]

\* The invariant that carries the proof (SigningKeysProofs): a row stays, and
\* every request that blinded with it or read it has that row.
KeysInv ==
    \A c \in Clients :
        /\ pc[c] = "use" => found[c] = row[Entity(c)] /\ row[Entity(c)] # NoKey
        /\ pc[c] = "post" => c \notin Direct
        /\ pc[c] \in {"post", "find", "use", "make", "create", "signed"} /\ c \notin Direct
              => blinded[c] = row[Entity(c)] /\ row[Entity(c)] # NoKey
        /\ pc[c] = "create" => made[c] \in Keys
        /\ pc[c] = "signed" => /\ signature[c].modulus = row[Entity(c)]
                              /\ row[Entity(c)] # NoKey

Generated(e) == {k \in Keys : generated[k] = e}

\* One entity's key never signs for another, and a signature its row does not
\* verify takes a second pair that was generated for the entity.
MismatchNeedsRace ==
    \A c \in Clients : pc[c] = "signed" =>
        /\ signature[c].signedBy \in Generated(Entity(c))
        /\ signature[c].signedBy # row[Entity(c)] => Cardinality(Generated(Entity(c))) > 1

\* "Public key is stored in Postgres (VotingSigningKey) so any replica can
\* verify a signature" (signing-keys.service.ts:19): a signature handed out
\* verifies under the row.  Does not hold: the request that loses the race for
\* the row has replaced the winner's private key in their process.
SignaturesVerify ==
    \A c \in Clients \ Direct : pc[c] = "signed" => signature[c].signedBy = row[Entity(c)]

\* GET signing-key calls ensureVotingKey (docs/blind-signature-changes.md:461),
\* so a voter's client that keeps asking is signed in the end.  Does not hold:
\* the handler calls getVotingKey, which finds no row until somebody signs.
FirstVoterIsSigned == \A c \in Clients \ Direct : <>(pc[c] = "signed")

=============================================================================
