--------------------------- MODULE SigningKeysProofs ---------------------------
(***************************************************************************)
(* Proofs about SigningKeys, for every number of entities, replicas,       *)
(* clients and restarts.                                                   *)
(***************************************************************************)
EXTENDS SigningKeys, FiniteSetTheorems, TLAPS

LEMMA AnswerType ==
    ASSUME signature \in [Clients -> Signature], NEW c \in Clients,
           NEW k \in Keys \cup {NoKey}, NEW n \in Keys \cup {NoKey}, AnswerKey(c, k, n)
    PROVE  /\ signature' \in [Clients -> Signature]
           /\ signature'[c].modulus = n
           /\ \A d \in Clients : d # c => signature'[d] = signature[d]
<1>1. [signedBy |-> k, modulus |-> n] \in Signature
  BY DEF Signature
<1> QED
  BY <1>1 DEF AnswerKey

\* A client, its row and its request have the types SigningKeys gives them.
THEOREM KeysTypeCorrect == Spec => []TypeOK
<1>1. Init => TypeOK
  BY RestartsAssumption DEF Init, TypeOK, NoPrivateKeys, Environment, NoSignature, Signature
<1>2. TypeOK /\ [Next]_vars => TypeOK'
  <2> SUFFICES ASSUME TypeOK, [Next]_vars PROVE TypeOK'
    OBVIOUS
  <2> USE ClientsAssumption DEF TypeOK, keyRequestVars, Entity, Goto
  <2>1. ASSUME NEW c \in Clients, FetchKey(c) \/ PostSign(c) \/ Retry(c) PROVE TypeOK'
    BY <2>1 DEF FetchKey, PostSign, Retry
  <2>2. ASSUME NEW c \in Clients, FindRow(c) PROVE TypeOK'
    BY <2>2 DEF FindRow
  <2>3. ASSUME NEW c \in Clients, UseKey(c) PROVE TypeOK'
    <3>1. PICK k \in Keys \cup {NoKey}, n \in Keys \cup {NoKey} :
             \/ AnswerKey(c, k, n) /\ Goto(c, "signed")
             \/ UNCHANGED signature /\ Goto(c, "refused")
      <4>1. PICK k \in Keys \cup {NoKey}, n \in Keys \cup {NoKey} :
               k = PrivateKey(c) /\ n = Modulus(c)
        BY <2>3 DEF UseKey, PrivateKey, PrivateKeyEnvKey, Modulus, Environment
      <4> QED
        BY <2>3, <4>1 DEF UseKey, AnswerKey
    <3> QED
      BY <2>3, <3>1, AnswerType DEF UseKey
  <2>4. ASSUME NEW c \in Clients, MakeKey(c) PROVE TypeOK'
    <3>1. env' \in [Replicas -> Environment]
      BY <2>4 DEF MakeKey, Environment, PrivateKeyEnvKey
    <3> QED
      BY <2>4, <3>1 DEF MakeKey
  <2>5. ASSUME NEW c \in Clients, CreateRow(c) PROVE TypeOK'
    <3>1. PICK k \in Keys \cup {NoKey} : k = made[c]
      BY <2>5 DEF CreateRow
    <3>2. AnswerKey(c, k, k) \/ UNCHANGED signature
      BY <2>5, <3>1 DEF CreateRow, AnswerKey
    <3> QED
      BY <2>5, <3>1, <3>2, AnswerType DEF CreateRow
  <2>6. ASSUME NEW n \in Replicas, Restart(n) PROVE TypeOK'
    BY <2>6, RestartsAssumption DEF Restart, NoPrivateKeys, Environment
  <2>7. CASE UNCHANGED vars
    BY <2>7 DEF vars
  <2> QED
    BY <2>1, <2>2, <2>3, <2>4, <2>5, <2>6, <2>7 DEF Next, Ask, Ensure
<1> QED
  BY <1>1, <1>2, PTL DEF Spec

-----------------------------------------------------------------------------

LEMMA RowStays ==
    ASSUME TypeOK, [Next]_vars, NEW e \in Entities, row[e] # NoKey
    PROVE  row'[e] = row[e]
<1>1. ASSUME NEW c \in Clients, CreateRow(c) PROVE row'[e] = row[e]
  <2>1. CASE Entity(c) = e
    <3>1. ~RowUnique(Entity(c))
      BY <2>1 DEF RowUnique
    <3> QED
      BY <1>1, <3>1 DEF CreateRow
  <2>2. CASE Entity(c) # e
    BY <1>1, <2>2 DEF CreateRow, TypeOK
  <2> QED
    BY <2>1, <2>2
<1>2. ASSUME UNCHANGED row PROVE row'[e] = row[e]
  BY <1>2
<1>3. ASSUME NEW c \in Clients, Ask(c) \/ FindRow(c) \/ UseKey(c) \/ MakeKey(c)
      PROVE  UNCHANGED row
  BY <1>3 DEF Ask, FetchKey, PostSign, Retry, FindRow, UseKey, MakeKey
<1>4. ASSUME NEW n \in Replicas, Restart(n) PROVE UNCHANGED row
  BY <1>4 DEF Restart
<1>5. CASE UNCHANGED vars
  BY <1>5 DEF vars
<1> QED
  BY <1>1, <1>2, <1>3, <1>4, <1>5 DEF Next, Ensure

\* The part of KeysInv of one client.
ClientInv(c) ==
    /\ pc[c] = "use" => found[c] = row[Entity(c)] /\ row[Entity(c)] # NoKey
    /\ pc[c] = "post" => c \notin Direct
    /\ pc[c] \in {"post", "find", "use", "make", "create", "signed"} /\ c \notin Direct
          => blinded[c] = row[Entity(c)] /\ row[Entity(c)] # NoKey
    /\ pc[c] = "create" => made[c] \in Keys
    /\ pc[c] = "signed" => /\ signature[c].modulus = row[Entity(c)]
                          /\ row[Entity(c)] # NoKey

LEMMA StillClient ==
    ASSUME TypeOK, [Next]_vars, NEW d \in Clients, ClientInv(d),
           pc'[d] = pc[d] \/ pc'[d] = "refused",
           blinded'[d] = blinded[d], found'[d] = found[d],
           made'[d] = made[d], signature'[d] = signature[d]
    PROVE  ClientInv(d)'
<1>1. Entity(d) \in Entities
  BY ClientsAssumption DEF Entity
<1>2. row[Entity(d)] # NoKey => row'[Entity(d)] = row[Entity(d)]
  BY <1>1, RowStays
<1> QED
  BY <1>2 DEF ClientInv, Entity

LEMMA ClientStep ==
    ASSUME TypeOK, [Next]_vars, NEW c \in Clients, ClientInv(c), Ask(c) \/ Ensure(c)
    PROVE  ClientInv(c)'
<1>1. Entity(c) \in Entities
  BY ClientsAssumption DEF Entity
<1>2. row[Entity(c)] # NoKey => row'[Entity(c)] = row[Entity(c)]
  BY <1>1, RowStays
<1> USE DEF TypeOK, keyRequestVars, Goto, Entity
<1>3. CASE Ask(c)
  BY <1>2, <1>3 DEF ClientInv, Ask, FetchKey, PostSign, Retry
<1>4. CASE FindRow(c)
  BY <1>2, <1>4 DEF ClientInv, FindRow
<1>5. CASE UseKey(c)
  <2>1. /\ \/ pc'[c] = "signed" /\ signature'[c].modulus = found[c]
           \/ pc'[c] = "refused"
        /\ UNCHANGED blinded /\ pc[c] = "use"
    BY <1>5 DEF UseKey, AnswerKey, Modulus
  <2> QED
    BY <1>2, <2>1 DEF ClientInv
<1>6. CASE MakeKey(c)
  BY <1>2, <1>6 DEF ClientInv, MakeKey
<1>7. CASE CreateRow(c)
  <2>1. /\ \/ /\ pc'[c] = "signed" /\ signature'[c].modulus = made[c]
              /\ row'[Entity(c)] = made[c]
           \/ pc'[c] = "refused"
        /\ UNCHANGED blinded /\ pc[c] = "create"
    BY <1>1, <1>7 DEF CreateRow, AnswerKey
  <2>2. made[c] # NoKey
    BY <2>1, NullAssumption DEF ClientInv
  <2> QED
    BY <1>2, <2>1, <2>2 DEF ClientInv
<1> QED
  BY <1>3, <1>4, <1>5, <1>6, <1>7 DEF Ensure

LEMMA OneClientMoves ==
    ASSUME TypeOK, NEW c \in Clients, Ask(c) \/ Ensure(c), NEW d \in Clients, d # c
    PROVE  /\ pc'[d] = pc[d] /\ blinded'[d] = blinded[d] /\ found'[d] = found[d]
           /\ made'[d] = made[d] /\ signature'[d] = signature[d]
<1> USE DEF TypeOK, keyRequestVars, Goto
<1>1. CASE Ask(c)
  BY <1>1 DEF Ask, FetchKey, PostSign, Retry
<1>2. CASE FindRow(c) \/ MakeKey(c)
  BY <1>2 DEF FindRow, MakeKey
<1>3. CASE UseKey(c) \/ CreateRow(c)
  BY <1>3 DEF UseKey, CreateRow, AnswerKey
<1> QED
  BY <1>1, <1>2, <1>3 DEF Ensure

\* Every request that blinded its secret with a row, read it or was answered
\* with its modulus has the row of its entity, which is never replaced.
THEOREM KeysInvariant == Spec => []KeysInv
<1>1. Init => KeysInv
  BY DEF Init, KeysInv
<1>2. TypeOK /\ KeysInv /\ [Next]_vars => KeysInv'
  <2> SUFFICES ASSUME TypeOK, KeysInv, [Next]_vars, NEW d \in Clients PROVE ClientInv(d)'
    BY DEF KeysInv, ClientInv
  <2>1. ClientInv(d)
    BY DEF KeysInv, ClientInv
  <2>2. ASSUME NEW c \in Clients, Ask(c) \/ Ensure(c), c # d PROVE ClientInv(d)'
    BY <2>1, <2>2, OneClientMoves, StillClient
  <2>3. ASSUME Ask(d) \/ Ensure(d) PROVE ClientInv(d)'
    BY <2>1, <2>3, ClientStep
  <2>4. ASSUME NEW n \in Replicas, Restart(n) PROVE ClientInv(d)'
    <3>1. pc'[d] = pc[d] \/ pc'[d] = "refused"
      BY <2>4 DEF Restart
    <3> QED
      BY <2>1, <2>4, <3>1, StillClient DEF Restart, keyRequestVars
  <2>5. CASE UNCHANGED vars
    BY <2>1, <2>5, StillClient DEF vars
  <2> QED
    BY <2>2, <2>3, <2>4, <2>5 DEF Next
<1> QED
  BY <1>1, <1>2, KeysTypeCorrect, PTL DEF Spec

\* The modulus that goes with a signature is the row's, on every replica and
\* after every race for the row.
THEOREM ModulusAgrees == Spec => []ModulusIsTheRow
<1>1. KeysInv => ModulusIsTheRow
  BY DEF KeysInv, ModulusIsTheRow
<1> QED
  BY <1>1, KeysInvariant, PTL

-----------------------------------------------------------------------------
(* Whose key signs.                                                        *)

\* Every key in use was generated for the entity that uses it, in its row, in
\* the environment of a process, in a request and in an answer.
KeysOwned ==
    /\ \A e \in Entities : row[e] # NoKey => row[e] \in Generated(e)
    /\ \A n \in Replicas, e \in Entities : env[n][e] # NoKey => env[n][e] \in Generated(e)
    /\ \A c \in Clients :
          /\ pc[c] = "create" => made[c] \in Generated(Entity(c))
          /\ pc[c] = "signed" => signature[c].signedBy \in Generated(Entity(c))
    /\ \A e \in Entities : IsFiniteSet(Generated(e))

\* Pairs are generated for entities, and stay theirs.
LEMMA GeneratedGrows ==
    ASSUME TypeOK, [Next]_vars, \A e \in Entities : IsFiniteSet(Generated(e))
    PROVE  \A e \in Entities : Generated(e) \subseteq Generated(e)' /\ IsFiniteSet(Generated(e)')
<1>1. ASSUME NEW c \in Clients, MakeKey(c)
      PROVE  \A e \in Entities : Generated(e) \subseteq Generated(e)' /\ IsFiniteSet(Generated(e)')
  <2>1. PICK k \in Keys : /\ generated[k] = NoEntity
                          /\ generated' = [generated EXCEPT ![k] = Entity(c)]
    BY <1>1 DEF MakeKey
  <2> SUFFICES ASSUME NEW e \in Entities
               PROVE  Generated(e) \subseteq Generated(e)' /\ IsFiniteSet(Generated(e)')
    OBVIOUS
  <2>2. Generated(e) \subseteq Generated(e)' /\ Generated(e)' \subseteq Generated(e) \cup {k}
    BY <2>1, NullAssumption DEF Generated, NoEntity, TypeOK
  <2>3. IsFiniteSet(Generated(e) \cup {k})
    BY FS_AddElement
  <2> QED
    BY <2>2, <2>3, FS_Subset
<1>2. ASSUME NEW c \in Clients, Ask(c) \/ FindRow(c) \/ UseKey(c) \/ CreateRow(c)
      PROVE  UNCHANGED generated
  BY <1>2 DEF Ask, FetchKey, PostSign, Retry, FindRow, UseKey, CreateRow, keyRequestVars
<1>3. ASSUME NEW n \in Replicas, Restart(n) PROVE UNCHANGED generated
  BY <1>3 DEF Restart
<1>4. CASE UNCHANGED generated
  BY <1>4 DEF Generated
<1> QED
  BY <1>1, <1>2, <1>3, <1>4 DEF Next, Ensure, vars

\* A request uses its own pair, the row's modulus and the process's key.
LEMMA OwnedStep ==
    ASSUME TypeOK, KeysInv, KeysOwned, [Next]_vars
    PROVE  KeysOwned'
<1>0. \A e \in Entities : Generated(e) \subseteq Generated(e)' /\ IsFiniteSet(Generated(e)')
  BY GeneratedGrows DEF KeysOwned
<1>1. ASSUME UNCHANGED <<row, env, made, signature>>,
             \A c \in Clients : pc'[c] \in {"create", "signed"} => pc'[c] = pc[c]
      PROVE  KeysOwned'
  BY <1>0, <1>1, ClientsAssumption DEF KeysOwned, Entity
<1> USE ClientsAssumption DEF TypeOK, keyRequestVars, Goto, Entity
<1>2. ASSUME NEW c \in Clients, Ask(c) \/ FindRow(c) PROVE KeysOwned'
  BY <1>1, <1>2 DEF Ask, FetchKey, PostSign, Retry, FindRow
<1>3. ASSUME NEW c \in Clients, UseKey(c) PROVE KeysOwned'
  <2>1. CASE Goto(c, "refused") /\ UNCHANGED signature
    BY <1>1, <1>3, <2>1 DEF UseKey
  <2>2. CASE AnswerKey(c, PrivateKey(c), Modulus(c)) /\ PrivateKey(c) # NoKey /\ Goto(c, "signed")
    <3>1. PrivateKey(c) \in Generated(Entity(c))
      BY <1>3, <2>2 DEF UseKey, PrivateKey, PrivateKeyEnvKey, KeysOwned
    <3>2. /\ signature'[c].signedBy = PrivateKey(c)
          /\ \A d \in Clients \ {c} : signature'[d] = signature[d] /\ pc'[d] = pc[d]
      BY <2>2 DEF AnswerKey
    <3> QED
      BY <1>0, <1>3, <2>2, <3>1, <3>2 DEF UseKey, KeysOwned
  <2> QED
    BY <1>3, <2>1, <2>2 DEF UseKey
<1>4. ASSUME NEW c \in Clients, MakeKey(c) PROVE KeysOwned'
  <2>1. PICK k \in Keys : /\ generated[k] = NoEntity
                          /\ generated' = [generated EXCEPT ![k] = Entity(c)]
                          /\ made' = [made EXCEPT ![c] = k]
                          /\ env' = [env EXCEPT ![at[c]][PrivateKeyEnvKey(Entity(c))] = k]
    BY <1>4 DEF MakeKey
  <2>2. k \in Generated(Entity(c))'
    BY <2>1 DEF Generated
  <2>3. \A n \in Replicas, e \in Entities :
           env'[n][e] = env[n][e] \/ (e = Entity(c) /\ env'[n][e] = k)
    BY <2>1 DEF PrivateKeyEnvKey, Environment
  <2>4. \A d \in Clients : d # c => pc'[d] = pc[d] /\ made'[d] = made[d]
    BY <1>4, <2>1 DEF MakeKey
  <2>5. made'[c] = k /\ pc'[c] = "create" /\ UNCHANGED <<row, signature>>
    BY <1>4, <2>1 DEF MakeKey
  <2> QED
    BY <1>0, <2>2, <2>3, <2>4, <2>5 DEF KeysOwned
<1>5. ASSUME NEW c \in Clients, CreateRow(c) PROVE KeysOwned'
  <2>1. CASE Goto(c, "refused") /\ UNCHANGED <<row, signature>>
    BY <1>1, <1>5, <2>1 DEF CreateRow
  <2>2. CASE /\ row' = [row EXCEPT ![Entity(c)] = made[c]]
             /\ AnswerKey(c, made[c], made[c]) /\ Goto(c, "signed")
    <3>1. made[c] \in Generated(Entity(c)) /\ Entity(c) \in Entities
      BY <1>5 DEF CreateRow, KeysOwned
    <3>2. /\ signature'[c].signedBy = made[c]
          /\ \A d \in Clients \ {c} : signature'[d] = signature[d] /\ pc'[d] = pc[d]
      BY <2>2 DEF AnswerKey
    <3>3. \A e \in Entities : row'[e] = row[e] \/ (e = Entity(c) /\ row'[e] = made[c])
      BY <2>2
    <3> QED
      BY <1>0, <1>5, <2>2, <3>1, <3>2, <3>3 DEF CreateRow, KeysOwned
  <2> QED
    BY <1>5, <2>1, <2>2 DEF CreateRow
<1>6. ASSUME NEW n \in Replicas, Restart(n) PROVE KeysOwned'
  <2>1. \A m \in Replicas, e \in Entities : env'[m][e] \in {env[m][e], NoKey}
    BY <1>6 DEF Restart, NoPrivateKeys
  <2>2. \A c \in Clients : pc'[c] \in {"create", "signed"} => pc'[c] = pc[c]
    BY <1>6 DEF Restart
  <2> QED
    BY <1>0, <1>6, <2>1, <2>2 DEF Restart, KeysOwned
<1>7. CASE UNCHANGED vars
  BY <1>1, <1>7 DEF vars
<1> QED
  BY <1>2, <1>3, <1>4, <1>5, <1>6, <1>7 DEF Next, Ensure

\* Every key in use belongs to the entity it is used for.
THEOREM KeysOwnedInvariant == Spec => []KeysOwned
<1>1. Init => KeysOwned
  <2> SUFFICES ASSUME Init PROVE KeysOwned
    OBVIOUS
  <2>1. \A e \in Entities : Generated(e) = {}
    BY NullAssumption DEF Init, Generated, NoEntity
  <2> QED
    BY <2>1, FS_EmptySet DEF Init, KeysOwned, NoPrivateKeys
<1> QED
  BY <1>1, OwnedStep, KeysTypeCorrect, KeysInvariant, PTL DEF Spec

\* No entity's key signs for another, and a signature its row does not verify
\* takes two pairs generated for the entity.
THEOREM RaceNeeded == Spec => []MismatchNeedsRace
<1>1. TypeOK /\ KeysInv /\ KeysOwned => MismatchNeedsRace
  <2> SUFFICES ASSUME TypeOK, KeysInv, KeysOwned, NEW c \in Clients, pc[c] = "signed",
                      signature[c].signedBy # row[Entity(c)]
               PROVE  Cardinality(Generated(Entity(c))) > 1
    BY DEF MismatchNeedsRace, KeysOwned
  <2> DEFINE e == Entity(c)  pair == {signature[c].signedBy, row[e]}
  <2>1. e \in Entities /\ row[e] # NoKey
    BY ClientsAssumption DEF Entity, KeysInv
  <2>2. pair \subseteq Generated(e) /\ IsFiniteSet(Generated(e))
    BY <2>1 DEF KeysOwned
  <2>3. Cardinality(pair) = 2
    <3>1. IsFiniteSet({row[e]}) /\ Cardinality({row[e]}) = 1
      BY FS_Singleton
    <3>2. pair = {row[e]} \cup {signature[c].signedBy}
      OBVIOUS
    <3> QED
      BY <3>1, <3>2, FS_AddElement
  <2>4. Cardinality(pair) <= Cardinality(Generated(e)) /\ Cardinality(Generated(e)) \in Nat
    BY <2>2, FS_Subset, FS_CardinalityType
  <2> QED
    BY <2>3, <2>4
<1> QED
  BY <1>1, KeysTypeCorrect, KeysInvariant, KeysOwnedInvariant, PTL
=============================================================================
