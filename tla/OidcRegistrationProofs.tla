------------------------ MODULE OidcRegistrationProofs ------------------------
(* What holds of OidcRegistration for every value of its constants.        *)
EXTENDS OidcRegistration, TLAPS

(* A secret is no model value of ours.                                     *)
Secrets == SecretObject \cup {Absent}
Busy    == {"discover", "getToken", "register", "update"}

-----------------------------------------------------------------------------
(* The types, and what makes them inductive: a caller that is past the     *)
(* read of the secret has one.                                             *)

HasRead == \A c \in Callers : pc[c] \in Busy => secret[c] \in SecretObject \ {Absent}

StoreType ==
    /\ DOMAIN api = Keys /\ \A k \in Keys : api[k] \in Secrets
    /\ DOMAIN cache = Keys /\ \A k \in Keys : cache[k] \in Secrets
    /\ DOMAIN stream = Keys /\ \A k \in Keys : stream[k] \in Seq(Secrets)
    /\ version \in [Keys -> Nat]

CallType ==
    /\ pc \in [Callers -> {"idle", "getSecret", "discover", "getToken", "register", "update"}]
    /\ DOMAIN secret = Callers /\ \A c \in Callers : secret[c] \in Secrets
    /\ auth \in [Callers -> Methods] /\ mine \in [Callers -> 0..MaxClients]
    /\ clients \in 0..MaxClients
    /\ \A c \in Callers : mine[c] <= clients /\ (pc[c] = "update" => mine[c] # 0)

CountType == calls \in 0..MaxCalls /\ edits \in 0..MaxEdits /\ faults \in 0..MaxFaults

TypeInv == StoreType /\ CallType /\ CountType /\ HasRead

LEMMA KeyIsSecret == Secret \in Keys /\ \A k \in Keys : k = Secret
BY BoundsAssumption

LEMMA Bounds == /\ MaxCalls \in Nat /\ MaxClients \in Nat
                /\ MaxEdits \in Nat /\ MaxFaults \in Nat
BY BoundsAssumption

LEMMA TypesFollow == TypeInv => TypeOK
BY DEF TypeInv, TypeOK, StoreType, CallType, CountType, Secrets

(* What a write does to the one object there is.                           *)
LEMMA PutEffect ==
    ASSUME StoreType, NEW obj \in SecretObject, Put(Secret, obj)
    PROVE  /\ api'[Secret] = [obj EXCEPT !.rv = version[Secret] + 1]
           /\ api'[Secret] \in SecretObject
           /\ api'[Secret].rv = version[Secret] + 1
           /\ api'[Secret].client = obj.client
           /\ version'[Secret] = version[Secret] + 1
           /\ stream'[Secret] = Append(stream[Secret], api'[Secret])
<1>1. api'[Secret] = [obj EXCEPT !.rv = version[Secret] + 1]
      /\ version'[Secret] = version[Secret] + 1
      /\ stream'[Secret] = Append(stream[Secret], api'[Secret])
  BY KeyIsSecret DEF Put, StoreType
<1>2. version[Secret] + 1 \in Nat BY KeyIsSecret DEF StoreType
<1>3. QED BY <1>1, <1>2 DEF SecretObject

LEMMA PutType ==
    ASSUME StoreType, NEW obj \in SecretObject, Put(Secret, obj), UNCHANGED cache
    PROVE  StoreType'
<1>1. api'[Secret] \in Secrets BY PutEffect DEF Secrets
<1>4. stream'[Secret] \in Seq(Secrets)
  <2>1. stream[Secret] \in Seq(Secrets) BY KeyIsSecret DEF StoreType
  <2>2. Append(stream[Secret], api'[Secret]) \in Seq(Secrets) BY <1>1, <2>1
  <2>3. QED BY <2>2, PutEffect
<1>2. DOMAIN api' = Keys /\ DOMAIN stream' = Keys /\ version' \in [Keys -> Nat]
  BY KeyIsSecret DEF Put, StoreType
<1>3. QED BY <1>1, <1>2, <1>4, KeyIsSecret DEF StoreType

LEMMA RemoveType ==
    ASSUME StoreType, Remove(Secret), UNCHANGED cache
    PROVE  StoreType'
<1>1. Append(stream[Secret], Absent) \in Seq(Secrets)
  <2>1. stream[Secret] \in Seq(Secrets) BY KeyIsSecret DEF StoreType
  <2>2. Absent \in Secrets BY DEF Secrets
  <2>3. QED BY <2>1, <2>2
<1>2. QED BY <1>1, KeyIsSecret DEF StoreType, Remove, Secrets

LEMMA AdvanceType ==
    ASSUME StoreType, Advance(Secret)
    PROVE  StoreType'
<1>1. Head(stream[Secret]) \in Secrets /\ Tail(stream[Secret]) \in Seq(Secrets)
  BY KeyIsSecret DEF StoreType, Advance
<1>2. QED BY <1>1, KeyIsSecret DEF StoreType, Advance

LEMMA StoreStutter ==
    ASSUME StoreType, UNCHANGED <<api, version, stream>>, UNCHANGED cache
    PROVE  StoreType'
BY DEF StoreType

LEMMA FaultType ==
    ASSUME faults \in 0..MaxFaults, Fault \/ UNCHANGED faults
    PROVE  faults' \in 0..MaxFaults
BY Bounds DEF Fault

LEMMA EditType ==
    ASSUME TypeInv, Edit, StoreType'
    PROVE  TypeInv'
BY Bounds DEF TypeInv, CallType, CountType, HasRead, Edit, callVars

LEMMA InitType == Init => TypeInv
<1> SUFFICES ASSUME Init PROVE TypeInv OBVIOUS
<1>1. StoreType
  <2>1. Absent \in Secrets /\ <<>> \in Seq(Secrets) BY DEF Secrets
  <2>2. QED BY <2>1 DEF Init, StoreType
<1>2. CallType BY Bounds DEF Init, CallType, Secrets, Methods
<1>3. CountType BY Bounds DEF Init, CountType
<1>4. HasRead BY DEF Init, HasRead, Busy
<1>5. QED BY <1>1, <1>2, <1>3, <1>4 DEF TypeInv

LEMMA TypeStep ==
    ASSUME TypeInv, [Next]_vars
    PROVE  TypeInv'
<1>1. StoreType /\ CallType /\ CountType /\ HasRead BY DEF TypeInv
<1> SUFFICES StoreType' /\ CallType' /\ CountType' /\ HasRead'
  BY DEF TypeInv
<1>2. ASSUME NEW c \in Callers, Call(c)
      PROVE  StoreType' /\ CallType' /\ CountType' /\ HasRead'
  <2>1. StoreType' BY <1>1, <1>2, StoreStutter DEF Call, kubeVars
  <2>2. QED
    BY <1>1, <1>2, <2>1, Bounds DEF Call, Goto, CallType, CountType, HasRead, Busy
<1>3. ASSUME NEW data \in Contents, CreateSecret(data)
      PROVE  StoreType' /\ CallType' /\ CountType' /\ HasRead'
  <2>1. [rv |-> 0, data |-> data, client |-> 0] \in SecretObject
    BY ContentsAssumption, Bounds DEF SecretObject
  <2>2. StoreType' BY <1>1, <1>3, <2>1, PutType DEF CreateSecret, Edit
  <2>3. QED BY <1>3, <2>2, EditType DEF TypeInv, CreateSecret
<1>4. CASE ClearSecret
  <2>1. [api[Secret] EXCEPT !.client = 0] \in SecretObject
    BY <1>1, <1>4, KeyIsSecret, Bounds DEF ClearSecret, StoreType, Secrets, SecretObject
  <2>2. StoreType' BY <1>1, <1>4, <2>1, PutType DEF ClearSecret, Edit
  <2>3. QED BY <1>4, <2>2, EditType DEF TypeInv, ClearSecret
<1>5. CASE DeleteSecret
  <2>1. StoreType' BY <1>1, <1>5, RemoveType DEF DeleteSecret, Edit
  <2>2. QED BY <1>5, <2>1, EditType DEF TypeInv, DeleteSecret
<1>6. CASE Deliver
  <2>1. StoreType' BY <1>1, <1>6, AdvanceType DEF Deliver
  <2>2. QED BY <1>1, <1>6, <2>1 DEF Deliver, CallType, CountType, HasRead, callVars
<1>7. ASSUME NEW c \in Callers, GetSecret(c)
      PROVE  StoreType' /\ CallType' /\ CountType' /\ HasRead'
  <2>1. StoreType' BY <1>1, <1>7, StoreStutter DEF GetSecret, kubeVars
  <2>2. cache[Secret] \in Secrets BY <1>1, KeyIsSecret DEF StoreType
  <2>3. CASE Leave(c) /\ UNCHANGED secret
    BY <1>1, <1>7, <2>1, <2>3
    DEF GetSecret, Leave, Goto, CallType, CountType, HasRead, Busy
  <2>4. CASE /\ cache[Secret] # Absent /\ Goto(c, "discover")
             /\ secret' = [secret EXCEPT ![c] = cache[Secret]]
    BY <1>1, <1>7, <2>1, <2>2, <2>4
    DEF GetSecret, Goto, CallType, CountType, HasRead, Busy, Secrets
  <2>5. QED BY <1>7, <2>3, <2>4 DEF GetSecret
<1>8. ASSUME NEW c \in Callers, Discover(c)
      PROVE  StoreType' /\ CallType' /\ CountType' /\ HasRead'
  <2>1. StoreType' BY <1>1, <1>8, StoreStutter DEF Discover, kubeVars
  <2>2. auth' \in [Callers -> Methods] BY <1>1, <1>8 DEF Discover, Given, CallType, Methods
  <2>3. \E l \in {"idle", "getToken", "register"} : pc' = [pc EXCEPT ![c] = l]
    BY <1>8 DEF Discover, Leave, Goto
  <2>4. CountType' BY <1>1, <1>8, FaultType DEF Discover, CountType
  <2>5. pc[c] = "discover" /\ UNCHANGED <<secret, mine, clients>> BY <1>8 DEF Discover
  <2>6. QED BY <1>1, <2>1, <2>2, <2>3, <2>4, <2>5 DEF CallType, HasRead, Busy
<1>9. ASSUME NEW c \in Callers, GetToken(c)
      PROVE  StoreType' /\ CallType' /\ CountType' /\ HasRead'
  <2>1. StoreType' BY <1>1, <1>9, StoreStutter DEF GetToken, kubeVars
  <2>2. auth' \in [Callers -> Methods] BY <1>1, <1>9 DEF GetToken, CallType, Methods
  <2>3. CountType' BY <1>1, <1>9, FaultType DEF GetToken, CountType
  <2>4. QED
    BY <1>1, <1>9, <2>1, <2>2, <2>3 DEF GetToken, Goto, CallType, HasRead, Busy
<1>10. ASSUME NEW c \in Callers, Register(c)
      PROVE  StoreType' /\ CallType' /\ CountType' /\ HasRead'
  <2>1. StoreType' BY <1>1, <1>10, StoreStutter DEF Register, kubeVars
  <2>2. CountType' BY <1>1, <1>10, FaultType DEF Register, CountType
  <2>3. pc[c] = "register" /\ UNCHANGED <<secret, auth>> BY <1>10 DEF Register
  <2>4. CASE /\ clients < MaxClients /\ clients' = clients + 1
             /\ mine' = [mine EXCEPT ![c] = clients'] /\ Goto(c, "update")
    BY <1>1, <2>1, <2>2, <2>3, <2>4, Bounds DEF Goto, CallType, HasRead, Busy
  <2>5. CASE /\ Leave(c) /\ UNCHANGED mine
             /\ clients' \in {clients, clients + 1} /\ clients' <= MaxClients
    BY <1>1, <2>1, <2>2, <2>3, <2>5, Bounds DEF Leave, Goto, CallType, HasRead, Busy
  <2>6. QED BY <1>10, <2>4, <2>5 DEF Register
<1>11. ASSUME NEW c \in Callers, UpdateSecret(c)
      PROVE  StoreType' /\ CallType' /\ CountType' /\ HasRead'
  <2>1. pc[c] = "update" /\ secret[c] \in SecretObject
    BY <1>1, <1>11 DEF UpdateSecret, HasRead, Busy
  <2>2. [secret[c] EXCEPT !.client = mine[c]] \in SecretObject
    BY <1>1, <2>1 DEF CallType, SecretObject
  <2>3. StoreType'
    BY <1>1, <1>11, <2>2, PutType, StoreStutter DEF UpdateSecret
  <2>4. CountType' BY <1>1, <1>11, FaultType DEF UpdateSecret, CountType
  <2>5. QED
    BY <1>1, <1>11, <2>3, <2>4 DEF UpdateSecret, Leave, Goto, CallType, HasRead, Busy
<1>12. ASSUME NEW c \in Callers, PanicNilMap(c)
      PROVE  StoreType' /\ CallType' /\ CountType' /\ HasRead'
  <2>1. StoreType' BY <1>1, <1>12, StoreStutter DEF PanicNilMap, kubeVars
  <2>2. QED
    BY <1>1, <1>12, <2>1 DEF PanicNilMap, Goto, CallType, CountType, HasRead, Busy
<1>13. CASE UNCHANGED vars
  BY <1>1, <1>13 DEF vars, kubeVars, callVars, StoreType, CallType, CountType, HasRead
<1>14. QED
  BY <1>2, <1>3, <1>4, <1>5, <1>6, <1>7, <1>8, <1>9, <1>10, <1>11, <1>12, <1>13
  DEF Next, Users, Handle

(* Every variable keeps its type, and no caller stores a client that the   *)
(* provider did not register, for any number of callers and any secrets.   *)
THEOREM TypeCorrect == Spec => []TypeOK
<1>1. Spec => []TypeInv BY InitType, TypeStep, PTL DEF Spec
<1>2. QED BY <1>1, TypesFollow, PTL

-----------------------------------------------------------------------------
(* Credentials stay: a caller writes what it read, with the client added,  *)
(* and it read a secret without one.  Its write is accepted only when what *)
(* it read is what the API server still holds.                             *)

(* o is no younger than the secret of the API server, and the same when it *)
(* is as young.                                                            *)
CopyOf(o) ==
    o # Absent => /\ o.rv <= version[Secret]
                  /\ api[Secret] # Absent /\ o.rv = version[Secret] => o = api[Secret]

HeldInv   == api[Secret] # Absent => api[Secret].rv = version[Secret]
SeenInv   == /\ CopyOf(cache[Secret])
             /\ \A i \in 1..Len(stream[Secret]) : CopyOf(stream[Secret][i])
ReadInv   == \A c \in Callers :
                CopyOf(secret[c]) /\ (secret[c] # Absent => secret[c].client = 0)
ClientInv == TypeInv /\ HeldInv /\ SeenInv /\ ReadInv

LEMMA StoreFacts ==
    ASSUME StoreType
    PROVE  /\ version[Secret] \in Nat /\ stream[Secret] \in Seq(Secrets)
           /\ api[Secret] \in Secrets /\ cache[Secret] \in Secrets
BY KeyIsSecret DEF StoreType

(* A copy stays a copy, as nobody can have read what is written now.       *)
LEMMA PutCopyOf ==
    ASSUME StoreType, NEW obj \in SecretObject, Put(Secret, obj),
           NEW o \in Secrets, CopyOf(o)
    PROVE  o # Absent => /\ o.rv <= version'[Secret]
                         /\ api'[Secret] # Absent /\ o.rv = version'[Secret]
                                => o = api'[Secret]
<1>1. version'[Secret] = version[Secret] + 1 BY PutEffect
<1>2. version[Secret] \in Nat BY StoreFacts
<1>3. o # Absent => o.rv \in Nat BY DEF Secrets, SecretObject
<1>4. QED BY <1>1, <1>2, <1>3 DEF CopyOf

LEMMA PutClient ==
    ASSUME ClientInv, NEW obj \in SecretObject, Put(Secret, obj), UNCHANGED <<cache, secret>>
    PROVE  HeldInv' /\ SeenInv' /\ ReadInv'
<1>0. StoreType /\ CallType BY DEF ClientInv, TypeInv
<1>1. HeldInv' BY <1>0, PutEffect DEF HeldInv
<1>2. ReadInv'
  <2>1. ASSUME NEW c \in Callers
        PROVE  CopyOf(secret[c])' /\ (secret'[c] # Absent => secret'[c].client = 0)
    <3>1. secret[c] \in Secrets /\ CopyOf(secret[c]) /\ secret'[c] = secret[c]
      BY <1>0 DEF ClientInv, ReadInv, CallType
    <3>2. CopyOf(secret[c])' BY <1>0, <3>1, PutCopyOf DEF CopyOf
    <3>3. QED BY <3>1, <3>2 DEF ClientInv, ReadInv
  <2>2. QED BY <2>1 DEF ReadInv
<1>3. CopyOf(cache[Secret])'
  <2>1. cache[Secret] \in Secrets /\ CopyOf(cache[Secret]) /\ cache'[Secret] = cache[Secret]
    BY <1>0, StoreFacts DEF ClientInv, SeenInv
  <2>2. QED BY <1>0, <2>1, PutCopyOf DEF CopyOf
<1>4. ASSUME NEW i \in 1..Len(stream'[Secret]) PROVE CopyOf(stream[Secret][i])'
  <2>1. /\ stream[Secret] \in Seq(Secrets) /\ api'[Secret] \in Secrets
        /\ stream'[Secret] = Append(stream[Secret], api'[Secret])
    BY <1>0, StoreFacts, PutEffect DEF Secrets
  <2>2. CASE i = Len(stream[Secret]) + 1
    <3>1. stream'[Secret][i] = api'[Secret] BY <2>1, <2>2
    <3>0. version[Secret] \in Nat BY <1>0, StoreFacts
    <3>4. /\ api'[Secret].rv = version[Secret] + 1
          /\ version'[Secret] = version[Secret] + 1
      BY <1>0, PutEffect
    <3>2. api'[Secret].rv = version'[Secret] /\ version'[Secret] \in Nat
      BY <3>0, <3>4
    <3>3. QED BY <3>1, <3>2 DEF CopyOf
  <2>3. CASE i \in 1..Len(stream[Secret])
    <3>1. stream'[Secret][i] = stream[Secret][i] /\ stream[Secret][i] \in Secrets
      BY <2>1, <2>3
    <3>2. CopyOf(stream[Secret][i]) BY <2>3 DEF ClientInv, SeenInv
    <3>3. QED BY <1>0, <3>1, <3>2, PutCopyOf DEF CopyOf
  <2>4. QED BY <2>1, <2>2, <2>3
<1>5. QED BY <1>1, <1>2, <1>3, <1>4 DEF SeenInv

LEMMA RemoveClient ==
    ASSUME ClientInv, Remove(Secret), UNCHANGED <<cache, secret>>
    PROVE  HeldInv' /\ SeenInv' /\ ReadInv'
<1>0. StoreType /\ CallType BY DEF ClientInv, TypeInv
<1>1. /\ api'[Secret] = Absent /\ version' = version
      /\ stream'[Secret] = Append(stream[Secret], Absent)
      /\ stream[Secret] \in Seq(Secrets)
  BY <1>0, KeyIsSecret, StoreFacts DEF StoreType, Remove
<1>2. HeldInv' /\ ReadInv' /\ CopyOf(cache[Secret])'
  BY <1>1 DEF ClientInv, HeldInv, ReadInv, SeenInv, CopyOf
<1>3. ASSUME NEW i \in 1..Len(stream'[Secret]) PROVE CopyOf(stream[Secret][i])'
  <2>1. CASE i = Len(stream[Secret]) + 1
    <3>1. stream'[Secret][i] = Absent BY <1>1, <2>1
    <3>2. QED BY <3>1 DEF CopyOf
  <2>2. CASE i \in 1..Len(stream[Secret])
    <3>1. stream'[Secret][i] = stream[Secret][i] BY <1>1, <2>2
    <3>2. CopyOf(stream[Secret][i]) BY <2>2 DEF ClientInv, SeenInv
    <3>3. QED BY <1>1, <3>1, <3>2 DEF CopyOf
  <2>3. Len(stream'[Secret]) = Len(stream[Secret]) + 1 /\ Len(stream[Secret]) \in Nat
    <3>1. Absent \in Secrets BY DEF Secrets
    <3>2. QED BY <1>1, <3>1
  <2>4. QED BY <2>1, <2>2, <2>3
<1>4. QED BY <1>2, <1>3 DEF SeenInv

LEMMA DeliverClient ==
    ASSUME ClientInv, Deliver
    PROVE  HeldInv' /\ SeenInv' /\ ReadInv'
<1>0. StoreType BY DEF ClientInv, TypeInv
<1>1. /\ cache'[Secret] = Head(stream[Secret])
      /\ stream'[Secret] = Tail(stream[Secret])
      /\ stream[Secret] # <<>> /\ stream[Secret] \in Seq(Secrets)
      /\ UNCHANGED <<api, version, secret>>
  BY <1>0, KeyIsSecret, StoreFacts DEF StoreType, Deliver, Advance, callVars
<1>2. HeldInv' /\ ReadInv' BY <1>1 DEF ClientInv, HeldInv, ReadInv, CopyOf
<1>3. CopyOf(cache[Secret])'
  <2>1. Head(stream[Secret]) = stream[Secret][1] /\ 1 \in 1..Len(stream[Secret])
    BY <1>1
  <2>2. CopyOf(stream[Secret][1]) BY <2>1 DEF ClientInv, SeenInv
  <2>3. QED BY <1>1, <2>1, <2>2 DEF CopyOf
<1>4. ASSUME NEW i \in 1..Len(stream'[Secret]) PROVE CopyOf(stream[Secret][i])'
  <2>1. i + 1 \in 1..Len(stream[Secret]) /\ stream'[Secret][i] = stream[Secret][i + 1]
    BY <1>1
  <2>2. CopyOf(stream[Secret][i + 1]) BY <2>1 DEF ClientInv, SeenInv
  <2>3. QED BY <1>1, <2>1, <2>2 DEF CopyOf
<1>5. QED BY <1>2, <1>3, <1>4 DEF SeenInv

(* The only step that makes a caller remember a secret.                    *)
LEMMA GetClient ==
    ASSUME ClientInv, NEW c \in Callers, GetSecret(c)
    PROVE  HeldInv' /\ SeenInv' /\ ReadInv'
<1>1. UNCHANGED <<api, version, cache, stream>> BY DEF GetSecret, kubeVars
<1>2. HeldInv' /\ SeenInv' BY <1>1 DEF ClientInv, HeldInv, SeenInv, CopyOf
<1>3. CASE UNCHANGED secret BY <1>1, <1>2, <1>3 DEF ClientInv, ReadInv, CopyOf
<1>4. CASE /\ ~Registered(cache[Secret])
           /\ secret' = [secret EXCEPT ![c] = cache[Secret]]
  BY <1>1, <1>2, <1>4
  DEF ClientInv, TypeInv, CallType, ReadInv, SeenInv, CopyOf, Registered
<1>5. QED BY <1>2, <1>3, <1>4 DEF GetSecret

LEMMA QuietClient ==
    ASSUME ClientInv, UNCHANGED <<api, version, cache, stream, secret>>
    PROVE  HeldInv' /\ SeenInv' /\ ReadInv'
BY DEF ClientInv, HeldInv, SeenInv, ReadInv, CopyOf

LEMMA InitClient == Init => ClientInv
<1> SUFFICES ASSUME Init PROVE ClientInv OBVIOUS
<1>1. /\ api[Secret] = Absent /\ cache[Secret] = Absent /\ stream[Secret] = <<>>
      /\ \A c \in Callers : secret[c] = Absent
  BY KeyIsSecret DEF Init
<1>2. QED BY <1>1, InitType DEF ClientInv, HeldInv, SeenInv, ReadInv, CopyOf

(* What a caller that is about to write writes.                            *)
LEMMA WriteObject ==
    ASSUME ClientInv, NEW c \in Callers, UpdateSecret(c)
    PROVE  [secret[c] EXCEPT !.client = mine[c]] \in SecretObject
<1>1. secret[c] \in SecretObject BY DEF ClientInv, TypeInv, UpdateSecret, HasRead, Busy
<1>2. mine[c] \in 0..MaxClients BY DEF ClientInv, TypeInv, CallType
<1>3. QED BY <1>1, <1>2 DEF SecretObject

LEMMA ClientStep ==
    ASSUME ClientInv, [Next]_vars
    PROVE  ClientInv'
<1>1. TypeInv' BY TypeStep DEF ClientInv
<1>0. StoreType BY DEF ClientInv, TypeInv
<1> SUFFICES HeldInv' /\ SeenInv' /\ ReadInv' BY <1>1 DEF ClientInv
<1>2. ASSUME NEW data \in Contents, CreateSecret(data)
      PROVE  HeldInv' /\ SeenInv' /\ ReadInv'
  <2>1. [rv |-> 0, data |-> data, client |-> 0] \in SecretObject
    BY ContentsAssumption, Bounds DEF SecretObject
  <2>2. QED BY <1>2, <2>1, PutClient DEF CreateSecret, Edit, callVars
<1>3. CASE ClearSecret
  <2>1. [api[Secret] EXCEPT !.client = 0] \in SecretObject
    BY <1>0, <1>3, StoreFacts, Bounds DEF ClearSecret, Secrets, SecretObject
  <2>2. QED BY <1>3, <2>1, PutClient DEF ClearSecret, Edit, callVars
<1>4. CASE DeleteSecret BY <1>4, RemoveClient DEF DeleteSecret, Edit, callVars
<1>5. CASE Deliver BY <1>5, DeliverClient
<1>6. ASSUME NEW c \in Callers, GetSecret(c)
      PROVE  HeldInv' /\ SeenInv' /\ ReadInv'
  BY <1>6, GetClient
<1>7. ASSUME NEW c \in Callers, UpdateSecret(c)
      PROVE  HeldInv' /\ SeenInv' /\ ReadInv'
  <2>1. CASE Put(Secret, [secret[c] EXCEPT !.client = mine[c]])
    BY <1>7, <2>1, WriteObject, PutClient DEF UpdateSecret
  <2>2. CASE UNCHANGED <<api, version, stream>>
    BY <1>7, <2>2, QuietClient DEF UpdateSecret
  <2>3. QED BY <1>7, <2>1, <2>2 DEF UpdateSecret
<1>8. ASSUME NEW c \in Callers,
             Call(c) \/ Discover(c) \/ GetToken(c) \/ Register(c) \/ PanicNilMap(c)
      PROVE  HeldInv' /\ SeenInv' /\ ReadInv'
  BY <1>8, QuietClient DEF Call, Discover, GetToken, Register, PanicNilMap, kubeVars
<1>9. CASE UNCHANGED vars BY <1>9, QuietClient DEF vars, kubeVars, callVars
<1>10. QED
  BY <1>2, <1>3, <1>4, <1>5, <1>6, <1>7, <1>8, <1>9 DEF Next, Users, Handle

(* The write that could replace a client finds none.                       *)
LEMMA NoReplacement ==
    ASSUME ClientInv, NEW c \in Callers, UpdateSecret(c),
           NEW n \in 1..MaxClients, Stored(n)
    PROVE  Stored(n)'
<1>1. CASE UNCHANGED api BY <1>1 DEF Stored
<1>2. CASE Accept(c)
  <2>1. secret[c] # Absent /\ secret[c].client = 0
    <3>1. secret[c] \in SecretObject \ {Absent}
      BY DEF ClientInv, TypeInv, UpdateSecret, HasRead, Busy
    <3>2. QED BY <3>1 DEF ClientInv, ReadInv
  <2>2. api[Secret] # Absent /\ api[Secret].rv = secret[c].rv
    BY <1>2 DEF Accept, Fresh
  <2>3. api[Secret].rv = version[Secret] BY <2>2 DEF ClientInv, HeldInv
  <2>4. secret[c] = api[Secret] BY <2>1, <2>2, <2>3 DEF ClientInv, ReadInv, CopyOf
  <2>5. api[Secret].client = n /\ n # 0 BY DEF Stored
  <2>6. QED BY <2>1, <2>4, <2>5
<1>3. QED BY <1>1, <1>2 DEF UpdateSecret

(* Credentials that are in the secret stay there until the administrator   *)
(* clears or deletes it, whatever number of callers register.              *)
THEOREM ClientStays == Spec => StoredClientStays
<1>1. Spec => []ClientInv BY InitClient, ClientStep, PTL DEF Spec
<1>2. ASSUME ClientInv, [Next]_vars
      PROVE  [\A n \in 1..MaxClients :
                 Stored(n) /\ ~(ClearSecret \/ DeleteSecret) => Stored(n)']_vars
  <2> SUFFICES ASSUME NEW n \in 1..MaxClients, Stored(n), Next,
                      ~ClearSecret, ~DeleteSecret
               PROVE  Stored(n)'
    BY <1>2
  <2>1. CASE UNCHANGED api BY <2>1 DEF Stored
  <2>2. ASSUME NEW data \in Contents, CreateSecret(data) PROVE Stored(n)'
    BY <2>2 DEF CreateSecret, Stored
  <2>3. CASE Deliver BY <2>1, <2>3 DEF Deliver, Advance
  <2>4. ASSUME NEW c \in Callers, UpdateSecret(c) PROVE Stored(n)'
    BY <1>2, <2>4, NoReplacement
  <2>5. ASSUME NEW c \in Callers,
               \/ Call(c) \/ GetSecret(c) \/ Discover(c) \/ GetToken(c)
               \/ Register(c) \/ PanicNilMap(c)
        PROVE  Stored(n)'
    BY <2>1, <2>5
    DEF Call, GetSecret, Discover, GetToken, Register, PanicNilMap, kubeVars
  <2>6. QED BY <2>2, <2>3, <2>4, <2>5 DEF Next, Users, Handle
<1>3. QED BY <1>1, <1>2, PTL DEF StoredClientStays, Spec

-----------------------------------------------------------------------------
(* The promise of CredentialService.  A caller stores the client that it   *)
(* has registered itself, which nobody else has, nor has stored before.    *)

Storing(c) == c \in Callers /\ pc[c] = "update"
ApartInv   == \A c, d \in Callers : Storing(c) /\ Storing(d) /\ c # d => mine[c] # mine[d]
StoredInv  == \A n \in 1..MaxClients : Stored(n) => n <= clients /\ n \notin Unused
PromiseInv == ClientInv /\ ApartInv /\ StoredInv

LEMMA UnusedIs ==
    ASSUME NEW n
    PROVE  n \in Unused <=> \/ n \in 1..MaxClients /\ n > clients
                            \/ \E c \in Callers : Storing(c) /\ mine[c] = n
BY DEF Unused, Storing

LEMMA StoringClient ==
    ASSUME TypeInv, NEW c \in Callers, Storing(c)
    PROVE  mine[c] \in 1..MaxClients /\ mine[c] <= clients /\ clients \in 0..MaxClients
BY Bounds DEF TypeInv, CallType, Storing

(* What a step does to the unused clients, and to the callers with one.    *)
(* Nobody gets a client that somebody had before; Register(c) moves one    *)
(* from the provider to c.                                                 *)
Apart(c)   == \A d \in Callers \ {c} : pc'[d] = pc[d] /\ mine'[d] = mine[d]
GivesUp(c) == Apart(c) /\ pc'[c] # "update" /\ UNCHANGED clients

LEMMA KeepsUnused ==
    ASSUME TypeInv, ApartInv, NEW c \in Callers, GivesUp(c), ~Storing(c)
    PROVE  Unused' = Unused /\ ApartInv'
<1>1. \A d \in Callers : Storing(d)' <=> Storing(d)
  BY DEF GivesUp, Apart, Storing
<1>2. \A d \in Callers : Storing(d) => mine'[d] = mine[d]
  BY DEF GivesUp, Apart
<1>3. ASSUME NEW n PROVE n \in Unused' <=> n \in Unused
  BY <1>1, <1>2 DEF Unused, Storing, GivesUp
<1>4. Unused' = Unused BY <1>3
<1>5. QED BY <1>1, <1>2, <1>4 DEF ApartInv

LEMMA LosesOne ==
    ASSUME TypeInv, ApartInv, NEW c \in Callers, GivesUp(c), Storing(c)
    PROVE  mine[c] \in Unused /\ Unused' = Unused \ {mine[c]} /\ ApartInv'
<1>1. \A d \in Callers : Storing(d)' <=> Storing(d) /\ d # c
  BY DEF GivesUp, Apart, Storing
<1>2. \A d \in Callers : Storing(d)' => mine'[d] = mine[d]
  BY DEF GivesUp, Apart, Storing
<1>3. mine[c] \in 1..MaxClients /\ mine[c] <= clients /\ clients \in 0..MaxClients
  BY StoringClient
<1>4. mine[c] \in Unused BY DEF Unused, Storing
<1>5. ASSUME NEW n PROVE n \in Unused' <=> n \in Unused /\ n # mine[c]
  <2>1. n \in Unused' <=> \/ n \in 1..MaxClients /\ n > clients
                          \/ \E d \in Callers : Storing(d) /\ d # c /\ mine[d] = n
    BY <1>1, <1>2 DEF Unused, Storing, GivesUp
  <2>2. n \in Unused <=> \/ n \in 1..MaxClients /\ n > clients
                         \/ \E d \in Callers : Storing(d) /\ mine[d] = n
    BY UnusedIs
  <2>3. ~(mine[c] \in 1..MaxClients /\ mine[c] > clients) BY <1>3
  <2>4. \A d \in Callers : Storing(d) /\ d # c => mine[d] # mine[c] BY DEF ApartInv
  <2>5. QED BY <2>1, <2>2, <2>3, <2>4
<1>6. Unused' = Unused \ {mine[c]} BY <1>5
<1>7. QED BY <1>1, <1>2, <1>4, <1>6 DEF ApartInv

LEMMA RegisterUnused ==
    ASSUME TypeInv, ApartInv, NEW c \in Callers, Register(c)
    PROVE  /\ ApartInv'
           /\ \/ Unused' = Unused
              \/ clients + 1 \in Unused /\ Unused' = Unused \ {clients + 1}
<1>1. ~Storing(c) /\ clients \in 0..MaxClients /\ MaxClients \in Nat
  BY Bounds DEF Register, Storing, TypeInv, CallType
<1>2. CASE /\ clients < MaxClients /\ clients' = clients + 1
           /\ mine' = [mine EXCEPT ![c] = clients'] /\ Goto(c, "update")
  <2>1. \A d \in Callers : Storing(d)' <=> Storing(d) \/ d = c
    BY <1>2 DEF Storing, Goto, TypeInv, CallType
  <2>2. mine'[c] = clients + 1 /\ \A d \in Callers : d # c => mine'[d] = mine[d]
    BY <1>2 DEF TypeInv, CallType
  <2>3. ASSUME NEW n PROVE n \in Unused' <=> n \in Unused
    <3>1. n \in Unused' <=> \/ n \in 1..MaxClients /\ n > clients + 1
                            \/ \E d \in Callers : Storing(d)' /\ mine'[d] = n
      BY <1>2 DEF Unused, Storing
    <3>2. n \in Unused <=> \/ n \in 1..MaxClients /\ n > clients
                           \/ \E d \in Callers : Storing(d) /\ mine[d] = n
      BY UnusedIs
    <3>3. n \in 1..MaxClients /\ n > clients
          <=> (n \in 1..MaxClients /\ n > clients + 1) \/ n = clients + 1
      BY <1>1, <1>2
    <3>4. (\E d \in Callers : Storing(d)' /\ mine'[d] = n)
          <=> (\E d \in Callers : Storing(d) /\ mine[d] = n) \/ n = clients + 1
      BY <1>1, <2>1, <2>2
    <3>5. QED BY <3>1, <3>2, <3>3, <3>4
  <2>4. ASSUME NEW d \in Callers, Storing(d), d # c PROVE mine'[d] # mine'[c]
    <3>1. mine[d] <= clients /\ mine[d] \in 1..MaxClients BY <2>4, StoringClient
    <3>2. QED BY <1>1, <2>2, <2>4, <3>1
  <2>5. ApartInv' BY <2>1, <2>2, <2>4 DEF ApartInv
  <2>6. QED BY <2>3, <2>5
<1>3. CASE /\ Leave(c) /\ UNCHANGED mine
           /\ clients' \in {clients, clients + 1} /\ clients' <= MaxClients
  <2>1. \A d \in Callers : Storing(d)' <=> Storing(d)
    BY <1>1, <1>3 DEF Storing, Leave, Goto, TypeInv, CallType
  <2>2. ApartInv' BY <1>3, <2>1 DEF ApartInv
  <2>3. \A n : n \in Unused' <=> \/ n \in 1..MaxClients /\ n > clients'
                                 \/ \E d \in Callers : Storing(d) /\ mine[d] = n
    BY <1>3, <2>1 DEF Unused, Storing
  <2>4. CASE clients' = clients
    <3>1. \A n : n \in Unused' <=> n \in Unused BY <2>3, <2>4, UnusedIs
    <3>2. QED BY <2>2, <3>1
  <2>5. CASE clients' = clients + 1
    <3>1. clients + 1 \in 1..MaxClients /\ clients + 1 > clients BY <1>1, <1>3, <2>5
    <3>2. clients + 1 \in Unused BY <3>1 DEF Unused
    <3>3. \A d \in Callers : Storing(d) => mine[d] # clients + 1
      BY <1>1, StoringClient
    <3>4. ASSUME NEW n PROVE n \in Unused' <=> n \in Unused /\ n # clients + 1
      <4>1. n \in 1..MaxClients /\ n > clients + 1
            <=> n \in 1..MaxClients /\ n > clients /\ n # clients + 1
        BY <1>1
      <4>2. QED BY <2>3, <2>5, <3>3, <4>1, UnusedIs
    <3>5. Unused' = Unused \ {clients + 1} BY <3>4
    <3>6. QED BY <2>2, <3>2, <3>5
  <2>6. QED BY <1>3, <2>4, <2>5
<1>4. QED BY <1>2, <1>3 DEF Register

(* The steps of callers: what they leave alone, and what they do.          *)
LEMMA CallerStep ==
    ASSUME TypeInv, NEW c \in Callers, Call(c) \/ Handle(c), ~Register(c)
    PROVE  GivesUp(c) /\ (Storing(c) => UpdateSecret(c) \/ PanicNilMap(c))
<1>1. CASE Call(c)
  BY <1>1 DEF Call, Goto, GivesUp, Apart, Storing, TypeInv, CallType
<1>2. CASE GetSecret(c)
  BY <1>2 DEF GetSecret, Leave, Goto, GivesUp, Apart, Storing, TypeInv, CallType
<1>3. CASE Discover(c)
  <2>1. \E l \in {"idle", "getToken", "register"} : pc' = [pc EXCEPT ![c] = l]
    BY <1>3 DEF Discover, Leave, Goto
  <2>2. pc[c] = "discover" /\ UNCHANGED <<mine, clients>> BY <1>3 DEF Discover
  <2>3. QED BY <2>1, <2>2 DEF GivesUp, Apart, Storing, TypeInv, CallType
<1>4. CASE GetToken(c)
  BY <1>4 DEF GetToken, Goto, GivesUp, Apart, Storing, TypeInv, CallType
<1>5. CASE UpdateSecret(c)
  BY <1>5 DEF UpdateSecret, Leave, Goto, GivesUp, Apart, TypeInv, CallType
<1>6. CASE PanicNilMap(c)
  <2>1. \E l \in {"idle", "getSecret"} : pc' = [pc EXCEPT ![c] = l]
    BY <1>6 DEF PanicNilMap, Goto
  <2>2. UNCHANGED <<mine, clients>> BY <1>6 DEF PanicNilMap
  <2>3. QED BY <1>6, <2>1, <2>2 DEF GivesUp, Apart, TypeInv, CallType
<1>7. QED BY <1>1, <1>2, <1>3, <1>4, <1>5, <1>6 DEF Handle

(* The secret as CredentialService sees it, and what is not its business.  *)
LEMMA SecretUnchanged ==
    ASSUME UNCHANGED api
    PROVE  UNCHANGED <<HeldData, HeldClient>> /\ \A n : Stored(n)' <=> Stored(n)
BY DEF HeldData, HeldClient, Stored

LEMMA CallersUnchanged ==
    ASSUME UNCHANGED <<pc, mine, clients>>, ApartInv
    PROVE  Unused' = Unused /\ ApartInv'
BY DEF Unused, ApartInv, Storing

(* The write of UpdateSecret, when it is accepted: what is stored is what  *)
(* the caller has read, with its client.                                   *)
LEMMA UpdateStores ==
    ASSUME ClientInv, NEW c \in Callers, Storing(c), Accept(c), HasData(secret[c]),
           Put(Secret, [secret[c] EXCEPT !.client = mine[c]])
    PROVE  /\ HeldData # Absent /\ HeldClient = Absent
           /\ HeldData' = HeldData /\ HeldClient' = mine[c]
           /\ \A n : Stored(n)' <=> n = mine[c]
<1>1. TypeInv /\ StoreType BY DEF ClientInv, TypeInv
<1>2. secret[c] \in SecretObject \ {Absent} /\ secret[c].client = 0
  <2>1. secret[c] \in SecretObject \ {Absent} BY DEF ClientInv, TypeInv, HasRead, Busy, Storing
  <2>2. QED BY <2>1 DEF ClientInv, ReadInv
<1>3. mine[c] \in 1..MaxClients BY <1>1, StoringClient
<1>4. api[Secret] # Absent /\ api[Secret] = secret[c]
  <2>1. api[Secret] # Absent /\ api[Secret].rv = secret[c].rv BY DEF Accept, Fresh
  <2>2. api[Secret].rv = version[Secret] BY <2>1 DEF ClientInv, HeldInv
  <2>3. QED BY <1>2, <2>1, <2>2 DEF ClientInv, ReadInv, CopyOf
<1>5. HeldData = secret[c].data /\ HeldClient = Absent
  BY <1>2, <1>4 DEF HeldData, HeldClient
<1>6. secret[c].data # Absent BY <1>2, AbsentAssumption DEF SecretObject
<1> DEFINE obj == [secret[c] EXCEPT !.client = mine[c]]
<1>7. obj \in SecretObject /\ obj.data = secret[c].data /\ obj.client = mine[c]
  BY <1>2, <1>3, Bounds DEF SecretObject
<1>8. api'[Secret] = [obj EXCEPT !.rv = version[Secret] + 1] /\ api'[Secret] \in SecretObject
  BY <1>1, <1>7, PutEffect
<1>9. api'[Secret].data = secret[c].data /\ api'[Secret].client = mine[c]
  BY <1>7, <1>8 DEF SecretObject
<1>10. api'[Secret] # Absent
  BY <1>8, AbsentAssumption
<1>11. QED BY <1>3, <1>5, <1>6, <1>9, <1>10 DEF HeldData, HeldClient, Stored

LEMMA PromiseInit == Init => PromiseInv /\ Promised!Init
<1> SUFFICES ASSUME Init PROVE PromiseInv /\ Promised!Init OBVIOUS
<1>1. api[Secret] = Absent /\ \A c \in Callers : ~Storing(c)
  BY KeyIsSecret DEF Init, Storing
<1>2. ClientInv /\ ApartInv /\ StoredInv
  BY <1>1, InitClient DEF ApartInv, StoredInv, Stored
<1>3. \A n : n \in Unused <=> n \in 1..MaxClients
  BY <1>1, Bounds DEF Unused, Storing, Init
<1>4. Unused = 1..MaxClients BY <1>3
<1>5. QED BY <1>1, <1>2, <1>4 DEF PromiseInv, Promised!Init, HeldData, HeldClient

(* Users: the callers and the provider see nothing of it.                  *)
LEMMA UserServes ==
    ASSUME PromiseInv,
           \/ \E data \in Contents : CreateSecret(data)
           \/ ClearSecret \/ DeleteSecret \/ Deliver \/ UNCHANGED vars
    PROVE  /\ ApartInv' /\ Unused' = Unused /\ UNCHANGED clients
           /\ \A n \in 1..MaxClients : Stored(n)' => Stored(n)
           /\ Promised!Next \/ UNCHANGED Promised!vars
<1>0. StoreType /\ Secret \in Keys BY KeyIsSecret DEF PromiseInv, ClientInv, TypeInv
<1>1. UNCHANGED <<pc, mine, clients>>
  BY DEF CreateSecret, ClearSecret, DeleteSecret, Edit, Deliver, callVars, vars
<1>2. ApartInv' /\ Unused' = Unused BY <1>1, CallersUnchanged DEF PromiseInv
<1>3. ASSUME NEW d \in Contents, CreateSecret(d)
      PROVE  Promised!Create /\ \A n \in 1..MaxClients : ~Stored(n)'
  <2>1. [rv |-> 0, data |-> d, client |-> 0] \in SecretObject
    BY ContentsAssumption, Bounds DEF SecretObject
  <2> DEFINE obj == [rv |-> 0, data |-> d, client |-> 0]
  <2>2. api'[Secret] = [obj EXCEPT !.rv = version[Secret] + 1] /\ api'[Secret] \in SecretObject
    BY <1>0, <1>3, <2>1, PutEffect DEF CreateSecret
  <2>3. api'[Secret].data = d /\ api'[Secret].client = 0 /\ api'[Secret] # Absent
    BY <2>2, AbsentAssumption
  <2>4. api[Secret] = Absent BY <1>3 DEF CreateSecret
  <2>5. QED BY <1>2, <2>3, <2>4 DEF Promised!Create, HeldData, HeldClient, Stored
<1>4. ASSUME ClearSecret
      PROVE  Promised!Clear /\ \A n \in 1..MaxClients : ~Stored(n)'
  <2>1. api[Secret] \in SecretObject /\ api[Secret] # Absent
    BY <1>0, <1>4 DEF ClearSecret, StoreType, Secrets
  <2> DEFINE obj == [api[Secret] EXCEPT !.client = 0]
  <2>2. obj \in SecretObject BY <2>1, Bounds DEF SecretObject
  <2>3. api'[Secret] = [obj EXCEPT !.rv = version[Secret] + 1] /\ api'[Secret] \in SecretObject
    BY <1>0, <1>4, <2>2, PutEffect DEF ClearSecret
  <2>4. api'[Secret].data = api[Secret].data /\ api'[Secret].client = 0
        /\ api'[Secret] # Absent
    BY <2>1, <2>3, AbsentAssumption DEF SecretObject
  <2>5. QED BY <1>2, <2>1, <2>4 DEF Promised!Clear, HeldData, HeldClient, Stored
<1>5. ASSUME DeleteSecret
      PROVE  Promised!Delete /\ \A n \in 1..MaxClients : ~Stored(n)'
  <2>1. api'[Secret] = Absent BY <1>0, <1>5 DEF DeleteSecret, Remove, StoreType
  <2>2. QED BY <1>2, <2>1 DEF Promised!Delete, HeldData, HeldClient, Stored
<1>6. CASE Deliver \/ UNCHANGED vars
  <2>1. UNCHANGED api BY <1>6 DEF Deliver, Advance, vars, kubeVars
  <2>2. QED BY <1>1, <1>2, <2>1, SecretUnchanged DEF Promised!vars
<1>7. QED BY <1>1, <1>2, <1>3, <1>4, <1>5, <1>6 DEF Promised!Next

(* Callers: a step that writes nothing may lose a client; the one that     *)
(* writes stores its own.                                                  *)
LEMMA CallerServes ==
    ASSUME PromiseInv, ClientInv', NEW c \in Callers, Call(c) \/ Handle(c)
    PROVE  PromiseInv' /\ (Promised!Next \/ UNCHANGED Promised!vars)
<1>0. TypeInv /\ ApartInv /\ ClientInv /\ StoredInv BY DEF PromiseInv, ClientInv
<1>1. CASE Storing(c) /\ UpdateSecret(c)
           /\ Accept(c) /\ Put(Secret, [secret[c] EXCEPT !.client = mine[c]])
  <2>1. ~Register(c) BY <1>1 DEF Register, Storing
  <2>2. /\ mine[c] \in Unused /\ Unused' = Unused \ {mine[c]} /\ ApartInv'
        /\ UNCHANGED clients
    BY <1>0, <1>1, <2>1, CallerStep, LosesOne DEF GivesUp
  <2>3. /\ HeldData # Absent /\ HeldClient = Absent
        /\ HeldData' = HeldData /\ HeldClient' = mine[c]
        /\ \A n : Stored(n)' <=> n = mine[c]
    BY <1>0, <1>1, UpdateStores DEF UpdateSecret
  <2>4. Promised!Store(mine[c]) BY <2>2, <2>3 DEF Promised!Store, Promised!Vacant
  <2>5. mine[c] <= clients BY <1>0, <1>1, StoringClient
  <2>6. StoredInv' BY <2>2, <2>3, <2>5 DEF StoredInv
  <2>7. QED BY <2>2, <2>4, <2>6 DEF PromiseInv, Promised!Next
<1>2. CASE UNCHANGED api
  <2>1. UNCHANGED <<HeldData, HeldClient>> /\ \A n : Stored(n)' <=> Stored(n)
    BY <1>2, SecretUnchanged
  <2>2. /\ ApartInv'
        /\ Unused' = Unused \/ \E n \in Unused : Unused' = Unused \ {n}
    <3>1. CASE Register(c) BY <1>0, <3>1, RegisterUnused
    <3>2. CASE ~Register(c) /\ Storing(c) BY <1>0, <3>2, CallerStep, LosesOne
    <3>3. CASE ~Register(c) /\ ~Storing(c) BY <1>0, <3>3, CallerStep, KeepsUnused
    <3>4. QED BY <3>1, <3>2, <3>3
  <2>3. clients <= clients' /\ clients \in Nat
    <3>1. clients \in Nat BY <1>0 DEF TypeInv, CallType
    <3>2. CASE Register(c) BY <3>1, <3>2 DEF Register
    <3>3. CASE ~Register(c) BY <1>0, <3>1, <3>3, CallerStep DEF GivesUp
    <3>4. QED BY <3>1, <3>2, <3>3
  <2>4. clients' \in Nat BY DEF ClientInv, TypeInv, CallType
  <2>5. StoredInv' BY <1>0, <2>1, <2>2, <2>3, <2>4 DEF StoredInv
  <2>6. Promised!Next \/ UNCHANGED Promised!vars
    BY <2>1, <2>2 DEF Promised!Next, Promised!Lose, Promised!vars
  <2>7. QED BY <2>2, <2>5, <2>6 DEF PromiseInv
<1>3. CASE UpdateSecret(c) /\ ~UNCHANGED api
  <2>1. Storing(c) /\ Accept(c) /\ Put(Secret, [secret[c] EXCEPT !.client = mine[c]])
    BY <1>3 DEF UpdateSecret, Storing
  <2>2. QED BY <1>1, <1>3, <2>1
<1>4. CASE ~UpdateSecret(c)
  <2>1. UNCHANGED api
    BY <1>4
    DEF Handle, Call, GetSecret, Discover, GetToken, Register, PanicNilMap, kubeVars
  <2>2. QED BY <1>2, <2>1
<1>5. QED BY <1>2, <1>3, <1>4

LEMMA PromiseStep ==
    ASSUME PromiseInv, [Next]_vars
    PROVE  PromiseInv' /\ (Promised!Next \/ UNCHANGED Promised!vars)
<1>1. ClientInv' BY ClientStep DEF PromiseInv
<1>2. CASE \E c \in Callers : Call(c) \/ Handle(c) BY <1>1, <1>2, CallerServes
<1>3. CASE \/ \E data \in Contents : CreateSecret(data)
           \/ ClearSecret \/ DeleteSecret \/ Deliver \/ UNCHANGED vars
  <2>1. /\ ApartInv' /\ Unused' = Unused /\ UNCHANGED clients
        /\ \A n \in 1..MaxClients : Stored(n)' => Stored(n)
        /\ Promised!Next \/ UNCHANGED Promised!vars
    BY <1>3, UserServes
  <2>2. StoredInv' BY <2>1 DEF PromiseInv, StoredInv
  <2>3. QED BY <1>1, <2>1, <2>2 DEF PromiseInv
<1>4. QED BY <1>2, <1>3 DEF Next, Users

(* Any number of callers, with caches as late as may be and faults         *)
(* wherever they hit, keep the promise of CredentialService.               *)
THEOREM CredentialsImplemented == Spec => ImplementsCredentials
<1>1. Init => PromiseInv /\ Promised!Init BY PromiseInit
<1>2. PromiseInv /\ [Next]_vars => PromiseInv' /\ [Promised!Next]_(Promised!vars)
  BY PromiseStep
<1>3. QED BY <1>1, <1>2, PTL DEF Spec, ImplementsCredentials, Promised!Spec

-----------------------------------------------------------------------------
(* A client that was stored is used up, whether it still is stored or not. *)

Spent(n) == n \in 1..MaxClients /\ n \notin Unused

LEMMA SpentStays ==
    ASSUME PromiseInv, [Next]_vars, NEW n, Spent(n)
    PROVE  Spent(n)' /\ (Stored(n)' => Stored(n))
<1>1. Promised!Next \/ UNCHANGED Promised!vars BY PromiseStep
<1>2. Unused' \subseteq Unused
  BY <1>1
  DEF Promised!Next, Promised!vars, Promised!Create, Promised!Clear, Promised!Delete,
      Promised!Store, Promised!Lose
<1>3. n \in 1..MaxClients BY DEF Spent
<1>5. ASSUME Stored(n)' PROVE HeldClient' = n
  BY <1>3, <1>5 DEF Stored, HeldClient
<1>6. ASSUME HeldClient = n PROVE Stored(n)
  BY <1>3, <1>6, AbsentAssumption DEF Stored, HeldClient
<1>4. HeldClient' = n => HeldClient = n
  <2>1. n # Absent /\ n \notin Unused BY <1>3, AbsentAssumption DEF Spent
  <2>2. HeldClient' \in {HeldClient, Absent} \cup Unused
    BY <1>1
    DEF Promised!Next, Promised!vars, Promised!Create, Promised!Clear, Promised!Delete,
        Promised!Store, Promised!Lose
  <2>3. QED BY <2>1, <2>2
<1>7. QED BY <1>2, <1>4, <1>5, <1>6 DEF Spent

LEMMA StoredIsSpent ==
    ASSUME PromiseInv, NEW n \in 1..MaxClients, Stored(n)
    PROVE  Spent(n)
BY DEF PromiseInv, StoredInv, Spent

(* Credentials that were taken out of the secret never come back, however  *)
(* many callers there are and however slow they are.                       *)
THEOREM TakenOutAlwaysStaysOut == Spec => TakenOutStaysOut
<1>1. Spec => []PromiseInv BY PromiseInit, PromiseStep, PTL DEF Spec
<1>2. ASSUME NEW n \in 1..MaxClients
      PROVE  Spec => [](Stored(n) => [](~Stored(n) => []~Stored(n)))
  <2>1. PromiseInv => (Stored(n) => Spent(n)) BY StoredIsSpent
  <2>2. PromiseInv /\ [Next]_vars => (Spent(n) => Spent(n)')
    BY SpentStays
  <2>3. PromiseInv /\ [Next]_vars => (Spent(n) /\ ~Stored(n) => ~Stored(n)')
    BY SpentStays
  <2>4. QED BY <1>1, <2>1, <2>2, <2>3, PTL DEF Spec
<1>3. QED BY <1>2 DEF TakenOutStaysOut
=============================================================================
