--------------------------- MODULE OidcRegistration ---------------------------
(***************************************************************************)
(* Dynamic client registration: handleOidcRegistration registers a client  *)
(* at the OIDC provider and keeps its credentials in the secret that the   *)
(* configuration source names, unless the secret has them already.         *)
(*                                                                         *)
(* It is called while a configuration is merged: by the worker of the      *)
(* reconciler, and by the webhook for as many requests as there are.  The  *)
(* secret is read from the cache and written with the resource version     *)
(* that was read; the provider is called in between.                       *)
(***************************************************************************)
EXTENDS KubeApi

CONSTANTS
    Secret,       \* the secret, the one object of KubeApi
    Worker,       \* the worker of the reconciler
    Handlers,     \* admission requests
    Contents,     \* what users put in the secret, see ContentsAssumption
    MaxCalls,     \* bound: calls of handleOidcRegistration
    MaxClients,   \* bound: clients the provider registers
    MaxEdits,     \* bound: edits of the secret
    MaxFaults,    \* bound: calls to the provider or the API server that fail
    Prompt        \* do calls wait until the cache is up to date?

Callers == {Worker} \cup Handlers
Methods == {"basic", "initial", "retrieved", "none"}

(* ba, initial, retrieval: are there data to authorize the registration    *)
(* with, of each kind?  other: are there any other keys, insecureTLS say?  *)
Authorization == [ba : BOOLEAN, initial : BOOLEAN, retrieval : BOOLEAN, other : BOOLEAN]
ASSUME ContentsAssumption == Contents \subseteq Authorization
ASSUME BoundsAssumption ==
    /\ {MaxCalls, MaxClients, MaxEdits, MaxFaults} \subseteq Nat
    /\ Prompt \in BOOLEAN /\ Keys = {Secret} /\ Worker \notin Handlers

VARIABLES
    pc,       \* pc[c]: where caller c is
    secret,   \* secret[c]: the secret as it read it
    auth,     \* auth[c]: how it authorizes its registration
    clients,  \* clients the provider has registered
    mine,     \* mine[c]: the client it has registered
    calls, edits, faults

callVars == <<pc, secret, auth, mine>>
vars == <<kubeVars, callVars, clients, calls, edits, faults>>

SecretObject == [rv : Nat, data : Authorization, client : 0..MaxClients]
ASSUME AbsentAssumption == Absent \notin SecretObject \cup Authorization \cup Nat

Init ==
    /\ api = [k \in Keys |-> Absent]
    /\ version = [k \in Keys |-> 0]
    /\ cache = api
    /\ stream = [k \in Keys |-> <<>>]
    /\ pc = [c \in Callers |-> "idle"]
    /\ secret = [c \in Callers |-> Absent]
    /\ auth = [c \in Callers |-> "none"]
    /\ mine = [c \in Callers |-> 0]
    /\ clients = 0 /\ calls = 0 /\ edits = 0 /\ faults = 0

Goto(c, l) == pc' = [pc EXCEPT ![c] = l]
Fault      == faults < MaxFaults /\ faults' = faults + 1
Leave(c)   == Goto(c, "idle")

-----------------------------------------------------------------------------
(* The users: a configuration source makes somebody call.                  *)

Call(c) ==
    /\ pc[c] = "idle" /\ calls < MaxCalls /\ calls' = calls + 1
    /\ Prompt => stream[Secret] = <<>>
    /\ Goto(c, "getSecret")
    /\ UNCHANGED <<kubeVars, secret, auth, mine, clients, edits, faults>>

Edit == edits < MaxEdits /\ edits' = edits + 1
        /\ UNCHANGED <<cache, callVars, clients, calls, faults>>

CreateSecret(data) ==
    /\ api[Secret] = Absent /\ Edit
    /\ Put(Secret, [rv |-> 0, data |-> data, client |-> 0])

(* The administrator takes the credentials out, to have a new client       *)
(* registered.                                                             *)
ClearSecret ==
    /\ api[Secret] # Absent /\ api[Secret].client # 0 /\ Edit
    /\ Put(Secret, [api[Secret] EXCEPT !.client = 0])

(* The secret is deleted, perhaps to be created anew with other data.      *)
DeleteSecret == api[Secret] # Absent /\ Edit /\ Remove(Secret)

Deliver == Advance(Secret) /\ UNCHANGED <<callVars, clients, calls, edits, faults>>

-----------------------------------------------------------------------------
(* handleOidcRegistration.                                                 *)

Registered(s) == s.client # 0

GetSecretUnchecked(c) ==
    /\ pc[c] = "getSecret"
    /\ LET s == cache[Secret]
       IN  IF s = Absent THEN Leave(c) /\ UNCHANGED secret
           ELSE Goto(c, "discover") /\ secret' = [secret EXCEPT ![c] = s]
    /\ UNCHANGED <<kubeVars, auth, mine, clients, calls, edits, faults>>
GetSecret(c) ==
    /\ pc[c] = "getSecret"
    /\ LET s == cache[Secret]
       IN  IF s = Absent \/ Registered(s)
           THEN Leave(c) /\ UNCHANGED secret
           ELSE Goto(c, "discover") /\ secret' = [secret EXCEPT ![c] = s]
    /\ UNCHANGED <<kubeVars, auth, mine, clients, calls, edits, faults>>

(* getDiscoveryData, then the data to authorize with.  The order matters.  *)
Given(data) == IF data.ba THEN "basic" ELSE IF data.initial THEN "initial" ELSE "none"

Discover(c) ==
    /\ pc[c] = "discover"
    /\ \/ /\ auth' = [auth EXCEPT ![c] = Given(secret[c].data)]
          /\ Goto(c, IF auth'[c] = "none" THEN "getToken" ELSE "register")
          /\ UNCHANGED faults
       \/ Fault /\ Leave(c) /\ UNCHANGED auth
    /\ UNCHANGED <<kubeVars, secret, mine, clients, calls, edits>>

(* getAccessToken.  A failure is ignored: some providers need no token.    *)
GetToken(c) ==
    /\ pc[c] = "getToken"
    /\ \/ /\ secret[c].data.retrieval
          /\ auth' = [auth EXCEPT ![c] = "retrieved"] /\ UNCHANGED faults
       \/ ~secret[c].data.retrieval /\ UNCHANGED <<auth, faults>>
       \/ secret[c].data.retrieval /\ Fault /\ UNCHANGED auth
    /\ Goto(c, "register")
    /\ UNCHANGED <<kubeVars, secret, mine, clients, calls, edits>>

(* registerOidcClient.  When the provider does not answer in time it may   *)
(* have registered the client all the same; when the answer has no client  *)
(* in it, that is an error too.                                            *)
RegisterUnchecked(c) ==
    /\ pc[c] = "register" /\ Goto(c, "update")
    /\ \/ /\ clients < MaxClients /\ clients' = clients + 1
          /\ mine' = [mine EXCEPT ![c] = clients'] /\ UNCHANGED faults
       \/ Fault /\ UNCHANGED <<clients, mine>>
    /\ UNCHANGED <<kubeVars, secret, auth, calls, edits>>
RegisterReused(c) ==
    /\ pc[c] = "register" /\ Goto(c, "update")
    /\ IF mine[c] # 0 THEN UNCHANGED <<clients, mine>>
       ELSE /\ clients < MaxClients /\ clients' = clients + 1
            /\ mine' = [mine EXCEPT ![c] = clients']
    /\ UNCHANGED <<kubeVars, secret, auth, calls, edits, faults>>
Register(c) ==
    /\ pc[c] = "register"
    /\ \/ /\ clients < MaxClients /\ clients' = clients + 1
          /\ mine' = [mine EXCEPT ![c] = clients']
          /\ Goto(c, "update") /\ UNCHANGED faults
       \/ /\ Fault /\ Leave(c)
          /\ clients' \in {clients, clients + 1} /\ clients' <= MaxClients
          /\ UNCHANGED mine
    /\ UNCHANGED <<kubeVars, secret, auth, calls, edits>>

(* The map of a secret without any key is nil in Go: that of a provider    *)
(* that needs no authorization, unless something else is in the secret.    *)
HasData(s) == s.data.ba \/ s.data.initial \/ s.data.retrieval \/ s.data.other

Accept(c) == Fresh(Secret, secret[c])

UpdateSecretUnsaved(c) ==
    /\ pc[c] = "update" /\ HasData(secret[c]) /\ Leave(c)
    /\ UNCHANGED <<kubeVars, secret, auth, mine, clients, calls, edits, faults>>
UpdateSecretAnyway(c) ==
    /\ pc[c] = "update" /\ HasData(secret[c]) /\ api[Secret] # Absent
    /\ Put(Secret, [api[Secret] EXCEPT !.client = mine[c]])
    /\ Leave(c)
    /\ UNCHANGED <<cache, secret, auth, mine, clients, calls, edits, faults>>
UpdateSecret(c) ==
    /\ pc[c] = "update" /\ HasData(secret[c])
    /\ \/ /\ Accept(c) /\ UNCHANGED faults
          /\ Put(Secret, [secret[c] EXCEPT !.client = mine[c]])
       \/ ~Accept(c) /\ UNCHANGED <<api, version, stream, faults>>
       \/ Accept(c) /\ Fault /\ UNCHANGED <<api, version, stream>>
    /\ Leave(c)
    /\ UNCHANGED <<cache, secret, auth, mine, clients, calls, edits>>

(* An entry is put in a nil map.  controller-runtime recovers: it tries    *)
(* the request of the worker again, and fails the one of a handler.        *)
PanicNilMap(c) ==
    /\ pc[c] = "update" /\ ~HasData(secret[c])
    /\ Goto(c, IF c = Worker THEN "getSecret" ELSE "idle")
    /\ UNCHANGED <<kubeVars, secret, auth, mine, clients, calls, edits, faults>>

Users == \/ \E c \in Callers : Call(c)
         \/ \E data \in Contents : CreateSecret(data)
         \/ ClearSecret
         \/ DeleteSecret

Handle(c) == \/ GetSecret(c) \/ Discover(c) \/ GetToken(c)
             \/ Register(c) \/ UpdateSecret(c) \/ PanicNilMap(c)

Next == Users \/ Deliver \/ \E c \in Callers : Handle(c)

Spec == Init /\ [][Next]_vars

(* Callers run, and watches deliver.                                       *)
FairSpec == Spec /\ WF_vars(Deliver) /\ \A c \in Callers : WF_vars(Handle(c))

-----------------------------------------------------------------------------
(* What is true of it.                                                     *)

(* The variables have the types of the Go values they stand for, and what  *)
(* a caller is about to store is a client that the provider registered.    *)
TypeOK ==
    /\ DOMAIN api = Keys /\ \A k \in Keys : api[k] \in SecretObject \cup {Absent}
    /\ DOMAIN cache = Keys /\ \A k \in Keys : cache[k] \in SecretObject \cup {Absent}
    /\ DOMAIN stream = Keys /\ \A k \in Keys : stream[k] \in Seq(SecretObject \cup {Absent})
    /\ version \in [Keys -> Nat]
    /\ pc \in [Callers -> {"idle", "getSecret", "discover", "getToken", "register", "update"}]
    /\ DOMAIN secret = Callers /\ \A c \in Callers : secret[c] \in SecretObject \cup {Absent}
    /\ auth \in [Callers -> Methods] /\ mine \in [Callers -> 0..MaxClients]
    /\ clients \in 0..MaxClients
    /\ \A c \in Callers : mine[c] <= clients /\ (pc[c] = "update" => mine[c] # 0)
    /\ calls \in 0..MaxCalls /\ edits \in 0..MaxEdits /\ faults \in 0..MaxFaults

(* Credentials in the secret are in use, and stay until the administrator  *)
(* takes them out: though callers read a cache and decide on what they     *)
(* read, no registration replaces that of another caller, nor does one     *)
(* that began with a secret since deleted touch its successor.             *)
Stored(n) == api[Secret] # Absent /\ api[Secret].client = n
StoredClientStays ==
    [][\A n \in 1..MaxClients :
          Stored(n) /\ ~(ClearSecret \/ DeleteSecret) => Stored(n)']_vars

(* A client is not registered again while its credentials are in use: one  *)
(* registration, and another one each time the secret was edited.  ("The   *)
(* operator will not register a new client if the specified secret already *)
(* contains a client_id and client_secret field.")                         *)
NoNeedlessClient == clients <= edits

(* "If the data for a particular method is found, that method will be used *)
(* for authorization."                                                     *)
AuthorizedAsGiven ==
    \A c \in Callers : pc[c] = "update" /\ secret[c].data.retrieval => auth[c] # "none"

(* When somebody registers with a secret that has data, and nothing fails  *)
(* and nobody edits the secret meanwhile, credentials get into it, whoever *)
(* of several callers it is that puts them there: the write of the first   *)
(* one to finish is never refused.                                         *)
CredentialsArrive ==
    \A n \in 0..MaxEdits, f \in 0..MaxFaults :
        (\E c \in Callers : /\ pc[c] = "register" /\ HasData(secret[c])
                            /\ Fresh(Secret, secret[c]) /\ edits = n /\ faults = f)
        ~> \/ \E m \in 1..MaxClients : Stored(m)
           \/ edits # n \/ faults # f \/ clients = MaxClients

(* However many callers there are, and however late their caches, they     *)
(* keep the promise of CredentialService: what users put in the secret     *)
(* stays as they put it, a client is only added where there is none, and   *)
(* no client is stored twice.  Unused are the clients the provider has not *)
(* registered yet, and those that callers are about to store.              *)
HeldData   == IF api[Secret] = Absent THEN Absent ELSE api[Secret].data
HeldClient == IF api[Secret] = Absent \/ api[Secret].client = 0 THEN Absent
              ELSE api[Secret].client
Unused     == {n \in 1..MaxClients : n > clients}
                  \cup {mine[c] : c \in {d \in Callers : pc[d] = "update"}}
Promised == INSTANCE CredentialService WITH
    Clients <- 1..MaxClients, None <- Absent,
    data <- HeldData, client <- HeldClient, unused <- Unused
ImplementsCredentials == Promised!Spec

(* Credentials that were taken out of the secret do not come back: no      *)
(* caller that is slow, has crashed or was refused stores a client again.  *)
TakenOutStaysOut ==
    \A n \in 1..MaxClients : [](Stored(n) => [](~Stored(n) => []~Stored(n)))
=============================================================================
