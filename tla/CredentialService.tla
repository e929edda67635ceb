--------------------------- MODULE CredentialService ---------------------------
(***************************************************************************)
(* What the registration of OIDC clients promises to whoever uses the      *)
(* secret, told without callers, caches, providers and versions.           *)
(*                                                                         *)
(* Users make, clear and delete the secret, and what they put in it is     *)
(* theirs.  A client is stored in a secret that has none, and is stored    *)
(* once: what is taken out of the secret never comes back into it.         *)
(***************************************************************************)
CONSTANTS
    Clients,   \* clients the provider may register
    Contents,  \* what users put in the secret
    None       \* no secret, no client

VARIABLES
    data,    \* what users put in the secret, if there is one
    client,  \* the client in it, if any
    unused   \* clients that may still be stored

vars == <<data, client, unused>>

Init == data = None /\ client = None /\ unused = Clients

Create ==
    /\ data = None /\ data' \in Contents
    /\ UNCHANGED <<client, unused>>
Clear ==
    /\ client' = None
    /\ UNCHANGED <<data, unused>>
Delete ==
    /\ data' = None /\ client' = None
    /\ UNCHANGED unused

(* The credentials are added to what users put in the secret.              *)
Vacant == data # None /\ client = None
Store(n) ==
    /\ Vacant
    /\ client' = n /\ unused' = unused \ {n}
    /\ UNCHANGED data

(* A client is registered, and its credentials get nowhere.                *)
Lose(n) ==
    /\ unused' = unused \ {n}
    /\ UNCHANGED <<data, client>>

Next ==
    \/ Create \/ Clear \/ Delete
    \/ \E n \in unused : Store(n) \/ Lose(n)

Spec == Init /\ [][Next]_vars
=============================================================================
