------------------------------- MODULE KubeApi -------------------------------
(***************************************************************************)
(* The Kubernetes API server and the client cache of the operator, as the  *)
(* operator uses them through the controller-runtime client:               *)
(*   - a write goes to the API server, and an update carries the resource  *)
(*     version its author read: it is refused when that version is old;    *)
(*   - a read comes from a cache which the watch of the object brings up   *)
(*     to date, one event at a time and in order, but arbitrarily late.    *)
(* This is code outside the repository.  It is modelled for what the       *)
(* operator relies on.                                                     *)
(***************************************************************************)
EXTENDS Naturals, Sequences

CONSTANTS
    Keys,    \* the objects: a kind and a name each
    Absent   \* what is stored, or cached, for an object that is not there

VARIABLES
    api,      \* api[k]: the object the API server holds
    version,  \* version[k]: how many times k was written, in all its lives
    cache,    \* cache[k]: the object the operator reads
    stream    \* stream[k]: the watch events of k the cache has not seen yet

kubeVars == <<api, version, cache, stream>>

(* A resource version is never reused, not even by a later object of the   *)
(* same name: version[k] survives the deletion of k.                       *)
Put(k, obj) ==
    LET new == [obj EXCEPT !.rv = version[k] + 1]
    IN  /\ version' = [version EXCEPT ![k] = @ + 1]
        /\ api' = [api EXCEPT ![k] = new]
        /\ stream' = [stream EXCEPT ![k] = Append(@, new)]

Remove(k) ==
    /\ api' = [api EXCEPT ![k] = Absent]
    /\ stream' = [stream EXCEPT ![k] = Append(@, Absent)]
    /\ UNCHANGED version

(* An update based on the copy old is accepted.                            *)
Fresh(k, old) == api[k] # Absent /\ api[k].rv = old.rv

(* A write that leaves the object as it is: the API server stores nothing, *)
(* gives out no new resource version, and tells no watcher.                *)
Renew == UNCHANGED <<api, version, stream>>

(* The watch of k delivers its next event to the cache.                    *)
Advance(k) ==
    /\ stream[k] # <<>>
    /\ cache' = [cache EXCEPT ![k] = Head(stream[k])]
    /\ stream' = [stream EXCEPT ![k] = Tail(@)]
    /\ UNCHANGED <<api, version>>

(* A new process lists everything before it watches.                       *)
Relist ==
    /\ cache' = api
    /\ stream' = [k \in Keys |-> <<>>]
    /\ UNCHANGED <<api, version>>
==============================================================================
