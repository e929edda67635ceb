---------------------------- MODULE GatewayService ----------------------------
(***************************************************************************)
(* What the reconciler of the gateways promises, told without its queue,   *)
(* its worker, its caches and the versions of the API server.              *)
(*                                                                         *)
(* Users write, edit and delete gateways.  Each gateway is served by a     *)
(* deployment that mounts a config map; both are made for one gateway      *)
(* object, and are good for that object only.  What is written is written  *)
(* from some state of the gateway: never from an older one than what was   *)
(* written before, and never from one that nobody asked for.               *)
(***************************************************************************)
EXTENDS Naturals

CONSTANTS
    Gateways,  \* names of gateways
    MapIds     \* names of generated config maps

VARIABLES
    life,     \* life[g]: the number of the gateway object named g, if there is one
    asked,    \* asked[g]: the number of the newest state of g
    rolled,   \* rolled[g]: the newest state something was written from
    maps,     \* maps[i]: the owner of config map i, if there is such a map
    mounted   \* mounted[g]: owner and config map of the deployment of g, if any

vars == <<life, asked, rolled, maps, mounted>>

Owner(g, n) == [gw |-> g, uid |-> n]
Lives(o)    == o.uid \in life[o.gw]

Init ==
    /\ life = [g \in Gateways |-> {}]
    /\ asked = [g \in Gateways |-> 0]
    /\ rolled = [g \in Gateways |-> 0]
    /\ maps = [i \in MapIds |-> {}]
    /\ mounted = [g \in Gateways |-> {}]

(* A gateway is created, its spec or its status is written, it is deleted. *)
Create(g) ==
    /\ life[g] = {}
    /\ life' = [life EXCEPT ![g] = {asked[g] + 1}]
    /\ asked' = [asked EXCEPT ![g] = @ + 1]
    /\ UNCHANGED <<rolled, maps, mounted>>
Ask(g) ==
    /\ life[g] # {}
    /\ asked' = [asked EXCEPT ![g] = @ + 1]
    /\ UNCHANGED <<life, rolled, maps, mounted>>
Delete(g) ==
    /\ life' = [life EXCEPT ![g] = {}]
    /\ UNCHANGED <<asked, rolled, maps, mounted>>

(* Forward, and no further than what was asked for.                        *)
Roll(g) ==
    /\ \E n \in rolled[g]..asked[g] : rolled' = [rolled EXCEPT ![g] = n]
    /\ UNCHANGED <<life, asked>>

(* A config map is made for a gateway object; it has one owner for life.   *)
MakeMap(g, i, n) ==
    /\ maps[i] = {}
    /\ maps' = [maps EXCEPT ![i] = {Owner(g, n)}]
    /\ Roll(g) /\ UNCHANGED mounted

(* A deployment is made, on a config map that is there and has its owner.  *)
(* When the gateway object is gone both are on their way out.              *)
Mount(g, i, n) ==
    /\ mounted[g] = {}
    /\ Lives(Owner(g, n)) => maps[i] = {Owner(g, n)}
    /\ mounted' = [mounted EXCEPT ![g] = {[owner |-> Owner(g, n), map |-> i]}]
    /\ Roll(g) /\ UNCHANGED maps

(* The contents of the map, the replicas or the template are renewed: the  *)
(* deployment goes on mounting the map it mounts.                          *)
Renew(g) == Roll(g) /\ UNCHANGED <<maps, mounted>>

(* Only a map without a living owner goes away, but a deployment may be    *)
(* deleted by anybody.                                                     *)
DropMap(i) ==
    /\ \A o \in maps[i] : ~Lives(o)
    /\ maps' = [maps EXCEPT ![i] = {}]
    /\ UNCHANGED <<life, asked, rolled, mounted>>
Unmount(g) ==
    /\ mounted' = [mounted EXCEPT ![g] = {}]
    /\ UNCHANGED <<life, asked, rolled, maps>>

Next ==
    \/ \E g \in Gateways : Create(g) \/ Ask(g) \/ Delete(g) \/ Renew(g) \/ Unmount(g)
    \/ \E g \in Gateways, i \in MapIds : \E n \in 0..asked[g] : MakeMap(g, i, n) \/ Mount(g, i, n)
    \/ \E i \in MapIds : DropMap(i)

Spec == Init /\ [][Next]_vars
=============================================================================
