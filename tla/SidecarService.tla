----------------------------- MODULE SidecarService -----------------------------
(***************************************************************************)
(* What the webhook promises about the deployments it serves, told without *)
(* requests, handlers, caches and versions.                                *)
(*                                                                         *)
(* Services and config maps are made for one deployment each, under names  *)
(* that are given out once, and never change.  While nobody asks anything  *)
(* about a deployment, it and what is its own stay as they are.  It is     *)
(* deployed with all that it asks for or with nothing of ours, and it      *)
(* never comes to name what serves another.                                *)
(***************************************************************************)
EXTENDS Naturals

CONSTANTS
    Apps,      \* deployments
    MaxNames,  \* how many names of each kind there are
    Ports,     \* ports services are made for
    Confs,     \* configurations config maps are made of
    NoAsk,     \* what is asked of a deployment without annotations
    Unset,     \* an annotation that is not there
    None       \* no deployment, no service, no config map

Ids == 1..MaxNames

VARIABLES
    deployments,   \* deployments[a]: its annotations and its container
    services,      \* services[i]: the service named i, and for whom it is
    configs,       \* configs[i]: the config map named i, and for whom it is
    servicesMade,  \* names of services given out
    configsMade,   \* names of config maps given out
    busy           \* deployments somebody asks something about

vars == <<deployments, services, configs, servicesMade, configsMade, busy>>

Init ==
    /\ deployments = [a \in Apps |-> None]
    /\ services = [i \in Ids |-> None] /\ servicesMade = 0
    /\ configs = [i \in Ids |-> None] /\ configsMade = 0
    /\ busy = {}

Ask(a) ==
    /\ busy' = busy \cup {a}
    /\ UNCHANGED <<deployments, services, configs, servicesMade, configsMade>>

(* Whatever is asked comes to an end, with or without an effect.           *)
Finish ==
    /\ busy' \subseteq busy
    /\ UNCHANGED <<deployments, services, configs, servicesMade, configsMade>>

Serve(a) == a \in busy /\ busy' \subseteq busy

(* A port is one service's.                                                *)
MakeService(a, port) ==
    /\ Serve(a)
    /\ servicesMade' \in Ids /\ servicesMade' = servicesMade + 1
    /\ \A i \in Ids : services[i] # None => services[i].port # port
    /\ services' = [services EXCEPT ![servicesMade'] = [app |-> a, port |-> port]]
    /\ UNCHANGED <<deployments, configs, configsMade>>

MakeConfig(a, conf) ==
    /\ Serve(a)
    /\ configsMade' \in Ids /\ configsMade' = configsMade + 1
    /\ configs' = [configs EXCEPT ![configsMade'] = [app |-> a, conf |-> conf]]
    /\ UNCHANGED <<deployments, services, servicesMade>>

IsFor(objects, i, a) == objects[i] # None => objects[i].app = a

DropService(a, i) ==
    /\ Serve(a) /\ IsFor(services, i, a)
    /\ services' = [services EXCEPT ![i] = None]
    /\ UNCHANGED <<deployments, configs, servicesMade, configsMade>>

DropConfig(a, i) ==
    /\ Serve(a) /\ IsFor(configs, i, a)
    /\ configs' = [configs EXCEPT ![i] = None]
    /\ UNCHANGED <<deployments, services, servicesMade, configsMade>>

(* The deployment d has nothing of ours, or all that it asks for.          *)
Plain(d) == d.ask = NoAsk /\ d.svc = 0 /\ d.cm = 0
Whole(a, d) ==
    /\ IF d.ask.port = Unset THEN d.svc = 0
       ELSE d.svc \in Ids /\ services[d.svc] = [app |-> a, port |-> d.ask.port]
    /\ d.cm \in Ids /\ configs[d.cm] = [app |-> a, conf |-> d.ask.conf]
    /\ d.side = [img |-> d.ask.img, env |-> d.ask.env, vol |-> d.cm]

(* It names nothing that was not given out, or that serves another.        *)
Own(a, d) ==
    /\ d.svc \in 0..servicesMade /\ (d.svc # 0 => IsFor(services, d.svc, a))
    /\ d.cm \in 0..configsMade /\ (d.cm # 0 => IsFor(configs, d.cm, a))

Change(a) ==
    LET old == deployments[a]
        new == deployments'[a]
    IN  /\ Serve(a)
        /\ deployments' = [deployments EXCEPT ![a] = new]
        /\ old = None /\ new # None => Plain(new) \/ Whole(a, new)
        /\ new # None => Own(a, new)
        /\ UNCHANGED <<services, configs, servicesMade, configsMade>>

Next ==
    \/ Finish
    \/ \E a \in Apps :
        \/ Ask(a) \/ Change(a)
        \/ \E port \in Ports : MakeService(a, port)
        \/ \E conf \in Confs : MakeConfig(a, conf)
        \/ \E i \in Ids : DropService(a, i) \/ DropConfig(a, i)

Spec == Init /\ [][Next]_vars
=============================================================================
