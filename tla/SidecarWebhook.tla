---------------------------- MODULE SidecarWebhook ----------------------------
(***************************************************************************)
(* The sidecar model of the operator: the mutating admission webhook       *)
(* (internal/controller/ibmapplicationgateway_webhook.go).                 *)
(*                                                                         *)
(* Users annotate a deployment.  While the API server holds a create,      *)
(* update or delete of it, the webhook creates or deletes a service and a  *)
(* generated config map, and answers with a patch that adds the gateway    *)
(* container, the volume of the config map, and two annotations with the   *)
(* generated names.  Only then does the API server store the deployment,   *)
(* or refuse to.  Requests are handled concurrently; every call to the API *)
(* server is a step.                                                       *)
(***************************************************************************)
EXTENDS KubeApi, FiniteSets

CONSTANTS
    Apps,         \* deployments, in namespaces the webhook does not ignore
    Slots,        \* requests the webhook server handles at a time
    Asks,         \* what users annotate, see AsksAssumption
    Unset,        \* an annotation that is not there
    MaxNames,     \* bound: generated names of each kind
    MaxRequests,  \* bound: requests
    MaxFaults,    \* bound: calls that fail for no cause of ours, crashes
    UserActions,  \* what the users of a run do
    Prompt        \* do users wait until the caches are up to date?

Ids == 1..MaxNames

App(a)     == <<"app", a>>
Service(i) == <<"service", i>>
Config(i)  == <<"config", i>>

AppKeys     == {App(a) : a \in Apps}
ServiceKeys == {Service(i) : i \in Ids}
ConfigKeys  == {Config(i) : i \in Ids}

(* The annotations users write: the image, the environment, the port of    *)
(* the service, and the configuration entries.  NoAsk has none of them.    *)
Aspects == {"img", "env", "conf", "port"}
NoAsk   == [img |-> Unset, env |-> Unset, conf |-> {}, port |-> Unset]

ASSUME AsksAssumption ==
    \A k \in Asks : DOMAIN k = Aspects /\ \A e \in k.conf : DOMAIN e = {"type", "order", "header"}
ASSUME BoundsAssumption ==
    MaxNames \in Nat /\ MaxRequests \in Nat /\ MaxFaults \in Nat /\ Prompt \in BOOLEAN
ASSUME KeysAssumption == Keys = AppKeys \cup ServiceKeys \cup ConfigKeys

Allowed   == Asks \cup {NoAsk}
Names     == 0..MaxNames
Sidecar   == [img : {k.img : k \in Allowed}, env : {k.env : k \in Allowed}, vol : Names]
NoSidecar == [img |-> Unset, env |-> Unset, vol |-> 0]
AskedPorts    == {k.port : k \in Asks} \ {Unset}
AskedConfs    == {k.conf : k \in Asks}
AppObject     == [rv : Nat, ask : Allowed, svc : Names, cm : Names, side : Sidecar]
ServiceObject == [rv : Nat, app : Apps, port : AskedPorts]
ConfigObject  == [rv : Nat, app : Apps, conf : AskedConfs]

(* Objects without their versions                                          *)
AppContent     == [ask : Allowed, svc : Names, cm : Names, side : Sidecar]
ServiceContent == [app : Apps, port : AskedPorts]
ConfigContent  == [app : Apps, conf : AskedConfs]

ASSUME AbsentAssumption ==
    /\ Absent \notin AppObject \cup ServiceObject \cup ConfigObject
    /\ Absent \notin AppContent \cup ServiceContent \cup ConfigContent

VARIABLES
    req,       \* req[r]: the request in slot r
    services,  \* names of services given out so far
    configs,   \* names of config maps given out so far
    sent,      \* requests sent so far
    faults     \* faults so far

vars == <<kubeVars, req, services, configs, sent, faults>>

Stages == {"admit", "addService", "dropService", "addConfig", "dropConfig", "answer", "refuse"}

(* app, op; old, new: the object stored and the object the user sends;     *)
(* fate: is the answer awaited?  changed: annotations that changed; svc,   *)
(* cm: names of the objects created for the request.                       *)
Idle == [pc |-> "idle"]
Request(a, op, old, new, fate) ==
    [pc |-> "admit", app |-> a, op |-> op, old |-> old, new |-> new, fate |-> fate,
     changed |-> {}, svc |-> 0, cm |-> 0]

Init ==
    /\ api = [k \in Keys |-> Absent]
    /\ version = [k \in Keys |-> 0]
    /\ cache = api
    /\ stream = [k \in Keys |-> <<>>]
    /\ req = [r \in Slots |-> Idle]
    /\ services = 0 /\ configs = 0 /\ sent = 0 /\ faults = 0

-----------------------------------------------------------------------------
(* Users send requests to the API server, which calls the webhook.         *)

Delivered == \A k \in Keys : stream[k] = <<>>

Send(action, r, q) ==
    /\ action \in UserActions /\ req[r] = Idle /\ sent < MaxRequests
    /\ Prompt => Delivered
    /\ req' = [req EXCEPT ![r] = q]
    /\ sent' = sent + 1
    /\ UNCHANGED <<kubeVars, services, configs, faults>>

NewApp(ask, svc, cm) == [rv |-> 0, ask |-> ask, svc |-> svc, cm |-> cm, side |-> NoSidecar]

Create(r, a, ask) ==
    /\ api[App(a)] = Absent
    /\ Send("create", r, Request(a, "create", Absent, NewApp(ask, 0, 0), "awaited"))

(* A manifest taken from the cluster, and created under another name: the  *)
(* annotations of the webhook come with it, those of the user may go.      *)
Copy(r, a, b, ask) ==
    /\ api[App(a)] = Absent /\ api[App(b)] # Absent
    /\ ask \in {NoAsk, api[App(b)].ask}
    /\ Send("copy", r, Request(a, "create", Absent,
                               NewApp(ask, api[App(b)].svc, api[App(b)].cm), "awaited"))

Update(r, a, ask) ==
    LET old == api[App(a)]
    IN  /\ old # Absent /\ ask # old.ask
        /\ Send("update", r, Request(a, "update", old, [old EXCEPT !.ask = ask], "awaited"))

(* All annotations of the gateway are taken away.                          *)
Strip(r, a) ==
    LET old == api[App(a)]
    IN  /\ old # Absent /\ old.ask # NoAsk
        /\ Send("strip", r, Request(a, "update", old,
                    [old EXCEPT !.ask = NoAsk, !.svc = 0, !.cm = 0], "awaited"))

(* Somebody updates the deployment for a reason of his own: it is scaled,  *)
(* or the deployment controller annotates it.                              *)
Touch(r, a) ==
    LET old == api[App(a)]
    IN  old # Absent /\ Send("touch", r, Request(a, "update", old, old, "awaited"))

(* A dry run: the API server asks the webhook, but stores nothing.         *)
DryRun(r, a, ask) ==
    /\ api[App(a)] = Absent
    /\ Send("dryRun", r, Request(a, "create", Absent, NewApp(ask, 0, 0), "dry"))

Delete(r, a) ==
    LET old == api[App(a)]
    IN  old # Absent /\ Send("delete", r, Request(a, "delete", old, old, "awaited"))

-----------------------------------------------------------------------------
(* The handler of a request: mutateCreate, mutateUpdate, mutateDelete.     *)

At(r, pc) == req[r].pc = pc
Fault     == faults < MaxFaults /\ faults' = faults + 1
Goto(r, pc) == req' = [req EXCEPT ![r].pc = pc]

(* mutationRequired: is there an annotation with the prefix of ours?       *)
HasKeys(o) == o.ask # NoAsk \/ o.svc # 0 \/ o.cm # 0
Changes(ask, new) == {x \in Aspects : ask[x] # new[x]}

(* validateAnnotations and getConfigElements                               *)
SoundEntry(e) ==
    /\ e.type \in {"configmap", "web", "oidc_registration"}
    /\ e.order # Unset
    /\ e.type = "web" => e.header \in {Unset, "literal", "secret"}
Valid(ask) ==
    /\ ask.img # Unset
    /\ ask.conf # {} /\ \A e \in ask.conf : SoundEntry(e)
    /\ Cardinality({e \in ask.conf : e.type = "oidc_registration"}) <= 1

(* createObjects and updateObjects go on to what they have to do next.     *)
AfterService(q) == IF "conf" \in q.changed THEN "addConfig" ELSE "answer"
AfterAdmitAnyPort(q) == IF "port" \in q.changed THEN "addService" ELSE AfterService(q)
AfterAdmit(q) ==
    IF "port" \notin q.changed THEN AfterService(q)
    ELSE IF q.new.ask.port # Unset THEN "addService" ELSE "dropService"

(* What changed is found by comparing with cur.                            *)
Judge(r, cur) ==
    LET q == [req[r] EXCEPT !.changed = Changes(cur, req[r].new.ask)]
    IN  req' = [req EXCEPT ![r] =
            IF ~(HasKeys(q.new) \/ (q.op = "update" /\ q.changed # {}))
            THEN [q EXCEPT !.pc = "answer", !.changed = {}]
            ELSE IF Valid(q.new.ask) THEN [q EXCEPT !.pc = AfterAdmit(q)]
            ELSE [q EXCEPT !.pc = "refuse"]]

AdmitCreate(r) ==
    /\ At(r, "admit") /\ req[r].op = "create"
    /\ Judge(r, NoAsk)
    /\ UNCHANGED <<kubeVars, services, configs, sent, faults>>

(* The current deployment is read from the cache.  When it is not there    *)
(* the request is let through as it is.                                    *)
AdmitUpdate(r) ==
    /\ At(r, "admit") /\ req[r].op = "update"
    /\ LET cur == cache[App(req[r].app)]
       IN  IF cur = Absent THEN Goto(r, "answer") ELSE Judge(r, cur.ask)
    /\ UNCHANGED <<kubeVars, services, configs, sent, faults>>

AdmitDelete(r) ==
    /\ At(r, "admit") /\ req[r].op = "delete"
    /\ Goto(r, IF HasKeys(req[r].old) THEN "dropService" ELSE "answer")
    /\ UNCHANGED <<kubeVars, services, configs, sent, faults>>

(* A node port belongs to one service in the cluster.                      *)
PortFree(port) == \A k \in ServiceKeys : api[k] # Absent => api[k].port # port

NoServiceNoMatter(r) == Goto(r, AfterService(req[r]))
NoService(r)         == Goto(r, "refuse")

(* addIAGService                                                           *)
AddService(r) ==
    /\ At(r, "addService")
    /\ LET q == req[r]
       IN  \/ /\ PortFree(q.new.ask.port) /\ services < MaxNames
              /\ services' = services + 1
              /\ Put(Service(services'), [rv |-> 0, app |-> q.app, port |-> q.new.ask.port])
              /\ req' = [req EXCEPT ![r].svc = services',
                                    ![r].pc = IF q.op = "update" THEN "dropService"
                                              ELSE AfterService(q)]
              /\ UNCHANGED faults
           \/ /\ \/ (~PortFree(q.new.ask.port) /\ UNCHANGED faults)
                 \/ (PortFree(q.new.ask.port) /\ Fault)
              /\ NoService(r)
              /\ UNCHANGED <<api, version, stream, services>>
    /\ UNCHANGED <<cache, configs, sent>>

(* deleteService and deleteConfigMap look in the cache for what they       *)
(* delete.  A failure is only logged.                                      *)
Seen(k) == k \in Keys /\ cache[k] # Absent /\ api[k] # Absent
Drop(k) ==
    \/ (Seen(k) /\ Remove(k) /\ UNCHANGED faults)
    \/ (Seen(k) /\ Fault /\ UNCHANGED <<api, version, stream>>)
    \/ (~Seen(k) /\ UNCHANGED <<api, version, stream, faults>>)

(* The new service of a create that failed, the old one of an update, or   *)
(* the one of a deployment that goes.                                      *)
DropService(r) ==
    /\ At(r, "dropService")
    /\ LET q == req[r]
       IN  \/ (q.op = "create" /\ Drop(Service(q.svc)) /\ Goto(r, "refuse"))
           \/ (q.op = "update" /\ Drop(Service(q.new.svc)) /\ Goto(r, AfterService(q)))
           \/ (q.op = "delete" /\ Drop(Service(q.old.svc)) /\ Goto(r, "dropConfig"))
    /\ UNCHANGED <<cache, services, configs, sent>>

(* createIAGConfig merges the sources, which may fail, and creates the     *)
(* generated config map.                                                   *)
AddConfig(r) ==
    /\ At(r, "addConfig")
    /\ LET q == req[r]
       IN  \/ /\ configs < MaxNames
              /\ configs' = configs + 1
              /\ Put(Config(configs'), [rv |-> 0, app |-> q.app, conf |-> q.new.ask.conf])
              /\ req' = [req EXCEPT ![r].cm = configs',
                                    ![r].pc = IF q.op = "update" THEN "dropConfig" ELSE "answer"]
              /\ UNCHANGED faults
           \/ /\ Fault
              /\ Goto(r, IF q.op = "create" THEN "dropService" ELSE "refuse")
              /\ UNCHANGED <<api, version, stream, configs>>
    /\ UNCHANGED <<cache, services, sent>>

DropNewConfig(r) ==
    /\ At(r, "dropConfig") /\ Drop(Config(req[r].cm)) /\ Goto(r, "answer")
    /\ UNCHANGED <<cache, services, configs, sent>>
DropLatestConfig(r) ==
    /\ At(r, "dropConfig") /\ Drop(Config(configs)) /\ Goto(r, "answer")
    /\ UNCHANGED <<cache, services, configs, sent>>
DropConfig(r) ==
    /\ At(r, "dropConfig")
    /\ LET q == req[r]
       IN  Drop(Config(IF q.op = "update" THEN q.new.cm ELSE q.old.cm))
    /\ Goto(r, "answer")
    /\ UNCHANGED <<cache, services, configs, sent>>

-----------------------------------------------------------------------------
(* The answer.                                                             *)

(* addIAGContainer and addAnnotations: the patch.  The container is        *)
(* replaced when the image or the environment changed; its volume only     *)
(* then, and only if the configuration changed too.                        *)
PatchedKeepsNames(q) ==
    [q.new EXCEPT !.svc  = IF q.svc # 0 THEN q.svc ELSE @,
                  !.cm   = IF q.cm # 0 THEN q.cm ELSE @,
                  !.side = IF {"img", "env"} \cap q.changed = {} THEN @
                           ELSE [img |-> q.new.ask.img, env |-> q.new.ask.env,
                                 vol |-> IF q.cm # 0 THEN q.cm ELSE @.vol]]
Patched(q) ==
    LET made(x) == q.op = "create" \/ x \in q.changed
        side == IF {"img", "env"} \cap q.changed = {} THEN q.new.side
                ELSE [img |-> q.new.ask.img, env |-> q.new.ask.env,
                      vol |-> IF "conf" \in q.changed THEN q.cm ELSE q.new.side.vol]
    IN  [q.new EXCEPT !.svc  = IF made("port") THEN q.svc ELSE @,
                      !.cm   = IF made("conf") THEN q.cm ELSE @,
                      !.side = side]

(* A container whose volume is not there is no valid deployment.           *)
WellFormed(o) == o.side.img # Unset => o.side.vol # 0

Unmoved(q) == IF q.op = "create" THEN api[App(q.app)] = Absent ELSE Fresh(App(q.app), q.old)

Acceptable(q) == q.fate = "awaited" /\ Unmoved(q) /\ (q.op # "delete" => WellFormed(Patched(q)))

(* The API server stores the deployment as patched, or takes it away.      *)
Store(r) ==
    /\ At(r, "answer") /\ Acceptable(req[r])
    /\ LET q == req[r]
       IN  IF q.op = "delete" THEN Remove(App(q.app)) ELSE Put(App(q.app), Patched(q))
    /\ req' = [req EXCEPT ![r] = Idle]
    /\ UNCHANGED <<cache, services, configs, sent, faults>>

(* It does not: the answer came too late, the deployment was changed       *)
(* meanwhile, or something else, like another webhook or a quota, is       *)
(* against it.  Or the webhook refused.                                    *)
Dismiss(r) ==
    /\ \/ (At(r, "refuse") /\ UNCHANGED faults)
       \/ (At(r, "answer") /\ ~Acceptable(req[r]) /\ UNCHANGED faults)
       \/ (At(r, "answer") /\ Acceptable(req[r]) /\ Fault)
    /\ req' = [req EXCEPT ![r] = Idle]
    /\ UNCHANGED <<kubeVars, services, configs, sent>>

(* The API server no longer waits, the handler goes on.                    *)
TimeOut(r) ==
    /\ req[r] # Idle /\ req[r].fate = "awaited" /\ Fault
    /\ req' = [req EXCEPT ![r].fate = "late"]
    /\ UNCHANGED <<kubeVars, services, configs, sent>>

(* The operator dies, and its successor knows of no request.               *)
Restart ==
    /\ "restart" \in UserActions /\ Fault /\ Relist
    /\ req' = [r \in Slots |-> Idle]
    /\ UNCHANGED <<services, configs, sent>>

Deliver(k) == Advance(k) /\ UNCHANGED <<req, services, configs, sent, faults>>

Users ==
    \E r \in Slots, a \in Apps :
        \/ \E k \in Asks : Create(r, a, k) \/ Update(r, a, k) \/ DryRun(r, a, k)
        \/ \E b \in Apps, k \in Allowed : Copy(r, a, b, k)
        \/ Create(r, a, NoAsk)
        \/ Strip(r, a) \/ Touch(r, a) \/ Delete(r, a)

Handle(r) ==
    \/ AdmitCreate(r) \/ AdmitUpdate(r) \/ AdmitDelete(r)
    \/ AddService(r) \/ DropService(r) \/ AddConfig(r) \/ DropConfig(r)

Next ==
    \/ Users
    \/ \E r \in Slots : Handle(r) \/ Store(r) \/ Dismiss(r) \/ TimeOut(r)
    \/ Restart
    \/ \E k \in Keys : Deliver(k)

Spec == Init /\ [][Next]_vars

-----------------------------------------------------------------------------
(* What is true of it.                                                     *)

Optional(S) == S \cup {Absent}
ObjectsOf(k) == IF k \in AppKeys THEN AppObject
                ELSE IF k \in ServiceKeys THEN ServiceObject ELSE ConfigObject

Requests ==
    [pc : Stages, app : Apps, op : {"create", "update", "delete"}, old : Optional(AppObject),
     new : AppObject, fate : {"awaited", "dry", "late"}, changed : SUBSET Aspects,
     svc : Names, cm : Names]

(* The variables have the types of the Go values they stand for.           *)
TypeOK ==
    /\ DOMAIN api = Keys /\ \A k \in Keys : api[k] \in Optional(ObjectsOf(k))
    /\ version \in [Keys -> Nat]
    /\ DOMAIN cache = Keys /\ \A k \in Keys : cache[k] \in Optional(ObjectsOf(k))
    /\ DOMAIN stream = Keys /\ \A k \in Keys : stream[k] \in Seq(Optional(ObjectsOf(k)))
    /\ DOMAIN req = Slots /\ \A r \in Slots : req[r] = Idle \/ req[r] \in Requests
    /\ services \in Names /\ configs \in Names
    /\ sent \in 0..MaxRequests /\ faults \in 0..MaxFaults

(* The generated names in the annotations of a deployment are of objects   *)
(* made for it: not even a deployment made from a copy of another one      *)
(* comes to name, and on its deletion to take along, what serves another.  *)
NamesOwn ==
    \A a \in Apps :
        LET o == api[App(a)]
        IN  o # Absent =>
              /\ o.svc # 0 /\ api[Service(o.svc)] # Absent => api[Service(o.svc)].app = a
              /\ o.cm # 0 /\ api[Config(o.cm)] # Absent => api[Config(o.cm)].app = a

(* A deployment that asks for a gateway is never stored half done: when    *)
(* createObjects lets it be created, its config map holds what it asked    *)
(* for, its container mounts it, and its service is there.                 *)
Complete(a) ==
    LET o == api[App(a)]
    IN  /\ o.cm # 0 /\ o.side.vol = o.cm
        /\ api[Config(o.cm)] # Absent /\ api[Config(o.cm)].conf = o.ask.conf
        /\ o.side.img = o.ask.img /\ o.side.env = o.ask.env
        /\ IF o.ask.port = Unset THEN o.svc = 0
           ELSE /\ o.svc # 0 /\ api[Service(o.svc)] # Absent
                /\ api[Service(o.svc)].port = o.ask.port
CreatedComplete ==
    [][\A a \in Apps :
          api[App(a)] = Absent /\ api'[App(a)] # Absent /\ HasKeys(api'[App(a)])
              => Complete(a)']_vars

Quiet(a) == \A r \in Slots : req[r] = Idle \/ req[r].app # a

(* What a reader of the cluster sees of it, versions aside.                *)
SeenApp(a) ==
    LET o == api[App(a)]
    IN  IF o = Absent THEN Absent
        ELSE [ask |-> o.ask, svc |-> o.svc, cm |-> o.cm, side |-> o.side]
SeenService(i) ==
    LET o == api[Service(i)]
    IN  IF o = Absent THEN Absent ELSE [app |-> o.app, port |-> o.port]
SeenConfig(i) ==
    LET o == api[Config(i)]
    IN  IF o = Absent THEN Absent ELSE [app |-> o.app, conf |-> o.conf]

Promised == INSTANCE SidecarService WITH
    Ports        <- AskedPorts,
    Confs        <- AskedConfs,
    None         <- Absent,
    deployments  <- [a \in Apps |-> SeenApp(a)],
    services     <- [i \in Ids |-> SeenService(i)],
    configs      <- [i \in Ids |-> SeenConfig(i)],
    servicesMade <- services,
    configsMade  <- configs,
    busy         <- {a \in Apps : ~Quiet(a)}

(* The webhook and the API server together keep the promise of             *)
(* SidecarService, whatever requests are handled at once, fail, come too   *)
(* late or die with the operator: what is made for a deployment is its     *)
(* own, stays as it was made, and is taken away by a request for the       *)
(* deployment and none else.                                               *)
ImplementsSidecarService == Promised!Spec

Quiescent == Delivered /\ \A a \in Apps : Quiet(a)

(* Users change a deployment by one request at a time.  (Requests for      *)
(* different deployments are handled at once.)                             *)
OneAtATime ==
    \A r, t \in Slots :
        req[r] # Idle /\ req[t] # Idle /\ req[r].app = req[t].app => r = t

(* Between requests a deployment has the service its annotations ask for,  *)
(* on that port, and there is no service beside: updateIAGService made the *)
(* new one before it removed the old one.  ("The service will be updated   *)
(* if the port has changed.")                                              *)
ServiceAsAsked ==
    Quiescent =>
        /\ \A a \in Apps :
              LET o == api[App(a)]
              IN  o # Absent =>
                    IF o.ask.port = Unset THEN o.svc = 0
                    ELSE /\ o.svc # 0 /\ api[Service(o.svc)] # Absent
                         /\ api[Service(o.svc)].port = o.ask.port
        /\ \A i \in Ids : api[Service(i)] # Absent =>
              \E a \in Apps : api[App(a)] # Absent /\ api[App(a)].svc = i

(* Between requests the config map a deployment is annotated with is the   *)
(* merge of the sources it asks for, and there is no other.                *)
ConfigAsAsked ==
    Quiescent =>
        /\ \A a \in Apps :
              LET o == api[App(a)]
              IN  o # Absent =>
                    IF o.ask.conf = {} THEN o.cm = 0
                    ELSE /\ o.cm # 0 /\ api[Config(o.cm)] # Absent
                         /\ api[Config(o.cm)].conf = o.ask.conf
        /\ \A i \in Ids : api[Config(i)] # Absent =>
              \E a \in Apps : api[App(a)] # Absent /\ api[App(a)].cm = i

(* The sidecar runs on the merged configuration.  ("The configuration      *)
(* sources are merged into a master configmap that is made available to    *)
(* the IBM Application Gateway sidecar container.")                        *)
SidecarMountsItsConfig ==
    \A a \in Apps :
        LET o == api[App(a)]
        IN  Quiet(a) /\ o # Absent /\ o.side.img # Unset => api[Config(o.side.vol)] # Absent

(* The webhook does not stop an update that leaves a deployment without    *)
(* any of its annotations.  ("If not, the operator will make no changes    *)
(* and return.")                                                           *)
RemovalIsLetThrough ==
    \A r \in Slots : At(r, "refuse") /\ req[r].op = "update" => HasKeys(req[r].new)

(* sideEffects=None: a dry run changes nothing in the cluster.             *)
DryRunChangesNothing ==
    [][\A r \in Slots :
          req[r] # Idle /\ req'[r] # req[r] => (req[r].fate = "dry" => UNCHANGED api)]_vars

(* With a deployment its service and its config map go.  ("Delete the      *)
(* service if it exists.  Delete the master configmap.")                   *)
DeletedAppLeavesNothing ==
    Quiescent => \A a \in Apps :
        api[App(a)] = Absent =>
            /\ \A i \in Ids : api[Service(i)] # Absent => api[Service(i)].app # a
            /\ \A i \in Ids : api[Config(i)] # Absent => api[Config(i)].app # a

(* An update the webhook refuses has left the service of the deployment    *)
(* alone.  ("Run some validation on the annotations to try and ensure that *)
(* no simple failures will occur which might leave the environment in an   *)
(* intermediate state.")                                                   *)
RefusedUpdateChangesNothing ==
    \A r \in Slots :
        At(r, "refuse") /\ req[r].op = "update" =>
            req[r].svc = 0 /\ (req[r].old.svc # 0 => api[Service(req[r].old.svc)] # Absent)
=============================================================================
