-------------------------- MODULE GatewayController --------------------------
(***************************************************************************)
(* The custom resource model of the operator: the reconciler of the        *)
(* IBMApplicationGateway objects (internal/controller/                     *)
(* ibmapplicationgateway_controller.go), its work queue and its one        *)
(* worker, between the users, the API server and the caches of KubeApi.    *)
(*                                                                         *)
(* A gateway g owns a deployment of the same name and one generated        *)
(* ("master") config map, which the deployment mounts.  The reconciler     *)
(* merges the configuration sources of g into the generated map, and       *)
(* labels the pods with its resource version so that they are replaced     *)
(* when it changes.  Every write to the API server is a step of its own,   *)
(* together with the cache reads that lead to it.                          *)
(***************************************************************************)
EXTENDS KubeApi

CONSTANTS
    Gateways,     \* names of IBMApplicationGateway objects
    SourceMaps,   \* names of the config maps the users write
    Specs,        \* what a user may put in the spec of a gateway
    Panicking,    \* literal parts of specs that getMergedConfig panics on
    Data,         \* contents of a source map
    Leader,       \* r.Leader, the config map of the leader election
    MaxMaps,      \* bound: generated maps ever created
    UserActions,  \* what the users of a run do
    MaxUser,      \* bound: how often they do it
    MaxFaults,    \* bound: calls of the operator that fail for no cause of ours
    Patient,      \* do users wait until the operator has nothing left to do?
    Prompt        \* are the watches faster than the work queue?

Names  == Gateways \cup SourceMaps
MapIds == 1..MaxMaps

Cr(g)  == <<"gateway", g>>
Dep(g) == <<"deployment", g>>
Src(m) == <<"source", m>>
Map(i) == <<"generated", i>>

CrKeys  == {Cr(g)  : g \in Gateways}
DepKeys == {Dep(g) : g \in Gateways}
SrcKeys == {Src(m) : m \in SourceMaps}
MapKeys == {Map(i) : i \in MapIds}

(* replicas; opts: language, service account and image; lit: the entries   *)
(* that name no config map; refs: the config maps the others name.         *)
ASSUME SpecsAssumption ==
    \A s \in Specs : /\ DOMAIN s = {"replicas", "opts", "lit", "refs"}
                     /\ s.refs \subseteq SourceMaps
ASSUME BoundsAssumption == MaxMaps \in Nat /\ MaxUser \in Nat /\ MaxFaults \in Nat
ASSUME FlagsAssumption  == Patient \in BOOLEAN /\ Prompt \in BOOLEAN
ASSUME KeysAssumption   == Keys = CrKeys \cup DepKeys \cup SrcKeys \cup MapKeys

Merged    == [lit : {s.lit : s \in Specs}, src : UNION {[R -> Data] : R \in SUBSET SourceMaps}]
MapRef    == [map : MapIds, rv : Nat]
Owner     == [gw : Gateways, uid : Nat]
Gateway   == [rv : Nat, uid : Nat \ {0}, gen : Nat, spec : Specs, failed : BOOLEAN]
Deployment ==
    [rv : Nat, owner : Owner, replicas : {s.replicas : s \in Specs},
     opts : {s.opts : s \in Specs}, map : MapIds, ver : MapRef, annotated : BOOLEAN]
SourceMap    == [rv : Nat, data : Data]
GeneratedMap == [rv : Nat, owner : Owner, data : Merged]

ASSUME AbsentAssumption ==
    Absent \notin Gateway \cup Deployment \cup SourceMap \cup GeneratedMap

VARIABLES
    queue,    \* the work queue: names of objects to reconcile
    delayed,  \* names the rate limiter holds back
    pc,       \* what the worker does next
    job,      \* the worker's local variables
    made,     \* generated names given out so far
    applied,  \* applied[g]: newest spec of g something was written from (history)
    used,     \* user actions so far
    faults    \* faults so far

workVars == <<queue, delayed, pc, job>>
vars     == <<kubeVars, workVars, made, applied, used, faults>>

NoRef == [map |-> 0, rv |-> 0]
NoJob == [req |-> Absent, inst |-> Absent, dply |-> Absent, data |-> Absent,
          cm |-> NoRef, todo |-> {}]

(* Objects are collected once the gateway that owns them is gone.          *)
Live(owner) == LET cr == api[Cr(owner.gw)] IN cr # Absent /\ cr.uid = owner.uid

Init ==
    /\ api = [k \in Keys |-> Absent]
    /\ version = [k \in Keys |-> 0]
    /\ cache = api
    /\ stream = [k \in Keys |-> <<>>]
    /\ queue = {} /\ delayed = {} /\ pc = "idle" /\ job = NoJob
    /\ made = 0 /\ applied = [g \in Gateways |-> 0] /\ used = 0 /\ faults = 0

-----------------------------------------------------------------------------
(* The worker.                                                             *)

Done(n)    == pc' = "idle" /\ job' = NoJob /\ UNCHANGED <<queue, delayed>>
Requeue(n) == pc' = "idle" /\ job' = NoJob /\ delayed' = delayed \cup {n} /\ UNCHANGED queue
Goto(l)    == pc' = l /\ UNCHANGED <<queue, delayed>>
Fault      == faults < MaxFaults /\ faults' = faults + 1

(* getMergedConfig: what the merge makes of the sources.  Which text it    *)
(* makes is left out; different inputs make different texts.               *)
Merge(spec, objects) ==
    [lit |-> spec.lit, src |-> [m \in spec.refs |-> objects[Src(m)].data]]
Mergeable(spec, objects) == \A m \in spec.refs : objects[Src(m)] # Absent

Delivered == \A k \in Keys : stream[k] = <<>>

Start(n) ==
    /\ pc = "idle" /\ n \in queue /\ queue' = queue \ {n}
    /\ Prompt => Delivered

(* Reconcile looks the gateway up, in the cache.                           *)
InstanceLiveFirst(n) == IF cache[Dep(n)] = Absent THEN api[Cr(n)] ELSE cache[Cr(n)]
Instance(n)          == cache[Cr(n)]

IsGateway(n)   == n \in Gateways /\ Instance(n) # Absent
IsConfigMap(n) == n \in SourceMaps /\ cache[Src(n)] # Absent

(* Reconcile reads the gateway and its deployment and merges the sources.  *)
(* A missing config map, or a fault of a web or OIDC source, ends it in    *)
(* manageError.                                                            *)
ReconcileGateway(n) ==
    /\ Start(n) /\ IsGateway(n)
    /\ LET inst == Instance(n)
           ok   == Mergeable(inst.spec, cache)
           base == [NoJob EXCEPT !.req = n, !.inst = inst, !.dply = cache[Dep(n)]]
       IN  \/ /\ ok /\ inst.spec.lit \notin Panicking
              /\ pc' = "configMap"
              /\ job' = [base EXCEPT !.data = Merge(inst.spec, cache)]
              /\ UNCHANGED faults
           \/ /\ \/ (~ok /\ UNCHANGED faults)
                 \/ (ok /\ Fault)
              /\ pc' = "error"
              /\ job' = base
    /\ UNCHANGED <<kubeVars, delayed, made, applied, used>>

(* getMergedConfig panics on the address of a web source that cannot be    *)
(* parsed, and on an OIDC secret without data: controller-runtime recovers *)
(* and tries the request again, and manageError is not reached.            *)
PanicInMerge(n) ==
    /\ Start(n) /\ IsGateway(n) /\ Instance(n).spec.lit \in Panicking
    /\ delayed' = delayed \cup {n}
    /\ UNCHANGED <<kubeVars, pc, job, made, applied, used, faults>>

(* Reconcile finds no gateway of that name but a config map:               *)
(* handleConfigMapChange lists the gateways that name it.                  *)
ReconcileConfigMap(n) ==
    /\ Start(n) /\ ~IsGateway(n) /\ IsConfigMap(n)
    /\ LET users == {g \in Gateways : cache[Cr(g)] # Absent /\ n \in cache[Cr(g)].spec.refs}
           todo  == IF n = Leader THEN {} ELSE users
       IN  IF todo = {}
           THEN pc' = "idle" /\ job' = NoJob
           ELSE pc' = "touch" /\ job' = [NoJob EXCEPT !.req = n, !.todo = todo]
    /\ UNCHANGED <<kubeVars, delayed, made, applied, used, faults>>

(* The object is gone: nothing to do.                                      *)
ReconcileNothing(n) ==
    /\ Start(n) /\ ~IsGateway(n) /\ ~IsConfigMap(n)
    /\ UNCHANGED <<kubeVars, delayed, pc, job, made, applied, used, faults>>

(* Writing the status makes the field present: a gateway is created        *)
(* without it, and the operator only ever writes FALSE.                    *)
PutStatus(k) ==
    IF api[k].failed THEN Renew ELSE Put(k, [api[k] EXCEPT !.failed = TRUE])

TouchFirst(g) == Done(job.req)
TouchNext(g) ==
    LET rest == job.todo \ {g}
    IN  IF rest = {} THEN Done(job.req)
        ELSE Goto("touch") /\ job' = [job EXCEPT !.todo = rest]

(* handleConfigMapChange writes the status of a gateway as it read it, to  *)
(* have the gateway reconciled.  When the read or the write fails the      *)
(* whole config map is tried again later.                                  *)
Touch(g) ==
    /\ pc = "touch" /\ g \in job.todo
    /\ LET inst == cache[Cr(g)]
           ok   == inst # Absent /\ Fresh(Cr(g), inst)
       IN  \/ /\ ok /\ PutStatus(Cr(g))
              /\ TouchNext(g) /\ UNCHANGED faults
           \/ /\ \/ (~ok /\ UNCHANGED faults)
                 \/ (ok /\ Fault)
              /\ Requeue(job.req)
              /\ UNCHANGED <<api, version, stream>>
    /\ UNCHANGED <<cache, made, applied, used>>

(* getCurrentConfigMap: the map the deployment is labelled with.           *)
FoundMap == job.dply # Absent /\ cache[Map(job.dply.map)] # Absent
Found    == cache[Map(job.dply.map)]

Wrote(g) == applied' = [applied EXCEPT ![g] = job.inst.gen]

(* newConfigMap and newDeploymentForCR; the gateway becomes their owner.   *)
JobOwner == [gw |-> job.req, uid |-> job.inst.uid]

NewMapUnowned == [rv |-> 0, data |-> job.data, owner |-> [gw |-> job.req, uid |-> 0]]
NewMap == [rv |-> 0, data |-> job.data, owner |-> JobOwner]

NewDeploymentNameless ==
    [rv |-> 0, owner |-> JobOwner,
     replicas |-> job.inst.spec.replicas, opts |-> job.inst.spec.opts,
     map |-> NoRef.map, ver |-> job.cm, annotated |-> FALSE]
NewDeployment ==
    [rv |-> 0, owner |-> JobOwner,
     replicas |-> job.inst.spec.replicas, opts |-> job.inst.spec.opts,
     map |-> job.cm.map, ver |-> job.cm, annotated |-> FALSE]

(* createNewConfigMap: no map yet, or it is gone.  A new one is created    *)
(* under a name the API server generates.                                  *)
CreateMap ==
    /\ pc = "configMap" /\ ~FoundMap /\ made < MaxMaps
    /\ made' = made + 1
    /\ Put(Map(made'), NewMap)
    /\ job' = [job EXCEPT !.cm = [map |-> made', rv |-> version'[Map(made')]]]
    /\ Goto("deployment") /\ Wrote(job.req)
    /\ UNCHANGED <<cache, used, faults>>

(* createNewConfigMap: the merged configuration is not the one in the map. *)
UpdateMap ==
    /\ pc = "configMap" /\ FoundMap /\ Found.data # job.data
    /\ LET k == Map(job.dply.map)
       IN  /\ Fresh(k, Found)
           /\ Put(k, [Found EXCEPT !.data = job.data])
           /\ job' = [job EXCEPT !.cm = [map |-> job.dply.map, rv |-> version'[k]]]
    /\ Goto("deployment") /\ Wrote(job.req)
    /\ UNCHANGED <<cache, made, used, faults>>

(* createNewConfigMap: the map is as it should be.                         *)
KeepMapOfGateway ==
    /\ pc = "configMap" /\ FoundMap /\ Found.data = job.data
    /\ job' = [job EXCEPT !.cm = [map |-> job.dply.map, rv |-> job.inst.rv]]
    /\ Goto("deployment")
    /\ UNCHANGED <<kubeVars, made, applied, used, faults>>
KeepMap ==
    /\ pc = "configMap" /\ FoundMap /\ Found.data = job.data
    /\ job' = [job EXCEPT !.cm = [map |-> job.dply.map, rv |-> Found.rv]]
    /\ Goto("deployment")
    /\ UNCHANGED <<kubeVars, made, applied, used, faults>>

(* createNewConfigMap: the API server refuses the write, because the map   *)
(* was read too long ago or for a cause of its own.  MaxMaps is the quota  *)
(* of generated maps.                                                      *)
MapRefused ==
    /\ pc = "configMap" /\ ~(FoundMap /\ Found.data = job.data)
    /\ \/ (FoundMap /\ ~Fresh(Map(job.dply.map), Found) /\ UNCHANGED faults)
       \/ (~FoundMap /\ made = MaxMaps /\ UNCHANGED faults)
       \/ Fault
    /\ Goto("error") /\ UNCHANGED <<kubeVars, job, made, applied, used>>

(* createNewDeployment                                                     *)
CreateOrReplaceDeployment ==
    /\ pc = "deployment" /\ job.dply = Absent
    /\ Put(Dep(job.req), NewDeployment)
    /\ Wrote(job.req)
    /\ Done(job.req)
    /\ UNCHANGED <<cache, made, used, faults>>
CreateDeployment ==
    /\ pc = "deployment" /\ job.dply = Absent
    /\ api[Dep(job.req)] = Absent /\ Put(Dep(job.req), NewDeployment)
    /\ Wrote(job.req)
    /\ Done(job.req)
    /\ UNCHANGED <<cache, made, used, faults>>

SameReplicasAlways == TRUE
SameReplicas == job.dply.replicas = job.inst.spec.replicas
SameTemplate == job.dply.ver = job.cm /\ job.dply.opts = job.inst.spec.opts

(* Reconcile: the replica count is put right, and nothing else.            *)
ScaleDeployment ==
    /\ pc = "deployment" /\ job.dply # Absent /\ ~SameReplicas
    /\ Fresh(Dep(job.req), job.dply)
    /\ Put(Dep(job.req), [job.dply EXCEPT !.replicas = job.inst.spec.replicas])
    /\ Wrote(job.req) /\ Done(job.req)
    /\ UNCHANGED <<cache, made, used, faults>>

(* Reconcile: the pods are relabelled with the version of the map, and get *)
(* the language, service account and image; the map they mount stays.      *)
UpdateDeployment ==
    /\ pc = "deployment" /\ job.dply # Absent /\ SameReplicas /\ ~SameTemplate
    /\ job.dply.annotated /\ Fresh(Dep(job.req), job.dply)
    /\ Put(Dep(job.req), [job.dply EXCEPT !.ver = job.cm, !.opts = job.inst.spec.opts])
    /\ Wrote(job.req) /\ Done(job.req)
    /\ UNCHANGED <<cache, made, used, faults>>

(* Reconcile: the change cause is put in the annotations of a deployment   *)
(* that has none yet.  The assignment panics, controller-runtime recovers  *)
(* and tries the request again.                                            *)
PanicNoAnnotations ==
    /\ pc = "deployment" /\ job.dply # Absent /\ SameReplicas /\ ~SameTemplate
    /\ ~job.dply.annotated
    /\ Requeue(job.req)
    /\ UNCHANGED <<kubeVars, made, applied, used, faults>>

(* Reconcile: all is well, and looked at again later.                      *)
KeepDeployment ==
    /\ pc = "deployment" /\ job.dply # Absent /\ SameReplicas /\ SameTemplate
    /\ Requeue(job.req)
    /\ UNCHANGED <<kubeVars, made, applied, used, faults>>

(* The API server refuses the write of the deployment.                     *)
DeploymentRefused ==
    /\ pc = "deployment"
    /\ (job.dply # Absent /\ SameReplicas) => (~SameTemplate /\ job.dply.annotated)
    /\ \/ /\ IF job.dply = Absent THEN api[Dep(job.req)] # Absent
                                   ELSE ~Fresh(Dep(job.req), job.dply)
          /\ UNCHANGED faults
       \/ Fault
    /\ Goto("error") /\ UNCHANGED <<kubeVars, job, made, applied, used>>

(* manageError records the failure in the status.  A status that cannot be *)
(* written is only logged, and the request is never tried again.           *)
ManageError ==
    /\ pc = "error"
    /\ LET k  == Cr(job.req)
           ok == Fresh(k, job.inst)
       IN  \/ (ok /\ PutStatus(k) /\ UNCHANGED faults)
           \/ (~ok /\ UNCHANGED <<api, version, stream, faults>>)
           \/ (ok /\ Fault /\ UNCHANGED <<api, version, stream>>)
    /\ Done(job.req)
    /\ UNCHANGED <<cache, made, applied, used>>

-----------------------------------------------------------------------------
(* The manager: the watches set up by SetupWithManager, the rate limiter   *)
(* of the work queue, and a new process after a crash.                     *)

(* A gateway or a config map that changes is queued under its name.  The   *)
(* deployments are not watched: the cache learns of them, the queue does   *)
(* not.  Generated maps are queued too, but no gateway names one, so that  *)
(* handleConfigMapChange has nothing to do: that is left out.              *)
Deliver(k) ==
    /\ Advance(k)
    /\ queue' = queue \cup {g \in Gateways : k = Cr(g)} \cup {m \in SourceMaps : k = Src(m)}
    /\ UNCHANGED <<delayed, pc, job, made, applied, used, faults>>

Expire(n) ==
    /\ n \in delayed
    /\ queue' = queue \cup {n}
    /\ delayed' = delayed \ {n}
    /\ UNCHANGED <<kubeVars, pc, job, made, applied, used, faults>>

(* The API server's own workers: the deployment controller annotates a     *)
(* deployment with its revision, the garbage collector removes what has an *)
(* owner (uids start at 1) and outlives it.                                *)
Annotate(g) ==
    /\ api[Dep(g)] # Absent /\ ~api[Dep(g)].annotated
    /\ Put(Dep(g), [api[Dep(g)] EXCEPT !.annotated = TRUE])
    /\ UNCHANGED <<cache, workVars, made, applied, used, faults>>

Orphan(k) ==
    /\ k \in DepKeys \cup MapKeys /\ api[k] # Absent
    /\ api[k].owner.uid # 0 /\ ~Live(api[k].owner)

Collect(k) ==
    /\ Orphan(k) /\ Remove(k)
    /\ UNCHANGED <<cache, workVars, made, applied, used, faults>>

-----------------------------------------------------------------------------
(* The users.                                                              *)

(* What a gateway asks for is what runs: the replica count, the template,  *)
(* and pods started on the merged configuration.                           *)
Current(g) ==
    LET cr == api[Cr(g)]
        d  == api[Dep(g)]
    IN  /\ d # Absent /\ d.replicas = cr.spec.replicas /\ d.opts = cr.spec.opts
        /\ LET m == api[Map(d.map)]
           IN  /\ m # Absent /\ m.data = Merge(cr.spec, api)
               /\ d.ver = [map |-> d.map, rv |-> m.rv]
Wanted(g) == api[Cr(g)] # Absent /\ Mergeable(api[Cr(g)].spec, api)

(* Nothing is left to do but for what the rate limiter holds back, which   *)
(* for gateways is never nothing (see KeepDeployment).                     *)
Settled ==
    /\ pc = "idle" /\ queue = {} /\ delayed \cap SourceMaps = {} /\ Delivered
    /\ \A k \in Keys : ~Orphan(k)

Happens(a) ==
    /\ a \in UserActions /\ used < MaxUser /\ used' = used + 1
    /\ UNCHANGED <<made, applied, faults>>
May(a) == Happens(a) /\ (Patient => Settled)

CreateGateway(g, s) ==
    /\ May("create") /\ api[Cr(g)] = Absent
    /\ LET rv == version[Cr(g)] + 1
       IN  Put(Cr(g), [rv |-> 0, uid |-> rv, gen |-> rv, spec |-> s, failed |-> FALSE])
    /\ UNCHANGED <<cache, workVars>>

(* Reconcile stops once it has put the replica count right, and is not     *)
(* called again: an edit that changes the count must change nothing else,  *)
(* and find all else in order, for the rest not to be forgotten.           *)
OneAspect(g, s) ==
    LET spec == api[Cr(g)].spec
        d    == api[Dep(g)]
    IN  d # Absent /\ d.replicas # s.replicas =>
            s = [spec EXCEPT !.replicas = s.replicas] /\ Wanted(g) /\ Current(g)

EditGateway(g, s) ==
    /\ api[Cr(g)] # Absent /\ api[Cr(g)].spec # s
    /\ May(IF OneAspect(g, s) THEN "edit" ELSE "mixedEdit")
    /\ Put(Cr(g), [api[Cr(g)] EXCEPT !.spec = s, !.gen = version[Cr(g)] + 1])
    /\ UNCHANGED <<cache, workVars>>

DeleteGateway(g) ==
    /\ May("delete") /\ api[Cr(g)] # Absent /\ Remove(Cr(g))
    /\ UNCHANGED <<cache, workVars>>

(* A gateway takes up a change of its source when it is about to be        *)
(* reconciled anyway, or when the touch of handleConfigMapChange is an     *)
(* event (see PutStatus); and all of it when its replica count is right.   *)
Takes(g) ==
    /\ api[Cr(g)].failed => g \in delayed
    /\ api[Dep(g)] # Absent => api[Dep(g)].replicas = api[Cr(g)].spec.replicas
Naming(m) == {g \in Gateways : api[Cr(g)] # Absent /\ m \in api[Cr(g)].spec.refs}

WriteSource(m, d) ==
    /\ May(IF \A g \in Naming(m) : Takes(g) THEN "writeSource" ELSE "writeUnheard")
    /\ api[Src(m)] # Absent => api[Src(m)].data # d
    /\ Put(Src(m), [rv |-> 0, data |-> d])
    /\ UNCHANGED <<cache, workVars>>

DeleteSource(m) ==
    /\ May("deleteSource") /\ api[Src(m)] # Absent /\ Remove(Src(m))
    /\ UNCHANGED <<cache, workVars>>

DeleteMap(i) ==
    /\ May("deleteMap") /\ api[Map(i)] # Absent /\ Remove(Map(i))
    /\ UNCHANGED <<cache, workVars>>

DeleteDeployment(g) ==
    /\ May("deleteDeployment") /\ api[Dep(g)] # Absent /\ Remove(Dep(g))
    /\ UNCHANGED <<cache, workVars>>

(* The process is killed, between any two writes, and its successor lists  *)
(* all there is.                                                           *)
Restart ==
    /\ Happens("restart") /\ Relist
    /\ queue' = {g \in Gateways : api[Cr(g)] # Absent} \cup
                {m \in SourceMaps : api[Src(m)] # Absent}
    /\ delayed' = {} /\ pc' = "idle" /\ job' = NoJob

(* The caches hand out all they hold again, every ten hours: the period is *)
(* long enough for the users to count it among the things that may happen. *)
Resync ==
    /\ May("resync")
    /\ queue' = queue \cup {g \in Gateways : cache[Cr(g)] # Absent}
                      \cup {m \in SourceMaps : cache[Src(m)] # Absent}
    /\ UNCHANGED <<kubeVars, delayed, pc, job>>

-----------------------------------------------------------------------------
Reconcile(n) ==
    ReconcileGateway(n) \/ PanicInMerge(n) \/ ReconcileConfigMap(n) \/ ReconcileNothing(n)

(* A reconcile ends well, in manageError, or goes on.                      *)
Succeed == CreateDeployment \/ ScaleDeployment \/ UpdateDeployment \/ KeepDeployment
GoOn ==
    \/ \E n \in Names : Reconcile(n)
    \/ \E g \in Gateways : Touch(g)
    \/ CreateMap \/ UpdateMap \/ KeepMap \/ MapRefused
    \/ PanicNoAnnotations \/ DeploymentRefused
Worker == GoOn \/ Succeed \/ ManageError

Manager == \/ \E k \in Keys : Deliver(k)
           \/ \E n \in Names : Expire(n)

Cluster == \/ \E g \in Gateways : Annotate(g)
           \/ \E k \in DepKeys \cup MapKeys : Collect(k)

Ask(g)    == \E s \in Specs : CreateGateway(g, s) \/ EditGateway(g, s)
Supply(m) == \E d \in Data : WriteSource(m, d)
Disturb ==
    \/ \E g \in Gateways : DeleteGateway(g) \/ DeleteDeployment(g)
    \/ \E m \in SourceMaps : DeleteSource(m)
    \/ \E i \in MapIds : DeleteMap(i)
    \/ Restart
    \/ Resync
Users ==
    \/ \E g \in Gateways : Ask(g)
    \/ \E m \in SourceMaps : Supply(m)
    \/ Disturb

Next == Worker \/ Manager \/ Cluster \/ Users

Spec == Init /\ [][Next]_vars

(* The worker runs, and takes the names of its queue in order; watches     *)
(* deliver, the rate limiter lets go, and the cluster's controllers work.  *)
(* The users owe nobody anything.                                          *)
Fairness ==
    /\ WF_vars(Worker)
    /\ \A n \in Names : SF_vars(Reconcile(n)) /\ WF_vars(Expire(n))
    /\ \A k \in Keys : WF_vars(Deliver(k))
    /\ \A g \in Gateways : WF_vars(Annotate(g))
    /\ \A k \in DepKeys \cup MapKeys : WF_vars(Collect(k))

FairSpec == Spec /\ Fairness

-----------------------------------------------------------------------------
(* What is true of it.                                                     *)

Optional(S) == S \cup {Absent}
ObjectsOf(k) ==
    IF k \in CrKeys THEN Gateway ELSE IF k \in DepKeys THEN Deployment
    ELSE IF k \in SrcKeys THEN SourceMap ELSE GeneratedMap

(* The variables have the types of the Go values they stand for.           *)
TypeOK ==
    /\ DOMAIN api = Keys /\ \A k \in Keys : api[k] \in Optional(ObjectsOf(k))
    /\ version \in [Keys -> Nat]
    /\ DOMAIN cache = Keys /\ \A k \in Keys : cache[k] \in Optional(ObjectsOf(k))
    /\ DOMAIN stream = Keys /\ \A k \in Keys : stream[k] \in Seq(Optional(ObjectsOf(k)))
    /\ queue \subseteq Names /\ delayed \subseteq Names
    /\ pc \in {"idle", "touch", "configMap", "deployment", "error"}
    /\ job \in [req : Optional(Names), inst : Optional(Gateway), dply : Optional(Deployment),
                data : Optional(Merged), cm : MapRef \cup {NoRef}, todo : SUBSET Gateways]
    /\ made \in 0..MaxMaps /\ applied \in [Gateways -> Nat]
    /\ used \in 0..MaxUser /\ faults \in 0..MaxFaults

(* A deployment whose gateway lives mounts a config map that exists and    *)
(* that lives as long as it: Reconcile creates the map before the          *)
(* deployment and makes the same gateway the owner of both, and neither a  *)
(* crash, a stale read nor a gateway created anew under an old name leaves *)
(* the pods with nothing to mount.  (Unless a user deletes the map.)       *)
MountedMapExists ==
    \A g \in Gateways :
        LET d == api[Dep(g)]
        IN  d # Absent /\ Live(d.owner) =>
                /\ api[Map(d.map)] # Absent
                /\ api[Map(d.map)].owner = d.owner

(* Nothing is ever written from an older spec of a gateway than something  *)
(* written before: though Reconcile reads a cache, and writes whatever it  *)
(* read several steps earlier, a rollout is never undone by a late one.    *)
NeverRollsBack == [][\A g \in Gateways : applied'[g] >= applied[g]]_vars

Quiescent == Settled /\ delayed = {}

(* When the operator has nothing left to do, every instance that runs is   *)
(* up to date.  ("Any significant changes will result in the running pods  *)
(* being reloaded with the new configuration"; "any running IBM            *)
(* Application Gateway instances that reference the changed config map     *)
(* will be updated automatically".)                                        *)
RunningIsUpdated ==
    Quiescent => \A g \in Gateways :
        Wanted(g) /\ api[Dep(g)] # Absent => Current(g)

(* The operator leaves alone what is as it should be: between a read of    *)
(* the caches and the writes that follow from it, nothing it does replaces *)
(* the pods of a gateway that has what it asks for, or unsettles it.       *)
CurrentStaysCurrent ==
    [][Worker => \A g \in Gateways :
           api[Cr(g)] # Absent /\ Wanted(g) /\ Current(g) => Current(g)']_vars

(* The status says whether the resource has been successfully created.     *)
StatusTellsSuccess ==
    Quiescent => \A g \in Gateways : Wanted(g) /\ Current(g) => ~api[Cr(g)].failed

(* "The configuration from the multiple locations will be merged into a    *)
(* single config map": a gateway never owns two generated maps.            *)
SingleMap ==
    \A i, j \in MapIds :
        api[Map(i)] # Absent /\ api[Map(j)] # Absent
        /\ api[Map(i)].owner = api[Map(j)].owner => i = j

(* Once a gateway is deleted for good its deployment and its maps go too.  *)
OwnedBy(g) ==
    {k \in DepKeys \cup MapKeys : api[k] # Absent /\ api[k].owner.gw = g}
DeletedGatewayLeavesNothing ==
    \A g \in Gateways : <>[](api[Cr(g)] = Absent) => <>[](OwnedBy(g) = {})

(* Whatever the caches, the queue and the crashes do, the reconciler does  *)
(* what GatewayService promises: every step of it is one of a service that *)
(* writes from newer states only, and mounts nothing but the map of the    *)
(* same gateway object.                                                    *)
Service == INSTANCE GatewayService WITH
    life    <- [g \in Gateways |-> IF api[Cr(g)] = Absent THEN {} ELSE {api[Cr(g)].uid}],
    asked   <- [g \in Gateways |-> version[Cr(g)]],
    rolled  <- applied,
    maps    <- [i \in MapIds |-> IF api[Map(i)] = Absent THEN {} ELSE {api[Map(i)].owner}],
    mounted <- [g \in Gateways |-> IF api[Dep(g)] = Absent THEN {}
                   ELSE {[owner |-> api[Dep(g)].owner, map |-> api[Dep(g)].map]}]
ImplementsService == Service!Spec
=============================================================================
