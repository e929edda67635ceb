---------------------- MODULE GatewayControllerProofs ----------------------
(* What holds of GatewayController for every value of its constants.       *)
EXTENDS GatewayController, TLAPS

-----------------------------------------------------------------------------
(* The keys are of four kinds.                                             *)

LEMMA KeyKinds ==
    /\ \A g \in Gateways : Cr(g) \in Keys /\ ObjectsOf(Cr(g)) = Gateway
    /\ \A g \in Gateways : Dep(g) \in Keys /\ ObjectsOf(Dep(g)) = Deployment
    /\ \A m \in SourceMaps : Src(m) \in Keys /\ ObjectsOf(Src(m)) = SourceMap
    /\ \A i \in MapIds : Map(i) \in Keys /\ ObjectsOf(Map(i)) = GeneratedMap
<1>1. \A g : Cr(g) \notin DepKeys \cup SrcKeys \cup MapKeys
  BY DEF Cr, Dep, Src, Map, DepKeys, SrcKeys, MapKeys
<1>2. \A g : Dep(g) \notin CrKeys \cup SrcKeys \cup MapKeys
  BY DEF Cr, Dep, Src, Map, CrKeys, SrcKeys, MapKeys
<1>3. \A m : Src(m) \notin CrKeys \cup DepKeys \cup MapKeys
  BY DEF Cr, Dep, Src, Map, DepKeys, CrKeys, MapKeys
<1>4. \A i : Map(i) \notin CrKeys \cup DepKeys \cup SrcKeys
  BY DEF Cr, Dep, Src, Map, DepKeys, CrKeys, SrcKeys
<1>5. /\ \A g \in Gateways : Cr(g) \in CrKeys /\ Dep(g) \in DepKeys
      /\ \A m \in SourceMaps : Src(m) \in SrcKeys
      /\ \A i \in MapIds : Map(i) \in MapKeys
  BY DEF CrKeys, DepKeys, SrcKeys, MapKeys
<1>6. QED BY <1>1, <1>2, <1>3, <1>4, <1>5, KeysAssumption DEF ObjectsOf

(* The merge of a gateway's sources is one of the values Merged lists.     *)
LEMMA MergeType ==
    ASSUME NEW s \in Specs, NEW objects,
           \A m \in SourceMaps : objects[Src(m)] \in Optional(SourceMap),
           Mergeable(s, objects)
    PROVE  Merge(s, objects) \in Merged
<1>1. s.refs \in SUBSET SourceMaps BY SpecsAssumption
<1>2. \A m \in s.refs : objects[Src(m)].data \in Data
  BY <1>1 DEF Mergeable, Optional, SourceMap
<1>3. [m \in s.refs |-> objects[Src(m)].data] \in [s.refs -> Data]
  BY <1>2
<1>4. [m \in s.refs |-> objects[Src(m)].data]
          \in UNION {[R -> Data] : R \in SUBSET SourceMaps}
  BY <1>1, <1>3
<1>5. QED BY <1>4 DEF Merge, Merged

-----------------------------------------------------------------------------
(* The types.                                                              *)

StoreType ==
    /\ DOMAIN api = Keys /\ \A k \in Keys : api[k] \in Optional(ObjectsOf(k))
    /\ version \in [Keys -> Nat]
    /\ DOMAIN cache = Keys /\ \A k \in Keys : cache[k] \in Optional(ObjectsOf(k))
    /\ DOMAIN stream = Keys /\ \A k \in Keys : stream[k] \in Seq(Optional(ObjectsOf(k)))

WorkType ==
    /\ queue \subseteq Names /\ delayed \subseteq Names
    /\ pc \in {"idle", "touch", "configMap", "deployment", "error"}
    /\ job \in [req : Optional(Names), inst : Optional(Gateway), dply : Optional(Deployment),
                data : Optional(Merged), cm : MapRef \cup {NoRef}, todo : SUBSET Gateways]

CountType ==
    /\ made \in 0..MaxMaps /\ applied \in [Gateways -> Nat]
    /\ used \in 0..MaxUser /\ faults \in 0..MaxFaults

(* What the worker has read by the time it needs it: that makes the types  *)
(* inductive.                                                              *)
JobShape ==
    /\ pc = "touch" => job.req \in Names
    /\ pc \in {"configMap", "deployment", "error"} =>
           job.req \in Gateways /\ job.inst \in Gateway
    /\ pc \in {"configMap", "deployment"} => job.data \in Merged
    /\ pc = "deployment" => job.cm \in MapRef

TypeInv == StoreType /\ WorkType /\ CountType /\ JobShape

LEMMA TypeInvTypes == TypeInv => TypeOK
BY DEF TypeInv, StoreType, WorkType, CountType, TypeOK

LEMMA PutType ==
    ASSUME StoreType, NEW k \in Keys, NEW obj,
           [obj EXCEPT !.rv = version[k] + 1] \in ObjectsOf(k),
           Put(k, obj), UNCHANGED cache
    PROVE  StoreType'
<1> DEFINE new == [obj EXCEPT !.rv = version[k] + 1]
<1>1. /\ version' = [version EXCEPT ![k] = @ + 1]
      /\ api' = [api EXCEPT ![k] = new]
      /\ stream' = [stream EXCEPT ![k] = Append(@, new)]
  BY DEF Put
<1>2. new \in Optional(ObjectsOf(k)) BY DEF Optional
<1> HIDE DEF new
<1>3. DOMAIN api' = Keys /\ \A j \in Keys : api'[j] \in Optional(ObjectsOf(j))
  BY <1>1, <1>2 DEF StoreType
<1>4. version' \in [Keys -> Nat]
  BY <1>1 DEF StoreType
<1>5. Append(stream[k], new) \in Seq(Optional(ObjectsOf(k)))
  BY <1>2 DEF StoreType
<1>6. DOMAIN stream' = Keys /\ \A j \in Keys : stream'[j] \in Seq(Optional(ObjectsOf(j)))
  BY <1>1, <1>5 DEF StoreType
<1>7. QED BY <1>3, <1>4, <1>6 DEF StoreType, ObjectsOf, Optional

LEMMA RemoveType ==
    ASSUME StoreType, NEW k \in Keys, Remove(k), UNCHANGED cache
    PROVE  StoreType'
<1>1. Absent \in Optional(ObjectsOf(k)) BY DEF Optional
<1>2. Append(stream[k], Absent) \in Seq(Optional(ObjectsOf(k)))
  BY <1>1 DEF StoreType
<1>3. QED BY <1>1, <1>2 DEF StoreType, Remove

LEMMA AdvanceType ==
    ASSUME StoreType, NEW k \in Keys, Advance(k)
    PROVE  StoreType'
<1>1. /\ Head(stream[k]) \in Optional(ObjectsOf(k))
      /\ Tail(stream[k]) \in Seq(Optional(ObjectsOf(k)))
  BY DEF StoreType, Advance
<1>2. QED BY <1>1 DEF StoreType, Advance

LEMMA RelistType == ASSUME StoreType, Relist PROVE StoreType'
<1>1. \A k \in Keys : <<>> \in Seq(Optional(ObjectsOf(k)))
  OBVIOUS
<1>2. QED BY <1>1 DEF StoreType, Relist

LEMMA StoreStutter ==
    ASSUME StoreType, UNCHANGED <<api, version, stream>>, UNCHANGED cache
    PROVE  StoreType'
BY DEF StoreType

(* An object with a new resource version is an object of the same type.    *)
LEMMA Restamp ==
    ASSUME NEW rv \in Nat
    PROVE  /\ \A x \in Gateway : [x EXCEPT !.rv = rv] \in Gateway
           /\ \A x \in Deployment : [x EXCEPT !.rv = rv] \in Deployment
           /\ \A x \in SourceMap : [x EXCEPT !.rv = rv] \in SourceMap
           /\ \A x \in GeneratedMap : [x EXCEPT !.rv = rv] \in GeneratedMap
BY DEF Gateway, Deployment, SourceMap, GeneratedMap

LEMMA TypedPut ==
    ASSUME StoreType, NEW k \in Keys, NEW obj \in ObjectsOf(k),
           Put(k, obj), UNCHANGED cache
    PROVE  StoreType' /\ version'[k] \in Nat /\ version'[k] > 0
<1>1. version[k] + 1 \in Nat BY DEF StoreType
<1>2. ObjectsOf(k) \in {Gateway, Deployment, SourceMap, GeneratedMap} BY DEF ObjectsOf
<1>3. [obj EXCEPT !.rv = version[k] + 1] \in ObjectsOf(k)
  BY <1>1, <1>2, Restamp
<1>4. StoreType' BY <1>3, PutType
<1>5. version'[k] = version[k] + 1 BY DEF Put, StoreType
<1>6. QED BY <1>1, <1>4, <1>5 DEF StoreType

LEMMA StatusType ==
    ASSUME StoreType, NEW g \in Gateways, api[Cr(g)] # Absent,
           PutStatus(Cr(g)), UNCHANGED cache
    PROVE  StoreType'
<1>1. Cr(g) \in Keys /\ ObjectsOf(Cr(g)) = Gateway BY KeyKinds
<1>2. api[Cr(g)] \in Gateway BY <1>1 DEF StoreType, Optional
<1>3. [api[Cr(g)] EXCEPT !.failed = TRUE] \in ObjectsOf(Cr(g))
  BY <1>1, <1>2 DEF Gateway
<1>4. CASE api[Cr(g)].failed
  BY <1>4, StoreStutter DEF PutStatus, Renew
<1>5. CASE ~api[Cr(g)].failed
  <2>1. Put(Cr(g), [api[Cr(g)] EXCEPT !.failed = TRUE]) BY <1>5 DEF PutStatus
  <2>2. QED BY <1>1, <1>3, <2>1, TypedPut
<1>6. QED BY <1>4, <1>5

LEMMA NoJobType ==
    NoJob \in [req : Optional(Names), inst : Optional(Gateway), dply : Optional(Deployment),
               data : Optional(Merged), cm : MapRef \cup {NoRef}, todo : SUBSET Gateways]
BY DEF NoJob, Optional

LEMMA DoneType ==
    ASSUME WorkType, NEW n, Done(n)
    PROVE  WorkType' /\ JobShape'
BY NoJobType DEF WorkType, JobShape, Done

LEMMA RequeueType ==
    ASSUME WorkType, NEW n \in Names, Requeue(n)
    PROVE  WorkType' /\ JobShape'
BY NoJobType DEF WorkType, JobShape, Requeue

(* A fault is counted up to its bound.                                     *)
LEMMA FaultType ==
    ASSUME CountType, Fault \/ UNCHANGED faults,
           UNCHANGED <<made, used>>, applied' \in [Gateways -> Nat]
    PROVE  CountType'
BY BoundsAssumption DEF CountType, Fault

LEMMA WroteType ==
    ASSUME CountType, NEW g \in Gateways, job.inst \in Gateway, Wrote(g)
    PROVE  applied' \in [Gateways -> Nat]
BY DEF CountType, Wrote, Gateway

LEMMA InitTypeInv == Init => TypeInv
<1> SUFFICES ASSUME Init PROVE TypeInv OBVIOUS
<1>1. StoreType
  <2>1. \A k \in Keys : Absent \in Optional(ObjectsOf(k)) /\ <<>> \in Seq(Optional(ObjectsOf(k)))
    BY DEF Optional
  <2>2. QED BY <2>1 DEF Init, StoreType
<1>2. WorkType /\ JobShape BY NoJobType DEF Init, WorkType, JobShape
<1>3. CountType BY BoundsAssumption DEF Init, CountType
<1>4. QED BY <1>1, <1>2, <1>3 DEF TypeInv

-----------------------------------------------------------------------------
(* Every step of the worker keeps the types.                               *)

LEMMA ReadTypes ==
    ASSUME StoreType
    PROVE  /\ \A g \in Gateways : cache[Cr(g)] \in Optional(Gateway)
           /\ \A g \in Gateways : cache[Dep(g)] \in Optional(Deployment)
           /\ \A m \in SourceMaps : cache[Src(m)] \in Optional(SourceMap)
           /\ \A i \in MapIds : cache[Map(i)] \in Optional(GeneratedMap)
           /\ \A g \in Gateways : api[Cr(g)] \in Optional(Gateway)
           /\ \A g \in Gateways : api[Dep(g)] \in Optional(Deployment)
           /\ \A m \in SourceMaps : api[Src(m)] \in Optional(SourceMap)
           /\ \A i \in MapIds : api[Map(i)] \in Optional(GeneratedMap)
BY KeyKinds DEF StoreType

LEMMA ReconcileType ==
    ASSUME TypeInv, NEW n \in Names, Reconcile(n)
    PROVE  TypeInv'
<1> USE DEF TypeInv
<1>1. CASE ReconcileGateway(n)
  <2> DEFINE inst == cache[Cr(n)]
             base == [NoJob EXCEPT !.req = n, !.inst = inst, !.dply = cache[Dep(n)]]
  <2>1. n \in Gateways /\ inst \in Gateway /\ cache[Dep(n)] \in Optional(Deployment)
    BY <1>1, ReadTypes DEF ReconcileGateway, IsGateway, Instance, Optional
  <2>2. StoreType' BY <1>1, StoreStutter DEF ReconcileGateway, kubeVars
  <2>3. CountType' BY <1>1, FaultType DEF ReconcileGateway, CountType
  <2>4. queue' \subseteq Names /\ delayed' \subseteq Names
    BY <1>1 DEF ReconcileGateway, Start, WorkType
  <2>5. CASE /\ Mergeable(inst.spec, cache) /\ pc' = "configMap"
             /\ job' = [base EXCEPT !.data = Merge(inst.spec, cache)]
    <3>1. Merge(inst.spec, cache) \in Merged
      BY <2>1, <2>5, MergeType, ReadTypes DEF Gateway
    <3>2. QED
      BY <2>1, <2>2, <2>3, <2>4, <2>5, <3>1, NoJobType
      DEF NoJob, WorkType, JobShape, Optional, Names
  <2>6. CASE pc' = "error" /\ job' = base
    BY <2>1, <2>2, <2>3, <2>4, <2>6, NoJobType
    DEF NoJob, WorkType, JobShape, Optional, Names
  <2>7. QED BY <1>1, <2>5, <2>6 DEF ReconcileGateway, Instance
<1>2. CASE ReconcileConfigMap(n)
  <2>1. StoreType' BY <1>2, StoreStutter DEF ReconcileConfigMap, kubeVars
  <2>2. CountType' BY <1>2 DEF ReconcileConfigMap, CountType
  <2>3. WorkType'
    <3>1. n \in Names /\ queue' \subseteq Names /\ delayed' \subseteq Names
      BY <1>2 DEF ReconcileConfigMap, Start, WorkType
    <3>2. CASE pc' = "idle" /\ job' = NoJob BY <3>1, <3>2, NoJobType DEF WorkType
    <3>3. ASSUME NEW todo \in SUBSET Gateways,
                 pc' = "touch", job' = [NoJob EXCEPT !.req = n, !.todo = todo]
          PROVE  WorkType'
      <4>1. job' = [req |-> n, inst |-> Absent, dply |-> Absent, data |-> Absent,
                    cm |-> NoRef, todo |-> todo]
        BY <3>3 DEF NoJob
      <4>2. QED BY <3>1, <3>3, <4>1 DEF WorkType, Optional
    <3> DEFINE users == {g \in Gateways : cache[Cr(g)] # Absent /\ n \in cache[Cr(g)].spec.refs}
               todo  == IF n = Leader THEN {} ELSE users
    <3>4. todo \in SUBSET Gateways OBVIOUS
    <3>5. \/ pc' = "idle" /\ job' = NoJob
          \/ pc' = "touch" /\ job' = [NoJob EXCEPT !.req = n, !.todo = todo]
      BY <1>2 DEF ReconcileConfigMap
    <3> HIDE DEF todo
    <3>6. QED BY <3>2, <3>3, <3>4, <3>5
  <2>4. JobShape'
    BY <1>2 DEF ReconcileConfigMap, NoJob, JobShape
  <2>5. QED BY <2>1, <2>2, <2>3, <2>4
<1>3. CASE ReconcileNothing(n)
  <2>1. StoreType' BY <1>3, StoreStutter DEF ReconcileNothing, kubeVars
  <2>2. QED
    BY <1>3, <2>1 DEF ReconcileNothing, Start, WorkType, CountType, JobShape
<1>4. CASE PanicInMerge(n)
  <2>1. StoreType' BY <1>4, StoreStutter DEF PanicInMerge, kubeVars
  <2>2. QED
    BY <1>4, <2>1 DEF PanicInMerge, Start, WorkType, CountType, JobShape
<1>5. QED BY <1>1, <1>2, <1>3, <1>4 DEF Reconcile

LEMMA TouchType ==
    ASSUME TypeInv, NEW g \in Gateways, Touch(g)
    PROVE  TypeInv'
<1> USE DEF TypeInv
<1>1. CountType' BY FaultType DEF Touch, CountType
<1>2. job.req \in Names BY DEF Touch, JobShape
<1>3. CASE Fresh(Cr(g), cache[Cr(g)]) /\ PutStatus(Cr(g)) /\ TouchNext(g)
  <2>1. StoreType' BY <1>3, StatusType DEF Touch, Fresh
  <2>2. CASE Done(job.req) BY <1>1, <2>1, <2>2, DoneType
  <2>3. CASE Goto("touch") /\ job' = [job EXCEPT !.todo = job.todo \ {g}]
    BY <1>1, <1>2, <2>1, <2>3 DEF Goto, WorkType, JobShape
  <2>4. QED BY <1>3, <2>2, <2>3 DEF TouchNext
<1>4. CASE Requeue(job.req) /\ UNCHANGED <<api, version, stream>>
  BY <1>1, <1>2, <1>4, RequeueType, StoreStutter DEF Touch
<1>5. QED BY <1>3, <1>4 DEF Touch

LEMMA ConfigMapType ==
    ASSUME TypeInv, CreateMap \/ UpdateMap \/ KeepMap \/ MapRefused
    PROVE  TypeInv'
<1> USE DEF TypeInv
<1>1. /\ pc = "configMap" /\ job.req \in Gateways /\ job.inst \in Gateway
      /\ job.data \in Merged
  BY DEF CreateMap, UpdateMap, KeepMap, MapRefused, JobShape
<1>2. CASE CreateMap
  <2> DEFINE m   == made + 1
             obj == NewMap
  <2>1. m \in MapIds /\ made' = m
    BY <1>2, BoundsAssumption DEF CreateMap, CountType, MapIds
  <2>2. Map(m) \in Keys /\ obj \in ObjectsOf(Map(m))
    BY <1>1, <2>1, KeyKinds DEF NewMap, JobOwner, GeneratedMap, Gateway, Owner
  <2>3. Put(Map(m), obj) BY <1>2, <2>1 DEF CreateMap
  <2>4. StoreType' /\ version'[Map(m)] \in Nat
    BY <1>2, <2>2, <2>3, TypedPut DEF CreateMap
  <2>5. CountType'
    BY <1>1, <1>2, <2>1, WroteType DEF CreateMap, CountType, MapIds
  <2>6. WorkType' /\ JobShape'
    BY <1>1, <1>2, <2>1, <2>4 DEF CreateMap, Goto, WorkType, JobShape, MapRef
  <2>7. QED BY <2>4, <2>5, <2>6
<1>3. CASE UpdateMap
  <2> DEFINE k == Map(job.dply.map)
  <2>1. job.dply.map \in MapIds
    BY <1>3 DEF UpdateMap, FoundMap, WorkType, Optional, Deployment
  <2>2. k \in Keys /\ Found \in GeneratedMap /\ ObjectsOf(k) = GeneratedMap
    BY <1>3, <2>1, KeyKinds, ReadTypes DEF UpdateMap, FoundMap, Found, Optional
  <2>3. [Found EXCEPT !.data = job.data] \in ObjectsOf(k)
    BY <1>1, <2>2 DEF GeneratedMap
  <2>4. StoreType' /\ version'[k] \in Nat
    BY <1>3, <2>2, <2>3, TypedPut DEF UpdateMap
  <2>5. CountType' BY <1>1, <1>3, WroteType DEF UpdateMap, CountType
  <2>6. WorkType' /\ JobShape'
    BY <1>1, <1>3, <2>1, <2>4 DEF UpdateMap, Goto, WorkType, JobShape, MapRef
  <2>7. QED BY <2>4, <2>5, <2>6
<1>4. CASE KeepMap
  <2>1. job.dply.map \in MapIds
    BY <1>4 DEF KeepMap, FoundMap, WorkType, Optional, Deployment
  <2>2. Found.rv \in Nat
    BY <1>4, <2>1, ReadTypes DEF KeepMap, FoundMap, Found, Optional, GeneratedMap
  <2>3. StoreType' BY <1>4, StoreStutter DEF KeepMap, kubeVars
  <2>4. QED
    BY <1>1, <1>4, <2>1, <2>2, <2>3 DEF KeepMap, Goto, WorkType, CountType, JobShape, MapRef
<1>5. CASE MapRefused
  <2>1. StoreType' BY <1>5, StoreStutter DEF MapRefused, kubeVars
  <2>2. CountType' BY <1>5, FaultType DEF MapRefused, CountType
  <2>3. QED BY <1>1, <1>5, <2>1, <2>2 DEF MapRefused, Goto, WorkType, JobShape
<1>6. QED BY <1>2, <1>3, <1>4, <1>5

LEMMA DeploymentType ==
    ASSUME TypeInv,
           \/ CreateDeployment \/ ScaleDeployment \/ UpdateDeployment
           \/ PanicNoAnnotations \/ KeepDeployment \/ DeploymentRefused
    PROVE  TypeInv'
<1> USE DEF TypeInv
<1>1. /\ pc = "deployment" /\ job.req \in Gateways /\ job.inst \in Gateway
      /\ job.cm \in MapRef
  BY DEF CreateDeployment, ScaleDeployment, UpdateDeployment, PanicNoAnnotations,
         KeepDeployment, DeploymentRefused, JobShape
<1>2. /\ job.inst.spec \in Specs /\ Dep(job.req) \in Keys
      /\ ObjectsOf(Dep(job.req)) = Deployment /\ job.req \in Names
  BY <1>1, KeyKinds DEF Gateway, Names
<1>3. CASE CreateDeployment
  <2>1. NewDeployment \in Deployment
    BY <1>1, <1>2 DEF NewDeployment, JobOwner, Deployment, Owner, Gateway, MapRef
  <2>2. StoreType' BY <1>2, <1>3, <2>1, TypedPut DEF CreateDeployment
  <2>3. CountType' BY <1>1, <1>3, WroteType DEF CreateDeployment, CountType
  <2>4. QED BY <1>3, <2>2, <2>3, DoneType DEF CreateDeployment
<1>4. CASE ScaleDeployment
  <2>1. [job.dply EXCEPT !.replicas = job.inst.spec.replicas] \in Deployment
    BY <1>2, <1>4 DEF ScaleDeployment, WorkType, Optional, Deployment
  <2>2. StoreType' BY <1>2, <1>4, <2>1, TypedPut DEF ScaleDeployment
  <2>3. CountType' BY <1>1, <1>4, WroteType DEF ScaleDeployment, CountType
  <2>4. QED BY <1>4, <2>2, <2>3, DoneType DEF ScaleDeployment
<1>5. CASE UpdateDeployment
  <2>1. [job.dply EXCEPT !.ver = job.cm, !.opts = job.inst.spec.opts] \in Deployment
    BY <1>1, <1>2, <1>5 DEF UpdateDeployment, WorkType, Optional, Deployment
  <2>2. StoreType' BY <1>2, <1>5, <2>1, TypedPut DEF UpdateDeployment
  <2>3. CountType' BY <1>1, <1>5, WroteType DEF UpdateDeployment, CountType
  <2>4. QED BY <1>5, <2>2, <2>3, DoneType DEF UpdateDeployment
<1>6. CASE PanicNoAnnotations \/ KeepDeployment
  <2>1. Requeue(job.req) /\ UNCHANGED <<kubeVars, made, applied, used, faults>>
    BY <1>6 DEF PanicNoAnnotations, KeepDeployment
  <2>2. StoreType' BY <2>1, StoreStutter DEF kubeVars
  <2>3. QED BY <1>2, <2>1, <2>2, RequeueType DEF CountType
<1>7. CASE DeploymentRefused
  <2>1. StoreType' BY <1>7, StoreStutter DEF DeploymentRefused, kubeVars
  <2>2. CountType' BY <1>7, FaultType DEF DeploymentRefused, CountType
  <2>3. QED BY <1>1, <1>7, <2>1, <2>2 DEF DeploymentRefused, Goto, WorkType, JobShape
<1>8. QED BY <1>3, <1>4, <1>5, <1>6, <1>7

LEMMA ManageErrorType ==
    ASSUME TypeInv, ManageError
    PROVE  TypeInv'
<1> USE DEF TypeInv
<1>1. pc = "error" /\ job.req \in Gateways BY DEF ManageError, JobShape
<1>2. CountType' BY FaultType DEF ManageError, CountType
<1>3. StoreType'
  <2>1. CASE UNCHANGED <<api, version, stream>> BY <2>1, StoreStutter DEF ManageError
  <2>2. CASE Fresh(Cr(job.req), job.inst) /\ PutStatus(Cr(job.req))
    BY <1>1, <2>2, StatusType DEF ManageError, Fresh
  <2>3. QED BY <2>1, <2>2 DEF ManageError
<1>4. QED BY <1>2, <1>3, DoneType DEF ManageError

-----------------------------------------------------------------------------
(* Nor do the manager, the cluster and the users change a type.            *)

LEMMA ManagerType ==
    ASSUME TypeInv, Manager
    PROVE  TypeInv'
<1> USE DEF TypeInv
<1>1. CASE \E k \in Keys : Deliver(k)
  <2> PICK k \in Keys : Deliver(k) BY <1>1
  <2>1. StoreType' BY AdvanceType DEF Deliver
  <2>2. QED BY <2>1 DEF Deliver, WorkType, CountType, JobShape, Names
<1>2. CASE \E n \in Names : Expire(n)
  <2> PICK n \in Names : Expire(n) BY <1>2
  <2>1. StoreType' BY StoreStutter DEF Expire, kubeVars
  <2>2. QED BY <2>1 DEF Expire, WorkType, CountType, JobShape
<1>3. QED BY <1>1, <1>2 DEF Manager

LEMMA ClusterType ==
    ASSUME TypeInv, Cluster
    PROVE  TypeInv'
<1> USE DEF TypeInv
<1>1. CASE \E g \in Gateways : Annotate(g)
  <2> PICK g \in Gateways : Annotate(g) BY <1>1
  <2>1. Dep(g) \in Keys /\ ObjectsOf(Dep(g)) = Deployment BY KeyKinds
  <2>2. [api[Dep(g)] EXCEPT !.annotated = TRUE] \in Deployment
    BY ReadTypes DEF Annotate, Optional, Deployment
  <2>3. StoreType' BY <2>1, <2>2, TypedPut DEF Annotate
  <2>4. QED BY <2>3 DEF Annotate, workVars, WorkType, CountType, JobShape
<1>2. CASE \E k \in DepKeys \cup MapKeys : Collect(k)
  <2> PICK k \in DepKeys \cup MapKeys : Collect(k) BY <1>2
  <2>1. k \in Keys BY KeysAssumption
  <2>2. StoreType' BY <2>1, RemoveType DEF Collect
  <2>3. QED BY <2>2 DEF Collect, workVars, WorkType, CountType, JobShape
<1>3. QED BY <1>1, <1>2 DEF Cluster

LEMMA MayType == ASSUME CountType, NEW a, Happens(a) PROVE CountType'
BY BoundsAssumption DEF CountType, Happens

LEMMA UsersType ==
    ASSUME TypeInv, Users
    PROVE  TypeInv'
<1> USE DEF TypeInv
<1>1. ASSUME NEW g \in Gateways, NEW s \in Specs, CreateGateway(g, s)
      PROVE  TypeInv'
  <2> DEFINE rv == version[Cr(g)] + 1
  <2>1. Cr(g) \in Keys /\ ObjectsOf(Cr(g)) = Gateway BY KeyKinds
  <2>2. rv \in Nat \ {0} BY <2>1 DEF StoreType
  <2>3. [rv |-> 0, uid |-> rv, gen |-> rv, spec |-> s, failed |-> FALSE] \in Gateway
    BY <2>2 DEF Gateway
  <2>4. StoreType' BY <1>1, <2>1, <2>3, TypedPut DEF CreateGateway
  <2>5. QED BY <1>1, <2>4, MayType DEF CreateGateway, May, workVars, WorkType, JobShape
<1>2. ASSUME NEW g \in Gateways, NEW s \in Specs, EditGateway(g, s)
      PROVE  TypeInv'
  <2>1. Cr(g) \in Keys /\ ObjectsOf(Cr(g)) = Gateway BY KeyKinds
  <2>2. version[Cr(g)] + 1 \in Nat /\ api[Cr(g)] \in Gateway
    BY <1>2, <2>1, ReadTypes DEF StoreType, EditGateway, Optional
  <2>3. [api[Cr(g)] EXCEPT !.spec = s, !.gen = version[Cr(g)] + 1] \in Gateway
    BY <2>2 DEF Gateway
  <2>4. StoreType' BY <1>2, <2>1, <2>3, TypedPut DEF EditGateway
  <2>5. QED BY <1>2, <2>4, MayType DEF EditGateway, May, workVars, WorkType, JobShape
<1>3. ASSUME NEW m \in SourceMaps, NEW d \in Data, WriteSource(m, d)
      PROVE  TypeInv'
  <2>1. Src(m) \in Keys /\ ObjectsOf(Src(m)) = SourceMap BY KeyKinds
  <2>2. [rv |-> 0, data |-> d] \in SourceMap BY DEF SourceMap
  <2>3. StoreType' BY <1>3, <2>1, <2>2, TypedPut DEF WriteSource
  <2>4. QED BY <1>3, <2>3, MayType DEF WriteSource, May, workVars, WorkType, JobShape
<1>4. ASSUME NEW k \in Keys, Remove(k), NEW a, May(a), UNCHANGED <<cache, workVars>>
      PROVE  TypeInv'
  BY <1>4, RemoveType, MayType DEF May, workVars, WorkType, JobShape
<1>5. ASSUME Restart PROVE TypeInv'
  <2>1. StoreType' BY <1>5, RelistType DEF Restart
  <2>2. CountType' BY <1>5, MayType DEF Restart
  <2>3. QED BY <1>5, <2>1, <2>2, NoJobType DEF Restart, WorkType, JobShape, Names
<1>6. ASSUME Resync PROVE TypeInv'
  <2>1. StoreType' BY <1>6, StoreStutter DEF Resync, kubeVars
  <2>2. CountType' BY <1>6, MayType DEF Resync, May
  <2>3. QED BY <1>6, <2>1, <2>2 DEF Resync, WorkType, JobShape, Names
<1>7. ASSUME NEW g \in Gateways, DeleteGateway(g) \/ DeleteDeployment(g) PROVE TypeInv'
  BY <1>4, <1>7, KeyKinds DEF DeleteGateway, DeleteDeployment
<1>8. ASSUME NEW m \in SourceMaps, DeleteSource(m) PROVE TypeInv'
  BY <1>4, <1>8, KeyKinds DEF DeleteSource
<1>9. ASSUME NEW i \in MapIds, DeleteMap(i) PROVE TypeInv'
  BY <1>4, <1>9, KeyKinds DEF DeleteMap
<1>10. QED BY <1>1, <1>2, <1>3, <1>5, <1>6, <1>7, <1>8, <1>9 DEF Users, Ask, Supply, Disturb

LEMMA TypeInvStep == TypeInv /\ [Next]_vars => TypeInv'
<1> SUFFICES ASSUME TypeInv, [Next]_vars PROVE TypeInv' OBVIOUS
<1>1. CASE Worker
  BY <1>1, ReconcileType, TouchType, ConfigMapType, DeploymentType, ManageErrorType
  DEF Worker, GoOn, Succeed
<1>2. CASE Manager BY <1>2, ManagerType
<1>3. CASE Cluster BY <1>3, ClusterType
<1>4. CASE Users BY <1>4, UsersType
<1>5. CASE UNCHANGED vars
  BY <1>5 DEF vars, kubeVars, workVars, TypeInv, StoreType, WorkType, CountType, JobShape
<1>6. QED BY <1>1, <1>2, <1>3, <1>4, <1>5 DEF Next

(* Every variable keeps its type, for any gateways, specs and bounds: what *)
(* the worker reads, it has read before it writes.                         *)
THEOREM TypeCorrect == Spec => []TypeOK
<1>1. Spec => []TypeInv BY InitTypeInv, TypeInvStep, PTL DEF Spec
<1>2. QED BY <1>1, TypeInvTypes, PTL

-----------------------------------------------------------------------------
(* MountedMapExists is not inductive.  What it rests on:                   *)
(*   - an object somebody read is the one the API server holds as long as  *)
(*     the versions agree, so that an accepted update changes no owner;    *)
(*   - a uid is never used twice, so that an owner once gone stays gone;   *)
(*   - the map the worker is about to mount is there, and lives as long as *)
(*     the gateway it works for.                                           *)

Copy(k, x) ==
    x # Absent => /\ x.rv <= version[k]
                  /\ api[k] # Absent /\ x.rv = version[k] => x = api[k]

StoreCopies ==
    \A k \in Keys : /\ api[k] # Absent => api[k].rv = version[k]
                    /\ Copy(k, cache[k])
                    /\ \A i \in 1..Len(stream[k]) : Copy(k, stream[k][i])

Working == pc \in {"configMap", "deployment"}

JobCopy == Working => Copy(Dep(job.req), job.dply)

Born(o) == o.uid <= version[Cr(o.gw)]

StoreBorn ==
    \A g \in Gateways :
        /\ cache[Cr(g)] # Absent => cache[Cr(g)].uid <= version[Cr(g)]
        /\ api[Cr(g)] # Absent => api[Cr(g)].uid <= version[Cr(g)]
        /\ \A i \in 1..Len(stream[Cr(g)]) :
               stream[Cr(g)][i] # Absent => stream[Cr(g)][i].uid <= version[Cr(g)]

OwnersBorn ==
    /\ Working => Born(JobOwner)
    /\ \A g \in Gateways : api[Dep(g)] # Absent => Born(api[Dep(g)].owner)
    /\ \A i \in MapIds : api[Map(i)] # Absent => Born(api[Map(i)].owner)

Unmade == \A i \in MapIds : i > made => api[Map(i)] = Absent

Lasts(i, o) == Live(o) => api[Map(i)] # Absent /\ api[Map(i)].owner = o

JobMap == pc = "deployment" /\ job.dply = Absent => Lasts(job.cm.map, JobOwner)

CopyInv  == TypeInv /\ StoreCopies /\ JobCopy /\ StoreBorn /\ OwnersBorn /\ Unmade
MountInv == CopyInv /\ JobMap /\ MountedMapExists

LEMMA KeysDiffer ==
    /\ \A x, y : /\ Cr(x) # Dep(y) /\ Cr(x) # Src(y) /\ Cr(x) # Map(y)
                 /\ Dep(x) # Src(y) /\ Dep(x) # Map(y) /\ Src(x) # Map(y)
    /\ \A x, y : /\ Cr(x) = Cr(y) => x = y
                 /\ Dep(x) = Dep(y) => x = y
                 /\ Map(x) = Map(y) => x = y
BY DEF Cr, Dep, Src, Map

(* What an accepted write does to the API server.                          *)
LEMMA PutEffect ==
    ASSUME StoreType, NEW k \in Keys, NEW obj \in ObjectsOf(k), Put(k, obj)
    PROVE  /\ api'[k] = [obj EXCEPT !.rv = version[k] + 1] /\ api'[k] # Absent
           /\ api'[k].rv = version[k] + 1
           /\ version'[k] = version[k] + 1
           /\ stream'[k] = Append(stream[k], api'[k])
           /\ \A j \in Keys \ {k} : /\ api'[j] = api[j] /\ version'[j] = version[j]
                                    /\ stream'[j] = stream[j]
<1>1. api'[k] = [obj EXCEPT !.rv = version[k] + 1] BY DEF Put, StoreType
<1>2. version[k] + 1 \in Nat BY DEF StoreType
<1>3. ObjectsOf(k) \in {Gateway, Deployment, SourceMap, GeneratedMap} BY DEF ObjectsOf
<1>4. api'[k] \in Gateway \cup Deployment \cup SourceMap \cup GeneratedMap
  BY <1>1, <1>2, <1>3, Restamp
<1>5. api'[k].rv = version[k] + 1
  BY <1>1, <1>3 DEF Gateway, Deployment, SourceMap, GeneratedMap
<1>6. QED BY <1>1, <1>4, <1>5, AbsentAssumption DEF Put, StoreType

(* A copy of an object stays one, whatever is written.                     *)
LEMMA CopyAfterPut ==
    ASSUME StoreType, NEW k \in Keys, NEW obj \in ObjectsOf(k), Put(k, obj),
           NEW j \in Keys, NEW x, x # Absent => x.rv \in Nat, Copy(j, x)
    PROVE  (x # Absent => /\ x.rv <= version'[j]
                          /\ api'[j] # Absent /\ x.rv = version'[j] => x = api'[j])
<1>1. version[j] \in Nat BY DEF StoreType
<1>2. CASE j = k
  <2>1. version'[j] = version[j] + 1 BY <1>2, PutEffect
  <2>2. x # Absent => x.rv < version'[j] BY <1>1, <2>1 DEF Copy
  <2>3. x # Absent => x.rv # version'[j] /\ x.rv <= version'[j] BY <1>1, <2>1, <2>2
  <2>4. QED BY <2>3
<1>3. CASE j # k BY <1>3, PutEffect DEF Copy
<1>4. QED BY <1>2, <1>3

LEMMA CopiesAfterPut ==
    ASSUME StoreType, StoreCopies, NEW k \in Keys, NEW obj \in ObjectsOf(k),
           Put(k, obj), UNCHANGED cache
    PROVE  StoreCopies'
<1> SUFFICES ASSUME NEW j \in Keys
             PROVE  /\ api'[j] # Absent => api'[j].rv = version'[j]
                    /\ Copy(j, cache[j])'
                    /\ \A i \in 1..Len(stream'[j]) : Copy(j, stream[j][i])'
  BY DEF StoreCopies
<1>1. api'[j] # Absent => api'[j].rv = version'[j]
  BY PutEffect DEF StoreCopies
<1>2. \A x : x \in Optional(ObjectsOf(j)) => (x # Absent => x.rv \in Nat)
  BY DEF ObjectsOf, Optional, Gateway, Deployment, SourceMap, GeneratedMap
<1>3. Copy(j, cache[j])'
  BY <1>2, CopyAfterPut DEF StoreCopies, StoreType, Copy
<1>4. ASSUME NEW i \in 1..Len(stream'[j]) PROVE Copy(j, stream[j][i])'
  <2>1. stream[j] \in Seq(Optional(ObjectsOf(j))) BY DEF StoreType
  <2>2. CASE i \in 1..Len(stream[j]) /\ stream'[j][i] = stream[j][i]
    BY <1>2, <2>1, <2>2, CopyAfterPut DEF StoreCopies, Copy
  <2>3. CASE j = k /\ stream'[j][i] = api'[j]
    <3>1. api'[j].rv = version'[j] /\ version'[j] = version[j] + 1 BY <2>3, PutEffect
    <3>2. version[j] \in Nat BY DEF StoreType
    <3>3. QED BY <2>3, <3>1, <3>2 DEF Copy
  <2>4. CASE j # k BY <2>2, <2>4, <1>4, PutEffect
  <2>5. CASE j = k
    <3>1. stream'[j] = Append(stream[j], api'[j]) BY <2>5, PutEffect
    <3>2. QED BY <1>4, <2>1, <2>2, <2>3, <2>5, <3>1
  <2>6. QED BY <2>4, <2>5
<1>5. QED BY <1>1, <1>3, <1>4

LEMMA CopiesAfterRemove ==
    ASSUME StoreType, StoreCopies, NEW k \in Keys, Remove(k), UNCHANGED cache
    PROVE  StoreCopies'
<1> SUFFICES ASSUME NEW j \in Keys
             PROVE  /\ api'[j] # Absent => api'[j].rv = version'[j]
                    /\ Copy(j, cache[j])'
                    /\ \A i \in 1..Len(stream'[j]) : Copy(j, stream[j][i])'
  BY DEF StoreCopies
<1>1. stream[j] \in Seq(Optional(ObjectsOf(j))) BY DEF StoreType
<1>2. CASE j # k
  BY <1>2 DEF StoreCopies, Copy, Remove, StoreType
<1>3. CASE j = k
  <2>1. /\ api'[j] = Absent /\ version' = version
        /\ stream'[j] = Append(stream[j], Absent)
    BY <1>3 DEF Remove, StoreType
  <2>2. QED BY <1>1, <2>1 DEF StoreCopies, Copy
<1>4. QED BY <1>2, <1>3

LEMMA CopiesAfterAdvance ==
    ASSUME StoreType, StoreCopies, NEW k \in Keys, Advance(k)
    PROVE  StoreCopies'
<1> SUFFICES ASSUME NEW j \in Keys
             PROVE  /\ api'[j] # Absent => api'[j].rv = version'[j]
                    /\ Copy(j, cache[j])'
                    /\ \A i \in 1..Len(stream'[j]) : Copy(j, stream[j][i])'
  BY DEF StoreCopies
<1>1. stream[j] \in Seq(Optional(ObjectsOf(j))) BY DEF StoreType
<1>2. CASE j # k BY <1>2 DEF StoreCopies, Copy, Advance, StoreType
<1>3. CASE j = k
  <2>1. /\ api' = api /\ version' = version /\ stream[j] # <<>>
        /\ cache'[j] = stream[j][1] /\ stream'[j] = Tail(stream[j])
    BY <1>1, <1>3 DEF Advance, StoreType
  <2>2. /\ 1 \in 1..Len(stream[j])
        /\ Len(stream'[j]) = Len(stream[j]) - 1
        /\ \A i \in 1..Len(stream'[j]) :
               i + 1 \in 1..Len(stream[j]) /\ stream'[j][i] = stream[j][i + 1]
    BY <1>1, <2>1
  <2>3. QED BY <2>1, <2>2 DEF StoreCopies, Copy
<1>4. QED BY <1>2, <1>3

LEMMA CopiesAfterRelist ==
    ASSUME StoreType, StoreCopies, Relist
    PROVE  StoreCopies'
<1>1. \A k \in Keys : version[k] \in Nat BY DEF StoreType
<1>2. QED BY <1>1 DEF StoreCopies, Copy, Relist

LEMMA CopiesAfterStutter ==
    ASSUME StoreCopies, UNCHANGED <<api, version, stream>>, UNCHANGED cache
    PROVE  StoreCopies'
BY DEF StoreCopies, Copy

-----------------------------------------------------------------------------
(* What a step can do to the store, whoever takes it.                      *)

StoreKept == UNCHANGED <<api, version, stream>> /\ UNCHANGED cache

GatewayPut(g, obj) ==
    /\ obj \in Gateway /\ Put(Cr(g), obj) /\ UNCHANGED cache
    /\ \/ /\ api[Cr(g)] = Absent
          /\ obj.uid = version[Cr(g)] + 1 /\ obj.gen = version[Cr(g)] + 1
       \/ /\ api[Cr(g)] # Absent
          /\ obj.uid = api[Cr(g)].uid /\ obj.gen \in {api[Cr(g)].gen, version[Cr(g)] + 1}

DeploymentPut(g, obj) ==
    /\ obj \in Deployment /\ Put(Dep(g), obj) /\ UNCHANGED cache
    /\ \/ api[Dep(g)] # Absent /\ obj.owner = api[Dep(g)].owner /\ obj.map = api[Dep(g)].map
       \/ /\ pc = "deployment" /\ job.dply = Absent
          /\ api[Dep(g)] = Absent /\ g = job.req
          /\ obj.owner = JobOwner /\ obj.map = job.cm.map

SourcePut(m, obj) == obj \in SourceMap /\ Put(Src(m), obj) /\ UNCHANGED cache

MapPut(i, obj) ==
    /\ obj \in GeneratedMap /\ Put(Map(i), obj) /\ UNCHANGED cache
    /\ \/ api[Map(i)] # Absent /\ obj.owner = api[Map(i)].owner
       \/ /\ pc = "configMap" /\ i = made + 1 /\ made' = made + 1
          /\ obj.owner = JobOwner

Removal(k) ==
    /\ Remove(k) /\ UNCHANGED cache
    /\ k \in MapKeys => Orphan(k) \/ "deleteMap" \in UserActions

StoreStep ==
    \/ StoreKept
    \/ \E k \in Keys : Advance(k)
    \/ Relist
    \/ \E k \in Keys : Removal(k)
    \/ \E g \in Gateways : \E obj : GatewayPut(g, obj)
    \/ \E g \in Gateways : \E obj : DeploymentPut(g, obj)
    \/ \E m \in SourceMaps : \E obj : SourcePut(m, obj)
    \/ \E i \in MapIds : \E obj : MapPut(i, obj)

LEMMA StatusStep ==
    ASSUME StoreType, NEW g \in Gateways, api[Cr(g)] # Absent,
           PutStatus(Cr(g)), UNCHANGED cache
    PROVE  StoreStep
<1>1. api[Cr(g)] \in Gateway BY ReadTypes DEF Optional
<1> DEFINE obj == [api[Cr(g)] EXCEPT !.failed = TRUE]
<1>2. obj \in Gateway /\ obj.uid = api[Cr(g)].uid /\ obj.gen = api[Cr(g)].gen
  BY <1>1 DEF Gateway
<1> HIDE DEF obj
<1>3. CASE api[Cr(g)].failed BY <1>3 DEF PutStatus, Renew, StoreStep, StoreKept
<1>4. CASE ~api[Cr(g)].failed
  <2>1. Put(Cr(g), obj) BY <1>4 DEF PutStatus, obj
  <2>2. QED BY <1>2, <2>1 DEF StoreStep, GatewayPut
<1>5. QED BY <1>3, <1>4

(* An update of the deployment the worker read is one of the deployment    *)
(* that is there.                                                          *)
LEMMA ReadIsCurrent ==
    ASSUME TypeInv, StoreCopies, JobCopy, pc = "deployment",
           job.dply # Absent, Fresh(Dep(job.req), job.dply)
    PROVE  /\ job.req \in Gateways /\ job.inst \in Gateway /\ job.dply \in Deployment
           /\ api[Dep(job.req)] # Absent /\ job.dply = api[Dep(job.req)]
<1>1. job.req \in Gateways /\ job.inst \in Gateway /\ job.dply \in Deployment
  BY DEF TypeInv, WorkType, JobShape, Optional
<1>2. Dep(job.req) \in Keys BY <1>1, KeyKinds
<1>3. QED BY <1>1, <1>2 DEF Fresh, StoreCopies, JobCopy, Working, Copy

(* What the worker writes when it writes the map, and the deployment.      *)
LEMMA MapWriteStep ==
    ASSUME TypeInv, StoreCopies, CreateMap \/ UpdateMap
    PROVE  \E i \in MapIds : \E obj : MapPut(i, obj)
<1>1. StoreType BY DEF TypeInv
<1>2. CASE CreateMap
  <2> DEFINE m   == made + 1
             obj == NewMap
  <2>1. /\ m \in MapIds /\ made' = m /\ Put(Map(m), obj) /\ UNCHANGED cache
        /\ pc = "configMap"
    BY <1>2, BoundsAssumption DEF CreateMap, TypeInv, CountType, MapIds
  <2>2. obj \in GeneratedMap /\ obj.owner = JobOwner
    BY <2>1 DEF TypeInv, JobShape, GeneratedMap, Gateway, Owner, JobOwner, NewMap
  <2>3. MapPut(m, obj) BY <2>1, <2>2 DEF MapPut
  <2>4. QED BY <2>1, <2>3
<1>3. CASE UpdateMap
  <2> DEFINE i   == job.dply.map
             obj == [Found EXCEPT !.data = job.data]
  <2>1. i \in MapIds /\ job.data \in Merged
    BY <1>3 DEF UpdateMap, FoundMap, TypeInv, WorkType, JobShape, Optional, Deployment
  <2>2. Map(i) \in Keys /\ Found \in GeneratedMap /\ Found # Absent
    BY <1>1, <1>3, <2>1, KeyKinds, ReadTypes DEF UpdateMap, FoundMap, Found, Optional
  <2>3. api[Map(i)] # Absent /\ Found = api[Map(i)]
    BY <1>3, <2>2 DEF UpdateMap, Fresh, StoreCopies, Copy, Found
  <2>4. obj \in GeneratedMap /\ obj.owner = Found.owner BY <2>1, <2>2 DEF GeneratedMap
  <2>5. MapPut(i, obj) BY <1>3, <2>3, <2>4 DEF MapPut, UpdateMap
  <2>6. QED BY <2>1, <2>5
<1>4. QED BY <1>2, <1>3

LEMMA DeploymentWriteStep ==
    ASSUME TypeInv, StoreCopies, JobCopy,
           CreateDeployment \/ ScaleDeployment \/ UpdateDeployment
    PROVE  job.req \in Gateways /\ \E obj : DeploymentPut(job.req, obj)
<1>1. CASE CreateDeployment
  <2> DEFINE obj == NewDeployment
  <2>1. /\ pc = "deployment" /\ job.dply = Absent /\ UNCHANGED cache
        /\ api[Dep(job.req)] = Absent /\ Put(Dep(job.req), obj)
    BY <1>1 DEF CreateDeployment
  <2>2. /\ job.req \in Gateways /\ obj \in Deployment
        /\ obj.owner = JobOwner /\ obj.map = job.cm.map
    BY <2>1
    DEF TypeInv, JobShape, Deployment, Owner, Gateway, MapRef, JobOwner, NewDeployment
  <2>3. DeploymentPut(job.req, obj) BY <2>1, <2>2 DEF DeploymentPut
  <2>4. QED BY <2>2, <2>3
<1>2. CASE ScaleDeployment
  <2> DEFINE obj == [job.dply EXCEPT !.replicas = job.inst.spec.replicas]
  <2>1. /\ job.req \in Gateways /\ job.inst \in Gateway /\ job.dply \in Deployment
        /\ api[Dep(job.req)] # Absent /\ job.dply = api[Dep(job.req)]
    BY <1>2, ReadIsCurrent DEF ScaleDeployment
  <2>2. obj \in Deployment /\ obj.owner = job.dply.owner /\ obj.map = job.dply.map
    BY <2>1 DEF Deployment, Gateway
  <2>3. DeploymentPut(job.req, obj) BY <1>2, <2>1, <2>2 DEF DeploymentPut, ScaleDeployment
  <2>4. QED BY <2>1, <2>3
<1>3. CASE UpdateDeployment
  <2> DEFINE obj == [job.dply EXCEPT !.ver = job.cm, !.opts = job.inst.spec.opts]
  <2>1. /\ job.req \in Gateways /\ job.inst \in Gateway /\ job.dply \in Deployment
        /\ api[Dep(job.req)] # Absent /\ job.dply = api[Dep(job.req)]
    BY <1>3, ReadIsCurrent DEF UpdateDeployment
  <2>2. job.cm \in MapRef BY <1>3 DEF UpdateDeployment, TypeInv, JobShape
  <2>3. obj \in Deployment /\ obj.owner = job.dply.owner /\ obj.map = job.dply.map
    BY <2>1, <2>2 DEF Deployment, Gateway
  <2>4. DeploymentPut(job.req, obj) BY <1>3, <2>1, <2>3 DEF DeploymentPut, UpdateDeployment
  <2>5. QED BY <2>1, <2>4
<1>4. QED BY <1>1, <1>2, <1>3

LEMMA WorkerStoreStep ==
    ASSUME TypeInv, StoreCopies, JobCopy, Worker
    PROVE  StoreStep
<1>1. StoreType BY DEF TypeInv
<1>2. ASSUME NEW n \in Names, Reconcile(n) PROVE StoreStep
  BY <1>2 DEF Reconcile, ReconcileGateway, PanicInMerge, ReconcileConfigMap, ReconcileNothing,
              kubeVars, StoreStep, StoreKept
<1>3. ASSUME NEW g \in Gateways, Touch(g) PROVE StoreStep
  BY <1>1, <1>3, StatusStep DEF Touch, Fresh, StoreStep, StoreKept
<1>4. CASE CreateMap \/ UpdateMap
  BY <1>4, MapWriteStep DEF StoreStep
<1>5. CASE KeepMap \/ MapRefused \/ PanicNoAnnotations \/ KeepDeployment \/ DeploymentRefused
  BY <1>5 DEF KeepMap, MapRefused, PanicNoAnnotations, KeepDeployment, DeploymentRefused,
              kubeVars, StoreStep, StoreKept
<1>6. CASE CreateDeployment \/ ScaleDeployment \/ UpdateDeployment
  BY <1>6, DeploymentWriteStep DEF StoreStep
<1>7. CASE ManageError
  <2>1. job.req \in Gateways BY <1>7 DEF ManageError, TypeInv, JobShape
  <2>2. QED BY <1>1, <1>7, <2>1, StatusStep DEF ManageError, Fresh, StoreStep, StoreKept
<1>8. QED BY <1>2, <1>3, <1>4, <1>5, <1>6, <1>7 DEF Worker, GoOn, Succeed

LEMMA OthersStoreStep ==
    ASSUME TypeInv, Manager \/ Cluster \/ Users
    PROVE  StoreStep
<1>1. StoreType BY DEF TypeInv
<1>2. CASE Manager
  BY <1>2 DEF Manager, Deliver, Expire, kubeVars, StoreStep, StoreKept
<1>3. CASE \E g \in Gateways : Annotate(g)
  <2> PICK g \in Gateways : Annotate(g) BY <1>3
  <2> DEFINE obj == [api[Dep(g)] EXCEPT !.annotated = TRUE]
  <2>1. api[Dep(g)] # Absent /\ api[Dep(g)] \in Deployment
    BY <1>1, ReadTypes DEF Annotate, Optional
  <2>2. /\ obj \in Deployment /\ obj.owner = api[Dep(g)].owner
        /\ obj.map = api[Dep(g)].map
    BY <2>1 DEF Deployment
  <2>3. DeploymentPut(g, obj) BY <2>1, <2>2 DEF DeploymentPut, Annotate
  <2>4. QED BY <2>3 DEF StoreStep
<1>4. CASE \E k \in DepKeys \cup MapKeys : Collect(k)
  BY <1>4, KeysAssumption DEF Collect, StoreStep, Removal
<1>5. ASSUME NEW g \in Gateways, NEW s \in Specs, CreateGateway(g, s) PROVE StoreStep
  <2> DEFINE rv  == version[Cr(g)] + 1
             obj == [rv |-> 0, uid |-> rv, gen |-> rv, spec |-> s, failed |-> FALSE]
  <2>1. rv \in Nat \ {0} BY <1>1, KeyKinds DEF StoreType
  <2>2. obj \in Gateway /\ obj.uid = rv /\ obj.gen = rv BY <2>1 DEF Gateway
  <2>3. GatewayPut(g, obj) BY <1>5, <2>2 DEF GatewayPut, CreateGateway
  <2>4. QED BY <2>3 DEF StoreStep
<1>6. ASSUME NEW g \in Gateways, NEW s \in Specs, EditGateway(g, s) PROVE StoreStep
  <2> DEFINE obj == [api[Cr(g)] EXCEPT !.spec = s, !.gen = version[Cr(g)] + 1]
  <2>1. /\ version[Cr(g)] + 1 \in Nat /\ api[Cr(g)] \in Gateway
        /\ api[Cr(g)] # Absent
    BY <1>1, <1>6, KeyKinds, ReadTypes DEF StoreType, EditGateway, Optional
  <2>2. /\ obj \in Gateway /\ obj.uid = api[Cr(g)].uid
        /\ obj.gen = version[Cr(g)] + 1
    BY <2>1 DEF Gateway
  <2>3. GatewayPut(g, obj) BY <1>6, <2>1, <2>2 DEF GatewayPut, EditGateway
  <2>4. QED BY <2>3 DEF StoreStep
<1>7. ASSUME NEW g \in Gateways, DeleteGateway(g) \/ DeleteDeployment(g) PROVE StoreStep
  <2>1. Cr(g) \in Keys \ MapKeys /\ Dep(g) \in Keys \ MapKeys
    BY KeyKinds, KeysDiffer DEF MapKeys
  <2>2. QED BY <1>7, <2>1 DEF DeleteGateway, DeleteDeployment, StoreStep, Removal
<1>8. ASSUME NEW m \in SourceMaps, DeleteSource(m) PROVE StoreStep
  <2>1. Src(m) \in Keys \ MapKeys BY KeyKinds, KeysDiffer DEF MapKeys
  <2>2. QED BY <1>8, <2>1 DEF DeleteSource, StoreStep, Removal
<1>9. ASSUME NEW m \in SourceMaps, NEW d \in Data, WriteSource(m, d) PROVE StoreStep
  <2>1. [rv |-> 0, data |-> d] \in SourceMap BY DEF SourceMap
  <2>2. SourcePut(m, [rv |-> 0, data |-> d]) BY <1>9, <2>1 DEF SourcePut, WriteSource
  <2>3. QED BY <2>2 DEF StoreStep
<1>10. ASSUME NEW i \in MapIds, DeleteMap(i) PROVE StoreStep
  BY <1>10, KeyKinds DEF DeleteMap, May, Happens, StoreStep, Removal
<1>11. CASE Restart \/ Resync
  BY <1>11 DEF Restart, Resync, kubeVars, StoreStep, StoreKept
<1>12. CASE Cluster BY <1>3, <1>4, <1>12 DEF Cluster
<1>13. CASE Users
  BY <1>5, <1>6, <1>7, <1>8, <1>9, <1>10, <1>11, <1>13 DEF Users, Ask, Supply, Disturb
<1>14. QED BY <1>2, <1>12, <1>13

LEMMA NextStoreStep ==
    ASSUME TypeInv, StoreCopies, JobCopy, [Next]_vars
    PROVE  StoreStep
BY WorkerStoreStep, OthersStoreStep DEF Next, vars, kubeVars, StoreStep, StoreKept

-----------------------------------------------------------------------------
(* What a step leaves of the objects.                                      *)

VersionsGrow == \A k \in Keys : version'[k] >= version[k]

(* A uid is kept or new.                                                   *)
UidsKept ==
    \A g \in Gateways : api'[Cr(g)] # Absent =>
        \/ api[Cr(g)] # Absent /\ api'[Cr(g)].uid = api[Cr(g)].uid
        \/ api'[Cr(g)].uid = version[Cr(g)] + 1 /\ version'[Cr(g)] = version[Cr(g)] + 1

(* A map keeps its owner, and stays as long as the owner lives.            *)
MapsStay ==
    \A i \in MapIds : api[Map(i)] # Absent =>
        \/ api'[Map(i)] # Absent /\ api'[Map(i)].owner = api[Map(i)].owner
        \/ ~Live(api[Map(i)].owner)

MapsFrom ==
    \A i \in MapIds : api'[Map(i)] # Absent =>
        \/ api[Map(i)] # Absent /\ api'[Map(i)].owner = api[Map(i)].owner
        \/ pc = "configMap" /\ api'[Map(i)].owner = JobOwner /\ made' = made + 1 /\ i = made + 1

DeploymentsFrom ==
    \A g \in Gateways : api'[Dep(g)] # Absent =>
        \/ /\ api[Dep(g)] # Absent
           /\ api'[Dep(g)].owner = api[Dep(g)].owner /\ api'[Dep(g)].map = api[Dep(g)].map
        \/ /\ pc = "deployment" /\ job.dply = Absent /\ g = job.req
           /\ api'[Dep(g)].owner = JobOwner /\ api'[Dep(g)].map = job.cm.map

LEMMA StoreStepEffect ==
    ASSUME StoreType, Unmade, made \in Nat, StoreStep
    PROVE  /\ VersionsGrow /\ UidsKept /\ MapsFrom /\ DeploymentsFrom
           /\ "deleteMap" \notin UserActions => MapsStay
<1> USE DEF VersionsGrow, UidsKept, MapsStay, MapsFrom, DeploymentsFrom
<1>1. \A k \in Keys : version[k] \in Nat BY DEF StoreType
<1>2. CASE UNCHANGED <<api, version>> BY <1>1, <1>2
<1>3. CASE \E k \in Keys : Removal(k)
  <2> PICK k \in Keys : Removal(k) BY <1>3
  <2>1. /\ version' = version /\ api'[k] = Absent
        /\ \A j \in Keys \ {k} : api'[j] = api[j]
    BY DEF Removal, Remove, StoreType
  <2>2. "deleteMap" \notin UserActions =>
            \A i \in MapIds : Map(i) = k => ~Live(api[Map(i)].owner)
    BY DEF Removal, Orphan, MapKeys
  <2>3. QED BY <1>1, <2>1, <2>2, KeyKinds
<1>4. CASE \E g \in Gateways : \E obj : GatewayPut(g, obj)
  <2> PICK g \in Gateways : \E obj : GatewayPut(g, obj) BY <1>4
  <2> PICK obj : GatewayPut(g, obj) OBVIOUS
  <2>1. Cr(g) \in Keys /\ obj \in ObjectsOf(Cr(g)) BY KeyKinds DEF GatewayPut
  <2>2. /\ api'[Cr(g)] = [obj EXCEPT !.rv = version[Cr(g)] + 1]
        /\ version'[Cr(g)] = version[Cr(g)] + 1
        /\ \A j \in Keys \ {Cr(g)} : api'[j] = api[j] /\ version'[j] = version[j]
    BY <2>1, PutEffect DEF GatewayPut
  <2>3. api'[Cr(g)].uid = obj.uid BY <2>2 DEF GatewayPut, Gateway
  <2>4. VersionsGrow BY <1>1, <2>2
  <2>5. UidsKept BY <2>2, <2>3, KeyKinds, KeysDiffer DEF GatewayPut
  <2>6. \A h \in Gateways : api'[Dep(h)] = api[Dep(h)] BY <2>2, KeyKinds, KeysDiffer
  <2>7. \A i \in MapIds : api'[Map(i)] = api[Map(i)] BY <2>2, KeyKinds, KeysDiffer
  <2>8. QED BY <2>4, <2>5, <2>6, <2>7
<1>5. CASE \E g \in Gateways : \E obj : DeploymentPut(g, obj)
  <2> PICK g \in Gateways : \E obj : DeploymentPut(g, obj) BY <1>5
  <2> PICK obj : DeploymentPut(g, obj) OBVIOUS
  <2>1. Dep(g) \in Keys /\ obj \in ObjectsOf(Dep(g)) BY KeyKinds DEF DeploymentPut
  <2>2. /\ api'[Dep(g)] = [obj EXCEPT !.rv = version[Dep(g)] + 1]
        /\ version'[Dep(g)] = version[Dep(g)] + 1
        /\ \A j \in Keys \ {Dep(g)} : api'[j] = api[j] /\ version'[j] = version[j]
    BY <2>1, PutEffect DEF DeploymentPut
  <2>3. api'[Dep(g)].owner = obj.owner /\ api'[Dep(g)].map = obj.map
    BY <2>2 DEF DeploymentPut, Deployment
  <2>4. VersionsGrow BY <1>1, <2>2
  <2>5. \A h \in Gateways : api'[Cr(h)] = api[Cr(h)] BY <2>2, KeyKinds, KeysDiffer
  <2>6. DeploymentsFrom
    <3>1. \A h \in Gateways \ {g} : api'[Dep(h)] = api[Dep(h)]
      BY <2>2, KeyKinds, KeysDiffer
    <3>2. QED BY <2>3, <3>1 DEF DeploymentPut
  <2>7. \A i \in MapIds : api'[Map(i)] = api[Map(i)] BY <2>2, KeyKinds, KeysDiffer
  <2>8. QED BY <2>4, <2>5, <2>6, <2>7
<1>6. CASE \E m \in SourceMaps : \E obj : SourcePut(m, obj)
  <2> PICK m \in SourceMaps : \E obj : SourcePut(m, obj) BY <1>6
  <2> PICK obj : SourcePut(m, obj) OBVIOUS
  <2>1. Src(m) \in Keys /\ obj \in ObjectsOf(Src(m)) BY KeyKinds DEF SourcePut
  <2>2. /\ version'[Src(m)] = version[Src(m)] + 1
        /\ \A j \in Keys \ {Src(m)} : api'[j] = api[j] /\ version'[j] = version[j]
    BY <2>1, PutEffect DEF SourcePut
  <2>3. VersionsGrow BY <1>1, <2>2
  <2>4. \A h \in Gateways : api'[Cr(h)] = api[Cr(h)] /\ api'[Dep(h)] = api[Dep(h)]
    BY <2>2, KeyKinds, KeysDiffer
  <2>5. \A i \in MapIds : api'[Map(i)] = api[Map(i)] BY <2>2, KeyKinds, KeysDiffer
  <2>6. QED BY <2>3, <2>4, <2>5
<1>7. CASE \E i \in MapIds : \E obj : MapPut(i, obj)
  <2> PICK i \in MapIds : \E obj : MapPut(i, obj) BY <1>7
  <2> PICK obj : MapPut(i, obj) OBVIOUS
  <2>1. Map(i) \in Keys /\ obj \in ObjectsOf(Map(i)) BY KeyKinds DEF MapPut
  <2>2. /\ api'[Map(i)] = [obj EXCEPT !.rv = version[Map(i)] + 1] /\ api'[Map(i)] # Absent
        /\ version'[Map(i)] = version[Map(i)] + 1
        /\ \A j \in Keys \ {Map(i)} : api'[j] = api[j] /\ version'[j] = version[j]
    BY <2>1, PutEffect DEF MapPut
  <2>3. api'[Map(i)].owner = obj.owner BY <2>2 DEF MapPut, GeneratedMap
  <2>4. VersionsGrow BY <1>1, <2>2
  <2>5. \A h \in Gateways : api'[Cr(h)] = api[Cr(h)] /\ api'[Dep(h)] = api[Dep(h)]
    BY <2>2, KeyKinds, KeysDiffer
  <2>6. \A j \in MapIds \ {i} : api'[Map(j)] = api[Map(j)] BY <2>2, KeyKinds, KeysDiffer
  <2>7. i = made + 1 => api[Map(i)] = Absent BY DEF Unmade, MapIds
  <2>8. MapsStay BY <2>2, <2>3, <2>6, <2>7 DEF MapPut
  <2>9. MapsFrom BY <2>3, <2>6 DEF MapPut
  <2>10. QED BY <2>4, <2>5, <2>8, <2>9
<1>8. QED
  BY <1>2, <1>3, <1>4, <1>5, <1>6, <1>7 DEF StoreStep, StoreKept, Advance, Relist

(* Nobody sees an object that was not there.                               *)
LEMMA ReadsFrom ==
    ASSUME StoreType, StoreStep
    PROVE  \A k \in Keys :
        /\ \/ cache'[k] = cache[k] \/ cache'[k] = api[k]
           \/ \E i \in 1..Len(stream[k]) : cache'[k] = stream[k][i]
        /\ \A i \in 1..Len(stream'[k]) :
               \/ stream'[k][i] = api'[k]
               \/ \E j \in 1..Len(stream[k]) : stream'[k][i] = stream[k][j]
<1> SUFFICES ASSUME NEW k \in Keys
    PROVE  /\ \/ cache'[k] = cache[k] \/ cache'[k] = api[k]
              \/ \E i \in 1..Len(stream[k]) : cache'[k] = stream[k][i]
           /\ \A i \in 1..Len(stream'[k]) :
                  \/ stream'[k][i] = api'[k]
                  \/ \E j \in 1..Len(stream[k]) : stream'[k][i] = stream[k][j]
  OBVIOUS
<1>1. stream[k] \in Seq(Optional(ObjectsOf(k))) BY DEF StoreType
<1>2. CASE StoreKept BY <1>2 DEF StoreKept
<1>3. CASE \E j \in Keys : Advance(j)
  <2> PICK j \in Keys : Advance(j) BY <1>3
  <2>1. CASE j = k
    <3>1. stream[k] # <<>> /\ cache'[k] = stream[k][1] /\ stream'[k] = Tail(stream[k])
      BY <1>1, <2>1 DEF Advance, StoreType
    <3>2. 1 \in 1..Len(stream[k]) BY <1>1, <3>1
    <3>3. \A i \in 1..Len(stream'[k]) :
              i + 1 \in 1..Len(stream[k]) /\ stream'[k][i] = stream[k][i + 1]
      BY <1>1, <3>1
    <3>4. QED BY <3>1, <3>2, <3>3
  <2>2. CASE j # k BY <2>2 DEF Advance, StoreType
  <2>3. QED BY <2>1, <2>2
<1>4. CASE Relist BY <1>4 DEF Relist
<1>5. ASSUME cache' = cache, stream'[k] = stream[k] \/ stream'[k] = Append(stream[k], api'[k])
      PROVE  /\ cache'[k] = cache[k]
             /\ \A i \in 1..Len(stream'[k]) :
                    \/ stream'[k][i] = api'[k]
                    \/ \E j \in 1..Len(stream[k]) : stream'[k][i] = stream[k][j]
  <2>1. CASE stream'[k] = stream[k] BY <1>5, <2>1
  <2>2. CASE stream'[k] = Append(stream[k], api'[k])
    <3>1. ASSUME NEW i \in 1..Len(stream'[k])
          PROVE  \/ stream'[k][i] = api'[k]
                 \/ i \in 1..Len(stream[k]) /\ stream'[k][i] = stream[k][i]
      BY <1>1, <2>2
    <3>2. QED BY <1>5, <3>1
  <2>3. QED BY <1>5, <2>1, <2>2
<1>6. CASE \E j \in Keys : Removal(j)
  <2> PICK j \in Keys : Removal(j) BY <1>6
  <2>1. stream'[k] = stream[k] \/ stream'[k] = Append(stream[k], api'[k])
    BY DEF Removal, Remove, StoreType
  <2>2. QED BY <1>5, <2>1 DEF Removal
<1>7. ASSUME NEW j \in Keys, NEW obj \in ObjectsOf(j), Put(j, obj), UNCHANGED cache
      PROVE  stream'[k] = stream[k] \/ stream'[k] = Append(stream[k], api'[k])
  BY <1>7, PutEffect
<1>8. CASE \E g \in Gateways : \E obj : GatewayPut(g, obj)
  BY <1>5, <1>7, <1>8, KeyKinds DEF GatewayPut
<1>9. CASE \E g \in Gateways : \E obj : DeploymentPut(g, obj)
  BY <1>5, <1>7, <1>9, KeyKinds DEF DeploymentPut
<1>10. CASE \E m \in SourceMaps : \E obj : SourcePut(m, obj)
  BY <1>5, <1>7, <1>10, KeyKinds DEF SourcePut
<1>11. CASE \E i \in MapIds : \E obj : MapPut(i, obj)
  BY <1>5, <1>7, <1>11, KeyKinds DEF MapPut
<1>12. QED BY <1>2, <1>3, <1>4, <1>6, <1>8, <1>9, <1>10, <1>11 DEF StoreStep

LEMMA StoreCopiesStep ==
    ASSUME StoreType, StoreCopies, StoreStep
    PROVE  StoreCopies'
<1>1. ASSUME NEW k \in Keys, NEW obj \in ObjectsOf(k), Put(k, obj), UNCHANGED cache
      PROVE  StoreCopies'
  BY <1>1, CopiesAfterPut
<1>2. CASE StoreKept BY <1>2, CopiesAfterStutter DEF StoreKept
<1>3. CASE \E k \in Keys : Advance(k) BY <1>3, CopiesAfterAdvance
<1>4. CASE Relist BY <1>4, CopiesAfterRelist
<1>5. CASE \E k \in Keys : Removal(k) BY <1>5, CopiesAfterRemove DEF Removal
<1>6. CASE \E g \in Gateways : \E obj : GatewayPut(g, obj)
  BY <1>1, <1>6, KeyKinds DEF GatewayPut
<1>7. CASE \E g \in Gateways : \E obj : DeploymentPut(g, obj)
  BY <1>1, <1>7, KeyKinds DEF DeploymentPut
<1>8. CASE \E m \in SourceMaps : \E obj : SourcePut(m, obj)
  BY <1>1, <1>8, KeyKinds DEF SourcePut
<1>9. CASE \E i \in MapIds : \E obj : MapPut(i, obj)
  BY <1>1, <1>9, KeyKinds DEF MapPut
<1>10. QED BY <1>2, <1>3, <1>4, <1>5, <1>6, <1>7, <1>8, <1>9 DEF StoreStep

LEMMA StoreBornStep ==
    ASSUME StoreType, StoreType', StoreBorn, StoreStep, VersionsGrow, UidsKept
    PROVE  StoreBorn'
<1> SUFFICES ASSUME NEW g \in Gateways
    PROVE  /\ cache'[Cr(g)] # Absent => cache'[Cr(g)].uid <= version'[Cr(g)]
           /\ api'[Cr(g)] # Absent => api'[Cr(g)].uid <= version'[Cr(g)]
           /\ \A i \in 1..Len(stream'[Cr(g)]) :
                  stream'[Cr(g)][i] # Absent => stream'[Cr(g)][i].uid <= version'[Cr(g)]
  BY DEF StoreBorn
<1>1. /\ Cr(g) \in Keys /\ ObjectsOf(Cr(g)) = Gateway
      /\ version[Cr(g)] \in Nat /\ version'[Cr(g)] \in Nat
      /\ version'[Cr(g)] >= version[Cr(g)]
  BY KeyKinds DEF StoreType, VersionsGrow
<1>2. ASSUME NEW x \in Optional(Gateway), x # Absent => x.uid <= version[Cr(g)]
      PROVE  x # Absent => x.uid <= version'[Cr(g)]
  <2>1. x # Absent => x.uid \in Nat BY DEF Optional, Gateway
  <2>2. QED BY <1>1, <1>2, <2>1
<1>3. api'[Cr(g)] # Absent => api'[Cr(g)].uid <= version'[Cr(g)]
  <2>1. api[Cr(g)] \in Optional(Gateway) BY <1>1 DEF StoreType
  <2>2. CASE api[Cr(g)] # Absent /\ api'[Cr(g)].uid = api[Cr(g)].uid
    BY <1>2, <2>1, <2>2 DEF StoreBorn
  <2>3. CASE api'[Cr(g)].uid = version[Cr(g)] + 1 /\ version'[Cr(g)] = version[Cr(g)] + 1
    BY <1>1, <2>3
  <2>4. QED BY <2>2, <2>3 DEF UidsKept
<1>4. cache'[Cr(g)] # Absent => cache'[Cr(g)].uid <= version'[Cr(g)]
  <2>1. /\ cache[Cr(g)] \in Optional(Gateway) /\ api[Cr(g)] \in Optional(Gateway)
        /\ \A i \in 1..Len(stream[Cr(g)]) : stream[Cr(g)][i] \in Optional(Gateway)
    BY <1>1 DEF StoreType
  <2>2. \/ cache'[Cr(g)] = cache[Cr(g)] \/ cache'[Cr(g)] = api[Cr(g)]
        \/ \E i \in 1..Len(stream[Cr(g)]) : cache'[Cr(g)] = stream[Cr(g)][i]
    BY <1>1, ReadsFrom
  <2>3. QED BY <1>2, <2>1, <2>2 DEF StoreBorn
<1>5. ASSUME NEW i \in 1..Len(stream'[Cr(g)])
      PROVE  stream'[Cr(g)][i] # Absent => stream'[Cr(g)][i].uid <= version'[Cr(g)]
  <2>1. \A j \in 1..Len(stream[Cr(g)]) : stream[Cr(g)][j] \in Optional(Gateway)
    BY <1>1 DEF StoreType
  <2>2. \/ stream'[Cr(g)][i] = api'[Cr(g)]
        \/ \E j \in 1..Len(stream[Cr(g)]) : stream'[Cr(g)][i] = stream[Cr(g)][j]
    BY <1>1, ReadsFrom
  <2>3. QED BY <1>2, <1>3, <2>1, <2>2 DEF StoreBorn
<1>6. QED BY <1>3, <1>4, <1>5

(* What a step makes of the worker's variables: it goes on with what it    *)
(* has read, or it starts with a new gateway.                              *)
JobGoesOn == Working /\ UNCHANGED <<job.req, job.inst, job.dply>>
JobStarts ==
    /\ StoreKept /\ pc' = "configMap"
    /\ job'.req \in Gateways /\ cache[Cr(job'.req)] # Absent
    /\ job'.inst = cache[Cr(job'.req)] /\ job'.dply = cache[Dep(job'.req)]

LEMMA JobStep ==
    ASSUME TypeInv, [Next]_vars
    PROVE  /\ Working' => JobGoesOn \/ JobStarts
           /\ pc' = "deployment" /\ job'.dply = Absent =>
                 \/ pc = "deployment" /\ job' = job
                 \/ CreateMap
           /\ made' = made \/ made' = made + 1
<1> USE DEF JobGoesOn, Working
<1>1. CASE \E n \in Names : Reconcile(n)
  <2> PICK n \in Names : Reconcile(n) BY <1>1
  <2>1. CASE ReconcileGateway(n)
    <3> DEFINE base == [NoJob EXCEPT !.req = n, !.inst = cache[Cr(n)], !.dply = cache[Dep(n)]]
    <3>1. /\ n \in Gateways /\ cache[Cr(n)] # Absent /\ StoreKept /\ made' = made
          /\ pc' \in {"configMap", "error"}
          /\ pc' = "configMap" => \E d : job' = [base EXCEPT !.data = d]
      BY <2>1 DEF ReconcileGateway, IsGateway, Instance, kubeVars, StoreKept
    <3>2. \A d : LET j == [base EXCEPT !.data = d]
                 IN  j.req = n /\ j.inst = cache[Cr(n)] /\ j.dply = cache[Dep(n)]
      BY DEF NoJob
    <3>3. QED BY <3>1, <3>2 DEF JobStarts
  <2>2. CASE PanicInMerge(n) \/ ReconcileConfigMap(n) \/ ReconcileNothing(n)
    BY <2>2 DEF PanicInMerge, ReconcileConfigMap, ReconcileNothing, Start
  <2>3. QED BY <2>1, <2>2 DEF Reconcile
<1>2. CASE \E g \in Gateways : Touch(g)
  BY <1>2 DEF Touch, TouchNext, Done, Goto, Requeue
<1>3. CASE CreateMap \/ UpdateMap \/ KeepMap
  <2>1. /\ pc = "configMap" /\ pc' = "deployment"
        /\ \E cm : job' = [job EXCEPT !.cm = cm]
    BY <1>3 DEF CreateMap, UpdateMap, KeepMap, Goto
  <2>2. UNCHANGED <<job.req, job.inst, job.dply>>
    BY <2>1 DEF TypeInv, WorkType
  <2>3. UpdateMap \/ KeepMap => job.dply # Absent BY DEF UpdateMap, KeepMap, FoundMap
  <2>4. made' = made \/ made' = made + 1 BY <1>3 DEF CreateMap, UpdateMap, KeepMap
  <2>5. QED BY <1>3, <2>1, <2>2, <2>3, <2>4
<1>4. CASE MapRefused \/ DeploymentRefused
  BY <1>4 DEF MapRefused, DeploymentRefused, Goto
<1>5. CASE CreateDeployment \/ ScaleDeployment \/ UpdateDeployment \/ ManageError
  BY <1>5 DEF CreateDeployment, ScaleDeployment, UpdateDeployment, ManageError, Done
<1>6. CASE PanicNoAnnotations \/ KeepDeployment
  BY <1>6 DEF PanicNoAnnotations, KeepDeployment, Requeue
<1>7. CASE Manager BY <1>7 DEF Manager, Deliver, Expire
<1>8. CASE Cluster BY <1>8 DEF Cluster, Annotate, Collect, workVars
<1>9. CASE Users
  BY <1>9 DEF Users, Ask, Supply, Disturb, CreateGateway, EditGateway, DeleteGateway,
              DeleteDeployment, WriteSource,
              DeleteSource, DeleteMap, Restart, Resync, May, Happens, workVars
<1>10. CASE UNCHANGED vars BY <1>10 DEF vars, workVars
<1>11. QED
  BY <1>1, <1>2, <1>3, <1>4, <1>5, <1>6, <1>7, <1>8, <1>9, <1>10 DEF Next, Worker, GoOn, Succeed

-----------------------------------------------------------------------------
(* The invariant is kept.                                                  *)

(* An owner that is known does not come to life again, so that a map that  *)
(* lasts as long as its owner goes on doing so.                            *)
LEMMA LastsOn ==
    ASSUME StoreType, NEW o \in Owner, Born(o), NEW i \in MapIds, Lasts(i, o),
           UidsKept, MapsStay
    PROVE  Live(o)' => Live(o) /\ api'[Map(i)] # Absent /\ api'[Map(i)].owner = o
<1> SUFFICES ASSUME Live(o)' PROVE Live(o) /\ api'[Map(i)] # Absent /\ api'[Map(i)].owner = o
  OBVIOUS
<1>1. o.gw \in Gateways /\ o.uid \in Nat BY DEF Owner
<1>2. version[Cr(o.gw)] \in Nat BY <1>1, KeyKinds DEF StoreType
<1>3. o.uid # version[Cr(o.gw)] + 1 BY <1>1, <1>2 DEF Born
<1>4. api'[Cr(o.gw)] # Absent /\ api'[Cr(o.gw)].uid = o.uid BY DEF Live
<1>5. Live(o) BY <1>1, <1>3, <1>4 DEF Live, UidsKept
<1>6. QED BY <1>5 DEF Lasts, MapsStay

LEMMA BornOn ==
    ASSUME StoreType, StoreType', NEW o \in Owner, Born(o), VersionsGrow
    PROVE  o.uid <= version'[Cr(o.gw)]
<1>1. o.gw \in Gateways /\ o.uid \in Nat BY DEF Owner
<1>2. /\ version[Cr(o.gw)] \in Nat /\ version'[Cr(o.gw)] \in Nat
      /\ version'[Cr(o.gw)] >= version[Cr(o.gw)]
  BY <1>1, KeyKinds DEF StoreType, VersionsGrow
<1>3. QED BY <1>1, <1>2 DEF Born

(* Writing the map, and then the deployment, takes one gateway object.     *)
LEMMA OwnerTypes ==
    ASSUME TypeInv
    PROVE  /\ Working => JobOwner \in Owner
           /\ \A g \in Gateways : api[Dep(g)] # Absent =>
                  api[Dep(g)].owner \in Owner /\ api[Dep(g)].map \in MapIds
           /\ \A i \in MapIds : api[Map(i)] # Absent => api[Map(i)].owner \in Owner
           /\ pc = "deployment" => job.cm.map \in MapIds
<1>1. StoreType BY DEF TypeInv
<1>2. Working => job.req \in Gateways /\ job.inst \in Gateway
  BY DEF TypeInv, JobShape, Working
<1>3. Working => JobOwner \in Owner BY <1>2 DEF JobOwner, Owner, Gateway
<1>4. pc = "deployment" => job.cm.map \in MapIds BY DEF TypeInv, JobShape, MapRef
<1>5. QED
  BY <1>1, <1>3, <1>4, ReadTypes DEF Optional, Deployment, GeneratedMap

LEMMA MountInvInit == Init => MountInv
<1> SUFFICES ASSUME Init PROVE MountInv OBVIOUS
<1>1. TypeInv BY InitTypeInv
<1>2. \A k \in Keys : api[k] = Absent /\ cache[k] = Absent /\ stream[k] = <<>>
  BY DEF Init
<1>3. pc = "idle" BY DEF Init
<1>4. StoreCopies
  <2>1. Len(<<>>) = 0 OBVIOUS
  <2>2. \A k \in Keys : Len(stream[k]) = 0 BY <1>2, <2>1
  <2>3. \A k \in Keys : \A i \in 1..Len(stream[k]) : Copy(k, stream[k][i]) BY <2>2
  <2>4. QED BY <1>2, <2>3 DEF StoreCopies, Copy
<1>5. StoreBorn BY <1>2, KeyKinds DEF StoreBorn
<1>6. OwnersBorn BY <1>2, <1>3, KeyKinds DEF OwnersBorn, Working
<1>7. Unmade /\ MountedMapExists BY <1>2, KeyKinds DEF Unmade, MountedMapExists
<1>8. JobCopy /\ JobMap BY <1>3 DEF JobCopy, JobMap, Working
<1>9. QED BY <1>1, <1>4, <1>5, <1>6, <1>7, <1>8 DEF MountInv, CopyInv

LEMMA CopyInvStep ==
    ASSUME CopyInv, [Next]_vars
    PROVE  CopyInv'
<1> USE DEF CopyInv
<1>1. TypeInv' BY TypeInvStep
<1>2. StoreType /\ StoreType' /\ made \in Nat /\ made' \in Nat
  BY <1>1, BoundsAssumption DEF TypeInv, CountType
<1>3. StoreStep BY NextStoreStep
<1>4. VersionsGrow /\ UidsKept /\ MapsFrom /\ DeploymentsFrom
  BY <1>2, <1>3, StoreStepEffect
<1>5. StoreCopies' BY <1>2, <1>3, StoreCopiesStep
<1>6. StoreBorn' BY <1>2, <1>3, <1>4, StoreBornStep
<1>7. ASSUME Working' PROVE JobGoesOn \/ JobStarts BY <1>7, JobStep
<1>8. JobCopy'
  <2> SUFFICES ASSUME Working' PROVE Copy(Dep(job.req), job.dply)'
    BY DEF JobCopy
  <2>1. CASE JobStarts
    <3>1. Dep(job'.req) \in Keys BY <2>1, KeyKinds DEF JobStarts
    <3>2. QED BY <2>1, <3>1 DEF JobStarts, StoreKept, StoreCopies, Copy
  <2>2. CASE JobGoesOn
    <3> DEFINE k == Dep(job.req)
               x == job.dply
    <3>1. /\ k \in Keys /\ Copy(k, x) /\ ObjectsOf(k) = Deployment
          /\ x # Absent => x.rv \in Nat
      BY <2>2, KeyKinds
      DEF JobGoesOn, TypeInv, JobShape, WorkType, JobCopy, Working, Optional, Deployment
    <3>2. ASSUME NEW j \in Keys, NEW obj \in ObjectsOf(j), Put(j, obj)
          PROVE  Copy(k, x)'
      BY <1>2, <2>2, <3>1, <3>2, CopyAfterPut DEF Copy, JobGoesOn
    <3>3. CASE StoreKept \/ Relist \/ \E j \in Keys : Advance(j)
      BY <2>2, <3>1, <3>3 DEF StoreKept, Relist, Advance, Copy, JobGoesOn
    <3>4. CASE \E j \in Keys : Removal(j)
      BY <1>2, <2>2, <3>1, <3>4 DEF Removal, Remove, Copy, JobGoesOn, StoreType
    <3>5. Copy(k, x)'
      BY <1>3, <3>2, <3>3, <3>4, KeyKinds
      DEF StoreStep, GatewayPut, DeploymentPut, SourcePut, MapPut
    <3>6. QED BY <2>2, <3>5 DEF JobGoesOn, Copy
  <2>3. QED BY <1>7, <2>1, <2>2
<1>9. Working' => Born(JobOwner)'
  <2> SUFFICES ASSUME Working' PROVE Born(JobOwner)' OBVIOUS
  <2>1. CASE JobStarts
    BY <2>1 DEF JobStarts, StoreKept, StoreBorn, Born, JobOwner
  <2>2. CASE JobGoesOn
    <3>1. JobOwner \in Owner /\ Born(JobOwner)
      BY <2>2, OwnerTypes DEF JobGoesOn, OwnersBorn
    <3>2. JobOwner.uid <= version'[Cr(JobOwner.gw)]
      BY <1>2, <1>4, <3>1, BornOn
    <3>3. JobOwner' = JobOwner BY <2>2 DEF JobGoesOn, JobOwner
    <3>4. QED BY <3>2, <3>3 DEF Born
  <2>3. QED BY <1>7, <2>1, <2>2
<1>10. OwnersBorn'
  <2>1. ASSUME NEW o \in Owner, Born(o) PROVE Born(o)'
    BY <1>2, <1>4, <2>1, BornOn DEF Born
  <2>2. Working => Born(JobOwner)' \/ JobOwner' # JobOwner
    BY <2>1, OwnerTypes DEF OwnersBorn, Born
  <2>3. Working => JobOwner.uid <= version'[Cr(JobOwner.gw)]
    BY <2>1, OwnerTypes DEF OwnersBorn, Born
  <2>4. ASSUME NEW g \in Gateways, api'[Dep(g)] # Absent PROVE Born(api[Dep(g)].owner)'
    BY <1>4, <2>1, <2>3, <2>4, OwnerTypes DEF DeploymentsFrom, OwnersBorn, Born, Working
  <2>5. ASSUME NEW i \in MapIds, api'[Map(i)] # Absent PROVE Born(api[Map(i)].owner)'
    BY <1>4, <2>1, <2>3, <2>5, OwnerTypes DEF MapsFrom, OwnersBorn, Born, Working
  <2>6. QED BY <1>9, <2>4, <2>5 DEF OwnersBorn
<1>11. Unmade'
  <2> SUFFICES ASSUME NEW i \in MapIds, i > made', api'[Map(i)] # Absent PROVE FALSE
    BY DEF Unmade
  <2>1. i \in Nat BY DEF MapIds
  <2>2. made' = made \/ made' = made + 1 BY JobStep
  <2>3. i > made BY <1>2, <2>1, <2>2
  <2>4. api[Map(i)] = Absent BY <2>3 DEF Unmade
  <2>5. made' = made + 1 /\ i = made + 1 BY <1>4, <2>4 DEF MapsFrom
  <2>6. QED BY <1>2, <2>5
<1>12. QED BY <1>1, <1>5, <1>6, <1>8, <1>10, <1>11

LEMMA MountInvStep ==
    ASSUME "deleteMap" \notin UserActions, MountInv, [Next]_vars
    PROVE  MountInv'
<1> USE DEF MountInv, CopyInv
<1>1. CopyInv' BY CopyInvStep
<1>2. StoreType /\ StoreType' /\ made \in Nat /\ made' \in Nat
  BY <1>1, BoundsAssumption DEF TypeInv, CountType
<1>3. StoreStep BY NextStoreStep
<1>4. UidsKept /\ MapsStay /\ MapsFrom /\ DeploymentsFrom
  BY <1>2, <1>3, StoreStepEffect
<1>5. ASSUME NEW o \in Owner, Born(o), NEW i \in MapIds, Lasts(i, o),
              NEW p, p = o
       PROVE  Lasts(i, p)'
  BY <1>2, <1>4, <1>5, LastsOn DEF Lasts, Live
<1>6. JobMap'
  <2> SUFFICES ASSUME pc' = "deployment", job'.dply = Absent
               PROVE  Lasts(job.cm.map, JobOwner)'
    BY DEF JobMap
  <2>1. CASE pc = "deployment" /\ job' = job
    <3>1. /\ JobOwner \in Owner /\ Born(JobOwner) /\ job.cm.map \in MapIds
          /\ Lasts(job.cm.map, JobOwner)
      BY <2>1, OwnerTypes DEF OwnersBorn, Working, JobMap
    <3>2. Live(JobOwner)' =>
              api'[Map(job.cm.map)] # Absent /\ api'[Map(job.cm.map)].owner = JobOwner
      <4>1. UidsKept /\ MapsStay BY <1>4
      <4>2. QED BY <1>2, <3>1, <4>1, <2>1, LastsOn DEF Live, JobOwner
    <3>3. QED BY <2>1, <3>2 DEF Lasts, JobOwner
  <2>2. CASE CreateMap
    <3> DEFINE m == made + 1
               obj == NewMap
    <3>1. /\ m \in MapIds /\ Put(Map(m), obj) /\ job.data \in Merged
          /\ JobOwner \in Owner
      BY <2>2, OwnerTypes, BoundsAssumption
      DEF CreateMap, TypeInv, CountType, MapIds, JobShape, Working
    <3>2. job'.cm.map = m /\ job'.req = job.req /\ job'.inst = job.inst
      BY <2>2 DEF CreateMap, TypeInv, WorkType
    <3>3. Map(m) \in Keys /\ obj \in ObjectsOf(Map(m))
      BY <3>1, KeyKinds DEF NewMap, GeneratedMap
    <3>4. /\ api'[Map(m)] = [obj EXCEPT !.rv = version[Map(m)] + 1]
          /\ api'[Map(m)] # Absent
      BY <1>2, <3>1, <3>3, PutEffect
    <3>5. api'[Map(m)].owner = JobOwner BY <3>4 DEF NewMap
    <3>6. QED BY <3>2, <3>4, <3>5 DEF Lasts, JobOwner
  <2>3. QED BY <2>1, <2>2, JobStep
<1>7. MountedMapExists'
  <2> SUFFICES ASSUME NEW g \in Gateways, api'[Dep(g)] # Absent, Live(api[Dep(g)].owner)'
      PROVE  /\ api'[Map(api'[Dep(g)].map)] # Absent
             /\ api'[Map(api'[Dep(g)].map)].owner = api'[Dep(g)].owner
    BY DEF MountedMapExists
  <2>1. PICK o \in Owner, i \in MapIds :
            /\ Born(o) /\ Lasts(i, o)
            /\ api'[Dep(g)].owner = o /\ api'[Dep(g)].map = i
    <3>1. CASE /\ api[Dep(g)] # Absent /\ api'[Dep(g)].owner = api[Dep(g)].owner
               /\ api'[Dep(g)].map = api[Dep(g)].map
      BY <3>1, OwnerTypes DEF OwnersBorn, MountedMapExists, Lasts
    <3>2. CASE /\ pc = "deployment" /\ job.dply = Absent
               /\ api'[Dep(g)].owner = JobOwner /\ api'[Dep(g)].map = job.cm.map
      BY <3>2, OwnerTypes DEF OwnersBorn, JobMap, Working
    <3>3. QED BY <1>4, <3>1, <3>2 DEF DeploymentsFrom
  <2>2. Live(o)' BY <2>1 DEF Live
  <2>3. QED BY <1>2, <1>4, <2>1, <2>2, LastsOn
<1>8. QED BY <1>1, <1>6, <1>7

(* The pods of a gateway that lives never lose the config map they mount:  *)
(* for any number of gateways and sources, with crashes, stale caches and  *)
(* gateways that are deleted and created anew, as long as no user deletes  *)
(* a generated map.                                                        *)
THEOREM MountedMapAlwaysExists ==
    ASSUME "deleteMap" \notin UserActions
    PROVE  Spec => []MountedMapExists
<1>1. MountInv /\ [Next]_vars => MountInv' BY MountInvStep
<1>2. MountInv => MountedMapExists BY DEF MountInv
<1>3. QED BY MountInvInit, <1>1, <1>2, PTL DEF Spec
=============================================================================
