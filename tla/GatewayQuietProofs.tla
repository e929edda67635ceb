------------------------- MODULE GatewayQuietProofs -------------------------
(* What holds of GatewayController when the caches are up to date whenever *)
(* the worker starts on a name (Prompt) and the users wait for the         *)
(* operator (Patient), which may be killed at any time: what is as it      *)
(* should be is left alone, and what is not is never forgotten.            *)
EXTENDS GatewayControllerProofs, GatewayReports

(* The last event of a watch is what the API server holds.                 *)
Known(k) == IF stream[k] = <<>> THEN cache[k] ELSE stream[k][Len(stream[k])]
WatchInv == \A k \in Keys : Known(k) = api[k]

(* While the worker is on a gateway nobody edits it, nor its sources.      *)
Handling  == pc \in {"configMap", "deployment", "error"}
JobAsks   == Handling => api[Cr(job.req)] = job.inst
JobMerged == Working => /\ Mergeable(job.inst.spec, api)
                        /\ job.data = Merge(job.inst.spec, api)

(* The maps that the deployment of a gateway names, and that the worker    *)
(* has found or made for it, were made for that gateway.                   *)
MadeFor(g, i) == i <= made /\ (api[Map(i)] # Absent => api[Map(i)].owner.gw = g)
MapsOwn ==
    /\ \A g \in Gateways : api[Dep(g)] # Absent => MadeFor(g, api[Dep(g)].map)
    /\ Working /\ job.dply # Absent => MadeFor(job.req, job.dply.map)
    /\ pc = "deployment" => MadeFor(job.req, job.cm.map)

(* The worker compares with the map that is there, unless that is gone.    *)
JobMapRead ==
    pc = "configMap" /\ job.dply # Absent =>
        LET k == Map(job.dply.map) IN api[k] # Absent => stream[k] = <<>>

(* After that the map holds what the worker has merged.                    *)
JobMapWritten ==
    pc = "deployment" =>
        /\ LET m == api[Map(job.cm.map)]
           IN  m # Absent => m.data = job.data /\ m.rv = job.cm.rv
        /\ job.dply # Absent =>
               job.cm.map = job.dply.map \/ api[Map(job.dply.map)] = Absent

SteadyInv ==
    CopyInv /\ WatchInv /\ JobAsks /\ JobMerged /\ MapsOwn /\ JobMapRead /\ JobMapWritten

-----------------------------------------------------------------------------
(* What the caches hold when the worker starts.                            *)

LEMMA WatchWrites ==
    ASSUME StoreType, StoreType', WatchInv, NEW k \in Keys,
           stream' = [stream EXCEPT ![k] = Append(@, api'[k])],
           \A j \in Keys \ {k} : api'[j] = api[j], UNCHANGED cache
    PROVE  WatchInv'
<1>1. stream[k] \in Seq(Optional(ObjectsOf(k))) /\ api'[k] \in Optional(ObjectsOf(k))
  BY DEF StoreType
<1>2. /\ Append(stream[k], api'[k]) # <<>>
      /\ Append(stream[k], api'[k])[Len(Append(stream[k], api'[k]))] = api'[k]
  BY <1>1
<1>3. stream'[k] = Append(stream[k], api'[k]) BY DEF StoreType
<1>4. Known(k)' = api'[k] BY <1>2, <1>3 DEF Known
<1>5. \A j \in Keys \ {k} : stream'[j] = stream[j] BY DEF StoreType
<1>6. QED BY <1>4, <1>5 DEF WatchInv, Known

LEMMA LastOfTail ==
    ASSUME NEW S, NEW s \in Seq(S), s # <<>>
    PROVE  IF Tail(s) = <<>> THEN Head(s) = s[Len(s)]
           ELSE Tail(s)[Len(Tail(s))] = s[Len(s)]
<1>1. /\ Len(s) \in Nat /\ Len(s) # 0 /\ Len(Tail(s)) = Len(s) - 1
      /\ Head(s) = s[1]
  OBVIOUS
<1>2. CASE Tail(s) = <<>>
  <2>1. Len(<<>>) = 0 OBVIOUS
  <2>2. Len(Tail(s)) = 0 BY <1>2, <2>1, Zenon
  <2>3. \A n, t \in Nat : n # 0 /\ t = n - 1 /\ t = 0 => n = 1 OBVIOUS
  <2>4. Len(Tail(s)) \in Nat BY <2>2
  <2>5. Len(s) = 1 BY <1>1, <2>2, <2>3, <2>4, Zenon
  <2>6. QED BY <1>1, <1>2, <2>5
<1>3. CASE Tail(s) # <<>>
  <2>1. Len(s) > 1 BY <1>3
  <2>2. Tail(s)[Len(s) - 1] = s[Len(s)] BY <2>1
  <2>3. QED BY <1>1, <1>3, <2>2
<1>4. QED BY <1>2, <1>3

LEMMA WatchAdvance ==
    ASSUME StoreType, WatchInv, NEW k \in Keys, Advance(k)
    PROVE  WatchInv'
<1>1. /\ stream[k] \in Seq(Optional(ObjectsOf(k))) /\ stream[k] # <<>>
      /\ cache'[k] = Head(stream[k]) /\ stream'[k] = Tail(stream[k]) /\ api' = api
      /\ \A j \in Keys \ {k} : cache'[j] = cache[j] /\ stream'[j] = stream[j]
  BY DEF Advance, StoreType
<1>2. stream[k][Len(stream[k])] = api[k] BY <1>1 DEF WatchInv, Known
<1>3. Known(k)' = api'[k] BY <1>1, <1>2, LastOfTail DEF Known
<1>4. QED BY <1>1, <1>3 DEF WatchInv, Known

LEMMA WatchStep ==
    ASSUME StoreType, StoreType', WatchInv, StoreStep
    PROVE  WatchInv'
<1>1. ASSUME NEW k \in Keys, NEW obj \in ObjectsOf(k), Put(k, obj), UNCHANGED cache
      PROVE  WatchInv'
  <2>1. /\ stream' = [stream EXCEPT ![k] = Append(@, api'[k])]
        /\ \A j \in Keys \ {k} : api'[j] = api[j]
    BY <1>1 DEF Put, StoreType
  <2>2. QED BY <1>1, <2>1, WatchWrites
<1>2. CASE StoreKept BY <1>2 DEF StoreKept, WatchInv, Known
<1>3. CASE \E k \in Keys : Advance(k) BY <1>3, WatchAdvance
<1>4. CASE Relist BY <1>4 DEF Relist, WatchInv, Known
<1>5. CASE \E k \in Keys : Removal(k)
  <2> PICK k \in Keys : Removal(k) BY <1>5
  <2>1. /\ stream' = [stream EXCEPT ![k] = Append(@, api'[k])]
        /\ \A j \in Keys \ {k} : api'[j] = api[j]
    BY DEF Removal, Remove, StoreType
  <2>2. QED BY <2>1, WatchWrites DEF Removal
<1>6. CASE \E g \in Gateways : \E obj : GatewayPut(g, obj)
  BY <1>1, <1>6, KeyKinds DEF GatewayPut
<1>7. CASE \E g \in Gateways : \E obj : DeploymentPut(g, obj)
  BY <1>1, <1>7, KeyKinds DEF DeploymentPut
<1>8. CASE \E m \in SourceMaps : \E obj : SourcePut(m, obj)
  BY <1>1, <1>8, KeyKinds DEF SourcePut
<1>9. CASE \E i \in MapIds : \E obj : MapPut(i, obj)
  BY <1>1, <1>9, KeyKinds DEF MapPut
<1>10. QED BY <1>2, <1>3, <1>4, <1>5, <1>6, <1>7, <1>8, <1>9 DEF StoreStep

(* Objects that are the same merge to the same.                            *)
LEMMA MergeAlike ==
    ASSUME NEW s \in Specs, NEW x, NEW y, \A m \in SourceMaps : x[Src(m)] = y[Src(m)]
    PROVE  Merge(s, x) = Merge(s, y) /\ (Mergeable(s, x) <=> Mergeable(s, y))
BY SpecsAssumption DEF Merge, Mergeable

LEMMA SpecTypes ==
    ASSUME TypeInv
    PROVE  /\ Handling => job.req \in Gateways /\ job.inst \in Gateway
                          /\ job.inst.spec \in Specs /\ job.inst # Absent
           /\ \A g \in Gateways : api[Cr(g)] # Absent => api[Cr(g)].spec \in Specs
           /\ \A g \in Gateways : api[Dep(g)] # Absent =>
                  api[Dep(g)] \in Deployment /\ api[Dep(g)].map \in MapIds
           /\ Working /\ job.dply # Absent => job.dply \in Deployment /\ job.dply.map \in MapIds
<1>1. /\ \A g \in Gateways : api[Cr(g)] \in Optional(Gateway)
      /\ \A g \in Gateways : api[Dep(g)] \in Optional(Deployment)
  BY ReadTypes DEF TypeInv
<1>2. job.dply \in Optional(Deployment) BY DEF TypeInv, WorkType
<1>3. Handling => job.req \in Gateways /\ job.inst \in Gateway
  BY DEF TypeInv, JobShape, Handling
<1>4. \A x \in Gateway : x.spec \in Specs /\ x # Absent
  BY AbsentAssumption DEF Gateway
<1>5. \A x \in Deployment : x.map \in MapIds BY DEF Deployment
<1>6. QED BY <1>1, <1>2, <1>3, <1>4, <1>5 DEF Optional

-----------------------------------------------------------------------------
(* What the worker has in hand after a step.                               *)

(* It has just read what there is ...                                      *)
Begins ==
    /\ Delivered /\ StoreKept /\ pc = "idle" /\ pc' \in {"configMap", "error"}
    /\ job'.req \in Gateways /\ cache[Cr(job'.req)] # Absent
    /\ job'.inst = cache[Cr(job'.req)] /\ job'.dply = cache[Dep(job'.req)]
    /\ pc' = "configMap" => /\ Mergeable(job'.inst.spec, cache)
                            /\ job'.data = Merge(job'.inst.spec, cache)

(* ... or it has found or written the map ...                              *)
Maps ==
    /\ CreateMap \/ UpdateMap \/ KeepMap
    /\ pc = "configMap" /\ pc' = "deployment"
    /\ UNCHANGED <<job.req, job.inst, job.dply, job.data>>

(* ... or been refused, or somebody else has taken the step.               *)
Refused == (MapRefused \/ DeploymentRefused) /\ Working /\ pc' = "error" /\ job' = job
Others  ==
    /\ Manager \/ Cluster \/ UNCHANGED vars
    /\ UNCHANGED <<pc, job, made>>

LEMMA WorkStep ==
    ASSUME TypeInv, Patient, Prompt, [Next]_vars, Handling'
    PROVE  Begins \/ Maps \/ Refused \/ Others
<1> USE DEF Handling
<1>1. CASE \E n \in Names : Reconcile(n)
  <2> PICK n \in Names : Reconcile(n) BY <1>1
  <2>1. CASE ReconcileGateway(n)
    <3> DEFINE base == [NoJob EXCEPT !.req = n, !.inst = cache[Cr(n)], !.dply = cache[Dep(n)]]
    <3>1. /\ n \in Gateways /\ cache[Cr(n)] # Absent /\ StoreKept /\ Delivered /\ pc = "idle"
          /\ \/ /\ pc' = "configMap" /\ Mergeable(cache[Cr(n)].spec, cache)
                /\ job' = [base EXCEPT !.data = Merge(cache[Cr(n)].spec, cache)]
             \/ pc' = "error" /\ job' = base
      BY <2>1 DEF ReconcileGateway, Start, IsGateway, Instance, kubeVars, StoreKept
    <3>2. \A d : LET j == [base EXCEPT !.data = d]
                 IN  /\ j.req = n /\ j.inst = cache[Cr(n)] /\ j.dply = cache[Dep(n)]
                     /\ j.data = d
      BY DEF NoJob
    <3>3. base.req = n /\ base.inst = cache[Cr(n)] /\ base.dply = cache[Dep(n)] BY DEF NoJob
    <3> HIDE DEF base
    <3>4. CASE pc' = "configMap"
      <4>1. Mergeable(cache[Cr(n)].spec, cache) BY <3>1, <3>4
      <4>2. /\ job'.req = n /\ job'.inst = cache[Cr(n)] /\ job'.dply = cache[Dep(n)]
            /\ job'.data = Merge(cache[Cr(n)].spec, cache)
        BY <3>1, <3>2, <3>4
      <4>3. QED BY <3>1, <3>4, <4>1, <4>2, Zenon DEF Begins
    <3>5. CASE pc' = "error" BY <3>1, <3>3, <3>5 DEF Begins
    <3>6. QED BY <3>1, <3>4, <3>5
  <2>2. CASE PanicInMerge(n) \/ ReconcileConfigMap(n) \/ ReconcileNothing(n)
    BY <2>2 DEF PanicInMerge, ReconcileConfigMap, ReconcileNothing, Start
  <2>3. QED BY <2>1, <2>2 DEF Reconcile
<1>2. CASE \E g \in Gateways : Touch(g)
  BY <1>2 DEF Touch, TouchNext, Done, Goto, Requeue
<1>3. CASE CreateMap \/ UpdateMap \/ KeepMap
  <2>1. /\ pc = "configMap" /\ pc' = "deployment"
        /\ \E cm : job' = [job EXCEPT !.cm = cm]
    BY <1>3 DEF CreateMap, UpdateMap, KeepMap, Goto
  <2>2. UNCHANGED <<job.req, job.inst, job.dply, job.data>>
    BY <2>1 DEF TypeInv, WorkType
  <2>3. QED BY <1>3, <2>1, <2>2 DEF Maps
<1>4. CASE MapRefused \/ DeploymentRefused
  BY <1>4 DEF MapRefused, DeploymentRefused, Goto, Refused, Working
<1>5. CASE CreateDeployment \/ ScaleDeployment \/ UpdateDeployment \/ ManageError
  BY <1>5 DEF CreateDeployment, ScaleDeployment, UpdateDeployment, ManageError, Done
<1>6. CASE PanicNoAnnotations \/ KeepDeployment
  BY <1>6 DEF PanicNoAnnotations, KeepDeployment, Requeue
<1>7. CASE Manager BY <1>7 DEF Manager, Deliver, Expire, Others
<1>8. CASE Cluster BY <1>8 DEF Cluster, Annotate, Collect, workVars, Others
<1>9. CASE Users
  BY <1>9 DEF Users, Ask, Supply, Disturb, CreateGateway, EditGateway, DeleteGateway,
              DeleteDeployment, WriteSource,
              DeleteSource, DeleteMap, Restart, Resync, May, Happens, Settled, workVars
<1>10. CASE UNCHANGED vars BY <1>10 DEF vars, workVars, Others
<1>11. QED
  BY <1>1, <1>2, <1>3, <1>4, <1>5, <1>6, <1>7, <1>8, <1>9, <1>10 DEF Next, Worker, GoOn, Succeed

(* The manager and the cluster leave gateways and sources alone, and do    *)
(* nothing to a map but to take it away.                                   *)
LEMMA OthersKeep ==
    ASSUME TypeInv, Manager \/ Cluster \/ UNCHANGED vars
    PROVE  /\ \A g \in Gateways : api'[Cr(g)] = api[Cr(g)]
           /\ \A m \in SourceMaps : api'[Src(m)] = api[Src(m)]
           /\ \A i \in MapIds : \/ api'[Map(i)] = Absent
                                \/ /\ api'[Map(i)] = api[Map(i)]
                                   /\ stream[Map(i)] = <<>> => stream'[Map(i)] = <<>>
<1>1. StoreType BY DEF TypeInv
<1>2. CASE Manager \/ UNCHANGED vars
  BY <1>1, <1>2, KeyKinds DEF Manager, Deliver, Expire, Advance, kubeVars, vars, StoreType
<1>3. CASE \E g \in Gateways : Annotate(g)
  <2> PICK g \in Gateways : Annotate(g) BY <1>3
  <2>1. \A j \in Keys \ {Dep(g)} : api'[j] = api[j] /\ stream'[j] = stream[j]
    BY <1>1 DEF Annotate, Put, StoreType
  <2>2. QED BY <2>1, KeyKinds, KeysDiffer
<1>4. CASE \E k \in DepKeys \cup MapKeys : Collect(k)
  <2> PICK k \in DepKeys \cup MapKeys : Collect(k) BY <1>4
  <2>1. /\ \A j \in Keys \ {k} : api'[j] = api[j] /\ stream'[j] = stream[j]
        /\ k \in Keys => api'[k] = Absent
    BY <1>1 DEF Collect, Remove, StoreType
  <2>2. \A g \in Gateways : Cr(g) # k BY KeysDiffer DEF DepKeys, MapKeys
  <2>3. \A m \in SourceMaps : Src(m) # k BY KeysDiffer DEF DepKeys, MapKeys
  <2>4. QED BY <2>1, <2>2, <2>3, KeyKinds
<1>5. QED BY <1>2, <1>3, <1>4 DEF Cluster

(* Nor does the worker change a source, or of a gateway more than the      *)
(* status.                                                                 *)
LEMMA MapStepKeeps ==
    ASSUME TypeInv, CreateMap \/ UpdateMap \/ KeepMap
    PROVE  /\ \A g \in Gateways : api'[Cr(g)] = api[Cr(g)] /\ api'[Dep(g)] = api[Dep(g)]
           /\ \A m \in SourceMaps : api'[Src(m)] = api[Src(m)]
<1>1. StoreType BY DEF TypeInv
<1>2. CASE KeepMap BY <1>2 DEF KeepMap, kubeVars
<1>3. CASE CreateMap \/ UpdateMap
  <2>1. PICK k \in MapKeys : \E obj : Put(k, obj)
    <3>1. CreateMap => made' \in MapIds
      BY BoundsAssumption DEF CreateMap, TypeInv, CountType, MapIds
    <3>2. UpdateMap => job.dply.map \in MapIds
      BY SpecTypes DEF UpdateMap, FoundMap, Working
    <3>3. QED BY <1>3, <3>1, <3>2 DEF CreateMap, UpdateMap, MapKeys
  <2>2. \A j \in Keys \ {k} : api'[j] = api[j] BY <1>1, <2>1 DEF Put, StoreType
  <2>3. \A g \in Gateways : Cr(g) # k /\ Dep(g) # k BY KeysDiffer DEF MapKeys
  <2>4. \A m \in SourceMaps : Src(m) # k BY KeysDiffer DEF MapKeys
  <2>5. QED BY <2>2, <2>3, <2>4, KeyKinds
<1>4. QED BY <1>2, <1>3
-----------------------------------------------------------------------------
(* Nothing gets between what the worker has read and what it writes.       *)

(* The map of a gateway stays its own: what is made is made under a new    *)
(* name.                                                                   *)
LEMMA MadeForOn ==
    ASSUME made \in Nat, made' = made \/ made' = made + 1, MapsFrom,
           NEW g, NEW i \in MapIds, MadeFor(g, i)
    PROVE  /\ i <= made' /\ (api'[Map(i)] # Absent => api'[Map(i)].owner.gw = g)
           /\ api[Map(i)] = Absent => api'[Map(i)] = Absent
<1>1. i \in Nat /\ i <= made BY DEF MadeFor, MapIds
<1>2. i <= made' /\ i # made + 1 BY <1>1
<1>3. QED BY <1>2 DEF MapsFrom, MadeFor

(* What CreateMap, UpdateMap and KeepMap leave behind.                     *)
LEMMA MapWritten ==
    ASSUME SteadyInv, Maps
    PROVE  /\ MadeFor(job.req, job.cm.map)'
           /\ JobMapWritten'
<1>1. TypeInv /\ StoreType /\ made \in Nat
  BY BoundsAssumption DEF SteadyInv, CopyInv, TypeInv, CountType
<1>2. job \in [req : Optional(Names), inst : Optional(Gateway), dply : Optional(Deployment),
               data : Optional(Merged), cm : MapRef \cup {NoRef}, todo : SUBSET Gateways]
  BY <1>1 DEF TypeInv, WorkType
<1>3. pc = "configMap" /\ job.data \in Merged /\ JobOwner \in Owner
  BY <1>1, OwnerTypes DEF Maps, TypeInv, JobShape, Working
<1>4. UNCHANGED <<job.req, job.inst, job.dply, job.data>> BY DEF Maps
<1>5. job.dply # Absent => /\ job.dply.map \in MapIds /\ MadeFor(job.req, job.dply.map)
                           /\ Map(job.dply.map) \in Keys
                           /\ cache[Map(job.dply.map)] \in Optional(GeneratedMap)
  BY <1>1, <1>3, SpecTypes, KeyKinds DEF SteadyInv, MapsOwn, Working, StoreType
<1>6. ASSUME job.dply # Absent, api[Map(job.dply.map)] # Absent
      PROVE  cache[Map(job.dply.map)] = api[Map(job.dply.map)]
  BY <1>3, <1>5, <1>6 DEF SteadyInv, JobMapRead, WatchInv, Known
<1>7. CASE CreateMap
  <2> DEFINE m == made + 1
             obj == NewMap
  <2>1. /\ m \in MapIds /\ made' = m /\ Put(Map(m), obj) /\ ~FoundMap
        /\ job' = [job EXCEPT !.cm = [map |-> m, rv |-> version'[Map(m)]]]
    BY <1>1, <1>7, BoundsAssumption DEF CreateMap, TypeInv, CountType, MapIds
  <2>2. Map(m) \in Keys /\ obj \in ObjectsOf(Map(m)) /\ obj \in GeneratedMap
    BY <1>3, <2>1, KeyKinds DEF NewMap, GeneratedMap
  <2>3. /\ api'[Map(m)] = [obj EXCEPT !.rv = version[Map(m)] + 1]
        /\ version'[Map(m)] = version[Map(m)] + 1
        /\ \A j \in Keys \ {Map(m)} : api'[j] = api[j]
    BY <1>1, <2>1, <2>2, PutEffect
  <2>4. /\ api'[Map(m)].owner = JobOwner /\ api'[Map(m)].data = job.data
        /\ api'[Map(m)].rv = version'[Map(m)]
    BY <2>3 DEF NewMap
  <2>5. job'.cm.map = m /\ job'.cm.rv = version'[Map(m)] BY <1>2, <2>1
  <2>6. MadeFor(job.req, job.cm.map)'
    BY <1>1, <1>4, <2>1, <2>4, <2>5 DEF MadeFor, JobOwner
  <2>7. job.dply # Absent => api'[Map(job.dply.map)] = Absent
    <3>1. job.dply # Absent => api[Map(job.dply.map)] = Absent
      BY <1>6, <2>1 DEF FoundMap
    <3>2. job.dply # Absent => job.dply.map # m
      BY <1>1, <1>5 DEF MadeFor, MapIds
    <3>3. QED BY <1>5, <2>3, <3>1, <3>2, KeysDiffer
  <2>8. JobMapWritten' BY <1>4, <2>4, <2>5, <2>7 DEF JobMapWritten
  <2>9. QED BY <2>6, <2>8
<1>8. CASE UpdateMap
  <2> DEFINE i == job.dply.map
             obj == [Found EXCEPT !.data = job.data]
  <2>1. /\ job.dply # Absent /\ Found # Absent /\ Found = cache[Map(i)]
        /\ Fresh(Map(i), Found) /\ Put(Map(i), obj) /\ made' = made
        /\ job' = [job EXCEPT !.cm = [map |-> i, rv |-> version'[Map(i)]]]
    BY <1>8 DEF UpdateMap, FoundMap, Found
  <2>2. /\ i \in MapIds /\ MadeFor(job.req, i) /\ Map(i) \in Keys
        /\ Found \in GeneratedMap /\ api[Map(i)] # Absent
    BY <1>5, <2>1 DEF Optional, Fresh
  <2>3. Found = api[Map(i)] BY <1>6, <2>1, <2>2
  <2>4. obj \in ObjectsOf(Map(i)) /\ obj.owner = Found.owner /\ obj.data = job.data
    BY <1>3, <2>2, KeyKinds DEF GeneratedMap
  <2>5. /\ api'[Map(i)] = [obj EXCEPT !.rv = version[Map(i)] + 1]
        /\ api'[Map(i)].rv = version[Map(i)] + 1
        /\ version'[Map(i)] = version[Map(i)] + 1
    BY <1>1, <2>1, <2>2, <2>4, PutEffect
  <2>6. obj \in GeneratedMap BY <1>3, <2>2 DEF GeneratedMap
  <2>7. api'[Map(i)].owner = Found.owner /\ api'[Map(i)].data = job.data
    BY <2>4, <2>5, <2>6 DEF GeneratedMap
  <2>8. job'.cm.map = i /\ job'.cm.rv = version'[Map(i)] BY <1>2, <2>1
  <2>9. MadeFor(job.req, job.cm.map)'
    BY <1>4, <2>1, <2>2, <2>3, <2>7, <2>8 DEF MadeFor
  <2>10. JobMapWritten' BY <1>4, <2>5, <2>7, <2>8 DEF JobMapWritten
  <2>11. QED BY <2>9, <2>10
<1>9. CASE KeepMap
  <2> DEFINE i == job.dply.map
  <2>1. /\ job.dply # Absent /\ Found # Absent /\ Found = cache[Map(i)]
        /\ Found.data = job.data /\ api' = api /\ made' = made
        /\ job' = [job EXCEPT !.cm = [map |-> i, rv |-> Found.rv]]
    BY <1>9 DEF KeepMap, FoundMap, Found, kubeVars
  <2>2. job'.cm.map = i /\ job'.cm.rv = Found.rv BY <1>2, <2>1
  <2>3. MadeFor(job.req, job.cm.map)' BY <1>4, <1>5, <2>1, <2>2 DEF MadeFor
  <2>4. api[Map(i)] # Absent => api[Map(i)] = Found BY <1>6, <2>1
  <2>5. JobMapWritten' BY <1>4, <2>1, <2>2, <2>4 DEF JobMapWritten
  <2>6. QED BY <2>3, <2>5
<1>10. QED BY <1>7, <1>8, <1>9 DEF Maps

LEMMA SteadyInvInit == Init => SteadyInv
<1> SUFFICES ASSUME Init PROVE SteadyInv OBVIOUS
<1>1. MountInv BY MountInvInit
<1>2. \A k \in Keys : api[k] = Absent /\ cache[k] = Absent /\ stream[k] = <<>>
  BY DEF Init
<1>3. pc = "idle" BY DEF Init
<1>4. WatchInv BY <1>2 DEF WatchInv, Known
<1>5. MapsOwn BY <1>2, <1>3, KeyKinds DEF MapsOwn, Working
<1>6. JobAsks /\ JobMerged /\ JobMapRead /\ JobMapWritten
  BY <1>3 DEF JobAsks, JobMerged, JobMapRead, JobMapWritten, Handling, Working
<1>7. QED BY <1>1, <1>4, <1>5, <1>6 DEF SteadyInv, MountInv

LEMMA SteadyInvStep ==
    ASSUME Patient, Prompt, SteadyInv, [Next]_vars
    PROVE  SteadyInv'
<1>1. CopyInv /\ CopyInv' BY CopyInvStep DEF SteadyInv
<1>2. /\ TypeInv /\ TypeInv' /\ StoreType /\ StoreType' /\ made \in Nat /\ made' \in Nat
      /\ made' = made \/ made' = made + 1
  BY <1>1, BoundsAssumption, JobStep DEF CopyInv, TypeInv, CountType
<1>3. StoreStep BY <1>1, NextStoreStep DEF CopyInv
<1>4. MapsFrom /\ DeploymentsFrom BY <1>1, <1>2, <1>3, StoreStepEffect DEF CopyInv
<1>5. WatchInv' BY <1>2, <1>3, WatchStep DEF SteadyInv
<1>6. ASSUME NEW g, NEW i \in MapIds, MadeFor(g, i)
      PROVE  /\ i <= made' /\ (api'[Map(i)] # Absent => api'[Map(i)].owner.gw = g)
             /\ api[Map(i)] = Absent => api'[Map(i)] = Absent
  BY <1>2, <1>4, <1>6, MadeForOn
<1>7. ASSUME NEW g \in Gateways, api'[Dep(g)] # Absent PROVE MadeFor(g, api[Dep(g)].map)'
  <2>1. CASE api[Dep(g)] # Absent /\ api'[Dep(g)].map = api[Dep(g)].map
    BY <1>2, <1>6, <2>1, SpecTypes DEF SteadyInv, MapsOwn, MadeFor
  <2>2. CASE pc = "deployment" /\ g = job.req /\ api'[Dep(g)].map = job.cm.map
    BY <1>2, <1>6, <2>2, OwnerTypes DEF SteadyInv, MapsOwn, MadeFor
  <2>3. QED BY <1>4, <1>7, <2>1, <2>2 DEF DeploymentsFrom
<1>8. CASE ~Handling'
  BY <1>1, <1>5, <1>7, <1>8 DEF SteadyInv, Handling, JobAsks, JobMerged, JobMapRead,
                                JobMapWritten, MapsOwn, Working
<1>9. CASE Begins
  <2>1. /\ \A k \in Keys : api[k] = cache[k]
        /\ api' = api /\ stream' = stream /\ job'.req \in Gateways
        /\ job'.inst = cache[Cr(job'.req)] /\ job'.dply = cache[Dep(job'.req)]
    BY <1>9 DEF Begins, Delivered, StoreKept, SteadyInv, WatchInv, Known
  <2>2. job'.inst = api[Cr(job'.req)] /\ job'.inst # Absent /\ job'.inst.spec \in Specs
    BY <1>2, <1>9, <2>1, KeyKinds, SpecTypes DEF Begins
  <2>3. JobAsks' BY <2>1, <2>2 DEF JobAsks
  <2>4. JobMerged'
    <3>1. /\ Merge(job'.inst.spec, api) = Merge(job'.inst.spec, cache)
          /\ Mergeable(job'.inst.spec, api) <=> Mergeable(job'.inst.spec, cache)
      BY <2>1, <2>2, KeyKinds, MergeAlike
    <3>2. Working' => pc' = "configMap" BY <1>9 DEF Begins, Working
    <3>3. QED BY <1>9, <2>1, <3>1, <3>2 DEF JobMerged, Begins
  <2>5. MapsOwn'
    <3>1. pc' # "deployment" BY <1>9 DEF Begins
    <3>2. job'.dply = api'[Dep(job'.req)] BY <2>1, KeyKinds
    <3>3. QED BY <1>7, <2>1, <3>1, <3>2 DEF MapsOwn
  <2>6. JobMapRead'
    <3>1. \A k \in Keys : stream'[k] = <<>> BY <1>9, <2>1 DEF Begins, Delivered
    <3>2. Working' /\ job'.dply # Absent => job'.dply.map \in MapIds
      BY <1>2, <2>1, KeyKinds, SpecTypes
    <3>3. QED BY <3>1, <3>2, KeyKinds DEF JobMapRead, Working
  <2>7. JobMapWritten' BY <1>9 DEF JobMapWritten, Begins
  <2>8. QED BY <1>1, <1>5, <2>3, <2>4, <2>5, <2>6, <2>7 DEF SteadyInv
<1>10. CASE Maps
  <2>1. /\ UNCHANGED <<job.req, job.inst, job.dply, job.data>>
        /\ pc = "configMap" /\ pc' = "deployment" /\ Working /\ Handling
    BY <1>10 DEF Maps, Working, Handling
  <2>2. /\ api'[Cr(job.req)] = api[Cr(job.req)]
        /\ \A m \in SourceMaps : api'[Src(m)] = api[Src(m)]
        /\ job.inst.spec \in Specs
    BY <1>2, <1>10, <2>1, MapStepKeeps, SpecTypes DEF Maps
  <2>3. JobAsks' BY <2>1, <2>2 DEF JobAsks, SteadyInv
  <2>4. JobMerged'
    <3>1. /\ Merge(job.inst.spec, api) = Merge(job.inst.spec, api')
          /\ Mergeable(job.inst.spec, api) <=> Mergeable(job.inst.spec, api')
      BY <2>2, MergeAlike
    <3>2. QED BY <2>1, <3>1 DEF JobMerged, SteadyInv
  <2>5. MadeFor(job.req, job.cm.map)' /\ JobMapWritten' BY <1>10, MapWritten
  <2>6. job'.dply # Absent => MadeFor(job.req, job.dply.map)'
    BY <1>2, <1>6, <2>1, SpecTypes DEF SteadyInv, MapsOwn, MadeFor
  <2>7. MapsOwn' BY <1>7, <2>5, <2>6 DEF MapsOwn
  <2>8. JobMapRead' BY <2>1 DEF JobMapRead
  <2>9. QED BY <1>1, <1>5, <2>3, <2>4, <2>5, <2>7, <2>8 DEF SteadyInv
<1>11. CASE Refused
  <2>1. /\ api' = api /\ pc' = "error" /\ job' = job /\ Handling
    BY <1>11 DEF Refused, MapRefused, DeploymentRefused, kubeVars, Handling, Working
  <2>2. JobAsks' BY <2>1 DEF JobAsks, SteadyInv
  <2>3. JobMerged' /\ JobMapRead' /\ JobMapWritten'
    BY <2>1 DEF JobMerged, JobMapRead, JobMapWritten, Working
  <2>4. MapsOwn' BY <1>7, <2>1 DEF MapsOwn, Working
  <2>5. QED BY <1>1, <1>5, <2>2, <2>3, <2>4 DEF SteadyInv
<1>12. CASE Others /\ Handling'
  <2>1. UNCHANGED <<pc, job, made>> /\ Handling BY <1>12 DEF Others, Handling
  <2>2. /\ \A g \in Gateways : api'[Cr(g)] = api[Cr(g)]
        /\ \A m \in SourceMaps : api'[Src(m)] = api[Src(m)]
        /\ \A i \in MapIds : \/ api'[Map(i)] = Absent
                             \/ /\ api'[Map(i)] = api[Map(i)]
                                /\ stream[Map(i)] = <<>> => stream'[Map(i)] = <<>>
    BY <1>2, <1>12, OthersKeep DEF Others
  <2>3. job.req \in Gateways /\ job.inst.spec \in Specs BY <1>2, <2>1, SpecTypes
  <2>4. Working /\ job.dply # Absent =>
            job.dply.map \in MapIds /\ MadeFor(job.req, job.dply.map)
    BY <1>2, SpecTypes DEF SteadyInv, MapsOwn
  <2>5. pc = "deployment" => job.cm.map \in MapIds /\ MadeFor(job.req, job.cm.map)
    BY <1>2, OwnerTypes DEF SteadyInv, MapsOwn
  <2>6. JobAsks' BY <2>1, <2>2, <2>3 DEF JobAsks, SteadyInv
  <2>7. JobMerged'
    <3>1. /\ Merge(job.inst.spec, api) = Merge(job.inst.spec, api')
          /\ Mergeable(job.inst.spec, api) <=> Mergeable(job.inst.spec, api')
      BY <2>2, <2>3, MergeAlike
    <3>2. QED BY <2>1, <3>1 DEF JobMerged, SteadyInv, Working
  <2>8. MapsOwn' BY <1>6, <1>7, <2>1, <2>4, <2>5 DEF MapsOwn, MadeFor, Working
  <2>9. JobMapRead' BY <2>1, <2>2, <2>4 DEF JobMapRead, SteadyInv, Working
  <2>10. JobMapWritten'
    <3> SUFFICES ASSUME pc = "deployment"
        PROVE /\ LET m == api'[Map(job.cm.map)]
                 IN  m # Absent => m.data = job.data /\ m.rv = job.cm.rv
              /\ job.dply # Absent =>
                     job.cm.map = job.dply.map \/ api'[Map(job.dply.map)] = Absent
      BY <2>1 DEF JobMapWritten
    <3>1. \A i \in MapIds : api'[Map(i)] # Absent => api'[Map(i)] = api[Map(i)]
      BY <2>2
    <3>2. QED BY <2>4, <2>5, <3>1, <1>6 DEF JobMapWritten, SteadyInv, Working
  <2>11. QED BY <1>1, <1>5, <2>6, <2>7, <2>8, <2>9, <2>10 DEF SteadyInv
<1>13. QED BY <1>2, <1>8, <1>9, <1>10, <1>11, <1>12, WorkStep

-----------------------------------------------------------------------------
(* A gateway that has what it asks for keeps it.                           *)

(* The two things Reconcile compares: it puts one of them right at a time. *)
RightSize(g) == api[Dep(g)] # Absent /\ api[Dep(g)].replicas = api[Cr(g)].spec.replicas
RightWork(g) ==
    LET cr == api[Cr(g)]
        d  == api[Dep(g)]
        m  == api[Map(d.map)]
    IN  /\ d # Absent /\ d.opts = cr.spec.opts
        /\ m # Absent /\ m.data = Merge(cr.spec, api)
        /\ d.ver = [map |-> d.map, rv |-> m.rv]

LEMMA CurrentParts == \A g : Current(g) <=> RightSize(g) /\ RightWork(g)
BY DEF Current, RightSize, RightWork

LEMMA CurrentPartsNext ==
    ASSUME NEW g
    PROVE  Current(g)' <=> RightSize(g)' /\ RightWork(g)'
BY DEF Current, RightSize, RightWork

Missing(g) == api[Dep(g)] = Absent

(* A step that leaves all this alone.                                      *)
SameTemplates(d, e) == d.opts = e.opts /\ d.map = e.map /\ d.ver = e.ver

LEMMA RightWorkAlike ==
    ASSUME NEW g \in Gateways, api[Cr(g)].spec \in Specs, RightWork(g),
           api'[Cr(g)].spec = api[Cr(g)].spec,
           \A m \in api[Cr(g)].spec.refs : api'[Src(m)] = api[Src(m)],
           api'[Dep(g)] # Absent, SameTemplates(api[Dep(g)], api'[Dep(g)]),
           api'[Map(api[Dep(g)].map)] = api[Map(api[Dep(g)].map)]
    PROVE  RightWork(g)'
<1>1. Merge(api[Cr(g)].spec, api) = Merge(api[Cr(g)].spec, api') BY DEF Merge
<1>2. QED BY <1>1 DEF RightWork, SameTemplates

(* What the store holds of the gateways that a step does not write.        *)
LEMMA WriteKeeps ==
    ASSUME TypeInv, NEW k \in Keys, \A j \in Keys \ {k} : api'[j] = api[j],
           NEW g \in Gateways, api[Cr(g)] # Absent
    PROVE  /\ k # Dep(g) /\ api'[Cr(g)].spec = api[Cr(g)].spec =>
                  (Missing(g)' <=> Missing(g)) /\ (RightSize(g)' <=> RightSize(g))
           /\ k # Dep(g) /\ api'[Cr(g)].spec = api[Cr(g)].spec /\ RightWork(g)
              /\ k # Map(api[Dep(g)].map) /\ (\A m \in api[Cr(g)].spec.refs : k # Src(m)) =>
                  RightWork(g)'
<1>1. api[Cr(g)].spec \in Specs /\ api[Cr(g)].spec.refs \subseteq SourceMaps
  BY SpecTypes, SpecsAssumption
<1>2. k # Dep(g) => api'[Dep(g)] = api[Dep(g)] BY KeyKinds
<1>3. ASSUME k # Dep(g), api'[Cr(g)].spec = api[Cr(g)].spec, RightWork(g),
             k # Map(api[Dep(g)].map), \A m \in api[Cr(g)].spec.refs : k # Src(m)
      PROVE  RightWork(g)'
  <2>1. api[Dep(g)] # Absent /\ api[Dep(g)].map \in MapIds
    BY <1>3, SpecTypes DEF RightWork
  <2>2. /\ api'[Map(api[Dep(g)].map)] = api[Map(api[Dep(g)].map)]
        /\ \A m \in api[Cr(g)].spec.refs : api'[Src(m)] = api[Src(m)]
    BY <1>1, <1>3, <2>1, KeyKinds
  <2>3. QED BY <1>1, <1>2, <1>3, <2>1, <2>2, RightWorkAlike DEF SameTemplates
<1>4. QED BY <1>2, <1>3 DEF Missing, RightSize

LEMMA StatusKeeps ==
    ASSUME TypeInv, NEW h \in Gateways, api[Cr(h)] # Absent, PutStatus(Cr(h))
    PROVE  /\ \A k \in Keys \ {Cr(h)} : api'[k] = api[k] /\ stream'[k] = stream[k]
           /\ \A g \in Gateways \ {h} : api'[Cr(g)] = api[Cr(g)]
           /\ api'[Cr(h)] # Absent /\ api'[Cr(h)].failed = TRUE
           /\ api'[Cr(h)].spec = api[Cr(h)].spec /\ api'[Cr(h)].uid = api[Cr(h)].uid
           /\ ~api[Cr(h)].failed => stream'[Cr(h)] # <<>>
<1>1. StoreType BY DEF TypeInv
<1>2. api[Cr(h)] \in Gateway /\ Cr(h) \in Keys /\ ObjectsOf(Cr(h)) = Gateway
  BY <1>1, KeyKinds, ReadTypes DEF Optional
<1>3. \A g \in Gateways \ {h} : Cr(g) \in Keys \ {Cr(h)} BY KeyKinds, KeysDiffer, Zenon
<1>4. CASE api[Cr(h)].failed
  BY <1>2, <1>4 DEF PutStatus, Renew, Gateway
<1>5. CASE ~api[Cr(h)].failed
  <2> DEFINE obj == [api[Cr(h)] EXCEPT !.failed = TRUE]
  <2>1. /\ obj \in Gateway /\ obj.failed = TRUE /\ obj.spec = api[Cr(h)].spec
        /\ obj.uid = api[Cr(h)].uid
    BY <1>2 DEF Gateway
  <2>2. Put(Cr(h), obj) BY <1>5 DEF PutStatus
  <2> HIDE DEF obj
  <2>3. /\ api'[Cr(h)] = [obj EXCEPT !.rv = version[Cr(h)] + 1] /\ api'[Cr(h)] # Absent
        /\ \A k \in Keys \ {Cr(h)} : api'[k] = api[k] /\ stream'[k] = stream[k]
        /\ stream'[Cr(h)] = Append(stream[Cr(h)], api'[Cr(h)])
    BY <1>1, <1>2, <2>1, <2>2, PutEffect
  <2>4. /\ api'[Cr(h)].failed = obj.failed /\ api'[Cr(h)].spec = obj.spec
        /\ api'[Cr(h)].uid = obj.uid
    BY <2>1, <2>3 DEF Gateway
  <2>5. stream[Cr(h)] \in Seq(Optional(ObjectsOf(Cr(h)))) BY <1>1, <1>2 DEF StoreType
  <2>6. stream'[Cr(h)] # <<>> BY <2>3, <2>5
  <2>7. \A g \in Gateways \ {h} : api'[Cr(g)] = api[Cr(g)] BY <1>3, <2>3, Zenon
  <2>8. QED BY <2>1, <2>3, <2>4, <2>6, <2>7
<1>6. QED BY <1>4, <1>5

(* What Scale and Update write.                                            *)
LEMMA DeploymentRewritten ==
    ASSUME SteadyInv, ScaleDeployment \/ UpdateDeployment
    PROVE  /\ job.req \in Gateways /\ api[Cr(job.req)] = job.inst /\ job.inst # Absent
           /\ job.dply # Absent /\ job.dply = api[Dep(job.req)]
           /\ \A k \in Keys \ {Dep(job.req)} : api'[k] = api[k] /\ stream'[k] = stream[k]
           /\ LET d == api'[Dep(job.req)]
              IN  /\ d # Absent /\ d.map = job.dply.map
                  /\ d.annotated = job.dply.annotated
                  /\ ScaleDeployment => /\ d.replicas = job.inst.spec.replicas
                                        /\ SameTemplates(job.dply, d)
                  /\ UpdateDeployment => /\ d.replicas = job.dply.replicas
                                         /\ d.opts = job.inst.spec.opts /\ d.ver = job.cm
<1>1. TypeInv /\ StoreType /\ StoreCopies /\ JobCopy
  BY DEF SteadyInv, CopyInv, TypeInv
<1>2. /\ pc = "deployment" /\ Handling /\ job.dply # Absent
      /\ Fresh(Dep(job.req), job.dply)
  BY DEF ScaleDeployment, UpdateDeployment, Handling
<1>3. /\ job.req \in Gateways /\ job.inst # Absent /\ api[Cr(job.req)] = job.inst
      /\ job.inst.spec \in Specs /\ job.cm \in MapRef
  BY <1>1, <1>2, SpecTypes DEF SteadyInv, JobAsks, TypeInv, JobShape
<1>4. job.dply = api[Dep(job.req)] /\ job.dply \in Deployment
  BY <1>1, <1>2, ReadIsCurrent
<1>5. Dep(job.req) \in Keys /\ ObjectsOf(Dep(job.req)) = Deployment BY <1>3, KeyKinds
<1>6. CASE ScaleDeployment
  <2> DEFINE obj == [job.dply EXCEPT !.replicas = job.inst.spec.replicas]
  <2>1. job.inst.spec.replicas \in {s.replicas : s \in Specs} BY <1>3
  <2>2. obj \in Deployment BY <1>4, <2>1 DEF Deployment
  <2>3. /\ obj.map = job.dply.map /\ obj.annotated = job.dply.annotated
        /\ obj.replicas = job.inst.spec.replicas
        /\ obj.opts = job.dply.opts /\ obj.ver = job.dply.ver
    BY <1>4 DEF Deployment
  <2>4. Put(Dep(job.req), obj) BY <1>6 DEF ScaleDeployment
  <2> HIDE DEF obj
  <2>5. /\ api'[Dep(job.req)] = [obj EXCEPT !.rv = version[Dep(job.req)] + 1]
        /\ api'[Dep(job.req)] # Absent
        /\ \A k \in Keys \ {Dep(job.req)} : api'[k] = api[k] /\ stream'[k] = stream[k]
    BY <1>1, <1>5, <2>2, <2>4, PutEffect
  <2>6. LET d == api'[Dep(job.req)]
        IN  /\ d.map = obj.map /\ d.annotated = obj.annotated /\ d.replicas = obj.replicas
            /\ d.opts = obj.opts /\ d.ver = obj.ver
    BY <2>2, <2>5 DEF Deployment
  <2>7. ~UpdateDeployment BY <1>6 DEF ScaleDeployment, UpdateDeployment
  <2>8. QED BY <1>2, <1>3, <1>4, <2>3, <2>5, <2>6, <2>7 DEF SameTemplates
<1>7. CASE UpdateDeployment
  <2> DEFINE obj == [job.dply EXCEPT !.ver = job.cm, !.opts = job.inst.spec.opts]
  <2>1. job.inst.spec.opts \in {s.opts : s \in Specs} BY <1>3
  <2>2. obj \in Deployment BY <1>3, <1>4, <2>1 DEF Deployment
  <2>3. /\ obj.map = job.dply.map /\ obj.annotated = job.dply.annotated
        /\ obj.replicas = job.dply.replicas
        /\ obj.opts = job.inst.spec.opts /\ obj.ver = job.cm
    BY <1>4 DEF Deployment
  <2>4. Put(Dep(job.req), obj) BY <1>7 DEF UpdateDeployment
  <2> HIDE DEF obj
  <2>5. /\ api'[Dep(job.req)] = [obj EXCEPT !.rv = version[Dep(job.req)] + 1]
        /\ api'[Dep(job.req)] # Absent
        /\ \A k \in Keys \ {Dep(job.req)} : api'[k] = api[k] /\ stream'[k] = stream[k]
    BY <1>1, <1>5, <2>2, <2>4, PutEffect
  <2>6. LET d == api'[Dep(job.req)]
        IN  /\ d.map = obj.map /\ d.annotated = obj.annotated /\ d.replicas = obj.replicas
            /\ d.opts = obj.opts /\ d.ver = obj.ver
    BY <2>2, <2>5 DEF Deployment
  <2>7. ~ScaleDeployment BY <1>7 DEF ScaleDeployment, UpdateDeployment
  <2>8. QED BY <1>2, <1>3, <1>4, <2>3, <2>5, <2>6, <2>7
<1>8. QED BY <1>6, <1>7

(* When the map of the gateway the worker is on is right, it is the one    *)
(* the worker has merged, and when the deployment is, it is what it has    *)
(* read.                                                                   *)
LEMMA WorkKept ==
    ASSUME SteadyInv, Worker, NEW g \in Gateways, api[Cr(g)] # Absent, RightWork(g)
    PROVE  RightWork(g)'
<1>1. /\ TypeInv /\ StoreType /\ StoreCopies /\ JobCopy /\ made \in Nat
      /\ MadeFor(g, api[Dep(g)].map)
  BY BoundsAssumption DEF SteadyInv, CopyInv, TypeInv, CountType, MapsOwn, RightWork
<1>2. /\ api[Cr(g)].spec \in Specs /\ api[Dep(g)].map \in MapIds /\ api[Dep(g)] # Absent
      /\ api[Map(api[Dep(g)].map)] # Absent /\ api[Cr(g)].spec.refs \subseteq SourceMaps
  BY <1>1, SpecTypes, SpecsAssumption DEF RightWork
<1>3. Handling => /\ job.req \in Gateways /\ job.inst # Absent /\ api[Cr(job.req)] = job.inst
                  /\ job.inst.spec \in Specs
  BY <1>1, SpecTypes DEF SteadyInv, JobAsks
<1>4. Working /\ g = job.req => Merge(api[Cr(g)].spec, api) = job.data
  BY <1>3 DEF SteadyInv, JobMerged, Working, Handling
<1>5. CASE api' = api BY <1>5 DEF RightWork
<1>6. ASSUME NEW h \in Gateways, api[Cr(h)] # Absent, PutStatus(Cr(h)) PROVE RightWork(g)'
  <2>1. /\ \A k \in Keys \ {Cr(h)} : api'[k] = api[k]
        /\ api'[Cr(h)].spec = api[Cr(h)].spec
    BY <1>1, <1>6, StatusKeeps
  <2>2. /\ Cr(h) \in Keys /\ Cr(h) # Dep(g) /\ Cr(h) # Map(api[Dep(g)].map)
        /\ \A m \in api[Cr(g)].spec.refs : Cr(h) # Src(m)
        /\ api'[Cr(g)].spec = api[Cr(g)].spec
    BY <2>1, KeyKinds, KeysDiffer
  <2>3. QED BY <1>1, <2>1, <2>2, WriteKeeps
<1>7. ASSUME NEW i \in MapIds, NEW obj, Put(Map(i), obj), api[Dep(g)].map # i
      PROVE  RightWork(g)'
  <2>1. \A k \in Keys \ {Map(i)} : api'[k] = api[k] BY <1>1, <1>7 DEF StoreType, Put
  <2>2. /\ Map(i) \in Keys /\ Map(i) # Dep(g) /\ Map(i) # Map(api[Dep(g)].map)
        /\ \A m \in api[Cr(g)].spec.refs : Map(i) # Src(m)
        /\ api'[Cr(g)].spec = api[Cr(g)].spec
    BY <1>7, <2>1, KeyKinds, KeysDiffer
  <2>3. QED BY <1>1, <2>1, <2>2, WriteKeeps
<1>8. ASSUME NEW h \in Gateways, NEW obj, Put(Dep(h), obj), g # h
      PROVE  RightWork(g)'
  <2>1. \A k \in Keys \ {Dep(h)} : api'[k] = api[k] BY <1>1, <1>8 DEF StoreType, Put
  <2>2. /\ Dep(h) \in Keys /\ Dep(h) # Dep(g) /\ Dep(h) # Map(api[Dep(g)].map)
        /\ \A m \in api[Cr(g)].spec.refs : Dep(h) # Src(m)
        /\ api'[Cr(g)].spec = api[Cr(g)].spec
    BY <1>8, <2>1, KeyKinds, KeysDiffer
  <2>3. QED BY <1>1, <2>1, <2>2, WriteKeeps
<1>9. CASE \E h \in Gateways : Touch(h) BY <1>5, <1>6, <1>9 DEF Touch, Fresh
<1>10. CASE CreateMap
  <2>1. made + 1 \in MapIds /\ Put(Map(made + 1), NewMap)
    BY <1>1, <1>10, BoundsAssumption DEF CreateMap, MapIds
  <2>2. api[Dep(g)].map # made + 1 BY <1>1, <1>2 DEF MadeFor, MapIds
  <2>3. QED BY <1>7, <2>1, <2>2
<1>11. CASE UpdateMap
  <2> DEFINE i == job.dply.map
             obj == [Found EXCEPT !.data = job.data]
  <2>1. /\ pc = "configMap" /\ job.dply # Absent /\ Found # Absent
        /\ Found = cache[Map(i)] /\ Found.data # job.data
        /\ api[Map(i)] # Absent /\ Put(Map(i), obj)
    BY <1>11 DEF UpdateMap, FoundMap, Found, Fresh
  <2>2. i \in MapIds /\ Map(i) \in Keys /\ MadeFor(job.req, i)
    BY <1>1, <2>1, SpecTypes, KeyKinds DEF SteadyInv, MapsOwn, Working
  <2>3. Found = api[Map(i)]
    BY <2>1, <2>2 DEF SteadyInv, JobMapRead, WatchInv, Known
  <2>4. api[Dep(g)].map # i
    <3> SUFFICES ASSUME api[Dep(g)].map = i PROVE FALSE OBVIOUS
    <3>1. api[Map(i)].owner.gw = g /\ api[Map(i)].owner.gw = job.req
      BY <1>1, <2>1, <2>2 DEF MadeFor
    <3>2. api[Map(i)].data = job.data BY <1>4, <2>1, <3>1 DEF RightWork, Working
    <3>3. QED BY <2>1, <2>3, <3>2
  <2>5. QED BY <1>7, <2>1, <2>2, <2>4
<1>12. CASE CreateDeployment
  <2>1. job.req \in Gateways /\ api[Dep(job.req)] = Absent /\ Put(Dep(job.req), NewDeployment)
    BY <1>3, <1>12 DEF CreateDeployment, Handling
  <2>2. QED BY <1>2, <1>8, <2>1
<1>13. CASE ScaleDeployment \/ UpdateDeployment
  <2>1. /\ pc = "deployment" /\ Working /\ Handling /\ job.dply # Absent
        /\ Fresh(Dep(job.req), job.dply) /\ \E obj : Put(Dep(job.req), obj)
    BY <1>13 DEF ScaleDeployment, UpdateDeployment, Working, Handling
  <2>2. job.dply = api[Dep(job.req)] /\ job.dply \in Deployment
    BY <1>1, <2>1, ReadIsCurrent
  <2>3. CASE g # job.req BY <1>3, <1>8, <2>1, <2>3
  <2>4. CASE g = job.req /\ ScaleDeployment
    <3>1. /\ \A k \in Keys \ {Dep(g)} : api'[k] = api[k]
          /\ api'[Dep(g)] # Absent /\ SameTemplates(api[Dep(g)], api'[Dep(g)])
      BY <2>4, DeploymentRewritten
    <3>2. /\ \A m \in api[Cr(g)].spec.refs : api'[Src(m)] = api[Src(m)]
          /\ api'[Cr(g)] = api[Cr(g)]
          /\ api'[Map(api[Dep(g)].map)] = api[Map(api[Dep(g)].map)]
      BY <1>2, <3>1, KeyKinds, KeysDiffer
    <3>3. QED BY <1>2, <3>1, <3>2, RightWorkAlike
  <2>5. CASE g = job.req /\ UpdateDeployment
    <3>1. /\ job.cm.map = job.dply.map
          /\ api[Map(job.cm.map)].rv = job.cm.rv /\ job.cm \in MapRef
      BY <1>1, <1>2, <2>1, <2>2, <2>5 DEF SteadyInv, JobMapWritten, TypeInv, JobShape
    <3>2. job.cm = [map |-> job.dply.map, rv |-> api[Map(job.dply.map)].rv]
      BY <3>1 DEF MapRef
    <3>3. SameTemplate BY <1>3, <2>1, <2>2, <2>5, <3>2 DEF SameTemplate, RightWork
    <3>4. QED BY <2>5, <3>3 DEF UpdateDeployment
  <2>6. QED BY <1>13, <2>3, <2>4, <2>5
<1>14. CASE ManageError
  <2>1. Handling BY <1>14 DEF ManageError, Handling
  <2>2. QED BY <1>3, <1>5, <1>6, <1>14, <2>1 DEF ManageError, Fresh
<1>15. CASE \E n \in Names : Reconcile(n)
  BY <1>5, <1>15 DEF Reconcile, ReconcileGateway, PanicInMerge, ReconcileConfigMap,
                     ReconcileNothing, kubeVars
<1>16. CASE KeepMap \/ MapRefused \/ PanicNoAnnotations \/ KeepDeployment \/ DeploymentRefused
  BY <1>5, <1>16 DEF KeepMap, MapRefused, PanicNoAnnotations, KeepDeployment,
                     DeploymentRefused, kubeVars
<1>17. QED
  BY <1>9, <1>10, <1>11, <1>12, <1>13, <1>14, <1>15, <1>16 DEF Worker, GoOn, Succeed

LEMMA SizeKept ==
    ASSUME SteadyInv, Worker, NEW g \in Gateways, api[Cr(g)] # Absent, RightSize(g)
    PROVE  RightSize(g)'
<1>1. TypeInv /\ StoreType BY DEF SteadyInv, CopyInv, TypeInv
<1>2. Handling => /\ job.req \in Gateways /\ job.inst # Absent /\ api[Cr(job.req)] = job.inst
  BY <1>1, SpecTypes DEF SteadyInv, JobAsks
<1>3. ASSUME api'[Cr(g)].spec = api[Cr(g)].spec, api'[Dep(g)] = api[Dep(g)]
      PROVE  RightSize(g)'
  BY <1>3 DEF RightSize
<1>4. CASE api' = api BY <1>3, <1>4
<1>5. ASSUME NEW h \in Gateways, api[Cr(h)] # Absent, PutStatus(Cr(h)) PROVE RightSize(g)'
  <2>1. /\ \A k \in Keys \ {Cr(h)} : api'[k] = api[k]
        /\ api'[Cr(h)].spec = api[Cr(h)].spec
    BY <1>1, <1>5, StatusKeeps
  <2>2. QED BY <1>3, <2>1, KeyKinds, KeysDiffer
<1>6. CASE \E h \in Gateways : Touch(h) BY <1>4, <1>5, <1>6 DEF Touch, Fresh
<1>7. CASE CreateMap \/ UpdateMap \/ KeepMap BY <1>1, <1>3, <1>7, MapStepKeeps
<1>8. CASE CreateDeployment
  <2>1. job.req \in Gateways /\ api[Dep(job.req)] = Absent /\ Put(Dep(job.req), NewDeployment)
    BY <1>2, <1>8 DEF CreateDeployment, Handling
  <2>2. g # job.req BY <2>1 DEF RightSize
  <2>3. \A k \in Keys \ {Dep(job.req)} : api'[k] = api[k] BY <1>1, <2>1 DEF StoreType, Put
  <2>4. QED BY <1>3, <2>2, <2>3, KeyKinds, KeysDiffer
<1>9. CASE ScaleDeployment \/ UpdateDeployment
  <2>1. CASE g = job.req
    <3>1. job.dply = api[Dep(g)] /\ job.inst = api[Cr(g)] /\ api'[Cr(g)] = api[Cr(g)]
      BY <1>9, <2>1, DeploymentRewritten, KeyKinds, KeysDiffer
    <3>2. SameReplicas BY <3>1 DEF SameReplicas, RightSize
    <3>3. UpdateDeployment BY <1>9, <3>2 DEF ScaleDeployment
    <3>4. api'[Dep(g)] # Absent /\ api'[Dep(g)].replicas = job.dply.replicas
      BY <2>1, <3>3, DeploymentRewritten
    <3>5. QED BY <3>1, <3>4 DEF RightSize
  <2>2. CASE g # job.req BY <1>3, <1>9, <2>2, DeploymentRewritten, KeyKinds, KeysDiffer
  <2>3. QED BY <2>1, <2>2
<1>10. CASE ManageError
  <2>1. Handling BY <1>10 DEF ManageError, Handling
  <2>2. QED BY <1>2, <1>4, <1>5, <1>10, <2>1 DEF ManageError, Fresh
<1>11. CASE \E n \in Names : Reconcile(n)
  BY <1>4, <1>11 DEF Reconcile, ReconcileGateway, PanicInMerge, ReconcileConfigMap,
                     ReconcileNothing, kubeVars
<1>12. CASE MapRefused \/ PanicNoAnnotations \/ KeepDeployment \/ DeploymentRefused
  BY <1>4, <1>12 DEF MapRefused, PanicNoAnnotations, KeepDeployment,
                     DeploymentRefused, kubeVars
<1>13. QED
  BY <1>6, <1>7, <1>8, <1>9, <1>10, <1>11, <1>12 DEF Worker, GoOn, Succeed

LEMMA CurrentKept ==
    ASSUME SteadyInv, Worker, NEW g \in Gateways, api[Cr(g)] # Absent, Current(g)
    PROVE  Current(g)'
BY WorkKept, SizeKept, CurrentParts, CurrentPartsNext

(* A reconcile never disturbs a gateway that has what it asks for, for any *)
(* number of gateways that share sources in any way, whatever fails, and   *)
(* whatever users do between two reconciles - the deletion of a deployment *)
(* or of a generated map included.                                         *)
THEOREM CurrentAlwaysStays ==
    ASSUME Patient, Prompt
    PROVE  Spec => CurrentStaysCurrent
<1>1. SteadyInv /\ [Next]_vars => SteadyInv' BY SteadyInvStep
<1>2. SteadyInv /\ [Next]_vars =>
        [Worker => \A g \in Gateways :
             api[Cr(g)] # Absent /\ Wanted(g) /\ Current(g) => Current(g)']_vars
  BY CurrentKept
<1>3. QED BY SteadyInvInit, <1>1, <1>2, PTL DEF Spec, CurrentStaysCurrent

-----------------------------------------------------------------------------
(* NeverForgotten asks for more: users take nothing away but gateways,     *)
(* since the operator does not come to know of the rest; they change the   *)
(* replica count or other things, not both at once; and they leave a       *)
(* source alone that a gateway would not hear of (see UserActions).        *)
Considerate ==
    /\ Patient /\ Prompt
    /\ UserActions \subseteq {"create", "edit", "delete", "writeSource", "restart", "resync"}

(* A request carries a name and no kind, and the worker looks for a        *)
(* gateway first.                                                          *)
NamesApart == Gateways \cap SourceMaps = {} /\ Leader \notin SourceMaps

(* A gateway lives on with the deployment that was made for it.            *)
DeploymentsOwn ==
    \A g \in Gateways :
        LET cr == api[Cr(g)]
            d  == api[Dep(g)]
        IN  d # Absent => /\ d.owner.gw = g /\ d.owner.uid # 0
                          /\ cr # Absent => d.owner.uid = cr.uid

(* The deployment is as the worker has read it, or was annotated since.    *)
SameWork(d, e) == d.replicas = e.replicas /\ SameTemplates(d, e)
JobRead ==
    Working =>
        LET d == api[Dep(job.req)]
        IN  IF job.dply = Absent THEN d = Absent ELSE d # Absent /\ SameWork(job.dply, d)

(* The worker touches gateways that name the map.                          *)
TouchUsers ==
    pc = "touch" =>
        /\ job.req \in SourceMaps
        /\ \A g \in job.todo : api[Cr(g)] # Absent /\ job.req \in api[Cr(g)].spec.refs

OrderlyInv ==
    SteadyInv /\ MountInv /\ DeploymentsOwn /\ JobRead /\ TouchUsers

-----------------------------------------------------------------------------
(* What users do, and what they leave alone.                               *)

Sourced(g) == Mergeable(api[Cr(g)].spec, api)

OnlyAt(k) == /\ \A j \in Keys \ {k} : api'[j] = api[j] /\ stream'[j] = stream[j]
             /\ UNCHANGED <<queue, delayed>>

Creates(g) ==
    /\ api[Cr(g)] = Absent /\ OnlyAt(Cr(g)) /\ stream'[Cr(g)] # <<>>
Edits(g) ==
    /\ OnlyAt(Cr(g)) /\ stream'[Cr(g)] # <<>>
    /\ api[Cr(g)] # Absent /\ api'[Cr(g)] # Absent
    /\ UNCHANGED <<api[Cr(g)].uid, api[Cr(g)].failed>>
    /\ OneAspect(g, api'[Cr(g)].spec)
Deletes(g) == OnlyAt(Cr(g)) /\ api'[Cr(g)] = Absent
Writes(m) ==
    /\ OnlyAt(Src(m)) /\ api'[Src(m)] # Absent /\ stream'[Src(m)] # <<>>
    /\ \A g \in Naming(m) : Takes(g)
Restarts ==
    /\ \A k \in Keys : api'[k] = api[k] /\ stream'[k] = <<>>
    /\ \A g \in Gateways : api[Cr(g)] # Absent => g \in queue'
Resyncs ==
    /\ \A k \in Keys : api'[k] = api[k] /\ stream'[k] = stream[k]
    /\ queue \subseteq queue' /\ UNCHANGED delayed

LEMMA PutAt ==
    ASSUME StoreType, NEW k \in Keys, NEW obj \in ObjectsOf(k), Put(k, obj)
    PROVE  /\ \A j \in Keys \ {k} : api'[j] = api[j] /\ stream'[j] = stream[j]
           /\ stream'[k] # <<>> /\ api'[k] # Absent
           /\ api'[k] = [obj EXCEPT !.rv = version[k] + 1]
<1>1. stream[k] \in Seq(Optional(ObjectsOf(k))) BY DEF StoreType
<1>2. /\ stream'[k] = Append(stream[k], api'[k]) /\ api'[k] # Absent
      /\ api'[k] = [obj EXCEPT !.rv = version[k] + 1]
      /\ \A j \in Keys \ {k} : api'[j] = api[j] /\ stream'[j] = stream[j]
  BY PutEffect
<1>3. stream'[k] # <<>> BY <1>1, <1>2
<1>4. QED BY <1>2, <1>3

LEMMA UsersViews ==
    ASSUME TypeInv, Considerate, Users
    PROVE  /\ pc' = "idle"
           /\ Settled \/ Restarts
           /\ \A g \in Gateways : Ask(g) => Creates(g) \/ Edits(g)
           /\ \A m \in SourceMaps : Supply(m) => Writes(m)
           /\ Disturb => (\E g \in Gateways : Deletes(g)) \/ Restarts \/ Resyncs
<1>1. StoreType BY DEF TypeInv
<1>2. ASSUME NEW a, May(a)
      PROVE  /\ Settled /\ pc = "idle"
             /\ a \in {"create", "edit", "delete", "writeSource", "restart", "resync"}
  BY <1>2 DEF May, Happens, Considerate, Settled
<1>3. ASSUME NEW g \in Gateways, NEW s \in Specs, CreateGateway(g, s)
      PROVE  Creates(g) /\ May("create") /\ pc' = pc
  <2> DEFINE rv  == version[Cr(g)] + 1
             obj == [rv |-> 0, uid |-> rv, gen |-> rv, spec |-> s, failed |-> FALSE]
  <2>1. Cr(g) \in Keys /\ rv \in Nat \ {0} BY <1>1, KeyKinds DEF StoreType
  <2>2. obj \in ObjectsOf(Cr(g)) BY <2>1, KeyKinds DEF Gateway
  <2>3. /\ May("create") /\ api[Cr(g)] = Absent /\ Put(Cr(g), obj)
        /\ pc' = pc /\ UNCHANGED <<queue, delayed>>
    BY <1>3 DEF CreateGateway, workVars
  <2> HIDE DEF obj
  <2>4. QED BY <1>1, <2>1, <2>2, <2>3, PutAt DEF Creates, OnlyAt
<1>4. ASSUME NEW g \in Gateways, NEW s \in Specs, EditGateway(g, s)
      PROVE  Edits(g) /\ May("edit") /\ pc' = pc
  <2> DEFINE obj == [api[Cr(g)] EXCEPT !.spec = s, !.gen = version[Cr(g)] + 1]
  <2>1. /\ version[Cr(g)] + 1 \in Nat /\ api[Cr(g)] \in Gateway /\ Cr(g) \in Keys
        /\ api[Cr(g)] # Absent /\ ObjectsOf(Cr(g)) = Gateway
    BY <1>1, <1>4, KeyKinds, ReadTypes DEF StoreType, EditGateway, Optional
  <2>2. /\ obj \in Gateway /\ obj.uid = api[Cr(g)].uid /\ obj.failed = api[Cr(g)].failed
        /\ obj.spec = s
    BY <2>1 DEF Gateway
  <2>3. /\ Put(Cr(g), obj) /\ pc' = pc /\ UNCHANGED <<queue, delayed>>
        /\ May(IF OneAspect(g, s) THEN "edit" ELSE "mixedEdit")
    BY <1>4 DEF EditGateway, workVars
  <2>4. OneAspect(g, s) /\ May("edit") BY <1>2, <2>3
  <2> HIDE DEF obj
  <2>5. /\ \A j \in Keys \ {Cr(g)} : api'[j] = api[j] /\ stream'[j] = stream[j]
        /\ stream'[Cr(g)] # <<>> /\ api'[Cr(g)] # Absent
        /\ api'[Cr(g)] = [obj EXCEPT !.rv = version[Cr(g)] + 1]
    BY <1>1, <2>1, <2>2, <2>3, PutAt
  <2>6. /\ api'[Cr(g)].uid = obj.uid /\ api'[Cr(g)].failed = obj.failed
        /\ api'[Cr(g)].spec = obj.spec
    BY <2>2, <2>5 DEF Gateway
  <2>7. QED BY <2>1, <2>2, <2>3, <2>4, <2>5, <2>6 DEF Edits, OnlyAt
<1>5. ASSUME NEW g \in Gateways, DeleteGateway(g)
      PROVE  Deletes(g) /\ May("delete") /\ pc' = pc
  BY <1>1, <1>5, KeyKinds DEF DeleteGateway, Remove, Deletes, OnlyAt, StoreType, workVars
<1>6. ASSUME NEW m \in SourceMaps, NEW d \in Data, WriteSource(m, d)
      PROVE  Writes(m) /\ May("writeSource") /\ pc' = pc
  <2> DEFINE obj == [rv |-> 0, data |-> d]
  <2>1. Src(m) \in Keys /\ obj \in ObjectsOf(Src(m)) BY KeyKinds DEF SourceMap
  <2>2. /\ May(IF \A g \in Naming(m) : Takes(g) THEN "writeSource" ELSE "writeUnheard")
        /\ Put(Src(m), obj) /\ pc' = pc /\ UNCHANGED <<queue, delayed>>
    BY <1>6 DEF WriteSource, workVars
  <2>3. May("writeSource") /\ \A g \in Naming(m) : Takes(g) BY <1>2, <2>2
  <2> HIDE DEF obj
  <2>4. QED BY <1>1, <2>1, <2>2, <2>3, PutAt DEF Writes, OnlyAt
<1>7. ASSUME Restart PROVE Restarts /\ pc' = "idle"
  BY <1>7 DEF Restart, Relist, Restarts
<1>8. ASSUME Resync PROVE Resyncs /\ May("resync") /\ pc' = pc
  BY <1>8 DEF Resync, Resyncs, kubeVars
<1>9. /\ \A g \in Gateways : ~DeleteDeployment(g)
      /\ \A m \in SourceMaps : ~DeleteSource(m)
      /\ \A i \in MapIds : ~DeleteMap(i)
  BY <1>2 DEF DeleteDeployment, DeleteSource, DeleteMap
<1>10. ASSUME NEW g \in Gateways, Ask(g)
       PROVE  pc' = "idle" /\ Settled /\ (Creates(g) \/ Edits(g))
  BY <1>2, <1>3, <1>4, <1>10 DEF Ask
<1>11. ASSUME NEW m \in SourceMaps, Supply(m) PROVE pc' = "idle" /\ Settled /\ Writes(m)
  BY <1>2, <1>6, <1>11 DEF Supply
<1>12. ASSUME Disturb
       PROVE  /\ pc' = "idle"
              /\ Settled \/ Restarts
              /\ (\E g \in Gateways : Deletes(g)) \/ Restarts \/ Resyncs
  BY <1>2, <1>5, <1>7, <1>8, <1>9, <1>12 DEF Disturb
<1>13. pc' = "idle" /\ (Settled \/ Restarts) BY <1>10, <1>11, <1>12 DEF Users
<1>14. QED BY <1>10, <1>11, <1>12, <1>13

-----------------------------------------------------------------------------
(* What everybody else does to gateways, sources and deployments.          *)

GatewaysKept ==
    \A g \in Gateways :
        /\ api'[Cr(g)] = Absent <=> api[Cr(g)] = Absent
        /\ api'[Cr(g)].spec = api[Cr(g)].spec /\ api'[Cr(g)].uid = api[Cr(g)].uid
        /\ api[Cr(g)] # Absent /\ api[Cr(g)].failed => api'[Cr(g)].failed
SourcesKept == \A m \in SourceMaps : api'[Src(m)] = api[Src(m)]

MissingKept ==
    \A g \in Gateways : Missing(g) => Missing(g)' \/ (CreateDeployment /\ g = job.req)

LEMMA WorkerKeeps ==
    ASSUME SteadyInv, Worker
    PROVE  GatewaysKept /\ SourcesKept /\ MissingKept
<1> USE DEF GatewaysKept, SourcesKept, MissingKept, Missing
<1>1. TypeInv /\ StoreType BY DEF SteadyInv, CopyInv, TypeInv
<1>2. Handling => /\ job.req \in Gateways /\ job.inst # Absent /\ api[Cr(job.req)] = job.inst
  BY <1>1, SpecTypes DEF SteadyInv, JobAsks
<1>3. CASE api' = api BY <1>3
<1>4. ASSUME NEW h \in Gateways, api[Cr(h)] # Absent, PutStatus(Cr(h))
      PROVE  GatewaysKept /\ SourcesKept /\ MissingKept
  <2>1. /\ \A k \in Keys \ {Cr(h)} : api'[k] = api[k]
        /\ api'[Cr(h)] # Absent /\ api'[Cr(h)].failed = TRUE
        /\ api'[Cr(h)].spec = api[Cr(h)].spec /\ api'[Cr(h)].uid = api[Cr(h)].uid
    BY <1>1, <1>4, StatusKeeps
  <2>2. QED BY <1>4, <2>1, KeyKinds, KeysDiffer
<1>5. CASE \E h \in Gateways : Touch(h) BY <1>3, <1>4, <1>5 DEF Touch, Fresh
<1>6. CASE CreateMap \/ UpdateMap \/ KeepMap BY <1>1, <1>6, MapStepKeeps
<1>7. CASE CreateDeployment
  <2>1. job.req \in Gateways /\ Put(Dep(job.req), NewDeployment)
    BY <1>2, <1>7 DEF CreateDeployment, Handling
  <2>2. \A k \in Keys \ {Dep(job.req)} : api'[k] = api[k] BY <1>1, <2>1 DEF StoreType, Put
  <2>3. /\ \A g \in Gateways : api'[Cr(g)] = api[Cr(g)]
        /\ \A g \in Gateways \ {job.req} : api'[Dep(g)] = api[Dep(g)]
        /\ \A m \in SourceMaps : api'[Src(m)] = api[Src(m)]
    BY <2>1, <2>2, KeyKinds, KeysDiffer
  <2>4. QED BY <1>7, <2>3
<1>8. CASE ScaleDeployment \/ UpdateDeployment
  <2>1. /\ job.req \in Gateways
        /\ \A k \in Keys \ {Dep(job.req)} : api'[k] = api[k]
        /\ api[Dep(job.req)] # Absent
    BY <1>8, DeploymentRewritten
  <2>2. /\ \A g \in Gateways : api'[Cr(g)] = api[Cr(g)]
        /\ \A g \in Gateways \ {job.req} : api'[Dep(g)] = api[Dep(g)]
        /\ \A m \in SourceMaps : api'[Src(m)] = api[Src(m)]
    BY <2>1, KeyKinds, KeysDiffer
  <2>3. QED BY <2>1, <2>2
<1>9. CASE ManageError
  <2>1. Handling BY <1>9 DEF ManageError, Handling
  <2>2. QED BY <1>2, <1>3, <1>4, <1>9, <2>1 DEF ManageError, Fresh
<1>10. CASE \E n \in Names : Reconcile(n)
  BY <1>3, <1>10 DEF Reconcile, ReconcileGateway, PanicInMerge, ReconcileConfigMap,
                     ReconcileNothing, kubeVars
<1>11. CASE MapRefused \/ PanicNoAnnotations \/ KeepDeployment \/ DeploymentRefused
  BY <1>3, <1>11 DEF MapRefused, PanicNoAnnotations, KeepDeployment,
                     DeploymentRefused, kubeVars
<1>12. QED
  BY <1>5, <1>6, <1>7, <1>8, <1>9, <1>10, <1>11 DEF Worker, GoOn, Succeed

(* The cluster takes nothing from a gateway that lives.                    *)
LEMMA OthersKeepWork ==
    ASSUME TypeInv, MountedMapExists, DeploymentsOwn, Manager \/ Cluster \/ UNCHANGED vars
    PROVE  /\ GatewaysKept /\ SourcesKept /\ MissingKept
           /\ \A g \in Gateways : api[Cr(g)] # Absent =>
                 /\ Missing(g)' <=> Missing(g)
                 /\ ~Missing(g) => SameWork(api[Dep(g)], api'[Dep(g)])
                 /\ RightSize(g) => RightSize(g)'
                 /\ RightWork(g) => RightWork(g)'
<1> USE DEF GatewaysKept, SourcesKept, MissingKept
<1>1. StoreType BY DEF TypeInv
<1>2. CASE api' = api BY <1>2 DEF Missing, SameWork, SameTemplates, RightSize, RightWork
<1>3. CASE Manager \/ UNCHANGED vars
  BY <1>2, <1>3 DEF Manager, Deliver, Expire, Advance, kubeVars, vars
<1>4. CASE \E h \in Gateways : Annotate(h)
  <2> PICK h \in Gateways : Annotate(h) BY <1>4
  <2> DEFINE obj == [api[Dep(h)] EXCEPT !.annotated = TRUE]
  <2>1. /\ api[Dep(h)] \in Deployment /\ Dep(h) \in Keys /\ ObjectsOf(Dep(h)) = Deployment
        /\ api[Dep(h)] # Absent /\ ~api[Dep(h)].annotated /\ Put(Dep(h), obj)
    BY <1>1, KeyKinds, ReadTypes DEF Annotate, Optional
  <2>2. /\ obj \in Deployment /\ obj.replicas = api[Dep(h)].replicas
        /\ obj.opts = api[Dep(h)].opts /\ obj.map = api[Dep(h)].map
        /\ obj.ver = api[Dep(h)].ver
    BY <2>1 DEF Deployment
  <2> HIDE DEF obj
  <2>3. /\ \A j \in Keys \ {Dep(h)} : api'[j] = api[j]
        /\ api'[Dep(h)] # Absent
        /\ api'[Dep(h)] = [obj EXCEPT !.rv = version[Dep(h)] + 1]
    BY <1>1, <2>1, <2>2, PutAt
  <2>4. SameWork(api[Dep(h)], api'[Dep(h)])
    BY <2>2, <2>3 DEF SameWork, SameTemplates, Deployment
  <2>5. /\ \A g \in Gateways : api'[Cr(g)] = api[Cr(g)]
        /\ \A g \in Gateways \ {h} : api'[Dep(g)] = api[Dep(g)]
        /\ \A m \in SourceMaps : api'[Src(m)] = api[Src(m)]
        /\ \A i \in MapIds : api'[Map(i)] = api[Map(i)]
    BY <2>3, KeyKinds, KeysDiffer
  <2>6. GatewaysKept /\ SourcesKept /\ MissingKept BY <2>1, <2>5 DEF Missing
  <2>7. ASSUME NEW g \in Gateways, api[Cr(g)] # Absent
        PROVE  /\ Missing(g)' <=> Missing(g)
               /\ ~Missing(g) => SameWork(api[Dep(g)], api'[Dep(g)])
               /\ RightSize(g) => RightSize(g)'
               /\ RightWork(g) => RightWork(g)'
    <3>1. Missing(g)' <=> Missing(g) BY <2>1, <2>3, <2>5 DEF Missing
    <3>2. SameWork(api[Dep(g)], api'[Dep(g)])
      BY <2>4, <2>5 DEF SameWork, SameTemplates
    <3>3. RightSize(g) => RightSize(g)'
      BY <2>5, <3>1, <3>2 DEF RightSize, Missing, SameWork
    <3>4. ASSUME RightWork(g) PROVE RightWork(g)'
      <4>1. api[Dep(g)].map \in MapIds /\ api[Cr(g)].spec \in Specs /\ ~Missing(g)
        BY <2>7, <3>4, SpecTypes DEF RightWork, Missing
      <4>2. api[Cr(g)].spec.refs \subseteq SourceMaps BY <4>1, SpecsAssumption
      <4>3. QED
        BY <2>5, <3>1, <3>2, <3>4, <4>1, <4>2, RightWorkAlike DEF Missing, SameWork
    <3>5. QED BY <3>1, <3>2, <3>3, <3>4
  <2>8. QED BY <2>6, <2>7
<1>5. CASE \E k \in DepKeys \cup MapKeys : Collect(k)
  <2> PICK k \in DepKeys \cup MapKeys : Collect(k) BY <1>5
  <2>1. /\ k \in Keys /\ Orphan(k) /\ api'[k] = Absent
        /\ \A j \in Keys \ {k} : api'[j] = api[j]
    BY <1>1, KeysAssumption DEF Collect, Remove, StoreType
  <2>2. /\ \A g \in Gateways : Cr(g) # k
        /\ \A m \in SourceMaps : Src(m) # k
    BY KeysDiffer DEF DepKeys, MapKeys
  <2>3. /\ \A g \in Gateways : api'[Cr(g)] = api[Cr(g)]
        /\ \A m \in SourceMaps : api'[Src(m)] = api[Src(m)]
        /\ \A g \in Gateways : api'[Dep(g)] # Absent => api'[Dep(g)] = api[Dep(g)]
    BY <2>1, <2>2, KeyKinds
  <2>4. GatewaysKept /\ SourcesKept /\ MissingKept BY <2>3 DEF Missing
  <2>5. ASSUME NEW g \in Gateways, api[Cr(g)] # Absent
        PROVE  /\ Missing(g)' <=> Missing(g)
               /\ ~Missing(g) => SameWork(api[Dep(g)], api'[Dep(g)])
               /\ RightSize(g) => RightSize(g)'
               /\ RightWork(g) => RightWork(g)'
    <3>1. CASE Missing(g)
      BY <2>3, <3>1 DEF Missing, RightSize, RightWork
    <3>2. CASE ~Missing(g)
      <4>1. api[Dep(g)] # Absent /\ Live(api[Dep(g)].owner)
        BY <2>5, <3>2 DEF DeploymentsOwn, Live, Missing
      <4>2. k # Dep(g) BY <2>1, <4>1 DEF Orphan
      <4>3. k # Map(api[Dep(g)].map) BY <2>1, <4>1 DEF Orphan, MountedMapExists
      <4>4. api'[Dep(g)] = api[Dep(g)] BY <2>1, <4>2, KeyKinds
      <4>5. api[Cr(g)].spec.refs \subseteq SourceMaps
        BY <2>5, SpecTypes, SpecsAssumption
      <4>6. /\ Missing(g)' <=> Missing(g)
            /\ RightSize(g) => RightSize(g)'
            /\ RightWork(g) => RightWork(g)'
        BY <2>1, <2>2, <2>3, <2>5, <4>2, <4>3, <4>5, WriteKeeps
      <4>7. QED BY <4>4, <4>6 DEF SameWork, SameTemplates
    <3>3. QED BY <3>1, <3>2
  <2>6. QED BY <2>4, <2>5
<1>6. QED BY <1>3, <1>4, <1>5 DEF Cluster

-----------------------------------------------------------------------------
(* What the worker finds on its way.                                       *)

(* The map of the deployment it has read is there, so that it makes a new  *)
(* one for a new deployment only; and the two things it compares are       *)
(* right, or not, in the deployment that is there.                         *)
LEMMA OnTheWay ==
    ASSUME OrderlyInv, Working
    PROVE  /\ job.req \in Gateways /\ api[Cr(job.req)] = job.inst /\ job.inst # Absent
           /\ job.inst.spec \in Specs /\ Sourced(job.req)
           /\ job.data = Merge(api[Cr(job.req)].spec, api)
           /\ Missing(job.req) <=> job.dply = Absent
           /\ job.dply # Absent =>
                  /\ SameWork(job.dply, api[Dep(job.req)])
                  /\ api[Map(job.dply.map)] # Absent
           /\ pc = "configMap" /\ job.dply # Absent =>
                  FoundMap /\ Found = api[Map(job.dply.map)]
           /\ pc = "deployment" =>
                  LET m == api[Map(job.cm.map)]
                  IN  /\ m # Absent /\ m.data = job.data
                      /\ job.cm = [map |-> job.cm.map, rv |-> m.rv]
           /\ pc = "deployment" /\ job.dply # Absent => job.cm.map = job.dply.map
<1>1. /\ TypeInv /\ SteadyInv /\ MountedMapExists /\ DeploymentsOwn /\ JobRead /\ JobMap
      /\ Handling
  BY DEF OrderlyInv, SteadyInv, MountInv, CopyInv, Working, Handling
<1>2. /\ job.req \in Gateways /\ api[Cr(job.req)] = job.inst /\ job.inst # Absent
      /\ job.inst.spec \in Specs
  BY <1>1, SpecTypes DEF SteadyInv, JobAsks
<1>3. Sourced(job.req) /\ job.data = Merge(api[Cr(job.req)].spec, api)
  BY <1>1, <1>2 DEF SteadyInv, JobMerged, Sourced
<1>4. /\ Missing(job.req) <=> job.dply = Absent
      /\ job.dply # Absent => SameWork(job.dply, api[Dep(job.req)])
  BY <1>1 DEF JobRead, Missing
<1>5. job.dply # Absent => /\ job.dply.map \in MapIds
                           /\ job.dply.map = api[Dep(job.req)].map
                           /\ Map(job.dply.map) \in Keys
  BY <1>1, <1>4, SpecTypes, KeyKinds DEF SameWork, SameTemplates
<1>6. job.dply # Absent => api[Map(job.dply.map)] # Absent
  BY <1>1, <1>2, <1>4, <1>5 DEF DeploymentsOwn, MountedMapExists, Live, Missing
<1>7. pc = "configMap" /\ job.dply # Absent => FoundMap /\ Found = api[Map(job.dply.map)]
  BY <1>1, <1>5, <1>6 DEF FoundMap, Found, SteadyInv, JobMapRead, WatchInv, Known
<1>8. pc = "deployment" /\ job.dply # Absent => job.cm.map = job.dply.map
  BY <1>1, <1>6 DEF SteadyInv, JobMapWritten
<1>9. ASSUME pc = "deployment"
      PROVE  LET m == api[Map(job.cm.map)]
             IN  /\ m # Absent /\ m.data = job.data
                 /\ job.cm = [map |-> job.cm.map, rv |-> m.rv]
  <2>1. job.cm \in MapRef BY <1>1, <1>9 DEF TypeInv, JobShape
  <2>2. Live(JobOwner) BY <1>2 DEF Live, JobOwner
  <2>3. api[Map(job.cm.map)] # Absent
    BY <1>1, <1>6, <1>8, <1>9, <2>2 DEF JobMap, Lasts
  <2>4. api[Map(job.cm.map)].data = job.data /\ api[Map(job.cm.map)].rv = job.cm.rv
    BY <1>1, <1>9, <2>3 DEF SteadyInv, JobMapWritten
  <2>5. job.cm = [map |-> job.cm.map, rv |-> job.cm.rv] BY <2>1 DEF MapRef
  <2>6. QED BY <2>3, <2>4, <2>5
<1>10. QED BY <1>2, <1>3, <1>4, <1>6, <1>7, <1>8, <1>9

LEMMA Comparisons ==
    ASSUME OrderlyInv, pc = "deployment", job.dply # Absent
    PROVE  /\ SameReplicas <=> RightSize(job.req)
           /\ SameTemplate <=> RightWork(job.req)
<1>1. Working BY DEF Working
<1>2. /\ job.req \in Gateways /\ api[Cr(job.req)] = job.inst /\ job.inst # Absent
      /\ job.data = Merge(api[Cr(job.req)].spec, api)
      /\ api[Dep(job.req)] # Absent /\ SameWork(job.dply, api[Dep(job.req)])
      /\ api[Map(job.cm.map)] # Absent /\ api[Map(job.cm.map)].data = job.data
      /\ job.cm = [map |-> job.cm.map, rv |-> api[Map(job.cm.map)].rv]
      /\ job.cm.map = job.dply.map
  BY <1>1, OnTheWay DEF Missing
<1>3. SameReplicas <=> RightSize(job.req)
  BY <1>2 DEF SameReplicas, RightSize, SameWork
<1>4. SameTemplate <=> RightWork(job.req)
  BY <1>2 DEF SameTemplate, RightWork, SameWork, SameTemplates
<1>5. QED BY <1>3, <1>4

(* What CreateDeployment writes.                                           *)
LEMMA DeploymentMade ==
    ASSUME OrderlyInv, CreateDeployment
    PROVE  /\ \A k \in Keys \ {Dep(job.req)} : api'[k] = api[k] /\ stream'[k] = stream[k]
           /\ \A g : g = job.req => Current(g)'
<1>1. pc = "deployment" /\ Working /\ job.dply = Absent /\ Put(Dep(job.req), NewDeployment)
  BY DEF CreateDeployment, Working
<1>2. TypeInv /\ StoreType BY DEF OrderlyInv, SteadyInv, CopyInv, TypeInv
<1>3. /\ job.req \in Gateways /\ api[Cr(job.req)] = job.inst /\ job.inst # Absent
      /\ job.inst.spec \in Specs
      /\ job.data = Merge(job.inst.spec, api)
      /\ api[Map(job.cm.map)] # Absent /\ api[Map(job.cm.map)].data = job.data
      /\ job.cm = [map |-> job.cm.map, rv |-> api[Map(job.cm.map)].rv]
  BY <1>1, OnTheWay
<1>4. job.cm \in MapRef /\ job.cm.map \in MapIds /\ JobOwner \in Owner
  BY <1>1, <1>2, OwnerTypes DEF TypeInv, JobShape
<1>5. NewDeployment \in Deployment
  <2>1. /\ job.inst.spec.replicas \in {s.replicas : s \in Specs}
        /\ job.inst.spec.opts \in {s.opts : s \in Specs}
    BY <1>3
  <2>2. QED BY <1>4, <2>1 DEF NewDeployment, Deployment
<1>6. Dep(job.req) \in Keys /\ ObjectsOf(Dep(job.req)) = Deployment BY <1>3, KeyKinds
<1>7. /\ \A k \in Keys \ {Dep(job.req)} : api'[k] = api[k] /\ stream'[k] = stream[k]
      /\ api'[Dep(job.req)] # Absent
      /\ api'[Dep(job.req)] = [NewDeployment EXCEPT !.rv = version[Dep(job.req)] + 1]
  BY <1>1, <1>2, <1>5, <1>6, PutEffect
<1>8. LET d == api'[Dep(job.req)]
      IN  /\ d.replicas = job.inst.spec.replicas /\ d.opts = job.inst.spec.opts
          /\ d.map = job.cm.map /\ d.ver = job.cm
  BY <1>7 DEF NewDeployment
<1>9. /\ api'[Cr(job.req)] = job.inst
      /\ \A m \in SourceMaps : api'[Src(m)] = api[Src(m)]
      /\ api'[Map(job.cm.map)] = api[Map(job.cm.map)]
  <2>1. \A k \in Keys \ {Dep(job.req)} : api'[k] = api[k] BY <1>7
  <2>2. job.req \in Gateways /\ api[Cr(job.req)] = job.inst BY <1>3
  <2>3. api'[Cr(job.req)] = api[Cr(job.req)] BY <2>1, <2>2, KeyKinds, KeysDiffer, Zenon
  <2>4. \A m \in SourceMaps : api'[Src(m)] = api[Src(m)]
    BY <2>1, KeyKinds, KeysDiffer, Zenon
  <2>5. job.cm.map \in MapIds BY <1>4
  <2>6. api'[Map(job.cm.map)] = api[Map(job.cm.map)]
    BY <2>1, <2>5, KeyKinds, KeysDiffer, Zenon
  <2>7. QED BY <2>2, <2>3, <2>4, <2>6
<1>10. Merge(job.inst.spec, api') = job.data
  <2>1. job.inst.spec \in Specs /\ job.data = Merge(job.inst.spec, api) BY <1>3
  <2>2. \A m \in SourceMaps : api'[Src(m)] = api[Src(m)] BY <1>9
  <2>3. Merge(job.inst.spec, api') = Merge(job.inst.spec, api) BY <2>1, <2>2, MergeAlike
  <2>4. QED BY <2>1, <2>3
<1>11. ASSUME NEW g, g = job.req PROVE Current(g)'
  <2>1. /\ api'[Dep(g)] # Absent /\ api'[Cr(g)] = job.inst
        /\ api'[Dep(g)].replicas = job.inst.spec.replicas
        /\ api'[Dep(g)].opts = job.inst.spec.opts
        /\ api'[Dep(g)].map = job.cm.map /\ api'[Dep(g)].ver = job.cm
    BY <1>7, <1>8, <1>9, <1>11
  <2>2. LET m == api'[Map(job.cm.map)]
        IN  /\ m # Absent /\ m.data = Merge(job.inst.spec, api')
            /\ job.cm = [map |-> job.cm.map, rv |-> m.rv]
    BY <1>3, <1>9, <1>10
  <2>3. QED BY <2>1, <2>2, Zenon DEF Current
<1>12. QED BY <1>7, <1>11

-----------------------------------------------------------------------------
(* The order is kept.                                                      *)

LEMMA TouchStep ==
    ASSUME TypeInv, Considerate, [Next]_vars, pc' = "touch"
    PROVE  \/ \E n \in Names : ReconcileConfigMap(n)
           \/ \E g \in Gateways : Touch(g) /\ job'.req = job.req /\ job'.todo \subseteq job.todo
           \/ Others
<1>1. CASE \E n \in Names : Reconcile(n)
  BY <1>1 DEF Reconcile, ReconcileGateway, PanicInMerge, ReconcileNothing, Start
<1>2. ASSUME NEW g \in Gateways, Touch(g)
      PROVE  job'.req = job.req /\ job'.todo \subseteq job.todo
  <2>1. job' = [job EXCEPT !.todo = job.todo \ {g}]
    BY <1>2 DEF Touch, TouchNext, Done, Requeue
  <2>2. QED BY <2>1 DEF TypeInv, WorkType
<1>3. CASE CreateMap \/ UpdateMap \/ KeepMap \/ MapRefused \/ DeploymentRefused
  BY <1>3 DEF CreateMap, UpdateMap, KeepMap, MapRefused, DeploymentRefused, Goto
<1>4. CASE CreateDeployment \/ ScaleDeployment \/ UpdateDeployment \/ ManageError
  BY <1>4 DEF CreateDeployment, ScaleDeployment, UpdateDeployment, ManageError, Done
<1>5. CASE PanicNoAnnotations \/ KeepDeployment
  BY <1>5 DEF PanicNoAnnotations, KeepDeployment, Requeue
<1>6. CASE Manager BY <1>6 DEF Manager, Deliver, Expire, Others
<1>7. CASE Cluster BY <1>7 DEF Cluster, Annotate, Collect, workVars, Others
<1>8. CASE Users BY <1>8, UsersViews
<1>9. CASE UNCHANGED vars BY <1>9 DEF vars, workVars, Others
<1>10. QED
  BY <1>1, <1>2, <1>3, <1>4, <1>5, <1>6, <1>7, <1>8, <1>9 DEF Next, Worker, GoOn, Succeed

(* When nothing is under way the caches hold what the API server does.     *)
LEMMA DeliveredReads ==
    ASSUME WatchInv, Delivered
    PROVE  \A k \in Keys : cache[k] = api[k]
BY DEF WatchInv, Delivered, Known

(* Users keep the deployments, and make a gateway when the old one is gone *)
(* with all it owned.                                                      *)
LEMMA UsersKeep ==
    ASSUME TypeInv, Considerate, DeploymentsOwn, Users
    PROVE  /\ \A g \in Gateways : api'[Dep(g)] = api[Dep(g)]
           /\ \A i \in MapIds : api'[Map(i)] = api[Map(i)]
           /\ \A g \in Gateways : api'[Cr(g)] # Absent =>
                  \/ Missing(g) /\ Creates(g)
                  \/ api[Cr(g)] # Absent /\ api'[Cr(g)].uid = api[Cr(g)].uid
<1>1. /\ Settled \/ Restarts
      /\ \/ \E g \in Gateways : Creates(g) \/ Edits(g) \/ Deletes(g)
         \/ \E m \in SourceMaps : Writes(m)
         \/ Restarts \/ Resyncs
  BY UsersViews DEF Users
<1>2. /\ \A g \in Gateways : api'[Dep(g)] = api[Dep(g)]
      /\ \A i \in MapIds : api'[Map(i)] = api[Map(i)]
  BY <1>1, KeyKinds, KeysDiffer DEF Creates, Edits, Deletes, Writes, OnlyAt, Restarts, Resyncs
<1>3. ASSUME NEW g \in Gateways, api'[Cr(g)] # Absent
      PROVE  \/ Missing(g) /\ Creates(g)
             \/ api[Cr(g)] # Absent /\ api'[Cr(g)].uid = api[Cr(g)].uid
  <2>1. CASE Creates(g) /\ Settled
    <3>1. Dep(g) \in DepKeys /\ Dep(g) \in Keys BY KeyKinds DEF DepKeys
    <3>2. api[Dep(g)] # Absent => Orphan(Dep(g))
      BY <2>1, <3>1 DEF Creates, DeploymentsOwn, Orphan, Live
    <3>3. QED BY <2>1, <3>1, <3>2 DEF Settled, Missing
  <2>2. CASE Restarts
    BY <1>3, <2>2, KeyKinds DEF Restarts
  <2>3. CASE ~Creates(g)
    BY <1>1, <1>3, <2>3, KeyKinds, KeysDiffer
    DEF Creates, Edits, Deletes, Writes, OnlyAt, Restarts, Resyncs
  <2>4. QED BY <1>1, <2>1, <2>2, <2>3
<1>4. QED BY <1>2, <1>3

LEMMA OrderlyInvInit == Init => OrderlyInv
<1> SUFFICES ASSUME Init PROVE OrderlyInv OBVIOUS
<1>1. SteadyInv /\ MountInv BY SteadyInvInit, MountInvInit
<1>2. \A k \in Keys : api[k] = Absent BY DEF Init
<1>3. pc = "idle" BY DEF Init
<1>4. DeploymentsOwn BY <1>2, KeyKinds DEF DeploymentsOwn
<1>5. JobRead /\ TouchUsers BY <1>3 DEF JobRead, TouchUsers, Working
<1>6. QED BY <1>1, <1>4, <1>5 DEF OrderlyInv

LEMMA OrderlyInvStep ==
    ASSUME Considerate, OrderlyInv, [Next]_vars
    PROVE  OrderlyInv'
<1>1. Patient /\ Prompt /\ "deleteMap" \notin UserActions BY DEF Considerate
<1>2. SteadyInv' /\ MountInv'
  BY <1>1, SteadyInvStep, MountInvStep DEF OrderlyInv
<1>3. /\ SteadyInv /\ MountInv /\ CopyInv /\ TypeInv /\ TypeInv' /\ StoreType /\ Unmade
      /\ made \in Nat /\ MountedMapExists /\ DeploymentsOwn /\ WatchInv
  BY <1>2, BoundsAssumption
  DEF OrderlyInv, SteadyInv, MountInv, CopyInv, TypeInv, CountType
<1>4. StoreStep BY <1>3, NextStoreStep DEF CopyInv
<1>5. DeploymentsFrom BY <1>3, <1>4, StoreStepEffect
<1>6. Worker \/ (Manager \/ Cluster \/ UNCHANGED vars) \/ Users BY DEF Next
<1>7. Worker \/ (Manager \/ Cluster \/ UNCHANGED vars) =>
          GatewaysKept /\ SourcesKept /\ MissingKept
  BY <1>3, WorkerKeeps, OthersKeepWork
<1>8. DeploymentsOwn'
  <2> SUFFICES ASSUME NEW g \in Gateways, api'[Dep(g)] # Absent
      PROVE  /\ api'[Dep(g)].owner.gw = g /\ api'[Dep(g)].owner.uid # 0
             /\ api'[Cr(g)] # Absent => api'[Dep(g)].owner.uid = api'[Cr(g)].uid
    BY DEF DeploymentsOwn
  <2>1. CASE api[Dep(g)] # Absent /\ api'[Dep(g)].owner = api[Dep(g)].owner
    <3>1. api'[Cr(g)] # Absent => api[Cr(g)] # Absent /\ api'[Cr(g)].uid = api[Cr(g)].uid
      BY <1>3, <1>6, <1>7, <2>1, UsersKeep DEF GatewaysKept, Missing
    <3>2. QED BY <1>3, <2>1, <3>1 DEF DeploymentsOwn
  <2>2. CASE pc = "deployment" /\ g = job.req /\ api'[Dep(g)].owner = JobOwner
    <3>1. job.inst \in Gateway /\ api[Cr(g)] = job.inst /\ api[Cr(g)] # Absent
      BY <1>3, <2>2, SpecTypes DEF SteadyInv, JobAsks, Handling
    <3>2. api'[Cr(g)] # Absent => api'[Cr(g)].uid = job.inst.uid
      BY <1>3, <1>6, <1>7, <3>1, UsersKeep DEF GatewaysKept, Creates
    <3>3. QED BY <2>2, <3>1, <3>2 DEF JobOwner, Gateway
  <2>3. QED BY <1>5, <2>1, <2>2 DEF DeploymentsFrom
<1>9. JobRead'
  <2> SUFFICES ASSUME Working' PROVE JobRead' BY DEF JobRead
  <2>1. Handling' BY DEF Working, Handling
  <2>2. CASE Begins
    <3>1. \A k \in Keys : cache[k] = api'[k]
      BY <1>3, <2>2, DeliveredReads DEF Begins, StoreKept
    <3>2. job'.dply = api'[Dep(job'.req)] BY <2>2, <3>1, KeyKinds DEF Begins
    <3>3. QED BY <3>2 DEF JobRead, SameWork, SameTemplates
  <2>3. CASE Maps
    <3>1. /\ Working /\ UNCHANGED <<job.req, job.dply>>
          /\ CreateMap \/ UpdateMap \/ KeepMap
      BY <2>3 DEF Maps, Working
    <3>2. api'[Dep(job.req)] = api[Dep(job.req)] BY <1>3, <3>1, OnTheWay, MapStepKeeps
    <3>3. QED BY <3>1, <3>2 DEF OrderlyInv, JobRead
  <2>4. CASE Refused BY <2>4 DEF Refused, Working
  <2>5. CASE Others
    <3>1. UNCHANGED <<pc, job>> /\ Working /\ (Manager \/ Cluster \/ UNCHANGED vars)
      BY <2>5 DEF Others, Working
    <3>2. job.req \in Gateways /\ api[Cr(job.req)] # Absent BY <3>1, OnTheWay
    <3>3. /\ Missing(job.req)' <=> Missing(job.req)
          /\ ~Missing(job.req) => SameWork(api[Dep(job.req)], api'[Dep(job.req)])
      BY <1>3, <3>1, <3>2, OthersKeepWork DEF Missing
    <3>4. QED BY <3>1, <3>3 DEF OrderlyInv, JobRead, SameWork, SameTemplates, Missing
  <2>6. QED BY <1>1, <1>3, <2>1, <2>2, <2>3, <2>4, <2>5, WorkStep
<1>10. TouchUsers'
  <2> SUFFICES ASSUME pc' = "touch"
      PROVE  /\ job'.req \in SourceMaps
             /\ \A g \in job'.todo :
                    api'[Cr(g)] # Absent /\ job'.req \in api'[Cr(g)].spec.refs
    BY DEF TouchUsers
  <2>1. job.todo \subseteq Gateways BY <1>3 DEF TypeInv, WorkType
  <2>2. ASSUME NEW n \in Names, ReconcileConfigMap(n)
        PROVE  /\ job'.req \in SourceMaps
               /\ \A g \in job'.todo :
                      api'[Cr(g)] # Absent /\ job'.req \in api'[Cr(g)].spec.refs
    <3> DEFINE users == {g \in Gateways : cache[Cr(g)] # Absent /\ n \in cache[Cr(g)].spec.refs}
               todo  == IF n = Leader THEN {} ELSE users
    <3>1. /\ n \in SourceMaps /\ Delivered /\ api' = api
          /\ job' = [NoJob EXCEPT !.req = n, !.todo = todo]
      BY <1>1, <2>2 DEF ReconcileConfigMap, PanicInMerge, Start, IsConfigMap, kubeVars
    <3>2. job'.req = n /\ job'.todo = todo BY <3>1 DEF NoJob
    <3>3. \A k \in Keys : cache[k] = api[k] BY <1>3, <3>1, DeliveredReads
    <3>4. QED BY <3>1, <3>2, <3>3, KeyKinds
  <2>3. ASSUME GatewaysKept, pc = "touch", job'.req = job.req, job'.todo \subseteq job.todo
        PROVE  /\ job'.req \in SourceMaps
               /\ \A g \in job'.todo :
                      api'[Cr(g)] # Absent /\ job'.req \in api'[Cr(g)].spec.refs
    BY <2>1, <2>3 DEF OrderlyInv, TouchUsers, GatewaysKept
  <2>4. ASSUME NEW g \in Gateways, Touch(g) PROVE pc = "touch" /\ Worker
    BY <2>4 DEF Touch, Worker, GoOn, Succeed
  <2>5. Others => pc = "touch" /\ job' = job /\ (Manager \/ Cluster \/ UNCHANGED vars)
    BY DEF Others
  <2>6. QED BY <1>3, <1>7, <2>2, <2>3, <2>4, <2>5, TouchStep
<1>11. QED BY <1>2, <1>8, <1>9, <1>10 DEF OrderlyInv

-----------------------------------------------------------------------------
(* What is not as it should be is in the worker's hands, or reported.      *)

(* Scaling a deployment is all that Reconcile then does, so that one of    *)
(* the two must have been right.                                           *)
HalfInv ==
    \A g \in Gateways : api[Cr(g)] # Absent => Missing(g) \/ RightSize(g) \/ RightWork(g)

(* The worker will come to a gateway itself, or to one of its sources; but *)
(* then its touch is an event only if the status says nothing yet.         *)
Cared(g) ==
    \/ Current(g) \/ told[g] # "nothing" \/ OwnTurn(g)
    \/ SourceTurn(g) /\ ~api[Cr(g)].failed
CareInv == \A g \in Gateways : Wanted(g) => Cared(g)

(* What the status once said it goes on to say; and manageError has the    *)
(* gateway as it is, since nobody edits it meanwhile.                      *)
ToldInv ==
    /\ told \in [Gateways -> Endings \ {"refused"}]
    /\ \A g \in Gateways :
           told[g] = "status" /\ api[Cr(g)] # Absent => api[Cr(g)].failed

NeverForgottenInv == OrderlyInv /\ HalfInv /\ ToldInv /\ CareInv

LEMMA CaredOn ==
    ASSUME NEW g, Cared(g), Current(g) => Current(g)', told'[g] = told[g],
           OwnTurn(g) => OwnTurn(g)',
           SourceTurn(g) /\ ~api[Cr(g)].failed =>
               (SourceTurn(g)' /\ ~api'[Cr(g)].failed) \/ OwnTurn(g)'
    PROVE  Cared(g)'
BY DEF Cared

LEMMA WantedSpecs ==
    ASSUME TypeInv, NEW g \in Gateways, api[Cr(g)] # Absent
    PROVE  api[Cr(g)].spec \in Specs /\ api[Cr(g)].spec.refs \subseteq SourceMaps
BY SpecTypes, SpecsAssumption

(* A gateway nobody changed.                                               *)
LEMMA AlikeParts ==
    ASSUME TypeInv, NEW g \in Gateways, api[Cr(g)] # Absent,
           api'[Cr(g)] = api[Cr(g)], api'[Dep(g)] = api[Dep(g)],
           \A i \in MapIds : api'[Map(i)] = api[Map(i)],
           \A m \in api[Cr(g)].spec.refs : api'[Src(m)] = api[Src(m)]
    PROVE  /\ Wanted(g)' <=> Wanted(g)
           /\ Missing(g) => Missing(g)'
           /\ RightSize(g) => RightSize(g)'
           /\ RightWork(g) => RightWork(g)'
           /\ Current(g) => Current(g)'
<1>1. Wanted(g)' <=> Wanted(g) BY DEF Wanted, Mergeable
<1>2. (Missing(g) => Missing(g)') /\ (RightSize(g) => RightSize(g)') BY DEF Missing, RightSize
<1>3. ASSUME RightWork(g) PROVE RightWork(g)'
  <2>1. /\ api[Dep(g)] # Absent /\ api[Dep(g)].map \in MapIds
        /\ api[Cr(g)].spec \in Specs
    BY <1>3, SpecTypes DEF RightWork
  <2>2. SameTemplates(api[Dep(g)], api'[Dep(g)]) BY DEF SameTemplates
  <2>3. QED BY <1>3, <2>1, <2>2, RightWorkAlike
<1>4. QED BY <1>1, <1>2, <1>3, CurrentParts, CurrentPartsNext

-----------------------------------------------------------------------------
(* One of the two is always right.                                         *)

LEMMA UsersHalf ==
    ASSUME OrderlyInv, Considerate, Users, HalfInv
    PROVE  HalfInv'
<1> SUFFICES ASSUME NEW g \in Gateways, api'[Cr(g)] # Absent
    PROVE  Missing(g)' \/ RightSize(g)' \/ RightWork(g)'
  BY DEF HalfInv
<1>1. TypeInv /\ DeploymentsOwn BY DEF OrderlyInv, MountInv, CopyInv
<1>2. /\ api'[Dep(g)] = api[Dep(g)]
      /\ \A i \in MapIds : api'[Map(i)] = api[Map(i)]
  BY <1>1, UsersKeep
<1>3. CASE api[Cr(g)] = Absent
  <2>1. Missing(g) BY <1>1, <1>3, UsersKeep
  <2>2. QED BY <1>2, <2>1 DEF Missing
<1>4. CASE api[Cr(g)] # Absent
  <2>1. api[Cr(g)].spec \in Specs /\ api[Cr(g)].spec.refs \subseteq SourceMaps
    BY <1>1, <1>4, WantedSpecs
  <2>2. Missing(g) \/ RightSize(g) \/ RightWork(g) BY <1>4 DEF HalfInv
  <2>3. ASSUME api'[Cr(g)] = api[Cr(g)],
               \A m \in api[Cr(g)].spec.refs : api'[Src(m)] = api[Src(m)]
        PROVE  Missing(g)' \/ RightSize(g)' \/ RightWork(g)'
    BY <1>1, <1>2, <1>4, <2>2, <2>3, AlikeParts
  <2>4. CASE Edits(g)
    <3> DEFINE s == api[Cr(g)].spec
               t == api'[Cr(g)].spec
    <3>1. CASE Missing(g) \/ api[Dep(g)].replicas = t.replicas
      BY <1>2, <3>1 DEF Missing, RightSize
    <3>2. CASE ~Missing(g) /\ api[Dep(g)].replicas # t.replicas
      <4>1. t = [s EXCEPT !.replicas = t.replicas] /\ Current(g)
        BY <2>4, <3>2 DEF Edits, OneAspect, Missing
      <4>2. t.refs = s.refs /\ t.opts = s.opts /\ t.lit = s.lit
        <5>1. DOMAIN s = {"replicas", "opts", "lit", "refs"} BY <2>1, SpecsAssumption
        <5>2. QED BY <4>1, <5>1
      <4>3. \A m \in s.refs : api'[Src(m)] = api[Src(m)]
        BY <2>1, <2>4, KeyKinds, KeysDiffer DEF Edits, OnlyAt
      <4>4. RightWork(g) BY <4>1, CurrentParts
      <4>5. Merge(t, api') = Merge(s, api) BY <4>2, <4>3 DEF Merge
      <4>6. api[Dep(g)].map \in MapIds BY <1>1, <4>4, SpecTypes DEF RightWork
      <4>7. RightWork(g)' BY <1>2, <4>2, <4>4, <4>5, <4>6 DEF RightWork
      <4>8. QED BY <4>7
    <3>3. QED BY <3>1, <3>2
  <2>5. ASSUME NEW m \in SourceMaps, Writes(m)
        PROVE  Missing(g)' \/ RightSize(g)' \/ RightWork(g)'
    <3>1. /\ api'[Cr(g)] = api[Cr(g)]
          /\ \A n \in SourceMaps \ {m} : api'[Src(n)] = api[Src(n)]
      <4>1. \A n \in SourceMaps \ {m} : Src(n) # Src(m) BY DEF Src
      <4>2. QED BY <2>5, <4>1, KeyKinds, KeysDiffer DEF Writes, OnlyAt
    <3>2. CASE m \in api[Cr(g)].spec.refs
      <4>1. Takes(g) BY <1>4, <2>5, <3>2 DEF Writes, Naming
      <4>2. QED BY <1>2, <3>1, <4>1 DEF Takes, Missing, RightSize
    <3>3. CASE m \notin api[Cr(g)].spec.refs BY <2>1, <2>3, <3>1, <3>3
    <3>4. QED BY <3>2, <3>3
  <2>6. CASE \E h \in Gateways \ {g} : Creates(h) \/ Edits(h) \/ Deletes(h)
    BY <2>1, <2>3, <2>6, KeyKinds, KeysDiffer DEF Creates, Edits, Deletes, OnlyAt
  <2>7. CASE Restarts \/ Resyncs
    BY <2>1, <2>3, <2>7, KeyKinds DEF Restarts, Resyncs
  <2>8. ~Creates(g) /\ ~Deletes(g) BY <1>4 DEF Creates, Deletes
  <2>9. QED BY <1>1, <2>4, <2>5, <2>6, <2>7, <2>8, UsersViews DEF Users
<1>5. QED BY <1>3, <1>4

LEMMA HalfInvStep ==
    ASSUME OrderlyInv, Considerate, HalfInv, [Next]_vars
    PROVE  HalfInv'
<1>1. /\ SteadyInv /\ TypeInv /\ MountedMapExists /\ DeploymentsOwn
  BY DEF OrderlyInv, SteadyInv, MountInv, CopyInv
<1>2. CASE Worker
  <2> SUFFICES ASSUME NEW g \in Gateways, api'[Cr(g)] # Absent
      PROVE  Missing(g)' \/ RightSize(g)' \/ RightWork(g)'
    BY DEF HalfInv
  <2>1. api[Cr(g)] # Absent BY <1>1, <1>2, WorkerKeeps DEF GatewaysKept
  <2>2. Missing(g) \/ RightSize(g) \/ RightWork(g) BY <2>1 DEF HalfInv
  <2>3. Missing(g) => Missing(g)' \/ RightSize(g)'
    BY <1>1, <1>2, WorkerKeeps, DeploymentMade, CurrentPartsNext DEF MissingKept
  <2>4. QED BY <1>1, <1>2, <2>1, <2>2, <2>3, SizeKept, WorkKept
<1>3. CASE Manager \/ Cluster \/ UNCHANGED vars
  BY <1>1, <1>3, OthersKeepWork DEF HalfInv, GatewaysKept
<1>4. CASE Users BY <1>4, UsersHalf
<1>5. QED BY <1>2, <1>3, <1>4 DEF Next

-----------------------------------------------------------------------------
(* What has been signalled to the worker.                                  *)

Signalled(N) ==
    /\ \A g \in Gateways \ N : Pending(g, Cr(g)) => Pending(g, Cr(g))'
    /\ \A m \in SourceMaps \ N : Pending(m, Src(m)) => Pending(m, Src(m))'

LEMMA Appended ==
    ASSUME StoreType, NEW k, NEW x, stream' = [stream EXCEPT ![k] = Append(@, x)]
    PROVE  \A j \in Keys : stream[j] # <<>> => stream'[j] # <<>>
<1> SUFFICES ASSUME NEW j \in Keys, stream[j] # <<>> PROVE stream'[j] # <<>> OBVIOUS
<1>1. stream[j] \in Seq(Optional(ObjectsOf(j)) \cup {x}) BY DEF StoreType
<1>2. ASSUME NEW S, NEW e \in S, NEW s \in Seq(S) PROVE Append(s, e) # <<>>
  <2>1. Len(Append(s, e)) = Len(s) + 1 /\ Len(s) \in Nat OBVIOUS
  <2>2. Len(Append(s, e)) # 0 BY <2>1
  <2>3. Len(<<>>) = 0 OBVIOUS
  <2>4. QED BY <2>2, <2>3, Zenon
<1>3. Append(stream[j], x) # <<>> BY <1>1, <1>2, Zenon
<1>4. stream'[j] = stream[j] \/ stream'[j] = Append(stream[j], x) BY DEF StoreType
<1>5. QED BY <1>3, <1>4

LEMMA OthersSignal ==
    ASSUME TypeInv, Manager \/ Cluster \/ UNCHANGED vars
    PROVE  Signalled({})
<1>1. StoreType BY DEF TypeInv
<1>2. CASE \E k \in Keys : Deliver(k)
  <2> PICK k \in Keys : Deliver(k) BY <1>2
  <2>1. /\ \A j \in Keys \ {k} : stream'[j] = stream[j]
        /\ queue \subseteq queue' /\ UNCHANGED delayed
        /\ \A g \in Gateways : k = Cr(g) => g \in queue'
        /\ \A m \in SourceMaps : k = Src(m) => m \in queue'
    BY <1>1 DEF Deliver, Advance, StoreType
  <2>2. QED BY <2>1, KeyKinds DEF Signalled, Pending
<1>3. CASE (\E n \in Names : Expire(n)) \/ UNCHANGED vars
  BY <1>3 DEF Expire, vars, workVars, kubeVars, Signalled, Pending
<1>4. CASE Cluster
  <2>1. UNCHANGED <<queue, delayed>> BY <1>4 DEF Cluster, Annotate, Collect, workVars
  <2>2. \A j \in Keys : stream[j] # <<>> => stream'[j] # <<>>
    BY <1>1, <1>4, Appended DEF Cluster, Annotate, Collect, Put, Remove
  <2>3. QED BY <2>1, <2>2, KeyKinds DEF Signalled, Pending
<1>5. QED BY <1>2, <1>3, <1>4 DEF Manager

LEMMA WorkerSignals ==
    ASSUME TypeInv, Worker
    PROVE  \/ Signalled({})
           \/ \E n \in Names : Reconcile(n) /\ Signalled({n})
<1>1. StoreType BY DEF TypeInv
<1>2. ASSUME NEW n \in Names, Reconcile(n) PROVE Signalled({n})
  <2>1. queue' = queue \ {n} /\ delayed \subseteq delayed' /\ UNCHANGED stream
    BY <1>2 DEF Reconcile, ReconcileGateway, PanicInMerge, ReconcileConfigMap,
                ReconcileNothing, Start, kubeVars
  <2>2. QED BY <2>1 DEF Signalled, Pending
<1>3. ASSUME ~\E n \in Names : Reconcile(n) PROVE Signalled({})
  <2>1. UNCHANGED queue /\ delayed \subseteq delayed'
    BY <1>3 DEF Worker, GoOn, Succeed, Touch, TouchNext, CreateMap, UpdateMap, KeepMap,
                MapRefused, CreateDeployment, ScaleDeployment, UpdateDeployment,
                PanicNoAnnotations, KeepDeployment, DeploymentRefused, ManageError,
                Done, Requeue, Goto
  <2>2. UNCHANGED stream \/ \E k, obj : Put(k, obj)
    BY <1>3 DEF Worker, GoOn, Succeed, Touch, CreateMap, UpdateMap, KeepMap, MapRefused,
                PutStatus, Renew, CreateDeployment, ScaleDeployment, UpdateDeployment,
                PanicNoAnnotations, KeepDeployment, DeploymentRefused, ManageError, kubeVars
  <2>3. \A j \in Keys : stream[j] # <<>> => stream'[j] # <<>>
    BY <1>1, <2>2, Appended DEF Put
  <2>4. QED BY <2>1, <2>3, KeyKinds DEF Signalled, Pending
<1>4. QED BY <1>2, <1>3

-----------------------------------------------------------------------------
(* The worker forgets nobody.                                              *)

(* What it does not change of a gateway.                                   *)
LEMMA WorkerWants ==
    ASSUME SteadyInv, Worker, NEW g \in Gateways
    PROVE  /\ Wanted(g)' <=> Wanted(g)
           /\ Wanted(g) /\ Current(g) => Current(g)'
<1>1. TypeInv BY DEF SteadyInv, CopyInv
<1>2. /\ api'[Cr(g)] = Absent <=> api[Cr(g)] = Absent
      /\ api'[Cr(g)].spec = api[Cr(g)].spec
      /\ \A m \in SourceMaps : api'[Src(m)] = api[Src(m)]
  BY WorkerKeeps DEF GatewaysKept, SourcesKept
<1>3. CASE api[Cr(g)] = Absent BY <1>2, <1>3 DEF Wanted
<1>4. CASE api[Cr(g)] # Absent
  <2>1. Mergeable(api[Cr(g)].spec, api') <=> Mergeable(api[Cr(g)].spec, api)
    BY <1>1, <1>2, <1>4, WantedSpecs, MergeAlike
  <2>2. QED BY <1>2, <1>4, <2>1, CurrentKept DEF Wanted
<1>5. QED BY <1>3, <1>4

(* It writes the status of what it touches, or has failed with.            *)
LEMMA StatusWritten ==
    ASSUME SteadyInv, Worker, NEW g \in Gateways
    PROVE  \/ api'[Cr(g)] = api[Cr(g)]
           \/ Touch(g)
           \/ ManageError /\ g = job.req
<1>1. TypeInv /\ StoreType BY DEF SteadyInv, CopyInv, TypeInv
<1>2. Handling => /\ job.req \in Gateways /\ job.inst # Absent /\ api[Cr(job.req)] = job.inst
  BY <1>1, SpecTypes DEF SteadyInv, JobAsks
<1>3. CASE api' = api BY <1>3
<1>4. ASSUME NEW h \in Gateways, api[Cr(h)] # Absent, PutStatus(Cr(h)), g # h
      PROVE  api'[Cr(g)] = api[Cr(g)]
  BY <1>1, <1>4, StatusKeeps
<1>5. CASE \E h \in Gateways : Touch(h) BY <1>3, <1>4, <1>5 DEF Touch, Fresh
<1>6. CASE CreateMap \/ UpdateMap \/ KeepMap BY <1>1, <1>6, MapStepKeeps
<1>7. CASE CreateDeployment
  <2>1. job.req \in Gateways /\ Put(Dep(job.req), NewDeployment)
    BY <1>2, <1>7 DEF CreateDeployment, Handling
  <2>2. \A k \in Keys \ {Dep(job.req)} : api'[k] = api[k] BY <1>1, <2>1 DEF StoreType, Put
  <2>3. QED BY <2>1, <2>2, KeyKinds, KeysDiffer
<1>8. CASE ScaleDeployment \/ UpdateDeployment
  BY <1>8, DeploymentRewritten, KeyKinds, KeysDiffer
<1>9. CASE ManageError
  <2>1. Handling BY <1>9 DEF ManageError, Handling
  <2>2. QED BY <1>2, <1>3, <1>4, <1>9, <2>1 DEF ManageError, Fresh
<1>10. CASE \E n \in Names : Reconcile(n)
  BY <1>3, <1>10 DEF Reconcile, ReconcileGateway, PanicInMerge, ReconcileConfigMap,
                     ReconcileNothing, kubeVars
<1>11. CASE MapRefused \/ PanicNoAnnotations \/ KeepDeployment \/ DeploymentRefused
  BY <1>3, <1>11 DEF MapRefused, PanicNoAnnotations, KeepDeployment,
                     DeploymentRefused, kubeVars
<1>12. QED
  BY <1>5, <1>6, <1>7, <1>8, <1>9, <1>10, <1>11 DEF Worker, GoOn, Succeed

LEMMA SourceTurnOn ==
    ASSUME TypeInv, NEW g \in Gateways, api[Cr(g)] # Absent,
           api'[Cr(g)].spec = api[Cr(g)].spec, Signalled({}), SourceTurn(g), pc # "touch"
    PROVE  SourceTurn(g)'
BY WantedSpecs DEF Signalled, SourceTurn

LEMMA ReconcileCares ==
    ASSUME SteadyInv, Considerate, NamesApart, NEW n \in Names, Reconcile(n), Signalled({n}),
           UNCHANGED told, NEW g \in Gateways, Wanted(g), Cared(g)
    PROVE  Cared(g)'
<1>1. TypeInv /\ WatchInv /\ Worker BY DEF SteadyInv, CopyInv, Worker, GoOn
<1>2. Delivered /\ pc = "idle" /\ n \in queue /\ api' = api
  BY DEF Considerate, Reconcile, ReconcileGateway, PanicInMerge, ReconcileConfigMap,
         ReconcileNothing, Start, kubeVars
<1>3. \A k \in Keys : cache[k] = api[k] BY <1>1, <1>2, DeliveredReads
<1>4. api[Cr(g)] # Absent /\ api[Cr(g)].spec.refs \subseteq SourceMaps
  BY <1>1, WantedSpecs DEF Wanted
<1>5. OwnTurn(g) => OwnTurn(g)'
  <2>1. CASE g = n
    <3>1. IsGateway(n) BY <1>3, <1>4, <2>1, KeyKinds DEF IsGateway, Instance
    <3>2. CASE ReconcileGateway(n)
      <4>1. pc' \in {"configMap", "error"} /\ job'.req = n
        BY <3>2 DEF ReconcileGateway, NoJob
      <4>2. QED BY <2>1, <4>1 DEF OwnTurn
    <3>3. CASE PanicInMerge(n) BY <2>1, <3>3 DEF PanicInMerge, OwnTurn, Pending
    <3>4. QED
      BY <3>1, <3>2, <3>3 DEF Reconcile, ReconcileConfigMap, ReconcileNothing
  <2>2. CASE g # n BY <1>2, <2>2 DEF OwnTurn, Signalled
  <2>3. QED BY <2>1, <2>2
<1>6. ASSUME SourceTurn(g) PROVE SourceTurn(g)'
  <2>1. PICK m \in api[Cr(g)].spec.refs : Pending(m, Src(m)) BY <1>2, <1>6 DEF SourceTurn
  <2>2. CASE m # n BY <1>2, <1>4, <2>1, <2>2 DEF Signalled, SourceTurn
  <2>3. CASE m = n
    <3> DEFINE users == {h \in Gateways : cache[Cr(h)] # Absent /\ n \in cache[Cr(h)].spec.refs}
               todo  == IF n = Leader THEN {} ELSE users
    <3>1. n \in SourceMaps /\ n \notin Gateways /\ n # Leader
      BY <1>4, <2>1, <2>3 DEF NamesApart
    <3>2. cache[Src(n)] # Absent BY <1>3, <2>1, <2>3, <3>1, KeyKinds DEF Wanted, Mergeable
    <3>3. ReconcileConfigMap(n)
      BY <3>1, <3>2 DEF Reconcile, ReconcileGateway, PanicInMerge, ReconcileNothing,
                        IsGateway, IsConfigMap
    <3>4. g \in todo BY <1>3, <1>4, <2>1, <2>3, <3>1, KeyKinds
    <3>5. pc' = "touch" /\ job' = [NoJob EXCEPT !.req = n, !.todo = todo]
      BY <3>3, <3>4 DEF ReconcileConfigMap
    <3>6. job'.todo = todo /\ job'.req = n BY <3>5 DEF NoJob
    <3>7. QED BY <1>2, <2>1, <2>3, <3>4, <3>5, <3>6 DEF SourceTurn
  <2>4. QED BY <2>2, <2>3
<1>7. QED BY <1>1, <1>2, <1>5, <1>6, WorkerWants, CaredOn

LEMMA TouchCares ==
    ASSUME SteadyInv, NEW h \in Gateways, Touch(h), Signalled({}), UNCHANGED told,
           NEW g \in Gateways, Wanted(g), Cared(g)
    PROVE  Cared(g)'
<1>1. TypeInv /\ Worker BY DEF SteadyInv, CopyInv, Worker, GoOn
<1>2. pc = "touch" /\ h \in job.todo BY DEF Touch
<1>3. api[Cr(g)] # Absent /\ api[Cr(g)].spec.refs \subseteq SourceMaps
  BY <1>1, WantedSpecs DEF Wanted
<1>4. api'[Cr(g)].spec = api[Cr(g)].spec BY <1>1, WorkerKeeps DEF GatewaysKept
<1>5. OwnTurn(g) => OwnTurn(g)' BY <1>2 DEF OwnTurn, Signalled
<1>6. ASSUME SourceTurn(g), ~api[Cr(g)].failed
      PROVE  (SourceTurn(g)' /\ ~api'[Cr(g)].failed) \/ OwnTurn(g)'
  <2>1. PICK m \in api[Cr(g)].spec.refs :
            Pending(m, Src(m)) \/ (job.req = m /\ g \in job.todo)
    BY <1>6 DEF SourceTurn
  <2>2. CASE Requeue(job.req) /\ api' = api
    <3>1. Pending(m, Src(m))' BY <1>3, <2>1, <2>2 DEF Requeue, Signalled, Pending
    <3>2. QED BY <1>4, <1>6, <2>2, <3>1 DEF SourceTurn
  <2>3. CASE TouchNext(h) /\ PutStatus(Cr(h)) /\ api[Cr(h)] # Absent
    <3>1. CASE g = h
      <4>1. stream'[Cr(g)] # <<>> BY <1>1, <1>6, <2>3, <3>1, StatusKeeps
      <4>2. QED BY <4>1 DEF OwnTurn, Pending
    <3>2. CASE g # h
      <4>1. ~api'[Cr(g)].failed
        <5>1. api'[Cr(g)] = api[Cr(g)] BY <1>1, <2>3, <3>2, StatusKeeps
        <5>2. QED BY <1>6, <5>1
      <4>2. CASE Pending(m, Src(m))
        BY <1>3, <1>4, <2>1, <4>1, <4>2 DEF Signalled, SourceTurn
      <4>3. CASE job.req = m /\ g \in job.todo
        <5>1. pc' = "touch" /\ job' = [job EXCEPT !.todo = job.todo \ {h}]
          BY <2>3, <3>2, <4>3 DEF TouchNext, Goto
        <5>2. g \in job'.todo /\ job'.req = m
          BY <1>1, <3>2, <4>3, <5>1 DEF TypeInv, WorkType
        <5>3. QED BY <1>4, <4>1, <5>1, <5>2 DEF SourceTurn
      <4>4. QED BY <2>1, <4>2, <4>3
    <3>3. QED BY <3>1, <3>2
  <2>4. QED BY <2>2, <2>3 DEF Touch, Fresh
<1>7. QED BY <1>1, <1>5, <1>6, WorkerWants, CaredOn

(* A gateway that is not the one it is on, or that it stays on.            *)
LEMMA ElsewhereCares ==
    ASSUME SteadyInv, Worker, Handling, Signalled({}),
           NEW g \in Gateways, Wanted(g), Cared(g), told'[g] = told[g],
           g # job.req \/ (Handling' /\ job'.req = job.req)
    PROVE  Cared(g)'
<1>1. TypeInv /\ pc # "touch" BY DEF SteadyInv, CopyInv, Handling
<1>2. /\ api[Cr(g)] # Absent
      /\ api'[Cr(g)] = api[Cr(g)]
  <2>1. ~Touch(g) BY <1>1 DEF Touch
  <2>2. ManageError => pc' = "idle" BY DEF ManageError, Done
  <2>3. QED BY <2>1, <2>2, StatusWritten DEF Wanted, Handling
<1>3. SourceTurn(g) => SourceTurn(g)' BY <1>1, <1>2, SourceTurnOn
<1>4. OwnTurn(g) => OwnTurn(g)' BY DEF OwnTurn, Signalled, Handling
<1>5. QED BY <1>2, <1>3, <1>4, WorkerWants, CaredOn

(* What it has written is as it should be: if the replica count was wrong, *)
(* then nothing else was.                                                  *)
LEMMA WrittenIsCurrent ==
    ASSUME OrderlyInv, HalfInv, NEW g \in Gateways, g = job.req, api[Cr(g)] # Absent, Succeed
    PROVE  Current(g)'
<1>1. SteadyInv /\ TypeInv /\ Worker BY DEF OrderlyInv, SteadyInv, CopyInv, Worker
<1>2. pc = "deployment" /\ Working
  BY DEF Succeed, CreateDeployment, ScaleDeployment, UpdateDeployment, KeepDeployment, Working
<1>3. api[Cr(g)].spec \in Specs /\ api[Cr(g)] = job.inst BY <1>2, OnTheWay
<1>4. /\ api'[Cr(g)].spec = api[Cr(g)].spec
      /\ \A m \in SourceMaps : api'[Src(m)] = api[Src(m)]
  BY <1>1, WorkerKeeps DEF GatewaysKept, SourcesKept
<1>5. CASE CreateDeployment BY <1>5, DeploymentMade
<1>6. ASSUME job.dply # Absent
      PROVE  /\ SameReplicas <=> RightSize(g)
             /\ SameTemplate <=> RightWork(g)
             /\ ~Missing(g)
  BY <1>2, <1>6, Comparisons, OnTheWay DEF Missing
<1>7. CASE ScaleDeployment
  <2>1. job.dply # Absent /\ ~RightSize(g) /\ ~Missing(g)
    BY <1>6, <1>7 DEF ScaleDeployment
  <2>2. RightSize(g)'
    <3>1. api'[Dep(g)] # Absent /\ api'[Dep(g)].replicas = job.inst.spec.replicas
      BY <1>1, <1>7, DeploymentRewritten
    <3>2. QED BY <1>3, <1>4, <3>1 DEF RightSize
  <2>3. RightWork(g) BY <2>1 DEF HalfInv
  <2>4. RightWork(g)' BY <1>1, <2>3, WorkKept
  <2>5. QED BY <2>2, <2>4, CurrentPartsNext
<1>8. CASE UpdateDeployment
  <2>1. job.dply # Absent /\ RightSize(g) BY <1>6, <1>8 DEF UpdateDeployment
  <2>2. RightSize(g)' BY <1>1, <2>1, SizeKept
  <2>3. RightWork(g)'
    <3>1. /\ \A k \in Keys \ {Dep(g)} : api'[k] = api[k]
          /\ api'[Dep(g)] # Absent /\ api'[Dep(g)].map = job.dply.map
          /\ api'[Dep(g)].opts = job.inst.spec.opts /\ api'[Dep(g)].ver = job.cm
      BY <1>1, <1>8, DeploymentRewritten
    <3>2. /\ job.data = Merge(api[Cr(g)].spec, api)
          /\ api[Map(job.cm.map)] # Absent /\ api[Map(job.cm.map)].data = job.data
          /\ job.cm = [map |-> job.cm.map, rv |-> api[Map(job.cm.map)].rv]
          /\ job.cm.map = job.dply.map /\ job.cm.map \in MapIds
      BY <1>1, <1>2, <2>1, OnTheWay, OwnerTypes
    <3>3. api'[Map(job.cm.map)] = api[Map(job.cm.map)]
      BY <3>1, <3>2, KeyKinds, KeysDiffer
    <3>4. Merge(api[Cr(g)].spec, api') = job.data BY <1>3, <1>4, <3>2, MergeAlike
    <3>5. LET m == api'[Map(job.dply.map)]
          IN  /\ m # Absent /\ m.data = Merge(api'[Cr(g)].spec, api')
              /\ job.cm = [map |-> job.dply.map, rv |-> m.rv]
      BY <1>4, <3>2, <3>3, <3>4
    <3>6. QED BY <1>3, <1>4, <3>1, <3>5, Zenon DEF RightWork
  <2>4. QED BY <2>2, <2>3, CurrentPartsNext
<1>9. CASE KeepDeployment
  <2>1. Current(g) BY <1>6, <1>9, CurrentParts DEF KeepDeployment
  <2>2. QED BY <1>1, <2>1, CurrentKept
<1>10. QED BY <1>5, <1>7, <1>8, <1>9 DEF Succeed

LEMMA WorkersCare ==
    ASSUME OrderlyInv, HalfInv, ToldInv, Considerate, NamesApart, CareInv,
           \/ Succeed /\ Forget({job.req})
           \/ ManageError /\ Report
           \/ GoOn /\ UNCHANGED told
    PROVE  CareInv'
<1> SUFFICES ASSUME NEW g \in Gateways, Wanted(g)' PROVE Cared(g)' BY DEF CareInv
<1>1. SteadyInv /\ TypeInv /\ Worker BY DEF OrderlyInv, SteadyInv, CopyInv, Worker
<1>2. Wanted(g) /\ Cared(g) /\ api[Cr(g)] # Absent BY <1>1, WorkerWants DEF CareInv, Wanted
<1>3. CASE \E n \in Names : Reconcile(n) /\ Signalled({n})
  <2> PICK n \in Names : Reconcile(n) /\ Signalled({n}) BY <1>3
  <2>1. pc = "idle"
    BY DEF Reconcile, ReconcileGateway, PanicInMerge, ReconcileConfigMap, ReconcileNothing,
           Start
  <2>2. UNCHANGED told
    BY <2>1 DEF Succeed, CreateDeployment, ScaleDeployment, UpdateDeployment, KeepDeployment,
                ManageError
  <2>3. QED BY <1>1, <1>2, <2>2, ReconcileCares
<1>4. CASE Signalled({}) /\ Succeed /\ Forget({job.req})
  <2>1. Handling
    BY <1>4 DEF Succeed, CreateDeployment, ScaleDeployment, UpdateDeployment, KeepDeployment,
                Handling
  <2>2. CASE g = job.req
    <3>1. Current(g)' BY <1>2, <1>4, <2>2, WrittenIsCurrent
    <3>2. QED BY <3>1 DEF Cared
  <2>3. CASE g # job.req
    <3>1. told'[g] = told[g] BY <1>4, <2>3 DEF Forget
    <3>2. QED BY <1>1, <1>2, <1>4, <2>1, <2>3, <3>1, ElsewhereCares
  <2>4. QED BY <2>2, <2>3
<1>5. CASE Signalled({}) /\ ManageError /\ Report
  <2>1. Handling BY <1>5 DEF ManageError, Handling
  <2>2. CASE g = job.req
    <3>1. told'[g] # "nothing" BY <1>5, <2>2 DEF Report, ToldInv
    <3>2. QED BY <3>1 DEF Cared
  <2>3. CASE g # job.req
    <3>1. told'[g] = told[g] BY <1>5, <2>3 DEF Report, ToldInv
    <3>2. QED BY <1>1, <1>2, <1>5, <2>1, <2>3, <3>1, ElsewhereCares
  <2>4. QED BY <2>2, <2>3
<1>6. CASE Signalled({}) /\ GoOn /\ UNCHANGED told
  <2>1. CASE \E n \in Names : Reconcile(n)
    <3>1. \A n : Signalled({n}) BY <1>6 DEF Signalled
    <3>2. QED BY <1>3, <2>1, <3>1
  <2>2. CASE \E h \in Gateways : Touch(h) BY <1>1, <1>2, <1>6, <2>2, TouchCares
  <2>3. CASE CreateMap \/ UpdateMap \/ KeepMap \/ MapRefused \/ DeploymentRefused
    <3>1. Handling /\ Handling' /\ job'.req = job.req
      BY <1>1, <2>3 DEF CreateMap, UpdateMap, KeepMap, MapRefused, DeploymentRefused, Goto,
                        Handling, TypeInv, WorkType
    <3>2. QED BY <1>1, <1>2, <1>6, <3>1, ElsewhereCares
  <2>4. CASE PanicNoAnnotations
    <3>1. Handling /\ job.req \in delayed'
      BY <2>4 DEF PanicNoAnnotations, Requeue, Handling
    <3>2. CASE g = job.req BY <3>1, <3>2 DEF Cared, OwnTurn, Pending
    <3>3. CASE g # job.req BY <1>1, <1>2, <1>6, <3>1, <3>3, ElsewhereCares
    <3>4. QED BY <3>2, <3>3
  <2>5. QED BY <1>6, <2>1, <2>2, <2>3, <2>4 DEF GoOn
<1>7. QED BY <1>1, <1>3, <1>4, <1>5, <1>6, WorkerSignals

-----------------------------------------------------------------------------
(* Nor do the others.                                                      *)

LEMMA OthersCare ==
    ASSUME OrderlyInv, Manager \/ Cluster \/ UNCHANGED vars, UNCHANGED told, CareInv
    PROVE  CareInv'
<1> SUFFICES ASSUME NEW g \in Gateways, Wanted(g)' PROVE Cared(g)' BY DEF CareInv
<1>1. TypeInv /\ MountedMapExists /\ DeploymentsOwn BY DEF OrderlyInv, MountInv, CopyInv
<1>2. UNCHANGED <<pc, job>> /\ Signalled({})
  BY <1>1, OthersSignal DEF Manager, Deliver, Expire, Cluster, Annotate, Collect, vars, workVars
<1>3. /\ api'[Cr(g)] = api[Cr(g)] /\ api[Cr(g)] # Absent
      /\ \A m \in SourceMaps : api'[Src(m)] = api[Src(m)]
  BY <1>1, OthersKeep DEF Wanted
<1>4. api[Cr(g)].spec.refs \subseteq SourceMaps BY <1>1, <1>3, WantedSpecs
<1>5. Wanted(g) BY <1>3, <1>4 DEF Wanted, Mergeable
<1>6. Current(g) => Current(g)'
  BY <1>1, <1>3, OthersKeepWork, CurrentParts, CurrentPartsNext
<1>7. OwnTurn(g) => OwnTurn(g)' BY <1>2 DEF OwnTurn, Signalled
<1>8. SourceTurn(g) => SourceTurn(g)' BY <1>2, <1>3, <1>4 DEF SourceTurn, Signalled
<1>9. QED BY <1>3, <1>5, <1>6, <1>7, <1>8, CaredOn DEF CareInv

(* Users change things when nothing is left to do, and a new process looks *)
(* at every gateway.                                                       *)
LEMMA UsersCare ==
    ASSUME OrderlyInv, Considerate, CareInv, ToldInv,
           \/ \E h \in Gateways : Ask(h) /\ Forget({h})
           \/ \E m \in SourceMaps : Supply(m) /\ Forget(Naming(m))
           \/ Disturb /\ UNCHANGED told
    PROVE  CareInv'
<1> SUFFICES ASSUME NEW g \in Gateways, Wanted(g)' PROVE Cared(g)' BY DEF CareInv
<1>1. TypeInv /\ DeploymentsOwn /\ Users
  BY DEF OrderlyInv, MountInv, CopyInv, Users
<1>2. /\ api'[Dep(g)] = api[Dep(g)]
      /\ \A i \in MapIds : api'[Map(i)] = api[Map(i)]
  BY <1>1, UsersKeep
<1>3. api'[Cr(g)] # Absent BY DEF Wanted
<1>4. CASE Restarts
  <2>1. g \in queue' BY <1>3, <1>4, KeyKinds DEF Restarts
  <2>2. QED BY <2>1 DEF Cared, OwnTurn, Pending
<1>5. CASE Creates(g) \/ Edits(g)
  BY <1>5 DEF Creates, Edits, Cared, OwnTurn, Pending
(* Nothing happens to this one.                                            *)
<1>6. ASSUME Settled, api[Cr(g)] # Absent, api'[Cr(g)] = api[Cr(g)],
             \A m \in api[Cr(g)].spec.refs : api'[Src(m)] = api[Src(m)],
             told'[g] = told[g], queue \subseteq queue', UNCHANGED delayed
      PROVE  Cared(g)'
  <2>1. api[Cr(g)].spec.refs \subseteq SourceMaps BY <1>1, <1>6, WantedSpecs
  <2>2. Wanted(g) /\ (Current(g) => Current(g)') BY <1>1, <1>2, <1>6, AlikeParts
  <2>3. pc = "idle" /\ \A k \in Keys : stream[k] = <<>> BY <1>6 DEF Settled, Delivered
  <2>4. OwnTurn(g) => OwnTurn(g)' BY <1>6, <2>3, KeyKinds DEF OwnTurn, Pending
  <2>5. SourceTurn(g) => SourceTurn(g)'
    BY <1>6, <2>1, <2>3, KeyKinds DEF SourceTurn, Pending
  <2>6. QED BY <1>6, <2>2, <2>4, <2>5, CaredOn DEF CareInv
<1>7. ASSUME NEW h \in Gateways \ {g}, OnlyAt(Cr(h)), Settled, told'[g] = told[g]
      PROVE  Cared(g)'
  <2>1. /\ api'[Cr(g)] = api[Cr(g)] /\ api[Cr(g)] # Absent
        /\ \A m \in SourceMaps : api'[Src(m)] = api[Src(m)]
        /\ UNCHANGED <<queue, delayed>>
    BY <1>3, <1>7, KeyKinds, KeysDiffer DEF OnlyAt
  <2>2. QED BY <1>1, <1>6, <1>7, <2>1, WantedSpecs
<1>8. ASSUME NEW h \in Gateways, Ask(h), Forget({h}) PROVE Cared(g)'
  <2>1. Creates(h) \/ Edits(h) BY <1>1, <1>8, UsersViews
  <2>2. CASE h # g
    <3>1. told'[g] = told[g] BY <1>8, <2>2 DEF Forget
    <3>2. OnlyAt(Cr(h)) BY <2>1 DEF Creates, Edits
    <3>3. QED BY <1>1, <1>4, <1>7, <2>2, <3>1, <3>2, UsersViews
  <2>3. QED BY <1>5, <2>1, <2>2
<1>9. ASSUME NEW m \in SourceMaps, Supply(m), Forget(Naming(m)) PROVE Cared(g)'
  <2>1. Writes(m) BY <1>1, <1>9, UsersViews
  <2>2. /\ api'[Cr(g)] = api[Cr(g)] /\ api[Cr(g)] # Absent
        /\ stream'[Src(m)] # <<>> /\ UNCHANGED <<queue, delayed>>
        /\ \A n \in SourceMaps \ {m} : api'[Src(n)] = api[Src(n)]
    <3>1. \A n \in SourceMaps \ {m} : Src(n) # Src(m) BY DEF Src
    <3>2. QED BY <1>3, <2>1, <3>1, KeyKinds, KeysDiffer DEF Writes, OnlyAt
  <2>3. CASE g \in Naming(m)
    <3>1. api[Cr(g)].failed => g \in delayed BY <2>1, <2>3 DEF Writes, Takes
    <3>2. SourceTurn(g)' BY <2>2, <2>3 DEF Naming, SourceTurn, Pending
    <3>3. QED BY <2>2, <3>1, <3>2 DEF Cared, OwnTurn, Pending
  <2>4. CASE g \notin Naming(m)
    <3>1. told'[g] = told[g] BY <1>9, <2>4 DEF Forget
    <3>2. \A n \in api[Cr(g)].spec.refs : api'[Src(n)] = api[Src(n)]
      BY <1>1, <2>2, <2>4, WantedSpecs DEF Naming
    <3>3. QED BY <1>1, <1>4, <1>6, <2>2, <3>1, <3>2, UsersViews
  <2>5. QED BY <2>3, <2>4
<1>10. ASSUME Disturb, UNCHANGED told PROVE Cared(g)'
  <2>1. CASE \E h \in Gateways : Deletes(h)
    <3> PICK h \in Gateways : Deletes(h) BY <2>1
    <3>1. h # g /\ OnlyAt(Cr(h)) BY <1>3 DEF Deletes
    <3>2. QED BY <1>1, <1>4, <1>7, <1>10, <3>1, UsersViews
  <2>2. CASE Resyncs
    <3>1. /\ api'[Cr(g)] = api[Cr(g)] /\ api[Cr(g)] # Absent
          /\ \A m \in SourceMaps : api'[Src(m)] = api[Src(m)]
          /\ queue \subseteq queue' /\ UNCHANGED delayed
      BY <1>3, <2>2, KeyKinds DEF Resyncs
    <3>2. QED BY <1>1, <1>4, <1>6, <1>10, <3>1, UsersViews, WantedSpecs
  <2>3. QED BY <1>1, <1>4, <1>10, <2>1, <2>2, UsersViews
<1>11. QED BY <1>8, <1>9, <1>10

LEMMA ToldInvStep ==
    ASSUME OrderlyInv, Considerate, ToldInv, [NextTold]_reportVars
    PROVE  ToldInv'
<1>1. /\ SteadyInv /\ TypeInv /\ MountedMapExists /\ DeploymentsOwn
  BY DEF OrderlyInv, SteadyInv, MountInv, CopyInv
<1>2. ASSUME told' \in [Gateways -> Endings \ {"refused"}],
             \A g \in Gateways : told'[g] \in {"nothing", told[g]},
             \A g \in Gateways : told'[g] = "nothing" \/ api'[Cr(g)] = Absent
                 \/ (api[Cr(g)] # Absent /\ (api[Cr(g)].failed => api'[Cr(g)].failed))
      PROVE  ToldInv'
  BY <1>2 DEF ToldInv
<1>3. \A S : Forget(S) => /\ told' \in [Gateways -> Endings \ {"refused"}]
                          /\ \A g \in Gateways : told'[g] \in {"nothing", told[g]}
                          /\ \A g \in S \cap Gateways : told'[g] = "nothing"
  BY DEF Forget, ToldInv, Endings
<1>4. UNCHANGED told => /\ told' \in [Gateways -> Endings \ {"refused"}]
                        /\ \A g \in Gateways : told'[g] \in {"nothing", told[g]}
  BY DEF ToldInv
<1>5. CASE GatewaysKept /\ (UNCHANGED told \/ Forget({job.req}))
  BY <1>2, <1>3, <1>4, <1>5 DEF GatewaysKept
<1>6. CASE Succeed /\ Forget({job.req}) BY <1>1, <1>5, <1>6, WorkerKeeps DEF Worker
<1>7. CASE GoOn /\ UNCHANGED told BY <1>1, <1>5, <1>7, WorkerKeeps DEF Worker
<1>8. CASE (Manager \/ Cluster) /\ UNCHANGED told BY <1>1, <1>5, <1>8, OthersKeepWork
<1>9. CASE UNCHANGED reportVars BY <1>9 DEF reportVars, vars, kubeVars, ToldInv
<1>10. CASE ManageError /\ Report
  <2>1. /\ Handling /\ GatewaysKept
        /\ job.req \in Gateways /\ job.inst # Absent /\ api[Cr(job.req)] = job.inst
    BY <1>1, <1>10, SpecTypes, WorkerKeeps DEF ManageError, Handling, SteadyInv, JobAsks, Worker
  <2>2. Fresh(Cr(job.req), job.inst) BY <2>1 DEF Fresh
  <2>3. told' = [told EXCEPT ![job.req] = IF faults' = faults THEN "status" ELSE "log"]
    BY <1>10, <2>2 DEF Report
  <2>4. told' \in [Gateways -> Endings \ {"refused"}]
    BY <2>1, <2>3 DEF ToldInv, Endings
  <2>5. faults' = faults => api'[Cr(job.req)].failed
    <3>1. Fault => faults' # faults BY <1>1, BoundsAssumption DEF Fault, TypeInv, CountType
    <3>2. faults' = faults => PutStatus(Cr(job.req)) BY <1>10, <2>2, <3>1 DEF ManageError
    <3>3. QED BY <1>1, <2>1, <3>2, StatusKeeps
  <2>6. \A g \in Gateways : told'[g] = "status" /\ api'[Cr(g)] # Absent => api'[Cr(g)].failed
    BY <2>1, <2>3, <2>5 DEF ToldInv, GatewaysKept
  <2>7. QED BY <2>4, <2>6 DEF ToldInv
<1>11. ASSUME NEW h \in Gateways, Ask(h), Forget({h}) PROVE ToldInv'
  <2>1. Users /\ OnlyAt(Cr(h)) BY <1>1, <1>11, UsersViews DEF Users, Creates, Edits
  <2>2. \A g \in Gateways \ {h} : api'[Cr(g)] = api[Cr(g)]
    BY <2>1, KeyKinds, KeysDiffer DEF OnlyAt
  <2>3. QED BY <1>2, <1>3, <1>11, <2>2
<1>12. ASSUME NEW m \in SourceMaps, Supply(m), Forget(Naming(m)) PROVE ToldInv'
  <2>1. OnlyAt(Src(m)) BY <1>1, <1>12, UsersViews DEF Users, Writes
  <2>2. \A g \in Gateways : api'[Cr(g)] = api[Cr(g)]
    BY <2>1, KeyKinds, KeysDiffer DEF OnlyAt
  <2>3. QED BY <1>2, <1>3, <1>12, <2>2
<1>13. CASE Disturb /\ UNCHANGED told
  <2>1. \A g \in Gateways : api'[Cr(g)] = Absent \/ api'[Cr(g)] = api[Cr(g)]
    BY <1>1, <1>13, UsersViews, KeyKinds, KeysDiffer
    DEF Users, Deletes, OnlyAt, Restarts, Resyncs
  <2>2. QED BY <1>2, <1>4, <1>13, <2>1
<1>14. QED
  BY <1>6, <1>7, <1>8, <1>9, <1>10, <1>11, <1>12, <1>13 DEF NextTold

-----------------------------------------------------------------------------
(* History takes nothing away from what the system does.                   *)
LEMMA ToldStep == [NextTold]_reportVars => [Next]_vars
BY DEF NextTold, Next, Worker, Users, reportVars

LEMMA NeverForgottenInvInit == InitTold => NeverForgottenInv
<1> SUFFICES ASSUME InitTold PROVE NeverForgottenInv OBVIOUS
<1>1. Init /\ OrderlyInv BY OrderlyInvInit DEF InitTold
<1>2. \A g \in Gateways : api[Cr(g)] = Absent BY <1>1, KeyKinds DEF Init
<1>3. HalfInv /\ CareInv BY <1>2 DEF HalfInv, CareInv, Wanted
<1>4. ToldInv BY <1>2 DEF InitTold, ToldInv, Endings
<1>5. QED BY <1>1, <1>3, <1>4 DEF NeverForgottenInv

LEMMA NeverForgottenInvStep ==
    ASSUME Considerate, NamesApart, NeverForgottenInv, [NextTold]_reportVars
    PROVE  NeverForgottenInv'
<1>1. OrderlyInv /\ HalfInv /\ ToldInv /\ CareInv /\ [Next]_vars
  BY ToldStep DEF NeverForgottenInv
<1>2. OrderlyInv' /\ HalfInv' /\ ToldInv'
  BY <1>1, OrderlyInvStep, HalfInvStep, ToldInvStep
<1>3. CareInv'
  <2>1. CASE \/ Succeed /\ Forget({job.req})
             \/ ManageError /\ Report
             \/ GoOn /\ UNCHANGED told
    BY <1>1, <2>1, WorkersCare
  <2>2. CASE (Manager \/ Cluster \/ UNCHANGED vars) /\ UNCHANGED told
    BY <1>1, <2>2, OthersCare
  <2>3. CASE \/ \E h \in Gateways : Ask(h) /\ Forget({h})
             \/ \E m \in SourceMaps : Supply(m) /\ Forget(Naming(m))
             \/ Disturb /\ UNCHANGED told
    BY <1>1, <2>3, UsersCare
  <2>4. QED BY <2>1, <2>2, <2>3 DEF NextTold, reportVars
<1>4. QED BY <1>2, <1>3 DEF NeverForgottenInv

LEMMA CareIsEnough == NeverForgottenInv => NeverForgotten
<1> SUFFICES ASSUME NeverForgottenInv, NEW g \in Gateways, Wanted(g)
    PROVE  Current(g) \/ Reported(g) \/ UnderWay(g)
  BY DEF NeverForgotten
<1>1. Cared(g) /\ api[Cr(g)] # Absent BY DEF NeverForgottenInv, CareInv, Wanted
<1>2. told[g] \in {"nothing", "log"} \/ (told[g] = "status" /\ api[Cr(g)].failed)
  BY <1>1 DEF NeverForgottenInv, ToldInv, Endings
<1>3. QED BY <1>1, <1>2 DEF Cared, Reported, UnderWay

(* A gateway whose sources are there runs what it asks for, or is in the   *)
(* hands of the operator, or has had its failure reported: in every state, *)
(* for any number of gateways that share sources in any way, any number of *)
(* faults and any quota of maps, whenever the operator is killed or        *)
(* panics, and however gateways are edited, deleted and created anew.      *)
THEOREM NeverForgets ==
    ASSUME Considerate, NamesApart
    PROVE  ToldSpec => []NeverForgotten
<1>1. NeverForgottenInv /\ [NextTold]_reportVars => NeverForgottenInv'
  BY NeverForgottenInvStep
<1>2. QED BY NeverForgottenInvInit, <1>1, CareIsEnough, PTL DEF ToldSpec
=============================================================================
