------------------------- MODULE GatewayServiceProofs -------------------------
(* That the reconciler never rolls back, and that it implements            *)
(* GatewayService, for every value of the constants.                       *)
EXTENDS GatewayControllerProofs

-----------------------------------------------------------------------------
(* The trail of a gateway: what the cache has of it, what the watch is     *)
(* about to deliver, and what the API server stores, from old to new.      *)

Places(g) == 0..(Len(stream[Cr(g)]) + 1)
Trail(g, i) ==
    IF i = 0 THEN cache[Cr(g)]
    ELSE IF i <= Len(stream[Cr(g)]) THEN stream[Cr(g)][i] ELSE api[Cr(g)]

(* Specs on the trail are numbered from old to new, and were all asked for.*)
Sorted(g) ==
    \A i, j \in Places(g) :
        i <= j /\ Trail(g, i) # Absent /\ Trail(g, j) # Absent =>
            Trail(g, i).gen <= Trail(g, j).gen
Numbered(g) ==
    \A i \in Places(g) : Trail(g, i) # Absent => Trail(g, i).gen <= version[Cr(g)]

(* Nobody can read a spec older than n any more.                           *)
Floor(g, n) ==
    /\ n <= version[Cr(g)]
    /\ \A i \in Places(g) : Trail(g, i) # Absent => n <= Trail(g, i).gen

(* NeverRollsBack rests on this: what was written is no newer than any     *)
(* spec that can still be read, and no newer than what the worker has read.*)
RollInv ==
    /\ \A g \in Gateways : Sorted(g) /\ Numbered(g) /\ Floor(g, applied[g])
    /\ Working => Floor(job.req, job.inst.gen) /\ applied[job.req] <= job.inst.gen

(* Whatever is on the trail after a step was on it before, in this order,  *)
(* or has a new number.                                                    *)
Was(g, p, x) == p \in Places(g) /\ Trail(g, p) # Absent /\ Trail(g, p).gen = x.gen
TrailFrom(g) ==
    \A i, j \in Places(g)' :
        i <= j /\ Trail(g, i)' # Absent /\ Trail(g, j)' # Absent =>
            \/ \E p, q \in Places(g) :
                   p <= q /\ Was(g, p, Trail(g, i)') /\ Was(g, q, Trail(g, j)')
            \/ /\ Trail(g, j)'.gen = version[Cr(g)] + 1
               /\ version'[Cr(g)] = version[Cr(g)] + 1
               /\ \/ Trail(g, i)'.gen = version[Cr(g)] + 1
                  \/ \E p \in Places(g) : Was(g, p, Trail(g, i)')

LEMMA TrailType ==
    ASSUME StoreType, NEW g \in Gateways
    PROVE  /\ stream[Cr(g)] \in Seq(Optional(Gateway)) /\ Len(stream[Cr(g)]) \in Nat
           /\ version[Cr(g)] \in Nat
           /\ \A i \in Places(g) : Trail(g, i) \in Optional(Gateway)
<1>1. Cr(g) \in Keys /\ ObjectsOf(Cr(g)) = Gateway BY KeyKinds
<1>2. stream[Cr(g)] \in Seq(Optional(Gateway)) /\ Len(stream[Cr(g)]) \in Nat
  BY <1>1 DEF StoreType
<1>3. \A i \in 1..Len(stream[Cr(g)]) : stream[Cr(g)][i] \in Optional(Gateway) BY <1>2
<1>4. \A i \in Places(g) : Trail(g, i) \in Optional(Gateway)
  BY <1>1, <1>2, <1>3 DEF StoreType, Trail, Places
<1>5. QED BY <1>1, <1>2, <1>4 DEF StoreType

LEMMA TrailStep ==
    ASSUME StoreType, StoreStep, NEW g \in Gateways
    PROVE  TrailFrom(g)
<1> DEFINE k == Cr(g)
           n == Len(stream[k])
<1>1. k \in Keys /\ ObjectsOf(k) = Gateway BY KeyKinds
<1>2. /\ stream[k] \in Seq(Optional(Gateway)) /\ n \in Nat /\ version[k] \in Nat
      /\ \A i \in Places(g) : Trail(g, i) \in Optional(Gateway)
  BY TrailType
<1>3. CASE cache'[k] = cache[k] /\ stream'[k] = stream[k] /\ api'[k] = api[k]
  <2>1. Places(g)' = Places(g) /\ \A i \in Places(g) : Trail(g, i)' = Trail(g, i)
    BY <1>3 DEF Places, Trail
  <2>2. QED BY <2>1 DEF TrailFrom, Was
<1>4. ASSUME NEW j \in Keys, Advance(j) PROVE TrailFrom(g)
  <2>1. CASE j = k
    <3>1. /\ api' = api /\ stream[k] # <<>>
          /\ cache'[k] = stream[k][1] /\ stream'[k] = Tail(stream[k])
      BY <1>1, <1>2, <1>4, <2>1 DEF Advance, StoreType
    <3>2. /\ Len(stream'[k]) = n - 1 /\ n >= 1
          /\ \A i \in 1..(n - 1) : stream'[k][i] = stream[k][i + 1]
      BY <1>2, <3>1
    <3>3. \A i \in Places(g)' : i + 1 \in Places(g) /\ Trail(g, i)' = Trail(g, i + 1)
      BY <1>2, <3>1, <3>2 DEF Places, Trail
    <3>4. \A i, j1 \in Places(g)' : i <= j1 => i + 1 <= j1 + 1 BY <3>2 DEF Places
    <3>5. QED BY <3>3, <3>4 DEF TrailFrom, Was
  <2>2. CASE j # k BY <1>1, <1>3, <1>4, <2>2 DEF Advance, StoreType
  <2>3. QED BY <2>1, <2>2
<1>5. CASE Relist
  <2>1. cache'[k] = api[k] /\ api'[k] = api[k] /\ stream'[k] = <<>>
    BY <1>1, <1>5 DEF Relist
  <2>2. \A i \in Places(g)' : Trail(g, i)' = api[k]
    BY <2>1 DEF Places, Trail
  <2>3. n + 1 \in Places(g) /\ Trail(g, n + 1) = api[k]
    BY <1>2 DEF Places, Trail
  <2>4. n + 1 <= n + 1 BY <1>2
  <2>5. QED BY <2>2, <2>3, <2>4 DEF TrailFrom, Was
<1>6. ASSUME cache'[k] = cache[k], stream'[k] = Append(stream[k], api'[k])
      PROVE  /\ \A i \in Places(g)' : \/ i \in 0..n /\ i \in Places(g) /\ Trail(g, i)' = Trail(g, i)
                                      \/ i \in {n + 1, n + 2} /\ Trail(g, i)' = api'[k]
             /\ n + 1 \in Places(g) /\ Trail(g, n + 1) = api[k]
  <2>1. Len(stream'[k]) = n + 1 /\ stream'[k][n + 1] = api'[k]
        /\ \A i \in 1..n : stream'[k][i] = stream[k][i]
    BY <1>2, <1>6
  <2>2. QED BY <1>2, <1>6, <2>1 DEF Places, Trail
<1>7. ASSUME NEW j \in Keys, Removal(j) PROVE TrailFrom(g)
  <2>1. CASE j = k
    <3>1. /\ cache'[k] = cache[k] /\ stream'[k] = Append(stream[k], Absent)
          /\ api'[k] = Absent
      BY <1>1, <1>7, <2>1 DEF Removal, Remove, StoreType
    <3>2. \A i \in Places(g)' : Trail(g, i)' # Absent =>
              i \in Places(g) /\ Trail(g, i)' = Trail(g, i)
      BY <1>6, <3>1
    <3>3. QED BY <3>2 DEF TrailFrom, Was
  <2>2. CASE j # k BY <1>1, <1>3, <1>7, <2>2 DEF Removal, Remove, StoreType
  <2>3. QED BY <2>1, <2>2
<1>8. ASSUME NEW j \in Keys \ {k}, NEW obj \in ObjectsOf(j), Put(j, obj), UNCHANGED cache
      PROVE  TrailFrom(g)
  BY <1>1, <1>3, <1>8, PutEffect
<1>9. ASSUME NEW h \in Gateways, NEW obj, GatewayPut(h, obj) PROVE TrailFrom(g)
  <2>1. CASE h = g
    <3>1. /\ obj \in ObjectsOf(k) /\ Put(k, obj) /\ cache' = cache
      BY <1>1, <1>9, <2>1 DEF GatewayPut
    <3>2. /\ api'[k] = [obj EXCEPT !.rv = version[k] + 1]
          /\ version'[k] = version[k] + 1 /\ stream'[k] = Append(stream[k], api'[k])
      BY <1>1, <3>1, PutEffect
    <3>3. api'[k].gen = obj.gen BY <1>1, <3>1, <3>2 DEF Gateway
    <3>4. \/ obj.gen = version[k] + 1
          \/ api[k] # Absent /\ obj.gen = api[k].gen
      BY <1>9, <2>1 DEF GatewayPut
    <3>5. /\ \A i \in Places(g)' : \/ i \in 0..n /\ i \in Places(g) /\ Trail(g, i)' = Trail(g, i)
                                   \/ i \in {n + 1, n + 2} /\ Trail(g, i)' = api'[k]
          /\ n + 1 \in Places(g) /\ Trail(g, n + 1) = api[k]
      BY <1>6, <3>1, <3>2
    <3> SUFFICES ASSUME NEW i \in Places(g)', NEW j \in Places(g)', i <= j,
                        Trail(g, i)' # Absent, Trail(g, j)' # Absent
        PROVE  \/ \E p, q \in Places(g) :
                      p <= q /\ Was(g, p, Trail(g, i)') /\ Was(g, q, Trail(g, j)')
               \/ /\ Trail(g, j)'.gen = version[Cr(g)] + 1
                  /\ version'[Cr(g)] = version[Cr(g)] + 1
                  /\ \/ Trail(g, i)'.gen = version[Cr(g)] + 1
                     \/ \E p \in Places(g) : Was(g, p, Trail(g, i)')
      BY DEF TrailFrom
    <3>6. CASE j \in 0..n
      <4>1. i \in 0..n BY <1>2, <3>5, <3>6
      <4>2. i \notin {n + 1, n + 2} /\ j \notin {n + 1, n + 2} BY <1>2, <3>6, <4>1
      <4>3. Was(g, i, Trail(g, i)') /\ Was(g, j, Trail(g, j)')
        BY <3>5, <4>2 DEF Was
      <4>4. QED BY <4>3 DEF Was
    <3>7. CASE j \in {n + 1, n + 2} /\ Trail(g, j)' = api'[k]
      <4>1. CASE obj.gen = version[k] + 1
        <5>1. CASE Trail(g, i)' = api'[k] BY <3>2, <3>3, <3>7, <4>1, <5>1
        <5>2. CASE i \in Places(g) /\ Trail(g, i)' = Trail(g, i)
          BY <3>2, <3>3, <3>7, <4>1, <5>2 DEF Was
        <5>3. QED BY <3>5, <5>1, <5>2
      <4>2. CASE api[k] # Absent /\ obj.gen = api[k].gen
        <5>1. Was(g, n + 1, Trail(g, j)') BY <3>3, <3>5, <3>7, <4>2 DEF Was
        <5>2. CASE Trail(g, i)' = api'[k]
          <6>1. Was(g, n + 1, Trail(g, i)') BY <3>3, <3>5, <4>2, <5>2 DEF Was
          <6>2. n + 1 <= n + 1 BY <1>2
          <6>3. QED BY <5>1, <6>1, <6>2, <3>5
        <5>3. CASE i \in 0..n /\ i \in Places(g) /\ Trail(g, i)' = Trail(g, i)
          <6>1. Was(g, i, Trail(g, i)') BY <5>3 DEF Was
          <6>2. i <= n + 1 BY <1>2, <5>3
          <6>3. QED BY <5>1, <6>1, <6>2, <3>5
        <5>4. QED BY <3>5, <5>2, <5>3
      <4>3. QED BY <3>4, <4>1, <4>2
    <3>8. QED BY <3>5, <3>6, <3>7
  <2>2. CASE h # g
    <3>1. Cr(h) \in Keys \ {k} /\ obj \in ObjectsOf(Cr(h))
      BY <1>9, <2>2, KeyKinds, KeysDiffer DEF GatewayPut
    <3>2. QED BY <1>8, <1>9, <3>1 DEF GatewayPut
  <2>3. QED BY <2>1, <2>2
<1>10. ASSUME NEW h \in Gateways, NEW obj, DeploymentPut(h, obj) PROVE TrailFrom(g)
  <2>1. Dep(h) \in Keys \ {k} /\ obj \in ObjectsOf(Dep(h))
    BY <1>10, KeyKinds, KeysDiffer DEF DeploymentPut
  <2>2. QED BY <1>8, <1>10, <2>1 DEF DeploymentPut
<1>11. ASSUME NEW m \in SourceMaps, NEW obj, SourcePut(m, obj) PROVE TrailFrom(g)
  <2>1. Src(m) \in Keys \ {k} /\ obj \in ObjectsOf(Src(m))
    BY <1>11, KeyKinds, KeysDiffer DEF SourcePut
  <2>2. QED BY <1>8, <1>11, <2>1 DEF SourcePut
<1>12. ASSUME NEW m \in MapIds, NEW obj, MapPut(m, obj) PROVE TrailFrom(g)
  <2>1. Map(m) \in Keys \ {k} /\ obj \in ObjectsOf(Map(m))
    BY <1>12, KeyKinds, KeysDiffer DEF MapPut
  <2>2. QED BY <1>8, <1>12, <2>1 DEF MapPut
<1>13. CASE StoreKept BY <1>3, <1>13 DEF StoreKept
<1>14. QED
  BY <1>4, <1>5, <1>7, <1>9, <1>10, <1>11, <1>12, <1>13 DEF StoreStep

(* What holds of the trail goes on holding.                                *)
LEMMA TrailKept ==
    ASSUME StoreType, StoreType', StoreStep, VersionsGrow,
           NEW g \in Gateways, Sorted(g), Numbered(g)
    PROVE  /\ Sorted(g)' /\ Numbered(g)'
           /\ \A n \in Nat : Floor(g, n) =>
                 /\ n <= version'[Cr(g)]
                 /\ \A i \in Places(g)' : Trail(g, i)' # Absent => n <= Trail(g, i)'.gen
<1>1. TrailFrom(g) BY TrailStep
<1>2. /\ \A i \in Places(g) : Trail(g, i) # Absent => Trail(g, i).gen \in Nat
      /\ version[Cr(g)] \in Nat
  BY TrailType DEF Optional, Gateway
<1>3. /\ \A i \in Places(g)' : i \in Nat /\ (Trail(g, i)' # Absent => Trail(g, i)'.gen \in Nat)
      /\ version'[Cr(g)] \in Nat
  <2>1. ASSUME NEW i \in Places(g)' PROVE Trail(g, i)' \in Optional(Gateway)
    <3>1. /\ Cr(g) \in Keys /\ ObjectsOf(Cr(g)) = Gateway
          /\ stream'[Cr(g)] \in Seq(Optional(Gateway)) /\ Len(stream'[Cr(g)]) \in Nat
      BY KeyKinds DEF StoreType
    <3>2. \A j \in 1..Len(stream'[Cr(g)]) : stream'[Cr(g)][j] \in Optional(Gateway) BY <3>1
    <3>3. QED BY <2>1, <3>1, <3>2 DEF StoreType, Trail, Places
  <2>2. QED BY <2>1, KeyKinds DEF Optional, Gateway, StoreType, Places
<1>4. version'[Cr(g)] >= version[Cr(g)]
  BY KeyKinds DEF VersionsGrow
<1>5. ASSUME NEW i \in Places(g)', NEW j \in Places(g)', i <= j,
             Trail(g, i)' # Absent, Trail(g, j)' # Absent
      PROVE  /\ Trail(g, i)'.gen <= Trail(g, j)'.gen
             /\ Trail(g, j)'.gen <= version'[Cr(g)]
  <2>1. CASE \E p, q \in Places(g) :
                 p <= q /\ Was(g, p, Trail(g, i)') /\ Was(g, q, Trail(g, j)')
    <3> PICK p, q \in Places(g) :
                 p <= q /\ Was(g, p, Trail(g, i)') /\ Was(g, q, Trail(g, j)')
      BY <2>1
    <3>1. Trail(g, p).gen <= Trail(g, q).gen /\ Trail(g, q).gen <= version[Cr(g)]
      BY DEF Sorted, Numbered, Was
    <3>2. QED BY <1>2, <1>3, <1>4, <3>1 DEF Was
  <2>2. CASE /\ Trail(g, j)'.gen = version[Cr(g)] + 1
             /\ version'[Cr(g)] = version[Cr(g)] + 1
             /\ \/ Trail(g, i)'.gen = version[Cr(g)] + 1
                \/ \E p \in Places(g) : Was(g, p, Trail(g, i)')
    <3>1. Trail(g, i)'.gen <= version[Cr(g)] + 1
      BY <1>2, <1>3, <2>2 DEF Was, Numbered
    <3>2. QED BY <1>2, <1>3, <2>2, <3>1
  <2>3. QED BY <1>1, <1>5, <2>1, <2>2 DEF TrailFrom
<1>6. ASSUME NEW n \in Nat, Floor(g, n), NEW i \in Places(g)', Trail(g, i)' # Absent
      PROVE  n <= Trail(g, i)'.gen
  <2>1. i <= i BY <1>3
  <2>2. \/ \E p \in Places(g) : Was(g, p, Trail(g, i)')
        \/ Trail(g, i)'.gen = version[Cr(g)] + 1
    BY <1>1, <1>6, <2>1 DEF TrailFrom
  <2>3. QED BY <1>2, <1>3, <1>6, <2>2 DEF Was, Floor
<1>7. Sorted(g)' BY <1>5 DEF Sorted
<1>8. Numbered(g)'
  <2>1. \A i \in Places(g)' : i <= i BY <1>3
  <2>2. QED BY <1>5, <2>1 DEF Numbered
<1>9. QED BY <1>2, <1>3, <1>4, <1>6, <1>7, <1>8 DEF Floor

(* What is written is written by the worker, from what it has read.        *)
Writes == CreateMap \/ UpdateMap \/ CreateDeployment \/ ScaleDeployment \/ UpdateDeployment

LEMMA AppliedStep ==
    ASSUME [Next]_vars
    PROVE  \/ applied' = applied
           \/ Writes /\ Working /\ Wrote(job.req)
<1>1. CASE Writes
  BY <1>1 DEF Writes, CreateMap, UpdateMap, CreateDeployment, ScaleDeployment,
              UpdateDeployment, Working
<1>2. CASE Worker /\ ~Writes
  BY <1>2 DEF Worker, GoOn, Succeed, Writes, Reconcile, ReconcileGateway, PanicInMerge,
              ReconcileConfigMap, ReconcileNothing,
              Touch, KeepMap, MapRefused, PanicNoAnnotations, KeepDeployment,
              DeploymentRefused, ManageError
<1>3. CASE Manager BY <1>3 DEF Manager, Deliver, Expire
<1>4. CASE Cluster BY <1>4 DEF Cluster, Annotate, Collect
<1>5. CASE Users
  BY <1>5 DEF Users, Ask, Supply, Disturb, CreateGateway, EditGateway, DeleteGateway,
              DeleteDeployment, WriteSource,
              DeleteSource, DeleteMap, Restart, Resync, May, Happens
<1>6. CASE UNCHANGED vars BY <1>6 DEF vars
<1>7. QED BY <1>1, <1>2, <1>3, <1>4, <1>5, <1>6 DEF Next

LEMMA RollInvInit == Init => RollInv
<1> SUFFICES ASSUME Init PROVE RollInv OBVIOUS
<1>1. ASSUME NEW g \in Gateways PROVE Sorted(g) /\ Numbered(g) /\ Floor(g, applied[g])
  <2>1. Cr(g) \in Keys BY KeyKinds
  <2>2. /\ cache[Cr(g)] = Absent /\ api[Cr(g)] = Absent /\ stream[Cr(g)] = <<>>
        /\ version[Cr(g)] = 0 /\ applied[g] = 0
    BY <2>1 DEF Init
  <2>3. \A i \in Places(g) : Trail(g, i) = Absent
    BY <2>2 DEF Places, Trail
  <2>4. QED BY <2>2, <2>3 DEF Sorted, Numbered, Floor
<1>2. ~Working BY DEF Init, Working
<1>3. QED BY <1>1, <1>2 DEF RollInv

LEMMA RollInvStep ==
    ASSUME CopyInv, CopyInv', RollInv, [Next]_vars
    PROVE  RollInv' /\ \A g \in Gateways : applied'[g] >= applied[g]
<1>1. TypeInv /\ StoreType /\ StoreType' /\ StoreStep /\ VersionsGrow
  BY NextStoreStep, StoreStepEffect, BoundsAssumption DEF CopyInv, TypeInv, CountType
<1>2. applied \in [Gateways -> Nat] /\ applied' \in [Gateways -> Nat]
  BY DEF CopyInv, TypeInv, CountType
<1>3. Working => job.req \in Gateways /\ job.inst \in Gateway /\ job.inst.gen \in Nat
  BY <1>1 DEF TypeInv, JobShape, Working, Gateway
<1>4. ASSUME NEW g \in Gateways PROVE Sorted(g)' /\ Numbered(g)'
  BY <1>1, TrailKept DEF RollInv
<1>5. ASSUME NEW g \in Gateways, NEW n \in Nat, Floor(g, n), NEW m, m = n
      PROVE  /\ m <= version'[Cr(g)]
             /\ \A i \in Places(g)' : Trail(g, i)' # Absent => m <= Trail(g, i)'.gen
  BY <1>1, <1>5, TrailKept DEF RollInv
<1>6. ASSUME NEW g \in Gateways
      PROVE  applied'[g] >= applied[g] /\ Floor(g, applied[g])'
  <2>1. CASE applied'[g] = applied[g]
    BY <1>2, <1>5, <2>1 DEF RollInv, Floor
  <2>2. CASE Working /\ job.req = g /\ applied'[g] = job.inst.gen
    BY <1>2, <1>3, <1>5, <2>2 DEF RollInv, Floor
  <2>3. QED BY <1>2, <2>1, <2>2, AppliedStep DEF Wrote
<1>7. ASSUME Working'
      PROVE  Floor(job.req, job.inst.gen)' /\ applied'[job'.req] <= job'.inst.gen
  <2>1. CASE JobGoesOn
    <3>1. /\ job'.req = job.req /\ job'.inst = job.inst /\ Working
          /\ Floor(job.req, job.inst.gen) /\ applied[job.req] <= job.inst.gen
      BY <2>1 DEF JobGoesOn, RollInv
    <3>2. Floor(job.req, job.inst.gen)' BY <1>3, <1>5, <3>1 DEF Floor
    <3>3. applied'[job.req] = applied[job.req] \/ applied'[job.req] = job.inst.gen
      BY <1>2, <1>3, <3>1, AppliedStep DEF Wrote
    <3>4. QED BY <1>3, <3>1, <3>2, <3>3
  <2>2. CASE JobStarts
    <3> DEFINE g == job'.req
    <3>1. /\ g \in Gateways /\ cache[Cr(g)] # Absent /\ job'.inst = cache[Cr(g)]
          /\ StoreKept
      BY <2>2 DEF JobStarts
    <3>2. 0 \in Places(g) /\ Trail(g, 0) = cache[Cr(g)]
          /\ \A i \in Places(g) : 0 <= i
      BY <1>1, <3>1, TrailType DEF Places, Trail
    <3>3. cache[Cr(g)].gen \in Nat
      BY <1>1, <3>1, <3>2, TrailType DEF Optional, Gateway
    <3>4. Floor(g, cache[Cr(g)].gen) /\ applied[g] <= cache[Cr(g)].gen
      BY <3>1, <3>2 DEF RollInv, Sorted, Numbered, Floor
    <3>5. Floor(job.req, job.inst.gen)' BY <1>5, <3>1, <3>3, <3>4 DEF Floor
    <3>6. applied' = applied
      <4>1. ~Writes
        BY <2>2 DEF JobStarts, Writes, CreateMap, UpdateMap, CreateDeployment,
                    ScaleDeployment, UpdateDeployment, Goto, Done
      <4>2. QED BY <4>1, AppliedStep
    <3>7. QED BY <3>1, <3>4, <3>5, <3>6
  <2>3. QED BY <1>1, <1>7, <2>1, <2>2, JobStep
<1>8. QED BY <1>4, <1>6, <1>7 DEF RollInv

(* Nothing is ever written from an older spec of a gateway than something  *)
(* written before, whatever users, caches, crashes and faults do.          *)
THEOREM NeverRolledBack == Spec => NeverRollsBack
<1>1. Init => CopyInv /\ RollInv BY MountInvInit, RollInvInit DEF MountInv
<1>2. CopyInv /\ RollInv /\ [Next]_vars
          => /\ CopyInv' /\ RollInv'
             /\ [\A g \in Gateways : applied'[g] >= applied[g]]_vars
  BY CopyInvStep, RollInvStep
<1>3. QED BY <1>1, <1>2, PTL DEF Spec, NeverRollsBack

-----------------------------------------------------------------------------
(* The refinement.  What GatewayService sees of the store:                 *)

Life  == [g \in Gateways |-> IF api[Cr(g)] = Absent THEN {} ELSE {api[Cr(g)].uid}]
Asked == [g \in Gateways |-> version[Cr(g)]]
Maps  == [i \in MapIds |-> IF api[Map(i)] = Absent THEN {} ELSE {api[Map(i)].owner}]
Mounts == [g \in Gateways |-> IF api[Dep(g)] = Absent THEN {}
               ELSE {[owner |-> api[Dep(g)].owner, map |-> api[Dep(g)].map]}]

(* An object of the API server that is not of the kind that is written     *)
(* looks to the service as it did.                                         *)
LEMMA ViewsKept ==
    ASSUME NEW k, \A j \in Keys \ {k} : api'[j] = api[j] /\ version'[j] = version[j]
    PROVE  /\ (\A g \in Gateways : Cr(g) # k) => Life' = Life /\ Asked' = Asked
           /\ (\A i \in MapIds : Map(i) # k) => Maps' = Maps
           /\ (\A g \in Gateways : Dep(g) # k) => Mounts' = Mounts
BY KeyKinds DEF Life, Asked, Maps, Mounts

LEMMA ServiceInit == Init => Service!Init
<1> SUFFICES ASSUME Init PROVE Service!Init OBVIOUS
<1>1. \A k \in Keys : api[k] = Absent /\ version[k] = 0 BY DEF Init
<1>2. applied = [g \in Gateways |-> 0] BY DEF Init
<1>3. QED BY <1>1, <1>2, KeyKinds DEF Service!Init

LEMMA GatewayPutServes ==
    ASSUME StoreType, NEW g \in Gateways, NEW obj, GatewayPut(g, obj), applied' = applied
    PROVE  Service!Next
<1>1. Cr(g) \in Keys /\ obj \in ObjectsOf(Cr(g)) BY KeyKinds DEF GatewayPut
<1>2. /\ api'[Cr(g)] = [obj EXCEPT !.rv = version[Cr(g)] + 1] /\ api'[Cr(g)] # Absent
      /\ version'[Cr(g)] = version[Cr(g)] + 1
      /\ \A j \in Keys \ {Cr(g)} : api'[j] = api[j] /\ version'[j] = version[j]
  BY <1>1, PutEffect DEF GatewayPut
<1>3. api'[Cr(g)].uid = obj.uid BY <1>2 DEF GatewayPut, Gateway
<1>4. Maps' = Maps /\ Mounts' = Mounts BY <1>2, ViewsKept, KeysDiffer
<1>5. \A h \in Gateways \ {g} : api'[Cr(h)] = api[Cr(h)] /\ version'[Cr(h)] = version[Cr(h)]
  BY <1>2, KeyKinds, KeysDiffer
<1>6. Asked' = [Asked EXCEPT ![g] = @ + 1] BY <1>2, <1>5 DEF Asked
<1>7. CASE api[Cr(g)] = Absent
  <2>1. /\ Life[g] = {} /\ Life'[g] = {Asked[g] + 1}
        /\ \A h \in Gateways \ {g} : Life'[h] = Life[h]
    <3>1. obj.uid = version[Cr(g)] + 1 BY <1>7 DEF GatewayPut
    <3>2. QED BY <1>2, <1>3, <1>5, <1>7, <3>1 DEF Life, Asked
  <2>2. Life' = [Life EXCEPT ![g] = {Asked[g] + 1}] BY <2>1 DEF Life
  <2>3. Service!Create(g) BY <1>4, <1>6, <2>1, <2>2 DEF Service!Create, Life, Asked, Maps, Mounts
  <2>4. QED BY <2>3 DEF Service!Next
<1>8. CASE api[Cr(g)] # Absent
  <2>1. Life' = Life /\ Life[g] # {}
    BY <1>2, <1>3, <1>5, <1>8 DEF GatewayPut, Life
  <2>2. Service!Ask(g) BY <1>4, <1>6, <2>1 DEF Service!Ask, Life, Asked, Maps, Mounts
  <2>3. QED BY <2>2 DEF Service!Next
<1>9. QED BY <1>7, <1>8

(* What the worker writes rolls forward, and no further than was asked.    *)
LEMMA RollServes ==
    ASSUME CopyInv, CopyInv', RollInv, [Next]_vars,
           NEW g \in Gateways, Working => g = job.req,
           Life' = Life, Asked' = Asked
    PROVE  Service!Roll(g)
<1>1. applied \in [Gateways -> Nat] /\ applied' \in [Gateways -> Nat]
  BY DEF CopyInv, TypeInv, CountType
<1>2. Asked[g] = version[Cr(g)] /\ Asked[g] \in Nat
  BY KeyKinds DEF Asked, CopyInv, TypeInv, StoreType
<1>3. applied' = [applied EXCEPT ![g] = applied'[g]]
  BY <1>1, AppliedStep DEF Wrote
<1>4. applied'[g] >= applied[g] BY RollInvStep
<1>5. applied'[g] <= Asked'[g]
  <2>1. Floor(g, applied[g])' BY RollInvStep DEF RollInv
  <2>2. QED BY <2>1 DEF Floor, Asked
<1>6. applied'[g] \in applied[g]..Asked[g] BY <1>1, <1>2, <1>4, <1>5
<1>7. QED BY <1>3, <1>6 DEF Service!Roll, Life, Asked

LEMMA DeploymentPutServes ==
    ASSUME MountInv, CopyInv', RollInv, [Next]_vars,
           NEW g \in Gateways, NEW obj, DeploymentPut(g, obj),
           Working => g = job.req \/ applied' = applied
    PROVE  Service!Next \/ UNCHANGED Service!vars
<1>1. StoreType /\ applied \in [Gateways -> Nat]
  BY DEF MountInv, CopyInv, TypeInv, CountType
<1>2. Dep(g) \in Keys /\ obj \in ObjectsOf(Dep(g)) BY KeyKinds DEF DeploymentPut
<1>3. /\ api'[Dep(g)] = [obj EXCEPT !.rv = version[Dep(g)] + 1] /\ api'[Dep(g)] # Absent
      /\ \A j \in Keys \ {Dep(g)} : api'[j] = api[j] /\ version'[j] = version[j]
  BY <1>1, <1>2, PutEffect DEF DeploymentPut
<1>4. api'[Dep(g)].owner = obj.owner /\ api'[Dep(g)].map = obj.map
  BY <1>3 DEF DeploymentPut, Deployment
<1>5. Life' = Life /\ Asked' = Asked /\ Maps' = Maps BY <1>3, ViewsKept, KeysDiffer
<1>6. \A h \in Gateways \ {g} : api'[Dep(h)] = api[Dep(h)] BY <1>3, KeyKinds, KeysDiffer
<1>7. CASE /\ api[Dep(g)] # Absent
           /\ obj.owner = api[Dep(g)].owner /\ obj.map = api[Dep(g)].map
  <2>1. Mounts' = Mounts BY <1>3, <1>4, <1>6, <1>7 DEF Mounts
  <2>2. CASE applied' = applied
    BY <1>5, <2>1, <2>2 DEF Service!vars, Life, Asked, Maps, Mounts
  <2>3. CASE applied' # applied
    <3>1. Working => g = job.req BY <2>3
    <3>2. Service!Roll(g) BY <1>5, <3>1, RollServes DEF MountInv
    <3>3. Service!Renew(g)
      BY <1>5, <2>1, <3>2 DEF Service!Renew, Life, Asked, Maps, Mounts
    <3>4. QED BY <3>3 DEF Service!Next
  <2>4. QED BY <2>2, <2>3
<1>8. CASE /\ pc = "deployment" /\ job.dply = Absent
           /\ api[Dep(g)] = Absent /\ g = job.req
           /\ obj.owner = JobOwner /\ obj.map = job.cm.map
  <2> DEFINE i == job.cm.map
             n == job.inst.uid
  <2>1. Service!Roll(g) BY <1>5, <1>8, RollServes DEF MountInv
  <2>2. JobOwner \in Owner /\ i \in MapIds
    BY <1>8, OwnerTypes DEF MountInv, CopyInv, Working
  <2>3. JobOwner = [gw |-> g, uid |-> n] /\ n \in Nat
    BY <1>8, <2>2 DEF JobOwner, Owner
  <2>4. n \in 0..Asked[g]
    <3>1. n <= version[Cr(g)]
      BY <1>8 DEF MountInv, CopyInv, OwnersBorn, Working, Born, JobOwner
    <3>2. version[Cr(g)] \in Nat BY <1>1, KeyKinds DEF StoreType
    <3>3. QED BY <2>3, <3>1, <3>2 DEF Asked
  <2>5. Mounts[g] = {} BY <1>8 DEF Mounts
  <2>6. Mounts' = [Mounts EXCEPT ![g] = {[owner |-> [gw |-> g, uid |-> n], map |-> i]}]
    <3> DEFINE d == [owner |-> [gw |-> g, uid |-> n], map |-> i]
    <3>1. [owner |-> api'[Dep(g)].owner, map |-> api'[Dep(g)].map] = d
      BY <1>4, <1>8, <2>3
    <3> HIDE DEF d
    <3>2. Mounts' = [Mounts EXCEPT ![g] = {d}] BY <1>3, <1>6, <3>1 DEF Mounts
    <3>3. QED BY <3>2 DEF d
  <2>7. n \in Life[g] => Maps[i] = {[gw |-> g, uid |-> n]}
    <3>1. SUFFICES ASSUME n \in Life[g] PROVE Maps[i] = {JobOwner} BY <2>3
    <3>2. Live(JobOwner) BY <3>1, <2>3 DEF Live, Life
    <3>3. api[Map(i)] # Absent /\ api[Map(i)].owner = JobOwner
      BY <1>8, <3>2 DEF MountInv, JobMap, Lasts
    <3>4. QED BY <2>2, <3>3 DEF Maps
  <2>8. Service!Mount(g, i, n)
    BY <1>5, <2>1, <2>5, <2>6, <2>7
    DEF Service!Mount, Service!Lives, Service!Owner, Life, Asked, Maps, Mounts
  <2>9. QED BY <2>2, <2>4, <2>8 DEF Service!Next, Asked
<1>9. QED BY <1>7, <1>8 DEF DeploymentPut

LEMMA MapPutServes ==
    ASSUME MountInv, CopyInv', RollInv, [Next]_vars,
           NEW i \in MapIds, NEW obj, MapPut(i, obj),
           applied' = applied \/ Working
    PROVE  Service!Next \/ UNCHANGED Service!vars
<1>1. StoreType /\ made \in Nat
  BY BoundsAssumption DEF MountInv, CopyInv, TypeInv, CountType
<1>2. Map(i) \in Keys /\ obj \in ObjectsOf(Map(i)) BY KeyKinds DEF MapPut
<1>3. /\ api'[Map(i)] = [obj EXCEPT !.rv = version[Map(i)] + 1] /\ api'[Map(i)] # Absent
      /\ \A j \in Keys \ {Map(i)} : api'[j] = api[j] /\ version'[j] = version[j]
  BY <1>1, <1>2, PutEffect DEF MapPut
<1>4. api'[Map(i)].owner = obj.owner BY <1>3 DEF MapPut, GeneratedMap
<1>5. Life' = Life /\ Asked' = Asked /\ Mounts' = Mounts BY <1>3, ViewsKept, KeysDiffer
<1>6. \A j \in MapIds \ {i} : api'[Map(j)] = api[Map(j)] BY <1>3, KeyKinds, KeysDiffer
<1> DEFINE g == job.req
           n == job.inst.uid
<1>7. ASSUME Working PROVE g \in Gateways /\ Service!Roll(g)
  <2>1. g \in Gateways BY <1>7 DEF MountInv, CopyInv, TypeInv, JobShape, Working
  <2>2. QED BY <1>5, <2>1, RollServes DEF MountInv
<1>8. CASE api[Map(i)] # Absent /\ obj.owner = api[Map(i)].owner
  <2>1. Maps' = Maps BY <1>3, <1>4, <1>6, <1>8 DEF Maps
  <2>2. CASE applied' = applied
    BY <1>5, <2>1, <2>2 DEF Service!vars, Life, Asked, Maps, Mounts
  <2>3. CASE Working
    <3>1. Service!Renew(g)
      BY <1>5, <1>7, <2>1, <2>3 DEF Service!Renew, Life, Asked, Maps, Mounts
    <3>2. QED BY <1>7, <2>3, <3>1 DEF Service!Next
  <2>4. QED BY <2>2, <2>3
<1>9. CASE pc = "configMap" /\ i = made + 1 /\ obj.owner = JobOwner
  <2>1. Working BY <1>9 DEF Working
  <2>2. JobOwner = [gw |-> g, uid |-> n] /\ n \in Nat
    BY <2>1, OwnerTypes DEF MountInv, CopyInv, JobOwner, Owner
  <2>3. n \in 0..Asked[g]
    <3>1. n <= version[Cr(g)]
      BY <2>1 DEF MountInv, CopyInv, OwnersBorn, Born, JobOwner
    <3>2. version[Cr(g)] \in Nat /\ Asked[g] = version[Cr(g)]
      BY <1>1, <1>7, <2>1, KeyKinds DEF StoreType, Asked
    <3>3. QED BY <2>2, <3>1, <3>2
  <2>4. Maps[i] = {}
    <3>1. i > made BY <1>1, <1>9
    <3>2. QED BY <3>1 DEF Maps, MountInv, CopyInv, Unmade
  <2>5. Maps' = [Maps EXCEPT ![i] = {[gw |-> g, uid |-> n]}]
    <3> DEFINE o == [gw |-> g, uid |-> n]
    <3>1. api'[Map(i)].owner = o BY <1>4, <1>9, <2>2
    <3> HIDE DEF o
    <3>2. Maps' = [Maps EXCEPT ![i] = {o}] BY <1>3, <1>6, <3>1 DEF Maps
    <3>3. QED BY <3>2 DEF o
  <2>6. Service!MakeMap(g, i, n)
    BY <1>5, <1>7, <2>1, <2>4, <2>5
    DEF Service!MakeMap, Service!Owner, Life, Asked, Maps, Mounts
  <2>7. QED BY <1>7, <2>1, <2>3, <2>6 DEF Service!Next, Asked
<1>10. QED BY <1>8, <1>9 DEF MapPut

LEMMA RemovalServes ==
    ASSUME StoreType, "deleteMap" \notin UserActions,
           NEW k \in Keys, Removal(k), applied' = applied
    PROVE  Service!Next \/ UNCHANGED Service!vars
<1>1. /\ version' = version /\ api'[k] = Absent
      /\ \A j \in Keys \ {k} : api'[j] = api[j] /\ version'[j] = version[j]
  BY DEF Removal, Remove, StoreType
<1>2. ASSUME NEW g \in Gateways, k = Cr(g) PROVE Service!Next
  <2>1. Asked' = Asked BY <1>1 DEF Asked
  <2>2. Maps' = Maps /\ Mounts' = Mounts BY <1>1, <1>2, ViewsKept, KeysDiffer
  <2>3. Life' = [Life EXCEPT ![g] = {}] BY <1>1, <1>2, KeyKinds, KeysDiffer DEF Life
  <2>4. Service!Delete(g)
    BY <2>1, <2>2, <2>3 DEF Service!Delete, Life, Asked, Maps, Mounts
  <2>5. QED BY <2>4 DEF Service!Next
<1>3. ASSUME NEW g \in Gateways, k = Dep(g) PROVE Service!Next
  <2>1. Life' = Life /\ Asked' = Asked /\ Maps' = Maps BY <1>1, <1>3, ViewsKept, KeysDiffer
  <2>2. Mounts' = [Mounts EXCEPT ![g] = {}] BY <1>1, <1>3, KeyKinds, KeysDiffer DEF Mounts
  <2>3. Service!Unmount(g)
    BY <2>1, <2>2 DEF Service!Unmount, Life, Asked, Maps, Mounts
  <2>4. QED BY <2>3 DEF Service!Next
<1>4. ASSUME NEW i \in MapIds, k = Map(i) PROVE Service!Next
  <2>1. /\ Life' = Life /\ Asked' = Asked /\ Mounts' = Mounts
    BY <1>1, <1>4, ViewsKept, KeysDiffer
  <2>2. Maps' = [Maps EXCEPT ![i] = {}] BY <1>1, <1>4, KeyKinds, KeysDiffer DEF Maps
  <2>3. api[k] # Absent /\ ~Live(api[k].owner) BY <1>4 DEF Removal, Orphan, MapKeys
  <2>4. api[k].owner \in Owner
    BY <1>4, <2>3, ReadTypes DEF Optional, GeneratedMap
  <2>5. \A o \in Maps[i] : o.uid \notin Life[o.gw]
    BY <1>4, <2>3, <2>4 DEF Maps, Life, Live, Owner
  <2>6. Service!DropMap(i)
    BY <2>1, <2>2, <2>5 DEF Service!DropMap, Service!Lives, Life, Asked, Maps, Mounts
  <2>7. QED BY <2>6 DEF Service!Next
<1>5. ASSUME NEW m \in SourceMaps, k = Src(m) PROVE UNCHANGED Service!vars
  <2>1. Life' = Life /\ Asked' = Asked /\ Maps' = Maps /\ Mounts' = Mounts
    BY <1>1, <1>5, ViewsKept, KeysDiffer
  <2>2. QED BY <2>1 DEF Service!vars, Life, Asked, Maps, Mounts
<1>6. QED
  BY <1>2, <1>3, <1>4, <1>5, KeysAssumption DEF CrKeys, DepKeys, SrcKeys, MapKeys

LEMMA ServiceStep ==
    ASSUME "deleteMap" \notin UserActions, MountInv, CopyInv', RollInv, [Next]_vars
    PROVE  Service!Next \/ UNCHANGED Service!vars
<1>1. StoreType /\ StoreStep BY NextStoreStep DEF MountInv, CopyInv, TypeInv
<1>2. CASE Writes
  <2>1. CASE CreateMap \/ UpdateMap
    <3>1. Working BY <2>1 DEF CreateMap, UpdateMap, Working
    <3>2. QED BY <2>1, <3>1, MapWriteStep, MapPutServes DEF MountInv, CopyInv
  <2>2. CASE CreateDeployment \/ ScaleDeployment \/ UpdateDeployment
    BY <2>2, DeploymentWriteStep, DeploymentPutServes DEF MountInv, CopyInv
  <2>3. QED BY <1>2, <2>1, <2>2 DEF Writes
<1>3. CASE applied' = applied
  <2>1. CASE UNCHANGED <<api, version>>
    BY <1>3, <2>1 DEF Service!vars
  <2>2. CASE \E k \in Keys : Removal(k) BY <1>1, <1>3, <2>2, RemovalServes
  <2>3. CASE \E g \in Gateways : \E obj : GatewayPut(g, obj)
    BY <1>1, <1>3, <2>3, GatewayPutServes
  <2>4. CASE \E g \in Gateways : \E obj : DeploymentPut(g, obj)
    BY <1>3, <2>4, DeploymentPutServes
  <2>5. CASE \E m \in SourceMaps : \E obj : SourcePut(m, obj)
    <3> PICK m \in SourceMaps : \E obj : SourcePut(m, obj) BY <2>5
    <3> PICK obj : SourcePut(m, obj) OBVIOUS
    <3>1. Src(m) \in Keys /\ obj \in ObjectsOf(Src(m)) BY KeyKinds DEF SourcePut
    <3>2. \A j \in Keys \ {Src(m)} : api'[j] = api[j] /\ version'[j] = version[j]
      BY <1>1, <3>1, PutEffect DEF SourcePut
    <3> DEFINE k == Src(m)
    <3>3. /\ \A g \in Gateways : Cr(g) # k /\ Dep(g) # k
          /\ \A i \in MapIds : Map(i) # k
      BY KeysDiffer
    <3>4. \A j \in Keys \ {k} : api'[j] = api[j] /\ version'[j] = version[j] BY <3>2
    <3> HIDE DEF k
    <3>5. Life' = Life /\ Asked' = Asked /\ Maps' = Maps /\ Mounts' = Mounts
      BY <3>3, <3>4, ViewsKept
    <3>6. QED BY <1>3, <3>5 DEF Service!vars, Life, Asked, Maps, Mounts
  <2>6. CASE \E i \in MapIds : \E obj : MapPut(i, obj)
    BY <1>3, <2>6, MapPutServes
  <2>7. QED
    BY <1>1, <2>1, <2>2, <2>3, <2>4, <2>5, <2>6 DEF StoreStep, StoreKept, Advance, Relist
<1>4. QED BY <1>2, <1>3, AppliedStep

(* The reconciler, with its stale caches, its queue, its faults and its    *)
(* crashes, is a GatewayService: for any gateways, sources and bounds, as  *)
(* long as no user deletes a generated map.                                *)
THEOREM ServiceImplemented ==
    ASSUME "deleteMap" \notin UserActions
    PROVE  Spec => ImplementsService
<1> DEFINE Inv == MountInv /\ RollInv
<1>1. Init => Inv /\ Service!Init BY MountInvInit, RollInvInit, ServiceInit
<1>2. Inv /\ [Next]_vars => Inv' /\ [Service!Next]_(Service!vars)
  BY MountInvStep, RollInvStep, ServiceStep DEF MountInv
<1>3. QED BY <1>1, <1>2, PTL DEF Spec, ImplementsService, Service!Spec
=============================================================================
