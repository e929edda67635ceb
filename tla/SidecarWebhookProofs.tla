------------------------- MODULE SidecarWebhookProofs -------------------------
(* What holds of SidecarWebhook for every value of its constants.          *)
EXTENDS SidecarWebhook, TLAPS

-----------------------------------------------------------------------------
(* The keys are of three kinds.                                            *)

LEMMA KeyKinds ==
    /\ \A a \in Apps : App(a) \in Keys /\ ObjectsOf(App(a)) = AppObject
    /\ \A i \in Ids : Service(i) \in Keys /\ ObjectsOf(Service(i)) = ServiceObject
    /\ \A i \in Ids : Config(i) \in Keys /\ ObjectsOf(Config(i)) = ConfigObject
<1>1. \A i : Service(i) \notin AppKeys
  BY DEF Service, App, AppKeys
<1>2. \A i : Config(i) \notin AppKeys \cup ServiceKeys
  BY DEF Config, App, Service, AppKeys, ServiceKeys
<1>3. /\ \A a \in Apps : App(a) \in AppKeys
      /\ \A i \in Ids : Service(i) \in ServiceKeys /\ Config(i) \in ConfigKeys
  BY DEF AppKeys, ServiceKeys, ConfigKeys
<1>4. QED BY <1>1, <1>2, <1>3, KeysAssumption DEF ObjectsOf

LEMMA Bounds == MaxNames \in Nat /\ MaxRequests \in Nat /\ MaxFaults \in Nat
BY BoundsAssumption

(* What a user asks for, when it is a port or has sources.                 *)
LEMMA AskFields ==
    /\ \A k \in Allowed : /\ k.port # Unset => k.port \in AskedPorts
                          /\ k.conf # {} => k.conf \in AskedConfs
    /\ NoAsk.img = Unset /\ NoAsk.conf = {} /\ NoAsk.port = Unset
BY DEF Allowed, NoAsk, AskedPorts, AskedConfs

-----------------------------------------------------------------------------
(* The types.                                                              *)

StoreType ==
    /\ DOMAIN api = Keys /\ \A k \in Keys : api[k] \in Optional(ObjectsOf(k))
    /\ version \in [Keys -> Nat]
    /\ DOMAIN cache = Keys /\ \A k \in Keys : cache[k] \in Optional(ObjectsOf(k))
    /\ DOMAIN stream = Keys /\ \A k \in Keys : stream[k] \in Seq(Optional(ObjectsOf(k)))

ReqType == DOMAIN req = Slots /\ \A r \in Slots : req[r] = Idle \/ req[r] \in Requests

CountType ==
    /\ services \in Names /\ configs \in Names
    /\ sent \in 0..MaxRequests /\ faults \in 0..MaxFaults

(* What a handler found before it makes a service or a config map.         *)
Shape(q) ==
    /\ q.pc = "addService" => q.new.ask.port # Unset
    /\ q.pc \in {"addService", "dropService", "addConfig"} /\ q.op # "delete"
           => q.new.ask.conf # {}
    /\ q.op = "delete" => q.pc \notin {"addService", "addConfig"}
    /\ q.op = "create" => q.pc # "dropConfig"
ReqShape == \A r \in Slots : req[r] # Idle => Shape(req[r])

TypeInv == StoreType /\ ReqType /\ CountType /\ ReqShape

LEMMA TypesFollow == TypeInv => TypeOK
BY DEF TypeInv, TypeOK, StoreType, ReqType, CountType

LEMMA PutType ==
    ASSUME StoreType, NEW k \in Keys, NEW obj,
           [obj EXCEPT !.rv = version[k] + 1] \in ObjectsOf(k),
           Put(k, obj), UNCHANGED cache
    PROVE  StoreType'
<1> DEFINE new == [obj EXCEPT !.rv = version[k] + 1]
<1>1. /\ version' = [version EXCEPT ![k] = @ + 1]
      /\ api' = [api EXCEPT ![k] = new]
      /\ stream' = [stream EXCEPT ![k] = Append(@, new)]
  BY DEF Put
<1>2. new \in Optional(ObjectsOf(k)) BY DEF Optional
<1> HIDE DEF new
<1>3. DOMAIN api' = Keys /\ \A j \in Keys : api'[j] \in Optional(ObjectsOf(j))
  BY <1>1, <1>2 DEF StoreType
<1>4. version' \in [Keys -> Nat] BY <1>1 DEF StoreType
<1>5. Append(stream[k], new) \in Seq(Optional(ObjectsOf(k))) BY <1>2 DEF StoreType
<1>6. DOMAIN stream' = Keys /\ \A j \in Keys : stream'[j] \in Seq(Optional(ObjectsOf(j)))
  BY <1>1, <1>5 DEF StoreType
<1>7. QED BY <1>3, <1>4, <1>6 DEF StoreType, ObjectsOf, Optional

LEMMA TypedPut ==
    ASSUME StoreType, NEW k \in Keys, NEW obj \in ObjectsOf(k), Put(k, obj), UNCHANGED cache
    PROVE  StoreType'
<1>1. version[k] + 1 \in Nat BY DEF StoreType
<1>2. CASE ObjectsOf(k) = AppObject
  <2>1. [obj EXCEPT !.rv = version[k] + 1] \in AppObject BY <1>1, <1>2 DEF AppObject
  <2>2. QED BY <1>2, <2>1, PutType
<1>3. CASE ObjectsOf(k) = ServiceObject
  <2>1. [obj EXCEPT !.rv = version[k] + 1] \in ServiceObject BY <1>1, <1>3 DEF ServiceObject
  <2>2. QED BY <1>3, <2>1, PutType
<1>4. CASE ObjectsOf(k) = ConfigObject
  <2>1. [obj EXCEPT !.rv = version[k] + 1] \in ConfigObject BY <1>1, <1>4 DEF ConfigObject
  <2>2. QED BY <1>4, <2>1, PutType
<1>5. QED BY <1>2, <1>3, <1>4 DEF ObjectsOf

LEMMA RemoveType ==
    ASSUME StoreType, NEW k \in Keys, Remove(k), UNCHANGED cache
    PROVE  StoreType'
<1>1. Absent \in Optional(ObjectsOf(k)) BY DEF Optional
<1>2. Append(stream[k], Absent) \in Seq(Optional(ObjectsOf(k))) BY <1>1 DEF StoreType
<1>3. QED BY <1>1, <1>2 DEF StoreType, Remove

LEMMA AdvanceType == ASSUME StoreType, NEW k \in Keys, Advance(k) PROVE StoreType'
<1>1. /\ Head(stream[k]) \in Optional(ObjectsOf(k))
      /\ Tail(stream[k]) \in Seq(Optional(ObjectsOf(k)))
  BY DEF StoreType, Advance
<1>2. QED BY <1>1 DEF StoreType, Advance

LEMMA RelistType == ASSUME StoreType, Relist PROVE StoreType'
<1>1. \A k \in Keys : <<>> \in Seq(Optional(ObjectsOf(k))) OBVIOUS
<1>2. QED BY <1>1 DEF StoreType, Relist

LEMMA StoreStutter ==
    ASSUME StoreType, UNCHANGED <<api, version, stream>>, UNCHANGED cache
    PROVE  StoreType'
BY DEF StoreType

LEMMA DropType ==
    ASSUME StoreType, NEW k, Drop(k), UNCHANGED cache
    PROVE  StoreType'
BY RemoveType, StoreStutter DEF Drop, Seen

LEMMA FaultType ==
    ASSUME faults \in 0..MaxFaults, Fault \/ UNCHANGED faults
    PROVE  faults' \in 0..MaxFaults
BY Bounds DEF Fault

(* A slot gets a request of the right type and shape, or becomes idle.     *)
LEMMA SlotType ==
    ASSUME ReqType, ReqShape, NEW r \in Slots, NEW q,
           req' = [req EXCEPT ![r] = q],
           q = Idle \/ (q \in Requests /\ Shape(q))
    PROVE  ReqType' /\ ReqShape'
BY DEF ReqType, ReqShape

LEMMA Busy ==
    ASSUME TypeInv, NEW r \in Slots, NEW pc \in Stages, At(r, pc)
    PROVE  req[r] \in Requests /\ req[r] # Idle /\ Shape(req[r])
<1>1. req[r] # Idle BY DEF At, Idle, Stages
<1>2. QED BY <1>1 DEF TypeInv, ReqType, ReqShape

(* A handler goes on to where nothing is to be made.                       *)
LEMMA GotoType ==
    ASSUME TypeInv, NEW r \in Slots, req[r] \in Requests,
           NEW pc \in Stages \ {"addService"}, Goto(r, pc),
           pc \in {"dropService", "addConfig"} /\ req[r].op # "delete"
               => req[r].new.ask.conf # {},
           req[r].op = "delete" => pc # "addConfig",
           req[r].op = "create" => pc # "dropConfig"
    PROVE  ReqType' /\ ReqShape'
<1> DEFINE q == [req[r] EXCEPT !.pc = pc]
<1>1. q \in Requests BY DEF Requests
<1>2. Shape(q) BY DEF Shape, Requests
<1>3. req' = [req EXCEPT ![r] = q] BY DEF Goto
<1> HIDE DEF q
<1>4. QED BY <1>1, <1>2, <1>3, SlotType DEF TypeInv

LEMMA InitType == Init => TypeInv
<1> SUFFICES ASSUME Init PROVE TypeInv OBVIOUS
<1>1. StoreType
  <2>1. \A k \in Keys : Absent \in Optional(ObjectsOf(k))
                        /\ <<>> \in Seq(Optional(ObjectsOf(k)))
    BY DEF Optional
  <2>2. QED BY <2>1 DEF Init, StoreType
<1>2. ReqType /\ ReqShape BY DEF Init, ReqType, ReqShape
<1>3. CountType BY Bounds DEF Init, CountType, Names
<1>4. QED BY <1>1, <1>2, <1>3 DEF TypeInv

(* The types hold after a step of the users.                               *)
LEMMA NewAppType ==
    ASSUME NEW ask \in Allowed, NEW svc \in Names, NEW cm \in Names
    PROVE  NewApp(ask, svc, cm) \in AppObject
<1>1. NoSidecar \in Sidecar
  <2>0. NoAsk \in Allowed /\ NoAsk.img = Unset /\ NoAsk.env = Unset BY DEF Allowed, NoAsk
  <2>1. Unset \in {k.img : k \in Allowed} /\ Unset \in {k.env : k \in Allowed}
    BY <2>0
  <2>2. 0 \in Names BY Bounds DEF Names
  <2>3. QED BY <2>1, <2>2 DEF NoSidecar, Sidecar
<1>2. QED BY <1>1 DEF NewApp, AppObject

LEMMA SendType ==
    ASSUME TypeInv, NEW r \in Slots, NEW a \in Apps, NEW op \in {"create", "update", "delete"},
           NEW old \in Optional(AppObject), NEW new \in AppObject, NEW fate \in {"awaited", "dry"},
           NEW action, Send(action, r, Request(a, op, old, new, fate))
    PROVE  TypeInv'
<1> DEFINE q == Request(a, op, old, new, fate)
<1>1. q \in Requests
  <2>1. 0 \in Names BY Bounds DEF Names
  <2>2. QED BY <2>1 DEF Request, Requests, Stages
<1>2. Shape(q) BY DEF Shape, Request
<1>3. req' = [req EXCEPT ![r] = q] /\ UNCHANGED <<kubeVars, services, configs, faults>>
  BY DEF Send
<1>4. sent' \in 0..MaxRequests BY Bounds DEF Send, TypeInv, CountType
<1> HIDE DEF q
<1>5. ReqType' /\ ReqShape' BY <1>1, <1>2, <1>3, SlotType DEF TypeInv
<1>6. StoreType' BY <1>3, StoreStutter DEF TypeInv, kubeVars
<1>7. CountType' BY <1>3, <1>4 DEF TypeInv, CountType
<1>8. QED BY <1>5, <1>6, <1>7 DEF TypeInv

LEMMA StoredApp ==
    ASSUME StoreType, NEW a \in Apps, api[App(a)] # Absent
    PROVE  api[App(a)] \in AppObject
BY KeyKinds DEF StoreType, Optional

LEMMA UsersType == TypeInv /\ Users => TypeInv'
<1> SUFFICES ASSUME TypeInv, NEW r \in Slots, NEW a \in Apps,
                    \/ \E k \in Asks : Create(r, a, k) \/ Update(r, a, k) \/ DryRun(r, a, k)
                    \/ \E b \in Apps, k \in Allowed : Copy(r, a, b, k)
                    \/ Create(r, a, NoAsk)
                    \/ Strip(r, a) \/ Touch(r, a) \/ Delete(r, a)
             PROVE  TypeInv'
  BY DEF Users
<1>1. /\ StoreType /\ 0 \in Names /\ NoAsk \in Allowed /\ Asks \subseteq Allowed
      /\ Absent \in Optional(AppObject)
  BY Bounds DEF TypeInv, Names, Allowed, Optional
<1>2. ASSUME NEW k \in Allowed, Create(r, a, k) PROVE TypeInv'
  <2>1. NewApp(k, 0, 0) \in AppObject BY <1>1, NewAppType
  <2>2. QED BY <1>1, <1>2, <2>1, SendType DEF Create
<1>3. ASSUME NEW k \in Allowed, DryRun(r, a, k) PROVE TypeInv'
  <2>1. NewApp(k, 0, 0) \in AppObject BY <1>1, NewAppType
  <2>2. QED BY <1>1, <1>3, <2>1, SendType DEF DryRun
<1>4. ASSUME NEW b \in Apps, NEW k \in Allowed, Copy(r, a, b, k) PROVE TypeInv'
  <2>1. api[App(b)] \in AppObject BY <1>1, <1>4, StoredApp DEF Copy
  <2>2. NewApp(k, api[App(b)].svc, api[App(b)].cm) \in AppObject
    BY <2>1, NewAppType DEF AppObject
  <2>3. QED BY <1>1, <1>4, <2>2, SendType DEF Copy
<1>5. ASSUME api[App(a)] # Absent
      PROVE  /\ api[App(a)] \in AppObject /\ api[App(a)] \in Optional(AppObject)
             /\ \A k \in Allowed : [api[App(a)] EXCEPT !.ask = k] \in AppObject
             /\ [api[App(a)] EXCEPT !.ask = NoAsk, !.svc = 0, !.cm = 0] \in AppObject
  <2>1. api[App(a)] \in AppObject BY <1>1, <1>5, StoredApp
  <2>2. QED BY <1>1, <2>1 DEF Optional, AppObject
<1>6. ASSUME NEW k \in Asks, Update(r, a, k) PROVE TypeInv'
  BY <1>1, <1>5, <1>6, SendType DEF Update
<1>7. CASE Strip(r, a) BY <1>5, <1>7, SendType DEF Strip
<1>8. CASE Touch(r, a) BY <1>5, <1>8, SendType DEF Touch
<1>9. CASE Delete(r, a) BY <1>5, <1>9, SendType DEF Delete
<1>10. QED BY <1>1, <1>2, <1>3, <1>4, <1>6, <1>7, <1>8, <1>9

(* The types hold after a step of a handler.                               *)
LEMMA JudgeType ==
    ASSUME TypeInv, NEW r \in Slots, At(r, "admit"), req[r].op # "delete",
           NEW cur \in Allowed, Judge(r, cur)
    PROVE  ReqType' /\ ReqShape'
<1> DEFINE q == [req[r] EXCEPT !.changed = Changes(cur, req[r].new.ask)]
<1>0. req[r] \in Requests BY Busy DEF Stages
<1>1. Changes(cur, req[r].new.ask) \in SUBSET Aspects BY DEF Changes
<1>2. /\ q \in Requests /\ q.op # "delete" /\ q.new = req[r].new
      /\ q.new.ask \in Allowed
  BY <1>0, <1>1 DEF Requests, AppObject
<1>3. \/ req' = [req EXCEPT ![r] = [q EXCEPT !.pc = "answer", !.changed = {}]]
      \/ Valid(q.new.ask) /\ req' = [req EXCEPT ![r] = [q EXCEPT !.pc = AfterAdmit(q)]]
      \/ req' = [req EXCEPT ![r] = [q EXCEPT !.pc = "refuse"]]
  BY DEF Judge
<1> HIDE DEF q
<1>4. CASE req' = [req EXCEPT ![r] = [q EXCEPT !.pc = "answer", !.changed = {}]]
  <2>1. [q EXCEPT !.pc = "answer", !.changed = {}] \in Requests
    BY <1>2 DEF Requests, Stages
  <2>2. Shape([q EXCEPT !.pc = "answer", !.changed = {}]) BY <1>2 DEF Shape, Requests
  <2>3. QED BY <1>4, <2>1, <2>2, SlotType DEF TypeInv
<1>5. CASE req' = [req EXCEPT ![r] = [q EXCEPT !.pc = "refuse"]]
  <2>1. [q EXCEPT !.pc = "refuse"] \in Requests BY <1>2 DEF Requests, Stages
  <2>2. Shape([q EXCEPT !.pc = "refuse"]) BY <1>2 DEF Shape, Requests
  <2>3. QED BY <1>5, <2>1, <2>2, SlotType DEF TypeInv
<1>6. CASE /\ Valid(q.new.ask)
           /\ req' = [req EXCEPT ![r] = [q EXCEPT !.pc = AfterAdmit(q)]]
  <2>1. q.new.ask.conf # {} BY <1>6 DEF Valid
  <2>2. /\ AfterAdmit(q) \in {"addService", "dropService", "addConfig", "answer"}
        /\ AfterAdmit(q) = "addService" => q.new.ask.port # Unset
    BY DEF AfterAdmit, AfterService
  <2>3. [q EXCEPT !.pc = AfterAdmit(q)] \in Requests BY <1>2, <2>2 DEF Requests, Stages
  <2>4. Shape([q EXCEPT !.pc = AfterAdmit(q)]) BY <1>2, <2>1, <2>2 DEF Shape, Requests
  <2>5. QED BY <1>6, <2>3, <2>4, SlotType DEF TypeInv
<1>7. QED BY <1>3, <1>4, <1>5, <1>6

LEMMA QuietTypes ==
    ASSUME TypeInv, ReqType', ReqShape', UNCHANGED <<kubeVars, services, configs, sent, faults>>
    PROVE  TypeInv'
BY StoreStutter DEF TypeInv, kubeVars, CountType

LEMMA AdmitType ==
    ASSUME TypeInv, NEW r \in Slots, AdmitCreate(r) \/ AdmitUpdate(r) \/ AdmitDelete(r)
    PROVE  TypeInv'
<1>0. req[r] \in Requests /\ At(r, "admit")
  <2>1. At(r, "admit") BY DEF AdmitCreate, AdmitUpdate, AdmitDelete
  <2>2. QED BY <2>1, Busy DEF Stages
<1>1. CASE AdmitCreate(r)
  <2>1. NoAsk \in Allowed BY DEF Allowed
  <2>2. ReqType' /\ ReqShape' BY <1>0, <1>1, <2>1, JudgeType DEF AdmitCreate
  <2>3. QED BY <1>1, <2>2, QuietTypes DEF AdmitCreate
<1>2. CASE AdmitUpdate(r)
  <2> DEFINE cur == cache[App(req[r].app)]
  <2>1. cur # Absent => cur.ask \in Allowed
    <3>1. req[r].app \in Apps BY <1>0 DEF Requests
    <3>2. cur \in Optional(AppObject)
      BY <3>1, KeyKinds DEF TypeInv, StoreType
    <3>3. QED BY <3>2 DEF Optional, AppObject
  <2>2. CASE cur # Absent
    <3>1. ReqType' /\ ReqShape' BY <1>0, <1>2, <2>1, <2>2, JudgeType DEF AdmitUpdate
    <3>2. QED BY <1>2, <3>1, QuietTypes DEF AdmitUpdate
  <2>3. CASE cur = Absent
    <3>1. Goto(r, "answer") BY <1>2, <2>3 DEF AdmitUpdate
    <3>2. ReqType' /\ ReqShape' BY <1>0, <3>1, GotoType DEF Stages
    <3>3. QED BY <1>2, <3>2, QuietTypes DEF AdmitUpdate
  <2>4. QED BY <2>2, <2>3
<1>3. CASE AdmitDelete(r)
  <2>1. \E pc \in {"dropService", "answer"} : Goto(r, pc) BY <1>3 DEF AdmitDelete
  <2>2. ReqType' /\ ReqShape' BY <1>0, <1>3, <2>1, GotoType DEF Stages, AdmitDelete
  <2>3. QED BY <1>3, <2>2, QuietTypes DEF AdmitDelete
<1>4. QED BY <1>1, <1>2, <1>3

LEMMA AddServiceType ==
    ASSUME TypeInv, NEW r \in Slots, AddService(r)
    PROVE  TypeInv'
<1>1. req[r] \in Requests /\ Shape(req[r]) /\ req[r].pc = "addService"
  BY Busy DEF AddService, Stages, At
<1>2. req[r].new.ask \in Allowed /\ req[r].app \in Apps BY <1>1 DEF Requests, AppObject
<1>3. req[r].new.ask.port # Unset /\ req[r].op # "delete" /\ req[r].new.ask.conf # {}
  BY <1>1 DEF Shape, Requests
<1>4. CASE /\ services < MaxNames /\ services' = services + 1
           /\ Put(Service(services'),
                  [rv |-> 0, app |-> req[r].app, port |-> req[r].new.ask.port])
           /\ req' = [req EXCEPT ![r].svc = services',
                                 ![r].pc = IF req[r].op = "update" THEN "dropService"
                                           ELSE AfterService(req[r])]
           /\ UNCHANGED <<faults, cache, configs, sent>>
  <2>1. services' \in Ids /\ services' \in Names
    BY <1>4, Bounds DEF TypeInv, CountType, Names, Ids
  <2>2. [rv |-> 0, app |-> req[r].app, port |-> req[r].new.ask.port] \in ServiceObject
    BY <1>2, <1>3, AskFields DEF ServiceObject
  <2>3. StoreType' BY <1>4, <2>1, <2>2, KeyKinds, TypedPut DEF TypeInv
  <2> DEFINE pc == IF req[r].op = "update" THEN "dropService" ELSE AfterService(req[r])
             q == [req[r] EXCEPT !.svc = services', !.pc = pc]
  <2>4. pc \in {"dropService", "addConfig", "answer"} BY DEF AfterService
  <2>5. req' = [req EXCEPT ![r] = q] BY <1>4
  <2> HIDE DEF pc
  <2>6. q \in Requests BY <1>1, <2>1, <2>4 DEF Requests, Stages
  <2>7. Shape(q) BY <1>1, <1>3, <2>4 DEF Shape, Requests
  <2> HIDE DEF q
  <2>8. ReqType' /\ ReqShape' BY <2>5, <2>6, <2>7, SlotType DEF TypeInv
  <2>9. QED BY <1>4, <2>1, <2>3, <2>8 DEF TypeInv, CountType
<1>5. CASE /\ Fault \/ UNCHANGED faults
           /\ Goto(r, "refuse")
           /\ UNCHANGED <<api, version, stream, services, cache, configs, sent>>
  <2>1. ReqType' /\ ReqShape' BY <1>1, <1>5, GotoType DEF Stages
  <2>2. StoreType' BY <1>5, StoreStutter DEF TypeInv
  <2>3. CountType' BY <1>5, FaultType DEF TypeInv, CountType
  <2>4. QED BY <2>1, <2>2, <2>3 DEF TypeInv
<1>6. QED BY <1>4, <1>5 DEF AddService, NoService

LEMMA DropFaults ==
    ASSUME CountType, NEW k, Drop(k), UNCHANGED <<services, configs, sent>>
    PROVE  CountType'
BY FaultType DEF CountType, Drop

LEMMA DropServiceType ==
    ASSUME TypeInv, NEW r \in Slots, DropService(r)
    PROVE  TypeInv'
<1>1. req[r] \in Requests /\ Shape(req[r]) /\ req[r].pc = "dropService"
  BY Busy DEF DropService, Stages, At
<1>2. \E k : Drop(k) BY DEF DropService
<1>3. StoreType' /\ CountType'
  BY <1>2, DropType, DropFaults DEF DropService, TypeInv
<1>4. \/ req[r].op = "create" /\ Goto(r, "refuse")
      \/ req[r].op = "update" /\ Goto(r, AfterService(req[r]))
      \/ req[r].op = "delete" /\ Goto(r, "dropConfig")
  BY DEF DropService
<1>5. AfterService(req[r]) \in {"addConfig", "answer"} BY DEF AfterService
<1>6. req[r].op = "update" => req[r].new.ask.conf # {} BY <1>1 DEF Shape
<1>7. ReqType' /\ ReqShape' BY <1>1, <1>4, <1>5, <1>6, GotoType DEF Stages
<1>8. QED BY <1>3, <1>7 DEF TypeInv

LEMMA AddConfigType ==
    ASSUME TypeInv, NEW r \in Slots, AddConfig(r)
    PROVE  TypeInv'
<1>1. req[r] \in Requests /\ Shape(req[r]) /\ req[r].pc = "addConfig"
  BY Busy DEF AddConfig, Stages, At
<1>2. req[r].new.ask \in Allowed /\ req[r].app \in Apps BY <1>1 DEF Requests, AppObject
<1>3. req[r].op # "delete" /\ req[r].new.ask.conf # {}
  BY <1>1 DEF Shape, Requests
<1>4. CASE /\ configs < MaxNames /\ configs' = configs + 1
           /\ Put(Config(configs'),
                  [rv |-> 0, app |-> req[r].app, conf |-> req[r].new.ask.conf])
           /\ req' = [req EXCEPT ![r].cm = configs',
                                 ![r].pc = IF req[r].op = "update" THEN "dropConfig"
                                           ELSE "answer"]
           /\ UNCHANGED <<faults, cache, services, sent>>
  <2>1. configs' \in Ids /\ configs' \in Names
    BY <1>4, Bounds DEF TypeInv, CountType, Names, Ids
  <2>2. [rv |-> 0, app |-> req[r].app, conf |-> req[r].new.ask.conf] \in ConfigObject
    BY <1>2, <1>3, AskFields DEF ConfigObject
  <2>3. StoreType' BY <1>4, <2>1, <2>2, KeyKinds, TypedPut DEF TypeInv
  <2> DEFINE pc == IF req[r].op = "update" THEN "dropConfig" ELSE "answer"
             q == [req[r] EXCEPT !.cm = configs', !.pc = pc]
  <2>4. pc \in {"dropConfig", "answer"} /\ (pc = "dropConfig" => req[r].op # "create")
    OBVIOUS
  <2>5. req' = [req EXCEPT ![r] = q] BY <1>4
  <2> HIDE DEF pc
  <2>6. q \in Requests BY <1>1, <2>1, <2>4 DEF Requests, Stages
  <2>7. Shape(q) BY <1>1, <1>3, <2>4 DEF Shape, Requests
  <2> HIDE DEF q
  <2>8. ReqType' /\ ReqShape' BY <2>5, <2>6, <2>7, SlotType DEF TypeInv
  <2>9. QED BY <1>4, <2>1, <2>3, <2>8 DEF TypeInv, CountType
<1>5. CASE /\ Fault
           /\ Goto(r, IF req[r].op = "create" THEN "dropService" ELSE "refuse")
           /\ UNCHANGED <<api, version, stream, services, cache, configs, sent>>
  <2>1. \E pc \in {"dropService", "refuse"} : Goto(r, pc) BY <1>5
  <2>2. ReqType' /\ ReqShape' BY <1>1, <1>3, <2>1, GotoType DEF Stages
  <2>3. StoreType' BY <1>5, StoreStutter DEF TypeInv
  <2>4. CountType' BY <1>5, FaultType DEF TypeInv, CountType
  <2>5. QED BY <2>2, <2>3, <2>4 DEF TypeInv
<1>6. QED BY <1>4, <1>5 DEF AddConfig

LEMMA DropConfigType ==
    ASSUME TypeInv, NEW r \in Slots, DropConfig(r)
    PROVE  TypeInv'
<1>1. req[r] \in Requests BY Busy DEF DropConfig, Stages
<1>2. \E k : Drop(k) BY DEF DropConfig
<1>3. StoreType' /\ CountType' BY <1>2, DropType, DropFaults DEF DropConfig, TypeInv
<1>4. ReqType' /\ ReqShape' BY <1>1, GotoType DEF DropConfig, Stages
<1>5. QED BY <1>3, <1>4 DEF TypeInv

(* The types hold after a step of the API server.                          *)
LEMMA PatchedType ==
    ASSUME NEW q \in Requests
    PROVE  Patched(q) \in AppObject
<1>1. q.new \in AppObject /\ q.svc \in Names /\ q.cm \in Names BY DEF Requests
<1>2. q.new.ask \in Allowed /\ q.new.side \in Sidecar BY <1>1 DEF AppObject
<1>3. [img |-> q.new.ask.img, env |-> q.new.ask.env,
       vol |-> IF "conf" \in q.changed THEN q.cm ELSE q.new.side.vol] \in Sidecar
  BY <1>1, <1>2 DEF Sidecar
<1>4. QED BY <1>1, <1>2, <1>3 DEF Patched, AppObject

LEMMA StoreTypes ==
    ASSUME TypeInv, NEW r \in Slots, Store(r)
    PROVE  TypeInv'
<1>1. req[r] \in Requests /\ req[r].app \in Apps BY Busy DEF Store, Stages, Requests
<1>2. App(req[r].app) \in Keys /\ Patched(req[r]) \in ObjectsOf(App(req[r].app))
  BY <1>1, KeyKinds, PatchedType
<1>3. UNCHANGED cache BY DEF Store
<1>4. Remove(App(req[r].app)) \/ Put(App(req[r].app), Patched(req[r])) BY DEF Store
<1>5. StoreType' BY <1>2, <1>3, <1>4, TypedPut, RemoveType DEF TypeInv
<1>6. ReqType' /\ ReqShape' BY SlotType DEF Store, TypeInv
<1>7. QED BY <1>5, <1>6 DEF Store, TypeInv, CountType

LEMMA DismissType ==
    ASSUME TypeInv, NEW r \in Slots, Dismiss(r)
    PROVE  TypeInv'
<1>1. ReqType' /\ ReqShape' BY SlotType DEF Dismiss, TypeInv
<1>2. StoreType' BY StoreStutter DEF Dismiss, TypeInv, kubeVars
<1>3. CountType' BY FaultType DEF Dismiss, TypeInv, CountType
<1>4. QED BY <1>1, <1>2, <1>3 DEF TypeInv

LEMMA TimeOutType ==
    ASSUME TypeInv, NEW r \in Slots, TimeOut(r)
    PROVE  TypeInv'
<1> DEFINE q == [req[r] EXCEPT !.fate = "late"]
<1>1. req[r] \in Requests /\ Shape(req[r]) BY DEF TimeOut, TypeInv, ReqType, ReqShape
<1>2. q \in Requests BY <1>1 DEF Requests
<1>3. Shape(q) BY <1>1 DEF Shape, Requests
<1>4. req' = [req EXCEPT ![r] = q] BY DEF TimeOut
<1> HIDE DEF q
<1>5. ReqType' /\ ReqShape' BY <1>2, <1>3, <1>4, SlotType DEF TypeInv
<1>6. StoreType' BY StoreStutter DEF TimeOut, TypeInv, kubeVars
<1>7. CountType' BY FaultType DEF TimeOut, TypeInv, CountType
<1>8. QED BY <1>5, <1>6, <1>7 DEF TypeInv

LEMMA TypeStep == TypeInv /\ [Next]_vars => TypeInv'
<1> SUFFICES ASSUME TypeInv, [Next]_vars PROVE TypeInv' OBVIOUS
<1>1. CASE Users BY <1>1, UsersType
<1>2. ASSUME NEW r \in Slots, Handle(r) PROVE TypeInv'
  BY <1>2, AdmitType, AddServiceType, DropServiceType, AddConfigType, DropConfigType
  DEF Handle
<1>3. ASSUME NEW r \in Slots, Store(r) \/ Dismiss(r) \/ TimeOut(r) PROVE TypeInv'
  BY <1>3, StoreTypes, DismissType, TimeOutType
<1>4. CASE Restart
  <2>1. StoreType' BY <1>4, RelistType DEF Restart, TypeInv
  <2>2. ReqType' /\ ReqShape' BY <1>4 DEF Restart, ReqType, ReqShape
  <2>3. CountType' BY <1>4, FaultType DEF Restart, TypeInv, CountType
  <2>4. QED BY <2>1, <2>2, <2>3 DEF TypeInv
<1>5. ASSUME NEW k \in Keys, Deliver(k) PROVE TypeInv'
  <2>1. StoreType' BY <1>5, AdvanceType DEF Deliver, TypeInv
  <2>2. QED BY <1>5, <2>1 DEF Deliver, TypeInv, ReqType, ReqShape, CountType
<1>6. CASE UNCHANGED vars
  BY <1>6 DEF vars, kubeVars, TypeInv, StoreType, ReqType, ReqShape, CountType
<1>7. QED BY <1>1, <1>2, <1>3, <1>4, <1>5, <1>6 DEF Next

(* Every variable keeps its type, for any numbers of deployments, requests *)
(* and names.                                                              *)
THEOREM TypeCorrect == Spec => []TypeOK
<1>1. Spec => []TypeInv BY InitType, TypeStep, PTL DEF Spec
<1>2. QED BY <1>1, TypesFollow, PTL

-----------------------------------------------------------------------------
(* Names.  The two kinds of generated objects are treated alike: f is "svc" *)
(* or "cm", the field that names an object of the kind.                    *)

Fields     == {"svc", "cm"}
Made(f, i) == IF f = "svc" THEN Service(i) ELSE Config(i)
Given      == [svc |-> services, cm |-> configs]

(* Name i is given out, and its object was made for a.                     *)
OwnIn(objects, given, f, i, a) ==
    i \in 0..given[f] /\ (i # 0 /\ objects[Made(f, i)] # Absent => objects[Made(f, i)].app = a)
OwnOf(f, i, a) == OwnIn(api, Given, f, i, a)

FreshInv == \A f \in Fields, i \in Ids : i > Given[f] => api[Made(f, i)] = Absent
AppInv   == \A f \in Fields, a \in Apps :
                api[App(a)] # Absent => OwnOf(f, api[App(a)][f], a)
ReqInv   == \A f \in Fields, r \in Slots :
                req[r] # Idle =>
                    /\ OwnOf(f, req[r][f], req[r].app)
                    /\ req[r].op # "create" =>
                           /\ OwnOf(f, req[r].new[f], req[r].app)
                           /\ OwnOf(f, req[r].old[f], req[r].app)

(* Nobody else knows the name of what a handler has just made.             *)
Private(f, r) ==
    /\ \A a \in Apps : api[App(a)] # Absent => api[App(a)][f] # req[r][f]
    /\ \A t \in Slots : req[t] # Idle =>
           /\ t # r => req[t][f] # req[r][f]
           /\ req[t].op # "create" => /\ req[t].new[f] # req[r][f]
                                      /\ req[t].old[f] # req[r][f]
PrivInv  == \A f \in Fields, r \in Slots :
                req[r] # Idle /\ req[r][f] # 0 => Private(f, r)

OwnInv == FreshInv /\ AppInv /\ ReqInv /\ PrivInv

LEMMA KeysDiffer ==
    /\ \A f, g \in Fields : \A i, j : Made(f, i) = Made(g, j) => f = g /\ i = j
    /\ \A f \in Fields : \A i, a : Made(f, i) # App(a)
    /\ \A a, b : App(a) = App(b) => a = b
    /\ \A f \in Fields, i \in Ids : Made(f, i) \in Keys
    /\ \A f \in Fields : \A i : Made(f, i) \in Keys => i \in Ids
<1>1. \A f, g \in Fields : \A i, j : Made(f, i) = Made(g, j) => f = g /\ i = j
  BY DEF Made, Fields, Service, Config
<1>2. \A f \in Fields : \A i, a : Made(f, i) # App(a)
  BY DEF Made, Fields, Service, Config, App
<1>3. \A a, b : App(a) = App(b) => a = b BY DEF App
<1>4. \A f \in Fields, i \in Ids : Made(f, i) \in Keys BY KeyKinds DEF Made
<1>5. ASSUME NEW f \in Fields, NEW i, Made(f, i) \in Keys PROVE i \in Ids
  <2>1. Made(f, i) \notin AppKeys BY <1>2 DEF AppKeys
  <2>2. PICK j \in Ids : Made(f, i) \in {Service(j), Config(j)}
    BY <1>5, <2>1, KeysAssumption DEF ServiceKeys, ConfigKeys
  <2>3. QED BY <2>2 DEF Made, Service, Config
<1>6. QED BY <1>1, <1>2, <1>3, <1>4, <1>5

LEMMA Counts ==
    ASSUME TypeInv
    PROVE  \A f \in Fields : Given[f] \in Nat /\ Given[f] <= MaxNames
BY Bounds DEF TypeInv, CountType, Given, Names, Fields

-----------------------------------------------------------------------------
(* Every step is one of five as far as names are concerned.                *)

Same(r) ==
    \/ req'[r] = Idle
    \/ /\ req[r] # Idle /\ req'[r] # Idle
       /\ req'[r].app = req[r].app /\ req'[r].op = req[r].op
       /\ req'[r].old = req[r].old /\ req'[r].new = req[r].new
       /\ \A f \in Fields : req'[r][f] = req[r][f]

Quieten == UNCHANGED <<api, services, configs>> /\ \A r \in Slots : Same(r)

(* The name of what a handler drops.                                       *)
DropName(f, q) == IF q.op = "create" THEN q[f]
                  ELSE IF q.op = "update" THEN q.new[f] ELSE q.old[f]

Dropping(r, f) ==
    /\ req[r] # Idle
    /\ DropName(f, req[r]) \in Ids
    /\ api' = [api EXCEPT ![Made(f, DropName(f, req[r]))] = Absent]
    /\ UNCHANGED <<services, configs>>
    /\ \A t \in Slots : Same(t)

Making(r, f, o) ==
    /\ req[r] # Idle /\ req'[r] # Idle
    /\ Given'[f] = Given[f] + 1 /\ Given[f] + 1 \in Ids
    /\ \A g \in Fields \ {f} : Given'[g] = Given[g]
    /\ api' = [api EXCEPT ![Made(f, Given[f] + 1)] = o]
    /\ o.app = req[r].app
    /\ req'[r].app = req[r].app /\ req'[r].op = req[r].op
    /\ req'[r].old = req[r].old /\ req'[r].new = req[r].new
    /\ req'[r][f] = Given[f] + 1
    /\ \A g \in Fields \ {f} : req'[r][g] = req[r][g]
    /\ \A t \in Slots \ {r} : req'[t] = req[t]

Storing(r, o) ==
    /\ req[r] # Idle /\ req[r].app \in Apps
    /\ api' = [api EXCEPT ![App(req[r].app)] = o]
    /\ o # Absent => \A f \in Fields :
           o[f] = req[r][f] \/ (req[r].op # "create" /\ o[f] = req[r].new[f])
    /\ req'[r] = Idle /\ \A t \in Slots \ {r} : req'[t] = req[t]
    /\ UNCHANGED <<services, configs>>

Sending(r, q) ==
    /\ q.app \in Apps
    /\ req'[r] = q /\ \A t \in Slots \ {r} : req'[t] = req[t]
    /\ \A f \in Fields : q[f] = 0
    /\ q.op # "create" =>
           /\ api[App(q.app)] # Absent /\ q.old = api[App(q.app)]
           /\ \A f \in Fields : q.new[f] \in {0, q.old[f]}
    /\ UNCHANGED <<api, services, configs>>

(* The names stay owned by those they were made for.                       *)
LEMMA QuietenOwn == OwnInv /\ Quieten => OwnInv'
<1> SUFFICES ASSUME OwnInv, Quieten PROVE OwnInv' OBVIOUS
<1>1. /\ api' = api /\ Given' = Given
      /\ \A f, i, a : OwnIn(api', Given', f, i, a) <=> OwnIn(api, Given, f, i, a)
  BY DEF Quieten, Given
<1>2. FreshInv' /\ AppInv' BY <1>1 DEF OwnInv, FreshInv, AppInv, OwnOf
<1>3. ReqInv' BY <1>1 DEF OwnInv, ReqInv, OwnOf, Quieten, Same
<1>4. PrivInv' BY <1>1 DEF OwnInv, PrivInv, Private, Quieten, Same
<1>5. QED BY <1>2, <1>3, <1>4 DEF OwnInv

LEMMA DropOwn ==
    ASSUME TypeInv, OwnInv, NEW r \in Slots, NEW f \in Fields, Dropping(r, f)
    PROVE  OwnInv'
<1> DEFINE k == Made(f, DropName(f, req[r]))
<1>1. k \in Keys /\ k = Made(f, DropName(f, req[r])) BY KeysDiffer DEF Dropping
<1>2. /\ \A j \in Keys : api'[j] = api[j] \/ api'[j] = Absent
      /\ \A a \in Apps : api'[App(a)] = api[App(a)]
  <2>1. DOMAIN api = Keys BY DEF TypeInv, StoreType
  <2>2. \A a \in Apps : App(a) \in Keys BY KeyKinds
  <2>3. \A a \in Apps : App(a) # k BY <1>1, KeysDiffer
  <2>4. QED BY <1>1, <2>1, <2>2, <2>3 DEF Dropping
<1>3. Given' = Given BY DEF Dropping, Given
<1>4. ASSUME NEW g \in Fields, NEW i, NEW a, OwnIn(api, Given, g, i, a)
      PROVE  OwnIn(api', Given', g, i, a)
  <2>1. i \in 0..Given'[g] BY <1>3, <1>4 DEF OwnIn
  <2>2. i # 0 => Made(g, i) \in Keys
    BY <1>4, Counts, KeysDiffer, Bounds DEF OwnIn, Ids
  <2>3. i # 0 /\ api'[Made(g, i)] # Absent => api'[Made(g, i)].app = a
    BY <1>2, <1>4, <2>2 DEF OwnIn
  <2>4. QED BY <2>1, <2>3 DEF OwnIn, Made
<1>5. FreshInv'
  <2>1. ASSUME NEW g \in Fields, NEW i \in Ids, i > Given'[g] PROVE api'[Made(g, i)] = Absent
    BY <1>2, <1>3, <2>1, KeysDiffer DEF OwnInv, FreshInv
  <2>2. QED BY <2>1 DEF FreshInv, Made
<1>6. AppInv'
  BY <1>2, <1>4 DEF OwnInv, AppInv, OwnOf
<1>7. ReqInv' BY <1>4 DEF OwnInv, ReqInv, OwnOf, Dropping, Same
<1>8. PrivInv' BY <1>2 DEF OwnInv, PrivInv, Private, Dropping, Same
<1>9. QED BY <1>5, <1>6, <1>7, <1>8 DEF OwnInv

LEMMA MakeOwn ==
    ASSUME TypeInv, OwnInv, NEW r \in Slots, NEW f \in Fields, NEW o, Making(r, f, o)
    PROVE  OwnInv'
<1> DEFINE n == Given[f] + 1
<1>1. /\ Given'[f] = n /\ n = Given[f] + 1 /\ n \in Ids /\ Made(f, n) \in Keys
      /\ \A g \in Fields : Given[g] \in Nat
      /\ \A g \in Fields \ {f} : Given'[g] = Given[g]
  BY KeysDiffer, Counts DEF Making
<1>2. /\ api'[Made(f, n)] = o /\ o.app = req[r].app
      /\ \A k \in Keys : k # Made(f, n) => api'[k] = api[k]
      /\ \A a \in Apps : api'[App(a)] = api[App(a)]
  <2>1. DOMAIN api = Keys /\ \A a \in Apps : App(a) \in Keys
    BY KeyKinds DEF TypeInv, StoreType
  <2>2. \A a \in Apps : App(a) # Made(f, n) BY KeysDiffer
  <2>3. QED BY <1>1, <2>1, <2>2 DEF Making
<1>3. /\ req[r] # Idle /\ req'[r] # Idle
      /\ req'[r].app = req[r].app /\ req'[r].op = req[r].op
      /\ req'[r].old = req[r].old /\ req'[r].new = req[r].new
      /\ req'[r][f] = n /\ \A g \in Fields \ {f} : req'[r][g] = req[r][g]
      /\ \A t \in Slots \ {r} : req'[t] = req[t]
  BY DEF Making
<1> HIDE DEF n
<1>4. ASSUME NEW g \in Fields, NEW i, NEW a, OwnIn(api, Given, g, i, a)
      PROVE  OwnIn(api', Given', g, i, a) /\ (g = f => i # n)
  <2>1. i \in 0..Given[g] /\ Given[g] \in Nat BY <1>1, <1>4 DEF OwnIn
  <2>2. g = f => i # n BY <1>1, <2>1
  <2>3. i \in 0..Given'[g]
    <3>1. CASE g = f BY <1>1, <2>1, <3>1
    <3>2. CASE g # f BY <1>1, <2>1, <3>2
    <3>3. QED BY <3>1, <3>2
  <2>4. i # 0 => Made(g, i) \in Keys /\ Made(g, i) # Made(f, n)
    <3>1. Made(g, i) = Made(f, n) => g = f /\ i = n BY KeysDiffer
    <3>2. i # 0 => i \in Ids BY <2>1, Counts, Bounds DEF Ids
    <3>3. QED BY <2>2, <3>1, <3>2, KeysDiffer
  <2>5. i # 0 => api'[Made(g, i)] = api[Made(g, i)] BY <1>2, <2>4
  <2>6. QED BY <1>4, <2>2, <2>3, <2>5 DEF OwnIn, Made
<1>5. OwnIn(api', Given', f, n, req[r].app)
  <2>1. n \in 0..Given'[f] BY <1>1 DEF Ids
  <2>2. api'[Made(f, n)].app = req[r].app BY <1>2
  <2>3. QED BY <1>3, <2>1, <2>2 DEF OwnIn, Made
<1>6. FreshInv'
  <2>1. ASSUME NEW g \in Fields, NEW i \in Ids, i > Given'[g] PROVE api'[Made(g, i)] = Absent
    <3>1. i > Given[g] /\ (g = f => i # n)
      <4>1. CASE g = f BY <1>1, <2>1, <4>1 DEF Ids
      <4>2. CASE g # f BY <1>1, <2>1, <4>2
      <4>3. QED BY <4>1, <4>2
    <3>2. Made(g, i) # Made(f, n) /\ Made(g, i) \in Keys BY <3>1, KeysDiffer
    <3>3. QED BY <1>2, <3>1, <3>2 DEF OwnInv, FreshInv
  <2>2. QED BY <2>1 DEF FreshInv, Made
<1>7. AppInv' BY <1>2, <1>4 DEF OwnInv, AppInv, OwnOf
<1>8. ReqInv'
  <2>1. ASSUME NEW g \in Fields, NEW t \in Slots, req'[t] # Idle
        PROVE  /\ OwnIn(api', Given', g, req'[t][g], req'[t].app)
               /\ req'[t].op # "create" =>
                      /\ OwnIn(api', Given', g, req'[t].new[g], req'[t].app)
                      /\ OwnIn(api', Given', g, req'[t].old[g], req'[t].app)
    <3>1. CASE t # r BY <1>3, <1>4, <2>1, <3>1 DEF OwnInv, ReqInv, OwnOf
    <3>2. CASE t = r
      <4>1. /\ OwnIn(api, Given, g, req[r][g], req[r].app)
            /\ req[r].op # "create" => /\ OwnIn(api, Given, g, req[r].new[g], req[r].app)
                                       /\ OwnIn(api, Given, g, req[r].old[g], req[r].app)
        BY <1>3 DEF OwnInv, ReqInv, OwnOf
      <4>2. CASE g = f BY <1>3, <1>4, <1>5, <3>2, <4>1, <4>2
      <4>3. CASE g # f BY <1>3, <1>4, <3>2, <4>1, <4>3
      <4>4. QED BY <4>2, <4>3
    <3>3. QED BY <3>1, <3>2
  <2>2. QED BY <2>1 DEF ReqInv, OwnOf
<1>9. PrivInv'
  <2>1. /\ \A a \in Apps : api[App(a)] # Absent => api[App(a)][f] # n
        /\ \A t \in Slots : req[t] # Idle =>
               /\ req[t][f] # n
               /\ req[t].op # "create" => req[t].new[f] # n /\ req[t].old[f] # n
    BY <1>4 DEF OwnInv, AppInv, ReqInv, OwnOf
  <2>2. ASSUME NEW g \in Fields, NEW t \in Slots, req'[t] # Idle, req'[t][g] # 0
        PROVE  Private(g, t)'
    <3>1. CASE g = f /\ t = r BY <1>2, <1>3, <2>1, <3>1 DEF Private
    <3>2. CASE g = f /\ t # r
      <4>1. Private(g, t) BY <1>3, <2>2, <3>2 DEF OwnInv, PrivInv
      <4>2. QED BY <1>2, <1>3, <2>1, <2>2, <3>2, <4>1 DEF Private
    <3>3. CASE g # f
      <4>1. Private(g, t) BY <1>3, <2>2, <3>3 DEF OwnInv, PrivInv
      <4>2. QED BY <1>2, <1>3, <2>2, <3>3, <4>1 DEF Private
    <3>4. QED BY <3>1, <3>2, <3>3
  <2>3. QED BY <2>2 DEF PrivInv
<1>10. QED BY <1>6, <1>7, <1>8, <1>9 DEF OwnInv

LEMMA StoreOwn ==
    ASSUME TypeInv, OwnInv, NEW r \in Slots, NEW o, Storing(r, o)
    PROVE  OwnInv'
<1> DEFINE a == req[r].app
<1>1. /\ App(a) \in Keys /\ a \in Apps /\ api'[App(a)] = o
      /\ \A k \in Keys : k # App(a) => api'[k] = api[k]
  BY KeyKinds DEF Storing, TypeInv, StoreType
<1>2. \A f \in Fields, i \in Ids : api'[Made(f, i)] = api[Made(f, i)]
  BY <1>1, KeysDiffer
<1>3. Given' = Given BY DEF Storing, Given
<1>4. ASSUME NEW f \in Fields, NEW i, NEW b, OwnIn(api, Given, f, i, b)
      PROVE  OwnIn(api', Given', f, i, b)
  <2>1. i # 0 => i \in Ids BY <1>4, Counts, Bounds DEF OwnIn, Ids
  <2>2. i # 0 => api'[Made(f, i)] = api[Made(f, i)] BY <1>2, <2>1
  <2>3. QED BY <1>3, <1>4, <2>2 DEF OwnIn, Made
<1>5. req[r] # Idle /\ req'[r] = Idle /\ \A t \in Slots \ {r} : req'[t] = req[t]
  BY DEF Storing
<1>6. ASSUME NEW f \in Fields, o # Absent
      PROVE  \/ o[f] = req[r][f]
             \/ req[r].op # "create" /\ o[f] = req[r].new[f]
  BY <1>6 DEF Storing
<1> HIDE DEF a
<1>7. FreshInv' BY <1>2, <1>3 DEF OwnInv, FreshInv, Made
<1>8. AppInv'
  <2>1. ASSUME NEW f \in Fields, NEW b \in Apps, api'[App(b)] # Absent
        PROVE  OwnIn(api', Given', f, api'[App(b)][f], b)
    <3>1. CASE b = a
      <4>1. OwnIn(api, Given, f, req[r][f], a)
            /\ (req[r].op # "create" => OwnIn(api, Given, f, req[r].new[f], a))
        BY <1>5 DEF OwnInv, ReqInv, OwnOf, a
      <4>2. QED BY <1>1, <1>4, <1>6, <2>1, <3>1, <4>1
    <3>2. CASE b # a
      <4>1. App(b) \in Keys /\ App(b) # App(a) BY <3>2, KeyKinds, KeysDiffer
      <4>2. api'[App(b)] = api[App(b)] BY <1>1, <4>1
      <4>3. QED BY <1>4, <2>1, <4>2 DEF OwnInv, AppInv, OwnOf
    <3>3. QED BY <3>1, <3>2
  <2>2. QED BY <2>1 DEF AppInv, OwnOf
<1>9. ReqInv' BY <1>4, <1>5 DEF OwnInv, ReqInv, OwnOf
<1>10. PrivInv'
  <2>1. ASSUME NEW f \in Fields, NEW t \in Slots, req'[t] # Idle, req'[t][f] # 0
        PROVE  Private(f, t)'
    <3>1. t # r /\ req'[t] = req[t] BY <1>5, <2>1
    <3>2. Private(f, t) BY <2>1, <3>1 DEF OwnInv, PrivInv
    <3>3. ASSUME NEW b \in Apps, api'[App(b)] # Absent PROVE api'[App(b)][f] # req[t][f]
      <4>1. CASE b = a
        <5>1. /\ req[r][f] # req[t][f]
              /\ req[r].op # "create" => req[r].new[f] # req[t][f]
          BY <1>5, <3>1, <3>2 DEF Private
        <5>2. QED BY <1>1, <1>6, <3>3, <4>1, <5>1
      <4>2. CASE b # a
        <5>1. App(b) \in Keys /\ App(b) # App(a) BY <4>2, KeyKinds, KeysDiffer
        <5>2. api'[App(b)] = api[App(b)] BY <1>1, <5>1
        <5>3. QED BY <3>2, <3>3, <5>2 DEF Private
      <4>3. QED BY <4>1, <4>2
    <3>4. QED BY <1>5, <3>1, <3>2, <3>3 DEF Private
  <2>2. QED BY <2>1 DEF PrivInv
<1>11. QED BY <1>7, <1>8, <1>9, <1>10 DEF OwnInv

LEMMA SendOwn ==
    ASSUME TypeInv, OwnInv, NEW r \in Slots, NEW q, Sending(r, q)
    PROVE  OwnInv'
<1>1. /\ api' = api /\ Given' = Given
      /\ \A f, i, a : OwnIn(api', Given', f, i, a) <=> OwnIn(api, Given, f, i, a)
  BY DEF Sending, Given
<1>2. FreshInv' /\ AppInv' BY <1>1 DEF OwnInv, FreshInv, AppInv, OwnOf
<1>3. /\ q.app \in Apps /\ req'[r] = q /\ \A t \in Slots \ {r} : req'[t] = req[t]
      /\ \A f \in Fields : q[f] = 0
      /\ q.op # "create" =>
             /\ api[App(q.app)] # Absent /\ q.old = api[App(q.app)]
             /\ \A f \in Fields : q.new[f] \in {0, q.old[f]}
  BY DEF Sending
<1>4. \A f \in Fields, a \in Apps : OwnIn(api, Given, f, 0, a) BY Counts DEF OwnIn
<1>5. \A f \in Fields : q.op # "create" => /\ OwnIn(api, Given, f, q.old[f], q.app)
                                           /\ OwnIn(api, Given, f, q.new[f], q.app)
  BY <1>3, <1>4 DEF OwnInv, AppInv, OwnOf
<1>6. ReqInv'
  <2>1. ASSUME NEW f \in Fields, NEW t \in Slots, req'[t] # Idle
        PROVE  /\ OwnIn(api, Given, f, req'[t][f], req'[t].app)
               /\ req'[t].op # "create" =>
                      /\ OwnIn(api, Given, f, req'[t].new[f], req'[t].app)
                      /\ OwnIn(api, Given, f, req'[t].old[f], req'[t].app)
    <3>1. CASE t = r BY <1>3, <1>4, <1>5, <3>1
    <3>2. CASE t # r BY <1>3, <2>1, <3>2 DEF OwnInv, ReqInv, OwnOf
    <3>3. QED BY <3>1, <3>2
  <2>2. QED BY <1>1, <2>1 DEF ReqInv, OwnOf
<1>7. PrivInv'
  <2>1. ASSUME NEW f \in Fields, NEW t \in Slots, req'[t] # Idle, req'[t][f] # 0
        PROVE  Private(f, t)'
    <3>1. t # r /\ req'[t] = req[t] BY <1>3, <2>1
    <3>2. Private(f, t) BY <2>1, <3>1 DEF OwnInv, PrivInv
    <3>3. q.op # "create" => q.old[f] # req[t][f] /\ q.new[f] # req[t][f]
      BY <1>3, <2>1, <3>1, <3>2 DEF Private
    <3>4. q[f] # req[t][f] BY <1>3, <2>1, <3>1
    <3>5. ASSUME NEW s \in Slots, req'[s] # Idle
          PROVE  /\ s # t => req'[s][f] # req[t][f]
                 /\ req'[s].op # "create" => /\ req'[s].new[f] # req[t][f]
                                             /\ req'[s].old[f] # req[t][f]
      <4>1. CASE s = r BY <1>3, <3>3, <3>4, <4>1
      <4>2. CASE s # r BY <1>3, <3>2, <3>5, <4>2 DEF Private
      <4>3. QED BY <4>1, <4>2
    <3>6. QED BY <1>1, <3>1, <3>2, <3>5 DEF Private
  <2>2. QED BY <2>1 DEF PrivInv
<1>8. QED BY <1>2, <1>6, <1>7 DEF OwnInv

(* The steps of the users, the handlers and the API server are such steps. *)
LEMMA Loaded ==
    ASSUME TypeInv, NEW r \in Slots, req[r] # Idle
    PROVE  /\ req[r] \in Requests /\ DOMAIN req = Slots /\ req[r].app \in Apps
           /\ \A f \in Fields : req[r][f] \in Names
BY DEF TypeInv, ReqType, Requests, Fields

LEMMA EditSame ==
    ASSUME TypeInv, NEW r \in Slots, req[r] # Idle, NEW q, q # Idle,
           q.app = req[r].app, q.op = req[r].op, q.old = req[r].old, q.new = req[r].new,
           \A f \in Fields : q[f] = req[r][f],
           req' = [req EXCEPT ![r] = q]
    PROVE  \A t \in Slots : req[t] # Idle => Same(t)
<1>1. req'[r] = q /\ \A t \in Slots \ {r} : req'[t] = req[t]
  BY DEF TypeInv, ReqType
<1>2. QED BY <1>1 DEF Same

LEMMA IdleSame ==
    ASSUME NEW r \in Slots, req'[r] = Idle \/ req'[r] = req[r]
    PROVE  Same(r)
BY DEF Same

LEMMA GotoSame ==
    ASSUME TypeInv, NEW r \in Slots, req[r] # Idle, NEW pc \in Stages, Goto(r, pc)
    PROVE  \A t \in Slots : Same(t)
<1> DEFINE q == [req[r] EXCEPT !.pc = pc]
<1>1. req[r] \in Requests /\ DOMAIN req = Slots BY Loaded
<1>2. /\ q.pc = pc /\ q.app = req[r].app /\ q.op = req[r].op
      /\ q.old = req[r].old /\ q.new = req[r].new /\ q.svc = req[r].svc /\ q.cm = req[r].cm
  BY <1>1 DEF Requests
<1>3. req'[r] = q /\ \A t \in Slots \ {r} : req'[t] = req[t]
  BY <1>1 DEF Goto
<1>4. q # Idle BY <1>2 DEF Idle, Stages
<1>5. \A f \in Fields : q[f] = req[r][f] BY <1>2 DEF Fields
<1> HIDE DEF q
<1>6. Same(r) BY <1>2, <1>3, <1>4, <1>5 DEF Same
<1>7. \A t \in Slots \ {r} : Same(t) BY <1>3 DEF Same
<1>8. QED BY <1>6, <1>7

LEMMA JudgeSame ==
    ASSUME TypeInv, NEW r \in Slots, req[r] # Idle, NEW cur, Judge(r, cur)
    PROVE  \A t \in Slots : Same(t)
<1> DEFINE q == [req[r] EXCEPT !.changed = Changes(cur, req[r].new.ask)]
<1>1. req[r] \in Requests /\ DOMAIN req = Slots BY Loaded
<1>2. PICK pc \in Stages, ch \in SUBSET Aspects :
          req' = [req EXCEPT ![r] = [req[r] EXCEPT !.changed = ch, !.pc = pc]]
  <2>1. AfterAdmit(q) \in Stages BY DEF AfterAdmit, AfterService, Stages
  <2>2. \/ req' = [req EXCEPT ![r] = [q EXCEPT !.pc = "answer", !.changed = {}]]
        \/ req' = [req EXCEPT ![r] = [q EXCEPT !.pc = AfterAdmit(q)]]
        \/ req' = [req EXCEPT ![r] = [q EXCEPT !.pc = "refuse"]]
    BY DEF Judge
  <2>3. [q EXCEPT !.pc = "answer", !.changed = {}]
            = [req[r] EXCEPT !.changed = {}, !.pc = "answer"]
    BY <1>1 DEF Requests
  <2>4. \A pc : [q EXCEPT !.pc = pc] = [req[r] EXCEPT !.changed = q.changed, !.pc = pc]
    BY <1>1 DEF Requests
  <2>5. /\ "answer" \in Stages /\ "refuse" \in Stages
        /\ {} \in SUBSET Aspects /\ q.changed \in SUBSET Aspects
    BY <1>1 DEF Stages, Requests, Changes
  <2> HIDE DEF q
  <2>6. CASE req' = [req EXCEPT ![r] = [q EXCEPT !.pc = "answer", !.changed = {}]]
    BY <2>3, <2>5, <2>6
  <2>7. CASE req' = [req EXCEPT ![r] = [q EXCEPT !.pc = AfterAdmit(q)]]
    BY <2>1, <2>4, <2>5, <2>7
  <2>8. CASE req' = [req EXCEPT ![r] = [q EXCEPT !.pc = "refuse"]]
    BY <2>4, <2>5, <2>8
  <2>9. QED BY <2>2, <2>6, <2>7, <2>8
<1> DEFINE p == [req[r] EXCEPT !.changed = ch, !.pc = pc]
<1>3. /\ p.pc = pc /\ p.app = req[r].app /\ p.op = req[r].op
      /\ p.old = req[r].old /\ p.new = req[r].new /\ p.svc = req[r].svc /\ p.cm = req[r].cm
  BY <1>1 DEF Requests
<1>4. p # Idle BY <1>3 DEF Idle, Stages
<1>5. \A f \in Fields : p[f] = req[r][f] BY <1>3 DEF Fields
<1>6. req'[r] = p /\ \A t \in Slots \ {r} : req'[t] = req[t] BY <1>1, <1>2
<1> HIDE DEF p
<1>7. Same(r) BY <1>3, <1>4, <1>5, <1>6 DEF Same
<1>8. \A t \in Slots \ {r} : Same(t) BY <1>6 DEF Same
<1>9. QED BY <1>7, <1>8

LEMMA DropView ==
    ASSUME TypeInv, NEW r \in Slots, req[r] # Idle, NEW f \in Fields,
           Drop(Made(f, DropName(f, req[r]))), \A t \in Slots : Same(t),
           UNCHANGED <<services, configs>>
    PROVE  Quieten \/ Dropping(r, f)
<1> DEFINE k == Made(f, DropName(f, req[r]))
<1>1. CASE Seen(k) /\ Remove(k)
  <2>1. DropName(f, req[r]) \in Ids BY <1>1, KeysDiffer DEF Seen
  <2>2. QED BY <1>1, <2>1 DEF Remove, Dropping
<1>2. CASE UNCHANGED api BY <1>2 DEF Quieten
<1>3. QED BY <1>1, <1>2 DEF Drop

LEMMA AddServiceView ==
    ASSUME TypeInv, NEW r \in Slots, AddService(r)
    PROVE  Quieten \/ \E o : Making(r, "svc", o)
<1>1. req[r] \in Requests /\ req[r] # Idle /\ req[r].pc = "addService"
  BY Busy DEF AddService, Stages, At
<1>2. CASE Goto(r, "refuse") /\ UNCHANGED <<api, services, configs>>
  BY <1>1, <1>2, GotoSame DEF Quieten, Stages
<1>3. CASE /\ services < MaxNames /\ services' = services + 1 /\ UNCHANGED configs
           /\ Put(Service(services'),
                  [rv |-> 0, app |-> req[r].app, port |-> req[r].new.ask.port])
           /\ req' = [req EXCEPT ![r].svc = services',
                                 ![r].pc = IF req[r].op = "update" THEN "dropService"
                                           ELSE AfterService(req[r])]
  <2> DEFINE pc == IF req[r].op = "update" THEN "dropService" ELSE AfterService(req[r])
             q == [req[r] EXCEPT !.svc = services + 1, !.pc = pc]
             o == [[rv |-> 0, app |-> req[r].app, port |-> req[r].new.ask.port]
                       EXCEPT !.rv = version[Service(services + 1)] + 1]
  <2>1. pc \in {"dropService", "addConfig", "answer"} BY DEF AfterService
  <2>2. DOMAIN req = Slots BY <1>1, Loaded
  <2>3. req' = [req EXCEPT ![r] = q] BY <1>3
  <2> HIDE DEF pc
  <2>4. /\ q.pc = pc /\ q.app = req[r].app /\ q.op = req[r].op
        /\ q.old = req[r].old /\ q.new = req[r].new /\ q.svc = services + 1
        /\ q.cm = req[r].cm
    BY <1>1 DEF Requests
  <2>5. q # Idle BY <2>1, <2>4 DEF Idle
  <2>6. /\ Given["svc"] = services /\ Given'["svc"] = services + 1 /\ services + 1 \in Ids
        /\ \A g \in Fields \ {"svc"} : Given'[g] = Given[g]
        /\ Made("svc", services + 1) = Service(services + 1)
    BY <1>3, Bounds DEF Given, TypeInv, CountType, Names, Ids, Made, Fields
  <2>7. api' = [api EXCEPT ![Service(services + 1)] = o] BY <1>3 DEF Put
  <2>8. o.app = req[r].app OBVIOUS
  <2>9. req'[r] = q /\ \A t \in Slots \ {r} : req'[t] = req[t] BY <2>2, <2>3
  <2>10. q["svc"] = services + 1 /\ \A g \in Fields \ {"svc"} : q[g] = req[r][g]
    BY <2>4 DEF Fields
  <2> HIDE DEF q, o
  <2>11. Making(r, "svc", o)
    BY <1>1, <2>4, <2>5, <2>6, <2>7, <2>8, <2>9, <2>10 DEF Making
  <2>12. QED BY <2>11
<1>4. QED BY <1>2, <1>3 DEF AddService, NoService

LEMMA AddConfigView ==
    ASSUME TypeInv, NEW r \in Slots, AddConfig(r)
    PROVE  Quieten \/ \E o : Making(r, "cm", o)
<1>1. req[r] \in Requests /\ req[r] # Idle /\ req[r].pc = "addConfig"
  BY Busy DEF AddConfig, Stages, At
<1>2. CASE /\ Goto(r, IF req[r].op = "create" THEN "dropService" ELSE "refuse")
           /\ UNCHANGED <<api, services, configs>>
  BY <1>1, <1>2, GotoSame DEF Quieten, Stages
<1>3. CASE /\ configs < MaxNames /\ configs' = configs + 1 /\ UNCHANGED services
           /\ Put(Config(configs'),
                  [rv |-> 0, app |-> req[r].app, conf |-> req[r].new.ask.conf])
           /\ req' = [req EXCEPT ![r].cm = configs',
                                 ![r].pc = IF req[r].op = "update" THEN "dropConfig"
                                           ELSE "answer"]
  <2> DEFINE pc == IF req[r].op = "update" THEN "dropConfig" ELSE "answer"
             q == [req[r] EXCEPT !.cm = configs + 1, !.pc = pc]
             o == [[rv |-> 0, app |-> req[r].app, conf |-> req[r].new.ask.conf]
                       EXCEPT !.rv = version[Config(configs + 1)] + 1]
  <2>1. pc \in {"dropConfig", "answer"} OBVIOUS
  <2>2. DOMAIN req = Slots BY <1>1, Loaded
  <2>3. req' = [req EXCEPT ![r] = q] BY <1>3
  <2> HIDE DEF pc
  <2>4. /\ q.pc = pc /\ q.app = req[r].app /\ q.op = req[r].op
        /\ q.old = req[r].old /\ q.new = req[r].new /\ q.cm = configs + 1
        /\ q.svc = req[r].svc
    BY <1>1 DEF Requests
  <2>5. q # Idle BY <2>1, <2>4 DEF Idle
  <2>6. /\ Given["cm"] = configs /\ Given'["cm"] = configs + 1 /\ configs + 1 \in Ids
        /\ \A g \in Fields \ {"cm"} : Given'[g] = Given[g]
        /\ Made("cm", configs + 1) = Config(configs + 1)
    BY <1>3, Bounds DEF Given, TypeInv, CountType, Names, Ids, Made, Fields
  <2>7. api' = [api EXCEPT ![Config(configs + 1)] = o] BY <1>3 DEF Put
  <2>8. o.app = req[r].app OBVIOUS
  <2>9. req'[r] = q /\ \A t \in Slots \ {r} : req'[t] = req[t] BY <2>2, <2>3
  <2>10. q["cm"] = configs + 1 /\ \A g \in Fields \ {"cm"} : q[g] = req[r][g]
    BY <2>4 DEF Fields
  <2> HIDE DEF q, o
  <2>11. Making(r, "cm", o)
    BY <1>1, <2>4, <2>5, <2>6, <2>7, <2>8, <2>9, <2>10 DEF Making
  <2>12. QED BY <2>11
<1>4. QED BY <1>2, <1>3 DEF AddConfig

LEMMA DropServiceView ==
    ASSUME TypeInv, NEW r \in Slots, DropService(r)
    PROVE  Quieten \/ Dropping(r, "svc")
<1>1. req[r] \in Requests /\ req[r] # Idle BY Busy DEF DropService, Stages
<1>2. req[r].op \in {"create", "update", "delete"} BY <1>1 DEF Requests
<1>3. \E pc \in Stages : Goto(r, pc) BY DEF DropService, Stages, AfterService
<1>4. \A t \in Slots : Same(t) BY <1>1, <1>3, GotoSame
<1>5. Drop(Made("svc", DropName("svc", req[r]))) /\ UNCHANGED <<services, configs>>
  BY <1>2 DEF DropService, Made, DropName
<1>6. QED BY <1>1, <1>4, <1>5, DropView DEF Fields

LEMMA DropConfigView ==
    ASSUME TypeInv, NEW r \in Slots, DropConfig(r)
    PROVE  Quieten \/ Dropping(r, "cm")
<1>1. req[r] \in Requests /\ req[r] # Idle /\ req[r].op # "create"
  BY Busy DEF DropConfig, Stages, At, Shape
<1>2. \A t \in Slots : Same(t) BY <1>1, GotoSame DEF DropConfig, Stages
<1>3. Drop(Made("cm", DropName("cm", req[r]))) /\ UNCHANGED <<services, configs>>
  BY <1>1 DEF DropConfig, Made, DropName
<1>4. QED BY <1>1, <1>2, <1>3, DropView DEF Fields

LEMMA StoreView ==
    ASSUME TypeInv, NEW r \in Slots, Store(r)
    PROVE  \E o : Storing(r, o)
<1>1. req[r] \in Requests /\ req[r] # Idle BY Busy DEF Store, Stages
<1>2. DOMAIN req = Slots /\ req[r].app \in Apps BY <1>1, Loaded
<1>3. /\ req'[r] = Idle /\ \A t \in Slots \ {r} : req'[t] = req[t]
      /\ UNCHANGED <<services, configs>>
  BY <1>2 DEF Store
<1>4. CASE req[r].op = "delete"
  <2>1. api' = [api EXCEPT ![App(req[r].app)] = Absent] BY <1>4 DEF Store, Remove
  <2>2. Storing(r, Absent) BY <1>1, <1>2, <1>3, <2>1 DEF Storing
  <2>3. QED BY <2>2
<1>5. CASE req[r].op # "delete"
  <2> DEFINE p == Patched(req[r])
             o == [p EXCEPT !.rv = version[App(req[r].app)] + 1]
  <2>1. api' = [api EXCEPT ![App(req[r].app)] = o] BY <1>5 DEF Store, Put
  <2>2. p \in AppObject BY <1>1, PatchedType
  <2>3. /\ p.svc = req[r].svc \/ (req[r].op # "create" /\ p.svc = req[r].new.svc)
        /\ p.cm = req[r].cm \/ (req[r].op # "create" /\ p.cm = req[r].new.cm)
    BY <1>1 DEF Patched, Requests, AppObject
  <2> HIDE DEF p
  <2>4. o.svc = p.svc /\ o.cm = p.cm BY <2>2 DEF AppObject
  <2> HIDE DEF o
  <2>5. \A f \in Fields :
            o[f] = req[r][f] \/ (req[r].op # "create" /\ o[f] = req[r].new[f])
    BY <2>3, <2>4 DEF Fields
  <2>6. Storing(r, o) BY <1>1, <1>2, <1>3, <2>1, <2>5 DEF Storing
  <2>7. QED BY <2>6
<1>6. QED BY <1>4, <1>5

LEMMA UsersView ==
    ASSUME TypeInv, Users
    PROVE  \E r \in Slots : \E q :
               /\ Sending(r, q) /\ q.pc = "admit"
               /\ req[r] = Idle /\ req' = [req EXCEPT ![r] = q]
<1>1. PICK r \in Slots, a \in Apps :
                    \/ \E k \in Asks : Create(r, a, k) \/ Update(r, a, k) \/ DryRun(r, a, k)
                    \/ \E b \in Apps, k \in Allowed : Copy(r, a, b, k)
                    \/ Create(r, a, NoAsk)
                    \/ Strip(r, a) \/ Touch(r, a) \/ Delete(r, a)
  BY DEF Users
<1>2. DOMAIN req = Slots BY DEF TypeInv, ReqType
<1>3. ASSUME NEW action, NEW op, NEW old, NEW new, NEW fate,
             Send(action, r, Request(a, op, old, new, fate)),
             op # "create" => /\ api[App(a)] # Absent /\ old = api[App(a)]
                              /\ \A f \in Fields : new[f] \in {0, old[f]}
      PROVE  \E q : /\ Sending(r, q) /\ q.pc = "admit"
                    /\ req[r] = Idle /\ req' = [req EXCEPT ![r] = q]
  <2> DEFINE q == Request(a, op, old, new, fate)
  <2>1. /\ q.pc = "admit" /\ q.app = a /\ q.op = op /\ q.old = old /\ q.new = new
        /\ q.svc = 0 /\ q.cm = 0
    BY DEF Request
  <2>2. /\ req' = [req EXCEPT ![r] = q] /\ req[r] = Idle
        /\ UNCHANGED <<api, services, configs>>
    BY <1>3 DEF Send, kubeVars
  <2>3. \A f \in Fields : q[f] = 0 BY <2>1 DEF Fields
  <2> HIDE DEF q
  <2>4. Sending(r, q) BY <1>1, <1>2, <1>3, <2>1, <2>2, <2>3 DEF Sending
  <2>5. QED BY <2>1, <2>2, <2>4
<1>4. ASSUME NEW k, Create(r, a, k) \/ DryRun(r, a, k) \/ (\E b \in Apps : Copy(r, a, b, k))
      PROVE  \E q : /\ Sending(r, q) /\ q.pc = "admit"
                    /\ req[r] = Idle /\ req' = [req EXCEPT ![r] = q]
  BY <1>3, <1>4 DEF Create, DryRun, Copy
<1>5. api[App(a)] # Absent =>
          /\ \A f \in Fields : api[App(a)][f] \in {0, api[App(a)][f]}
          /\ \A k : \A f \in Fields :
                 [api[App(a)] EXCEPT !.ask = k][f] \in {0, api[App(a)][f]}
          /\ \A f \in Fields : [api[App(a)] EXCEPT !.ask = NoAsk, !.svc = 0, !.cm = 0][f]
                                   \in {0, api[App(a)][f]}
  <2>1. api[App(a)] # Absent => api[App(a)] \in AppObject BY StoredApp DEF TypeInv
  <2>2. QED BY <2>1 DEF AppObject, Fields
<1>6. ASSUME \/ \E k \in Asks : Update(r, a, k)
             \/ Strip(r, a) \/ Touch(r, a) \/ Delete(r, a)
      PROVE  \E q : /\ Sending(r, q) /\ q.pc = "admit"
                    /\ req[r] = Idle /\ req' = [req EXCEPT ![r] = q]
  BY <1>3, <1>5, <1>6 DEF Update, Strip, Touch, Delete
<1>7. QED BY <1>1, <1>4, <1>6

LEMMA OwnInit == Init => OwnInv
<1> SUFFICES ASSUME Init PROVE OwnInv OBVIOUS
<1>1. /\ \A k \in Keys : api[k] = Absent
      /\ \A r \in Slots : req[r] = Idle
      /\ DOMAIN api = Keys
  BY DEF Init
<1>2. QED
  BY <1>1, KeyKinds, KeysDiffer DEF OwnInv, FreshInv, AppInv, ReqInv, PrivInv

(* What a step may do to objects and names.                                *)
LEMMA Views ==
    ASSUME TypeInv, [Next]_vars
    PROVE  \/ Quieten
           \/ \E r \in Slots :
                  \/ \E q : Sending(r, q) /\ req[r] = Idle /\ q # Idle
                  \/ \E f \in Fields : Dropping(r, f)
                  \/ AddService(r) \/ AddConfig(r) \/ Store(r)
<1>1. CASE Users
  <2>1. \A q : q.pc = "admit" => q # Idle BY DEF Idle
  <2>2. QED BY <1>1, <2>1, UsersView
<1>2. ASSUME NEW r \in Slots, Handle(r)
      PROVE  \/ Quieten \/ AddService(r) \/ AddConfig(r)
             \/ \E f \in Fields : Dropping(r, f)
  <2>1. CASE AdmitCreate(r) \/ AdmitUpdate(r) \/ AdmitDelete(r)
    <3>1. req[r] # Idle
      BY <2>1, Busy DEF AdmitCreate, AdmitUpdate, AdmitDelete, Stages
    <3>2. \/ \E cur : Judge(r, cur)
          \/ \E pc \in Stages : Goto(r, pc)
      BY <2>1 DEF AdmitCreate, AdmitUpdate, AdmitDelete, Stages
    <3>3. \A t \in Slots : Same(t) BY <3>1, <3>2, JudgeSame, GotoSame
    <3>4. UNCHANGED <<api, services, configs>>
      BY <2>1 DEF AdmitCreate, AdmitUpdate, AdmitDelete, kubeVars
    <3>5. QED BY <3>3, <3>4 DEF Quieten
  <2>2. CASE DropService(r) BY <2>2, DropServiceView DEF Fields
  <2>3. CASE DropConfig(r) BY <2>3, DropConfigView DEF Fields
  <2>4. QED BY <1>2, <2>1, <2>2, <2>3 DEF Handle
<1>3. ASSUME NEW r \in Slots, Dismiss(r) PROVE Quieten
  <2>1. \A t \in Slots : Same(t)
    BY <1>3, IdleSame DEF Dismiss, TypeInv, ReqType
  <2>2. QED BY <1>3, <2>1 DEF Dismiss, Quieten, kubeVars
<1>4. ASSUME NEW r \in Slots, TimeOut(r) PROVE Quieten
  <2>1. \A t \in Slots : Same(t)
    <3> DEFINE q == [req[r] EXCEPT !.fate = "late"]
    <3>1. req[r] # Idle /\ req[r] \in Requests /\ DOMAIN req = Slots
      BY <1>4, Loaded DEF TimeOut
    <3>2. /\ q.pc = req[r].pc /\ q.app = req[r].app /\ q.op = req[r].op
          /\ q.old = req[r].old /\ q.new = req[r].new /\ q.svc = req[r].svc
          /\ q.cm = req[r].cm /\ q.pc \in Stages
      BY <3>1 DEF Requests
    <3>3. q # Idle BY <3>2 DEF Idle, Stages
    <3>4. req'[r] = q /\ \A t \in Slots \ {r} : req'[t] = req[t]
      BY <1>4, <3>1 DEF TimeOut
    <3>5. \A f \in Fields : q[f] = req[r][f] BY <3>2 DEF Fields
    <3> HIDE DEF q
    <3>6. QED BY <3>1, <3>2, <3>3, <3>4, <3>5 DEF Same
  <2>2. QED BY <1>4, <2>1 DEF TimeOut, Quieten, kubeVars
<1>5. CASE Restart
  <2>1. \A t \in Slots : Same(t) BY <1>5 DEF Restart, Same
  <2>2. QED BY <1>5, <2>1 DEF Restart, Relist, Quieten
<1>6. CASE (\E k \in Keys : Deliver(k)) \/ UNCHANGED vars
  <2>1. \A t \in Slots : Same(t)
    BY <1>6, IdleSame DEF Deliver, vars
  <2>2. QED BY <1>6, <2>1 DEF Deliver, Advance, vars, kubeVars, Quieten
<1>7. QED BY <1>1, <1>2, <1>3, <1>4, <1>5, <1>6 DEF Next

LEMMA OwnStep == TypeInv /\ OwnInv /\ [Next]_vars => OwnInv'
<1> SUFFICES ASSUME TypeInv, OwnInv, [Next]_vars PROVE OwnInv' OBVIOUS
<1>1. CASE Quieten BY <1>1, QuietenOwn
<1>2. ASSUME NEW r \in Slots, NEW q, Sending(r, q) PROVE OwnInv'
  BY <1>2, SendOwn
<1>3. ASSUME NEW r \in Slots, NEW f \in Fields, Dropping(r, f) PROVE OwnInv'
  BY <1>3, DropOwn
<1>4. ASSUME NEW r \in Slots, AddService(r) PROVE OwnInv'
  BY <1>4, AddServiceView, QuietenOwn, MakeOwn DEF Fields
<1>5. ASSUME NEW r \in Slots, AddConfig(r) PROVE OwnInv'
  BY <1>5, AddConfigView, QuietenOwn, MakeOwn DEF Fields
<1>6. ASSUME NEW r \in Slots, Store(r) PROVE OwnInv'
  BY <1>6, StoreView, StoreOwn
<1>7. QED BY <1>1, <1>2, <1>3, <1>4, <1>5, <1>6, Views

(* A deployment names only objects that were made for it, though it may be *)
(* made from a copy of another, and whatever requests are handled at once, *)
(* fail, come too late or die with the operator.                           *)
THEOREM NamesAlwaysOwn == Spec => []NamesOwn
<1>1. Spec => [](TypeInv /\ OwnInv)
  BY InitType, OwnInit, TypeStep, OwnStep, PTL DEF Spec
<1>2. TypeInv /\ OwnInv => NamesOwn
  <2> SUFFICES ASSUME TypeInv, OwnInv, NEW a \in Apps, api[App(a)] # Absent
               PROVE  LET o == api[App(a)]
                      IN  /\ o.svc # 0 /\ api[Service(o.svc)] # Absent
                                 => api[Service(o.svc)].app = a
                          /\ o.cm # 0 /\ api[Config(o.cm)] # Absent
                                 => api[Config(o.cm)].app = a
    BY DEF NamesOwn
  <2>1. /\ OwnOf("svc", api[App(a)].svc, a) /\ OwnOf("cm", api[App(a)].cm, a)
    BY DEF OwnInv, AppInv, Fields
  <2>2. QED BY <2>1 DEF OwnOf, OwnIn, Made
<1>3. QED BY <1>1, <1>2, PTL

-----------------------------------------------------------------------------
(* What createObjects has made for a deployment that is being created is   *)
(* there when the answer is given: nobody else knows its name.             *)

ServiceThere(objects, q) ==
    IF q.new.ask.port = Unset THEN q.svc = 0
    ELSE /\ q.svc # 0 /\ objects[Service(q.svc)] # Absent
         /\ objects[Service(q.svc)].port = q.new.ask.port
ConfigThere(objects, q) ==
    /\ q.cm # 0 /\ objects[Config(q.cm)] # Absent
    /\ objects[Config(q.cm)].conf = q.new.ask.conf
Checked(q) == Valid(q.new.ask) /\ q.changed = Changes(NoAsk, q.new.ask)

Progress(objects, q) ==
    q.op = "create" =>
        /\ q.pc = "admit" => q.svc = 0 /\ q.cm = 0
        /\ q.pc = "addService" => Checked(q) /\ q.new.ask.port # Unset
        /\ q.pc = "addConfig" => Checked(q) /\ ServiceThere(objects, q)
        /\ q.pc = "answer" =>
               \/ ~HasKeys(q.new) /\ q.svc = 0 /\ q.cm = 0
               \/ Checked(q) /\ ServiceThere(objects, q) /\ ConfigThere(objects, q)
ProgressInv == \A r \in Slots : req[r] # Idle => Progress(api, req[r])

CreateInv == TypeInv /\ OwnInv /\ ProgressInv

(* What r has made stays.                                                  *)
Kept(r) == \A f \in Fields : req[r][f] # 0 =>
               api'[Made(f, req[r][f])] = api[Made(f, req[r][f])]

LEMMA OthersKept ==
    ASSUME TypeInv, OwnInv, NEW r \in Slots, NEW t \in Slots, t # r, req[t] # Idle,
           \/ UNCHANGED api
           \/ \E f \in Fields : Dropping(r, f) \/ \E o : Making(r, f, o)
           \/ \E o : Storing(r, o)
    PROVE  Kept(t)
<1> SUFFICES ASSUME NEW g \in Fields, req[t][g] # 0
             PROVE  api'[Made(g, req[t][g])] = api[Made(g, req[t][g])]
  BY DEF Kept
<1>1. OwnIn(api, Given, g, req[t][g], req[t].app) BY DEF OwnInv, ReqInv, OwnOf
<1>2. req[t][g] \in 0..Given[g] /\ req[t][g] \in Ids
  BY <1>1, Counts, Bounds DEF OwnIn, Ids
<1>3. Made(g, req[t][g]) \in Keys /\ DOMAIN api = Keys
  BY <1>2, KeysDiffer DEF TypeInv, StoreType
<1>4. CASE UNCHANGED api BY <1>4
<1>5. ASSUME NEW f \in Fields, Dropping(r, f)
      PROVE  api'[Made(g, req[t][g])] = api[Made(g, req[t][g])]
  <2>1. Private(g, t) BY DEF OwnInv, PrivInv
  <2>2. g = f => DropName(f, req[r]) # req[t][g]
    BY <1>5, <2>1 DEF Private, DropName, Dropping
  <2>3. Made(g, req[t][g]) # Made(f, DropName(f, req[r])) BY <2>2, KeysDiffer
  <2>4. QED BY <1>3, <1>5, <2>3 DEF Dropping
<1>6. ASSUME NEW f \in Fields, NEW o, Making(r, f, o)
      PROVE  api'[Made(g, req[t][g])] = api[Made(g, req[t][g])]
  <2>1. g = f => Given[f] + 1 # req[t][g] BY <1>2, Counts
  <2>2. Made(g, req[t][g]) # Made(f, Given[f] + 1) BY <2>1, KeysDiffer
  <2>3. QED BY <1>3, <1>6, <2>2 DEF Making
<1>7. ASSUME NEW o, Storing(r, o)
      PROVE  api'[Made(g, req[t][g])] = api[Made(g, req[t][g])]
  <2>1. Made(g, req[t][g]) # App(req[r].app) BY KeysDiffer
  <2>2. QED BY <1>3, <1>7, <2>1 DEF Storing
<1>8. QED BY <1>4, <1>5, <1>6, <1>7

LEMMA KeptThere ==
    ASSUME NEW r \in Slots, Kept(r)
    PROVE  /\ ServiceThere(api, req[r]) => ServiceThere(api', req[r])
           /\ ConfigThere(api, req[r]) => ConfigThere(api', req[r])
<1>1. /\ req[r].svc # 0 => api'[Service(req[r].svc)] = api[Service(req[r].svc)]
      /\ req[r].cm # 0 => api'[Config(req[r].cm)] = api[Config(req[r].cm)]
  BY DEF Kept, Fields, Made
<1>2. QED BY <1>1 DEF ServiceThere, ConfigThere

LEMMA KeptProgress ==
    ASSUME NEW r \in Slots, Kept(r), Progress(api, req[r])
    PROVE  Progress(api', req[r])
BY KeptThere DEF Progress

(* A step of the handler of r is good for all when it is good for r.       *)
LEMMA StepProgress ==
    ASSUME CreateInv, NEW r \in Slots,
           \A t \in Slots \ {r} : req'[t] = req[t],
           \/ UNCHANGED api
           \/ \E f \in Fields : Dropping(r, f) \/ \E o : Making(r, f, o)
           \/ \E o : Storing(r, o),
           req'[r] # Idle => Progress(api', req'[r])
    PROVE  ProgressInv'
<1>1. ASSUME NEW t \in Slots, t # r, req'[t] # Idle PROVE Progress(api', req'[t])
  <2>1. req[t] # Idle /\ req'[t] = req[t] BY <1>1
  <2>2. Kept(t) BY <1>1, <2>1, OthersKept DEF CreateInv
  <2>3. QED BY <2>1, <2>2, KeptProgress DEF CreateInv, ProgressInv
<1>2. QED BY <1>1 DEF ProgressInv

LEMMA GotoEffect ==
    ASSUME TypeInv, NEW r \in Slots, req[r] # Idle, NEW pc, Goto(r, pc)
    PROVE  /\ req'[r].pc = pc /\ req'[r].op = req[r].op /\ req'[r].new = req[r].new
           /\ req'[r].svc = req[r].svc /\ req'[r].cm = req[r].cm
           /\ req'[r].changed = req[r].changed
           /\ \A t \in Slots \ {r} : req'[t] = req[t]
<1>1. req[r] \in Requests /\ DOMAIN req = Slots BY Loaded
<1>2. QED BY <1>1 DEF Goto, Requests

(* What createObjects does next.                                           *)
LEMMA NextOf ==
    ASSUME NEW q, q.new.ask \in Allowed, Checked(q)
    PROVE  /\ AfterService(q) = "addConfig"
           /\ q.new.ask.port # Unset => AfterAdmit(q) = "addService"
           /\ q.new.ask.port = Unset => AfterAdmit(q) = "addConfig"
           /\ {"img", "env"} \cap q.changed # {} /\ "conf" \in q.changed
<1>1. q.new.ask.conf # {} /\ q.new.ask.img # Unset BY DEF Checked, Valid
<1>2. /\ "conf" \in q.changed /\ "img" \in q.changed
      /\ "port" \in q.changed <=> q.new.ask.port # Unset
  BY <1>1, AskFields DEF Checked, Changes, Aspects
<1>3. QED BY <1>2 DEF AfterService, AfterAdmit

LEMMA AdmitProgress ==
    ASSUME CreateInv, NEW r \in Slots, AdmitCreate(r) \/ AdmitUpdate(r) \/ AdmitDelete(r)
    PROVE  ProgressInv'
<1>1. req[r] \in Requests /\ req[r] # Idle /\ req[r].pc = "admit"
  BY Busy DEF CreateInv, AdmitCreate, AdmitUpdate, AdmitDelete, Stages, At
<1>2. UNCHANGED api BY DEF AdmitCreate, AdmitUpdate, AdmitDelete, kubeVars
<1>3. DOMAIN req = Slots BY <1>1, Loaded DEF CreateInv
<1>4. \A t \in Slots \ {r} : req'[t] = req[t]
  BY <1>3 DEF AdmitCreate, AdmitUpdate, AdmitDelete, Judge, Goto
<1>5. CASE AdmitCreate(r)
  <2> DEFINE q == [req[r] EXCEPT !.changed = Changes(NoAsk, req[r].new.ask)]
  <2>1. Progress(api, req[r]) /\ req[r].op = "create"
    BY <1>1, <1>5 DEF CreateInv, ProgressInv, AdmitCreate
  <2>2. /\ q.new = req[r].new /\ q.op = "create" /\ q.svc = 0 /\ q.cm = 0
        /\ q.changed = Changes(NoAsk, q.new.ask) /\ q.new.ask \in Allowed
    BY <1>1, <2>1 DEF Progress, Requests, AppObject
  <2>3. \/ ~HasKeys(q.new) /\ req'[r] = [q EXCEPT !.pc = "answer", !.changed = {}]
        \/ Valid(q.new.ask) /\ req'[r] = [q EXCEPT !.pc = AfterAdmit(q)]
        \/ req'[r] = [q EXCEPT !.pc = "refuse"]
    BY <1>3, <1>5 DEF AdmitCreate, Judge
  <2>4. DOMAIN q = DOMAIN req[r] /\ DOMAIN req[r] =
            {"pc", "app", "op", "old", "new", "fate", "changed", "svc", "cm"}
    BY <1>1 DEF Requests
  <2> HIDE DEF q
  <2>5. CASE ~HasKeys(q.new) /\ req'[r] = [q EXCEPT !.pc = "answer", !.changed = {}]
    <3>1. /\ req'[r].pc = "answer" /\ req'[r].new = q.new
          /\ req'[r].svc = q.svc /\ req'[r].cm = q.cm
      BY <2>4, <2>5
    <3>2. Progress(api', req'[r]) BY <2>2, <2>5, <3>1 DEF Progress
    <3>3. QED BY <1>2, <1>4, <3>2, StepProgress
  <2>6. CASE Valid(q.new.ask) /\ req'[r] = [q EXCEPT !.pc = AfterAdmit(q)]
    <3>1. /\ req'[r].pc = AfterAdmit(q) /\ req'[r].new = q.new
          /\ req'[r].svc = q.svc /\ req'[r].cm = q.cm /\ req'[r].changed = q.changed
      BY <2>4, <2>6
    <3>2. Checked(q) BY <2>2, <2>6 DEF Checked
    <3>3. Checked(req'[r]) BY <3>1, <3>2 DEF Checked
    <3>4. CASE q.new.ask.port # Unset
      <4>1. req'[r].pc = "addService" BY <2>2, <3>1, <3>2, <3>4, NextOf
      <4>2. Progress(api', req'[r]) BY <3>1, <3>3, <3>4, <4>1 DEF Progress
      <4>3. QED BY <1>2, <1>4, <4>2, StepProgress
    <3>5. CASE q.new.ask.port = Unset
      <4>1. req'[r].pc = "addConfig" BY <2>2, <3>1, <3>2, <3>5, NextOf
      <4>2. ServiceThere(api', req'[r]) BY <2>2, <3>1, <3>5 DEF ServiceThere
      <4>3. Progress(api', req'[r]) BY <3>3, <4>1, <4>2 DEF Progress
      <4>4. QED BY <1>2, <1>4, <4>3, StepProgress
    <3>6. QED BY <3>4, <3>5
  <2>7. CASE req'[r] = [q EXCEPT !.pc = "refuse"]
    <3>1. req'[r].pc = "refuse" BY <2>4, <2>7
    <3>2. Progress(api', req'[r]) BY <3>1 DEF Progress
    <3>3. QED BY <1>2, <1>4, <3>2, StepProgress
  <2>8. QED BY <2>3, <2>5, <2>6, <2>7
<1>6. CASE AdmitUpdate(r) \/ AdmitDelete(r)
  <2>1. req[r].op # "create" BY <1>6 DEF AdmitUpdate, AdmitDelete
  <2>2. \/ \E cur : Judge(r, cur)
        \/ \E pc \in Stages : Goto(r, pc)
    BY <1>6 DEF AdmitUpdate, AdmitDelete, Stages
  <2>3. \A t \in Slots : Same(t) BY <1>1, <2>2, JudgeSame, GotoSame DEF CreateInv
  <2>4. req'[r] # Idle => Progress(api', req'[r])
    BY <2>1, <2>3 DEF Same, Progress
  <2>5. QED BY <1>2, <1>4, <2>4, StepProgress
<1>7. QED BY <1>5, <1>6

LEMMA AddServiceProgress ==
    ASSUME CreateInv, NEW r \in Slots, AddService(r)
    PROVE  ProgressInv'
<1>1. req[r] \in Requests /\ req[r] # Idle /\ req[r].pc = "addService"
  BY Busy DEF CreateInv, AddService, Stages, At
<1>2. DOMAIN req = Slots BY <1>1, Loaded DEF CreateInv
<1>3. Progress(api, req[r]) BY <1>1 DEF CreateInv, ProgressInv
<1>4. UNCHANGED api \/ \E o : Making(r, "svc", o)
  BY AddServiceView DEF CreateInv, Quieten
<1>5. CASE Goto(r, "refuse")
  <2>1. req'[r].pc = "refuse" /\ \A t \in Slots \ {r} : req'[t] = req[t]
    BY <1>1, <1>5, GotoEffect DEF CreateInv
  <2>2. Progress(api', req'[r]) BY <2>1 DEF Progress
  <2>3. QED BY <1>4, <2>1, <2>2, StepProgress DEF Fields
<1>6. CASE /\ services < MaxNames /\ services' = services + 1
           /\ Put(Service(services'),
                  [rv |-> 0, app |-> req[r].app, port |-> req[r].new.ask.port])
           /\ req' = [req EXCEPT ![r].svc = services',
                                 ![r].pc = IF req[r].op = "update" THEN "dropService"
                                           ELSE AfterService(req[r])]
  <2>1. services \in Nat /\ services + 1 \in Ids
    BY <1>6, Bounds DEF CreateInv, TypeInv, CountType, Names, Ids
  <2>2. Service(services + 1) \in Keys /\ DOMAIN api = Keys
    BY <2>1, KeyKinds DEF CreateInv, TypeInv, StoreType
  <2>3. api'[Service(services + 1)].port = req[r].new.ask.port
    BY <1>6, <2>2 DEF Put
  <2>4. /\ req'[r].svc = services + 1 /\ req'[r].new = req[r].new
        /\ req'[r].op = req[r].op /\ req'[r].changed = req[r].changed
        /\ req'[r].pc = IF req[r].op = "update" THEN "dropService" ELSE AfterService(req[r])
        /\ \A t \in Slots \ {r} : req'[t] = req[t]
    BY <1>1, <1>2, <1>6 DEF Requests
  <2>5. api'[Service(services + 1)] # Absent
    <3>2. \A o : o = [[rv |-> 0, app |-> req[r].app, port |-> req[r].new.ask.port]
                          EXCEPT !.rv = version[Service(services + 1)] + 1]
                 => o \in ServiceObject
      <4>1. version[Service(services + 1)] + 1 \in Nat
        BY <2>2 DEF CreateInv, TypeInv, StoreType
      <4>2. req[r].new.ask.port \in AskedPorts
        <5>1. req[r].new.ask \in Allowed BY <1>1 DEF Requests, AppObject
        <5>2. req[r].new.ask.port # Unset BY Busy DEF CreateInv, AddService, Stages, At, Shape
        <5>3. QED BY <5>1, <5>2, AskFields
      <4>3. QED BY <1>1, <4>1, <4>2 DEF ServiceObject, Requests
    <3>3. QED BY <1>6, <2>2, <3>2, AbsentAssumption DEF Put
  <2>6. req[r].op = "create" => Progress(api', req'[r])
    <3>1. SUFFICES ASSUME req[r].op = "create" PROVE Progress(api', req'[r]) OBVIOUS
    <3>2. Checked(req[r]) /\ req[r].new.ask.port # Unset /\ req[r].new.ask \in Allowed
      BY <1>1, <1>3, <3>1 DEF Progress, Requests, AppObject
    <3>3. req'[r].pc = "addConfig" BY <2>4, <3>1, <3>2, NextOf
    <3>4. Checked(req'[r]) BY <2>4, <3>2 DEF Checked
    <3>5. ServiceThere(api', req'[r]) BY <2>1, <2>3, <2>4, <2>5, <3>2 DEF ServiceThere
    <3>6. QED BY <3>3, <3>4, <3>5 DEF Progress
  <2>7. req[r].op # "create" => Progress(api', req'[r]) BY <2>4 DEF Progress
  <2>8. QED BY <1>4, <2>4, <2>6, <2>7, StepProgress DEF Fields
<1>7. QED BY <1>5, <1>6 DEF AddService, NoService

LEMMA AddConfigProgress ==
    ASSUME CreateInv, NEW r \in Slots, AddConfig(r)
    PROVE  ProgressInv'
<1>1. req[r] \in Requests /\ req[r] # Idle /\ req[r].pc = "addConfig"
  BY Busy DEF CreateInv, AddConfig, Stages, At
<1>2. DOMAIN req = Slots BY <1>1, Loaded DEF CreateInv
<1>3. Progress(api, req[r]) BY <1>1 DEF CreateInv, ProgressInv
<1>4. UNCHANGED api \/ \E o : Making(r, "cm", o)
  BY AddConfigView DEF CreateInv, Quieten
<1>5. CASE Goto(r, IF req[r].op = "create" THEN "dropService" ELSE "refuse")
  <2>1. /\ req'[r].pc \in {"dropService", "refuse"}
        /\ \A t \in Slots \ {r} : req'[t] = req[t]
    BY <1>1, <1>5, GotoEffect DEF CreateInv
  <2>2. Progress(api', req'[r]) BY <2>1 DEF Progress
  <2>3. QED BY <1>4, <2>1, <2>2, StepProgress DEF Fields
<1>6. CASE /\ configs < MaxNames /\ configs' = configs + 1
           /\ Put(Config(configs'),
                  [rv |-> 0, app |-> req[r].app, conf |-> req[r].new.ask.conf])
           /\ req' = [req EXCEPT ![r].cm = configs',
                                 ![r].pc = IF req[r].op = "update" THEN "dropConfig"
                                           ELSE "answer"]
  <2>1. configs \in Nat /\ configs + 1 \in Ids
    BY <1>6, Bounds DEF CreateInv, TypeInv, CountType, Names, Ids
  <2>2. Config(configs + 1) \in Keys /\ DOMAIN api = Keys
    BY <2>1, KeyKinds DEF CreateInv, TypeInv, StoreType
  <2>3. api'[Config(configs + 1)].conf = req[r].new.ask.conf
    BY <1>6, <2>2 DEF Put
  <2>4. /\ req'[r].cm = configs + 1 /\ req'[r].new = req[r].new
        /\ req'[r].op = req[r].op /\ req'[r].changed = req[r].changed
        /\ req'[r].svc = req[r].svc
        /\ req'[r].pc = IF req[r].op = "update" THEN "dropConfig" ELSE "answer"
        /\ \A t \in Slots \ {r} : req'[t] = req[t]
    BY <1>1, <1>2, <1>6 DEF Requests
  <2>5. api'[Config(configs + 1)] # Absent
    <3>1. \A o : o = [[rv |-> 0, app |-> req[r].app, conf |-> req[r].new.ask.conf]
                          EXCEPT !.rv = version[Config(configs + 1)] + 1]
                 => o \in ConfigObject
      <4>1. version[Config(configs + 1)] + 1 \in Nat
        BY <2>2 DEF CreateInv, TypeInv, StoreType
      <4>2. req[r].new.ask.conf \in AskedConfs
        <5>1. req[r].new.ask \in Allowed BY <1>1 DEF Requests, AppObject
        <5>2. req[r].new.ask.conf # {}
          BY Busy DEF CreateInv, AddConfig, Stages, At, Shape
        <5>3. QED BY <5>1, <5>2, AskFields
      <4>3. QED BY <1>1, <4>1, <4>2 DEF ConfigObject, Requests
    <3>2. QED BY <1>6, <2>2, <3>1, AbsentAssumption DEF Put
  <2>6. req[r].op = "create" => Progress(api', req'[r])
    <3>1. SUFFICES ASSUME req[r].op = "create" PROVE Progress(api', req'[r]) OBVIOUS
    <3>2. Checked(req[r]) /\ ServiceThere(api, req[r]) BY <1>1, <1>3, <3>1 DEF Progress
    <3>3. req'[r].pc = "answer" /\ Checked(req'[r]) BY <2>4, <3>1, <3>2 DEF Checked
    <3>4. ConfigThere(api', req'[r]) BY <2>1, <2>3, <2>4, <2>5 DEF ConfigThere
    <3>5. ServiceThere(api', req[r])
      <4>1. \A i : Service(i) # Config(configs + 1) BY DEF Service, Config
      <4>2. \A i : api'[Service(i)] = api[Service(i)]
        BY <1>6, <4>1 DEF Put
      <4>3. QED BY <3>2, <4>2 DEF ServiceThere
    <3>6. ServiceThere(api', req'[r]) BY <2>4, <3>5 DEF ServiceThere
    <3>7. QED BY <3>3, <3>4, <3>6 DEF Progress
  <2>7. req[r].op # "create" => Progress(api', req'[r]) BY <2>4 DEF Progress
  <2>8. QED BY <1>4, <2>4, <2>6, <2>7, StepProgress DEF Fields
<1>7. QED BY <1>5, <1>6 DEF AddConfig

LEMMA DropProgress ==
    ASSUME CreateInv, NEW r \in Slots, DropService(r) \/ DropConfig(r)
    PROVE  ProgressInv'
<1>1. req[r] \in Requests /\ req[r] # Idle /\ (DropConfig(r) => req[r].op # "create")
  BY Busy DEF CreateInv, DropService, DropConfig, Stages, At, Shape
<1>2. UNCHANGED api \/ \E f \in Fields : Dropping(r, f)
  BY DropServiceView, DropConfigView DEF CreateInv, Quieten, Fields
<1>3. \/ req[r].op = "create" /\ Goto(r, "refuse")
      \/ req[r].op # "create" /\ \E pc : Goto(r, pc)
  BY <1>1 DEF DropService, DropConfig
<1>4. /\ \A t \in Slots \ {r} : req'[t] = req[t]
      /\ req'[r].op = req[r].op /\ (req[r].op = "create" => req'[r].pc = "refuse")
  BY <1>1, <1>3, GotoEffect DEF CreateInv
<1>5. Progress(api', req'[r]) BY <1>4 DEF Progress
<1>6. QED BY <1>2, <1>4, <1>5, StepProgress

LEMMA ProgressInit == Init => ProgressInv
BY DEF Init, ProgressInv

LEMMA ProgressStep == CreateInv /\ [Next]_vars => ProgressInv'
<1> SUFFICES ASSUME CreateInv, [Next]_vars PROVE ProgressInv' OBVIOUS
<1>0. DOMAIN req = Slots BY DEF CreateInv, TypeInv, ReqType
<1>1. CASE Users
  <2> DEFINE Sends(r, q) == /\ Sending(r, q) /\ q.pc = "admit"
                            /\ req[r] = Idle /\ req' = [req EXCEPT ![r] = q]
  <2>0. PICK r \in Slots : \E q : Sends(r, q) BY <1>1, UsersView DEF CreateInv
  <2>1. PICK q : Sends(r, q) BY <2>0
  <2>2. /\ UNCHANGED api /\ req'[r] = q /\ \A t \in Slots \ {r} : req'[t] = req[t]
        /\ q.svc = 0 /\ q.cm = 0
    BY <2>1 DEF Sending, Fields
  <2>3. Progress(api', q) BY <2>1, <2>2 DEF Progress
  <2>4. QED BY <2>2, <2>3, StepProgress
<1>2. ASSUME NEW r \in Slots, Handle(r) PROVE ProgressInv'
  BY <1>2, AdmitProgress, AddServiceProgress, AddConfigProgress, DropProgress DEF Handle
<1>3. ASSUME NEW r \in Slots, Store(r) PROVE ProgressInv'
  <2>1. PICK o : Storing(r, o) BY <1>3, StoreView DEF CreateInv
  <2>2. req'[r] = Idle /\ \A t \in Slots \ {r} : req'[t] = req[t] BY <2>1 DEF Storing
  <2>3. QED BY <2>1, <2>2, StepProgress
<1>4. ASSUME NEW r \in Slots, Dismiss(r) PROVE ProgressInv'
  <2>1. /\ UNCHANGED api /\ req'[r] = Idle
        /\ \A t \in Slots \ {r} : req'[t] = req[t]
    BY <1>0, <1>4 DEF Dismiss, kubeVars
  <2>2. QED BY <2>1, StepProgress
<1>5. ASSUME NEW r \in Slots, TimeOut(r) PROVE ProgressInv'
  <2>1. req[r] # Idle /\ UNCHANGED api /\ req' = [req EXCEPT ![r].fate = "late"]
    BY <1>5 DEF TimeOut, kubeVars
  <2>2. req[r] \in Requests BY <2>1, Loaded DEF CreateInv
  <2>3. /\ req'[r].pc = req[r].pc /\ req'[r].op = req[r].op /\ req'[r].new = req[r].new
        /\ req'[r].svc = req[r].svc /\ req'[r].cm = req[r].cm
        /\ req'[r].changed = req[r].changed
        /\ \A t \in Slots \ {r} : req'[t] = req[t]
    BY <1>0, <2>1, <2>2 DEF Requests
  <2>4. Progress(api, req[r]) BY <2>1 DEF CreateInv, ProgressInv
  <2>5. Progress(api', req'[r])
    BY <2>1, <2>3, <2>4 DEF Progress, Checked, ServiceThere, ConfigThere
  <2>6. QED BY <2>1, <2>3, <2>5, StepProgress
<1>6. CASE Restart BY <1>6 DEF Restart, ProgressInv
<1>7. CASE (\E k \in Keys : Deliver(k)) \/ UNCHANGED vars
  BY <1>7
  DEF Deliver, Advance, vars, kubeVars, CreateInv, ProgressInv, Progress, ServiceThere, ConfigThere
<1>8. QED BY <1>1, <1>2, <1>3, <1>4, <1>5, <1>6, <1>7 DEF Next

(* Only the API server stores a deployment.                                *)
LEMMA OnlyStore ==
    ASSUME CreateInv, [Next]_vars, NEW a \in Apps, api'[App(a)] # api[App(a)]
    PROVE  \E r \in Slots : Store(r) /\ req[r].app = a
<1>0. App(a) \in Keys /\ DOMAIN api = Keys
  BY KeyKinds DEF CreateInv, TypeInv, StoreType
<1>1. ~UNCHANGED api OBVIOUS
<1>2. \A k : k # App(a) /\ (Drop(k) \/ \E o : Put(k, o)) => api'[App(a)] = api[App(a)]
  BY <1>0 DEF Drop, Remove, Put
<1>3. \A i : Service(i) # App(a) /\ Config(i) # App(a) BY DEF Service, Config, App
<1>4. ~Users BY <1>1, UsersView DEF CreateInv, Sending
<1>5. ASSUME NEW r \in Slots, Handle(r) PROVE FALSE
  <2>1. ~(AdmitCreate(r) \/ AdmitUpdate(r) \/ AdmitDelete(r))
    BY <1>1 DEF AdmitCreate, AdmitUpdate, AdmitDelete, kubeVars
  <2>2. ~AddService(r) BY <1>1, <1>2, <1>3 DEF AddService
  <2>3. ~AddConfig(r) BY <1>1, <1>2, <1>3 DEF AddConfig
  <2>4. ~DropService(r) BY <1>2, <1>3 DEF DropService
  <2>5. ~DropConfig(r) BY <1>2, <1>3 DEF DropConfig
  <2>6. QED BY <1>5, <2>1, <2>2, <2>3, <2>4, <2>5 DEF Handle
<1>6. ~Restart /\ (\A k \in Keys : ~Deliver(k)) /\ ~UNCHANGED vars
  BY <1>1 DEF Restart, Relist, Deliver, Advance, vars, kubeVars
<1>7. \A r \in Slots : ~Dismiss(r) /\ ~TimeOut(r)
  BY <1>1 DEF Dismiss, TimeOut, kubeVars
<1>8. PICK r \in Slots : Store(r) BY <1>4, <1>5, <1>6, <1>7 DEF Next
<1>9. req[r].app = a
  <2>1. App(req[r].app) = App(a) BY <1>0, <1>8 DEF Store, Remove, Put
  <2>2. QED BY <2>1 DEF App
<1>10. QED BY <1>8, <1>9

(* What the API server stores for a create is all there.                   *)
LEMMA StoredComplete ==
    ASSUME CreateInv, NEW r \in Slots, Store(r), NEW a \in Apps, req[r].app = a,
           api[App(a)] = Absent, api'[App(a)] # Absent, HasKeys(api'[App(a)])
    PROVE  Complete(a)'
<1>1. req[r] \in Requests /\ req[r] # Idle /\ req[r].pc = "answer"
  BY Busy DEF CreateInv, Store, Stages, At
<1>2. Acceptable(req[r]) BY DEF Store
<1>3. req[r].op = "create"
  BY <1>1, <1>2 DEF Acceptable, Unmoved, Fresh, Requests, Store, Remove, Put
<1> DEFINE q == req[r]
           p == Patched(q)
           o == [p EXCEPT !.rv = version[App(a)] + 1]
<1>4. App(a) \in Keys /\ DOMAIN api = Keys BY KeyKinds DEF CreateInv, TypeInv, StoreType
<1>5. api' = [api EXCEPT ![App(a)] = o] BY <1>3 DEF Store, Put
<1>6. p \in AppObject BY <1>1, PatchedType
<1>7. /\ p.svc = q.svc /\ p.cm = q.cm /\ p.ask = q.new.ask
      /\ p.side = IF {"img", "env"} \cap q.changed = {} THEN q.new.side
                  ELSE [img |-> q.new.ask.img, env |-> q.new.ask.env,
                        vol |-> IF "conf" \in q.changed THEN q.cm ELSE q.new.side.vol]
  BY <1>1, <1>3 DEF Patched, Requests, AppObject
<1> HIDE DEF p
<1>8. o.svc = p.svc /\ o.cm = p.cm /\ o.ask = p.ask /\ o.side = p.side
  BY <1>6 DEF AppObject
<1>9. api'[App(a)] = o BY <1>4, <1>5
<1> HIDE DEF o
<1>10. \A i : api'[Service(i)] = api[Service(i)] /\ api'[Config(i)] = api[Config(i)]
  <2>1. \A i : Service(i) # App(a) /\ Config(i) # App(a) BY DEF Service, Config, App
  <2>2. QED BY <1>5, <2>1
<1>11. Progress(api, q) BY <1>1 DEF CreateInv, ProgressInv
<1>12. Checked(q) /\ ServiceThere(api, q) /\ ConfigThere(api, q)
  <2>1. HasKeys(o) BY <1>9
  <2>2. ~(~HasKeys(q.new) /\ q.svc = 0 /\ q.cm = 0) BY <1>7, <1>8, <2>1 DEF HasKeys
  <2>3. QED BY <1>1, <1>3, <1>11, <2>2 DEF Progress
<1>13. {"img", "env"} \cap q.changed # {} /\ "conf" \in q.changed
  <2>1. q.new.ask \in Allowed BY <1>1 DEF Requests, AppObject
  <2>2. QED BY <1>12, <2>1, NextOf
<1>14. o.side.img = o.ask.img /\ o.side.env = o.ask.env /\ o.side.vol = o.cm
  BY <1>7, <1>8, <1>13
<1>15. QED BY <1>7, <1>8, <1>9, <1>10, <1>12, <1>14 DEF Complete, ServiceThere, ConfigThere

(* A deployment that asks for a gateway is created with all that it needs, *)
(* or not at all.                                                          *)
THEOREM CreatedWhole == Spec => CreatedComplete
<1>1. Init => CreateInv BY InitType, OwnInit, ProgressInit DEF CreateInv
<1>2. CreateInv /\ [Next]_vars => CreateInv'
  BY TypeStep, OwnStep, ProgressStep DEF CreateInv
<1>3. ASSUME CreateInv, [Next]_vars
      PROVE  [\A a \in Apps :
                 api[App(a)] = Absent /\ api'[App(a)] # Absent /\ HasKeys(api'[App(a)])
                     => Complete(a)']_vars
  BY <1>3, OnlyStore, StoredComplete
<1>4. QED BY <1>1, <1>2, <1>3, PTL DEF Spec, CreatedComplete
=============================================================================
