-------------------------- MODULE SidecarServiceProofs --------------------------
(* SidecarWebhook keeps the promise of SidecarService, for every value of  *)
(* the constants.                                                          *)
EXTENDS SidecarWebhookProofs

(* Services and config maps alike, as SidecarService has them.             *)
SeenMade(f, i) == IF f = "svc" THEN SeenService(i) ELSE SeenConfig(i)
SeenApps     == [a \in Apps |-> SeenApp(a)]
SeenServices == [i \in Ids |-> SeenService(i)]
SeenConfigs  == [i \in Ids |-> SeenConfig(i)]
Working      == {a \in Apps : ~Quiet(a)}

-----------------------------------------------------------------------------
(* What is seen depends on the object it is of.                            *)

LEMMA SameSeen ==
    /\ \A a \in Apps : api'[App(a)] = api[App(a)] => SeenApp(a)' = SeenApp(a)
    /\ \A i \in Ids : api'[Service(i)] = api[Service(i)] => SeenService(i)' = SeenService(i)
    /\ \A i \in Ids : api'[Config(i)] = api[Config(i)] => SeenConfig(i)' = SeenConfig(i)
BY DEF SeenApp, SeenService, SeenConfig

(* A write to one object is seen there only.                               *)
LEMMA WriteSeen ==
    ASSUME NEW k \in Keys, NEW o, api' = [api EXCEPT ![k] = o]
    PROVE  /\ \A a \in Apps : App(a) # k => SeenApp(a)' = SeenApp(a)
           /\ \A i \in Ids : Service(i) # k => SeenService(i)' = SeenService(i)
           /\ \A i \in Ids : Config(i) # k => SeenConfig(i)' = SeenConfig(i)
<1>1. \A l : l # k => api'[l] = api[l] OBVIOUS
<1>2. QED BY <1>1, SameSeen

LEMMA SeenElsewhere ==
    /\ \A i, j : Service(i) # Config(j)
    /\ \A i, a : Service(i) # App(a) /\ Config(i) # App(a)
    /\ \A i, j : Service(i) = Service(j) => i = j
    /\ \A i, j : Config(i) = Config(j) => i = j
    /\ \A a, b : App(a) = App(b) => a = b
BY DEF Service, Config, App

LEMMA WriteService ==
    ASSUME NEW i \in Ids, NEW o, api' = [api EXCEPT ![Service(i)] = o]
    PROVE  /\ UNCHANGED <<SeenApps, SeenConfigs>>
           /\ SeenServices' = [SeenServices EXCEPT ![i] = SeenService(i)']
<1>1. Service(i) \in Keys BY KeyKinds
<1>2. /\ \A a \in Apps : SeenApp(a)' = SeenApp(a)
      /\ \A j \in Ids : SeenConfig(j)' = SeenConfig(j)
      /\ \A j \in Ids \ {i} : SeenService(j)' = SeenService(j)
  BY <1>1, WriteSeen, SeenElsewhere
<1>3. QED BY <1>2 DEF SeenApps, SeenConfigs, SeenServices

LEMMA WriteConfig ==
    ASSUME NEW i \in Ids, NEW o, api' = [api EXCEPT ![Config(i)] = o]
    PROVE  /\ UNCHANGED <<SeenApps, SeenServices>>
           /\ SeenConfigs' = [SeenConfigs EXCEPT ![i] = SeenConfig(i)']
<1>1. Config(i) \in Keys BY KeyKinds
<1>2. /\ \A a \in Apps : SeenApp(a)' = SeenApp(a)
      /\ \A j \in Ids : SeenService(j)' = SeenService(j)
      /\ \A j \in Ids \ {i} : SeenConfig(j)' = SeenConfig(j)
  BY <1>1, WriteSeen, SeenElsewhere
<1>3. QED BY <1>2 DEF SeenApps, SeenConfigs, SeenServices

LEMMA WriteApp ==
    ASSUME NEW a \in Apps, NEW o, api' = [api EXCEPT ![App(a)] = o]
    PROVE  /\ UNCHANGED <<SeenServices, SeenConfigs>>
           /\ SeenApps' = [SeenApps EXCEPT ![a] = SeenApp(a)']
<1>1. App(a) \in Keys BY KeyKinds
<1>2. /\ \A b \in Apps \ {a} : SeenApp(b)' = SeenApp(b)
      /\ \A j \in Ids : SeenService(j)' = SeenService(j)
      /\ \A j \in Ids : SeenConfig(j)' = SeenConfig(j)
  BY <1>1, WriteSeen, SeenElsewhere
<1>3. QED BY <1>2 DEF SeenApps, SeenConfigs, SeenServices

(* Nothing seen is mistaken for nothing there.                             *)
Visible ==
    /\ \A a \in Apps : SeenApp(a) = Absent <=> api[App(a)] = Absent
    /\ \A i \in Ids : SeenService(i) = Absent <=> api[Service(i)] = Absent
    /\ \A i \in Ids : SeenConfig(i) = Absent <=> api[Config(i)] = Absent

LEMMA SeenThere == StoreType => Visible
<1> SUFFICES ASSUME StoreType PROVE Visible OBVIOUS
<1>1. ASSUME NEW a \in Apps, api[App(a)] # Absent PROVE SeenApp(a) # Absent
  <2>1. api[App(a)] \in AppObject BY <1>1, StoredApp
  <2>2. SeenApp(a) \in AppContent BY <1>1, <2>1 DEF SeenApp, AppObject, AppContent
  <2>3. QED BY <2>2, AbsentAssumption
<1>2. ASSUME NEW i \in Ids, api[Service(i)] # Absent PROVE SeenService(i) # Absent
  <2>1. api[Service(i)] \in ServiceObject BY <1>2, KeyKinds DEF StoreType, Optional
  <2>2. SeenService(i) \in ServiceContent
    BY <1>2, <2>1 DEF SeenService, ServiceObject, ServiceContent
  <2>3. QED BY <2>2, AbsentAssumption
<1>3. ASSUME NEW i \in Ids, api[Config(i)] # Absent PROVE SeenConfig(i) # Absent
  <2>1. api[Config(i)] \in ConfigObject BY <1>3, KeyKinds DEF StoreType, Optional
  <2>2. SeenConfig(i) \in ConfigContent
    BY <1>3, <2>1 DEF SeenConfig, ConfigObject, ConfigContent
  <2>3. QED BY <2>2, AbsentAssumption
<1>4. QED BY <1>1, <1>2, <1>3 DEF Visible, SeenApp, SeenService, SeenConfig

LEMMA SeenThereNext == StoreType' => Visible'
BY SeenThere, PTL

(* Whoever something is for, it is seen.                                   *)
LEMMA SeenFor ==
    ASSUME StoreType, NEW f \in Fields, NEW i \in Ids, NEW a
    PROVE  (SeenMade(f, i) # Absent => SeenMade(f, i).app = a)
               <=> (api[Made(f, i)] # Absent => api[Made(f, i)].app = a)
BY SeenThere DEF Visible, SeenMade, Made, SeenService, SeenConfig

-----------------------------------------------------------------------------
(* Who is served.                                                          *)

LEMMA ServedIsWorking ==
    ASSUME TypeInv, NEW r \in Slots, req[r] # Idle
    PROVE  req[r].app \in Working
BY Loaded DEF Working, Quiet

(* A step that begins nothing leaves at most those busy that were.         *)
LEMMA WorkingShrinks ==
    ASSUME \A r \in Slots : req'[r] # Idle => req[r] # Idle /\ req'[r].app = req[r].app
    PROVE  Working' \subseteq Working
BY DEF Working, Quiet

LEMMA QuietenServes == Quieten => Promised!Finish
<1> SUFFICES ASSUME Quieten PROVE Promised!Finish OBVIOUS
<1>1. Working' \subseteq Working BY WorkingShrinks DEF Quieten, Same
<1>2. UNCHANGED <<SeenApps, SeenServices, SeenConfigs>>
  BY DEF Quieten, SeenApps, SeenServices, SeenConfigs, SeenApp, SeenService, SeenConfig
<1>3. QED
  BY <1>1, <1>2
  DEF Promised!Finish, Working, SeenApps, SeenServices, SeenConfigs, Quieten

LEMMA SendServes ==
    ASSUME NEW r \in Slots, NEW q, Sending(r, q), req[r] = Idle, q # Idle
    PROVE  \E a \in Apps : Promised!Ask(a)
<1>1. q.app \in Apps BY DEF Sending
<1>2. Working' = Working \cup {q.app}
  BY <1>1 DEF Sending, Working, Quiet
<1>3. UNCHANGED <<SeenApps, SeenServices, SeenConfigs>>
  BY DEF Sending, SeenApps, SeenServices, SeenConfigs, SeenApp, SeenService, SeenConfig
<1>4. QED
  BY <1>1, <1>2, <1>3
  DEF Promised!Ask, Working, SeenApps, SeenServices, SeenConfigs, Sending

-----------------------------------------------------------------------------
(* What a handler drops is for the deployment it works for.                *)

LEMMA DropsOwn ==
    ASSUME TypeInv, OwnInv, NEW r \in Slots, NEW f \in Fields, Dropping(r, f)
    PROVE  /\ DropName(f, req[r]) \in Ids
           /\ OwnOf(f, DropName(f, req[r]), req[r].app)
BY DEF OwnInv, ReqInv, Dropping, DropName

LEMMA DropServes ==
    ASSUME TypeInv, OwnInv, NEW r \in Slots, NEW f \in Fields, Dropping(r, f)
    PROVE  \E a \in Apps, i \in Ids : Promised!DropService(a, i) \/ Promised!DropConfig(a, i)
<1> SUFFICES ASSUME NEW a, NEW i, a = req[r].app, i = DropName(f, req[r])
             PROVE  \E b \in Apps, j \in Ids :
                        Promised!DropService(b, j) \/ Promised!DropConfig(b, j)
  OBVIOUS
<1>1. StoreType /\ i \in Ids /\ OwnOf(f, i, a) BY DropsOwn DEF TypeInv
<1>2. a \in Working /\ a \in Apps /\ Working' \subseteq Working
  BY ServedIsWorking, Loaded, WorkingShrinks DEF Dropping, Same
<1>3. SeenMade(f, i) # Absent => SeenMade(f, i).app = a
  <2>1. i # 0 BY <1>1 DEF Ids
  <2>2. QED BY <1>1, <2>1, SeenFor DEF OwnOf, OwnIn
<1>4. /\ api' = [api EXCEPT ![Made(f, i)] = Absent] /\ UNCHANGED <<services, configs>>
      /\ api'[Made(f, i)] = Absent
  BY <1>1, KeysDiffer DEF Dropping, StoreType
<1>5. CASE f = "svc"
  <2>1. /\ UNCHANGED <<SeenApps, SeenConfigs>>
        /\ SeenServices' = [SeenServices EXCEPT ![i] = SeenService(i)']
    BY <1>1, <1>4, <1>5, WriteService DEF Made
  <2>2. SeenService(i)' = Absent BY <1>4, <1>5 DEF SeenService, Made
  <2>3. SeenServices[i] = SeenService(i) BY <1>1 DEF SeenServices
  <2>4. Promised!DropService(a, i)
    BY <1>2, <1>3, <1>4, <1>5, <2>1, <2>2, <2>3
    DEF Promised!DropService, Promised!Serve, Promised!IsFor, Working, SeenApps,
        SeenServices, SeenConfigs, SeenMade
  <2>5. QED BY <1>1, <1>2, <2>4
<1>6. CASE f = "cm"
  <2>1. /\ UNCHANGED <<SeenApps, SeenServices>>
        /\ SeenConfigs' = [SeenConfigs EXCEPT ![i] = SeenConfig(i)']
    BY <1>1, <1>4, <1>6, WriteConfig DEF Made
  <2>2. SeenConfig(i)' = Absent BY <1>4, <1>6 DEF SeenConfig, Made
  <2>3. SeenConfigs[i] = SeenConfig(i) BY <1>1 DEF SeenConfigs
  <2>4. Promised!DropConfig(a, i)
    BY <1>2, <1>3, <1>4, <1>6, <2>1, <2>2, <2>3
    DEF Promised!DropConfig, Promised!Serve, Promised!IsFor, Working, SeenApps,
        SeenServices, SeenConfigs, SeenMade
  <2>5. QED BY <1>1, <1>2, <2>4
<1>7. QED BY <1>5, <1>6 DEF Fields

-----------------------------------------------------------------------------
(* What a handler makes is new, and for the deployment it works for.       *)

LEMMA MakerWorks ==
    ASSUME TypeInv, NEW r \in Slots, NEW f \in Fields, NEW o, Making(r, f, o)
    PROVE  req[r].app \in Working /\ req[r].app \in Apps /\ Working' \subseteq Working
BY ServedIsWorking, Loaded, WorkingShrinks DEF Making

LEMMA ServiceMade ==
    ASSUME TypeInv, NEW r \in Slots, AddService(r), ~Quieten
    PROVE  /\ services + 1 \in Ids /\ services' = services + 1 /\ UNCHANGED configs
           /\ req[r].new.ask.port \in AskedPorts
           /\ \A i \in Ids : api[Service(i)] # Absent
                              => api[Service(i)].port # req[r].new.ask.port
           /\ \E o \in ServiceObject :
                  /\ api' = [api EXCEPT ![Service(services + 1)] = o]
                  /\ api'[Service(services + 1)] = o
                  /\ o.app = req[r].app /\ o.port = req[r].new.ask.port
<1>1. req[r] \in Requests /\ req[r] # Idle BY Busy DEF AddService, Stages
<1>2. ~(Goto(r, "refuse") /\ UNCHANGED <<api, services, configs>>)
  BY <1>1, GotoSame DEF Quieten, Stages
<1>3. /\ PortFree(req[r].new.ask.port) /\ services < MaxNames
      /\ services' = services + 1 /\ UNCHANGED configs
      /\ Put(Service(services'),
             [rv |-> 0, app |-> req[r].app, port |-> req[r].new.ask.port])
  BY <1>2 DEF AddService, NoService
<1>4. services + 1 \in Ids
  BY <1>3, Bounds DEF TypeInv, CountType, Names, Ids
<1>5. Service(services + 1) \in DOMAIN api BY <1>4, KeyKinds DEF TypeInv, StoreType
<1>6. req[r].new.ask.port \in AskedPorts
  <2>1. req[r].new.ask \in Allowed BY <1>1 DEF Requests, AppObject
  <2>2. req[r].new.ask.port # Unset BY Busy DEF AddService, Stages, At, Shape
  <2>3. QED BY <2>1, <2>2, AskFields
<1>7. \A i \in Ids : api[Service(i)] # Absent => api[Service(i)].port # req[r].new.ask.port
  BY <1>3 DEF PortFree, ServiceKeys
<1> DEFINE o == [[rv |-> 0, app |-> req[r].app, port |-> req[r].new.ask.port]
                     EXCEPT !.rv = version[Service(services + 1)] + 1]
<1>8. o \in ServiceObject /\ o.app = req[r].app /\ o.port = req[r].new.ask.port
  <2>1. version[Service(services + 1)] + 1 \in Nat
    BY <1>4, KeyKinds DEF TypeInv, StoreType
  <2>2. req[r].app \in Apps BY <1>1, Loaded
  <2>3. QED BY <1>6, <2>1, <2>2 DEF ServiceObject
<1>9. api' = [api EXCEPT ![Service(services + 1)] = o] /\ api'[Service(services + 1)] = o
  BY <1>3, <1>5 DEF Put
<1> HIDE DEF o
<1>10. QED BY <1>3, <1>4, <1>6, <1>7, <1>8, <1>9

LEMMA AddServiceServes ==
    ASSUME TypeInv, NEW r \in Slots, AddService(r), ~Quieten
    PROVE  \E a \in Apps, port \in AskedPorts : Promised!MakeService(a, port)
<1> SUFFICES ASSUME NEW a, NEW port, NEW i,
                    a = req[r].app, port = req[r].new.ask.port, i = services + 1
             PROVE  \E b \in Apps, p \in AskedPorts : Promised!MakeService(b, p)
  OBVIOUS
<1>1. StoreType BY DEF TypeInv
<1>2. a \in Working /\ a \in Apps /\ Working' \subseteq Working
  BY AddServiceView, MakerWorks DEF Fields
<1>3. /\ i \in Ids /\ services' = i /\ UNCHANGED configs /\ port \in AskedPorts
      /\ \A j \in Ids : api[Service(j)] # Absent => api[Service(j)].port # port
  BY ServiceMade
<1>4. PICK o \in ServiceObject :
          /\ api' = [api EXCEPT ![Service(i)] = o] /\ api'[Service(i)] = o
          /\ o.app = a /\ o.port = port
  BY ServiceMade
<1>5. /\ UNCHANGED <<SeenApps, SeenConfigs>>
      /\ SeenServices' = [SeenServices EXCEPT ![i] = SeenService(i)']
  BY <1>3, <1>4, WriteService
<1>6. SeenService(i)' = [app |-> a, port |-> port]
  <2>1. o # Absent BY AbsentAssumption
  <2>2. QED BY <1>4, <2>1 DEF SeenService
<1>7. \A j \in Ids : SeenServices[j] # Absent => SeenServices[j].port # port
  BY <1>1, <1>3, SeenThere DEF Visible, SeenServices, SeenService
<1>8. Promised!MakeService(a, port)
  BY <1>2, <1>3, <1>5, <1>6, <1>7
  DEF Promised!MakeService, Promised!Serve, Promised!Ids, Ids, Working, SeenApps,
      SeenServices, SeenConfigs
<1>9. QED BY <1>2, <1>3, <1>8

LEMMA ConfigMade ==
    ASSUME TypeInv, NEW r \in Slots, AddConfig(r), ~Quieten
    PROVE  /\ configs + 1 \in Ids /\ configs' = configs + 1 /\ UNCHANGED services
           /\ req[r].new.ask.conf \in AskedConfs
           /\ \E o \in ConfigObject :
                  /\ api' = [api EXCEPT ![Config(configs + 1)] = o]
                  /\ api'[Config(configs + 1)] = o
                  /\ o.app = req[r].app /\ o.conf = req[r].new.ask.conf
<1>1. req[r] \in Requests /\ req[r] # Idle BY Busy DEF AddConfig, Stages
<1>2. ~(/\ Goto(r, IF req[r].op = "create" THEN "dropService" ELSE "refuse")
        /\ UNCHANGED <<api, services, configs>>)
  BY <1>1, GotoSame DEF Quieten, Stages
<1>3. /\ configs < MaxNames /\ configs' = configs + 1 /\ UNCHANGED services
      /\ Put(Config(configs'),
             [rv |-> 0, app |-> req[r].app, conf |-> req[r].new.ask.conf])
  BY <1>2 DEF AddConfig
<1>4. configs + 1 \in Ids
  BY <1>3, Bounds DEF TypeInv, CountType, Names, Ids
<1>5. Config(configs + 1) \in DOMAIN api BY <1>4, KeyKinds DEF TypeInv, StoreType
<1>6. req[r].new.ask.conf \in AskedConfs
  <2>1. req[r].new.ask \in Allowed BY <1>1 DEF Requests, AppObject
  <2>2. req[r].new.ask.conf # {} BY Busy DEF AddConfig, Stages, At, Shape
  <2>3. QED BY <2>1, <2>2, AskFields
<1> DEFINE o == [[rv |-> 0, app |-> req[r].app, conf |-> req[r].new.ask.conf]
                     EXCEPT !.rv = version[Config(configs + 1)] + 1]
<1>7. o \in ConfigObject /\ o.app = req[r].app /\ o.conf = req[r].new.ask.conf
  <2>1. version[Config(configs + 1)] + 1 \in Nat
    BY <1>4, KeyKinds DEF TypeInv, StoreType
  <2>2. req[r].app \in Apps BY <1>1, Loaded
  <2>3. QED BY <1>6, <2>1, <2>2 DEF ConfigObject
<1>8. api' = [api EXCEPT ![Config(configs + 1)] = o] /\ api'[Config(configs + 1)] = o
  BY <1>3, <1>5 DEF Put
<1> HIDE DEF o
<1>9. QED BY <1>3, <1>4, <1>6, <1>7, <1>8

LEMMA AddConfigServes ==
    ASSUME TypeInv, NEW r \in Slots, AddConfig(r), ~Quieten
    PROVE  \E a \in Apps, conf \in AskedConfs : Promised!MakeConfig(a, conf)
<1> SUFFICES ASSUME NEW a, NEW conf, NEW i,
                    a = req[r].app, conf = req[r].new.ask.conf, i = configs + 1
             PROVE  \E b \in Apps, c \in AskedConfs : Promised!MakeConfig(b, c)
  OBVIOUS
<1>1. a \in Working /\ a \in Apps /\ Working' \subseteq Working
  BY AddConfigView, MakerWorks DEF Fields
<1>2. i \in Ids /\ configs' = i /\ UNCHANGED services /\ conf \in AskedConfs
  BY ConfigMade
<1>3. PICK o \in ConfigObject :
          /\ api' = [api EXCEPT ![Config(i)] = o] /\ api'[Config(i)] = o
          /\ o.app = a /\ o.conf = conf
  BY ConfigMade
<1>4. /\ UNCHANGED <<SeenApps, SeenServices>>
      /\ SeenConfigs' = [SeenConfigs EXCEPT ![i] = SeenConfig(i)']
  BY <1>2, <1>3, WriteConfig
<1>5. SeenConfig(i)' = [app |-> a, conf |-> conf]
  <2>1. o # Absent BY AbsentAssumption
  <2>2. QED BY <1>3, <2>1 DEF SeenConfig
<1>6. Promised!MakeConfig(a, conf)
  BY <1>1, <1>2, <1>4, <1>5
  DEF Promised!MakeConfig, Promised!Serve, Promised!Ids, Ids, Working, SeenApps,
      SeenServices, SeenConfigs
<1>7. QED BY <1>1, <1>2, <1>6

-----------------------------------------------------------------------------
(* What the API server stores for a deployment names what is its own.      *)

StoredSeen(a) ==
    LET o == api[App(a)]
    IN  /\ SeenApp(a) = [ask |-> o.ask, svc |-> o.svc, cm |-> o.cm, side |-> o.side]
        /\ o \in AppObject
        /\ o.svc \in 0..services
        /\ o.svc # 0 => /\ o.svc \in Ids
                        /\ SeenService(o.svc) # Absent => SeenService(o.svc).app = a
        /\ o.cm \in 0..configs
        /\ o.cm # 0 => /\ o.cm \in Ids
                       /\ SeenConfig(o.cm) # Absent => SeenConfig(o.cm).app = a

LEMMA SeenStored ==
    ASSUME NEW a \in Apps
    PROVE  TypeInv /\ OwnInv /\ api[App(a)] # Absent => StoredSeen(a)
<1> SUFFICES ASSUME TypeInv, OwnInv, api[App(a)] # Absent PROVE StoredSeen(a) OBVIOUS
<1> DEFINE o == api[App(a)]
<1>1. o \in AppObject /\ o # Absent BY StoredApp DEF TypeInv
<1>2. OwnOf("svc", o.svc, a) /\ OwnOf("cm", o.cm, a) BY DEF OwnInv, AppInv, Fields
<1>3. o.svc \in Names /\ o.cm \in Names BY <1>1 DEF AppObject
<1>4. SeenApp(a) = [ask |-> o.ask, svc |-> o.svc, cm |-> o.cm, side |-> o.side]
  BY <1>1 DEF SeenApp
<1> HIDE DEF o
<1>5. /\ o.svc # 0 => o.svc \in Ids
      /\ o.cm # 0 => o.cm \in Ids
  BY <1>3, Bounds DEF Names, Ids
<1>6. /\ o.svc \in 0..services /\ o.cm \in 0..configs
      /\ o.svc # 0 /\ api[Service(o.svc)] # Absent => api[Service(o.svc)].app = a
      /\ o.cm # 0 /\ api[Config(o.cm)] # Absent => api[Config(o.cm)].app = a
  BY <1>2 DEF OwnOf, OwnIn, Given, Made
<1>7. /\ \A i \in Ids : (SeenService(i) # Absent => SeenService(i).app = a)
                           <=> (api[Service(i)] # Absent => api[Service(i)].app = a)
      /\ \A i \in Ids : (SeenConfig(i) # Absent => SeenConfig(i).app = a)
                           <=> (api[Config(i)] # Absent => api[Config(i)].app = a)
  <2>1. StoreType BY DEF TypeInv
  <2>2. QED BY <2>1, SeenFor DEF Fields, SeenMade, Made
<1>8. QED BY <1>1, <1>4, <1>5, <1>6, <1>7 DEF o, StoredSeen

(* What is complete is seen to be.                                         *)
CompleteSeen(a) ==
    LET d == SeenApp(a)
    IN  /\ IF d.ask.port = Unset THEN d.svc = 0
           ELSE d.svc \in Ids /\ SeenService(d.svc) = [app |-> a, port |-> d.ask.port]
        /\ d.cm \in Ids /\ SeenConfig(d.cm) = [app |-> a, conf |-> d.ask.conf]
        /\ d.side = [img |-> d.ask.img, env |-> d.ask.env, vol |-> d.cm]

LEMMA SeenComplete ==
    ASSUME NEW a \in Apps
    PROVE  TypeInv /\ OwnInv /\ api[App(a)] # Absent /\ Complete(a) => CompleteSeen(a)
<1> SUFFICES ASSUME TypeInv, OwnInv, api[App(a)] # Absent, Complete(a)
             PROVE  CompleteSeen(a)
  OBVIOUS
<1> DEFINE o == api[App(a)]
<1>1. /\ SeenApp(a) = [ask |-> o.ask, svc |-> o.svc, cm |-> o.cm, side |-> o.side]
      /\ o \in AppObject
      /\ o.svc # 0 => /\ o.svc \in Ids
                      /\ SeenService(o.svc) # Absent => SeenService(o.svc).app = a
      /\ o.cm # 0 => /\ o.cm \in Ids
                     /\ SeenConfig(o.cm) # Absent => SeenConfig(o.cm).app = a
  BY SeenStored DEF StoredSeen
<1>2. /\ o.cm # 0 /\ o.side.vol = o.cm
      /\ api[Config(o.cm)] # Absent /\ api[Config(o.cm)].conf = o.ask.conf
      /\ o.side.img = o.ask.img /\ o.side.env = o.ask.env
      /\ IF o.ask.port = Unset THEN o.svc = 0
         ELSE /\ o.svc # 0 /\ api[Service(o.svc)] # Absent
              /\ api[Service(o.svc)].port = o.ask.port
  BY DEF Complete
<1> HIDE DEF o
<1>3. o.side = [img |-> o.ask.img, env |-> o.ask.env, vol |-> o.cm]
  <2>1. o.side \in Sidecar BY <1>1 DEF AppObject
  <2>2. QED BY <1>2, <2>1 DEF Sidecar
<1>4. StoreType BY DEF TypeInv
<1>5. SeenConfig(o.cm) = [app |-> a, conf |-> o.ask.conf]
  <2>1. SeenConfig(o.cm) # Absent BY <1>1, <1>2, <1>4, SeenThere DEF Visible
  <2>2. SeenConfig(o.cm).app = a BY <1>1, <1>2, <2>1
  <2>3. SeenConfig(o.cm) = [app |-> api[Config(o.cm)].app, conf |-> o.ask.conf]
    BY <1>2 DEF SeenConfig
  <2>4. QED BY <2>2, <2>3
<1>6. ASSUME o.ask.port # Unset
      PROVE  o.svc \in Ids /\ SeenService(o.svc) = [app |-> a, port |-> o.ask.port]
  <2>1. SeenService(o.svc) # Absent BY <1>1, <1>2, <1>4, <1>6, SeenThere DEF Visible
  <2>2. SeenService(o.svc).app = a BY <1>1, <1>2, <1>6, <2>1
  <2>3. SeenService(o.svc) = [app |-> api[Service(o.svc)].app, port |-> o.ask.port]
    BY <1>2, <1>6 DEF SeenService
  <2>4. QED BY <1>1, <1>2, <1>6, <2>2, <2>3
<1>7. QED BY <1>1, <1>2, <1>3, <1>5, <1>6 DEF CompleteSeen

LEMMA StoredSeenNext ==
    ASSUME NEW a \in Apps
    PROVE  TypeInv' /\ OwnInv' /\ api'[App(a)] # Absent
               => StoredSeen(a)' /\ (Complete(a)' => CompleteSeen(a)')
<1> DEFINE There == api[App(a)] # Absent
<1>1. TypeInv /\ OwnInv /\ There => StoredSeen(a) BY SeenStored
<1>2. TypeInv /\ OwnInv /\ There /\ Complete(a) => CompleteSeen(a) BY SeenComplete
<1>3. There' <=> api'[App(a)] # Absent OBVIOUS
<1> HIDE DEF There
<1>4. TypeInv' /\ OwnInv' /\ There' => StoredSeen(a)' /\ (Complete(a)' => CompleteSeen(a)')
  BY <1>1, <1>2, PTL
<1>5. QED BY <1>3, <1>4

LEMMA StoreServes ==
    ASSUME CreateInv, CreateInv', NEW r \in Slots, Store(r)
    PROVE  \E a \in Apps : Promised!Change(a)
<1> SUFFICES ASSUME NEW a, a = req[r].app
             PROVE  \E b \in Apps : Promised!Change(b)
  OBVIOUS
<1>0. TypeInv /\ OwnInv /\ TypeInv' /\ OwnInv' BY DEF CreateInv
<1>1. PICK o : Storing(r, o) BY <1>0, StoreView
<1>2. a \in Working /\ a \in Apps /\ Working' \subseteq Working
  BY <1>0, <1>1, ServedIsWorking, WorkingShrinks DEF Storing
<1>3. UNCHANGED <<services, configs>> /\ api' = [api EXCEPT ![App(a)] = o]
  BY <1>1 DEF Storing
<1>4. /\ UNCHANGED <<SeenServices, SeenConfigs>>
      /\ SeenApps' = [SeenApps EXCEPT ![a] = SeenApp(a)']
      /\ SeenApps'[a] = SeenApp(a)' /\ SeenApps[a] = SeenApp(a)
  BY <1>2, <1>3, WriteApp DEF SeenApps
<1>5. /\ SeenApp(a) = Absent <=> api[App(a)] = Absent
      /\ SeenApp(a)' = Absent <=> api'[App(a)] = Absent
  <2>1. StoreType /\ StoreType' BY <1>0 DEF TypeInv
  <2>2. QED BY <1>2, <2>1, SeenThere, SeenThereNext DEF Visible
<1>6. ASSUME SeenApp(a)' # Absent PROVE Promised!Own(a, SeenApp(a)')
  <2>1. StoredSeen(a)' BY <1>0, <1>2, <1>5, <1>6, StoredSeenNext
  <2>2. QED
    BY <1>3, <1>4, <2>1
    DEF Promised!Own, Promised!IsFor, StoredSeen, SeenServices, SeenConfigs
<1>7. ASSUME SeenApp(a) = Absent, SeenApp(a)' # Absent
      PROVE  Promised!Plain(SeenApp(a)') \/ Promised!Whole(a, SeenApp(a)')
  <2>1. StoredSeen(a)' /\ (Complete(a)' => CompleteSeen(a)')
    BY <1>0, <1>2, <1>5, <1>7, StoredSeenNext
  <2>2. CASE ~HasKeys(api'[App(a)])
    BY <2>1, <2>2 DEF HasKeys, Promised!Plain, StoredSeen
  <2>3. CASE HasKeys(api'[App(a)])
    <3>1. CompleteSeen(a)'
      BY <1>2, <1>5, <1>7, <2>1, <2>3, StoredComplete
    <3>2. QED
      BY <1>4, <3>1
      DEF Promised!Whole, Promised!Ids, Ids, CompleteSeen, SeenServices, SeenConfigs
  <2>4. QED BY <2>2, <2>3
<1>8. Promised!Change(a)
  BY <1>2, <1>3, <1>4, <1>6, <1>7
  DEF Promised!Change, Promised!Serve, Working, SeenApps, SeenServices, SeenConfigs
<1>9. QED BY <1>2, <1>8

-----------------------------------------------------------------------------
(* Every step is one of the service, or is not seen.                       *)

LEMMA InitServes == Init => Promised!Init
<1> SUFFICES ASSUME Init PROVE Promised!Init OBVIOUS
<1>1. \A k \in Keys : api[k] = Absent BY DEF Init
<1>2. /\ \A a \in Apps : SeenApp(a) = Absent
      /\ \A i \in Ids : SeenService(i) = Absent /\ SeenConfig(i) = Absent
  BY <1>1, KeyKinds DEF SeenApp, SeenService, SeenConfig
<1>3. \A a \in Apps : Quiet(a) BY DEF Init, Quiet
<1>4. services = 0 /\ configs = 0 BY DEF Init
<1>5. QED BY <1>2, <1>3, <1>4 DEF Promised!Init, Promised!Ids, Ids

LEMMA StepServes ==
    ASSUME CreateInv, CreateInv', [Next]_vars
    PROVE  Promised!Next
<1>0. TypeInv /\ OwnInv BY DEF CreateInv
<1>1. CASE Quieten BY <1>1, QuietenServes DEF Promised!Next
<1>2. ASSUME NEW r \in Slots, NEW q, Sending(r, q), req[r] = Idle, q # Idle
      PROVE  Promised!Next
  BY <1>2, SendServes DEF Promised!Next
<1>3. ASSUME NEW r \in Slots, NEW f \in Fields, Dropping(r, f)
      PROVE  Promised!Next
  BY <1>0, <1>3, DropServes DEF Promised!Next, Promised!Ids, Ids
<1>4. ASSUME NEW r \in Slots, AddService(r), ~Quieten PROVE Promised!Next
  BY <1>0, <1>4, AddServiceServes DEF Promised!Next
<1>5. ASSUME NEW r \in Slots, AddConfig(r), ~Quieten PROVE Promised!Next
  BY <1>0, <1>5, AddConfigServes DEF Promised!Next
<1>6. ASSUME NEW r \in Slots, Store(r) PROVE Promised!Next
  BY <1>6, StoreServes DEF Promised!Next
<1>7. QED BY <1>0, <1>1, <1>2, <1>3, <1>4, <1>5, <1>6, Views

(* Whatever requests are handled at once, fail, come too late or die with  *)
(* the operator, the webhook and the API server together keep the promise  *)
(* of SidecarService: what is made for a deployment is its own, stays as   *)
(* it was made, and goes by a request for the deployment and none else.    *)
THEOREM SidecarServiceImplemented == Spec => ImplementsSidecarService
<1>1. Init => CreateInv /\ Promised!Init
  BY InitType, OwnInit, ProgressInit, InitServes DEF CreateInv
<1>2. CreateInv /\ [Next]_vars => CreateInv'
  BY TypeStep, OwnStep, ProgressStep DEF CreateInv
<1>3. CreateInv /\ [Next]_vars => CreateInv' /\ [Promised!Next]_(Promised!vars)
  BY <1>2, StepServes
<1>4. QED BY <1>1, <1>3, PTL DEF Spec, ImplementsSidecarService, Promised!Spec
=============================================================================
