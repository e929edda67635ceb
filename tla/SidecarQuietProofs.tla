-------------------------- MODULE SidecarQuietProofs --------------------------
(***************************************************************************)
(* What SidecarWebhook leaves behind between requests, when nothing fails  *)
(* and nobody takes the annotations away or copies them: for any number of *)
(* deployments, and any number of requests handled at a time as long as    *)
(* each is for a deployment of its own.                                    *)
(***************************************************************************)
EXTENDS SidecarWebhookProofs

(* Nothing fails, the caches are up to date when a request is sent, and    *)
(* users neither take all annotations away nor copy them, nor try them.    *)
Undisturbed ==
    /\ Prompt /\ MaxFaults = 0
    /\ UserActions \subseteq {"create", "update", "touch", "delete"}

-----------------------------------------------------------------------------
(* The invariant.                                                          *)

(* The last event of a watch tells what the API server holds.              *)
Known(k)  == IF stream[k] = <<>> THEN cache[k] ELSE stream[k][Len(stream[k])]
WatchInv  == \A k \in Keys : Known(k) = api[k]

(* Services and config maps alike: what a deployment wants of the kind f,  *)
(* what an object of the kind holds, and which annotations it comes from.  *)
Aspect(f)    == IF f = "svc" THEN "port" ELSE "conf"
None(f)      == IF f = "svc" THEN Unset ELSE {}
Want(f, ask) == IF f = "svc" THEN ask.port ELSE ask.conf
Held(f, o)   == IF f = "svc" THEN o.port ELSE o.conf

Mine(objects, f, i, a) ==
    objects[Made(f, i)] # Absent /\ objects[Made(f, i)].app = a
Right(objects, f, i, a, w) ==
    IF w = None(f) THEN i = 0
    ELSE i \in Ids /\ Mine(objects, f, i, a) /\ Held(f, objects[Made(f, i)]) = w

(* Of the kind f, deployment a has object n, which holds w, and no other.  *)
Has(objects, f, a, n, w) ==
    /\ Right(objects, f, n, a, w)
    /\ \A i \in Ids : Mine(objects, f, i, a) => i = n

(* A stored deployment passed the checks, or has nothing of ours.          *)
Sound(o) == IF Valid(o.ask) THEN o.side.vol # 0
            ELSE ~HasKeys(o) /\ o.side.img = Unset

Name(f, o)    == IF o = Absent THEN 0 ELSE o[f]
Wish(f, o)    == IF o = Absent THEN None(f) ELSE Want(f, o.ask)

Settled(objects, a) ==
    LET o == objects[App(a)]
    IN  /\ o # Absent => Sound(o)
        /\ \A f \in Fields : Has(objects, f, a, Name(f, o), Wish(f, o))

(* What the request q is to make of the deployment.                        *)
Result(q) == IF q.op = "delete" THEN Absent ELSE Patched(q)

(* How far the handler of q is with the kind f.                            *)
Before(f, q) ==
    \/ q.pc \in {"admit", "addService", "refuse"}
    \/ q.pc = "dropService" /\ (f = "cm" \/ q.op = "delete")
    \/ q.pc = "addConfig" /\ f = "cm"
    \/ q.pc = "dropConfig" /\ f = "cm" /\ q.op = "delete"
Between(f, q) ==
    /\ q.op = "update"
    /\ q.pc = IF f = "svc" THEN "dropService" ELSE "dropConfig"

(* The old object of the kind is there, and the cache knows it.            *)
OldThere(objects, events, f, q) ==
    Name(f, q.old) # 0 =>
        /\ Name(f, q.old) \in Ids /\ Mine(objects, f, Name(f, q.old), q.app)
        /\ events[Made(f, Name(f, q.old))] = <<>>

NotYet(objects, events, f, q) ==
    /\ q[f] = 0 /\ OldThere(objects, events, f, q)
    /\ Has(objects, f, q.app, Name(f, q.old), Wish(f, q.old))
Both(objects, events, f, q) ==
    /\ OldThere(objects, events, f, q)
    /\ Right(objects, f, q[f], q.app, Want(f, q.new.ask))
    /\ q[f] # 0 => q[f] # Name(f, q.old)
    /\ \A i \in Ids : Mine(objects, f, i, q.app) => i \in {Name(f, q.old), q[f]}
Already(objects, f, q) ==
    Has(objects, f, q.app, Name(f, Result(q)), Wish(f, Result(q)))

Stage(objects, events, f, q) ==
    IF Before(f, q) THEN NotYet(objects, events, f, q)
    ELSE IF Between(f, q) THEN Both(objects, events, f, q)
    ELSE Already(objects, f, q)

(* What the request was made from.                                         *)
Origin(objects, events, q) ==
    /\ q.fate = "awaited" /\ q.old = objects[App(q.app)]
    /\ q.old # Absent => Sound(q.old)
    /\ q.op = "create" =>
           q.old = Absent /\ q.new.svc = 0 /\ q.new.cm = 0 /\ q.new.side.img = Unset
    /\ q.op = "update" =>
           /\ q.old # Absent /\ q.new.svc = q.old.svc /\ q.new.cm = q.old.cm
           /\ q.new.side = q.old.side
    /\ q.op = "delete" => q.old # Absent
    /\ q.pc = "admit" => events[App(q.app)] = <<>>

(* What the handler found out.                                             *)
OldAsk(q) == IF q.old = Absent THEN NoAsk ELSE q.old.ask
Found(q) ==
    q.op # "delete" /\ q.pc \notin {"admit", "refuse"} =>
        /\ q.changed = Changes(OldAsk(q), q.new.ask)
        /\ Valid(q.new.ask) \/ (~HasKeys(q.new) /\ q.pc = "answer" /\ q.changed = {})
        /\ q.pc \in {"addService", "dropService"} => "port" \in q.changed
        /\ q.pc \in {"addConfig", "dropConfig"} => "conf" \in q.changed
        /\ q.pc \in {"dropService", "dropConfig"} => q.op = "update"

Handled(objects, events, q) ==
    /\ Origin(objects, events, q) /\ Found(q)
    /\ \A f \in Fields : Stage(objects, events, f, q)

RestInv == \A a \in Apps : Quiet(a) => Settled(api, a)
WorkInv == \A r \in Slots : req[r] # Idle => Handled(api, stream, req[r])

AskInv == CreateInv /\ WatchInv /\ RestInv /\ WorkInv
-----------------------------------------------------------------------------
(* The kinds.                                                              *)

LEMMA Kinds ==
    ASSUME NEW f \in Fields
    PROVE  /\ Aspect(f) \in Aspects
           /\ \A ask : Want(f, ask) = IF f = "svc" THEN ask.port ELSE ask.conf
           /\ Want(f, NoAsk) = None(f)
BY DEF Aspect, Want, None, Aspects, NoAsk, Fields

(* An aspect that did not change is wanted as before.                      *)
LEMMA SameWant ==
    ASSUME NEW f \in Fields, NEW ask \in Allowed, NEW old \in Allowed,
           Aspect(f) \notin Changes(old, ask)
    PROVE  Want(f, ask) = Want(f, old)
<1>1. CASE f = "svc"
  <2>1. ask["port"] = old["port"] BY <1>1 DEF Aspect, Changes, Aspects
  <2>2. QED BY <1>1, <2>1 DEF Want
<1>2. CASE f = "cm"
  <2>1. ask["conf"] = old["conf"] BY <1>2 DEF Aspect, Changes, Aspects
  <2>2. QED BY <1>2, <2>1 DEF Want
<1>3. QED BY <1>1, <1>2 DEF Fields

LEMMA ChangedWant ==
    ASSUME NEW f \in Fields, NEW ask, Aspect(f) \in Changes(NoAsk, ask)
    PROVE  Want(f, ask) # None(f)
<1>1. CASE f = "svc"
  <2>1. ask["port"] # NoAsk["port"] BY <1>1 DEF Aspect, Changes
  <2>2. QED BY <1>1, <2>1 DEF Want, None, NoAsk
<1>2. CASE f = "cm"
  <2>1. ask["conf"] # NoAsk["conf"] BY <1>2 DEF Aspect, Changes
  <2>2. QED BY <1>2, <2>1 DEF Want, None, NoAsk
<1>3. QED BY <1>1, <1>2 DEF Fields

(* What the patch makes of the names.                                      *)
LEMMA ResultName ==
    ASSUME NEW q \in Requests, NEW f \in Fields
    PROVE  /\ q.op = "delete" => Name(f, Result(q)) = 0 /\ Wish(f, Result(q)) = None(f)
           /\ q.op # "delete" =>
                  /\ Name(f, Result(q)) = IF q.op = "create" \/ Aspect(f) \in q.changed
                                          THEN q[f] ELSE q.new[f]
                  /\ Wish(f, Result(q)) = Want(f, q.new.ask)
<1>1. CASE q.op = "delete" BY <1>1 DEF Result, Name, Wish
<1>2. CASE q.op # "delete"
  <2>1. Patched(q) \in AppObject /\ Patched(q) # Absent BY PatchedType, AbsentAssumption
  <2>2. q.new \in AppObject BY DEF Requests
  <2>3. /\ Patched(q).svc = IF q.op = "create" \/ "port" \in q.changed THEN q.svc ELSE q.new.svc
        /\ Patched(q).cm = IF q.op = "create" \/ "conf" \in q.changed THEN q.cm ELSE q.new.cm
        /\ Patched(q).ask = q.new.ask
    BY <2>2 DEF Patched, AppObject
  <2>4. Result(q) = Patched(q) BY <1>2 DEF Result
  <2>5. QED BY <1>2, <2>1, <2>3, <2>4 DEF Name, Wish, Want, Aspect, Fields
<1>3. QED BY <1>1, <1>2

-----------------------------------------------------------------------------
(* One kind of object, through the steps of a handler.                     *)

(* What the world looks like to deployment a, as far as the kind f goes,   *)
(* is the same in two states.                                              *)
Alike(f, a, objects, events, objects2, events2) ==
    \A i \in Ids :
        /\ Mine(objects2, f, i, a) <=> Mine(objects, f, i, a)
        /\ Mine(objects, f, i, a) => objects2[Made(f, i)] = objects[Made(f, i)]
        /\ events[Made(f, i)] = <<>> /\ Mine(objects, f, i, a)
               => events2[Made(f, i)] = <<>>

LEMMA HasAlike ==
    ASSUME NEW f, NEW a, NEW objects, NEW events, NEW objects2, NEW events2,
           Alike(f, a, objects, events, objects2, events2), NEW n, NEW w
    PROVE  /\ Right(objects, f, n, a, w) => Right(objects2, f, n, a, w)
           /\ Has(objects, f, a, n, w) => Has(objects2, f, a, n, w)
BY DEF Alike, Has, Right

LEMMA StageAlike ==
    ASSUME NEW f \in Fields, NEW q \in Requests, NEW p \in Requests,
           NEW objects, NEW events, NEW objects2, NEW events2,
           Alike(f, q.app, objects, events, objects2, events2),
           p.app = q.app, p.op = q.op, p.old = q.old, p.new = q.new, p[f] = q[f]
    PROVE  /\ NotYet(objects, events, f, q) => NotYet(objects2, events2, f, p)
           /\ Both(objects, events, f, q) => Both(objects2, events2, f, p)
           /\ p.changed = q.changed /\ Already(objects, f, q) => Already(objects2, f, p)
<1>1. OldThere(objects, events, f, q) => OldThere(objects2, events2, f, p)
  BY DEF OldThere, Alike
<1>2. NotYet(objects, events, f, q) => NotYet(objects2, events2, f, p)
  BY <1>1, HasAlike DEF NotYet
<1>3. Both(objects, events, f, q) => Both(objects2, events2, f, p)
  <2>1. Right(objects, f, q[f], q.app, Want(f, q.new.ask))
            => Right(objects2, f, p[f], p.app, Want(f, p.new.ask))
    BY HasAlike
  <2>2. (\A i \in Ids : Mine(objects, f, i, q.app) => i \in {Name(f, q.old), q[f]})
            => \A i \in Ids : Mine(objects2, f, i, p.app) => i \in {Name(f, p.old), p[f]}
    BY DEF Alike
  <2>3. QED BY <1>1, <2>1, <2>2 DEF Both
<1>4. p.changed = q.changed /\ Already(objects, f, q) => Already(objects2, f, p)
  <2>1. p.changed = q.changed => /\ Name(f, Result(p)) = Name(f, Result(q))
                                 /\ Wish(f, Result(p)) = Wish(f, Result(q))
    BY ResultName
  <2>2. QED BY <2>1, HasAlike DEF Already
<1>5. QED BY <1>2, <1>3, <1>4

(* Nothing is to be done for an aspect that did not change.                *)
LEMMA Skip ==
    ASSUME NEW f \in Fields, NEW q \in Requests, NEW objects, NEW events,
           Origin(objects, events, q), q.op # "delete",
           q.changed = Changes(OldAsk(q), q.new.ask), Aspect(f) \notin q.changed,
           NotYet(objects, events, f, q)
    PROVE  Already(objects, f, q)
<1>1. q.new.ask \in Allowed /\ q.old \in Optional(AppObject) /\ NoAsk \in Allowed
  BY DEF Requests, AppObject, Allowed
<1>2. OldAsk(q) \in Allowed BY <1>1 DEF OldAsk, Optional, AppObject
<1>3. Want(f, q.new.ask) = Want(f, OldAsk(q)) BY <1>1, <1>2, SameWant
<1>4. Want(f, OldAsk(q)) = Wish(f, q.old) BY Kinds DEF OldAsk, Wish
<1>5. Name(f, Result(q)) = Name(f, q.old)
  <2>1. CASE q.op = "create" BY <2>1, ResultName DEF Origin, Name, NotYet
  <2>2. CASE q.op = "update"
    <3>1. q.new[f] = q.old[f] /\ q.old # Absent BY <2>2 DEF Origin, Fields
    <3>2. QED BY <2>2, <3>1, ResultName DEF Name
  <2>3. QED BY <2>1, <2>2 DEF Requests
<1>6. Wish(f, Result(q)) = Wish(f, q.old) BY <1>3, <1>4, ResultName
<1>7. QED BY <1>5, <1>6 DEF NotYet, Already

(* Nothing of the kind is wanted any more: the old one is to go.           *)
LEMMA NotYetBoth ==
    ASSUME NEW f \in Fields, NEW q, NEW objects, NEW events,
           NotYet(objects, events, f, q), Want(f, q.new.ask) = None(f)
    PROVE  Both(objects, events, f, q)
BY DEF NotYet, Both, Has, Right

(* The old one is gone.                                                    *)
LEMMA BothAlready ==
    ASSUME NEW f \in Fields, NEW q \in Requests, NEW objects, NEW events,
           Both(objects, events, f, q), Name(f, q.old) = 0,
           q.op # "delete", Aspect(f) \in q.changed
    PROVE  Already(objects, f, q)
<1>1. Name(f, Result(q)) = q[f] /\ Wish(f, Result(q)) = Want(f, q.new.ask)
  BY ResultName
<1>2. \A i \in Ids : i # 0 BY DEF Ids
<1>3. QED BY <1>1, <1>2 DEF Both, Already, Has

(* A new object is made beside the old one.                                *)
LEMMA MakeBoth ==
    ASSUME NEW f \in Fields, NEW q \in Requests, NEW p \in Requests,
           NEW objects, NEW events, NEW m \in Ids, NEW o, NEW more,
           DOMAIN objects = Keys, DOMAIN events = Keys, objects[Made(f, m)] = Absent,
           o # Absent, o.app = q.app, Held(f, o) = Want(f, q.new.ask),
           Want(f, q.new.ask) # None(f),
           NotYet(objects, events, f, q),
           p.app = q.app, p.old = q.old, p.new = q.new, p[f] = m
    PROVE  Both([objects EXCEPT ![Made(f, m)] = o], [events EXCEPT ![Made(f, m)] = more], f, p)
<1> DEFINE k == Made(f, m)
           objects2 == [objects EXCEPT ![k] = o]
           events2 == [events EXCEPT ![k] = more]
<1>1. /\ objects2[k] = o
      /\ \A i \in Ids : i # m => /\ objects2[Made(f, i)] = objects[Made(f, i)]
                                 /\ events2[Made(f, i)] = events[Made(f, i)]
  BY KeysDiffer
<1>2. Mine(objects2, f, m, q.app) /\ ~Mine(objects, f, m, q.app) BY <1>1 DEF Mine
<1>3. \A i \in Ids : i # m => (Mine(objects2, f, i, q.app) <=> Mine(objects, f, i, q.app))
  BY <1>1 DEF Mine
<1>4. m # 0 BY DEF Ids
<1> HIDE DEF objects2, events2
<1>5. OldThere(objects2, events2, f, p)
  <2>1. Name(f, q.old) # 0 => Name(f, q.old) # m BY <1>2 DEF NotYet, OldThere
  <2>2. QED BY <1>1, <1>3, <2>1 DEF NotYet, OldThere
<1>6. Right(objects2, f, m, q.app, Want(f, q.new.ask))
  BY <1>1, <1>2 DEF Right
<1>7. p[f] # Name(f, p.old) BY <1>2, <1>4 DEF NotYet, OldThere
<1>8. \A i \in Ids : Mine(objects2, f, i, p.app) => i \in {Name(f, p.old), p[f]}
  BY <1>3 DEF NotYet, Has
<1>9. QED BY <1>5, <1>6, <1>7, <1>8 DEF Both, objects2, events2

(* An object is deleted, and the other ones stay.                          *)
LEMMA Without ==
    ASSUME NEW f \in Fields, NEW a, NEW objects, NEW n \in Ids, DOMAIN objects = Keys
    PROVE  LET objects2 == [objects EXCEPT ![Made(f, n)] = Absent]
           IN  /\ ~Mine(objects2, f, n, a)
               /\ \A i \in Ids : i # n =>
                      /\ objects2[Made(f, i)] = objects[Made(f, i)]
                      /\ Mine(objects2, f, i, a) <=> Mine(objects, f, i, a)
<1> DEFINE objects2 == [objects EXCEPT ![Made(f, n)] = Absent]
<1>1. /\ objects2[Made(f, n)] = Absent
      /\ \A i \in Ids : i # n => objects2[Made(f, i)] = objects[Made(f, i)]
  BY KeysDiffer
<1> HIDE DEF objects2
<1>2. QED BY <1>1 DEF Mine, objects2

(* The old one is deleted: an update has only the new one, and a           *)
(* deployment that goes has none.                                          *)
LEMMA DropOld ==
    ASSUME NEW f \in Fields, NEW q \in Requests, NEW p \in Requests,
           NEW objects, NEW events, DOMAIN objects = Keys,
           p.app = q.app, p.op = q.op, p.old = q.old, p.new = q.new, p[f] = q[f],
           p.changed = q.changed, Name(f, q.old) \in Ids,
           \/ q.op = "update" /\ Both(objects, events, f, q) /\ Aspect(f) \in q.changed
           \/ q.op = "delete" /\ NotYet(objects, events, f, q)
    PROVE  Already([objects EXCEPT ![Made(f, Name(f, q.old))] = Absent], f, p)
<1> DEFINE n == Name(f, q.old)
           objects2 == [objects EXCEPT ![Made(f, n)] = Absent]
<1>1. /\ ~Mine(objects2, f, n, q.app)
      /\ \A i \in Ids : i # n =>
             /\ objects2[Made(f, i)] = objects[Made(f, i)]
             /\ Mine(objects2, f, i, q.app) <=> Mine(objects, f, i, q.app)
  BY Without
<1> HIDE DEF objects2
<1>2. CASE q.op = "update" /\ Both(objects, events, f, q) /\ Aspect(f) \in q.changed
  <2>1. Name(f, Result(p)) = q[f] /\ Wish(f, Result(p)) = Want(f, q.new.ask)
    BY <1>2, ResultName
  <2>2. Right(objects2, f, q[f], q.app, Want(f, q.new.ask))
    <3>1. q[f] # n \/ q[f] = 0 BY <1>2 DEF Both
    <3>2. QED BY <1>1, <1>2, <3>1 DEF Both, Right, Ids
  <2>3. \A i \in Ids : Mine(objects2, f, i, q.app) => i = q[f]
    BY <1>1, <1>2 DEF Both
  <2>4. QED BY <2>1, <2>2, <2>3 DEF Already, Has, objects2
<1>3. CASE q.op = "delete" /\ NotYet(objects, events, f, q)
  <2>1. Name(f, Result(p)) = 0 /\ Wish(f, Result(p)) = None(f) BY <1>3, ResultName
  <2>2. \A i \in Ids : ~Mine(objects2, f, i, q.app) BY <1>1, <1>3 DEF NotYet, Has
  <2>3. QED BY <2>1, <2>2 DEF Already, Has, Right, objects2
<1>4. QED BY <1>2, <1>3

-----------------------------------------------------------------------------
(* The writes, and what the cache knows of them.                           *)

Writes(k, o) ==
    /\ api' = [api EXCEPT ![k] = o]
    /\ stream' = [stream EXCEPT ![k] = Append(@, o)]
    /\ UNCHANGED cache

LEMMA WatchWrites ==
    ASSUME StoreType, StoreType', WatchInv, NEW k \in Keys, NEW o, Writes(k, o)
    PROVE  WatchInv'
<1>1. o = api'[k] /\ o \in Optional(ObjectsOf(k)) BY DEF StoreType, Writes, ObjectsOf, Optional
<1>2. stream[k] \in Seq(Optional(ObjectsOf(k))) BY DEF StoreType
<1>3. /\ Append(stream[k], o) # <<>>
      /\ Append(stream[k], o)[Len(Append(stream[k], o))] = o
  BY <1>1, <1>2
<1>4. stream'[k] = Append(stream[k], o) BY DEF Writes, StoreType
<1>5. Known(k)' = api'[k] BY <1>1, <1>3, <1>4 DEF Known
<1>6. \A j \in Keys : j # k => api'[j] = api[j] /\ stream'[j] = stream[j] /\ cache' = cache
  BY DEF Writes, StoreType
<1>7. QED BY <1>5, <1>6 DEF WatchInv, Known

LEMMA WatchAdvance ==
    ASSUME StoreType, WatchInv, NEW k \in Keys, Advance(k)
    PROVE  WatchInv'
<1> DEFINE S == Optional(ObjectsOf(k))
<1>1. stream[k] \in Seq(S) /\ stream[k] # <<>> BY DEF StoreType, Advance
<1>2. cache'[k] = Head(stream[k]) /\ stream'[k] = Tail(stream[k]) /\ api' = api
  BY DEF StoreType, Advance
<1>3. stream[k][Len(stream[k])] = api[k] BY <1>1 DEF WatchInv, Known
<1> HIDE DEF S
<1>4. CASE Tail(stream[k]) = <<>>
  <2>0. Len(Tail(stream[k])) = Len(stream[k]) - 1 /\ Len(stream[k]) \in Nat BY <1>1
  <2>1. Len(stream[k]) = 1
    <3>1. Len(<<>>) = 0 OBVIOUS
    <3>2. Len(Tail(stream[k])) = 0 BY <1>4, <3>1, Zenon
    <3>3. QED BY <2>0, <3>2
  <2>2. Head(stream[k]) = stream[k][1] BY <1>1
  <2>3. Known(k)' = api'[k] BY <1>2, <1>3, <1>4, <2>1, <2>2 DEF Known
  <2>4. QED BY <2>3 DEF WatchInv, Known, Advance, StoreType
<1>5. CASE Tail(stream[k]) # <<>>
  <2>1. /\ Len(stream[k]) \in Nat /\ Len(stream[k]) > 1
        /\ Len(Tail(stream[k])) = Len(stream[k]) - 1
    BY <1>1, <1>5
  <2>2. Tail(stream[k])[Len(stream[k]) - 1] = stream[k][Len(stream[k])]
    BY <1>1, <2>1
  <2>3. Known(k)' = api'[k] BY <1>2, <1>3, <1>5, <2>1, <2>2 DEF Known
  <2>4. QED BY <2>3 DEF WatchInv, Known, Advance, StoreType
<1>6. QED BY <1>4, <1>5

(* A write of an object of a deployment is nothing to another deployment.  *)
LEMMA WriteAlike ==
    ASSUME StoreType, NEW k \in Keys, NEW o, Writes(k, o), NEW f \in Fields, NEW a,
           \A i \in Ids : k = Made(f, i) =>
               ~Mine(api, f, i, a) /\ (o # Absent => o.app # a)
    PROVE  Alike(f, a, api, stream, api', stream')
<1> SUFFICES ASSUME NEW i \in Ids
             PROVE  /\ Mine(api', f, i, a) <=> Mine(api, f, i, a)
                    /\ Mine(api, f, i, a) => api'[Made(f, i)] = api[Made(f, i)]
                    /\ stream[Made(f, i)] = <<>> /\ Mine(api, f, i, a)
                           => stream'[Made(f, i)] = <<>>
  BY DEF Alike
<1>1. CASE k = Made(f, i)
  <2>1. api'[Made(f, i)] = o BY <1>1 DEF Writes, StoreType
  <2>2. QED BY <1>1, <2>1 DEF Mine
<1>2. CASE k # Made(f, i)
  <2>1. api'[Made(f, i)] = api[Made(f, i)] /\ stream'[Made(f, i)] = stream[Made(f, i)]
    BY <1>2, KeysDiffer DEF Writes, StoreType
  <2>2. QED BY <2>1 DEF Mine
<1>3. QED BY <1>1, <1>2

LEMMA StillAlike ==
    ASSUME UNCHANGED api, NEW f, NEW a,
           \A i \in Ids : stream[Made(f, i)] = <<>> => stream'[Made(f, i)] = <<>>
    PROVE  Alike(f, a, api, stream, api', stream')
BY DEF Alike, Mine

(* Deployment b sees nothing of a step.                                    *)
Unseen(b) ==
    /\ api'[App(b)] = api[App(b)]
    /\ stream[App(b)] = <<>> => stream'[App(b)] = <<>>
    /\ \A f \in Fields : Alike(f, b, api, stream, api', stream')

LEMMA UnseenSettled ==
    ASSUME NEW b, Unseen(b), Settled(api, b)
    PROVE  Settled(api', b)
BY HasAlike DEF Unseen, Settled

(* What a request keeps all the time.                                      *)
Carried(p, q) ==
    p.app = q.app /\ p.op = q.op /\ p.old = q.old /\ p.new = q.new /\ p.fate = q.fate

LEMMA OriginOn ==
    ASSUME NEW q, NEW p, Origin(api, stream, q), api'[App(q.app)] = api[App(q.app)],
           Carried(p, q),
           p.pc = "admit" => stream'[App(q.app)] = <<>>
    PROVE  Origin(api', stream', p)
BY DEF Origin, Carried

LEMMA UnseenHandled ==
    ASSUME NEW q \in Requests, Unseen(q.app), Handled(api, stream, q)
    PROVE  Handled(api', stream', q)
<1>1. Origin(api', stream', q) BY OriginOn DEF Unseen, Handled, Carried, Origin
<1>2. ASSUME NEW f \in Fields PROVE Stage(api', stream', f, q)
  BY StageAlike DEF Unseen, Handled, Stage
<1>3. QED BY <1>1, <1>2 DEF Handled

(* A step that writes nothing is seen by nobody.                           *)
LEMMA NoWriteUnseen ==
    ASSUME UNCHANGED <<api, stream>>
    PROVE  \A b : Unseen(b)
BY StillAlike DEF Unseen

(* What a handler writes for a deployment is seen by no other one, and it  *)
(* is of one kind.                                                         *)
LEMMA WriteUnseen ==
    ASSUME TypeInv, NEW f \in Fields, NEW i \in Ids, NEW a \in Apps, NEW o,
           Writes(Made(f, i), o),
           api[Made(f, i)] = Absent \/ api[Made(f, i)].app = a, o = Absent \/ o.app = a
    PROVE  /\ \A b \in Apps : b # a => Unseen(b)
           /\ api'[App(a)] = api[App(a)]
           /\ \A g \in Fields : g # f => Alike(g, a, api, stream, api', stream')
<1>1. StoreType /\ Made(f, i) \in Keys BY KeysDiffer DEF TypeInv
<1>2. \A b \in Apps : api'[App(b)] = api[App(b)] /\ stream'[App(b)] = stream[App(b)]
  <2>1. \A b \in Apps : App(b) \in Keys /\ App(b) # Made(f, i) BY KeyKinds, KeysDiffer
  <2>2. QED BY <1>1, <2>1 DEF Writes, StoreType
<1>3. ASSUME NEW g \in Fields, NEW b \in Apps, g # f \/ b # a
      PROVE  Alike(g, b, api, stream, api', stream')
  <2>1. \A j \in Ids : Made(f, i) = Made(g, j) =>
            ~Mine(api, g, j, b) /\ (o # Absent => o.app # b)
    BY <1>3, KeysDiffer DEF Mine
  <2>2. QED BY <1>1, <2>1, WriteAlike
<1>4. QED BY <1>2, <1>3 DEF Unseen

LEMMA StoreUnseen ==
    ASSUME TypeInv, NEW a \in Apps, NEW o, Writes(App(a), o)
    PROVE  /\ \A b \in Apps : b # a => Unseen(b)
           /\ api'[App(a)] = o
           /\ \A g \in Fields : Alike(g, a, api, stream, api', stream')
<1>1. StoreType /\ App(a) \in Keys BY KeyKinds DEF TypeInv
<1>2. \A b \in Apps : b # a => App(b) \in Keys /\ App(b) # App(a) BY KeyKinds, KeysDiffer
<1>3. /\ api'[App(a)] = o
      /\ \A b \in Apps : b # a =>
             api'[App(b)] = api[App(b)] /\ stream'[App(b)] = stream[App(b)]
  BY <1>1, <1>2 DEF Writes, StoreType
<1>4. \A g \in Fields, b \in Apps : Alike(g, b, api, stream, api', stream')
  BY <1>1, WriteAlike, KeysDiffer
<1>5. QED BY <1>3, <1>4 DEF Unseen

-----------------------------------------------------------------------------
(* The steps of the handlers.                                              *)

(* A step of the handler of r that only its deployment sees is good for    *)
(* all when it is good for r.                                              *)
LEMMA RequestStep ==
    ASSUME AskInv, OneAtATime, NEW r \in Slots, req[r] # Idle,
           \A t \in Slots \ {r} : req'[t] = req[t],
           \A b \in Apps : b # req[r].app => Unseen(b),
           req'[r] # Idle => /\ req'[r].app = req[r].app
                             /\ Handled(api', stream', req'[r]),
           req'[r] = Idle => Settled(api', req[r].app)
    PROVE  RestInv' /\ WorkInv'
<1>1. RestInv'
  <2> SUFFICES ASSUME NEW b \in Apps, Quiet(b)' PROVE Settled(api', b) BY DEF RestInv
  <2>1. CASE b = req[r].app BY <2>1 DEF Quiet
  <2>2. CASE b # req[r].app
    <3>1. Quiet(b) BY <2>2 DEF Quiet
    <3>2. Settled(api, b) BY <3>1 DEF AskInv, RestInv
    <3>3. QED BY <2>2, <3>2, UnseenSettled
  <2>3. QED BY <2>1, <2>2
<1>2. WorkInv'
  <2> SUFFICES ASSUME NEW t \in Slots, req'[t] # Idle PROVE Handled(api', stream', req'[t])
    BY DEF WorkInv
  <2>1. CASE t = r BY <2>1
  <2>2. CASE t # r
    <3>1. req'[t] = req[t] /\ req[t] # Idle BY <2>2
    <3>2. req[t] \in Requests /\ req[t].app \in Apps
      BY <3>1, Loaded DEF AskInv, CreateInv
    <3>3. req[t].app # req[r].app BY <2>2, <3>1 DEF OneAtATime
    <3>4. Handled(api, stream, req[t]) BY <3>1 DEF AskInv, WorkInv
    <3>5. QED BY <3>1, <3>2, <3>3, <3>4, UnseenHandled
  <2>3. QED BY <2>1, <2>2
<1>3. QED BY <1>1, <1>2

LEMMA GotoCarries ==
    ASSUME TypeInv, NEW r \in Slots, req[r] # Idle, NEW pc \in Stages, Goto(r, pc)
    PROVE  /\ req'[r] \in Requests /\ req'[r].pc = pc /\ Carried(req'[r], req[r])
           /\ \A f \in Fields : req'[r][f] = req[r][f]
           /\ req'[r].changed = req[r].changed
           /\ \A t \in Slots \ {r} : req'[t] = req[t]
<1>1. req[r] \in Requests /\ DOMAIN req = Slots BY Loaded
<1>2. QED BY <1>1 DEF Goto, Requests, Carried, Fields

LEMMA NotIdle == ASSUME NEW q \in Requests PROVE q # Idle
<1>1. q.pc \in Stages BY DEF Requests
<1>2. QED BY <1>1 DEF Idle, Stages

(* What is known of a request in a slot.                                   *)
LEMMA AtWork ==
    ASSUME AskInv, NEW r \in Slots, NEW pc \in Stages, At(r, pc)
    PROVE  /\ req[r] \in Requests /\ req[r] # Idle /\ req[r].pc = pc /\ req[r].app \in Apps
           /\ Shape(req[r]) /\ Handled(api, stream, req[r])
           /\ TypeInv /\ OwnInv /\ WatchInv /\ DOMAIN api = Keys /\ DOMAIN stream = Keys
<1>1. req[r] \in Requests /\ req[r] # Idle /\ Shape(req[r])
  BY Busy DEF AskInv, CreateInv
<1>2. QED BY <1>1 DEF AskInv, CreateInv, WorkInv, At, Requests, TypeInv, StoreType

(* What changed is found against what is stored, so that the handler goes  *)
(* on to what is missing.                                                  *)
LEMMA JudgeHandled ==
    ASSUME NEW q \in Requests, NEW p \in Requests, NEW objects, NEW events,
           q.pc = "admit", q.op # "delete", Handled(objects, events, q),
           Carried(p, q), \A f \in Fields : p[f] = q[f],
           \/ /\ p.pc = "answer" /\ p.changed = {} /\ ~HasKeys(q.new)
              /\ q.op = "update" => Changes(OldAsk(q), q.new.ask) = {}
           \/ /\ p.changed = Changes(OldAsk(q), q.new.ask)
              /\ p.pc = "refuse" \/ (Valid(q.new.ask) /\ p.pc = AfterAdmit(p))
    PROVE  Handled(objects, events, p)
<1> USE DEF Carried
<1>0. q.op \in {"create", "update"} BY DEF Requests
<1>1. Origin(objects, events, p) BY DEF Handled, Origin
<1>2. \A f \in Fields : NotYet(objects, events, f, q) BY DEF Handled, Stage, Before
<1>3. \A f \in Fields : NotYet(objects, events, f, p)
  <2>1. \A f \in Fields : Alike(f, q.app, objects, events, objects, events)
    BY DEF Alike
  <2>2. QED BY <1>2, <2>1, StageAlike
<1>4. OldAsk(p) = OldAsk(q) BY DEF OldAsk
<1>5. CASE /\ p.pc = "answer" /\ p.changed = {} /\ ~HasKeys(q.new)
           /\ q.op = "update" => Changes(OldAsk(q), q.new.ask) = {}
  <2>1. Changes(NoAsk, NoAsk) = {} BY DEF Changes
  <2>2. p.changed = Changes(OldAsk(p), p.new.ask)
    BY <1>0, <1>1, <1>4, <1>5, <2>1 DEF Origin, OldAsk, HasKeys
  <2>3. \A f \in Fields : Already(objects, f, p)
    BY <1>1, <1>3, <1>5, <2>2, Skip
  <2>4. QED BY <1>1, <1>5, <2>2, <2>3 DEF Handled, Found, Stage, Before, Between
<1>6. CASE p.changed = Changes(OldAsk(q), q.new.ask) /\ p.pc = "refuse"
  BY <1>1, <1>3, <1>6 DEF Handled, Found, Stage, Before
<1>7. CASE /\ p.changed = Changes(OldAsk(q), q.new.ask)
           /\ Valid(q.new.ask) /\ p.pc = AfterAdmit(p)
  <2>1. \A f \in Fields : Aspect(f) \notin p.changed => Already(objects, f, p)
    BY <1>1, <1>3, <1>4, <1>7, Skip
  <2>2. /\ "port" \notin p.changed => Already(objects, "svc", p)
        /\ "conf" \notin p.changed => Already(objects, "cm", p)
    BY <2>1 DEF Aspect, Fields
  <2>3. CASE p.pc = "addService"
    <3>1. "port" \in p.changed BY <1>7, <2>3 DEF AfterAdmit, AfterService
    <3>2. QED BY <1>1, <1>3, <1>4, <1>7, <2>3, <3>1 DEF Handled, Found, Stage, Before
  <2>4. CASE p.pc = "dropService"
    <3>1. "port" \in p.changed /\ q.new.ask.port = Unset
      BY <1>7, <2>4 DEF AfterAdmit, AfterService
    <3>2. Want("svc", q.new.ask) = None("svc") BY <3>1 DEF Want, None
    <3>3. q.op = "update"
      <4>1. q.op = "create" => OldAsk(q) = NoAsk BY <1>1 DEF Origin, OldAsk
      <4>2. "port" \in Changes(NoAsk, q.new.ask) => Want("svc", q.new.ask) # None("svc")
        BY ChangedWant DEF Aspect, Fields
      <4>3. QED BY <1>0, <1>7, <3>1, <3>2, <4>1, <4>2
    <3>4. Both(objects, events, "svc", p) BY <1>3, <3>2, NotYetBoth DEF Fields
    <3>5. Found(p) BY <1>4, <1>7, <2>4, <3>1, <3>3 DEF Found
    <3>6. QED BY <1>1, <1>3, <2>4, <3>3, <3>4, <3>5
      DEF Handled, Stage, Before, Between, Fields
  <2>5. CASE p.pc = "addConfig"
    <3>1. "port" \notin p.changed /\ "conf" \in p.changed
      BY <1>7, <2>5 DEF AfterAdmit, AfterService
    <3>2. QED BY <1>1, <1>3, <1>4, <1>7, <2>2, <2>5, <3>1
      DEF Handled, Found, Stage, Before, Between, Fields
  <2>6. CASE p.pc = "answer"
    <3>1. "port" \notin p.changed /\ "conf" \notin p.changed
      BY <1>7, <2>6 DEF AfterAdmit, AfterService
    <3>2. QED BY <1>1, <1>4, <1>7, <2>2, <2>6, <3>1
      DEF Handled, Found, Stage, Before, Between, Fields
  <2>7. QED BY <1>7, <2>3, <2>4, <2>5, <2>6 DEF AfterAdmit, AfterService
<1>8. QED BY <1>5, <1>6, <1>7

LEMMA JudgeStep ==
    ASSUME AskInv, OneAtATime, NEW r \in Slots, At(r, "admit"), req[r].op # "delete",
           Judge(r, OldAsk(req[r])), UNCHANGED kubeVars
    PROVE  RestInv' /\ WorkInv'
<1> DEFINE q == req[r]
           q1 == [q EXCEPT !.changed = Changes(OldAsk(q), q.new.ask)]
<1>1. /\ q \in Requests /\ q # Idle /\ q.pc = "admit" /\ q.app \in Apps
      /\ Handled(api, stream, q) /\ DOMAIN req = Slots
  BY AtWork DEF Stages, AskInv, CreateInv, TypeInv, ReqType
<1>2. q1 \in Requests /\ Carried(q1, q) /\ q1.changed = Changes(OldAsk(q), q.new.ask)
      /\ \A f \in Fields : q1[f] = q[f]
  <2>1. Changes(OldAsk(q), q.new.ask) \in SUBSET Aspects BY DEF Changes
  <2>2. QED BY <1>1, <2>1 DEF Requests, Carried, Fields
<1>3. \E p \in Requests :
          /\ req'[r] = p /\ \A t \in Slots \ {r} : req'[t] = req[t]
          /\ Carried(p, q) /\ \A f \in Fields : p[f] = q[f]
          /\ \/ /\ p.pc = "answer" /\ p.changed = {} /\ ~HasKeys(q.new)
                /\ q.op = "update" => Changes(OldAsk(q), q.new.ask) = {}
             \/ /\ p.changed = Changes(OldAsk(q), q.new.ask)
                /\ p.pc = "refuse" \/ (Valid(q.new.ask) /\ p.pc = AfterAdmit(p))
  <2>1. CASE /\ ~(HasKeys(q1.new) \/ (q1.op = "update" /\ q1.changed # {}))
             /\ req' = [req EXCEPT ![r] = [q1 EXCEPT !.pc = "answer", !.changed = {}]]
    <3> DEFINE p == [q1 EXCEPT !.pc = "answer", !.changed = {}]
    <3>1. /\ p \in Requests /\ Carried(p, q) /\ p.pc = "answer" /\ p.changed = {}
          /\ \A f \in Fields : p[f] = q[f]
      BY <1>2 DEF Requests, Stages, Carried, Fields
    <3>2. req'[r] = p /\ \A t \in Slots \ {r} : req'[t] = req[t] BY <1>1, <2>1
    <3>3. ~HasKeys(q.new) /\ (q.op = "update" => Changes(OldAsk(q), q.new.ask) = {})
      BY <1>2, <2>1 DEF Carried
    <3> HIDE DEF p
    <3>4. QED BY <3>1, <3>2, <3>3
  <2>2. CASE req' = [req EXCEPT ![r] = [q1 EXCEPT !.pc = "refuse"]]
    <3> DEFINE p == [q1 EXCEPT !.pc = "refuse"]
    <3>1. /\ p \in Requests /\ Carried(p, q) /\ p.pc = "refuse" /\ p.changed = q1.changed
          /\ \A f \in Fields : p[f] = q[f]
      BY <1>2 DEF Requests, Stages, Carried, Fields
    <3>2. req'[r] = p /\ \A t \in Slots \ {r} : req'[t] = req[t] BY <1>1, <2>2
    <3> HIDE DEF p
    <3>3. QED BY <1>2, <3>1, <3>2
  <2>3. CASE /\ Valid(q1.new.ask)
             /\ req' = [req EXCEPT ![r] = [q1 EXCEPT !.pc = AfterAdmit(q1)]]
    <3> DEFINE p == [q1 EXCEPT !.pc = AfterAdmit(q1)]
    <3>0. AfterAdmit(q1) \in Stages BY DEF AfterAdmit, AfterService, Stages
    <3>1. /\ p \in Requests /\ Carried(p, q) /\ p.pc = AfterAdmit(q1)
          /\ p.changed = q1.changed /\ \A f \in Fields : p[f] = q[f]
      BY <1>2, <3>0 DEF Requests, Carried, Fields
    <3>2. req'[r] = p /\ \A t \in Slots \ {r} : req'[t] = req[t] BY <1>1, <2>3
    <3> HIDE DEF p
    <3>3. AfterAdmit(p) = AfterAdmit(q1)
      BY <1>2, <3>1 DEF AfterAdmit, AfterService, Carried
    <3>4. Valid(q.new.ask) BY <1>2, <2>3 DEF Carried
    <3>5. QED BY <1>2, <3>1, <3>2, <3>3, <3>4
  <2>4. QED BY <2>1, <2>2, <2>3 DEF Judge
<1>4. UNCHANGED <<api, stream>> BY DEF kubeVars
<1>5. Handled(api, stream, req'[r]) /\ req'[r].app = q.app /\ req'[r] # Idle
  BY <1>1, <1>3, JudgeHandled, NotIdle DEF Carried
<1>6. QED BY <1>1, <1>3, <1>4, <1>5, NoWriteUnseen, RequestStep

LEMMA AdmitStep ==
    ASSUME AskInv, OneAtATime, NEW r \in Slots,
           AdmitCreate(r) \/ AdmitUpdate(r) \/ AdmitDelete(r)
    PROVE  RestInv' /\ WorkInv'
<1> DEFINE q == req[r]
<1>0. At(r, "admit") /\ UNCHANGED kubeVars
  BY DEF AdmitCreate, AdmitUpdate, AdmitDelete
<1>1. /\ q \in Requests /\ q # Idle /\ q.pc = "admit" /\ q.app \in Apps
      /\ Handled(api, stream, q) /\ WatchInv /\ TypeInv
      /\ Origin(api, stream, q) /\ \A f \in Fields : NotYet(api, stream, f, q)
  BY <1>0, AtWork DEF Stages, Handled, Stage, Before
<1>2. CASE AdmitCreate(r)
  <2>1. OldAsk(q) = NoAsk BY <1>1, <1>2 DEF Origin, OldAsk, AdmitCreate
  <2>2. QED BY <1>0, <1>2, <2>1, JudgeStep DEF AdmitCreate
<1>3. CASE AdmitUpdate(r)
  <2>1. App(q.app) \in Keys BY <1>1, KeyKinds
  <2>2. cache[App(q.app)] = q.old /\ q.old # Absent
    BY <1>1, <1>3, <2>1 DEF Origin, WatchInv, Known, AdmitUpdate
  <2>3. Judge(r, OldAsk(q)) BY <1>3, <2>2 DEF AdmitUpdate, OldAsk
  <2>4. QED BY <1>0, <1>3, <2>3, JudgeStep DEF AdmitUpdate
<1>4. CASE AdmitDelete(r)
  <2> DEFINE pc == IF HasKeys(q.old) THEN "dropService" ELSE "answer"
  <2>1. q.op = "delete" /\ Goto(r, pc) /\ pc \in Stages BY <1>4 DEF AdmitDelete, Stages
  <2> DEFINE p == req'[r]
  <2>2. /\ p \in Requests /\ p.pc = pc /\ Carried(p, q) /\ \A f \in Fields : p[f] = q[f]
        /\ \A t \in Slots \ {r} : req'[t] = req[t]
    BY <1>1, <2>1, GotoCarries
  <2> HIDE DEF p
  <2>3. UNCHANGED <<api, stream>> BY <1>0 DEF kubeVars
  <2>4. Origin(api, stream, p) BY <1>1, <2>2 DEF Origin, Carried
  <2>5. Found(p) BY <2>1, <2>2 DEF Found, Carried
  <2>6. \A f \in Fields : NotYet(api, stream, f, p)
    <3>1. \A f \in Fields : Alike(f, q.app, api, stream, api, stream) BY DEF Alike
    <3>2. QED BY <1>1, <2>2, <3>1, StageAlike DEF Carried
  <2>7. CASE HasKeys(q.old)
    <3>1. \A f \in Fields : Before(f, p) BY <2>1, <2>2, <2>7 DEF Before, Carried
    <3>2. Handled(api, stream, p) BY <2>4, <2>5, <2>6, <3>1 DEF Handled, Stage
    <3>3. QED BY <1>1, <2>2, <2>3, <3>2, NoWriteUnseen, NotIdle, RequestStep DEF Carried, p
  <2>8. CASE ~HasKeys(q.old)
    <3>1. \A f \in Fields : Name(f, p.old) = 0 /\ Wish(f, p.old) = None(f)
      BY <2>2, <2>8, Kinds DEF HasKeys, Carried, Name, Wish, Fields
    <3>2. \A f \in Fields : Already(api, f, p)
      BY <2>1, <2>2, <2>6, <3>1, ResultName DEF NotYet, Already, Carried
    <3>3. \A f \in Fields : ~Before(f, p) /\ ~Between(f, p)
      BY <2>2, <2>8 DEF Before, Between
    <3>4. Handled(api, stream, p) BY <2>4, <2>5, <3>2, <3>3 DEF Handled, Stage
    <3>5. QED BY <1>1, <2>2, <2>3, <3>4, NoWriteUnseen, NotIdle, RequestStep DEF Carried, p
  <2>9. QED BY <2>7, <2>8
<1>5. QED BY <1>2, <1>3, <1>4

(* The service is as it should be, and the config map is next.             *)
LEMMA AfterServiceHandled ==
    ASSUME NEW p \in Requests, NEW objects, NEW events, Origin(objects, events, p),
           p.op # "delete", p.changed = Changes(OldAsk(p), p.new.ask), Valid(p.new.ask),
           p.pc = AfterService(p), Already(objects, "svc", p),
           NotYet(objects, events, "cm", p)
    PROVE  Handled(objects, events, p)
<1>1. CASE p.pc = "addConfig"
  <2>1. "conf" \in p.changed BY <1>1 DEF AfterService
  <2>2. QED BY <1>1, <2>1 DEF Handled, Found, Stage, Before, Between, Fields
<1>2. CASE p.pc = "answer"
  <2>1. Aspect("cm") \notin p.changed BY <1>2 DEF AfterService, Aspect
  <2>2. Already(objects, "cm", p) BY <2>1, Skip DEF Fields
  <2>3. QED BY <1>2, <2>2 DEF Handled, Found, Stage, Before, Between, Fields
<1>3. QED BY <1>1, <1>2 DEF AfterService

(* The handler makes an object of the kind f; n is its name.               *)
LEMMA MakeStep ==
    ASSUME AskInv, NEW r \in Slots, req[r] \in Requests, req[r].app \in Apps,
           NEW f \in Fields, NEW n \in Ids, n = Given[f] + 1, NEW o,
           Writes(Made(f, n), o), o # Absent, o.app = req[r].app,
           Held(f, o) = Want(f, req[r].new.ask), Want(f, req[r].new.ask) # None(f),
           Origin(api, stream, req[r]), NotYet(api, stream, f, req[r]),
           NEW p \in Requests, Carried(p, req[r]), p.pc # "admit", p[f] = n
    PROVE  /\ Both(api', stream', f, p) /\ Origin(api', stream', p)
           /\ \A b \in Apps : b # req[r].app => Unseen(b)
           /\ \A g \in Fields : g # f => Alike(g, req[r].app, api, stream, api', stream')
<1>1. /\ TypeInv /\ FreshInv /\ DOMAIN api = Keys /\ DOMAIN stream = Keys
  BY DEF AskInv, CreateInv, OwnInv, TypeInv, StoreType
<1>2. api[Made(f, n)] = Absent
  <2>1. n > Given[f] BY <1>1, Counts
  <2>2. QED BY <1>1, <2>1 DEF FreshInv
<1>3. Both(api', stream', f, p) BY <1>1, <1>2, MakeBoth DEF Writes, Carried
<1>4. /\ \A b \in Apps : b # req[r].app => Unseen(b)
      /\ api'[App(req[r].app)] = api[App(req[r].app)]
      /\ \A g \in Fields : g # f => Alike(g, req[r].app, api, stream, api', stream')
  BY <1>1, <1>2, WriteUnseen
<1>5. QED BY <1>3, <1>4, OriginOn

LEMMA PutWrites ==
    ASSUME NEW k, NEW obj, Put(k, obj), UNCHANGED cache
    PROVE  Writes(k, [obj EXCEPT !.rv = version[k] + 1])
BY DEF Put, Writes

LEMMA AddServiceStep ==
    ASSUME AskInv, OneAtATime, MaxFaults = 0, NEW r \in Slots, AddService(r)
    PROVE  RestInv' /\ WorkInv' /\ WatchInv'
<1> DEFINE q == req[r]
           p == req'[r]
<1>1. /\ q \in Requests /\ q # Idle /\ q.pc = "addService" /\ q.app \in Apps
      /\ Shape(q) /\ Handled(api, stream, q) /\ TypeInv /\ DOMAIN req = Slots
      /\ WatchInv /\ StoreType
  BY AtWork DEF Stages, AddService, AskInv, CreateInv, TypeInv, ReqType
<1>2. /\ q.op \in {"create", "update"} /\ q.new.ask.port # Unset /\ Valid(q.new.ask)
      /\ Origin(api, stream, q) /\ q.changed = Changes(OldAsk(q), q.new.ask)
      /\ "port" \in q.changed /\ \A f \in Fields : NotYet(api, stream, f, q)
  BY <1>1 DEF Shape, Handled, Found, Stage, Before, Requests
<1>3. CASE /\ services < MaxNames /\ services' = services + 1
           /\ Put(Service(services'), [rv |-> 0, app |-> q.app, port |-> q.new.ask.port])
           /\ req' = [req EXCEPT ![r].svc = services',
                                 ![r].pc = IF q.op = "update" THEN "dropService"
                                           ELSE AfterService(q)]
           /\ UNCHANGED cache
  <2> DEFINE n == services + 1
             o == [[rv |-> 0, app |-> q.app, port |-> q.new.ask.port]
                       EXCEPT !.rv = version[Service(n)] + 1]
             pc == IF q.op = "update" THEN "dropService" ELSE AfterService(q)
  <2>1. n \in Ids /\ n = Given["svc"] + 1 /\ n \in Names /\ Made("svc", n) = Service(n)
    BY <1>1, <1>3, Bounds DEF TypeInv, CountType, Given, Names, Ids, Made
  <2>2. Writes(Made("svc", n), o) BY <1>3, <2>1, PutWrites
  <2>3. /\ o.app = q.app /\ o.port = q.new.ask.port /\ o # Absent
    <3>1. o \in ServiceObject
      <4>1. q.new.ask \in Allowed BY <1>1 DEF Requests, AppObject
      <4>2. version[Service(n)] + 1 \in Nat BY <1>1, <2>1, KeyKinds DEF StoreType
      <4>3. QED BY <1>1, <1>2, <4>1, <4>2, AskFields DEF ServiceObject
    <3>2. QED BY <3>1, AbsentAssumption
  <2>4. pc \in {"dropService", "addConfig", "answer"} BY DEF AfterService
  <2>5. /\ p \in Requests /\ Carried(p, q) /\ p.pc = pc /\ p.svc = n /\ p.cm = q.cm
        /\ p.changed = q.changed /\ \A t \in Slots \ {r} : req'[t] = req[t]
    <3>1. req' = [req EXCEPT ![r] = [q EXCEPT !.svc = n, !.pc = pc]] BY <1>3
    <3> HIDE DEF pc, n
    <3>2. p = [q EXCEPT !.svc = n, !.pc = pc] /\ \A t \in Slots \ {r} : req'[t] = req[t]
      BY <1>1, <3>1
    <3> HIDE DEF p
    <3>3. QED BY <1>1, <2>1, <2>4, <3>2 DEF Requests, Stages, Carried
  <2> HIDE DEF n, o, pc, p
  <2>6. /\ Held("svc", o) = Want("svc", q.new.ask) /\ Want("svc", q.new.ask) # None("svc")
        /\ p["svc"] = n /\ p["cm"] = q["cm"]
    BY <1>2, <2>3, <2>5 DEF Held, Want, None
  <2>7. /\ Both(api', stream', "svc", p) /\ Origin(api', stream', p)
        /\ \A b \in Apps : b # q.app => Unseen(b)
        /\ Alike("cm", q.app, api, stream, api', stream')
    BY <1>1, <1>2, <2>1, <2>2, <2>3, <2>4, <2>5, <2>6, MakeStep DEF Fields
  <2>8. NotYet(api', stream', "cm", p)
    BY <1>1, <1>2, <2>5, <2>6, <2>7, StageAlike DEF Carried, Fields
  <2>9. Handled(api', stream', p)
    <3>1. CASE q.op = "update"
      <4>1. Before("cm", p) /\ ~Before("svc", p) /\ Between("svc", p)
        BY <2>5, <3>1 DEF pc, Carried, Before, Between
      <4>2. Found(p) BY <1>2, <2>5, <3>1 DEF pc, Carried, Found, OldAsk
      <4>3. QED BY <2>7, <2>8, <4>1, <4>2 DEF Handled, Stage, Fields
    <3>2. CASE q.op = "create"
      <4>1. p.pc = AfterService(p) BY <2>5, <3>2 DEF pc, AfterService
      <4>2. Name("svc", p.old) = 0 BY <2>5, <2>7, <3>2 DEF Origin, Carried, Name
      <4>3. Already(api', "svc", p)
        BY <1>2, <2>5, <2>7, <3>2, <4>2, BothAlready DEF Aspect, Carried, Fields
      <4>4. p.changed = Changes(OldAsk(p), p.new.ask) /\ Valid(p.new.ask) /\ p.op # "delete"
        BY <1>2, <2>5 DEF Carried, OldAsk
      <4>5. QED BY <2>5, <2>7, <2>8, <4>1, <4>3, <4>4, AfterServiceHandled
    <3>3. QED BY <1>2, <3>1, <3>2
  <2>10. WatchInv'
    <3>1. StoreType' BY AddServiceType DEF TypeInv, AskInv, CreateInv
    <3>2. QED BY <1>1, <2>1, <2>2, <3>1, WatchWrites, KeyKinds
  <2>11. QED BY <1>1, <2>5, <2>7, <2>9, <2>10, NotIdle, RequestStep DEF Carried, p
<1>4. CASE Goto(r, "refuse") /\ UNCHANGED <<api, stream, cache>>
  <2>1. /\ p \in Requests /\ p.pc = "refuse" /\ Carried(p, q)
        /\ \A f \in Fields : p[f] = q[f]
        /\ \A t \in Slots \ {r} : req'[t] = req[t]
    BY <1>1, <1>4, GotoCarries DEF Stages
  <2> HIDE DEF p
  <2>2. Origin(api, stream, p) BY <1>2, <2>1 DEF Origin, Carried
  <2>3. \A f \in Fields : NotYet(api, stream, f, p)
    <3>1. \A f \in Fields : Alike(f, q.app, api, stream, api, stream) BY DEF Alike
    <3>2. QED BY <1>1, <1>2, <2>1, <3>1, StageAlike DEF Carried
  <2>4. Handled(api, stream, p) BY <2>1, <2>2, <2>3 DEF Handled, Found, Stage, Before
  <2>5. WatchInv' BY <1>1, <1>4 DEF WatchInv, Known
  <2>6. QED BY <1>1, <1>4, <2>1, <2>4, <2>5, NoWriteUnseen, NotIdle, RequestStep
    DEF Carried, p
<1>5. ~Fault BY <1>1, Bounds DEF Fault, AskInv, CreateInv, TypeInv, CountType
<1>6. QED BY <1>3, <1>4, <1>5 DEF AddService, NoService

(* The handler deletes the old object of the kind f, which the cache shows *)
(* if it is there.                                                         *)
LEMMA DropStep ==
    ASSUME AskInv, ~Fault, StoreType', NEW r \in Slots, req[r] \in Requests,
           req[r].app \in Apps, NEW f \in Fields,
           Drop(Made(f, Name(f, req[r].old))), UNCHANGED cache,
           Origin(api, stream, req[r]),
           \/ /\ req[r].op = "update" /\ Both(api, stream, f, req[r])
              /\ Aspect(f) \in req[r].changed
           \/ req[r].op = "delete" /\ NotYet(api, stream, f, req[r]),
           NEW p \in Requests, Carried(p, req[r]), p.pc # "admit", p[f] = req[r][f],
           p.changed = req[r].changed
    PROVE  /\ Already(api', f, p) /\ Origin(api', stream', p) /\ WatchInv'
           /\ \A b \in Apps : b # req[r].app => Unseen(b)
           /\ \A g \in Fields : g # f => Alike(g, req[r].app, api, stream, api', stream')
<1> DEFINE q == req[r]
           n == Name(f, q.old)
<1>1. TypeInv /\ StoreType /\ WatchInv /\ DOMAIN api = Keys /\ DOMAIN stream = Keys
  BY DEF AskInv, CreateInv, TypeInv, StoreType
<1>2. OldThere(api, stream, f, q) BY DEF Both, NotYet
<1>3. CASE n = 0
  <2>1. ~Seen(Made(f, n))
    <3>1. 0 \notin Ids BY DEF Ids
    <3>2. QED BY <1>3, <3>1, KeysDiffer DEF Seen
  <2>2. UNCHANGED <<api, stream>> BY <2>1 DEF Drop
  <2>3. \A g \in Fields : Alike(g, q.app, api, stream, api', stream')
    BY <2>2, StillAlike
  <2>4. Already(api', f, p)
    <3>1. CASE q.op = "update" /\ Both(api, stream, f, q) /\ Aspect(f) \in q.changed
      <4>1. Both(api', stream', f, p) BY <2>3, <3>1, StageAlike DEF Carried
      <4>2. QED BY <1>3, <3>1, <4>1, BothAlready DEF Carried
    <3>2. CASE q.op = "delete" /\ NotYet(api, stream, f, q)
      <4>1. NotYet(api', stream', f, p) BY <2>3, <3>2, StageAlike DEF Carried
      <4>2. Has(api', f, p.app, 0, Wish(f, p.old)) BY <1>3, <4>1 DEF NotYet, Carried
      <4>3. Has(api', f, p.app, 0, None(f)) BY <4>2 DEF Has, Right
      <4>4. QED BY <3>2, <4>3, ResultName DEF Already, Carried
    <3>3. QED BY <3>1, <3>2
  <2>5. WatchInv' BY <1>1, <2>2 DEF WatchInv, Known
  <2>6. Origin(api', stream', p) BY <2>2, OriginOn
  <2>7. QED BY <2>2, <2>3, <2>4, <2>5, <2>6, NoWriteUnseen
<1>4. CASE n # 0
  <2>1. /\ n \in Ids /\ api[Made(f, n)] # Absent /\ api[Made(f, n)].app = q.app
        /\ stream[Made(f, n)] = <<>> /\ Made(f, n) \in Keys
    BY <1>2, <1>4, KeysDiffer DEF OldThere, Mine
  <2>2. Seen(Made(f, n)) BY <1>1, <2>1 DEF WatchInv, Known, Seen
  <2>3. Remove(Made(f, n)) BY <2>2 DEF Drop
  <2>4. Writes(Made(f, n), Absent) BY <2>3 DEF Remove, Writes
  <2>5. Already(api', f, p)
    BY <1>1, <2>1, <2>4, DropOld DEF Writes, Carried
  <2>6. /\ \A b \in Apps : b # q.app => Unseen(b)
        /\ api'[App(q.app)] = api[App(q.app)]
        /\ \A g \in Fields : g # f => Alike(g, q.app, api, stream, api', stream')
    BY <1>1, <2>1, <2>4, WriteUnseen
  <2>7. WatchInv' BY <1>1, <2>1, <2>4, WatchWrites
  <2>8. QED BY <2>5, <2>6, <2>7, OriginOn
<1>5. QED BY <1>3, <1>4

LEMMA OldName ==
    ASSUME NEW q \in Requests, NEW objects, NEW events, Origin(objects, events, q),
           q.op # "create", NEW f \in Fields
    PROVE  Name(f, q.old) = q.old[f] /\ (q.op = "update" => Name(f, q.old) = q.new[f])
BY DEF Origin, Name, Fields, Requests

LEMMA DropServiceStep ==
    ASSUME AskInv, OneAtATime, MaxFaults = 0, NEW r \in Slots, DropService(r)
    PROVE  RestInv' /\ WorkInv' /\ WatchInv'
<1> DEFINE q == req[r]
           p == req'[r]
<1>0. ~Fault BY Bounds DEF Fault, AskInv, CreateInv, TypeInv, CountType
<1>1. /\ q \in Requests /\ q # Idle /\ q.pc = "dropService" /\ q.app \in Apps
      /\ Handled(api, stream, q) /\ TypeInv /\ Origin(api, stream, q) /\ Found(q)
      /\ NotYet(api, stream, "cm", q)
  BY AtWork DEF Stages, DropService, Handled, Stage, Before, Fields
<1>2. StoreType' BY DropServiceType DEF TypeInv, AskInv, CreateInv
<1>3. q.op # "create" BY <1>1 DEF Found
<1>4. CASE q.op = "update"
  <2>1. /\ Drop(Service(q.new.svc)) /\ Goto(r, AfterService(q)) /\ UNCHANGED cache
        /\ AfterService(q) \in {"addConfig", "answer"}
    BY <1>4 DEF DropService, AfterService
  <2>2. /\ q.changed = Changes(OldAsk(q), q.new.ask) /\ Valid(q.new.ask)
        /\ "port" \in q.changed /\ Both(api, stream, "svc", q)
    BY <1>1, <1>4 DEF Found, Handled, Stage, Before, Between, Fields
  <2>3. /\ p \in Requests /\ p.pc = AfterService(q) /\ Carried(p, q) /\ p.changed = q.changed
        /\ \A f \in Fields : p[f] = q[f]
        /\ \A t \in Slots \ {r} : req'[t] = req[t]
    BY <1>1, <2>1, GotoCarries DEF Stages
  <2> HIDE DEF p
  <2>4. Drop(Made("svc", Name("svc", q.old)))
    BY <1>1, <1>3, <1>4, <2>1, OldName DEF Made, Fields
  <2>5. /\ Already(api', "svc", p) /\ Origin(api', stream', p) /\ WatchInv'
        /\ \A b \in Apps : b # q.app => Unseen(b)
        /\ Alike("cm", q.app, api, stream, api', stream')
    BY <1>0, <1>1, <1>2, <1>4, <2>1, <2>2, <2>3, <2>4, DropStep DEF Aspect, Fields
  <2>6. NotYet(api', stream', "cm", p)
    BY <1>1, <2>3, <2>5, StageAlike DEF Carried, Fields
  <2>7. /\ p.pc = AfterService(p) /\ p.changed = Changes(OldAsk(p), p.new.ask)
        /\ Valid(p.new.ask) /\ p.op # "delete"
    BY <1>4, <2>2, <2>3 DEF AfterService, Carried, OldAsk
  <2>8. Handled(api', stream', p) BY <2>3, <2>5, <2>6, <2>7, AfterServiceHandled
  <2>9. QED BY <1>1, <2>3, <2>5, <2>8, NotIdle, RequestStep DEF Carried, p
<1>5. CASE q.op = "delete"
  <2>1. Drop(Service(q.old.svc)) /\ Goto(r, "dropConfig") /\ UNCHANGED cache
    BY <1>5 DEF DropService
  <2>2. NotYet(api, stream, "svc", q) BY <1>1, <1>5 DEF Handled, Stage, Before, Fields
  <2>3. /\ p \in Requests /\ p.pc = "dropConfig" /\ Carried(p, q) /\ p.changed = q.changed
        /\ \A f \in Fields : p[f] = q[f]
        /\ \A t \in Slots \ {r} : req'[t] = req[t]
    BY <1>1, <2>1, GotoCarries DEF Stages
  <2> HIDE DEF p
  <2>4. Drop(Made("svc", Name("svc", q.old)))
    BY <1>1, <1>3, <2>1, OldName DEF Made, Fields
  <2>5. /\ Already(api', "svc", p) /\ Origin(api', stream', p) /\ WatchInv'
        /\ \A b \in Apps : b # q.app => Unseen(b)
        /\ Alike("cm", q.app, api, stream, api', stream')
    BY <1>0, <1>1, <1>2, <1>5, <2>1, <2>2, <2>3, <2>4, DropStep DEF Fields
  <2>6. NotYet(api', stream', "cm", p)
    BY <1>1, <2>3, <2>5, StageAlike DEF Carried, Fields
  <2>7. Handled(api', stream', p)
    BY <1>5, <2>3, <2>5, <2>6 DEF Handled, Found, Stage, Before, Between, Carried, Fields
  <2>8. QED BY <1>1, <2>3, <2>5, <2>7, NotIdle, RequestStep DEF Carried, p
<1>6. QED BY <1>1, <1>3, <1>4, <1>5 DEF Requests

LEMMA DropConfigStep ==
    ASSUME AskInv, OneAtATime, MaxFaults = 0, NEW r \in Slots, DropConfig(r)
    PROVE  RestInv' /\ WorkInv' /\ WatchInv'
<1> DEFINE q == req[r]
           p == req'[r]
<1>0. ~Fault BY Bounds DEF Fault, AskInv, CreateInv, TypeInv, CountType
<1>1. /\ q \in Requests /\ q # Idle /\ q.pc = "dropConfig" /\ q.app \in Apps /\ Shape(q)
      /\ Handled(api, stream, q) /\ TypeInv /\ Origin(api, stream, q) /\ Found(q)
      /\ Already(api, "svc", q) /\ UNCHANGED cache
  BY AtWork DEF Stages, DropConfig, Handled, Stage, Before, Between, Fields
<1>2. StoreType' BY DropConfigType DEF TypeInv, AskInv, CreateInv
<1>3. q.op \in {"update", "delete"} BY <1>1 DEF Shape, Requests
<1>4. \/ /\ q.op = "update" /\ Both(api, stream, "cm", q) /\ Aspect("cm") \in q.changed
      \/ q.op = "delete" /\ NotYet(api, stream, "cm", q)
  BY <1>1, <1>3 DEF Handled, Stage, Before, Between, Found, Aspect, Fields
<1>5. Drop(Made("cm", Name("cm", q.old)))
  <2>1. Drop(Config(IF q.op = "update" THEN q.new.cm ELSE q.old.cm)) BY DEF DropConfig
  <2>2. Name("cm", q.old) = q.old.cm /\ (q.op = "update" => Name("cm", q.old) = q.new.cm)
    BY <1>1, <1>3, OldName DEF Fields
  <2>3. QED BY <1>3, <2>1, <2>2 DEF Made
<1>6. /\ p \in Requests /\ p.pc = "answer" /\ Carried(p, q) /\ p.changed = q.changed
      /\ \A f \in Fields : p[f] = q[f]
      /\ \A t \in Slots \ {r} : req'[t] = req[t]
  BY <1>1, GotoCarries DEF DropConfig, Stages
<1> HIDE DEF p
<1>7. /\ Already(api', "cm", p) /\ Origin(api', stream', p) /\ WatchInv'
      /\ \A b \in Apps : b # q.app => Unseen(b)
      /\ Alike("svc", q.app, api, stream, api', stream')
  BY <1>0, <1>1, <1>2, <1>4, <1>5, <1>6, DropStep DEF Fields
<1>8. Already(api', "svc", p)
  BY <1>1, <1>6, <1>7, StageAlike DEF Carried, Fields
<1>9. Found(p) BY <1>1, <1>6 DEF Found, Carried, OldAsk
<1>10. Handled(api', stream', p)
  BY <1>6, <1>7, <1>8, <1>9 DEF Handled, Stage, Before, Between, Fields
<1>11. QED BY <1>1, <1>6, <1>7, <1>10, NotIdle, RequestStep DEF Carried, p

LEMMA AddConfigStep ==
    ASSUME AskInv, OneAtATime, MaxFaults = 0, NEW r \in Slots, AddConfig(r)
    PROVE  RestInv' /\ WorkInv' /\ WatchInv'
<1> DEFINE q == req[r]
           p == req'[r]
           n == configs + 1
           o == [[rv |-> 0, app |-> q.app, conf |-> q.new.ask.conf]
                     EXCEPT !.rv = version[Config(n)] + 1]
           pc == IF q.op = "update" THEN "dropConfig" ELSE "answer"
<1>1. /\ q \in Requests /\ q # Idle /\ q.pc = "addConfig" /\ q.app \in Apps
      /\ Shape(q) /\ Handled(api, stream, q) /\ TypeInv /\ DOMAIN req = Slots
      /\ WatchInv /\ StoreType /\ Origin(api, stream, q)
  BY AtWork DEF Stages, AddConfig, AskInv, CreateInv, TypeInv, ReqType, Handled
<1>2. /\ q.op \in {"create", "update"} /\ q.new.ask.conf # {} /\ Valid(q.new.ask)
      /\ q.changed = Changes(OldAsk(q), q.new.ask) /\ "conf" \in q.changed
      /\ Already(api, "svc", q) /\ NotYet(api, stream, "cm", q)
  BY <1>1 DEF Shape, Handled, Found, Stage, Before, Between, Requests, Fields
<1>3. /\ configs < MaxNames /\ configs' = configs + 1
      /\ Put(Config(configs'), [rv |-> 0, app |-> q.app, conf |-> q.new.ask.conf])
      /\ req' = [req EXCEPT ![r].cm = configs', ![r].pc = pc]
      /\ UNCHANGED cache
  BY Bounds DEF AddConfig, Fault, AskInv, CreateInv, TypeInv, CountType
<1>4. n \in Ids /\ n = Given["cm"] + 1 /\ n \in Names /\ Made("cm", n) = Config(n)
  BY <1>1, <1>3, Bounds DEF TypeInv, CountType, Given, Names, Ids, Made
<1>5. Writes(Made("cm", n), o) BY <1>3, <1>4, PutWrites
<1>6. /\ o.app = q.app /\ o.conf = q.new.ask.conf /\ o # Absent
  <2>1. o \in ConfigObject
    <3>1. q.new.ask \in Allowed BY <1>1 DEF Requests, AppObject
    <3>2. version[Config(n)] + 1 \in Nat BY <1>1, <1>4, KeyKinds DEF StoreType
    <3>3. QED BY <1>1, <1>2, <3>1, <3>2, AskFields DEF ConfigObject
  <2>2. QED BY <2>1, AbsentAssumption
<1>7. /\ p \in Requests /\ Carried(p, q) /\ p.pc = pc /\ p.cm = n /\ p.svc = q.svc
      /\ p.changed = q.changed /\ \A t \in Slots \ {r} : req'[t] = req[t]
  <2>0. pc \in {"dropConfig", "answer"} OBVIOUS
  <2>1. req' = [req EXCEPT ![r] = [q EXCEPT !.cm = n, !.pc = pc]] BY <1>3
  <2> HIDE DEF pc, n
  <2>2. p = [q EXCEPT !.cm = n, !.pc = pc] /\ \A t \in Slots \ {r} : req'[t] = req[t]
    BY <1>1, <2>1
  <2> HIDE DEF p
  <2>3. QED BY <1>1, <1>4, <2>0, <2>2 DEF Requests, Stages, Carried
<1> HIDE DEF n, o, p
<1>8. /\ Held("cm", o) = Want("cm", q.new.ask) /\ Want("cm", q.new.ask) # None("cm")
      /\ p["cm"] = n /\ p["svc"] = q["svc"] /\ p.pc # "admit"
  BY <1>2, <1>6, <1>7 DEF Held, Want, None
<1>9. /\ Both(api', stream', "cm", p) /\ Origin(api', stream', p)
      /\ \A b \in Apps : b # q.app => Unseen(b)
      /\ Alike("svc", q.app, api, stream, api', stream')
  BY <1>1, <1>2, <1>4, <1>5, <1>6, <1>7, <1>8, MakeStep DEF Fields
<1>10. Already(api', "svc", p)
  BY <1>1, <1>2, <1>7, <1>8, <1>9, StageAlike DEF Carried, Fields
<1>11. Found(p) BY <1>2, <1>7 DEF Found, Carried, OldAsk
<1>12. Handled(api', stream', p)
  <2>1. CASE q.op = "update"
    BY <1>7, <1>9, <1>10, <1>11, <2>1
    DEF Handled, Stage, Before, Between, Carried, Fields
  <2>2. CASE q.op = "create"
    <3>1. Name("cm", p.old) = 0 BY <1>7, <1>9, <2>2 DEF Origin, Carried, Name
    <3>2. Already(api', "cm", p)
      BY <1>2, <1>7, <1>9, <2>2, <3>1, BothAlready DEF Aspect, Carried, Fields
    <3>3. QED BY <1>7, <1>9, <1>10, <1>11, <2>2, <3>2
      DEF Handled, Stage, Before, Between, Carried, Fields
  <2>3. QED BY <1>2, <2>1, <2>2
<1>13. WatchInv'
  <2>1. StoreType' BY AddConfigType DEF TypeInv, AskInv, CreateInv
  <2>2. QED BY <1>1, <1>4, <1>5, <2>1, WatchWrites, KeyKinds
<1>14. QED BY <1>1, <1>7, <1>9, <1>12, <1>13, NotIdle, RequestStep DEF Carried, p

(* The patch makes a sound deployment of a sound one.                      *)
LEMMA ResultSound ==
    ASSUME NEW q \in Requests, NEW objects, NEW events, Handled(objects, events, q),
           q.pc = "answer", q.op # "delete"
    PROVE  Sound(Patched(q)) /\ WellFormed(Patched(q))
<1> DEFINE ask == q.new.ask
           p == Patched(q)
<1>1. q.new \in AppObject /\ ask \in Allowed /\ q.op \in {"create", "update"}
  BY DEF Requests, AppObject
<1>2. /\ Origin(objects, events, q) /\ q.changed = Changes(OldAsk(q), ask)
      /\ Valid(ask) \/ (~HasKeys(q.new) /\ q.changed = {})
      /\ \A f \in Fields : Already(objects, f, q)
  BY DEF Handled, Found, Stage, Before, Between
<1>3. /\ p.ask = ask
      /\ p.svc = IF q.op = "create" \/ "port" \in q.changed THEN q.svc ELSE q.new.svc
      /\ p.cm = IF q.op = "create" \/ "conf" \in q.changed THEN q.cm ELSE q.new.cm
      /\ p.side = IF {"img", "env"} \cap q.changed = {} THEN q.new.side
                  ELSE [img |-> ask.img, env |-> ask.env,
                        vol |-> IF "conf" \in q.changed THEN q.cm ELSE q.new.side.vol]
  BY <1>1 DEF Patched, AppObject
<1>4. NoAsk.img = Unset /\ NoAsk.conf = {} /\ ~Valid(NoAsk) BY DEF NoAsk, Valid
<1>5. \A x \in {"img", "conf"} : x \notin q.changed => OldAsk(q)[x] = ask[x]
  BY <1>2 DEF Changes, Aspects
<1> HIDE DEF p
<1>6. CASE ~HasKeys(q.new) /\ q.changed = {}
  <2>1. ask = NoAsk BY <1>6 DEF HasKeys
  <2>2. p.side = q.new.side BY <1>3, <1>6
  <2>3. p.svc = 0 /\ p.cm = 0
    <3>1. Name("svc", p) = p.svc /\ Name("cm", p) = p.cm /\ Result(q) = p
      <4>1. p # Absent BY PatchedType, AbsentAssumption DEF p
      <4>2. q.op # "delete" BY <1>1
      <4>3. QED BY <4>1, <4>2 DEF Name, Result, p
    <3>2. \A f \in Fields : Wish(f, Result(q)) = None(f) BY <1>1, <2>1, ResultName, Kinds
    <3>3. \A f \in Fields : Name(f, Result(q)) = 0
      BY <1>2, <3>2 DEF Already, Has, Right
    <3>4. QED BY <3>1, <3>3 DEF Fields
  <2>4. q.new.side.img = Unset
    <3>1. CASE q.op = "create" BY <1>2, <3>1 DEF Origin
    <3>2. CASE q.op = "update"
      <4>1. q.new.side = q.old.side /\ Sound(q.old) /\ OldAsk(q) = q.old.ask
        BY <1>2, <3>2 DEF Origin, OldAsk
      <4>2. q.old.ask.img = Unset BY <1>4, <1>5, <1>6, <2>1, <4>1
      <4>3. QED BY <4>1, <4>2 DEF Sound, Valid
    <3>3. QED BY <1>1, <3>1, <3>2
  <2>5. QED BY <1>3, <1>4, <2>1, <2>2, <2>3, <2>4 DEF Sound, WellFormed, HasKeys, p
<1>7. CASE Valid(ask)
  <2>1. ask.img # Unset /\ ask.conf # {} BY <1>7 DEF Valid
  <2>2. ASSUME \E x \in {"img", "conf"} : x \notin q.changed
        PROVE  q.new.side.vol # 0
    <3>1. OldAsk(q) # NoAsk BY <1>4, <1>5, <2>1, <2>2
    <3>2. /\ q.op = "update" /\ q.new.side = q.old.side /\ Sound(q.old)
          /\ q.old.ask # NoAsk
      BY <1>1, <1>2, <3>1 DEF Origin, OldAsk
    <3>3. QED BY <3>2 DEF Sound, HasKeys
  <2>3. "conf" \in q.changed => q.cm # 0
    <3>1. "conf" \in q.changed => Name("cm", Result(q)) = q["cm"]
      BY <1>1, ResultName DEF Aspect, Fields
    <3>2. Wish("cm", Result(q)) = ask.conf BY <1>1, ResultName DEF Want, Fields
    <3>3. Name("cm", Result(q)) \in Ids
      BY <1>2, <2>1, <3>2 DEF Already, Has, Right, None, Fields
    <3>4. QED BY <3>1, <3>3 DEF Ids
  <2>4. p.side.vol # 0
    <3>1. CASE {"img", "env"} \cap q.changed = {} BY <1>3, <2>2, <3>1
    <3>2. CASE {"img", "env"} \cap q.changed # {} BY <1>3, <2>2, <2>3, <3>2
    <3>3. QED BY <3>1, <3>2
  <2>5. QED BY <1>3, <1>7, <2>4 DEF Sound, WellFormed, p
<1>8. QED BY <1>2, <1>6, <1>7

LEMMA StoreStep ==
    ASSUME AskInv, OneAtATime, NEW r \in Slots, Store(r)
    PROVE  RestInv' /\ WorkInv' /\ WatchInv'
<1> DEFINE q == req[r]
           a == q.app
<1>1. /\ q \in Requests /\ q # Idle /\ q.pc = "answer" /\ a \in Apps
      /\ Handled(api, stream, q) /\ TypeInv /\ WatchInv /\ StoreType
      /\ App(a) \in Keys /\ UNCHANGED cache
  BY AtWork, KeyKinds DEF Stages, Store, TypeInv
<1>2. \A f \in Fields : Already(api, f, q)
  BY <1>1 DEF Handled, Stage, Before, Between
<1>3. req'[r] = Idle /\ \A t \in Slots \ {r} : req'[t] = req[t]
  BY DEF Store, AskInv, CreateInv, TypeInv, ReqType
<1>4. StoreType' BY StoreTypes DEF TypeInv, AskInv, CreateInv
<1>5. \E o : /\ Writes(App(a), o)
             /\ o # Absent => Sound(o)
             /\ \A f \in Fields : /\ Name(f, o) = Name(f, Result(q))
                                  /\ Wish(f, o) = Wish(f, Result(q))
  <2>1. CASE q.op = "delete"
    <3>1. Writes(App(a), Absent) BY <1>1, <2>1 DEF Store, Remove, Writes
    <3>2. Result(q) = Absent BY <2>1 DEF Result
    <3>3. QED BY <3>1, <3>2
  <2>2. CASE q.op # "delete"
    <3> DEFINE p == Patched(q)
               o == [p EXCEPT !.rv = version[App(a)] + 1]
    <3>1. Writes(App(a), o) BY <1>1, <2>2, PutWrites DEF Store
    <3>2. p \in AppObject /\ Result(q) = p BY <1>1, <2>2, PatchedType DEF Result
    <3>3. Sound(p) BY <1>1, <2>2, ResultSound
    <3> HIDE DEF p
    <3>4. /\ o.ask = p.ask /\ o.svc = p.svc /\ o.cm = p.cm /\ o.side = p.side
          /\ o \in AppObject
      <4>1. version[App(a)] + 1 \in Nat BY <1>1 DEF StoreType
      <4>2. QED BY <3>2, <4>1 DEF AppObject
    <3> HIDE DEF o
    <3>5. Sound(o) BY <3>3, <3>4 DEF Sound, HasKeys
    <3>6. o # Absent /\ p # Absent BY <3>2, <3>4, AbsentAssumption
    <3>7. \A f \in Fields : /\ Name(f, o) = Name(f, Result(q))
                            /\ Wish(f, o) = Wish(f, Result(q))
      BY <3>2, <3>4, <3>6 DEF Name, Wish, Fields
    <3>8. QED BY <3>1, <3>5, <3>7
  <2>3. QED BY <2>1, <2>2
<1>6. PICK o : /\ Writes(App(a), o)
               /\ o # Absent => Sound(o)
               /\ \A f \in Fields : /\ Name(f, o) = Name(f, Result(q))
                                    /\ Wish(f, o) = Wish(f, Result(q))
  BY <1>5
<1>7. /\ \A b \in Apps : b # a => Unseen(b)
      /\ api'[App(a)] = o
      /\ \A g \in Fields : Alike(g, a, api, stream, api', stream')
  BY <1>1, <1>6, StoreUnseen
<1>8. Settled(api', a)
  <2>1. \A f \in Fields : Has(api', f, a, Name(f, o), Wish(f, o))
    BY <1>2, <1>6, <1>7, HasAlike DEF Already
  <2>2. QED BY <1>6, <1>7, <2>1 DEF Settled
<1>9. WatchInv' BY <1>1, <1>4, <1>6, WatchWrites
<1>10. QED BY <1>1, <1>3, <1>7, <1>8, <1>9, RequestStep

(* Nothing but the checks of the webhook is against a request.             *)
LEMMA DismissStep ==
    ASSUME AskInv, OneAtATime, MaxFaults = 0, NEW r \in Slots, Dismiss(r)
    PROVE  RestInv' /\ WorkInv' /\ WatchInv'
<1> DEFINE q == req[r]
           a == q.app
<1>0. ~Fault BY Bounds DEF Fault, AskInv, CreateInv, TypeInv, CountType
<1>1. /\ q \in Requests /\ q # Idle /\ q.pc \in {"answer", "refuse"} /\ a \in Apps
      /\ Handled(api, stream, q) /\ WatchInv
  BY AtWork DEF Stages, Dismiss
<1>2. Origin(api, stream, q) BY <1>1 DEF Handled
<1>3. ASSUME q.pc = "answer" PROVE Acceptable(q)
  <2>1. Unmoved(q)
    <3>1. CASE q.op = "create" BY <1>2, <3>1 DEF Origin, Unmoved
    <3>2. CASE q.op # "create"
      <4>1. q.old # Absent BY <1>1, <1>2, <3>2 DEF Origin, Requests
      <4>2. QED BY <1>2, <3>2, <4>1 DEF Origin, Unmoved, Fresh
    <3>3. QED BY <3>1, <3>2
  <2>2. q.op # "delete" => WellFormed(Patched(q)) BY <1>1, <1>3, ResultSound
  <2>3. QED BY <1>2, <2>1, <2>2 DEF Acceptable, Origin
<1>4. q.pc = "refuse" BY <1>0, <1>1, <1>3 DEF Dismiss, At
<1>5. \A f \in Fields : NotYet(api, stream, f, q)
  BY <1>1, <1>4 DEF Handled, Stage, Before
<1>6. Settled(api, a) BY <1>2, <1>5 DEF Settled, Origin, NotYet
<1>7. /\ UNCHANGED <<api, stream, cache>>
      /\ req'[r] = Idle /\ \A t \in Slots \ {r} : req'[t] = req[t]
  BY DEF Dismiss, kubeVars, AskInv, CreateInv, TypeInv, ReqType
<1>8. WatchInv' BY <1>1, <1>7 DEF WatchInv, Known
<1>9. QED BY <1>1, <1>6, <1>7, <1>8, NoWriteUnseen, RequestStep

-----------------------------------------------------------------------------
(* The steps of the users, and of the watches.                             *)

(* A request finds the deployment settled, and the caches up to date.      *)
LEMMA SendStep ==
    ASSUME AskInv, OneAtATime', Prompt, NEW r \in Slots, NEW a \in Apps, NEW action,
           NEW q \in Requests, q.app = a, q.pc = "admit", Send(action, r, q),
           q.svc = 0, q.cm = 0, q.fate = "awaited", q.old = api[App(a)],
           q.op = "create" => /\ q.old = Absent /\ q.new.svc = 0 /\ q.new.cm = 0
                              /\ q.new.side.img = Unset,
           q.op = "update" => /\ q.old # Absent /\ q.new.svc = q.old.svc
                              /\ q.new.cm = q.old.cm /\ q.new.side = q.old.side,
           q.op = "delete" => q.old # Absent
    PROVE  RestInv' /\ WorkInv' /\ WatchInv'
<1>1. /\ req[r] = Idle /\ req'[r] = q /\ \A t \in Slots \ {r} : req'[t] = req[t]
      /\ UNCHANGED <<api, stream, cache>> /\ Delivered
  BY DEF Send, kubeVars, AskInv, CreateInv, TypeInv, ReqType
<1>2. q # Idle BY NotIdle
<1>3. Settled(api, a)
  <2>1. Quiet(a) BY <1>1, <1>2 DEF Quiet, OneAtATime
  <2>2. QED BY <2>1 DEF AskInv, RestInv
<1>4. Sound(q.old) \/ q.old = Absent BY <1>3 DEF Settled
<1>5. \A f \in Fields : Has(api, f, a, Name(f, q.old), Wish(f, q.old))
  BY <1>3 DEF Settled
<1>6. \A f \in Fields : OldThere(api, stream, f, q)
  <2> SUFFICES ASSUME NEW f \in Fields, Name(f, q.old) # 0
               PROVE  /\ Name(f, q.old) \in Ids /\ Mine(api, f, Name(f, q.old), a)
                      /\ stream[Made(f, Name(f, q.old))] = <<>>
    BY DEF OldThere
  <2>1. Name(f, q.old) \in Ids /\ Mine(api, f, Name(f, q.old), a)
    BY <1>5 DEF Has, Right
  <2>2. QED BY <1>1, <2>1, KeysDiffer DEF Delivered
<1>7. \A f \in Fields : q[f] = 0 BY DEF Fields
<1>8. Handled(api, stream, q)
  <2>1. App(a) \in Keys BY KeyKinds
  <2>2. Origin(api, stream, q) BY <1>1, <1>4, <2>1 DEF Origin, Delivered
  <2>3. \A f \in Fields : NotYet(api, stream, f, q) BY <1>5, <1>6, <1>7 DEF NotYet
  <2>4. QED BY <2>2, <2>3 DEF Handled, Found, Stage, Before
<1>9. WatchInv' BY <1>1 DEF WatchInv, Known, AskInv
<1>10. RestInv' BY <1>1, <1>2 DEF RestInv, Quiet, AskInv
<1>11. WorkInv' BY <1>1, <1>8 DEF WorkInv, AskInv
<1>12. QED BY <1>9, <1>10, <1>11

LEMMA UsersStep ==
    ASSUME AskInv, OneAtATime', Undisturbed, Users
    PROVE  RestInv' /\ WorkInv' /\ WatchInv'
<1>1. PICK r \in Slots, a \in Apps :
         \/ \E k \in Asks : Create(r, a, k) \/ Update(r, a, k) \/ DryRun(r, a, k)
         \/ \E b \in Apps, k \in Allowed : Copy(r, a, b, k)
         \/ Create(r, a, NoAsk)
         \/ Strip(r, a) \/ Touch(r, a) \/ Delete(r, a)
  BY DEF Users
<1>2. Prompt /\ UserActions \cap {"copy", "strip", "dryRun"} = {} BY DEF Undisturbed
<1>3. /\ StoreType /\ NoAsk \in Allowed /\ Asks \subseteq Allowed /\ 0 \in Names
      /\ Absent \in Optional(AppObject)
  BY Bounds DEF AskInv, CreateInv, TypeInv, Allowed, Names, Optional
<1>4. ASSUME NEW op \in {"create", "update", "delete"}, NEW old \in Optional(AppObject),
             NEW new \in AppObject
      PROVE  LET q == Request(a, op, old, new, "awaited")
             IN  /\ q \in Requests /\ q.app = a /\ q.pc = "admit" /\ q.op = op
                 /\ q.svc = 0 /\ q.cm = 0 /\ q.fate = "awaited" /\ q.old = old
                 /\ q.new = new
  BY <1>1, <1>3 DEF Request, Requests, Stages
<1>5. ASSUME NEW k \in Allowed, Create(r, a, k) PROVE RestInv' /\ WorkInv' /\ WatchInv'
  <2> DEFINE q == Request(a, "create", Absent, NewApp(k, 0, 0), "awaited")
  <2>1. NewApp(k, 0, 0) \in AppObject BY <1>3, NewAppType
  <2>2. LET new == NewApp(k, 0, 0)
        IN  new.svc = 0 /\ new.cm = 0 /\ new.side.img = Unset
    BY DEF NewApp, NoSidecar
  <2>3. /\ q \in Requests /\ q.app = a /\ q.pc = "admit" /\ q.op = "create"
        /\ q.svc = 0 /\ q.cm = 0 /\ q.fate = "awaited" /\ q.old = Absent
        /\ q.new = NewApp(k, 0, 0)
    BY <1>3, <1>4, <2>1
  <2>4. Send("create", r, q) /\ api[App(a)] = Absent BY <1>5 DEF Create
  <2> HIDE DEF q
  <2>5. QED BY <1>1, <1>2, <2>2, <2>3, <2>4, SendStep
<1>6. ASSUME NEW k \in Asks, Update(r, a, k) PROVE RestInv' /\ WorkInv' /\ WatchInv'
  <2> DEFINE old == api[App(a)]
             new == [old EXCEPT !.ask = k]
             q == Request(a, "update", old, new, "awaited")
  <2>1. old # Absent /\ Send("update", r, q) BY <1>6 DEF Update
  <2>2. old \in AppObject BY <1>1, <1>3, <2>1, StoredApp
  <2>3. new \in AppObject /\ new.svc = old.svc /\ new.cm = old.cm /\ new.side = old.side
    BY <1>3, <2>2 DEF AppObject
  <2>4. /\ q \in Requests /\ q.app = a /\ q.pc = "admit" /\ q.op = "update"
        /\ q.svc = 0 /\ q.cm = 0 /\ q.fate = "awaited" /\ q.old = old /\ q.new = new
    BY <1>4, <2>2, <2>3 DEF Optional
  <2> HIDE DEF q, new
  <2>5. QED BY <1>1, <1>2, <2>1, <2>3, <2>4, SendStep
<1>7. ASSUME NEW op \in {"update", "delete"}, NEW action, api[App(a)] # Absent,
             Send(action, r, Request(a, op, api[App(a)], api[App(a)], "awaited"))
      PROVE  RestInv' /\ WorkInv' /\ WatchInv'
  <2> DEFINE old == api[App(a)]
             q == Request(a, op, old, old, "awaited")
  <2>1. old \in AppObject BY <1>1, <1>3, <1>7, StoredApp
  <2>2. /\ q \in Requests /\ q.app = a /\ q.pc = "admit" /\ q.op = op
        /\ q.svc = 0 /\ q.cm = 0 /\ q.fate = "awaited" /\ q.old = old /\ q.new = old
    BY <1>4, <2>1 DEF Optional
  <2>3. Send(action, r, q) BY <1>7
  <2> HIDE DEF q
  <2>4. QED BY <1>1, <1>2, <1>7, <2>2, <2>3, SendStep
<1>8. CASE Touch(r, a) \/ Delete(r, a) BY <1>7, <1>8 DEF Touch, Delete
<1>9. ~Strip(r, a) /\ \A k : ~DryRun(r, a, k) /\ \A b : ~Copy(r, a, b, k)
  BY <1>2 DEF Strip, DryRun, Copy, Send
<1>10. QED BY <1>1, <1>3, <1>5, <1>6, <1>8, <1>9

LEMMA DeliverStep ==
    ASSUME AskInv, NEW k \in Keys, Deliver(k)
    PROVE  RestInv' /\ WorkInv' /\ WatchInv'
<1>1. /\ UNCHANGED <<api, req>> /\ Advance(k) /\ StoreType /\ WatchInv
      /\ \A j \in Keys : stream[j] = <<>> => stream'[j] = <<>>
  BY DEF Deliver, Advance, AskInv, CreateInv, TypeInv, StoreType
<1>2. WatchInv' BY <1>1, WatchAdvance
<1>3. \A b \in Apps : Unseen(b)
  BY <1>1, KeyKinds, KeysDiffer, StillAlike DEF Unseen
<1>4. RestInv'
  <2> SUFFICES ASSUME NEW a \in Apps, Quiet(a)' PROVE Settled(api', a) BY DEF RestInv
  <2>1. Quiet(a) BY <1>1 DEF Quiet
  <2>2. QED BY <1>3, <2>1, UnseenSettled DEF AskInv, RestInv
<1>5. WorkInv'
  <2> SUFFICES ASSUME NEW r \in Slots, req'[r] # Idle PROVE Handled(api', stream', req'[r])
    BY DEF WorkInv
  <2>1. req'[r] = req[r] /\ req[r] # Idle BY <1>1
  <2>2. req[r] \in Requests /\ req[r].app \in Apps BY <2>1, Loaded DEF AskInv, CreateInv
  <2>3. QED BY <1>3, <2>1, <2>2, UnseenHandled DEF AskInv, WorkInv
<1>6. QED BY <1>2, <1>4, <1>5

-----------------------------------------------------------------------------
LEMMA AskInit == Init => AskInv
<1> SUFFICES ASSUME Init PROVE AskInv OBVIOUS
<1>1. CreateInv BY InitType, OwnInit, ProgressInit DEF CreateInv
<1>2. /\ \A k \in Keys : api[k] = Absent /\ cache[k] = Absent /\ stream[k] = <<>>
      /\ \A r \in Slots : req[r] = Idle
  BY DEF Init
<1>3. WatchInv BY <1>2 DEF WatchInv, Known
<1>4. RestInv
  <2>1. \A a \in Apps : api[App(a)] = Absent BY <1>2, KeyKinds
  <2>2. \A f \in Fields, i \in Ids, a \in Apps : ~Mine(api, f, i, a)
    BY <1>2, KeysDiffer DEF Mine
  <2>3. \A f \in Fields, a \in Apps : Has(api, f, a, 0, None(f)) BY <2>2 DEF Has, Right
  <2>4. QED BY <2>1, <2>3 DEF RestInv, Settled, Name, Wish
<1>5. WorkInv BY <1>2 DEF WorkInv
<1>6. QED BY <1>1, <1>3, <1>4, <1>5 DEF AskInv

LEMMA AskStep ==
    ASSUME Undisturbed, AskInv, OneAtATime, OneAtATime', [Next]_vars
    PROVE  AskInv'
<1>0. CreateInv' BY TypeStep, OwnStep, ProgressStep DEF AskInv, CreateInv
<1>1. MaxFaults = 0 /\ ~Fault
  BY Bounds DEF Undisturbed, Fault, AskInv, CreateInv, TypeInv, CountType
<1>2. RestInv' /\ WorkInv' /\ WatchInv'
  <2>1. CASE Users BY <2>1, UsersStep
  <2>2. ASSUME NEW r \in Slots, Handle(r) \/ Store(r) \/ Dismiss(r) \/ TimeOut(r)
        PROVE  RestInv' /\ WorkInv' /\ WatchInv'
    <3>1. CASE AdmitCreate(r) \/ AdmitUpdate(r) \/ AdmitDelete(r)
      <4>1. RestInv' /\ WorkInv' BY <3>1, AdmitStep
      <4>2. UNCHANGED kubeVars BY <3>1 DEF AdmitCreate, AdmitUpdate, AdmitDelete
      <4>3. WatchInv' BY <4>2 DEF kubeVars, WatchInv, Known, AskInv
      <4>4. QED BY <4>1, <4>3
    <3>2. ~TimeOut(r) BY <1>1 DEF TimeOut
    <3>3. QED
      BY <1>1, <2>2, <3>1, <3>2, AddServiceStep, DropServiceStep, AddConfigStep,
         DropConfigStep, StoreStep, DismissStep DEF Handle
  <2>3. ~Restart BY <1>1 DEF Restart
  <2>4. CASE \E k \in Keys : Deliver(k) BY <2>4, DeliverStep
  <2>5. CASE UNCHANGED vars
    BY <2>5 DEF vars, kubeVars, AskInv, RestInv, WorkInv, WatchInv, Known, Quiet
  <2>6. QED BY <2>1, <2>2, <2>3, <2>4, <2>5 DEF Next
<1>3. QED BY <1>0, <1>2 DEF AskInv

LEMMA AlwaysAsked ==
    ASSUME Undisturbed
    PROVE  Spec /\ []OneAtATime => []AskInv
<1>1. Init => AskInv BY AskInit
<1>2. AskInv /\ OneAtATime /\ OneAtATime' /\ [Next]_vars => AskInv' BY AskStep
<1>3. QED BY <1>1, <1>2, PTL DEF Spec

(* Between requests everything there is was asked for, and nothing else.   *)
LEMMA AskedThings ==
    ASSUME AskInv, Quiescent, NEW f \in Fields
    PROVE  /\ \A a \in Apps : api[App(a)] # Absent =>
                  Has(api, f, a, api[App(a)][f], Want(f, api[App(a)].ask))
           /\ \A i \in Ids : api[Made(f, i)] # Absent =>
                  \E a \in Apps : api[App(a)] # Absent /\ api[App(a)][f] = i
<1>1. \A a \in Apps : Has(api, f, a, Name(f, api[App(a)]), Wish(f, api[App(a)]))
  BY DEF AskInv, RestInv, Settled, Quiescent
<1>2. ASSUME NEW i \in Ids, api[Made(f, i)] # Absent
      PROVE  \E a \in Apps : api[App(a)] # Absent /\ api[App(a)][f] = i
  <2>1. api[Made(f, i)].app \in Apps
    <3>1. /\ Made(f, i) \in Keys
          /\ ObjectsOf(Made(f, i)) = ServiceObject \/ ObjectsOf(Made(f, i)) = ConfigObject
      BY KeyKinds DEF Made
    <3>2. api[Made(f, i)] \in Optional(ObjectsOf(Made(f, i)))
      BY <3>1 DEF AskInv, CreateInv, TypeInv, StoreType
    <3>3. api[Made(f, i)] \in ServiceObject \cup ConfigObject
      BY <1>2, <3>1, <3>2 DEF Optional
    <3>4. \A o \in ServiceObject \cup ConfigObject : o.app \in Apps
      BY DEF ServiceObject, ConfigObject
    <3>5. QED BY <3>3, <3>4
  <2>2. Mine(api, f, i, api[Made(f, i)].app) BY <1>2 DEF Mine
  <2>3. i = Name(f, api[App(api[Made(f, i)].app)]) /\ i # 0
    BY <1>1, <2>1, <2>2 DEF Has, Ids
  <2>4. QED BY <2>1, <2>3 DEF Name
<1>3. QED BY <1>1, <1>2 DEF Name, Wish

(* Between requests a deployment has the service it asks for, and no other *)
(* service is there: updateIAGService never leaves the old one behind, nor *)
(* a deployment without one, however many deployments change at a time.    *)
THEOREM ServiceAlwaysAsAsked ==
    ASSUME Undisturbed
    PROVE  Spec /\ []OneAtATime => []ServiceAsAsked
<1>1. AskInv => ServiceAsAsked
  <2> SUFFICES ASSUME AskInv, Quiescent
               PROVE  /\ \A a \in Apps :
                            LET o == api[App(a)]
                            IN  o # Absent =>
                                  IF o.ask.port = Unset THEN o.svc = 0
                                  ELSE /\ o.svc # 0 /\ api[Service(o.svc)] # Absent
                                       /\ api[Service(o.svc)].port = o.ask.port
                      /\ \A i \in Ids : api[Service(i)] # Absent =>
                            \E a \in Apps : api[App(a)] # Absent /\ api[App(a)].svc = i
    BY DEF ServiceAsAsked
  <2>1. /\ \A a \in Apps : api[App(a)] # Absent =>
               Has(api, "svc", a, api[App(a)].svc, api[App(a)].ask.port)
        /\ \A i \in Ids : api[Service(i)] # Absent =>
               \E a \in Apps : api[App(a)] # Absent /\ api[App(a)].svc = i
    BY AskedThings DEF Fields, Made, Want
  <2>2. QED BY <2>1 DEF Has, Right, Mine, Made, Held, None, Ids
<1>2. QED BY <1>1, AlwaysAsked, PTL

(* The same of the config map a deployment is annotated with: it holds the *)
(* sources asked for, and what it replaced is gone.                        *)
THEOREM ConfigAlwaysAsAsked ==
    ASSUME Undisturbed
    PROVE  Spec /\ []OneAtATime => []ConfigAsAsked
<1>1. AskInv => ConfigAsAsked
  <2> SUFFICES ASSUME AskInv, Quiescent
               PROVE  /\ \A a \in Apps :
                            LET o == api[App(a)]
                            IN  o # Absent =>
                                  IF o.ask.conf = {} THEN o.cm = 0
                                  ELSE /\ o.cm # 0 /\ api[Config(o.cm)] # Absent
                                       /\ api[Config(o.cm)].conf = o.ask.conf
                      /\ \A i \in Ids : api[Config(i)] # Absent =>
                            \E a \in Apps : api[App(a)] # Absent /\ api[App(a)].cm = i
    BY DEF ConfigAsAsked
  <2>1. /\ \A a \in Apps : api[App(a)] # Absent =>
               Has(api, "cm", a, api[App(a)].cm, api[App(a)].ask.conf)
        /\ \A i \in Ids : api[Config(i)] # Absent =>
               \E a \in Apps : api[App(a)] # Absent /\ api[App(a)].cm = i
    BY AskedThings DEF Fields, Made, Want
  <2>2. QED BY <2>1 DEF Has, Right, Mine, Made, Held, None, Ids
<1>2. QED BY <1>1, AlwaysAsked, PTL
=============================================================================
