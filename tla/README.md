# The IBM Application Gateway operator in TLA+

TLA+ models of the operator's own logic, TLC configurations that check them on
small instances, and TLAPS proofs of what holds for every instance. Source
lines are those of `internal/controller/ibmapplicationgateway_controller.go`
(C) and `internal/controller/ibmapplicationgateway_webhook.go` (W).

## The system

The operator is one process with two jobs.

| Component | State it keeps | Operations | Modelled in |
|---|---|---|---|
| Gateway reconciler (C 109-326, 807-886, 1503-1526) | a work queue and one worker with its locals; everything else is in the cluster: gateway, generated map, deployment | `Reconcile`, `handleConfigMapChange`, `createNewConfigMap`, `createNewDeployment`, `manageError` | `GatewayController`, `GatewayReports`, `GatewayService` |
| Configuration merge (C 332-802, W 398-489) | the master document | `getMergedConfig`, `createIAGConfig`, `mergeIAGConfig`, `handleWebEntryMerge`, `mergeMapsRecursive`, `handleOidcEntryMerge` | `ConfigMerge`, `ConfigMeaning` |
| OIDC client registration (C 1158-1413) | the secret, the clients at the provider | `handleOidcRegistration` and the calls it makes | `OidcRegistration`, `CredentialService` |
| Sidecar webhook (W 93-1062, 1067-1467) | nothing between requests; two generated names in annotations of the deployment | create, update and delete of annotated deployments | `SidecarWebhook`, `SidecarService` |
| API server, client cache, garbage collector, deployment controller | the stored objects, watch streams | create, update, delete, watch | `KubeApi` and actions of the modules that use it (external) |
| Manager process (`cmd/main.go`) | none | start, restart | `Init`, `Restart` |

They interact through the API server only. Reads come from the cache of the
controller-runtime client, which watches bring up to date late but in order,
object by object; writes go to the API server, and updates carry the resource
version that was read. The webhook is called by the API server while it holds a
request. The merge and the registration are functions both call, the reconciler
from its one worker, the webhook from as many handlers as there are requests.

What is hard about it: stale reads at every branch; several writes that belong
together with a crash, a conflict or a fault between them; work that is
triggered only by events, some of which never come; admission handlers that act
before the request they serve is decided; two actors that register at an
outside provider for one secret. `PROJECT.json` lists the hazards with their
lines.

## The modules

`KubeApi` has one API server and one cache, object by object: `api`, `version`,
`cache`, `stream`. `Put` gives out a new resource version that is never used
again, `Fresh` is the optimistic lock, `Renew` is a write that changes nothing
and so is no event, `Advance` delivers one watch event, `Relist` is the list of
a new process. All but pure algorithms build on it.

`GatewayController` is the reconciler. A gateway is `[rv, uid, gen, spec,
failed]`; its spec is a replica count, options (image, language, service
account: what the template is compared by), the literal entries, and the names
of source maps. `job` has the worker's locals, `pc` the write it does next. A
step ends with a write to the API server or a return, so that everything else
may happen between two writes:

| Action | Code |
|---|---|
| `ReconcileGateway`, `ReconcileConfigMap`, `ReconcileNothing` | C 109-158, the reads at the start and the merge |
| `Touch` | C 300-323, one status write of `handleConfigMapChange` |
| `CreateMap`, `UpdateMap`, `KeepMap`, `MapRefused` | C 807-847 |
| `CreateDeployment`, `ScaleDeployment`, `UpdateDeployment`, `KeepDeployment`, `DeploymentRefused` | C 160-272 |
| `PanicInMerge` | `getMergedConfig` on a nil request (a malformed URL, C 551-566) or a nil map of a secret (C 1398) |
| `PanicNoAnnotations` | C 256 when the annotations are a nil map |
| `ManageError` | C 1503-1518 |
| `Deliver`, `Expire` | the watches of C 1521-1526 and the rate limiter |
| `Annotate`, `Collect` | the deployment controller and the garbage collector |
| `Restart`, `Resync` and the users' actions | the environment |

A panic is recovered by controller-runtime (0.19, by default), which holds the
request back and tries it again, for ever when the cause stays; nothing is written
to the status. Which gateways panic in the merge is decided by what they ask for
(`Panicking`). `Restart` may happen between any two writes: the process is killed
(C 166), the queue and the locals are gone, and the new one lists.

`req` carries a name and no kind, as in the code. `applied` is a history
variable: the newest spec of a gateway that anything was written from.

`GatewayReports` adds what users are told. The status does not tell it by itself:
`handleConfigMapChange` (C 311-316) writes to a healthy gateway the very status that
`manageError` (C 1508) writes to one that failed. So `told` is a history variable:
for each gateway, how its last reconcile ended since the gateway or a source it names
was changed, namely not in a failure (`nothing`), in one that is in the status
(`status`), in one that the API server did not take for a cause of its own (`log`),
or in one it did not take because the copy was old (`refused`). A gateway is
`Reported` when `told` says `status` and the status does too, or when it says `log`;
a touch is no report, nor is a refused one. It is `UnderWay` when it is in the
worker's hands or will be without anybody's doing: its name is in the queue, held
back or in a watch, or that of a source whose touch is still to come.

`GatewayService` is what the reconciler promises, without queue, worker, caches
and API server: users write gateways; config maps and deployments are made for
one gateway object each; a deployment is made on a map that is there and has its
owner; what is written comes from a state of the gateway that was asked for, and
never from an older one than before. `GatewayController` has the refinement
mapping at its end (`Service`). The stored objects give `life`, `maps` and
`mounted`; `asked` is the version counter of the gateway, `rolled` is `applied`.
All steps of the worker that write nothing, of the caches and of the queue
stutter; `CreateMap` is `MakeMap`, `CreateDeployment` is `Mount`, the updates are
`Renew`, status writes and edits are `Ask`, the garbage collector is `DropMap`
and `Unmount`.

`SidecarWebhook` handles each request in a slot `req[r]`, whose `pc` says what
call comes next. `AdmitCreate/Update/Delete` are `mutationRequired` and
`validateAnnotations`; `AddService`, `DropService`, `AddConfig` and `DropConfig`
are the calls of `createObjects`, `updateObjects` and `mutateDeleteCommon` in
their order, each with its failure; `Store` and `Dismiss` are what the API server
makes of the answer (`Patched`), `TimeOut` that it no longer waits for it. What
users annotate has four aspects, which the code tells apart by their prefixes:
image, environment, configuration, port.

`SidecarService` is what the webhook promises about deployments, without
requests, handlers, caches and versions: services and config maps are made for one
deployment each, under names that are given out once, and never change; all
that is made, dropped or changed serves a request for that deployment and no
other; a deployment comes into being with all that it asks for or with nothing
of the operator's, and never comes to name what serves another. A request for `a` is that
`a` is `busy`; `AddService` is `MakeService`, `DropConfig` is `DropConfig`, `Store`
is `Change`, admitting is `Ask`, and the end of requests, by an answer, a time-out
or the death of the operator, is `Finish`. It allows what the further configurations
show: that an update leaves the old service gone, or something of a deleted
deployment there.

`ConfigMerge` has documents as trees in which the two Go types of maps are
different kinds, because `mergeMapsRecursive` treats them differently. It is
sequential: one action per entry of the list, and `Register` at the end. The
sources of a gateway are a list; those of a sidecar come out of a Go map, in any
order, and `SortEntries` sorts them by their order fields, stably, as
`createIAGConfig` does. `Readable` says when a source yields a document: for a
web source only when each of its headers has a name and a value, and a header of
type `secret` a secret with that key (`Sendable`). `Yields` says which: a config map that is there
but lacks the data key (`NoKey`) yields the empty string of a Go map (C 370, W 507),
which is an empty document, and no error. Keys that are not strings
(C 656-667) are left out. `mergeMapsRecursive` and the functions that make keys
strings call themselves for the maps below; what they call is a constant
(`MergeBelow`, `KeysBelow`), for which the configurations give the functions
`MergeMaps` and `StringKeys` themselves. So the module has no recursive
definition, and can be proved about. `ConfigMeaning` adds what the
documentation says of the merge by the meaning of documents, which needs
recursive definitions and is for TLC.

`OidcRegistration` has one secret and several callers. `Discover`, `GetToken`
and `Register` are calls to the provider, each of which may fail; the secret is
read in `GetSecret` and written in `UpdateSecret`. Meanwhile the administrator
may take the credentials out of the secret, delete it, or create it anew.

`CredentialService` is what its users see: a secret with data of theirs, and a
client that is added where there is none, once. `unused` are the clients that may
still be stored; under the refinement mapping these are the ones the provider has
not registered yet and those that callers are about to store (`Unused`). A
registration whose answer is lost and a write that is refused are `Lose`.

The `MC` modules give the constants their values. Operators that stand directly
before another one and carry its name with an ending (`NewMapUnowned` before
`NewMap`) are plausible mistakes in it; no specification uses them. With one of
them in the place of the original, TLC finds the property violated that
`PROJECT.json` lists for it: so each property is known to depend on the code it
is about.

## What is checked

Every configuration is for the `MC` module of the module it is about.

Runs in which the properties hold:

| Run | Properties | Instance |
|---|---|---|
| MCHostile | `TypeOK`, `MountedMapExists`, `NeverRollsBack`, `ImplementsService` | one gateway, one source, lagging caches, a fault, 4 user actions of any kind but `deleteMap`, at any time: 2.4 million states |
| MCReported | `NeverForgotten`, `CurrentStaysCurrent`, `EventuallyDoneOrReported` | two gateways that share a source, patient users, caches faster than the queue, a fault, panics in the merge and after it, the operator killed between any two writes, resyncs, fair: 620 thousand states |
| MCDeleted | `DeletedGatewayLeavesNothing` | one gateway, impatient users, lagging caches, a fault, panics, restarts and resyncs at any time, fair: 1.1 million states |
| MCSidecar | `ServiceAsAsked`, `ConfigAsAsked` | two deployments, two requests at a time, one for each, four in all, over 9 sets of annotations, 5 of them invalid: 540 thousand states |
| MCSidecarHostile | `TypeOK`, `NamesOwn`, `CreatedComplete`, `ImplementsSidecarService` | two deployments, two requests at a time, three in all, lagging caches, a fault or crash: 403 thousand states |
| MCMerge | `MergesWhatSourcesSay`, `HighestOrderWins`, `RegisteredClientWins`, `LastSourceWins`, `TopLevelKept` | every pair of 77 documents, a registration between any two of 21 sources, web sources with up to two headers of six kinds, 1331 lists of three sources with plain values or arrays, some of which cannot be read or lack their data key, and 891 lists of three sources of a sidecar with orders from 1 to 3: 35 thousand states |
| MCOidc | `TypeOK`, `StoredClientStays`, `ImplementsCredentials`, `TakenOutStaysOut`, `CredentialsArrive` | the worker and two handlers with lagging caches, three calls, a fault, three edits of the secret (created, cleared, deleted), data to get a token with in it, other keys only, or none, three clients, fair: 450 thousand states |

Where the constants restrict the environment, they do so because the property
is known not to hold without it, and a configuration below shows that:

- `Patient`: users change things when the operator is `Settled`. Impatient users
  run into MCStaleMap. The operator may be killed at any time.
- `Prompt`: the worker starts, or a request is sent, when the caches are up to
  date. Late caches run into MCStaleMap, MCQuickDelete, MCStaleCompare and
  MCOidcTwice. Even so nothing keeps the caches current while a reconcile or a
  request is under way.
- `UserActions` tells apart two kinds of edits and of source changes. An `edit`
  changes the replica count or other things, a `mixedEdit` both, or the one
  while the other is still undone; MCReported has the first only, the second
  runs into MCMixedEdit. A `writeSource` is one that every gateway that names
  the source `Takes` up; a `writeUnheard` comes when the touch of some gateway
  would be no event, or while its replica count is still to be put right, and runs
  into MCNoopTouch or MCMixedEdit.
- In MCReported sources, generated maps and deployments are not deleted by users. A
  reconcile that lacks a source fails and leaves an edit undone, so that the next
  one meets two at once, which is MCMixedEdit again; and that a deployment or a
  generated map is gone is no event for its gateway (C 1521-1526).

Runs in which TLC finds a property violated; each is a disagreement of the code
with its documentation, and `PROJECT.json` quotes what is contradicted:

| Run | Property | What happens |
|---|---|---|
| MCNoopTouch | `RunningIsUpdated` | the second change of a source map is no event (C 316) |
| MCStaleMap | `NeverForgotten` | a second generated map, of which the deployment gets the version but not the name (C 826) |
| MCConfigEdit | `SidecarMountsItsConfig` | the volume is patched only together with the container (W 980) |
| MCThreeSources | `MergesWhatSourcesSay` | the third source overwrites what the first two agreed on (C 761) |
| MCOidcNoData | `NoNeedlessClient` | a secret without data: register, panic, again (C 1397) |

### Further configurations

They are not among the runs. TLC finds the property of each violated within
seconds, and the trace shows how:

| Configuration | Property | What happens | What is contradicted |
|---|---|---|---|
| MCMixedEdit | `RunningIsUpdated` | an edit of the replica count and something else: only the count is put right (C 178-189) | README 583 |
| MCGivesUp | `RunningIsUpdated` | errors are never retried (C 1517) | README 583 |
| MCSingleMap | `SingleMap` | MCStaleMap, seen from the maps (C 827) | README 402 |
| MCStatus | `StatusTellsSuccess` | the status is never set back (C 1508) | the comment on `Status`, types 219 |
| MCNameClash | `NeverForgotten` | a source map with the name of a gateway (C 113) | README 473 |
| MCRemoveAnnotations | `RemovalIsLetThrough` | removing all annotations is refused (W 939) | README 1071 |
| MCDryRun | `DryRunChangesNothing` | a dry run creates objects (W 892) | `sideEffects=None`, W 77 |
| MCQuickDelete | `DeletedAppLeavesNothing` | what the cache does not have yet is not deleted (W 1013, 1043) | README 1082 |
| MCRefusedUpdate | `RefusedUpdateChangesNothing` | the service is replaced before the update fails (W 965-976) | README 1072 |
| MCStaleCompare | `ServiceAsAsked` | updates are compared with a cached deployment (W 133) | README 1073 |
| MCNoDataKey | `NoKeyMissing` | a config map without the data key is merged as an empty document (C 370, W 507) | README 955 |
| MCOtherProvider | `OnlyOidcProvider` | another identity provider stays (C 527) | README 579 |
| MCTwoProviders | `OidcSettingsStay` | settings of a merged OIDC provider are lost (C 482) | README 578 |
| MCOidcTwice | `NoNeedlessClient` | two callers register (C 1349) | README 295 |
| MCOidcNoToken | `AuthorizedAsGiven` | a failing token request is ignored (C 1377) | README 265 |

**Bounds.** Users act up to five times: create, two changes, a deletion and a
re-creation. The worker has at most two writes and a status write per
reconcile, so that one fault reaches each of them, and each conflict that
matters is between one reconcile and one other event. Two or three generated
maps suffice for a map that is lost or made twice and one that replaces it.
The sidecar runs have a name for each object their requests can make. Two
requests for one deployment at a time are kept out of MCSidecar (`OneAtATime`),
as the second is compared with an object that the first is about to change,
which is MCStaleCompare again; deployments and slots are interchangeable, and
its states are counted up to that symmetry. Two sources are the fewest that merge, three
the fewest where a merged document is merged again, or where two of equal order
stand beside a third. Three callers of the
registration are one more than a race needs, and three clients are one for each.

**Deadlock** is not checked: when users and bounds are exhausted there is
nothing left to do. That the operator does not stop before is what
`EventuallyDoneOrReported`, `DeletedGatewayLeavesNothing` and `CredentialsArrive`
say. The first leaves out gateways whose merge panics: they are tried for ever, as
the code does, so that `NeverForgotten` has them `UnderWay`, and they are never done.

**Fairness** (`FairSpec`). The worker is a loop, so an enabled step of it
happens (`WF`); the queue is first in, first out, so a name that is in it again
and again is taken in the end (`SF` on `Reconcile(n)`). Watches deliver, the
rate limiter lets go, and the cluster's own controllers work (`WF`). Calls to
the API server return; that calls to web sources do is an assumption, since
their client has no time-out (C 549). Users are not fair. In `OidcRegistration` callers
run and the watch delivers; only `CredentialsArrive` needs it.

## What is proved

`GatewayControllerProofs`, for any gateways, source maps, specs and bounds,
under the named assumptions of `GatewayController` about its constants:

- `TypeCorrect`: `Spec => []TypeOK`. `TypeOK` is not inductive. `TypeInv` adds
  `JobShape`: at each `pc`, which of the worker's locals have been read.
- `MountedMapAlwaysExists`: `Spec => []MountedMapExists`, if
  `"deleteMap" \notin UserActions`. A deployment may be written from copies that are
  several steps old, in the cache or the worker's locals, so the invariant
  speaks of every copy of an object. `MountInv` is the conjunction of `TypeInv` and
  - `StoreCopies`: any copy of a deployment, in the API server, a stream or the
    cache, names a map that was made, with the owner that map has;
  - `JobCopy`: so does the copy the worker holds;
  - `StoreBorn`, `OwnersBorn`: uids are below the version counter of their
    gateway, so that a new gateway has a uid no older object names;
  - `Unmade`: a map that was not made yet is nowhere;
  - `JobMap`: the map the worker is about to mount exists, as long as the
    gateway it works for lives;
  - `MountedMapExists` itself.

  `StoreStep` says once what any write, removal or delivery does to the copies,
  and `JobStep` what a step of the worker does to its own; the proof then goes by
  the actions of `Next`, with a lemma for each group.

`GatewayServiceProofs`, on top of it:

- `NeverRolledBack`: `Spec => NeverRollsBack`, without an assumption about users.
  The invariant `RollInv` orders all copies of a gateway on its way from the API
  server to the cache (`Trail`): they are numbered from old to new; what was
  written (`applied`) is no newer than any of them, so that nobody can read
  anything older any more; and what the worker holds lies between. A crash is
  the interesting case: the new process lists, and cannot list what is older
  than what the old one had read.
- `ServiceImplemented`: `Spec => ImplementsService`, if
  `"deleteMap" \notin UserActions`. Initial states map to initial states, and
  under `MountInv` and `RollInv` every step maps to a step of `GatewayService` or
  a stutter (`ServiceStep`). `Mount` needs `JobMap`; `Roll` needs `RollInv`;
  `DropMap` needs that the garbage collector takes only what has no living owner.

`OidcRegistrationProofs`, for any number of callers, under the assumptions of
`OidcRegistration`:

- `TypeCorrect`: `Spec => []TypeOK`, from `TypeInv`, which adds that a caller past
  the read has a secret.
- `ClientStays`: `Spec => StoredClientStays`. `ClientInv` adds to the types:
  `HeldInv`, the stored secret has the newest version; `SeenInv` and `ReadInv`,
  every copy in the cache, the stream or a caller is no newer, and one that is as
  new is equal; callers remember only secrets without a client. So a write that
  the optimistic lock accepts is one on a secret without a client.
- `CredentialsImplemented`: `Spec => ImplementsCredentials`. `PromiseInv` adds to
  `ClientInv` that no two callers are about to store the same client (`ApartInv`),
  and that a stored client is not unused (`StoredInv`). A write that is accepted is
  one on the secret the caller has read, so that what users put there stays; the
  client it adds is no longer unused then, because no other caller has it.
- `TakenOutAlwaysStaysOut`: `Spec => TakenOutStaysOut`, from the refinement: a
  client that was stored is used up (`SpentStays`), and the service stores only
  unused ones.

`SidecarWebhookProofs`, for any deployments, slots and names, under the
assumptions of `SidecarWebhook`:

- `TypeCorrect`: `Spec => []TypeOK`, from `TypeInv`, which adds what a handler
  has found before each of its stages.
- `NamesAlwaysOwn`: `Spec => []NamesOwn`. `OwnInv`: a name that was not given out
  has no object; the names in deployments and requests were given out, and their
  objects made for that deployment; and the name of what a handler has just made
  is known to nobody else, so that no other request can remove it.
- `CreatedWhole`: `Spec => CreatedComplete`. `ProgressInv` says what is there at
  each stage of `createObjects`; `OwnInv` is needed for it, because only it says
  that no delete under way takes away what the create has made.

  Every step is one of five views (`Quieten`, `Dropping`, `Making`, `Storing`,
  `Sending`), each with a lemma for each invariant, so that the proof does not go
  through the actions more than once.

`SidecarServiceProofs`, on top of it:

- `SidecarServiceImplemented`: `Spec => ImplementsSidecarService`. Initial states map
  to initial states, and under `CreateInv` (`TypeInv`, `OwnInv`, `ProgressInv`) each
  of the five views maps to a step of `SidecarService` or a stutter. `DropServes`
  needs `OwnInv`: a name a request removes is its deployment's, whatever else
  happened to the name since it was read. `StoreServes` needs `ProgressInv`: what a
  create answers names objects that are still there.

`GatewayQuietProofs`, for any gateways and source maps, on top of
`GatewayControllerProofs`:

- `CurrentAlwaysStays`: `Spec => CurrentStaysCurrent`, if `Patient` and `Prompt`.
  Under these the worker starts from what is there, and nobody edits the gateway
  or its sources while it works: `SteadyInv` says that the last event of each
  watch is what the API server holds, that what the worker has read and merged
  is still so, that the maps a deployment names were made for its gateway, and
  that from the second write on the map holds what was merged. The write to the
  map and the one to the deployment must each leave the gateway as asked, also
  if the process is killed between them.
- `NeverForgets`: `ToldSpec => []NeverForgotten`, if `Considerate` (`Patient`,
  `Prompt`, and the user actions of MCReported) and `NamesApart` (no source map has
  the name of a gateway or of the leader's map, which is MCNameClash). There is no
  assumption about faults, panics or when the operator is killed. The invariant
  `NeverForgottenInv` is the conjunction of
  - `OrderlyInv`: `SteadyInv`, `MountInv`, what the worker has read of the deployment
    is still so, it touches only users of the source, and a deployment belongs to
    the gateway that lives;
  - `HalfInv`: a deployment is missing, or has the right size (`RightSize`), or
    does the right work (`RightWork`). A reconcile puts only one of the two halves
    right, and whatever fails must not leave both wrong, because no event comes
    for the second;
  - `ToldInv`: a status that was written stays, and no report is refused, because
    nobody edits a gateway while the worker has it;
  - `CareInv`: a gateway that is not as asked has been reported, or has its own turn
    to come, or that of a source of its, and then its status does not say
    failed yet, so that the touch will be an event.

  A fault may hit `manageError` itself, which only logs that it could not write
  the status; that is `log`, the weakest report there is.

`SidecarQuietProofs`, on top of `SidecarWebhookProofs`, for any deployments, slots
and names, if `Undisturbed`: `Prompt`, `MaxFaults = 0`, and users who create,
update, touch and delete. The further configurations show what else goes wrong.

- `ServiceAlwaysAsAsked`, `ConfigAlwaysAsAsked`:
  `Spec /\ []OneAtATime => []ServiceAsAsked`, and the same for `ConfigAsAsked`.
  `OneAtATime` is the state constraint of MCSidecar: handlers run at the same
  time, but for different deployments. The invariant `AskInv` adds to that of
  `CreatedWhole` that the watches end with what is stored (`WatchInv`), that a
  deployment without a request is as it should be (`RestInv`), and for each
  request what its handler has found out and how far it is (`WorkInv`): of each
  kind the old object, both, or the new one are there. Services and maps are
  handled by one set of lemmas, with the kind as a parameter.

`ConfigMergeProofs`, for any documents and lists:

- `SortingIsStable`: `Sorted` permutes, by order, and leaves equals as they came.
- `HighestOrderAlwaysWins`: `Spec => []HighestOrderWins`. `MergeInv`: of the
  settings that only have plain values so far, the master document has that of
  the last source; the sources are in their order; the merge ends at a source
  that cannot be read; the registration changes nothing but the identity.
- `RegisteredClientAlwaysWins`: `Spec => []RegisteredClientWins`, with a lemma for
  each of the two ways the client gets into the document, and one that it is
  found there still when the keys have become strings.
- `LastSourceAlwaysWins`: `Spec => []LastSourceWins`, from `MergeInv`, which is about
  the last source of a setting in the list, sorted or not.
- `TopLevelAlwaysKept`: `Spec => []TopLevelKept`. `MergeInv` has that every source
  so far could be read; `SettingInv`: at each entry the settings at the top of the
  master document are those at the top of these sources. It says no more: below the top a setting
  may be lost (MCThreeSources), and a config map without its data key counts as one
  that says nothing (MCNoDataKey).
- `TopArraysAlwaysKept`: `Spec => []TopArraysKept`. `ArrayInv`: at each entry of the
  list a setting at the top that has only arrays so far is an array of all their
  entries; when keys become strings none of them is lost. For lists of two sources
  `MergesWhatSourcesSay` says more, so no run checks it.

  Their hypotheses `KeysRecursive` and `MergeRecursive` say what the
  configurations do, that the two constants are the functions that call them.

Checked by TLC alone: liveness (`EventuallyDoneOrReported`,
`DeletedGatewayLeavesNothing`, `CredentialsArrive`), which is beyond the prover;
and `MergesWhatSourcesSay`, which compares documents of any depth, and would need
an induction over them.

## What is not modelled

- The webhook's handlers for pods: the webhook is registered for deployments
  only (W 77), so that nothing ever calls them.
- The texts of configurations, probes and their defaults, pull secrets,
  resources: copied into the deployment and compared with nothing (C 911-1122).
- HTTP and TLS: a source answers with a document or does not, a provider answers
  or does not. POST data of a registration.
- Keys of YAML maps that are not strings, and how a node port is parsed: both are
  conversions with no state, whose results the API server or the gateway checks.
- Namespaces: a model is one namespace that the webhook does not ignore.
- Leader election: one process reconciles. Its config map is what `Leader` is
  for. A second replica would only serve admission requests; the handlers keep
  nothing between requests, so that it is more slots of `SidecarWebhook`, but
  with a cache of its own.
- Events and logs.
- Generated maps in the queue: no gateway names one, so there is nothing to do
  for them.

Two simplifications that a reader may stumble over:

- A reconcile reads the gateway, the sources and the deployment in one step.
  The cache lags object by object and without a bound, so an object that is
  delivered between two of the reads is one that, in the model, is delivered just
  after the step. Under `Prompt` this excludes what arrives between the reads. The
  generated map is read in the step that writes it, as is the gateway in
  `handleConfigMapChange`.
- The registration is not a part of `GatewayController`: from there it is a
  source that yields a document or fails, as a web source is. The writes it makes
  are to the secret, which is neither watched nor read by anything else in the
  reconciler, so that the two do not share state. The callers of
  `OidcRegistration` are what the composition would come to.

## Plan

Written in this order, the most important behaviour first: `KubeApi`,
`GatewayController` and its proofs, `SidecarWebhook`, `ConfigMerge`,
`OidcRegistration`; then `GatewayService` and its refinement, the order of the
sources of a sidecar and the headers of web sources, a secret that is deleted
meanwhile, and the proofs of `GatewayServiceProofs`, `OidcRegistrationProofs`
and `SidecarWebhookProofs`; then those of `SidecarQuietProofs`,
`GatewayQuietProofs` and `ConfigMergeProofs`; at last the two services,
`CredentialService` and `SidecarService`, with the proofs that they are
implemented, what is proved of sources and arrays, and `GatewayReports` with
`NeverForgets`.

What could follow, by what it would add:

1. Reads of a reconcile as steps of their own; two replicas with two caches.
2. The meaning of a merged document for any documents, which needs induction
   over data.
