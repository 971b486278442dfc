# Verification of External Secrets Reloader

TLA+ models of the reloader, the TLC runs that check them on small instances and
TLAPS proofs for every instance. `PROJECT.json` maps each definition to the lines
it models; paths below are relative to `src/`.

## The system

The reloader is a Kubernetes controller. A cluster-scoped `Config` names
*notification sources* (webhook, TCP socket, Vault audit socket, Event Grid, SQS,
Pub/Sub, Kubernetes Secrets and ConfigMaps) and *destinations* (Deployments,
ExternalSecrets, PushSecrets, WorkflowRunTemplates). Listeners turn notifications
into `SecretRotationEvent`s on one buffered channel; for each event every
destination object that refers to the secret is annotated, which restarts or
refreshes it.

| Component | State | Operations | Talks to |
|---|---|---|---|
| Config controller (`internal/controller`) | none of its own; finalizer and annotation on the Config | `Reconcile`, shutdown runnable, `processEvents` | API server (reads through an informer cache), listener manager, event handler |
| Listener manager (`internal/listener/manager.go`) | listeners by Config and key, under one mutex | `ManageListeners`, `StopAll` | listeners, webhook server |
| Webhook server and routes (`internal/listener/webhook`) | routes by key under a RW lock; per route a context and a retry goroutine | `ServeHTTP`, `Register`, `Unregister`, `handle`, `retryMessage`, `shutdown` | event channel |
| Socket and Event Grid listeners (`tcp`, `hashivault`, `eventgrid`) | a bound address; Event Grid binds it in a goroutine | `Start`, `Stop`, read loops | event channel |
| Polling listeners (`sqs`, `pubsub`, `kubernetes`, `mock`) | clients; the Kubernetes one a version map | `Start`, `Stop`, message handlers | event channel, cloud services |
| Event handler (`internal/handler/processor.go`) | one list of destinations for the process | `UpdateDestinationsToWatch`, `HandleEvent` (a goroutine per event) | destination handlers |
| Destination handlers (`internal/handler/*`) | none | `Filter`, `References`, `Apply`, `WaitFor` | API server |

What is hard: the worker reads a late cache and writes the whole object back; edits
of a Config keep some listeners and replace others that share a route or an address;
routes are cancelled under running requests and the lock is held while a goroutine
ends; the channel is bounded; events are handled concurrently without coordination;
failures are mostly logged and passed over; everything but the Configs is lost in a
crash. `PROJECT.json` lists these hazards at their lines.

What makes it right: a Config that is gone does not listen; an unchanged source is
never interrupted; a listener owns its route or address and gives it back; the
controller converges to the last valid spec; a client is told the truth; nobody
blocks for ever; no write of the reloader undoes somebody else's; only objects that
refer to the secret are touched and all of them are tried.

## Modules

**Reconciler** - the controller. `object` is the API server, `backlog` the watch
events on their way to the informer cache `view`, `queue` the work queue, `pc`, `req`,
`cfg` the running `Reconcile`. Each call of `Reconcile` that others can observe is an
action: `Get` takes the early returns (`Branch`), `Cleanup` and `RemoveFinalizer`,
`AddFinalizer`, `Annotate`, `UpdateDestinationsToWatch`, `ManageListeners`. `Store`
is the API server: a new version per write, and a deleting Config disappears with its
last finalizer. `UpdateRefused` is a conflict, a missing object or a forbidden
finalizer; `CallFails` any other error, also of `Get`; both requeue. `accepted` is the list of
sources the listener manager last took.

**ConfigService** - what the controller promises, without informer, queue, finalizers
and versions of writes: a Config that does not exist has no listeners; listeners are
those of a state of the Config that was written and never go back behind one acted upon;
they are stopped for a deletion and by a crash and for nothing else, so not by a rejected
edit or a failed call; the newest state is not lost before it is acted upon or replaced.
Reconciler implements it (`ImplementsService`) with the mapping `Service`: `current` is
the spec in the API server, `listening` is `accepted`, and `known`, the states the
controller may still act upon, are those in the cache, on their way to it, and in the
hands of the worker.

**ListenerManager** - `ManageListeners` and `StopAll`, one action per loop iteration
because requests are served in between, with `routes` of the webhook server and
`bound` addresses. A source is `[type, block, stray]`: `block` is the part of the
source that belongs to its type and that the listener key hashes, `stray` says that a
Kubernetes block is set on a Webhook source. The hash is the pair of type and block
(`HashAssumption`: it does not collide with a `pathSuffix`, which the CRD pattern and
the length of a hash make all but certain). `strings.TrimSpace` is the identity on
suffixes the CRD pattern admits. A listener other than a webhook may fail to start
(`SkipSource`), a Webhook cannot; `Refused` has the reasons the model knows, `Faults`
admits others. The goroutine of an Event Grid server is at `server`: `ListenAndServe`
checks for a shutdown, listens, and only `Serve` tracks the socket. `Close` (`CloseServer`)
therefore ends it only before the check and once it serves. In between, the goroutine goes
on after Stop: past the check it is counted in `late` and will still bind the address, past
`net.Listen` its address is in `leaving` until `Serve` sees the shutdown (`ServeRefuses`).
`MaxLate` bounds the late goroutines of one listener.
`names` are the controller names of the Kubernetes watches: controller-runtime v0.24.1
takes a name for the lifetime of the process. `StartPanics` is a start that uses a nil
pointer: controller-runtime recovers it above `Reconcile`, the mutex is released by its
`defer`, and the rest of the call, the removal of an empty map included, does not happen.

**Credentials** - how SQS, Pub/Sub and Kubernetes sources authenticate, as operators
from the auth block of a source to an outcome: `renewed`, `fixed` (a token or a key that
nobody replaces), `error` or `panic`. `SecretKeys`, `ServiceAccounts` and `Ambient` are
what the cluster offers. A missing `secretRef` or `serviceAccountRef` of an SQS source is
used without a check, and a Kubernetes `serviceAccountRef` goes through a client set
that is made only later.

**WebhookServer** - one route key of the shared server over its successive route
objects: request handlers, the retry worker, `Register` and `Unregister` holding the
write lock while the old route shuts down, the event channel, its consumer, shutdown.
Authentication and payload parsing are reduced to their outcomes; times are left out. Between
authentication and processing the handler is in `io.ReadAll`: the server sets no read
timeout, so the body arrives or fails (`BodyArrives`, `BodyFails`) when the client likes.

**Matching** - which objects an event is about, as operators over small manifests: the
`Filter` of the four handlers (selectors, names, the namespace that only Deployments
are limited to), their `_references`, and the expressions of an ExternalSecret at which
`MustCompile` panics, depending on what is looked at before. A name stands for a Secret,
a ConfigMap or a provider key; a selector is a set of labels, or invalid.

**EventHandler** - concurrent `HandleEvent` goroutines over the destinations. Objects
carry a resource version, a part owned by others (`edit`), the annotations of the
reloader (`stamp`) and, for Deployments, `generation`, `observed` and `rolled` for the
rollout. `view` is the informer cache. `cache` is the list of destinations, which
Reconcile replaces without a lock: between `UpdateDestinationsToWatch` and
`DestinationsStored` a handler may read either array with either length (`Readable`).
What lies behind the end of an array is read as a destination of no known type, which
the handler skips; a fault of such a read is the `Crash` that may happen at any time.
`ReferencesPanics` ends the process with all events in flight, as nobody recovers it.

**Sources** - the other sources, each a module over `EventChannel` (the channel as a
sender sees it: a number of waiting events, a consumer, shutdown, other senders), put
together in `Sources`. They share nothing but the channel, so a behaviour runs the
sources in `active` beside arbitrary other senders.
`SqsSource`: the poller that receives, deletes and hands over batches, the worker that
publishes them, the two channels between them; the worker has the context of the
process, not of the listener. `PubSubSource`: one callback per message with its ack or
nack, and the service that delivers again (after the callback has ended: a second delivery
of a message whose lease ran out under its callback is left out). `SocketSource`: a connection of the TCP
source, also used by Vault; a line is two pieces, a Read returns any number of pieces,
and which whole lines are notices is a constant. `WatchSource`: one object, the
informer that turns its states into notifications (old and new object, relists, the
selector that looks at the new object only) and the map function with `VersionMap`, which
a restart of the process (`WatchRestart`) empties; the informer then lists the object anew.
`EventGridSource`: requests with batches of events and the status each gets.

`MCReconciler`, `MCListenerManager`, `MCEventHandler` and `MCSources` give the constants
values; `WebhookServer` is run as it is. The proofs are in `ReconcilerProofs`,
`ServiceProofs`, `ListenerManagerProofs`, `WebhookServerProofs`, `EventHandlerProofs` and
`SourcesProofs`, each about the module of its name and `ServiceProofs` about the
refinement of ConfigService. Operators
marked `Fault:` are plausible bugs; each property is violated when one of them takes
the place of the definition that follows it.

## Runs

| Run | Checks | Bounds |
|---|---|---|
| `reconciler` | `GuardedByFinalizer`, `RestsWhenDone`, `NoEditReverted`, `Converges`, `DeletionCompletes`, `ImplementsService` | 2 Configs, 3 specs (one rejected), 3 user writes (create, delete, create again), 1 failed call or crash |
| `listeners` | `RouteOwned`, `AddressOwned`, `OnlyAccepted`, `WebhooksServed`, `StopAllClears`, `KeptUndisturbed` | 2 interchangeable Configs, 10 lists of webhooks with and without suffix, socket, Event Grid and watch sources, one address, 1 late goroutine per listener, failing and panicking starts, any number of edits |
| `single_config` | `OnlyAccepted`, `AddressGivenBack` | 1 Config, 13 lists with every way to authenticate and one address that passes between Event Grid and TCP, 2 late goroutines |
| `webhook_server` | `AnswerIsTrue`, `NoWorkerLeft`, `HandlersReturn`, `LockReleased`, `AcknowledgedTaken` | 2 requests, 2 route objects, channel of 1 |
| `event_handler` | `OnlyReferenced`, `AllAttempted`, `NoEditUndone`, `StopsAtUnfinishedRollout`, `HandlersEnd` | 2 events, an object of each kind, 2 lists of destinations stored at any time, an expression that does not compile, 1 edit by others, failing calls, crash |
| `sources` | `SqsNotLost`, `SqsEnds`, `AckedIsPublished`, `PubSubDelivers`, `WholeIsPublished`, `ReaderEnds`, `ReportedOnce`, `ChangesReported`, `AnsweredIsPublished`, `SendersEnd` | one source at a time; channel of 1; 2 SQS and 3 Pub/Sub messages, 2 lines, 3 versions and 2 relists or restarts, 3 requests |
| `destinations`, `alignment`, `retry`, `conflict`, `sequence`, `first_sight` | one documented statement each, violated | see below |

The bounds suffice for what the properties are about: a stale read, a conflict and
the re-creation of a name need two writers and three writes; two listeners are enough
to compete for a route or an address, and lists that share, replace and drop sources
are all there; two requests fill a channel of one and outlive a route that is
replaced; two events conflict over one object, and two lists of different kinds, next to
the empty one the process starts with, are enough for a torn read; two messages are enough for the poller to
wait for the worker, and three versions hide one from the selector or delete and create
the object again. Deadlock checking is off where the
system may stop: all requests answered, all events handled, all writes made.

*Fairness.* In Reconciler the informer delivers, the worker runs, and every queued name
is eventually taken (strong fairness: the queue serves names in turn and backs off
from failing ones); nobody else owes anything, not even the controller that holds a
Config. In ListenerManager only an Event Grid goroutine that Close came too late for is
fair: `net.Listen` and the refusal of `Serve` wait for nobody; edits, a running call and
servers that are still up owe nothing. In WebhookServer handlers, workers, the holder of the
lock and the consumer run (goroutine scheduling); clients, edits and shutdown are optional, and
a client owes neither a request nor the body of one it has begun. `HandlersReturn` is
therefore about handlers whose client has sent its body: a client that stalls keeps its
handler for ever. In EventHandler only
the goroutine of an event is fair; `WaitForFails` is the 10-minute timer, which is part
of that goroutine, and rollouts need never complete. In Sources the goroutines and the
consumer run, and a sender that finds room again and again gets its turn (a Go channel
serves waiting senders in order); clients, services, Stop and shutdown are optional.

What the sources run shows: while a listener runs, no source loses a notification that
it has taken, except a line that two Reads cut. SQS deletes first, so that Stop loses
what is between poller and worker; Pub/Sub never acks what it has not published, but an
unparsable message comes back for ever; a Kubernetes change is reported at most once and
the present one always, except the version that this process saw first, so that a creation,
or a change that a restart comes before, is not; an idle TCP
connection keeps its reader after Stop until the client closes it. Pub/Sub callbacks and
the map function of a watch send without looking at a context; as long as the process
lives they come to rest after Stop (`SendersEnd`). After shutdown they need not: the
consumer has returned, and the exit of the process ends them.

### Where code and documentation disagree

* `destinations`: all Configs share one list of destinations, overwritten by each
  reconcile (`internal/handler/processor.go:30`).
* `alignment`: an edited KubernetesSecret source stops its listener and cannot start the
  new one, whose controller name is taken for good (`kubernetes/listener.go:79`); the
  error is only logged, the reconcile succeeds and nothing tries again (`manager.go:138`).
  The instance has one Config, two versions of the source and no other fault.
* `retry`: a failed webhook publish is never retried, since it fails only when the
  route is cancelled, and then the worker gives up too (`webhook/route.go:195`).
* `conflict`: of two events for one object handled at once the second is lost to a
  write conflict (`processor.go:70`).
* `sequence`: a stale cache ends the rollout wait at once, and Deployments restart
  together (`deployment/handler.go:161`).
* `first_sight`: the comment at `kubernetes/listener.go:33` promises an event on create,
  update and delete; the map function only records what it sees for the first time (line 91),
  so that a creation, or a change that a restart comes before, is not reported.

Three more things that the models show have no run of their own. A webhook without suffix
beside another webhook is served at `<Config>/<hash>`, not at the URL of
`docs/sources/webhook.md`, and which of the two it is depends on the history of the Config
(`RouteShape`; `webhook/server.go:97`, `manager.go:110`). When a Config replaces an Event
Grid source by a socket source at the same address, the goroutine that `Close` does not wait
for (`eventgrid/listener.go:75`) may hold the address when the new listener starts; that
fails, is only logged, and the reconcile succeeds, as in `alignment`. And a reconcile that takes
the mutex after StopAll starts listeners that nobody stops before the process exits
(`reloader_controller.go:74`): `StopAllClears` is about those that were started before.

## Proofs

`ListenerManagerProofs` proves for every set of Configs, sources, suffixes and
addresses (under the named assumptions of ListenerManager): `TypeCorrect`,
`RoutesOwned`, `AddressesOwned`, `NoUnwantedListener`, `StopAllComplete`,
`KeptListenersUndisturbed` and `WebhookSourcesServed`.

`RouteOwned` is not inductive by itself. That `Register` never overwrites the route of
a live listener rests on three facts together: the list is valid, so the sources of one
Config differ in their suffix (`Validate`); every unwanted listener of the Config has
been stopped before the first is started (`CallState`); and the key of a route tells
the Config and the suffix of its listener (`RouteShape`). The history enters in the last
one: a suffixless listener has either of two keys, and only one suffixless source may
be in a list, so whichever it is nobody else has it. `IndInv` is the conjunction of the
properties with `RouteShape`, `AddressShape` and `CallState`; the lemma
`NewRouteIsFree` is the argument above, `StopPreserves`, `StartWebhookPreserves` and
`StartOtherPreserves` carry it through the loops, `NextPreserves` has a step per action.

`AddressesOwned` allows for the goroutines that `Close` does not reach: an address has one
holder, a recorded listener or a closed server on its way out, but not both, and no late
goroutine takes it from the listener that has it. `ServerPreserves`, `LatePreserves` and
`RefusalPreserves` carry this through the steps of the goroutines, `AddressShape` says that
only Event Grid listeners with an address have any. `StopAllComplete` accordingly says that
after the loop nothing serves or can come to serve, not that nothing binds: a late goroutine
may, until `Serve` turns it away. That it does so is `AddressGivenBack`.

`WebhookSourcesServed` (`WebhooksServed`) speaks of the time between calls; `ServedInv`
says what holds during one: of what is due for the Config at work everything is recorded
or still in `todo` of the second loop, and the other Configs have theirs. The loop passes
over a webhook source when the source it finds for the key is misplaced. `KeyNamesSource`
shows from `Validate` that no other source of the list has that key, so that nothing due
is passed over.

`ReconcilerProofs` proves for every set of Configs and specs and every bound:
`TypeCorrect`, `ListenersGuarded` (`GuardedByFinalizer`) and `EditsKept`
(`NoEditReverted`), from `Invariance` (`IndInv`). `GuardedByFinalizer` alone is not
inductive, since `ManageListeners` starts listeners from a copy that may be stale. The
argument is about what can still be read: `VersionOrder` and `ReadOrder` say that the
copy of the worker is not newer than the cache, the cache not newer than what is on its
way, and that a version names one state. An Update that the API server accepts is thus
based on the present object, and nothing older can be read any more (`CurrentIsRead`).
So when the finalizer is removed, no readable copy is one that listeners are started
for (`FinalizerKept`), not even after the name is used again, and `CallState` says that
the listeners were stopped before. `NoEditReverted` is `CurrentIsRead` again: what is
written back is what is there, but for the finalizer or the annotation.
`RemoveFinalizerPreserves` holds the core of the argument, `OthersPreserve` covers users.

`ServiceProofs` proves the refinement, `ServiceImplemented` (`Spec => ImplementsService`),
step by step: a write of users or of the worker is a `Write`, or a `Remove` when the
Config is then gone (`StoreRefines`); a delivery, a failed Update and a rejected list are a
`Read`; `Cleanup` is a `Quiet`, an accepted list a `Listen`; all else changes nothing of
the service. Two facts are needed besides `IndInv`. `UpToDate`: what the informer delivers
last is the present object; so whatever is forgotten, the newest state is not (`Forgets`),
and a crash leaves exactly that one (`RestartRefines`). `RemovalSeen`: in what the informer
delivers, nothing that listeners would be started for comes before a removal, and no
listener runs while a removal can be read; so the `Teardown` of a Config that is not found
never stops a listener, which the service would not allow. `Listen` and `Quiet` act upon the
oldest state known because the copy of the worker is older than the cache (`ReadOrder`).
`WritesReachInformer` states the two facts for every behaviour.

The same module proves `RestMeansDone` (`RestsWhenDone`), the half of `Converges` and
`DeletionCompletes` that is not liveness: a Config for which nothing is on its way, queued
or at work has its finalizer, annotation and listeners, or is gone and has none. A Config
whose list is rejected, or whose deletion somebody else holds up, never comes to rest.
`RestInv` adds what holds while the worker has the Config: as long as no delivery has queued
the name again, the copy of the worker is the present object (by `UpToDate` at `Get`), so that what
it does in the end is what the object asks for.

`WebhookServerProofs` proves `TypeCorrect`, `AnswersTrue` (`AnswerIsTrue`), `WorkersEnd`
(`NoWorkerLeft`) and `RetriesAreVain`. `AnswerIsTrue` says nothing of requests that are not
answered, so `PublishedByHandler` ties the number of published events to where the handler
is. That needs `NothingRetried`, as a retry would publish a second time, and this needs
`OfferedWhenDone`: a message is given to the worker only after the context of its route is
done. `RetriesAreVain` is thus the disagreement of the run `retry` for every instance: the
documented retries never happen.

`EventHandlerProofs` proves `TypeCorrect`, `RestartsOnlyReferenced` (`OnlyReferenced`),
`EveryObjectAttempted` (`AllAttempted`), `EditsSurvive` (`NoEditUndone`) and
`StopsUntilRolledOut` (`StopsAtUnfinishedRollout`). `Versions` says of every copy of an
object, in the cache or with a handler, that it is not newer than the
object and has the edits of others if the version is the same: a write that the API server
accepts is based on the present edits. `Visited` and `Selected` say of a handler at work
what it has behind it, destination by destination and object by object, and that all it has
touched belongs to one list of destinations, also when that list was read in parts. `Waits`
says where a handler can be while it waits for a rollout.

`SourcesProofs` proves `TypeCorrect` and the safety property of each source: `NoMessageLost`
(`SqsNotLost`), `AckAfterSend` (`AckedIsPublished`), `WholeLinePublished`
(`WholeIsPublished`), `VersionsReportedOnce` (`ReportedOnce`), `LastVersionReported`
(`ChangesReported`) and `BatchPublished` (`AnsweredIsPublished`), for any set of sources
that are active together and any numbers of messages, versions and requests. Each source
has an invariant of its own over its variables, and they share only the channel. The long
one is `WatchInv`: `VersionMap` compares versions, so that a version is reported once
because the notifications that wait, the object the informer has and what it has yet to
deliver are in the order of versions (`Upcoming`, `InOrder`, `Mapped`), and the last one is
reported because until it is, it is among the notifications that wait (`Pending`). A restart
forgets the map; what is reported stays in order because the new process begins with the
present object, which is not older than anything reported (`Stored`). In
`TcpInv` the pieces of a line that a Read returned whole lie side by side (`Paired`), so
that the reader cannot come to one without the other.

With this every invariant and every action property of the runs, and the refinement, is
proved. The constants are bound by the named assumptions of the modules only: the
bounds of the runs are any natural numbers in the proofs. Only model-checked: the liveness
properties (`Converges`, `DeletionCompletes`, `AddressGivenBack`, `HandlersReturn`,
`LockReleased`, `AcknowledgedTaken`, `HandlersEnd`, `SqsEnds`, `PubSubDelivers`, `ReaderEnds`,
`SendersEnd`), which rest on fairness and `ENABLED` and are out of the prover's reach.

## Not modelled

API types and generated deep copies (declarations without behaviour); flags and wiring in
`cmd/main.go`, whose only state is the start and stop order that the shutdown runnable in
ListenerManager has; the start and graceful close of the HTTP server; metrics, logging and
charts. Of cloud authentication, the requests to AWS, Google and the token API are
external: they succeed or fail. Panics of message handlers on fields of unexpected form (a
Pub/Sub resource name, a Vault path without its mount point). Timestamps have a resolution
of a second, so that two events may carry the same annotations; `Stamp` gives every event
its own in the instances, though `Annotated` has the case.

## Plan

1. *Proofs*: what the liveness properties rest on that is not liveness: while the lock of
   the webhook server is held its holder or the worker it waits for can move; what a source
   that has come to rest has left behind.
2. *Composition*: Reconciler driving ListenerManager with its inner steps; an abstract
   event service (published at most once, or at least once) that the sources and
   WebhookServer implement.
