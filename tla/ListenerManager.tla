---------------------------- MODULE ListenerManager ----------------------------
(***************************************************************************)
(* The listener manager (internal/listener/manager.go) together with the   *)
(* resources its listeners take: routes of the shared webhook server       *)
(* (internal/listener/webhook/server.go) and local TCP addresses.          *)
(*                                                                         *)
(* ManageListeners and StopAll run under one mutex, but each Start and Stop*)
(* they call is visible to HTTP requests at once, so every iteration of    *)
(* their loops is an action of its own.  phase, target, sources and todo   *)
(* are the local variables of the call that holds the mutex.               *)
(***************************************************************************)
EXTENDS Credentials, Sequences, FiniteSets

CONSTANTS
    Configs,      \* names of Config resources (cluster scoped)
    Sources,      \* notification sources: records [type, block, stray]
    SourceLists,  \* the lists of sources a Config can carry
    Suffixes,     \* values of webhook.pathSuffix
    Addrs,        \* local host:port addresses
    NoSuffix,     \* the empty pathSuffix
    Faults,       \* whether a source may fail to start for other reasons than the model's
    MaxLate       \* bound on the closed servers of one listener that have yet to listen

VARIABLES
    listeners,    \* recorded listeners, pairs <<config, listener key>>
    manifests,    \* domain of the outer map of Manager.listeners
    routeOf,      \* routeKey field of each WebhookListener
    routes,       \* WebhookServer.routes: the listener a route key serves
    bound,        \* the listener that holds a TCP address
    server,       \* where the goroutine of a recorded Event Grid listener is
    late,         \* goroutines of closed servers that did not see the Close in time
    leaving,      \* addresses bound by closed servers, which Serve will turn away
    names,        \* controller names that were taken in this process
    phase,        \* "idle" when the mutex is free
    target,       \* Config of the running ManageListeners call
    sources,      \* its list of sources
    todo,         \* what its loop, or the loop of StopAll, has still to visit
    result,       \* what the last ManageListeners call returned, per Config
    accepted,     \* the last list that passed validation, per Config
    shutdown      \* progress of the graceful shutdown

servers == <<server, late, leaving>>

vars == <<listeners, manifests, routeOf, routes, bound, servers, names, phase,
          target, sources, todo, result, accepted, shutdown>>

--------------------------------------------------------------------------------
(* Sources, listener keys and route keys.                                  *)

SocketTypes == {"TCPSocket", "HashicorpVault"}   \* Start binds an address
ServerTypes == {"AzureEventGrid"}                \* a goroutine binds it later
PollTypes   == {"AwsSqs", "GooglePubSub", "Mock"}
WatchTypes  == {"KubernetesSecret", "KubernetesConfigMap"}
Types       == SocketTypes \cup ServerTypes \cup PollTypes \cup WatchTypes \cup {"Webhook"}

\* The key hashes the type and the block that belongs to the type, and
\* nothing else of the source: stray blocks do not count.
generateListenerKey(s) == [type |-> s.type, block |-> s.block]

Keys  == {generateListenerKey(s) : s \in Sources}
Owner == Configs \X Keys

PathSuffix(k) == IF k.block = None THEN NoSuffix ELSE k.block.suffix
Addr(k)       == IF k.block = None THEN None ELSE k.block.addr

\* What CreateListener and Start get for the auth block of a source.
Credential(k) ==
    CASE k.type \notin PollTypes \cup WatchTypes -> "renewed"
      [] k.block = None            -> "error"
      [] k.type = "Mock"           -> "renewed"
      [] k.type = "AwsSqs"         -> CreateAWSSDKConfig(k.block.auth)
      [] k.type = "GooglePubSub"   -> NewTokenSource(k.block.auth)
      [] k.type \in WatchTypes     -> getKubeConfig(k.block.auth)

\* A segment after the Config name is a suffix or the hash of a listener key,
\* for which the key itself stands.
RouteKeys == Configs \X (Suffixes \cup {NoSuffix} \cup Keys)

RouteKey(c, suffix, key, webhookSourceCount) ==
    IF suffix # NoSuffix THEN <<c, suffix>>
    ELSE IF webhookSourceCount <= 1 THEN <<c, NoSuffix>>
    ELSE <<c, key>>

\* Fault: only sources that omit the suffix are compared.
ValidateOmittedOnly(list) ==
    \A i, j \in DOMAIN list :
        i # j /\ list[i].type = "Webhook" /\ list[j].type = "Webhook" =>
            ~(PathSuffix(list[i]) = NoSuffix /\ PathSuffix(list[j]) = NoSuffix)

Validate(list) ==
    \A i, j \in DOMAIN list :
        i # j /\ list[i].type = "Webhook" /\ list[j].type = "Webhook" =>
            PathSuffix(list[i]) # PathSuffix(list[j])

desiredListeners(list) == {generateListenerKey(list[i]) : i \in DOMAIN list}

\* desiredListeners[key]: the last source of the list with that key.
desiredSource(list, key) ==
    list[CHOOSE i \in DOMAIN list :
            /\ generateListenerKey(list[i]) = key
            /\ \A j \in DOMAIN list :
                  generateListenerKey(list[j]) = key => j <= i]

webhookSourceCount(list) ==
    Cardinality({k \in desiredListeners(list) : k.type = "Webhook"})

\* A Webhook source without webhook block but with a block of another type is
\* logged and skipped.
Misplaced(s) == s.block = None /\ s.stray

--------------------------------------------------------------------------------
ASSUME SourcesAssumption ==
    /\ IsFiniteSet(Sources)
    /\ \A s \in Sources :
          /\ s.type \in Types
          /\ s.stray \in BOOLEAN
          /\ PathSuffix(s) \in Suffixes \cup {NoSuffix}
          /\ s.type \in SocketTypes \cup ServerTypes => Addr(s) \in Addrs \cup {None}
          /\ Credential(s) \in Outcomes
    /\ SourceLists \subseteq Seq(Sources)
    /\ <<>> \in SourceLists

\* No pathSuffix spells the hash of a listener key.
ASSUME HashAssumption == /\ (Suffixes \cup {NoSuffix}) \cap Keys = {}
                         /\ NoSuffix \notin Suffixes

ASSUME NoneAssumption == /\ None \notin Owner
                         /\ None \notin RouteKeys
                         /\ None \notin Addrs
                         /\ None \notin Configs

ASSUME LateAssumption == MaxLate \in Nat

--------------------------------------------------------------------------------
Init ==
    /\ listeners = {}
    /\ manifests = {}
    /\ routeOf = [o \in Owner |-> None]
    /\ routes = [r \in RouteKeys |-> None]
    /\ bound = [a \in Addrs |-> None]
    /\ server = [o \in Owner |-> "none"]
    /\ late = [o \in Owner |-> 0]
    /\ leaving = {}
    /\ names = {}
    /\ phase = "idle"
    /\ target = None
    /\ sources = <<>>
    /\ todo = {}
    /\ result = [c \in Configs |-> "none"]
    /\ accepted = [c \in Configs |-> <<>>]
    /\ shutdown = "running"

\* WebhookServer.Register: a route already there is shut down and replaced.
Register(r, o) == routes' = [routes EXCEPT ![r] = o]

\* WebhookServer.Unregister removes whatever route has that key.
Unregister(r) == routes' = [routes EXCEPT ![r] = None]

\* Fault: Stop cancels the context but does not close the socket.
ReleaseNothing(o) == bound' = bound

\* Closing a socket or a server frees the address it holds, if any.
Release(o) == bound' = [a \in Addrs |-> IF bound[a] = o THEN None ELSE bound[a]]

\* Fault: Stop does not close a server that has not begun to serve.
CloseServerNever(o) == UNCHANGED servers

\* Close reaches the goroutine only before its check for a shutdown and once Serve
\* has the socket.  In between the goroutine goes on: past the check it will still
\* listen, and past net.Listen it holds the address until Serve looks.
CloseServer(o) ==
    /\ server' = [server EXCEPT ![o] = "none"]
    /\ late' = IF server[o] = "checked" THEN [late EXCEPT ![o] = @ + 1] ELSE late
    /\ leaving' = IF server[o] = "listening" THEN leaving \cup {Addr(o[2])} ELSE leaving

\* Listener.Stop followed by the delete of the map entry.
StopListener(o) ==
    /\ listeners' = listeners \ {o}
    /\ CloseServer(o)
    /\ Release(o)
    /\ IF o[2].type = "Webhook"
       THEN /\ Unregister(routeOf[o])
            /\ routeOf' = [routeOf EXCEPT ![o] = None]
       ELSE UNCHANGED <<routes, routeOf>>

--------------------------------------------------------------------------------
(* ManageListeners                                                         *)

\* Validation fails before the mutex is taken: the listeners stay as they are.
RejectSources(c, list) ==
    /\ phase \in {"idle", "stopall"}
    /\ ~Validate(list)
    /\ result' = [result EXCEPT ![c] = "invalid"]
    /\ UNCHANGED <<listeners, manifests, routeOf, routes, bound, servers, names, phase,
                   target, sources, todo, accepted, shutdown>>

\* Fault: an empty list of sources skips the removal loop.
UnwantedUnlessEmpty(c, list) ==
    {o \in listeners : list # <<>> /\ o[1] = c /\ o[2] \notin desiredListeners(list)}

\* Fault: the removal loop runs over the listeners of all Configs.
UnwantedOfAll(c, list) == {o \in listeners : o[2] \notin desiredListeners(list)}

Unwanted(c, list) ==
    {o \in listeners : o[1] = c /\ o[2] \notin desiredListeners(list)}

\* Fault: a Config that still has a listener gets no other.
MissingOnce(c, list) ==
    IF \E o \in listeners : o[1] = c THEN {} ELSE {c} \X desiredListeners(list)

\* The second loop passes over the keys that already have a listener.
Missing(c, list) == ({c} \X desiredListeners(list)) \ listeners

\* Fault: the map of the Config is deleted though it has listeners.
CleanupAlways(c) == manifests' = manifests \ {c}

CleanupIfEmpty(c) ==
    manifests' = IF \E o \in listeners : o[1] = c THEN manifests ELSE manifests \ {c}

ManageListeners(c, list) ==
    /\ phase = "idle"
    /\ Validate(list)
    /\ phase' = "remove"
    /\ target' = c
    /\ sources' = list
    /\ todo' = Unwanted(c, list)
    /\ manifests' = manifests \cup {c}
    /\ accepted' = [accepted EXCEPT ![c] = list]
    /\ UNCHANGED <<listeners, routeOf, routes, bound, servers, names, result, shutdown>>

RemoveUnwanted(o) ==
    /\ phase = "remove"
    /\ o \in todo
    /\ StopListener(o)
    /\ todo' = todo \ {o}
    /\ UNCHANGED <<manifests, names, phase, target, sources, result, accepted, shutdown>>

BeginAdding ==
    /\ phase = "remove"
    /\ todo = {}
    /\ phase' = "add"
    /\ todo' = Missing(target, sources)
    /\ UNCHANGED <<listeners, manifests, routeOf, routes, bound, servers, names,
                   target, sources, result, accepted, shutdown>>

Adding(o) == /\ phase = "add"
             /\ o \in todo
             /\ todo' = todo \ {o}
             /\ UNCHANGED <<manifests, phase, target, sources, result, accepted, shutdown>>

StartWebhook(o) ==
    LET r == RouteKey(target, PathSuffix(o[2]), o[2], webhookSourceCount(sources)) IN
    /\ Adding(o)
    /\ o[2].type = "Webhook"
    /\ ~Misplaced(desiredSource(sources, o[2]))
    /\ Register(r, o)
    /\ routeOf' = [routeOf EXCEPT ![o] = r]
    /\ listeners' = listeners \cup {o}
    /\ UNCHANGED <<bound, servers, names>>

\* Fault: an address in use is taken over.
AddressFreeAlways(a) == TRUE

\* net.Listen fails on an address in use.
AddressFree(a) == bound[a] = None /\ a \notin leaving

StartSocket(o) ==
    /\ Adding(o)
    /\ o[2].type \in SocketTypes
    /\ Addr(o[2]) # None
    /\ AddressFree(Addr(o[2]))
    /\ bound' = [bound EXCEPT ![Addr(o[2])] = o]
    /\ listeners' = listeners \cup {o}
    /\ UNCHANGED <<routeOf, routes, servers, names>>

\* Start of Event Grid returns before the address is bound.
StartServer(o) ==
    /\ Adding(o)
    /\ o[2].type \in ServerTypes
    /\ Addr(o[2]) # None
    /\ server' = [server EXCEPT ![o] = "starting"]
    /\ listeners' = listeners \cup {o}
    /\ UNCHANGED <<routeOf, routes, bound, late, leaving, names>>

StartPoller(o) ==
    /\ Adding(o)
    /\ o[2].type \in PollTypes
    /\ Credential(o[2]) \in {"renewed", "fixed"}
    /\ listeners' = listeners \cup {o}
    /\ UNCHANGED <<routeOf, routes, bound, servers, names>>

\* A controller of its own is built for the watch, named after the type of the source.
\* A name is taken for as long as the process lives.
StartWatch(o) ==
    /\ Adding(o)
    /\ o[2].type \in WatchTypes
    /\ Credential(o[2]) \in {"renewed", "fixed"}
    /\ o[2].type \notin names
    /\ names' = names \cup {o[2].type}
    /\ listeners' = listeners \cup {o}
    /\ UNCHANGED <<routeOf, routes, bound, servers>>

\* Why CreateListener or Start returns an error, apart from Faults.
Refused(k) ==
    \/ k.block = None
    \/ Credential(k) = "error"
    \/ k.type \in SocketTypes /\ \A a \in Addrs : Addr(k) = a => ~AddressFree(a)
    \/ k.type \in WatchTypes /\ Credential(k) # "panic" /\ k.type \in names

\* A misplaced webhook block, or CreateListener or Start returning an error:
\* logged, and the loop continues.
SkipSource(o) ==
    /\ Adding(o)
    /\ IF o[2].type = "Webhook" THEN Misplaced(desiredSource(sources, o[2]))
       ELSE Refused(o[2]) \/ (Faults /\ Credential(o[2]) # "panic")
    /\ UNCHANGED <<listeners, routeOf, routes, bound, servers, names>>

\* The panic is recovered above Reconcile and becomes an error; on the way the deferred
\* Unlock runs, and nothing else of the call.
StartPanics(o) ==
    /\ phase = "add"
    /\ o \in todo
    /\ Credential(o[2]) = "panic"
    /\ phase' = "idle"
    /\ target' = None
    /\ sources' = <<>>
    /\ todo' = {}
    /\ result' = [result EXCEPT ![target] = "failed"]
    /\ UNCHANGED <<listeners, manifests, routeOf, routes, bound, servers, names,
                   accepted, shutdown>>

FinishManage ==
    /\ phase = "add"
    /\ todo = {}
    /\ phase' = "idle"
    /\ target' = None
    /\ sources' = <<>>
    /\ CleanupIfEmpty(target)
    /\ result' = [result EXCEPT ![target] = "ok"]
    /\ UNCHANGED <<listeners, routeOf, routes, bound, servers, names, todo,
                   accepted, shutdown>>

--------------------------------------------------------------------------------
(* The goroutine of an Event Grid server: ListenAndServe looks for a       *)
(* shutdown, listens, and Serve takes the socket unless the server was      *)
(* closed meanwhile.                                                       *)

restOfServer == <<listeners, manifests, routeOf, routes, names, phase, target,
                  sources, todo, result, accepted, shutdown>>

ServerMoves(o, from, to) == server[o] = from /\ server' = [server EXCEPT ![o] = to]

\* The guard on late is the bound MaxLate and nothing of the code.
ServerChecks(o) ==
    /\ ServerMoves(o, "starting", "checked")
    /\ late[o] < MaxLate
    /\ UNCHANGED <<bound, late, leaving, restOfServer>>

ServerListens(o) ==
    /\ ServerMoves(o, "checked", "listening")
    /\ AddressFree(Addr(o[2]))
    /\ bound' = [bound EXCEPT ![Addr(o[2])] = o]
    /\ UNCHANGED <<late, leaving, restOfServer>>

ListenFails(o) == Faults \/ ~AddressFree(Addr(o[2]))

\* The error is logged; the listener stays recorded.
ServerFails(o) ==
    /\ ServerMoves(o, "checked", "none")
    /\ ListenFails(o)
    /\ UNCHANGED <<bound, late, leaving, restOfServer>>

ServerServes(o) ==
    /\ ServerMoves(o, "listening", "serving")
    /\ UNCHANGED <<bound, late, leaving, restOfServer>>

\* The same goroutine after its server was closed.
LateListens(o) ==
    /\ late[o] > 0
    /\ late' = [late EXCEPT ![o] = @ - 1]
    /\ AddressFree(Addr(o[2]))
    /\ leaving' = leaving \cup {Addr(o[2])}
    /\ UNCHANGED <<bound, server, restOfServer>>

LateFails(o) ==
    /\ late[o] > 0
    /\ late' = [late EXCEPT ![o] = @ - 1]
    /\ ListenFails(o)
    /\ UNCHANGED <<bound, server, leaving, restOfServer>>

\* Serve finds the server closed and closes the socket.
ServeRefuses(a) ==
    /\ a \in leaving
    /\ leaving' = leaving \ {a}
    /\ UNCHANGED <<bound, server, late, restOfServer>>

--------------------------------------------------------------------------------
(* Shutdown: the runnable of SetupWithManager cancels the context of the   *)
(* listeners and calls StopAll.  A Reconcile still in flight may take the  *)
(* mutex after it.                                                         *)

CancelContext ==
    /\ shutdown = "running"
    /\ shutdown' = "cancelled"
    /\ UNCHANGED <<listeners, manifests, routeOf, routes, bound, servers, names, phase,
                   target, sources, todo, result, accepted>>

StopAll ==
    /\ phase = "idle"
    /\ shutdown = "cancelled"
    /\ phase' = "stopall"
    /\ todo' = listeners
    /\ UNCHANGED <<listeners, manifests, routeOf, routes, bound, servers, names,
                   target, sources, result, accepted, shutdown>>

StopNext(o) ==
    /\ phase = "stopall"
    /\ o \in todo
    /\ StopListener(o)
    /\ todo' = todo \ {o}
    /\ UNCHANGED <<manifests, names, phase, target, sources, result, accepted, shutdown>>

FinishStopAll ==
    /\ phase = "stopall"
    /\ todo = {}
    /\ phase' = "idle"
    /\ shutdown' = "stopped"
    /\ UNCHANGED <<listeners, manifests, routeOf, routes, bound, servers, names,
                   target, sources, todo, result, accepted>>

\* The process ends, or crashes, and starts again with empty memory.
Restart ==
    /\ listeners' = {}
    /\ manifests' = {}
    /\ routeOf' = [o \in Owner |-> None]
    /\ routes' = [r \in RouteKeys |-> None]
    /\ bound' = [a \in Addrs |-> None]
    /\ server' = [o \in Owner |-> "none"]
    /\ late' = [o \in Owner |-> 0]
    /\ leaving' = {}
    /\ names' = {}
    /\ phase' = "idle"
    /\ target' = None
    /\ sources' = <<>>
    /\ todo' = {}
    /\ result' = [c \in Configs |-> "none"]
    /\ accepted' = [c \in Configs |-> <<>>]
    /\ shutdown' = "running"

Next ==
    \/ \E c \in Configs, list \in SourceLists :
          RejectSources(c, list) \/ ManageListeners(c, list)
    \/ \E o \in Owner :
          \/ RemoveUnwanted(o)
          \/ StartWebhook(o) \/ StartSocket(o) \/ StartServer(o) \/ StartPoller(o)
          \/ StartWatch(o) \/ SkipSource(o) \/ StartPanics(o)
          \/ ServerChecks(o) \/ ServerListens(o) \/ ServerFails(o) \/ ServerServes(o)
          \/ LateListens(o) \/ LateFails(o)
          \/ StopNext(o)
    \/ \E a \in Addrs : ServeRefuses(a)
    \/ BeginAdding \/ FinishManage
    \/ CancelContext \/ StopAll \/ FinishStopAll \/ Restart

\* A goroutine that is past its check runs on; calls, servers and shutdown owe nothing.
Fairness == /\ \A o \in Owner : WF_vars(LateListens(o) \/ LateFails(o))
            /\ \A a \in Addrs : WF_vars(ServeRefuses(a))

Spec == Init /\ [][Next]_vars /\ Fairness

--------------------------------------------------------------------------------
(* Properties                                                              *)

IsWebhook(o) == o[2].type = "Webhook"

\* Types of the variables.  The nested map Manager.listeners has no entry for a
\* listener without one for its Config (manager.go:52-54, 145-148).
TypeOK ==
    /\ listeners \subseteq Owner
    /\ manifests \subseteq Configs
    /\ routeOf \in [Owner -> RouteKeys \cup {None}]
    /\ routes \in [RouteKeys -> Owner \cup {None}]
    /\ bound \in [Addrs -> Owner \cup {None}]
    /\ server \in [Owner -> {"none", "starting", "checked", "listening", "serving"}]
    /\ late \in [Owner -> 0..MaxLate]
    /\ leaving \subseteq Addrs
    /\ names \subseteq WatchTypes
    /\ phase \in {"idle", "remove", "add", "stopall"}
    /\ target \in Configs \cup {None}
    /\ sources \in SourceLists
    /\ todo \subseteq Owner
    /\ result \in [Configs -> {"none", "ok", "invalid", "failed"}]
    /\ accepted \in [Configs -> SourceLists]
    /\ shutdown \in {"running", "cancelled", "stopped"}
    /\ \A o \in listeners : o[1] \in manifests

\* Every webhook listener is the one its route serves, and every route of the
\* shared server serves a recorded listener: Register never overwrites the route
\* of a live listener and no route outlives its listener, whatever the order in
\* which sources are changed (server.go:161-185, manager.go:68-142).
RouteOwned ==
    /\ \A o \in listeners :
          IsWebhook(o) => routeOf[o] # None /\ routes[routeOf[o]] = o
    /\ \A r \in RouteKeys :
          routes[r] # None => routes[r] \in listeners /\ routeOf[routes[r]] = r

\* A recorded socket listener holds its address.  Whatever else holds one is a
\* recorded Event Grid listener with a server that is up, or a closed server on its
\* way out, never both: no address stays bound by a listener that Close has found
\* serving, none is taken from its holder by a goroutine that comes late
\* (tcp/listener.go:36-50, 141-144; eventgrid/listener.go:51-76).
AddressOwned ==
    /\ \A o \in listeners : o[2].type \in SocketTypes => bound[Addr(o[2])] = o
    /\ \A a \in Addrs : bound[a] # None =>
          /\ bound[a] \in listeners
          /\ Addr(bound[a][2]) = a
          /\ bound[a][2].type \in ServerTypes => server[bound[a]] \in {"listening", "serving"}
    /\ \A o \in Owner : server[o] # "none" => o \in listeners
    /\ \A o \in Owner : server[o] \in {"listening", "serving"} => bound[Addr(o[2])] = o
    /\ \A a \in leaving : bound[a] = None

\* Between calls a Config has no listener that its last valid list of sources
\* does not name; a rejected list changes nothing (manager.go:44-48, 67-77).
OnlyAccepted ==
    phase = "idle" => \A o \in listeners : o[2] \in desiredListeners(accepted[o[1]])

\* Between calls every well-placed webhook source of the last valid list is served,
\* also after edits that leave some sources alone and replace others; only a source
\* whose Start panics can come in the way (manager.go:87-125).
WebhooksServed ==
    phase = "idle" /\ shutdown # "stopped" =>
        \A c \in Configs : \A i \in DOMAIN accepted[c] :
            LET s == accepted[c][i] IN
            s.type = "Webhook" /\ ~Misplaced(s) =>
                \/ <<c, generateListenerKey(s)>> \in listeners
                \/ \E k \in desiredListeners(accepted[c]) : Credential(k) = "panic"

\* The listener ends in this step only because a call removes it.
MayStop(o) == \/ phase = "stopall"
              \/ /\ phase = "remove"
                 /\ o[1] = target
                 /\ o[2] \notin desiredListeners(sources)

KeepsListeners ==
    Restart \/ \A o \in listeners : ~MayStop(o) =>
        /\ o \in listeners'
        /\ IsWebhook(o) => routes'[routeOf[o]] = o
        /\ \A a \in Addrs : bound[a] = o => bound'[a] = o

\* A reconcile never interrupts a listener it has to keep, nor one of another
\* Config: route and address stay with it through every intermediate state, so
\* no request to a kept route is answered 404
\* (reloader_controller.go:115, manager.go:68-77, 87-91).
KeptUndisturbed == [][KeepsListeners]_vars

\* When the loop of StopAll ends no listener is recorded, no route is served, and no
\* server serves, holds an address or can come to serve: what remains of an Event Grid
\* server is a goroutine that Serve will turn away.  It holds for what was started before:
\* a reconcile that takes the mutex afterwards may start listeners again
\* (manager.go:153-172, eventgrid/listener.go:64-76).
StopAllClears ==
    phase = "stopall" /\ todo = {} =>
        /\ listeners = {}
        /\ \A r \in RouteKeys : routes[r] = None
        /\ \A a \in Addrs : bound[a] = None
        /\ \A o \in Owner : server[o] = "none"

AddressInUse(a) == \/ ~AddressFree(a)
                   \/ \E o \in Owner : Addr(o[2]) = a /\ late[o] > 0

\* An address that no recorded listener has any more is given back for good, though a
\* goroutine of Event Grid may bind it once more after Stop
\* (manager.go:71-77, eventgrid/listener.go:64-76, tcp/listener.go:141-144).
AddressGivenBack ==
    \A a \in Addrs :
        <>[](\A o \in listeners : Addr(o[2]) # a) => <>[]~AddressInUse(a)

\* reloader_controller.go:105-107: reconciling aligns the internal state with the
\* desired state and returns an error on failure.
SuccessMeansListening ==
    \A c \in Configs :
        phase = "idle" /\ shutdown = "running" /\ result[c] = "ok" =>
            {c} \X desiredListeners(accepted[c]) \subseteq listeners
--------------------------------------------------------------------------------
(* The strengthening under which the safety properties are inductive.       *)

\* The key of a route names the Config and, of the listener, the suffix; without
\* a suffix it depends on the history which of two keys it is.
RouteShape ==
    /\ \A o \in listeners : IsWebhook(o) =>
          /\ routeOf[o] \in RouteKeys
          /\ routeOf[o][1] = o[1]
          /\ IF PathSuffix(o[2]) # NoSuffix THEN routeOf[o][2] = PathSuffix(o[2])
             ELSE routeOf[o][2] \in {NoSuffix, o[2]}
    /\ \A r \in RouteKeys : routes[r] # None => IsWebhook(routes[r])

\* Only listeners with an address bind one.
AddressShape ==
    /\ \A o \in listeners : o[2].type \in SocketTypes => Addr(o[2]) \in Addrs
    /\ \A o \in Owner : server[o] # "none" \/ late[o] > 0 =>
          o[2].type \in ServerTypes /\ Addr(o[2]) \in Addrs
    /\ \A o \in Owner : server[o] = "checked" => late[o] < MaxLate

\* What the running call knows: the list is valid, the loops have visited what
\* is no longer in todo, and before the second loop all unwanted are gone.
CallState ==
    /\ phase \in {"remove", "add"} =>
          target \in manifests /\ Validate(sources) /\ accepted[target] = sources
    /\ phase \in {"idle", "stopall"} => target = None
    /\ phase = "remove" =>
          todo = Unwanted(target, sources)
    /\ phase = "add" =>
          /\ todo \subseteq {target} \X desiredListeners(sources)
          /\ todo \cap listeners = {}
          /\ \A o \in listeners : o[1] = target => o[2] \in desiredListeners(sources)
    /\ phase = "stopall" => todo = listeners
    /\ \A o \in listeners : o[1] # target => o[2] \in desiredListeners(accepted[o[1]])

IndInv == TypeOK /\ RouteOwned /\ AddressOwned /\ RouteShape /\ AddressShape /\ CallState
================================================================================
