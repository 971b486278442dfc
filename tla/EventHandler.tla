------------------------------ MODULE EventHandler ------------------------------
(***************************************************************************)
(* What becomes of an event after processEvents has received it: one       *)
(* goroutine per event runs HandleEvent (internal/handler/processor.go)    *)
(* over the destinations, updates the objects that refer to the secret and *)
(* waits for each Deployment to roll out (internal/handler/deployment).    *)
(*                                                                         *)
(* Objects live in the API server, which refuses an Update whose resource  *)
(* version is not the current one.  The client of the controller manager   *)
(* reads from an informer cache that lags behind.                          *)
(***************************************************************************)
EXTENDS Matching, FiniteSets

CONSTANTS
    Events,            \* received events
    Identifier,        \* by event: the name it is about
    Namespace,         \* by event: its namespace, or None
    Stamp,             \* by event: its last-reloaded and trigger-source annotations
    NoStamp,           \* no annotation
    DestinationLists,  \* destinationsToWatch of the Configs: lists of [type] with a
                       \* block of criteria, or None, for each type
    MaxUpdates,        \* bound: calls of UpdateDestinationsToWatch
    Edited,            \* bound: the objects that others write to
    MaxEdits,          \* bound: such writes
    Faults             \* whether calls to the API server may fail by themselves

Types == {"Deployment", "ExternalSecret", "PushSecret", "WorkflowRunTemplate"}

ASSUME DestinationsAssumption ==
    /\ None \notin DestinationLists
    /\ \A l \in DestinationLists : l \in Seq({d \in {l[i] : i \in DOMAIN l} : d.type \in Types})

ASSUME EventsAssumption ==
    /\ DOMAIN Stamp = Events
    /\ MaxUpdates \in Nat /\ MaxEdits \in Nat
    /\ Faults \in BOOLEAN
    /\ \A e \in Events : Stamp[e] # NoStamp

VARIABLES
    api,       \* objects in the API server
    view,      \* objects in the informer cache
    edits,     \* number of writes by others so far
    cache,     \* EventHandler.cache: the destinations to watch
    incoming,  \* the list that Reconcile is storing there, or None
    updates,   \* number of lists stored so far
    pc,        \* where HandleEvent is, per event
    list,      \* the destinations it goes through
    dest,      \* index of the destination it is at
    listed,    \* objects it has yet to visit there
    copy,      \* the objects as listed
    waiting,   \* the Deployment it waits for
    made,      \* generation that its Update gave an object, 0 if none
    lost       \* objects whose check or Update failed

clusterVars == <<api, view, edits>>
cacheVars   == <<cache, incoming, updates>>
handlerVars == <<pc, list, dest, listed, copy, waiting, made, lost>>

vars == <<clusterVars, cacheVars, handlerVars>>

\* version is metadata.resourceVersion, edit the part of the spec that others own,
\* rolled the last generation whose rollout completed.
Object == [version : Nat, edit : Nat, stamp : {NoStamp} \cup {Stamp[e] : e \in Events},
           generation : Nat, observed : Nat, rolled : Nat]

NewObject == [version |-> 1, edit |-> 0, stamp |-> NoStamp,
              generation |-> 1, observed |-> 1, rolled |-> 1]

\* The loop variables go out of scope with the loop.
Unread == [o \in Objects |-> NewObject]

Init ==
    /\ api = [o \in Objects |-> NewObject]
    /\ view = api
    /\ edits = 0
    /\ cache = <<>> /\ incoming = None /\ updates = 0
    /\ pc = [e \in Events |-> "received"]
    /\ list = [e \in Events |-> <<>>]
    /\ dest = [e \in Events |-> 1]
    /\ listed = [e \in Events |-> {}]
    /\ copy = [e \in Events |-> Unread]
    /\ waiting = [e \in Events |-> None]
    /\ made = [e \in Events |-> [o \in Objects |-> 0]]
    /\ lost = [e \in Events |-> {}]

--------------------------------------------------------------------------------
(* The destinations to watch                                               *)

\* Reconcile stores the list of a Config without a lock: a slice is three words, and
\* the store of them is not one step for those who read meanwhile.
UpdateDestinationsToWatch(l) ==
    /\ incoming = None /\ updates < MaxUpdates
    /\ incoming' = l
    /\ updates' = updates + 1
    /\ UNCHANGED <<cache, clusterVars, handlerVars>>

DestinationsStored ==
    /\ incoming # None
    /\ cache' = incoming /\ incoming' = None
    /\ UNCHANGED <<updates, clusterVars, handlerVars>>

\* What lies behind the end of an array is no destination.
Garbage == [type |-> "unknown"]

Slice(array, n) == [i \in 1..n |-> IF i <= Len(array) THEN array[i] ELSE Garbage]

\* The array of one list may be read with the length of the other.
Readable ==
    IF incoming = None THEN {cache}
    ELSE {Slice(l, Len(k)) : l \in {cache, incoming}, k \in {cache, incoming}}

--------------------------------------------------------------------------------
(* HandleEvent                                                             *)

destination(e) == list[e][dest[e]]

\* The criteria of a destination, None if it lacks the block of its type.
Criteria(d) == d[d.type]

\* range copies the slice: the handler goes through the list it has read here.
Dispatch(e, l) ==
    /\ pc[e] = "received"
    /\ list' = [list EXCEPT ![e] = l]
    /\ pc' = [pc EXCEPT ![e] = IF l = <<>> THEN "done" ELSE "filter"]
    /\ UNCHANGED <<clusterVars, cacheVars, dest, listed, copy, waiting, made, lost>>

\* Fault: off by one at the last destination.
NextDestinationTooFar(e) ==
    /\ dest' = [dest EXCEPT ![e] = @ + 1]
    /\ pc' = [pc EXCEPT ![e] = IF dest[e] > Len(list[e]) THEN "done" ELSE "filter"]

NextDestination(e) ==
    /\ dest' = [dest EXCEPT ![e] = @ + 1]
    /\ pc' = [pc EXCEPT ![e] = IF dest[e] = Len(list[e]) THEN "done" ELSE "filter"]

\* GetProvider knows the four types only.
SkipUnknown(e) ==
    /\ pc[e] = "filter"
    /\ destination(e).type \notin Types
    /\ NextDestination(e)
    /\ UNCHANGED <<clusterVars, cacheVars, list, listed, copy, waiting, made, lost>>

\* Objects whose namespace has to be read, which may fail.
NamespaceNeeded(d, objs) == IF Criteria(d).namespaceSelectors = {} THEN {} ELSE objs

\* List from the informer cache, reduced to the watched objects.  An object that cannot
\* be checked is logged and left out.
Filter(e, skipped) ==
    LET d    == destination(e)
        objs == Filtered(d, Namespace[e])
    IN  /\ pc[e] = "filter"
        /\ d.type \in Types /\ Criteria(d) # None
        /\ skipped \subseteq NamespaceNeeded(d, objs)
        /\ skipped # {} => Faults
        /\ pc' = [pc EXCEPT ![e] = "apply"]
        /\ listed' = [listed EXCEPT ![e] = objs \ skipped]
        /\ lost' = [lost EXCEPT ![e] = @ \cup skipped]
        /\ copy' = [copy EXCEPT ![e] = [o \in Objects |-> IF o \in objs THEN view[o]
                                                         ELSE NewObject]]
        /\ UNCHANGED <<clusterVars, cacheVars, list, dest, waiting, made>>

\* HandleEvent returns an error: the rest of the event is abandoned.
Abandon(e) ==
    /\ pc' = [pc EXCEPT ![e] = "failed"]
    /\ list' = [list EXCEPT ![e] = <<>>]
    /\ listed' = [listed EXCEPT ![e] = {}]
    /\ copy' = [copy EXCEPT ![e] = Unread]

\* The destination has no block of its type, or List fails.
FilterFails(e) ==
    /\ pc[e] = "filter"
    /\ destination(e).type \in Types
    /\ Faults \/ Criteria(destination(e)) = None
    /\ Abandon(e)
    /\ UNCHANGED <<clusterVars, cacheVars, dest, waiting, made, lost>>

Visit(e, o) == /\ pc[e] = "apply"
               /\ o \in listed[e]
               /\ listed' = [listed EXCEPT ![e] = @ \ {o}]

\* Fault: every watched object is restarted.
ReferencedAlways(e, o) == TRUE

Referenced(e, o) == ~Panics(o, Identifier[e]) /\ References(o, Identifier[e])

SkipUnreferenced(e, o) ==
    /\ Visit(e, o)
    /\ ~Panics(o, Identifier[e]) /\ ~References(o, Identifier[e])
    /\ UNCHANGED <<clusterVars, cacheVars, pc, list, dest, copy, waiting, made, lost>>

\* Fault: the write does not carry the resource version.
UnmodifiedAlways(e, o) == TRUE

\* The API server accepts the Update of an object nobody wrote since it was read.
Unmodified(e, o) == api[o].version = copy[e][o].version

\* Writing the annotations that are already there changes nothing.
Annotated(obj, stamp) ==
    [obj EXCEPT !.stamp = stamp, !.version = IF obj.stamp = stamp THEN @ ELSE @ + 1]

\* The annotations of a Deployment are part of its pod template, so that changing them
\* makes a new generation.
AnnotatedTemplate(obj, stamp) ==
    [Annotated(obj, stamp) EXCEPT !.generation = IF obj.stamp = stamp THEN @ ELSE @ + 1]

\* The object as listed, with the annotations of the event.
Updated(e, o) ==
    IF Manifest[o].kind = "Deployment" THEN AnnotatedTemplate(copy[e][o], Stamp[e])
                                       ELSE Annotated(copy[e][o], Stamp[e])

\* Only Deployments are waited for.
Apply(e, o) ==
    /\ Visit(e, o)
    /\ Referenced(e, o)
    /\ Unmodified(e, o)
    /\ api' = [api EXCEPT ![o] = Updated(e, o)]
    /\ made' = [made EXCEPT ![e][o] = Updated(e, o).generation]
    /\ IF Manifest[o].kind = "Deployment"
       THEN /\ pc' = [pc EXCEPT ![e] = "wait"]
            /\ waiting' = [waiting EXCEPT ![e] = o]
       ELSE UNCHANGED <<pc, waiting>>
    /\ UNCHANGED <<view, edits, cacheVars, list, dest, copy, lost>>

\* Conflict, or another error of the API server: logged, and the loop continues.
ApplyFails(e, o) ==
    /\ Visit(e, o)
    /\ Referenced(e, o)
    /\ Unmodified(e, o) => Faults
    /\ lost' = [lost EXCEPT ![e] = @ \cup {o}]
    /\ UNCHANGED <<clusterVars, cacheVars, pc, list, dest, copy, waiting, made>>

\* With no condition Progressing, or no spec.replicas, a rollout never completes, nor
\* does that of a paused Deployment: RolloutEnds just does not happen.
isDeploymentRolloutComplete(d) ==
    /\ d.generation = d.observed
    /\ d.rolled = d.generation

\* A tick of _waitFor: Get reads the informer cache.
WaitFor(e) ==
    /\ pc[e] = "wait"
    /\ isDeploymentRolloutComplete(view[waiting[e]])
    /\ pc' = [pc EXCEPT ![e] = "apply"]
    /\ waiting' = [waiting EXCEPT ![e] = None]
    /\ UNCHANGED <<clusterVars, cacheVars, list, dest, listed, copy, made, lost>>

\* Fault: a failed wait goes on with the next object.
WaitForFailsContinues(e) ==
    /\ pc[e] = "wait"
    /\ pc' = [pc EXCEPT ![e] = "apply"]
    /\ UNCHANGED <<clusterVars, cacheVars, list, dest, listed, copy, waiting, made, lost>>

\* Fault: the wait has no timeout.
WaitForFailsNever(e) == FALSE /\ UNCHANGED vars

\* Ten minutes have passed or Get failed.
WaitForFails(e) ==
    /\ pc[e] = "wait"
    /\ Abandon(e)
    /\ UNCHANGED <<clusterVars, cacheVars, dest, waiting, made, lost>>

FinishDestination(e) ==
    /\ pc[e] = "apply"
    /\ listed[e] = {}
    /\ NextDestination(e)
    /\ copy' = [copy EXCEPT ![e] = Unread]
    /\ UNCHANGED <<clusterVars, cacheVars, list, listed, waiting, made, lost>>

--------------------------------------------------------------------------------
(* The process and the cluster                                             *)

\* The process ends and starts again.  Events are kept in memory only.
ProcessEnds ==
    /\ pc' = [e \in Events |-> IF pc[e] = "done" THEN "done" ELSE "failed"]
    /\ list' = [e \in Events |-> IF pc[e] = "done" THEN list[e] ELSE <<>>]
    /\ listed' = [e \in Events |-> {}]
    /\ copy' = [e \in Events |-> Unread]
    /\ view' = api
    /\ cache' = <<>> /\ incoming' = None
    /\ UNCHANGED <<api, edits, updates, dest, waiting, made, lost>>

Crash ==
    /\ Faults
    /\ \E e \in Events : pc[e] \notin {"done", "failed"}
    /\ ProcessEnds

\* Fault: the panic is recovered, and the object passed over.
ReferencesRecovers(e, o) ==
    /\ Visit(e, o)
    /\ Panics(o, Identifier[e])
    /\ UNCHANGED <<clusterVars, cacheVars, pc, list, dest, copy, waiting, made, lost>>

\* MustCompile panics in a goroutine that nobody recovers, for all events at once.
ReferencesPanics(e, o) ==
    /\ pc[e] = "apply" /\ o \in listed[e]
    /\ Panics(o, Identifier[e])
    /\ ProcessEnds

InformerCatchesUp(o) ==
    /\ view[o] # api[o]
    /\ view' = [view EXCEPT ![o] = api[o]]
    /\ UNCHANGED <<api, edits, cacheVars, handlerVars>>

WriteStatus(o, observed, rolled) ==
    /\ api' = [api EXCEPT ![o].observed = observed, ![o].rolled = rolled,
                          ![o].version = @ + 1]
    /\ UNCHANGED <<view, edits, cacheVars, handlerVars>>

\* The deployment controller sees the new generation, and later completes it.
RolloutBegins(o) == /\ Manifest[o].kind = "Deployment"
                    /\ api[o].observed # api[o].generation
                    /\ WriteStatus(o, api[o].generation, api[o].rolled)

RolloutEnds(o) == /\ Manifest[o].kind = "Deployment"
                  /\ api[o].observed = api[o].generation
                  /\ api[o].rolled # api[o].generation
                  /\ WriteStatus(o, api[o].observed, api[o].generation)

EditObject(o) ==
    /\ o \in Edited /\ edits < MaxEdits
    /\ edits' = edits + 1
    /\ api' = [api EXCEPT ![o].edit = @ + 1, ![o].version = @ + 1,
                          ![o].generation = @ + 1]
    /\ UNCHANGED <<view, cacheVars, handlerVars>>

HandleEvent(e) ==
    \/ pc[e] = "received" /\ \E l \in Readable : Dispatch(e, l)
    \/ pc[e] = "filter" /\ \/ SkipUnknown(e) \/ FilterFails(e)
                           \/ \E skipped \in SUBSET Objects : Filter(e, skipped)
    \/ \E o \in listed[e] :
          SkipUnreferenced(e, o) \/ Apply(e, o) \/ ApplyFails(e, o) \/ ReferencesPanics(e, o)
    \/ WaitFor(e) \/ WaitForFails(e) \/ FinishDestination(e)

Cluster(o) == InformerCatchesUp(o) \/ RolloutBegins(o) \/ RolloutEnds(o) \/ EditObject(o)

Next == \/ \E l \in DestinationLists : UpdateDestinationsToWatch(l)
        \/ DestinationsStored
        \/ \E e \in Events : HandleEvent(e)
        \/ \E o \in Objects : Cluster(o)
        \/ Crash

\* The goroutine of an event runs; the cluster owes nothing.
Spec == Init /\ [][Next]_vars /\ \A e \in Events : WF_vars(HandleEvent(e))

--------------------------------------------------------------------------------
(* Properties                                                              *)

TypeOK ==
    /\ api \in [Objects -> Object] /\ view \in [Objects -> Object]
    /\ edits \in 0..MaxEdits
    /\ cache \in DestinationLists \cup {<<>>} /\ incoming \in DestinationLists \cup {None}
    /\ updates \in 0..MaxUpdates
    /\ pc \in [Events -> {"received", "filter", "apply", "wait", "done", "failed"}]
    /\ dest \in [Events -> Nat]
    /\ \A e \in Events : pc[e] \in {"filter", "apply", "wait"} => dest[e] \in DOMAIN list[e]
    /\ listed \in [Events -> SUBSET Objects]
    /\ copy \in [Events -> [Objects -> Object]]
    /\ waiting \in [Events -> Objects \cup {None}]
    /\ made \in [Events -> [Objects -> Nat]]
    /\ lost \in [Events -> SUBSET Objects]

\* The objects an event is about, by the destinations of a list: watched, in its
\* namespace, referring to its secret.
Concerns(e, l) ==
    {o \in Objects : \E i \in DOMAIN l :
        /\ l[i].type \in Types /\ Criteria(l[i]) # None
        /\ o \in Filtered(l[i], Namespace[e])
        /\ References(o, Identifier[e])}

Touched(e) == {o \in Objects : made[e][o] # 0}

\* What an event restarts are objects that one list of destinations selects and that
\* refer to its secret, although another Config may replace the list at any moment of
\* the handling (processor.go:29-65).
OnlyReferenced ==
    \A e \in Events : \E l \in DestinationLists \cup {<<>>} : Touched(e) \subseteq Concerns(e, l)

\* A write by the reloader, which sends the whole object as listed, never undoes a
\* change made by somebody else after the List (deployment/handler.go:61-83).
NoEditUndone == [][\A o \in Objects : api'[o].edit >= api[o].edit]_vars

\* HandleEvent returns nil only after it has tried every watched object that refers
\* to the secret: one that cannot be updated does not keep the others from being
\* updated, and one whose references cannot be decided is not passed over
\* (processor.go:56-75, externalsecret/handler.go:152-166).
AllAttempted ==
    \A e \in Events : pc[e] = "done" =>
        \A o \in Concerns(e, list[e]) : o \in Touched(e) \cup lost[e]

\* Until the Deployment it waits for is seen rolled out the handler updates nothing
\* else, and nothing at all when that never happens (processor.go:76-81).
StopsAtUnfinishedRollout ==
    [][\A e \in Events : waiting[e] # None => made'[e] = made[e] /\ dest'[e] = dest[e]]_vars

Underway == {e \in Events : pc[e] \notin {"received", "done", "failed"}}

\* Every handler ends, also when a Deployment is paused or its rollout never
\* completes (deployment/handler.go:151-157).
HandlersEnd == Underway # {} ~> Underway = {}

\* docs/destinations/deployments.md:5: a Deployment destination is triggered to roll
\* out when an event arrives.
EventReachesAll ==
    \A e \in Events : pc[e] = "done" => Concerns(e, list[e]) \subseteq Touched(e)

\* docs/quickstart.md:140: deployments get restarted in sequence.
RolloutsInSequence ==
    \A e \in Events :
        Cardinality({o \in OfKind("Deployment") : made[e][o] > api[o].rolled}) <= 1
================================================================================
