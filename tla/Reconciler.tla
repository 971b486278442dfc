------------------------------- MODULE Reconciler -------------------------------
(***************************************************************************)
(* The controller of Config resources (internal/controller): users write   *)
(* Configs to the API server, an informer delivers the writes in order and *)
(* late, and one worker runs Reconcile for the queued names.               *)
(*                                                                         *)
(* Reconcile reads the informer cache and writes to the API server, which  *)
(* refuses a write based on another version than the current one.  Each    *)
(* call of Reconcile that others can observe is a step.  ManageListeners   *)
(* is one step here: its inner steps are those of module ListenerManager,  *)
(* whose variable accepted is the one below.                               *)
(***************************************************************************)
EXTENDS Naturals, Sequences

CONSTANTS
    Configs,       \* names of Config resources
    Specs,         \* their specs, records [sources, destinations]
    ValidSources,  \* the lists of sources that pass ConfigSpec.Validate
    Nothing,       \* no object, no list of sources, no destinations
    MaxWrites,     \* bound: writes by users
    MaxFaults      \* bound: failing calls of the API server, and crashes

ASSUME BoundsAssumption == MaxWrites \in Nat /\ MaxFaults \in Nat

VARIABLES
    object,    \* the Configs in the API server
    backlog,   \* states of a Config the informer has yet to deliver, in order
    view,      \* the Configs in the informer cache
    queue,     \* names waiting for the worker
    pc,        \* where Reconcile is
    req,       \* the name it works on
    cfg,       \* the Config it has read
    accepted,  \* the list of sources last taken by ManageListeners
    cache,     \* EventHandler.cache, shared by all Configs
    revision,  \* last resource version given to a Config of the name
    writes,    \* writes by users so far
    faults     \* failed calls and crashes so far

vars == <<object, backlog, view, queue, pc, req, cfg, accepted, cache,
          revision, writes, faults>>

apiVars      == <<object, backlog, revision>>
informerVars == <<view, queue>>
callVars     == <<pc, req, cfg>>
memory       == <<accepted, cache>>
bounds       == <<writes, faults>>

\* held: some other controller has a finalizer on the Config.
Object == [spec : Specs, finalizer : BOOLEAN, held : BOOLEAN, deleting : BOOLEAN,
           processed : BOOLEAN, version : Nat]

ASSUME NothingAssumption ==
    /\ Nothing \notin Object
    /\ Nothing \notin Configs /\ Nothing \notin Specs
    /\ \A s \in Specs : s.sources # Nothing /\ s.destinations # Nothing

Init ==
    /\ object = [c \in Configs |-> Nothing]
    /\ backlog = [c \in Configs |-> <<>>]
    /\ view = [c \in Configs |-> Nothing]
    /\ queue = {}
    /\ pc = "idle"
    /\ req = Nothing
    /\ cfg = Nothing
    /\ accepted = [c \in Configs |-> Nothing]
    /\ cache = Nothing
    /\ revision = [c \in Configs |-> 0]
    /\ writes = 0
    /\ faults = 0

--------------------------------------------------------------------------------
(* The API server and its users                                            *)

\* Every write gets a new version; a deleting Config without finalizers is gone.
Store(c, o) ==
    LET gone == o.deleting /\ ~o.finalizer /\ ~o.held
        new  == IF gone THEN Nothing ELSE [o EXCEPT !.version = revision[c] + 1]
    IN  /\ object' = [object EXCEPT ![c] = new]
        /\ backlog' = [backlog EXCEPT ![c] = Append(@, new)]
        /\ revision' = [revision EXCEPT ![c] = @ + 1]

UserWrites(c, o) ==
    /\ writes < MaxWrites
    /\ writes' = writes + 1
    /\ Store(c, o)
    /\ UNCHANGED <<informerVars, callVars, memory, faults>>

CreateConfig(c, spec) ==
    /\ object[c] = Nothing
    /\ UserWrites(c, [spec |-> spec, finalizer |-> FALSE, held |-> FALSE,
                      deleting |-> FALSE, processed |-> FALSE, version |-> 0])

EditConfig(c, spec) ==
    /\ object[c] # Nothing
    /\ object[c].spec # spec
    /\ UserWrites(c, [object[c] EXCEPT !.spec = spec])

DeleteConfig(c) ==
    /\ object[c] # Nothing
    /\ ~object[c].deleting
    /\ UserWrites(c, [object[c] EXCEPT !.deleting = TRUE])

\* No finalizer can be added to a Config that is being deleted.
HoldConfig(c) ==
    /\ object[c] # Nothing
    /\ ~object[c].deleting /\ ~object[c].held
    /\ UserWrites(c, [object[c] EXCEPT !.held = TRUE])

ReleaseConfig(c) ==
    /\ object[c] # Nothing
    /\ object[c].held /\ object[c].deleting
    /\ Store(c, [object[c] EXCEPT !.held = FALSE])
    /\ UNCHANGED <<informerVars, callVars, memory, bounds>>

\* The informer delivers the next state of a Config and queues its name.
Deliver(c) ==
    /\ backlog[c] # <<>>
    /\ view' = [view EXCEPT ![c] = Head(backlog[c])]
    /\ backlog' = [backlog EXCEPT ![c] = Tail(@)]
    /\ queue' = queue \cup {c}
    /\ UNCHANGED <<object, revision, callVars, memory, bounds>>

--------------------------------------------------------------------------------
(* Reconcile                                                               *)

\* A returned error puts the name back into the queue.
Return == pc' = "idle" /\ req' = Nothing /\ cfg' = Nothing

Requeue == Return /\ queue' = queue \cup {req} /\ view' = view

Dequeue(c) ==
    /\ pc = "idle"
    /\ c \in queue
    /\ queue' = queue \ {c}
    /\ req' = c
    /\ pc' = "get"
    /\ UNCHANGED <<view, cfg, apiVars, memory, bounds>>

\* Fault: listeners are started before the finalizer is on the Config.
BranchUnguarded(o) ==
    IF o = Nothing THEN "teardown"
    ELSE IF o.deleting /\ o.finalizer THEN "cleanup"
    ELSE IF ~o.finalizer /\ o.processed THEN "finalize"
    ELSE IF ~o.processed THEN "annotate"
    ELSE "destinations"

\* Fault: a Config that is not found is treated as an empty one.
BranchNotFoundIgnored(o) ==
    IF o = Nothing \/ ~o.finalizer THEN "finalize"
    ELSE IF o.deleting THEN "cleanup"
    ELSE IF ~o.processed THEN "annotate"
    ELSE "destinations"

\* Fault: the deletion timestamp is not looked at.
BranchNoCleanup(o) ==
    IF o = Nothing THEN "teardown"
    ELSE IF ~o.finalizer THEN "finalize"
    ELSE IF ~o.processed THEN "annotate"
    ELSE "destinations"

\* The early returns of Reconcile, in order.
Branch(o) ==
    IF o = Nothing THEN "teardown"
    ELSE IF o.deleting /\ o.finalizer THEN "cleanup"
    ELSE IF ~o.finalizer THEN "finalize"
    ELSE IF ~o.processed THEN "annotate"
    ELSE "destinations"

\* Get reads the informer cache.
Get ==
    /\ pc = "get"
    /\ cfg' = view[req]
    /\ pc' = Branch(view[req])
    /\ UNCHANGED <<req, informerVars, apiVars, memory, bounds>>

\* Not found: the listeners of this Config are stopped.
Teardown ==
    /\ pc = "teardown"
    /\ accepted' = [accepted EXCEPT ![req] = Nothing]
    /\ Return
    /\ UNCHANGED <<cache, informerVars, apiVars, bounds>>

\* Being deleted: the listeners are stopped before the finalizer is removed.
Cleanup ==
    /\ pc = "cleanup"
    /\ accepted' = [accepted EXCEPT ![req] = Nothing]
    /\ pc' = "unfinalize"
    /\ UNCHANGED <<req, cfg, cache, informerVars, apiVars, bounds>>

\* Fault: the write does not carry the version it is based on.
CurrentAlways == object[req] # Nothing

Current == object[req] # Nothing /\ object[req].version = cfg.version

\* Adding a finalizer to a Config that is being deleted is forbidden.
Allowed == Current /\ (pc = "finalize" => ~object[req].deleting)

RemoveFinalizer ==
    /\ pc = "unfinalize"
    /\ Current
    /\ Store(req, [cfg EXCEPT !.finalizer = FALSE])
    /\ Return
    /\ UNCHANGED <<informerVars, memory, bounds>>

AddFinalizer ==
    /\ pc = "finalize"
    /\ Allowed
    /\ Store(req, [cfg EXCEPT !.finalizer = TRUE])
    /\ Return
    /\ UNCHANGED <<informerVars, memory, bounds>>

Annotate ==
    /\ pc = "annotate"
    /\ Current
    /\ Store(req, [cfg EXCEPT !.processed = TRUE])
    /\ pc' = "destinations"
    /\ UNCHANGED <<req, cfg, informerVars, memory, bounds>>

\* Conflict, not found or forbidden.
UpdateRefused ==
    /\ pc \in {"unfinalize", "finalize", "annotate"}
    /\ ~Allowed
    /\ Requeue
    /\ UNCHANGED <<apiVars, memory, bounds>>

\* Fault: a failed call is logged and the name is not queued again.
CallFailsDropped ==
    /\ pc \in {"get", "unfinalize", "finalize", "annotate"}
    /\ faults < MaxFaults
    /\ faults' = faults + 1
    /\ Return
    /\ UNCHANGED <<informerVars, apiVars, memory, writes>>

\* Another error of an Update, or one of Get.
CallFails ==
    /\ pc \in {"get", "unfinalize", "finalize", "annotate"}
    /\ faults < MaxFaults
    /\ faults' = faults + 1
    /\ Requeue
    /\ UNCHANGED <<apiVars, memory, writes>>

UpdateDestinationsToWatch ==
    /\ pc = "destinations"
    /\ cache' = cfg.spec.destinations
    /\ pc' = "manage"
    /\ UNCHANGED <<req, cfg, accepted, informerVars, apiVars, bounds>>

\* Fault: the listeners are stopped before the sources are validated.
ManageListenersStopsFirst ==
    /\ pc = "manage"
    /\ IF cfg.spec.sources \in ValidSources
       THEN /\ accepted' = [accepted EXCEPT ![req] = cfg.spec.sources]
            /\ Return
            /\ UNCHANGED informerVars
       ELSE /\ Requeue
            /\ accepted' = [accepted EXCEPT ![req] = Nothing]
    /\ UNCHANGED <<cache, apiVars, bounds>>

\* Fault: a rejected list is logged and no error is returned.
ManageListenersLogsOnly ==
    /\ pc = "manage"
    /\ accepted' = IF cfg.spec.sources \in ValidSources
                   THEN [accepted EXCEPT ![req] = cfg.spec.sources] ELSE accepted
    /\ Return
    /\ UNCHANGED <<cache, informerVars, apiVars, bounds>>

ManageListeners ==
    /\ pc = "manage"
    /\ IF cfg.spec.sources \in ValidSources
       THEN /\ accepted' = [accepted EXCEPT ![req] = cfg.spec.sources]
            /\ Return
            /\ UNCHANGED informerVars
       ELSE /\ Requeue
            /\ accepted' = accepted
    /\ UNCHANGED <<cache, apiVars, bounds>>

\* The process crashes and starts again: the informer lists the Configs and queues
\* their names before the worker starts.
Restart ==
    /\ faults < MaxFaults
    /\ faults' = faults + 1
    /\ view' = object
    /\ backlog' = [c \in Configs |-> <<>>]
    /\ queue' = {c \in Configs : object[c] # Nothing}
    /\ Return
    /\ accepted' = [c \in Configs |-> Nothing]
    /\ cache' = Nothing
    /\ UNCHANGED <<object, revision, writes>>

User(c) ==
    \/ \E spec \in Specs : CreateConfig(c, spec) \/ EditConfig(c, spec)
    \/ DeleteConfig(c) \/ HoldConfig(c)

Step ==
    \/ Get \/ Teardown \/ Cleanup \/ RemoveFinalizer \/ AddFinalizer \/ Annotate
    \/ UpdateRefused \/ CallFails \/ UpdateDestinationsToWatch \/ ManageListeners

Next ==
    \/ \E c \in Configs : User(c) \/ ReleaseConfig(c) \/ Deliver(c) \/ Dequeue(c)
    \/ Step
    \/ Restart

\* The informer and the worker make progress and no name waits for ever: the queue
\* serves names in turn, and a failing one only after a growing delay.
Fairness ==
    /\ \A c \in Configs : WF_vars(Deliver(c)) /\ SF_vars(Dequeue(c))
    /\ WF_vars(Step)

Spec == Init /\ [][Next]_vars /\ Fairness

--------------------------------------------------------------------------------
(* Properties                                                              *)

TypeOK ==
    /\ object \in [Configs -> Object \cup {Nothing}]
    /\ view \in [Configs -> Object \cup {Nothing}]
    /\ backlog \in [Configs -> Seq(Object \cup {Nothing})]
    /\ queue \subseteq Configs
    /\ pc \in {"idle", "get", "teardown", "cleanup", "unfinalize", "finalize",
               "annotate", "destinations", "manage"}
    /\ pc = "idle" <=> req = Nothing
    /\ req \in Configs \cup {Nothing}
    /\ cfg \in Object \cup {Nothing}
    /\ pc \in {"idle", "get", "teardown"} <=> cfg = Nothing
    /\ accepted \in [Configs -> {s.sources : s \in Specs} \cup {Nothing}]
    /\ cache \in {s.destinations : s \in Specs} \cup {Nothing}
    /\ revision \in [Configs -> Nat]
    /\ writes \in 0..MaxWrites
    /\ faults \in 0..MaxFaults

\* A Config that is gone has no listeners, at any moment: listeners run only while
\* the finalizer keeps the Config in the API server, in spite of stale reads,
\* conflicts, crashes and a new Config of the same name
\* (reloader_controller.go:128-144).
GuardedByFinalizer ==
    \A c \in Configs :
        accepted[c] # Nothing => object[c] # Nothing /\ object[c].finalizer

\* The Updates of Reconcile send the whole Config as it was read; they never revert
\* the spec that a user has written since, and never resurrect a Config
\* (reloader_controller.go:139, 148, 169).
NoEditReverted ==
    [][pc' # pc /\ writes' = writes =>
          \A c \in Configs :
             /\ object[c] = Nothing => object'[c] = Nothing
             /\ object'[c] # Nothing => /\ object'[c].spec = object[c].spec
                                        /\ object'[c].deleting = object[c].deleting]_vars

Settled(c, spec) == object[c] # Nothing /\ object[c].spec = spec /\ ~object[c].deleting

\* Once a Config with valid sources is left alone, its listeners become and stay those
\* of its spec: returning after AddFinalizer loses nothing, a refused Update is tried
\* again, and another Config that is rejected for ever does not get in the way
\* (reloader_controller.go:146-155, 184-187).
Converges ==
    \A c \in Configs, spec \in Specs :
        spec.sources \in ValidSources =>
            (<>[]Settled(c, spec) => <>[](accepted[c] = spec.sources))

\* A deleted Config loses the finalizer of the controller and its listeners: the
\* deletion is never blocked, not even by a finalizer of somebody else
\* (reloader_controller.go:128-144).
DeletionCompletes ==
    \A c \in Configs :
        (object[c] # Nothing /\ object[c].deleting) ~>
            /\ object[c] = Nothing \/ ~object[c].finalizer
            /\ accepted[c] = Nothing

\* Nobody is going to reconcile the Config again unless somebody writes to it.
AtRest(c) == backlog[c] = <<>> /\ c \notin queue /\ req # c

Done(c) ==
    IF object[c] = Nothing THEN accepted[c] = Nothing
    ELSE /\ object[c].finalizer /\ object[c].processed /\ ~object[c].deleting
         /\ accepted[c] = object[c].spec.sources

\* A Config is left to itself only when all is done for it: no early return, refused or
\* failed Update, rejected list, late delivery or crash makes the controller rest while
\* the finalizer, the annotation or the listeners are not those of the Config, or while a
\* deletion waits for it (reloader_controller.go:128-190).
RestsWhenDone == \A c \in Configs : AtRest(c) => Done(c)

\* docs/reference/api-reference.md:119: destinationsToWatch of a Config specifies what
\* the controller should monitor.
DestinationsMonitored ==
    pc = "idle" /\ queue = {} /\ (\A c \in Configs : backlog[c] = <<>>) =>
        \A c \in Configs :
            object[c] # Nothing /\ ~object[c].deleting =>
                cache = object[c].spec.destinations
--------------------------------------------------------------------------------
(* The promise to users: module ConfigService                              *)

\* The states of a Config that Reconcile may still read.
Readable(c) == {view[c]} \cup {backlog[c][i] : i \in DOMAIN backlog[c]}

\* The one it works on included.
Pending(c) == (Readable(c) \cup (IF req = c THEN {cfg} ELSE {})) \ {Nothing}

StateOf(o) == [version |-> o.version, spec |-> o.spec, deleting |-> o.deleting]

Service == INSTANCE ConfigService WITH
    current   <- [c \in Configs |-> IF object[c] = Nothing THEN Nothing ELSE object[c].spec],
    version   <- revision,
    known     <- [c \in Configs |-> {StateOf(o) : o \in Pending(c)}],
    listening <- accepted

\* The controller implements ConfigService: in spite of late and stale reads, refused
\* and failed writes and crashes, listeners follow the writes to a Config in their
\* order and are stopped only for a deletion or by a crash
\* (reloader_controller.go:108-190).
ImplementsService == Service!Spec

--------------------------------------------------------------------------------
(* The strengthening under which the safety properties are inductive.       *)

\* A version that is not newer than the object, and that names one state only.
Dated(c, o) == o # Nothing => /\ o.version <= revision[c]
                              /\ o.version = revision[c] => o = object[c]

Older(o1, o2) == o1 # Nothing /\ o2 # Nothing => o1.version <= o2.version

\* The informer delivers versions in order and never goes back.
VersionOrder ==
    \A c \in Configs :
        /\ object[c] # Nothing => object[c].version = revision[c]
        /\ \A o \in Readable(c) : Dated(c, o)
        /\ \A i \in DOMAIN backlog[c] :
              /\ Older(view[c], backlog[c][i])
              /\ \A j \in 1..i : Older(backlog[c][j], backlog[c][i])

\* What Reconcile holds is not newer than what the informer can deliver.
ReadOrder ==
    cfg # Nothing => /\ Dated(req, cfg)
                     /\ \A o \in Readable(req) : Older(cfg, o)

\* A Config with the finalizer, not being deleted: its listeners may be started.
Serving(o) == o # Nothing /\ o.finalizer /\ ~o.deleting

\* Whoever can still be seen serving has its finalizer in the API server.
FinalizerKept ==
    /\ \A c \in Configs : \A o \in Readable(c) :
          Serving(o) => object[c] # Nothing /\ object[c].finalizer
    /\ Serving(cfg) => object[req] # Nothing /\ object[req].finalizer

CallState ==
    /\ pc \in {"cleanup", "unfinalize"} => cfg.deleting /\ cfg.finalizer
    /\ pc = "unfinalize" => accepted[req] = Nothing
    /\ pc \in {"annotate", "destinations", "manage"} => Serving(cfg)

IndInv == /\ TypeOK /\ GuardedByFinalizer /\ VersionOrder /\ ReadOrder
          /\ FinalizerKept /\ CallState
================================================================================
