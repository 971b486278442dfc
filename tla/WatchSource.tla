------------------------------ MODULE WatchSource -------------------------------
(***************************************************************************)
(* The Kubernetes Secret and ConfigMap sources                             *)
(* (internal/listener/kubernetes) for one watched object.  An informer     *)
(* turns the states of the object into notifications; the map function of  *)
(* the controller is called for the old and for the new object of an       *)
(* update, compares versions with VersionMap and sends an event.           *)
(***************************************************************************)
EXTENDS EventChannel

CONSTANTS
    MaxVersions,  \* bound: resource versions of the object
    MaxRelists,   \* bound: lists after the first, by an informer or by a new process
    Absent        \* no object

ASSUME VersionsAssumption == MaxVersions \in Nat /\ MaxRelists \in Nat

VARIABLES
    watched,     \* the object in the API server
    upcoming,    \* states of the object the informer has yet to see, in order
    informed,    \* the object in the informer's cache
    toMap,       \* objects the map function has yet to be called with
    mapping,     \* the version whose event is being sent, or 0
    versionMap,  \* the version in VersionMap, or 0
    resource,    \* last resource version
    relists,     \* lists so far
    watchStopped,  \* Stop was called
    firstSeen,   \* the version the map function of this process saw first, or 0
    reported     \* versions whose event was sent, in order

watchVars == <<watched, upcoming, informed, toMap, mapping, versionMap, resource,
               relists, watchStopped, firstSeen, reported>>

serverVars == <<watched, upcoming, resource, relists>>
mapVars    == <<mapping, versionMap, firstSeen, reported>>

State == [version : 1..MaxVersions, selected : BOOLEAN, deleting : BOOLEAN, gone : BOOLEAN]

WatchInit ==
    /\ watched = Absent /\ upcoming = <<>> /\ informed = Absent
    /\ toMap = <<>> /\ mapping = 0 /\ versionMap = 0
    /\ resource = 0 /\ relists = 0
    /\ watchStopped = FALSE
    /\ firstSeen = 0 /\ reported = <<>>

--------------------------------------------------------------------------------
(* The watched cluster and the informer                                    *)

\* Users create, edit, relabel and delete the object.  A deletion has a version too;
\* deleting is a deletion that waits for finalizers.
Change(o) ==
    /\ resource < MaxVersions
    /\ resource' = resource + 1
    /\ o.version = resource'
    /\ IF watched = Absent THEN ~o.deleting /\ ~o.gone
       ELSE /\ watched.deleting => o.deleting
            /\ o.gone => o.selected = watched.selected /\ o.deleting = watched.deleting
    /\ watched' = IF o.gone THEN Absent ELSE o
    /\ upcoming' = Append(upcoming, o)
    /\ UNCHANGED <<informed, toMap, mapVars, relists, watchStopped, channelVars>>

\* The predicate looks at the new object only; the map function gets both.
Notify(old, new) ==
    toMap' = IF ~new.selected THEN toMap
             ELSE IF old = Absent \/ new.gone THEN Append(toMap, new)
             ELSE toMap \o <<old, new>>

WatchEvent ==
    /\ upcoming # <<>>
    /\ Notify(informed, Head(upcoming))
    /\ informed' = IF Head(upcoming).gone THEN Absent ELSE Head(upcoming)
    /\ upcoming' = Tail(upcoming)
    /\ UNCHANGED <<watched, resource, relists, mapVars, watchStopped, channelVars>>

\* The watch breaks, or the resync period is over: the informer lists the object and
\* goes on from there.  Of a deletion it only knows the last object it had.
Relist ==
    /\ relists < MaxRelists
    /\ watched # Absent \/ informed # Absent
    /\ Notify(informed, IF watched # Absent THEN watched ELSE [informed EXCEPT !.gone = TRUE])
    /\ informed' = watched
    /\ upcoming' = <<>>
    /\ relists' = relists + 1
    /\ UNCHANGED <<watched, resource, mapVars, watchStopped, channelVars>>

--------------------------------------------------------------------------------
(* The map function                                                        *)

\* Fault: the version is not compared with the stored one.
IgnoredIfNew(o) == o.deleting \/ versionMap = 0

Ignored(o) == o.deleting \/ versionMap \in {0, o.version}

\* Being deleted, seen for the first time, or seen before in this version.
MapIgnored ==
    /\ toMap # <<>> /\ mapping = 0
    /\ Ignored(Head(toMap))
    /\ toMap' = Tail(toMap)
    /\ versionMap' = IF versionMap = 0 /\ ~Head(toMap).deleting
                     THEN Head(toMap).version ELSE versionMap
    /\ firstSeen' = IF firstSeen = 0 THEN versionMap' ELSE firstSeen
    /\ UNCHANGED <<serverVars, informed, mapping, reported, watchStopped, channelVars>>

\* A new version is stored before its event is sent.
MapChanged ==
    /\ toMap # <<>> /\ mapping = 0
    /\ ~Ignored(Head(toMap))
    /\ toMap' = Tail(toMap)
    /\ versionMap' = Head(toMap).version
    /\ mapping' = Head(toMap).version
    /\ UNCHANGED <<serverVars, informed, firstSeen, reported, watchStopped, channelVars>>

\* Fault: the event is dropped when the channel is full.
WatchSendOrDrop ==
    /\ mapping # 0
    /\ IF Room THEN Send /\ reported' = Append(reported, mapping)
               ELSE UNCHANGED <<channelVars, reported>>
    /\ mapping' = 0
    /\ UNCHANGED <<serverVars, informed, toMap, versionMap, firstSeen, watchStopped>>

\* No context is watched during the send.
WatchSend ==
    /\ mapping # 0
    /\ Send
    /\ reported' = Append(reported, mapping)
    /\ mapping' = 0
    /\ UNCHANGED <<serverVars, informed, toMap, versionMap, firstSeen, watchStopped>>

WatchStop ==
    /\ ~watchStopped
    /\ watchStopped' = TRUE
    /\ UNCHANGED <<serverVars, informed, toMap, mapVars, channelVars>>

\* The process ends and starts again.  Channel and VersionMap are empty then, and the
\* informer begins with a list: what happened since it last looked it does not learn.
\* (A shutdown before the end changes nothing of the watch.)
WatchRestart ==
    /\ up
    /\ relists < MaxRelists
    /\ relists' = relists + 1
    /\ waiting' = 0 /\ consuming' = TRUE
    /\ informed' = watched
    /\ toMap' = IF watched # Absent /\ watched.selected THEN <<watched>> ELSE <<>>
    /\ upcoming' = <<>>
    /\ mapping' = 0 /\ versionMap' = 0 /\ firstSeen' = 0
    /\ watchStopped' = FALSE
    /\ UNCHANGED <<watched, resource, reported, up>>

MapFunc == MapIgnored \/ MapChanged \/ WatchSend

WatchNext ==
    \/ \E o \in State : Change(o)
    \/ ~watchStopped /\ up /\ (WatchEvent \/ Relist)
    \/ MapFunc
    \/ WatchStop

--------------------------------------------------------------------------------

WatchTypeOK ==
    /\ watched \in State \cup {Absent} /\ informed \in State \cup {Absent}
    /\ upcoming \in Seq(State) /\ toMap \in Seq(State)
    /\ mapping \in 0..MaxVersions /\ versionMap \in 0..MaxVersions
    /\ resource \in 0..MaxVersions /\ relists \in 0..MaxRelists /\ firstSeen \in 0..MaxVersions
    /\ watchStopped \in BOOLEAN
    /\ reported \in Seq(1..MaxVersions)

\* No change is reported twice or after a later one, although every update brings the
\* old object along, relists repeat objects, the selector hides some versions and a new
\* process begins with an empty VersionMap (kubernetes/listener.go:90-102).
ReportedOnce == \A i, j \in DOMAIN reported : i < j => reported[i] < reported[j]

\* The informer has caught up and the map function has been called with all it knows.
CaughtUp == upcoming = <<>> /\ toMap = <<>> /\ mapping = 0 /\ informed = watched

Live(o) == o # Absent /\ o.selected /\ ~o.deleting

\* When the informer has caught up, the present version of a selected object has been
\* reported, in this process or before, unless it is the one that this process saw first:
\* nothing but the first sight is lost, whatever the relists, the full channel and the
\* selector do (kubernetes/listener.go:91-108).
ChangesReported ==
    CaughtUp /\ Live(watched)
    => watched.version \in {reported[i] : i \in DOMAIN reported} \cup {firstSeen}

\* kubernetes/listener.go:33-34: an event is sent on any operation propagated to the
\* watch (create, update, delete).
OperationsReported ==
    CaughtUp /\ Live(watched) => watched.version \in {reported[i] : i \in DOMAIN reported}
================================================================================
