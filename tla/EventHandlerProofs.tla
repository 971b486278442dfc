--------------------------- MODULE EventHandlerProofs ---------------------------
(***************************************************************************)
(* Proofs about EventHandler for any number of events and objects, any     *)
(* lists of destinations, and any number of edits and replaced lists.      *)
(***************************************************************************)
EXTENDS EventHandler, TLAPS

Lists == DestinationLists \cup {<<>>}

\* What a handler may find in the list it has read.
Destination == {Garbage} \cup (UNION {{l[i] : i \in DOMAIN l} : l \in DestinationLists})

\* The objects an event is about, by one destination.
About(e, d) ==
    {o \in Objects : /\ d.type \in Types /\ Criteria(d) # None
                     /\ o \in Filtered(d, Namespace[e])
                     /\ References(o, Identifier[e])}

\* k is read from the array of l, perhaps with another length.
ReadFrom(k, l) == \A i \in DOMAIN k : k[i] = Garbage \/ (i \in DOMAIN l /\ k[i] = l[i])

\* A version that is not newer than the object, and that belongs to one edit only.
Dated(o, x) ==
    /\ x.version <= api[o].version
    /\ x.version = api[o].version => x.edit = api[o].edit
    /\ x.generation > 0

\* The states of an object that somebody holds.
Known(o) == {api[o], view[o], NewObject} \cup {copy[e][o] : e \in Events}

Versions == \A o \in Objects : \A x \in Known(o) : Dated(o, x)

\* Where a handler is, and what it has done at the destinations before.
Visited(e) ==
    /\ pc[e] = "done" => \A i \in DOMAIN list[e] : i < dest[e]
    /\ pc[e] \in {"filter", "apply", "wait", "done"} =>
          \A i \in DOMAIN list[e] :
             i < dest[e] => About(e, list[e][i]) \subseteq Touched(e) \cup lost[e]
    /\ pc[e] \in {"apply", "wait"} =>
          /\ destination(e).type \in Types /\ Criteria(destination(e)) # None
          /\ listed[e] \subseteq Filtered(destination(e), Namespace[e])
          /\ About(e, destination(e)) \subseteq Touched(e) \cup lost[e] \cup listed[e]

\* Everything it has touched is selected by one list, the one it goes through.
Selected(e) ==
    \E l \in Lists :
        /\ Touched(e) \subseteq Concerns(e, l)
        /\ pc[e] \in {"filter", "apply", "wait"} => ReadFrom(list[e], l)

\* A handler that waits does nothing else.
Waits(e) ==
    /\ pc[e] = "received" => dest[e] = 1 /\ Touched(e) = {}
    /\ pc[e] = "wait" => waiting[e] \in Objects
    /\ waiting[e] # None => pc[e] \in {"wait", "failed"}

HandlerOK(e) == Visited(e) /\ Selected(e) /\ Waits(e)

IndInv ==
    /\ TypeOK
    /\ list \in [Events -> Seq(Destination)]
    /\ Versions
    /\ \A e \in Events : HandlerOK(e)

--------------------------------------------------------------------------------
(* Facts about the operators                                               *)

\* A handler lists objects, whatever the type of the destination.
LEMMA FilteredObjects ==
    ASSUME NEW d, d.type \in Types, NEW ns
    PROVE  Filtered(d, ns) \subseteq Objects
  BY DEF Types, Filtered, FilterDeployments, ListedDeployments, FilterExternalSecrets,
         FilterPushSecrets, FilterWorkflows, OfKind

\* What a list concerns is what its destinations do.
LEMMA ConcernsAbout ==
    ASSUME NEW e, NEW l, NEW i \in DOMAIN l
    PROVE  About(e, l[i]) \subseteq Concerns(e, l)
  BY DEF About, Concerns

\* Everything a list concerns, one of its destinations does.
LEMMA AboutConcerns ==
    ASSUME NEW e, NEW l, NEW o \in Concerns(e, l)
    PROVE  \E i \in DOMAIN l : o \in About(e, l[i])
  BY DEF About, Concerns

\* Lists of destinations are sequences.
LEMMA ListsAreSequences ==
    ASSUME NEW l \in Lists
    PROVE  l \in Seq(Destination)
<1>1. CASE l = <<>>
  BY <1>1
<1>2. CASE l \in DestinationLists
  <2> DEFINE T == {d \in {l[i] : i \in DOMAIN l} : d.type \in Types}
  <2>1. l \in Seq(T)
    BY <1>2, DestinationsAssumption
  <2>2. T \subseteq Destination
    BY <1>2 DEF Destination
  <2> QED BY <2>1, <2>2
<1> QED BY <1>1, <1>2 DEF Lists

\* A list read while another is stored is a sequence too, and every destination in it
\* comes from the place it has in one of the two.
LEMMA ReadableLists ==
    ASSUME cache \in Lists, incoming \in DestinationLists \cup {None}, NEW k \in Readable
    PROVE  k \in Seq(Destination) /\ \E l \in Lists : ReadFrom(k, l)
<1>1. CASE incoming = None
  <2>1. k = cache
    BY <1>1 DEF Readable
  <2> QED BY <2>1, ListsAreSequences DEF ReadFrom
<1>2. CASE incoming # None
  <2>1. cache \in Lists /\ incoming \in Lists
    BY <1>2 DEF Lists
  <2>2. PICK l \in {cache, incoming}, m \in {cache, incoming} : k = Slice(l, Len(m))
    BY <1>2 DEF Readable
  <2>3. l \in Lists /\ l \in Seq(Destination) /\ m \in Seq(Destination)
    BY <2>1, ListsAreSequences
  <2>4. Len(m) \in Nat /\ DOMAIN l = 1..Len(l) /\ Len(l) \in Nat
    BY <2>3
  <2>5. \A i \in 1..Len(m) : k[i] = Garbage \/ (i \in DOMAIN l /\ k[i] = l[i])
    BY <2>2, <2>4 DEF Slice
  <2>6. DOMAIN k = 1..Len(m)
    BY <2>2 DEF Slice
  <2>7. k \in [1..Len(m) -> Destination]
    <3>1. \A i \in DOMAIN l : l[i] \in Destination
      BY <2>3
    <3>2. Garbage \in Destination
      BY DEF Destination
    <3> QED BY <2>2, <2>4, <3>1, <3>2 DEF Slice
  <2>8. k \in Seq(Destination)
    BY <2>4, <2>7
  <2> QED BY <2>3, <2>5, <2>6, <2>8 DEF ReadFrom
<1> QED BY <1>1, <1>2

\* The object that a handler writes: the edit and the version are those it has read,
\* the version perhaps one more.
LEMMA UpdatedFacts ==
    ASSUME TypeOK, NEW e \in Events, NEW o \in Objects, copy[e][o].generation > 0
    PROVE  /\ Updated(e, o) \in Object
           /\ Updated(e, o).edit = copy[e][o].edit
           /\ Updated(e, o).version \in {copy[e][o].version, copy[e][o].version + 1}
           /\ Updated(e, o).generation > 0
<1>1. PICK x \in Object : x = copy[e][o]
  BY DEF TypeOK
<1>2. Stamp[e] \in {NoStamp} \cup {Stamp[d] : d \in Events}
  OBVIOUS
<1>3. /\ Annotated(x, Stamp[e]) \in Object
      /\ Annotated(x, Stamp[e]).edit = x.edit
      /\ Annotated(x, Stamp[e]).version \in {x.version, x.version + 1}
      /\ Annotated(x, Stamp[e]).generation = x.generation
  <2>1. CASE x.stamp = Stamp[e]
    BY <1>2, <2>1 DEF Annotated, Object
  <2>2. CASE x.stamp # Stamp[e]
    <3>1. x.version + 1 \in Nat
      BY DEF Object
    <3>2. Annotated(x, Stamp[e]) = [x EXCEPT !.stamp = Stamp[e], !.version = x.version + 1]
      BY <2>2 DEF Annotated, Object
    <3> QED BY <1>2, <3>1, <3>2 DEF Object
  <2> QED BY <2>1, <2>2
<1>4. /\ AnnotatedTemplate(x, Stamp[e]) \in Object
      /\ AnnotatedTemplate(x, Stamp[e]).edit = x.edit
      /\ AnnotatedTemplate(x, Stamp[e]).version \in {x.version, x.version + 1}
      /\ AnnotatedTemplate(x, Stamp[e]).generation \in {x.generation, x.generation + 1}
  BY <1>3 DEF AnnotatedTemplate, Object
<1>5. x.generation > 0 /\ x.generation \in Nat
  BY <1>1 DEF Object
<1> QED BY <1>1, <1>3, <1>4, <1>5 DEF Updated

--------------------------------------------------------------------------------
(* What a step must leave alone                                            *)

\* The version of an object grows with its edits.
Advances(o) == /\ api'[o].version >= api[o].version
               /\ api'[o].version = api[o].version => api'[o].edit = api[o].edit
               /\ api'[o].generation > 0

\* A step that makes versions grow, and gives nobody a state that nobody had.
LEMMA VersionsKept ==
    ASSUME TypeOK, TypeOK', Versions,
           \A o \in Objects : Advances(o) /\ view'[o] \in Known(o),
           \A e \in Events, o \in Objects : copy'[e][o] \in Known(o)
    PROVE  Versions'
<1> SUFFICES ASSUME NEW o \in Objects, NEW x \in Known(o)' PROVE Dated(o, x)'
  BY DEF Versions
<1>1. /\ api[o] \in Object /\ api'[o] \in Object /\ NewObject \in Object /\ view[o] \in Object
      /\ \A e \in Events : copy[e][o] \in Object
  <2>1. NewObject \in Object
    BY DEF NewObject, Object
  <2> QED BY <2>1 DEF TypeOK
<1>2. CASE x = api'[o]
  BY <1>1, <1>2 DEF Dated, Object, Advances
<1>3. CASE x # api'[o]
  <2>1. x \in Known(o)
    BY <1>3 DEF Known
  <2>2. x \in Object
    BY <1>1, <2>1 DEF Known
  <2>3. /\ x.version \in Nat /\ api[o].version \in Nat /\ api'[o].version \in Nat
    BY <1>1, <2>2 DEF Object
  <2>4. Dated(o, x)
    BY <2>1 DEF Versions
  <2> QED BY <2>3, <2>4 DEF Dated, Advances
<1> QED BY <1>2, <1>3

\* The state of a handler that did not move.
Still(e) ==
    /\ pc'[e] = pc[e] /\ list'[e] = list[e] /\ dest'[e] = dest[e]
    /\ listed'[e] = listed[e] /\ waiting'[e] = waiting[e]
    /\ made'[e] = made[e] /\ lost'[e] = lost[e]

\* What is true of a handler stays true while it does not move.
LEMMA StillOK ==
    ASSUME NEW e \in Events, HandlerOK(e), Still(e)
    PROVE  HandlerOK(e)'
<1>1. /\ Touched(e)' = Touched(e) /\ destination(e)' = destination(e)
      /\ \A l : Concerns(e, l)' = Concerns(e, l)
  BY DEF Still, Touched, destination, Concerns
<1>2. Visited(e)'
  BY <1>1 DEF HandlerOK, Visited, Still, About
<1>3. Selected(e)'
  BY <1>1 DEF HandlerOK, Selected, Still
<1>4. Waits(e)'
  BY <1>1 DEF HandlerOK, Waits, Still
<1> QED BY <1>2, <1>3, <1>4 DEF HandlerOK

\* A step of the cluster or of Reconcile.
LEMMA OutsidePreserves ==
    ASSUME IndInv, TypeOK', Versions', UNCHANGED handlerVars
    PROVE  IndInv'
<1>1. \A e \in Events : Still(e)
  BY DEF handlerVars, Still
<1>2. list' = list
  BY DEF handlerVars
<1> QED BY <1>1, <1>2, StillOK DEF IndInv

\* A step of the handler of one event.
LEMMA HandlerPreserves ==
    ASSUME IndInv, NEW e \in Events, TypeOK', Versions', HandlerOK(e)',
           list' \in [Events -> Seq(Destination)],
           \A d \in Events : d # e => Still(d)
    PROVE  IndInv'
  BY StillOK DEF IndInv

--------------------------------------------------------------------------------
(* The steps                                                               *)

\* Init establishes the invariant: nothing was written and no event handled.
LEMMA InitHolds ==
    ASSUME Init
    PROVE  IndInv
<1> USE DEF Init
<1>1. NewObject \in Object
  BY DEF NewObject, Object
<1>2. TypeOK
  BY <1>1, EventsAssumption DEF TypeOK, Unread
<1>3. list \in [Events -> Seq(Destination)]
  OBVIOUS
<1>4. Versions
  BY DEF Versions, Known, Dated, NewObject, Unread
<1>5. ASSUME NEW e \in Events PROVE HandlerOK(e)
  <2>1. Touched(e) = {} /\ <<>> \in Lists
    BY DEF Touched, Lists
  <2>2. pc[e] = "received" /\ dest[e] = 1 /\ waiting[e] = None
    OBVIOUS
  <2> QED BY <2>1, <2>2 DEF HandlerOK, Visited, Selected, Waits
<1> QED BY <1>2, <1>3, <1>4, <1>5 DEF IndInv

\* Storing a list of destinations takes two steps.
LEMMA StorePreserves ==
    ASSUME IndInv,
           (\E l \in DestinationLists : UpdateDestinationsToWatch(l)) \/ DestinationsStored
    PROVE  IndInv'
<1>1. /\ UNCHANGED <<clusterVars, handlerVars>>
      /\ cache' \in Lists /\ incoming' \in DestinationLists \cup {None}
      /\ updates' \in 0..MaxUpdates
  <2>1. ASSUME NEW l \in DestinationLists, UpdateDestinationsToWatch(l)
        PROVE  /\ UNCHANGED <<clusterVars, handlerVars>>
               /\ cache' \in Lists /\ incoming' \in DestinationLists \cup {None}
               /\ updates' \in 0..MaxUpdates
    BY <2>1, EventsAssumption DEF UpdateDestinationsToWatch, IndInv, TypeOK, Lists
  <2>2. ASSUME DestinationsStored
        PROVE  /\ UNCHANGED <<clusterVars, handlerVars>>
               /\ cache' \in Lists /\ incoming' \in DestinationLists \cup {None}
               /\ updates' \in 0..MaxUpdates
    BY <2>2 DEF DestinationsStored, IndInv, TypeOK, Lists
  <2> QED BY <2>1, <2>2
<1>2. TypeOK'
  BY <1>1 DEF IndInv, TypeOK, clusterVars, handlerVars, Lists
<1>3. Versions'
  BY <1>1 DEF IndInv, Versions, Known, Dated, clusterVars, handlerVars
<1> QED BY <1>1, <1>2, <1>3, OutsidePreserves DEF clusterVars, handlerVars

\* The informer, the deployment controller and whoever else writes to objects.
LEMMA ClusterPreserves ==
    ASSUME IndInv, NEW o \in Objects, Cluster(o)
    PROVE  IndInv'
<1>1. UNCHANGED <<cacheVars, handlerVars>>
  BY DEF Cluster, InformerCatchesUp, RolloutBegins, RolloutEnds, WriteStatus, EditObject
<1>2. \A p \in Objects : api[p] \in Object /\ api[p].generation > 0
  BY DEF IndInv, TypeOK, Versions, Known, Dated
<1>3. \A p \in Objects : api[p] \in Known(p) /\ view[p] \in Known(p)
                         /\ \A e \in Events : copy[e][p] \in Known(p)
  BY DEF Known
<1>4. CASE InformerCatchesUp(o)
  <2>1. api' = api /\ edits' = edits /\ view' = [view EXCEPT ![o] = api[o]]
    BY <1>4 DEF InformerCatchesUp
  <2>2. TypeOK'
    BY <1>1, <2>1 DEF IndInv, TypeOK, cacheVars, handlerVars
  <2>3. Versions'
    <3>1. \A p \in Objects : view'[p] \in Known(p)
      BY <1>3, <2>1 DEF IndInv, TypeOK
    <3>2. \A p \in Objects : Advances(p)
      BY <1>2, <2>1 DEF Object, Advances
    <3>3. \A e \in Events, p \in Objects : copy'[e][p] \in Known(p)
      BY <1>1, <1>3 DEF handlerVars
    <3> QED BY <2>2, <3>1, <3>2, <3>3, VersionsKept DEF IndInv
  <2> QED BY <1>1, <2>2, <2>3, OutsidePreserves
<1>5. CASE RolloutBegins(o) \/ RolloutEnds(o) \/ EditObject(o)
  <2>1. PICK x \in Object :
           /\ api' = [api EXCEPT ![o] = x]
           /\ x.version = api[o].version + 1 /\ x.generation > 0
           /\ view' = view /\ edits' \in 0..MaxEdits
    <3>1. PICK y \in Object : y = api[o] /\ y.generation > 0
      BY <1>2
    <3>2. y.version + 1 \in Nat /\ y.edit + 1 \in Nat /\ y.generation + 1 \in Nat
      BY DEF Object
    <3>3. CASE EditObject(o)
      <4> DEFINE z == [y EXCEPT !.edit = y.edit + 1, !.version = y.version + 1,
                                !.generation = y.generation + 1]
      <4>1. /\ z \in Object /\ z.version = y.version + 1
            /\ z.generation = y.generation + 1
        BY <3>2 DEF Object
      <4>2. api' = [api EXCEPT ![o] = z]
        BY <3>1, <3>3 DEF EditObject, IndInv, TypeOK
      <4>3. edits' \in 0..MaxEdits /\ view' = view
        BY <3>3, EventsAssumption DEF EditObject, IndInv, TypeOK
      <4>4. z.generation > 0
        BY <3>1, <4>1 DEF Object
      <4> HIDE DEF z
      <4> QED BY <3>1, <4>1, <4>2, <4>3, <4>4
    <3>4. ASSUME NEW observed \in Nat, NEW rolled \in Nat, WriteStatus(o, observed, rolled)
          PROVE  \E z \in Object :
                    /\ api' = [api EXCEPT ![o] = z]
                    /\ z.version = api[o].version + 1 /\ z.generation > 0
                    /\ view' = view /\ edits' \in 0..MaxEdits
      <4> DEFINE z == [y EXCEPT !.observed = observed, !.rolled = rolled,
                                !.version = y.version + 1]
      <4>1. /\ z \in Object /\ z.version = y.version + 1
            /\ z.generation = y.generation
        BY <3>2 DEF Object
      <4>2. api' = [api EXCEPT ![o] = z]
        BY <3>1, <3>4 DEF WriteStatus, IndInv, TypeOK
      <4>3. edits' \in 0..MaxEdits /\ view' = view
        BY <3>4 DEF WriteStatus, IndInv, TypeOK
      <4> HIDE DEF z
      <4> QED BY <3>1, <4>1, <4>2, <4>3
    <3>5. y.generation \in Nat /\ y.rolled \in Nat /\ y.observed \in Nat
      BY DEF Object
    <3> QED BY <1>5, <3>1, <3>3, <3>4, <3>5 DEF RolloutBegins, RolloutEnds
  <2>2. TypeOK'
    BY <1>1, <2>1 DEF IndInv, TypeOK, cacheVars, handlerVars
  <2>3. \A p \in Objects : Advances(p)
    <3>1. ASSUME NEW p \in Objects, p # o PROVE api'[p] = api[p]
      BY <2>1, <3>1 DEF IndInv, TypeOK
    <3>2. api'[o] = x
      BY <2>1 DEF IndInv, TypeOK
    <3>3. \A p \in Objects : api[p].version \in Nat
      BY <1>2 DEF Object
    <3> QED BY <1>2, <2>1, <3>1, <3>2, <3>3 DEF Advances
  <2>4. Versions'
    <3>1. \A p \in Objects : view'[p] \in Known(p)
      BY <1>3, <2>1
    <3>2. \A e \in Events, p \in Objects : copy'[e][p] \in Known(p)
      BY <1>1, <1>3 DEF handlerVars
    <3> QED BY <2>2, <2>3, <3>1, <3>2, VersionsKept DEF IndInv
  <2> QED BY <1>1, <2>2, <2>4, OutsidePreserves
<1> QED BY <1>4, <1>5 DEF Cluster

\* The types and the versions after a step of a handler that writes no object.
LEMMA QuietStep ==
    ASSUME IndInv, UNCHANGED <<clusterVars, cacheVars>>,
           pc' \in [Events -> {"received", "filter", "apply", "wait", "done", "failed"}],
           dest' \in [Events -> Nat],
           \A e \in Events : pc'[e] \in {"filter", "apply", "wait"} => dest'[e] \in DOMAIN list'[e],
           listed' \in [Events -> SUBSET Objects],
           copy' \in [Events -> [Objects -> Object]],
           \A e \in Events, o \in Objects : copy'[e][o] \in Known(o),
           waiting' \in [Events -> Objects \cup {None}],
           made' = made,
           lost' \in [Events -> SUBSET Objects]
    PROVE  TypeOK' /\ Versions'
<1>1. TypeOK'
  BY DEF IndInv, TypeOK, clusterVars, cacheVars
<1>2. \A o \in Objects : Advances(o) /\ view'[o] \in Known(o)
  <2>1. api' = api /\ view' = view
    BY DEF clusterVars
  <2>2. \A o \in Objects : api[o].version \in Nat /\ api[o].generation > 0
    BY DEF IndInv, TypeOK, Versions, Known, Dated, Object
  <2> QED BY <2>1, <2>2 DEF Known, Advances
<1> QED BY <1>1, <1>2, VersionsKept DEF IndInv

\* A handler reads its list of destinations.
LEMMA DispatchPreserves ==
    ASSUME IndInv, NEW e \in Events, NEW l \in Readable, Dispatch(e, l)
    PROVE  IndInv'
<1>1. PICK k \in Lists : l \in Seq(Destination) /\ ReadFrom(l, k)
  BY ReadableLists DEF IndInv, TypeOK, Lists
<1>2. /\ pc[e] = "received" /\ dest[e] = 1 /\ Touched(e) = {} /\ waiting[e] = None
      /\ list' = [list EXCEPT ![e] = l]
      /\ pc' = [pc EXCEPT ![e] = IF l = <<>> THEN "done" ELSE "filter"]
      /\ UNCHANGED <<clusterVars, cacheVars, dest, listed, copy, waiting, made, lost>>
  BY DEF Dispatch, IndInv, HandlerOK, Waits
<1>3. list'[e] = l /\ pc'[e] = (IF l = <<>> THEN "done" ELSE "filter")
  BY <1>2 DEF IndInv, TypeOK
<1>4. list' \in [Events -> Seq(Destination)]
  BY <1>1, <1>2 DEF IndInv
<1>5. l # <<>> => 1 \in DOMAIN l
  BY <1>1
<1>6. \A d \in Events : d # e => Still(d)
  BY <1>2 DEF IndInv, TypeOK, Still
<1>7. TypeOK' /\ Versions'
  <2>1. pc' \in [Events -> {"received", "filter", "apply", "wait", "done", "failed"}]
    BY <1>2 DEF IndInv, TypeOK
  <2>2. \A d \in Events : pc'[d] \in {"filter", "apply", "wait"} => dest'[d] \in DOMAIN list'[d]
    BY <1>2, <1>3, <1>5, <1>6 DEF IndInv, TypeOK, Still
  <2>3. /\ dest' \in [Events -> Nat] /\ listed' \in [Events -> SUBSET Objects]
        /\ copy' \in [Events -> [Objects -> Object]]
        /\ waiting' \in [Events -> Objects \cup {None}]
        /\ lost' \in [Events -> SUBSET Objects]
    BY <1>2 DEF IndInv, TypeOK
  <2>4. \A d \in Events, o \in Objects : copy'[d][o] \in Known(o)
    BY <1>2 DEF Known
  <2> QED BY <1>2, <2>1, <2>2, <2>3, <2>4, QuietStep
<1>8. HandlerOK(e)'
  <2>1. Touched(e)' = {} /\ dest'[e] = 1 /\ waiting'[e] = None
    BY <1>2 DEF Touched
  <2>2. Visited(e)'
    <3>1. l = <<>> => DOMAIN l = {}
      OBVIOUS
    <3>2. \A i \in DOMAIN l : ~(i < 1)
      BY <1>1
    <3> QED BY <1>3, <2>1, <3>1, <3>2 DEF Visited
  <2>3. Selected(e)'
    BY <1>1, <1>3, <2>1 DEF Selected
  <2>4. Waits(e)'
    BY <1>3, <2>1 DEF Waits
  <2> QED BY <2>2, <2>3, <2>4 DEF HandlerOK
<1> QED BY <1>4, <1>6, <1>7, <1>8, HandlerPreserves

\* HandleEvent gives up: nothing is claimed any more but what it has touched.
LEMMA AbandonPreserves ==
    ASSUME IndInv, NEW e \in Events, pc[e] \in {"filter", "wait"}, Abandon(e),
           UNCHANGED <<clusterVars, cacheVars, dest, waiting, made, lost>>
    PROVE  IndInv'
<1>1. /\ pc' = [pc EXCEPT ![e] = "failed"]
      /\ list' = [list EXCEPT ![e] = <<>>]
      /\ listed' = [listed EXCEPT ![e] = {}]
      /\ copy' = [copy EXCEPT ![e] = Unread]
  BY DEF Abandon
<1>2. list' \in [Events -> Seq(Destination)]
  <2>1. <<>> \in Seq(Destination)
    OBVIOUS
  <2> QED BY <1>1, <2>1 DEF IndInv
<1>3. pc'[e] = "failed"
  BY <1>1 DEF IndInv, TypeOK
<1>4. \A d \in Events : d # e => Still(d)
  BY <1>1 DEF IndInv, TypeOK, Still
<1>5. TypeOK' /\ Versions'
  <2>1. Unread \in [Objects -> Object]
    BY DEF Unread, NewObject, Object
  <2>2. /\ pc' \in [Events -> {"received", "filter", "apply", "wait", "done", "failed"}]
        /\ dest' \in [Events -> Nat] /\ listed' \in [Events -> SUBSET Objects]
        /\ copy' \in [Events -> [Objects -> Object]]
        /\ waiting' \in [Events -> Objects \cup {None}]
        /\ lost' \in [Events -> SUBSET Objects]
    BY <1>1, <2>1 DEF IndInv, TypeOK
  <2>3. \A d \in Events : pc'[d] \in {"filter", "apply", "wait"} => dest'[d] \in DOMAIN list'[d]
    BY <1>3, <1>4 DEF IndInv, TypeOK, Still
  <2>4. \A d \in Events, o \in Objects : copy'[d][o] \in Known(o)
    BY <1>1 DEF IndInv, TypeOK, Known, Unread
  <2> QED BY <2>2, <2>3, <2>4, QuietStep
<1>6. HandlerOK(e)'
  <2>1. Touched(e)' = Touched(e) /\ \A l : Concerns(e, l)' = Concerns(e, l)
    BY DEF Touched, Concerns
  <2>2. Visited(e)' /\ Waits(e)'
    BY <1>3 DEF Visited, Waits
  <2>3. Selected(e)'
    BY <1>3, <2>1 DEF IndInv, HandlerOK, Selected
  <2> QED BY <2>2, <2>3 DEF HandlerOK
<1> QED BY <1>2, <1>4, <1>5, <1>6, HandlerPreserves

\* A handler goes on to the next destination: it has done what it could at this one.
LEMMA NextDestinationPreserves ==
    ASSUME IndInv, NEW e \in Events, pc[e] \in {"filter", "apply"}, NextDestination(e),
           About(e, destination(e)) \subseteq Touched(e) \cup lost[e],
           copy' \in {copy, [copy EXCEPT ![e] = Unread]},
           UNCHANGED <<clusterVars, cacheVars, list, listed, waiting, made, lost>>
    PROVE  IndInv'
<1>1. /\ dest' = [dest EXCEPT ![e] = dest[e] + 1]
      /\ pc' = [pc EXCEPT ![e] = IF dest[e] = Len(list[e]) THEN "done" ELSE "filter"]
  BY DEF NextDestination
<1>2. /\ list[e] \in Seq(Destination) /\ dest[e] \in Nat /\ dest[e] \in DOMAIN list[e]
      /\ list' \in [Events -> Seq(Destination)]
  BY DEF IndInv, TypeOK
<1>3. /\ DOMAIN list[e] = 1..Len(list[e]) /\ Len(list[e]) \in Nat
  BY <1>2
<1>4. /\ dest'[e] = dest[e] + 1
      /\ pc'[e] = (IF dest[e] = Len(list[e]) THEN "done" ELSE "filter")
  BY <1>1 DEF IndInv, TypeOK
<1>5. \A d \in Events : d # e => Still(d)
  BY <1>1 DEF IndInv, TypeOK, Still
<1>6. TypeOK' /\ Versions'
  <2>1. /\ pc' \in [Events -> {"received", "filter", "apply", "wait", "done", "failed"}]
        /\ dest' \in [Events -> Nat]
    BY <1>1, <1>2 DEF IndInv, TypeOK
  <2>2. pc'[e] = "filter" => dest'[e] \in DOMAIN list'[e]
    BY <1>2, <1>3, <1>4
  <2>3. \A d \in Events : pc'[d] \in {"filter", "apply", "wait"} => dest'[d] \in DOMAIN list'[d]
    BY <1>4, <1>5, <2>2 DEF IndInv, TypeOK, Still
  <2>4. Unread \in [Objects -> Object]
    BY DEF Unread, NewObject, Object
  <2>5. /\ listed' \in [Events -> SUBSET Objects]
        /\ copy' \in [Events -> [Objects -> Object]]
        /\ waiting' \in [Events -> Objects \cup {None}]
        /\ lost' \in [Events -> SUBSET Objects]
    BY <2>4 DEF IndInv, TypeOK
  <2>6. \A d \in Events, o \in Objects : copy'[d][o] \in {copy[d][o], NewObject}
    <3>1. CASE copy' = copy
      BY <3>1
    <3>2. CASE copy' = [copy EXCEPT ![e] = Unread]
      BY <3>2 DEF IndInv, TypeOK, Unread
    <3> QED BY <3>1, <3>2
  <2>7. \A d \in Events, o \in Objects : copy'[d][o] \in Known(o)
    BY <2>6 DEF Known
  <2> QED BY <2>1, <2>3, <2>5, <2>7, QuietStep
<1>7. HandlerOK(e)'
  <2>1. Touched(e)' = Touched(e) /\ \A l : Concerns(e, l)' = Concerns(e, l)
    BY DEF Touched, Concerns
  <2>2. HandlerOK(e)
    BY DEF IndInv
  <2>3. Visited(e)'
    <3>1. \A i \in DOMAIN list[e] :
             i < dest[e] + 1 => About(e, list[e][i]) \subseteq Touched(e) \cup lost[e]
      <4> SUFFICES ASSUME NEW i \in DOMAIN list[e], i < dest[e] + 1
                   PROVE  About(e, list[e][i]) \subseteq Touched(e) \cup lost[e]
        OBVIOUS
      <4>1. i < dest[e] \/ i = dest[e]
        BY <1>2, <1>3
      <4> QED BY <2>2, <4>1 DEF HandlerOK, Visited, destination
    <3>2. dest[e] = Len(list[e]) => \A i \in DOMAIN list[e] : i < dest[e] + 1
      BY <1>3
    <3> QED BY <1>4, <2>1, <3>1, <3>2 DEF Visited, About
  <2>4. Selected(e)'
    BY <1>4, <2>1, <2>2 DEF HandlerOK, Selected
  <2>5. Waits(e)'
    BY <1>4, <2>2 DEF HandlerOK, Waits
  <2> QED BY <2>3, <2>4, <2>5 DEF HandlerOK
<1> QED BY <1>2, <1>5, <1>6, <1>7, HandlerPreserves

\* A destination is left because its type is unknown or its objects are all visited.
LEMMA LeavePreserves ==
    ASSUME IndInv, NEW e \in Events, SkipUnknown(e) \/ FinishDestination(e)
    PROVE  IndInv'
<1>1. CASE SkipUnknown(e)
  <2>1. About(e, destination(e)) = {}
    BY <1>1 DEF SkipUnknown, About
  <2> QED BY <1>1, <2>1, NextDestinationPreserves DEF SkipUnknown
<1>2. CASE FinishDestination(e)
  <2>1. About(e, destination(e)) \subseteq Touched(e) \cup lost[e]
    BY <1>2 DEF FinishDestination, IndInv, HandlerOK, Visited
  <2> QED BY <1>2, <2>1, NextDestinationPreserves DEF FinishDestination
<1> QED BY <1>1, <1>2

\* A handler lists the objects of a destination.
LEMMA FilterPreserves ==
    ASSUME IndInv, NEW e \in Events, NEW skipped, Filter(e, skipped)
    PROVE  IndInv'
<1> DEFINE d == destination(e)
           objs == Filtered(d, Namespace[e])
<1>1. /\ pc[e] = "filter" /\ d.type \in Types /\ Criteria(d) # None
      /\ skipped \subseteq NamespaceNeeded(d, objs)
      /\ pc' = [pc EXCEPT ![e] = "apply"]
      /\ listed' = [listed EXCEPT ![e] = objs \ skipped]
      /\ lost' = [lost EXCEPT ![e] = lost[e] \cup skipped]
      /\ copy' = [copy EXCEPT ![e] = [o \in Objects |-> IF o \in objs THEN view[o]
                                                       ELSE NewObject]]
      /\ UNCHANGED <<clusterVars, cacheVars, list, dest, waiting, made>>
  BY DEF Filter
<1>2. objs \subseteq Objects /\ skipped \subseteq objs
  BY <1>1, FilteredObjects DEF NamespaceNeeded
<1> HIDE DEF objs
<1>3. /\ pc'[e] = "apply" /\ listed'[e] = objs \ skipped /\ lost'[e] = lost[e] \cup skipped
      /\ list'[e] = list[e] /\ dest'[e] = dest[e] /\ waiting'[e] = waiting[e]
  BY <1>1 DEF IndInv, TypeOK
<1>4. \A k \in Events : k # e => Still(k)
  BY <1>1 DEF IndInv, TypeOK, Still
<1>5. list' \in [Events -> Seq(Destination)]
  BY <1>1 DEF IndInv
<1>6. TypeOK' /\ Versions'
  <2>1. NewObject \in Object
    BY DEF NewObject, Object
  <2>2. /\ pc' \in [Events -> {"received", "filter", "apply", "wait", "done", "failed"}]
        /\ dest' \in [Events -> Nat] /\ listed' \in [Events -> SUBSET Objects]
        /\ waiting' \in [Events -> Objects \cup {None}]
        /\ lost' \in [Events -> SUBSET Objects]
    BY <1>1, <1>2 DEF IndInv, TypeOK
  <2>3. copy' \in [Events -> [Objects -> Object]]
    BY <1>1, <2>1 DEF IndInv, TypeOK
  <2>4. \A k \in Events : pc'[k] \in {"filter", "apply", "wait"} => dest'[k] \in DOMAIN list'[k]
    BY <1>1, <1>3, <1>4 DEF IndInv, TypeOK, Still
  <2>5. \A k \in Events, o \in Objects : copy'[k][o] \in Known(o)
    BY <1>1 DEF IndInv, TypeOK, Known
  <2> QED BY <1>1, <2>2, <2>3, <2>4, <2>5, QuietStep
<1>7. HandlerOK(e)'
  <2>1. /\ Touched(e)' = Touched(e) /\ destination(e)' = d
        /\ \A l : Concerns(e, l)' = Concerns(e, l)
    BY <1>1 DEF Touched, Concerns, destination
  <2>2. HandlerOK(e)
    BY DEF IndInv
  <2>3. About(e, d) \subseteq objs
    BY DEF About, objs
  <2>4. Visited(e)'
    <3>1. \A i \in DOMAIN list[e] :
             i < dest[e] => About(e, list[e][i]) \subseteq Touched(e) \cup lost[e]
      BY <1>1, <2>2 DEF HandlerOK, Visited
    <3>2. \A k : About(e, k)' = About(e, k)
      BY DEF About
    <3> QED BY <1>1, <1>2, <1>3, <2>1, <2>3, <3>1, <3>2 DEF Visited, objs
  <2>5. Selected(e)'
    BY <1>1, <1>3, <2>1, <2>2 DEF HandlerOK, Selected
  <2>6. Waits(e)'
    BY <1>1, <1>3, <2>2 DEF HandlerOK, Waits
  <2> QED BY <2>4, <2>5, <2>6 DEF HandlerOK
<1> QED BY <1>4, <1>5, <1>6, <1>7, HandlerPreserves

\* An object is passed over because it does not refer to the secret, or because the
\* write fails.
LEMMA SkipPreserves ==
    ASSUME IndInv, NEW e \in Events, NEW o \in listed[e],
           SkipUnreferenced(e, o) \/ ApplyFails(e, o)
    PROVE  IndInv'
<1>1. /\ pc[e] = "apply"
      /\ listed' = [listed EXCEPT ![e] = listed[e] \ {o}]
      /\ UNCHANGED <<clusterVars, cacheVars, pc, list, dest, copy, waiting, made>>
  <2>1. CASE SkipUnreferenced(e, o)
    BY <2>1 DEF SkipUnreferenced, Visit
  <2>2. CASE ApplyFails(e, o)
    BY <2>2 DEF ApplyFails, Visit
  <2> QED BY <2>1, <2>2
<1>2. o \in Objects /\ lost[e] \subseteq Objects /\ listed[e] \subseteq Objects
  BY DEF IndInv, TypeOK
<1>3. PICK more \in SUBSET {o} :
         /\ lost' = [lost EXCEPT ![e] = lost[e] \cup more]
         /\ References(o, Identifier[e]) => o \in more
  <2>1. CASE SkipUnreferenced(e, o)
    <3>1. lost' = [lost EXCEPT ![e] = lost[e] \cup {}]
      BY <2>1 DEF SkipUnreferenced, IndInv, TypeOK
    <3>2. {} \in SUBSET {o} /\ ~References(o, Identifier[e])
      BY <2>1 DEF SkipUnreferenced
    <3> QED BY <3>1, <3>2
  <2>2. CASE ApplyFails(e, o)
    BY <2>2 DEF ApplyFails
  <2> QED BY <2>1, <2>2
<1>4. /\ listed'[e] = listed[e] \ {o} /\ lost[e] \subseteq lost'[e]
      /\ References(o, Identifier[e]) => o \in lost'[e]
  BY <1>1, <1>3 DEF IndInv, TypeOK
<1>5. \A k \in Events : k # e => Still(k)
  BY <1>1, <1>3 DEF IndInv, TypeOK, Still
<1>6. list' \in [Events -> Seq(Destination)]
  BY <1>1 DEF IndInv
<1>7. TypeOK' /\ Versions'
  <2>1. /\ pc' \in [Events -> {"received", "filter", "apply", "wait", "done", "failed"}]
        /\ dest' \in [Events -> Nat] /\ listed' \in [Events -> SUBSET Objects]
        /\ copy' \in [Events -> [Objects -> Object]]
        /\ waiting' \in [Events -> Objects \cup {None}]
    BY <1>1, <1>2 DEF IndInv, TypeOK
  <2>2. lost' \in [Events -> SUBSET Objects]
    BY <1>2, <1>3 DEF IndInv, TypeOK
  <2>3. \A k \in Events : pc'[k] \in {"filter", "apply", "wait"} => dest'[k] \in DOMAIN list'[k]
    BY <1>1 DEF IndInv, TypeOK
  <2>4. \A k \in Events, p \in Objects : copy'[k][p] \in Known(p)
    BY <1>1 DEF Known
  <2> QED BY <1>1, <2>1, <2>2, <2>3, <2>4, QuietStep
<1>8. HandlerOK(e)'
  <2>1. /\ Touched(e)' = Touched(e) /\ destination(e)' = destination(e)
        /\ \A l : Concerns(e, l)' = Concerns(e, l)
        /\ \A k : About(e, k)' = About(e, k)
    BY <1>1 DEF Touched, Concerns, destination, About
  <2>2. HandlerOK(e)
    BY DEF IndInv
  <2>3. o \in About(e, destination(e)) => o \in lost'[e]
    BY <1>4 DEF About
  <2>4. Visited(e)'
    BY <1>1, <1>4, <2>1, <2>2, <2>3 DEF HandlerOK, Visited
  <2>5. Selected(e)'
    BY <1>1, <2>1, <2>2 DEF HandlerOK, Selected
  <2>6. Waits(e)'
    BY <1>1, <2>2 DEF HandlerOK, Waits
  <2> QED BY <2>4, <2>5, <2>6 DEF HandlerOK
<1> QED BY <1>5, <1>6, <1>7, <1>8, HandlerPreserves

\* A write carries the version that was read, and the API server has no other: nothing
\* was edited meanwhile.
LEMMA ApplyPreserves ==
    ASSUME IndInv, NEW e \in Events, NEW o \in listed[e], Apply(e, o)
    PROVE  IndInv'
<1> DEFINE x == Updated(e, o)
           d == destination(e)
<1>1. /\ pc[e] = "apply" /\ Referenced(e, o) /\ Unmodified(e, o)
      /\ listed' = [listed EXCEPT ![e] = listed[e] \ {o}]
      /\ api' = [api EXCEPT ![o] = x]
      /\ made' = [made EXCEPT ![e] = [made[e] EXCEPT ![o] = x.generation]]
      /\ UNCHANGED <<view, edits, cacheVars, list, dest, copy, lost>>
  BY DEF Apply, Visit, IndInv, TypeOK
<1>2. PICK p \in {"apply", "wait"}, w \in Objects \cup {None} :
         /\ pc' = [pc EXCEPT ![e] = p] /\ waiting' = [waiting EXCEPT ![e] = w]
         /\ p = "wait" => w = o
         /\ p = "apply" => w = waiting[e]
  <2>1. CASE Manifest[o].kind = "Deployment"
    BY <2>1 DEF Apply, IndInv, TypeOK
  <2>2. CASE Manifest[o].kind # "Deployment"
    <3>1. /\ pc' = [pc EXCEPT ![e] = "apply"]
          /\ waiting' = [waiting EXCEPT ![e] = waiting[e]]
          /\ waiting[e] \in Objects \cup {None}
      BY <1>1, <2>2 DEF Apply, IndInv, TypeOK
    <3> QED BY <3>1
  <2> QED BY <2>1, <2>2
<1>3. o \in Objects /\ HandlerOK(e) /\ TypeOK
  BY DEF IndInv, TypeOK
<1>4. /\ copy[e][o] \in Object /\ api[o] \in Object
      /\ copy[e][o].version = api[o].version /\ copy[e][o].edit = api[o].edit
      /\ copy[e][o].generation > 0
  BY <1>1, <1>3 DEF Unmodified, IndInv, TypeOK, Versions, Known, Dated
<1>5. /\ x \in Object /\ x.edit = api[o].edit
      /\ x.version \in {api[o].version, api[o].version + 1} /\ x.generation > 0
  BY <1>3, <1>4, UpdatedFacts
<1>6. api[o].version \in Nat /\ x.version \in Nat /\ x.generation \in Nat /\ x.generation # 0
  BY <1>4, <1>5 DEF Object
<1> HIDE DEF x
<1>7. /\ listed'[e] = listed[e] \ {o} /\ pc'[e] = p /\ waiting'[e] = w
      /\ made'[e] = [made[e] EXCEPT ![o] = x.generation]
      /\ list'[e] = list[e] /\ dest'[e] = dest[e] /\ lost'[e] = lost[e]
      /\ made[e] \in [Objects -> Nat]
  BY <1>1, <1>2 DEF IndInv, TypeOK
<1>8. \A k \in Events : k # e => Still(k)
  BY <1>1, <1>2 DEF IndInv, TypeOK, Still
<1>9. list' \in [Events -> Seq(Destination)]
  BY <1>1 DEF IndInv
<1>10. TypeOK'
  <2>1. api' \in [Objects -> Object] /\ made' \in [Events -> [Objects -> Nat]]
    BY <1>1, <1>5, <1>6, <1>7 DEF IndInv, TypeOK
  <2>2. /\ pc' \in [Events -> {"received", "filter", "apply", "wait", "done", "failed"}]
        /\ waiting' \in [Events -> Objects \cup {None}]
        /\ listed' \in [Events -> SUBSET Objects]
    BY <1>1, <1>2 DEF IndInv, TypeOK
  <2>3. \A k \in Events : pc'[k] \in {"filter", "apply", "wait"} => dest'[k] \in DOMAIN list'[k]
    BY <1>1, <1>7, <1>8 DEF IndInv, TypeOK, Still
  <2> QED BY <1>1, <2>1, <2>2, <2>3 DEF IndInv, TypeOK, cacheVars
<1>11. Versions'
  <2>1. \A q \in Objects : Advances(q)
    <3> SUFFICES ASSUME NEW q \in Objects PROVE Advances(q)
      OBVIOUS
    <3>1. CASE q = o
      <4>1. api'[q] = x
        BY <1>1, <1>3, <3>1 DEF TypeOK
      <4> QED BY <1>5, <1>6, <3>1, <4>1 DEF Advances
    <3>2. CASE q # o
      <4>1. api'[q] = api[q] /\ api[q].version \in Nat /\ api[q].generation > 0
        BY <1>1, <3>2 DEF IndInv, TypeOK, Versions, Known, Dated, Object
      <4> QED BY <4>1 DEF Advances
    <3> QED BY <3>1, <3>2
  <2>2. \A q \in Objects : view'[q] \in Known(q)
    BY <1>1 DEF Known
  <2>3. \A k \in Events, q \in Objects : copy'[k][q] \in Known(q)
    BY <1>1 DEF Known
  <2> QED BY <1>10, <2>1, <2>2, <2>3, VersionsKept DEF IndInv
<1>12. HandlerOK(e)'
  <2>1. Touched(e)' = Touched(e) \cup {o}
    BY <1>3, <1>6, <1>7 DEF Touched
  <2>2. /\ destination(e)' = d
        /\ \A l : Concerns(e, l)' = Concerns(e, l)
        /\ \A k : About(e, k)' = About(e, k)
    BY <1>7 DEF Concerns, destination, About
  <2>3. o \in About(e, d)
    BY <1>1, <1>3 DEF HandlerOK, Visited, About, Referenced
  <2>4. Visited(e)'
    BY <1>1, <1>2, <1>3, <1>7, <2>1, <2>2 DEF HandlerOK, Visited
  <2>5. Selected(e)'
    <3>1. PICK l \in Lists : Touched(e) \subseteq Concerns(e, l) /\ ReadFrom(list[e], l)
      BY <1>1, <1>3 DEF HandlerOK, Selected
    <3>2. d # Garbage
      BY <1>1, <1>3 DEF HandlerOK, Visited, Garbage, Types
    <3>3. dest[e] \in DOMAIN l /\ d = l[dest[e]]
      BY <1>1, <1>3, <3>1, <3>2 DEF TypeOK, ReadFrom, destination
    <3>4. o \in Concerns(e, l)
      BY <2>3, <3>3, ConcernsAbout
    <3> QED BY <1>7, <2>1, <2>2, <3>1, <3>4 DEF Selected
  <2>6. Waits(e)'
    BY <1>1, <1>2, <1>3, <1>7 DEF HandlerOK, Waits
  <2> QED BY <2>4, <2>5, <2>6 DEF HandlerOK
<1> QED BY <1>8, <1>9, <1>10, <1>11, <1>12, HandlerPreserves

\* A Deployment is seen rolled out.
LEMMA WaitForPreserves ==
    ASSUME IndInv, NEW e \in Events, WaitFor(e)
    PROVE  IndInv'
<1>1. /\ pc[e] = "wait"
      /\ pc' = [pc EXCEPT ![e] = "apply"]
      /\ waiting' = [waiting EXCEPT ![e] = None]
      /\ UNCHANGED <<clusterVars, cacheVars, list, dest, listed, copy, made, lost>>
  BY DEF WaitFor
<1>2. pc'[e] = "apply" /\ waiting'[e] = None
  BY <1>1 DEF IndInv, TypeOK
<1>3. \A k \in Events : k # e => Still(k)
  BY <1>1 DEF IndInv, TypeOK, Still
<1>4. list' \in [Events -> Seq(Destination)]
  BY <1>1 DEF IndInv
<1>5. TypeOK' /\ Versions'
  <2>1. /\ pc' \in [Events -> {"received", "filter", "apply", "wait", "done", "failed"}]
        /\ dest' \in [Events -> Nat] /\ listed' \in [Events -> SUBSET Objects]
        /\ copy' \in [Events -> [Objects -> Object]]
        /\ waiting' \in [Events -> Objects \cup {None}]
        /\ lost' \in [Events -> SUBSET Objects]
    BY <1>1 DEF IndInv, TypeOK
  <2>2. \A k \in Events : pc'[k] \in {"filter", "apply", "wait"} => dest'[k] \in DOMAIN list'[k]
    BY <1>1, <1>3 DEF IndInv, TypeOK, Still
  <2>3. \A k \in Events, q \in Objects : copy'[k][q] \in Known(q)
    BY <1>1 DEF Known
  <2> QED BY <1>1, <2>1, <2>2, <2>3, QuietStep
<1>6. HandlerOK(e)'
  <2>1. /\ Touched(e)' = Touched(e) /\ destination(e)' = destination(e)
        /\ \A l : Concerns(e, l)' = Concerns(e, l)
        /\ \A k : About(e, k)' = About(e, k)
    BY <1>1 DEF Touched, Concerns, destination, About
  <2>2. HandlerOK(e)
    BY DEF IndInv
  <2>3. Visited(e)'
    BY <1>1, <1>2, <2>1, <2>2 DEF HandlerOK, Visited
  <2>4. Selected(e)'
    BY <1>1, <2>1, <2>2 DEF HandlerOK, Selected
  <2>5. Waits(e)'
    BY <1>2 DEF Waits
  <2> QED BY <2>3, <2>4, <2>5 DEF HandlerOK
<1> QED BY <1>3, <1>4, <1>5, <1>6, HandlerPreserves

\* The process ends: what an event has touched remains, and what a finished one claims.
LEMMA EndPreserves ==
    ASSUME IndInv, ProcessEnds
    PROVE  IndInv'
<1>1. /\ pc' = [e \in Events |-> IF pc[e] = "done" THEN "done" ELSE "failed"]
      /\ list' = [e \in Events |-> IF pc[e] = "done" THEN list[e] ELSE <<>>]
      /\ listed' = [e \in Events |-> {}]
      /\ copy' = [e \in Events |-> Unread]
      /\ view' = api /\ cache' = <<>> /\ incoming' = None
      /\ UNCHANGED <<api, edits, updates, dest, waiting, made, lost>>
  BY DEF ProcessEnds
<1>2. Unread \in [Objects -> Object]
  BY DEF Unread, NewObject, Object
<1>3. TypeOK'
  BY <1>1, <1>2 DEF IndInv, TypeOK
<1>4. list' \in [Events -> Seq(Destination)]
  <2>1. <<>> \in Seq(Destination)
    OBVIOUS
  <2> QED BY <1>1, <2>1 DEF IndInv
<1>5. Versions'
  <2>1. \A q \in Objects : Advances(q) /\ view'[q] \in Known(q)
    <3>1. \A q \in Objects : api[q].version \in Nat /\ api[q].generation > 0
      BY DEF IndInv, TypeOK, Versions, Known, Dated, Object
    <3> QED BY <1>1, <3>1 DEF Known, Advances
  <2>2. \A k \in Events, q \in Objects : copy'[k][q] \in Known(q)
    BY <1>1 DEF Known, Unread
  <2> QED BY <1>3, <2>1, <2>2, VersionsKept DEF IndInv
<1>6. ASSUME NEW e \in Events PROVE HandlerOK(e)'
  <2>1. /\ Touched(e)' = Touched(e)
        /\ \A l : Concerns(e, l)' = Concerns(e, l)
        /\ \A k : About(e, k)' = About(e, k)
    BY <1>1 DEF Touched, Concerns, About
  <2>2. HandlerOK(e)
    BY DEF IndInv
  <2>3. /\ pc'[e] \in {"done", "failed"}
        /\ pc'[e] = "done" => pc[e] = "done" /\ list'[e] = list[e]
        /\ pc'[e] = "failed" => pc[e] # "done"
    BY <1>1
  <2>4. Visited(e)'
    BY <1>1, <2>1, <2>2, <2>3 DEF HandlerOK, Visited
  <2>5. Selected(e)'
    BY <2>1, <2>2, <2>3 DEF HandlerOK, Selected
  <2>6. Waits(e)'
    BY <1>1, <2>2, <2>3 DEF HandlerOK, Waits
  <2> QED BY <2>4, <2>5, <2>6 DEF HandlerOK
<1> QED BY <1>3, <1>4, <1>5, <1>6 DEF IndInv

\* Every step preserves the invariant.
LEMMA NextPreserves ==
    ASSUME IndInv, [Next]_vars
    PROVE  IndInv'
<1>1. CASE UNCHANGED vars
  <2>1. UNCHANGED <<clusterVars, cacheVars, handlerVars>>
    BY <1>1 DEF vars
  <2>2. TypeOK'
    BY <2>1 DEF IndInv, TypeOK, clusterVars, cacheVars, handlerVars
  <2>3. Versions'
    BY <2>1 DEF IndInv, Versions, Known, Dated, clusterVars, handlerVars
  <2> QED BY <2>1, <2>2, <2>3, OutsidePreserves
<1>2. ASSUME NEW e \in Events, HandleEvent(e) PROVE IndInv'
  <2>1. CASE \E l \in Readable : Dispatch(e, l)
    BY <2>1, DispatchPreserves
  <2>2. CASE SkipUnknown(e) \/ FinishDestination(e)
    BY <2>2, LeavePreserves
  <2>3. CASE FilterFails(e)
    BY <2>3, AbandonPreserves DEF FilterFails
  <2>4. CASE WaitForFails(e)
    BY <2>4, AbandonPreserves DEF WaitForFails
  <2>5. CASE \E skipped \in SUBSET Objects : Filter(e, skipped)
    BY <2>5, FilterPreserves
  <2>6. ASSUME NEW o \in listed[e],
               SkipUnreferenced(e, o) \/ Apply(e, o) \/ ApplyFails(e, o) \/ ReferencesPanics(e, o)
        PROVE  IndInv'
    BY <2>6, SkipPreserves, ApplyPreserves, EndPreserves DEF ReferencesPanics
  <2>7. CASE WaitFor(e)
    BY <2>7, WaitForPreserves
  <2> QED BY <1>2, <2>1, <2>2, <2>3, <2>4, <2>5, <2>6, <2>7 DEF HandleEvent
<1> QED BY <1>1, <1>2, StorePreserves, ClusterPreserves, EndPreserves DEF Next, Crash

--------------------------------------------------------------------------------
(* The theorems                                                            *)

\* The inductive invariant holds in every reachable state, whatever the interleaving of
\* handlers, writers, Configs and crashes.
THEOREM Invariance == Spec => []IndInv
<1>1. Init => IndInv
  BY InitHolds
<1>2. IndInv /\ [Next]_vars => IndInv'
  BY NextPreserves
<1> QED BY <1>1, <1>2, PTL DEF Spec

\* Type correctness; in particular a handler that goes through a list is at a destination
\* of it, also when the list was read while another was stored (processor.go:29-65).
THEOREM TypeCorrect == Spec => []TypeOK
<1>1. IndInv => TypeOK
  BY DEF IndInv
<1> QED BY <1>1, Invariance, PTL

\* An event restarts only objects that one list of destinations selects and that refer
\* to its secret (processor.go:29-65).
THEOREM RestartsOnlyReferenced == Spec => []OnlyReferenced
<1>1. IndInv => OnlyReferenced
  BY DEF IndInv, HandlerOK, Selected, OnlyReferenced, Lists
<1> QED BY <1>1, Invariance, PTL

\* HandleEvent returns nil only after every object that the event is about was updated
\* or was lost to an error of its own (processor.go:56-75).
THEOREM EveryObjectAttempted == Spec => []AllAttempted
<1>1. IndInv => AllAttempted
  <2> SUFFICES ASSUME IndInv, NEW e \in Events, pc[e] = "done", NEW o \in Concerns(e, list[e])
               PROVE  o \in Touched(e) \cup lost[e]
    BY DEF AllAttempted
  <2>1. PICK i \in DOMAIN list[e] : o \in About(e, list[e][i])
    BY AboutConcerns
  <2> QED BY <2>1 DEF IndInv, HandlerOK, Visited
<1> QED BY <1>1, Invariance, PTL

\* No write of the reloader undoes an edit made after the List: the version it carries
\* would be refused (deployment/handler.go:61-83).
THEOREM EditsSurvive == Spec => NoEditUndone
<1>1. IndInv /\ IndInv' /\ [Next]_vars => [\A o \in Objects : api'[o].edit >= api[o].edit]_vars
  <2> SUFFICES ASSUME IndInv, Next, NEW o \in Objects
               PROVE  api'[o].edit >= api[o].edit
    OBVIOUS
  <2>1. api[o] \in Object /\ api[o].edit \in Nat /\ \A p \in Objects : api[p] \in Object
    BY DEF IndInv, TypeOK, Object
  <2>2. CASE api' = api
    BY <2>1, <2>2
  <2>3. ASSUME NEW e \in Events, NEW p \in listed[e], Apply(e, p)
        PROVE  api'[o].edit >= api[o].edit
    <3>1. /\ p \in Objects /\ copy[e][p].generation > 0
          /\ copy[e][p].edit = api[p].edit
      BY <2>3 DEF Apply, Unmodified, IndInv, TypeOK, Versions, Known, Dated
    <3>2. Updated(e, p).edit = api[p].edit
      BY <3>1, UpdatedFacts DEF IndInv
    <3>3. api' = [api EXCEPT ![p] = Updated(e, p)]
      BY <2>3 DEF Apply
    <3>4. api'[o].edit = api[o].edit
      BY <3>1, <3>2, <3>3 DEF IndInv, TypeOK
    <3> QED BY <2>1, <3>4
  <2>4. ASSUME NEW p \in Objects, Cluster(p)
        PROVE  api'[o].edit >= api[o].edit
    <3>1. CASE EditObject(p)
      <4>1. api'[o].edit \in {api[o].edit, api[o].edit + 1}
        BY <2>1, <3>1 DEF EditObject, IndInv, TypeOK, Object
      <4> QED BY <2>1, <4>1
    <3>2. ASSUME NEW observed, NEW rolled, WriteStatus(p, observed, rolled)
          PROVE  api'[o].edit >= api[o].edit
      <4>1. api'[o].edit = api[o].edit
        BY <2>1, <3>2 DEF WriteStatus, IndInv, TypeOK, Object
      <4> QED BY <2>1, <4>1
    <3> QED BY <2>2, <2>4, <3>1, <3>2 DEF Cluster, InformerCatchesUp, RolloutBegins, RolloutEnds
  <2>5. ASSUME NEW e \in Events, HandleEvent(e),
               ~\E p \in listed[e] : Apply(e, p)
        PROVE  api' = api
    BY <2>5 DEF HandleEvent, Dispatch, SkipUnknown, FilterFails, Filter, SkipUnreferenced,
                ApplyFails, ReferencesPanics, ProcessEnds, WaitFor, WaitForFails,
                FinishDestination, clusterVars
  <2>6. (\E l \in DestinationLists : UpdateDestinationsToWatch(l)) \/ DestinationsStored \/ Crash
           => api' = api
    BY DEF UpdateDestinationsToWatch, DestinationsStored, Crash, ProcessEnds, clusterVars
  <2> QED BY <2>2, <2>3, <2>4, <2>5, <2>6 DEF Next
<1> QED BY <1>1, Invariance, PTL DEF Spec, NoEditUndone

\* Until the Deployment it waits for is seen rolled out a handler updates nothing else,
\* and after a timeout nothing at all (processor.go:76-81).
THEOREM StopsUntilRolledOut == Spec => StopsAtUnfinishedRollout
<1> DEFINE Step == \A e \in Events : waiting[e] # None => made'[e] = made[e] /\ dest'[e] = dest[e]
<1>1. IndInv /\ [Next]_vars => [Step]_vars
  <2> SUFFICES ASSUME IndInv, Next, NEW e \in Events, waiting[e] # None
               PROVE  made'[e] = made[e] /\ dest'[e] = dest[e]
    OBVIOUS
  <2>1. pc[e] \in {"wait", "failed"}
    BY DEF IndInv, HandlerOK, Waits
  <2>2. CASE UNCHANGED <<made, dest>>
    BY <2>2
  <2>3. ASSUME NEW k \in Events, HandleEvent(k)
        PROVE  made'[e] = made[e] /\ dest'[e] = dest[e]
    <3>1. CASE pc[k] \in {"wait", "failed"}
      <4>1. UNCHANGED <<made, dest>>
        BY <2>3, <3>1 DEF HandleEvent, Dispatch, SkipUnreferenced, Visit, Apply, ApplyFails,
              ReferencesPanics, WaitFor, WaitForFails, FinishDestination
      <4> QED BY <4>1
    <3>2. CASE pc[k] \notin {"wait", "failed"}
      <4>1. k # e
        BY <2>1, <3>2
      <4>2. ASSUME NEW o \in listed[k], Apply(k, o)
            PROVE  made'[e] = made[e] /\ dest'[e] = dest[e]
        BY <4>1, <4>2 DEF Apply, IndInv, TypeOK
      <4>3. CASE SkipUnknown(k) \/ FinishDestination(k)
        BY <4>1, <4>3 DEF SkipUnknown, FinishDestination, NextDestination, IndInv, TypeOK
      <4>4. \/ \E o \in listed[k] : Apply(k, o)
            \/ SkipUnknown(k) \/ FinishDestination(k)
            \/ UNCHANGED <<made, dest>>
        BY <2>3 DEF HandleEvent, Dispatch, FilterFails, Filter, SkipUnreferenced,
              ApplyFails, ReferencesPanics, ProcessEnds, WaitFor, WaitForFails
      <4> QED BY <2>2, <4>2, <4>3, <4>4
    <3> QED BY <3>1, <3>2
  <2>4. UNCHANGED <<made, dest>> \/ \E k \in Events : HandleEvent(k)
    BY DEF Next, Cluster, InformerCatchesUp, RolloutBegins, RolloutEnds, WriteStatus, EditObject,
           UpdateDestinationsToWatch, DestinationsStored, Crash, ProcessEnds, handlerVars
  <2> QED BY <2>2, <2>3, <2>4
<1> QED BY <1>1, Invariance, PTL DEF Spec, StopsAtUnfinishedRollout
================================================================================
