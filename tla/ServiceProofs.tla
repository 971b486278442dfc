------------------------------ MODULE ServiceProofs ------------------------------
(***************************************************************************)
(* Reconciler implements ConfigService, for any number of Configs, specs,  *)
(* writes, failed calls and crashes.                                       *)
(***************************************************************************)
EXTENDS ReconcilerProofs, SequenceTheorems

\* The last state of a Config the informer has or will deliver.
Latest(c) == IF backlog[c] = <<>> THEN view[c] ELSE backlog[c][Len(backlog[c])]

\* The informer loses no write: it ends up with the present object.
UpToDate == \A c \in Configs : Latest(c) = object[c]

\* The removal of a Config comes after all states with which its listeners run or
\* can be started, so that Reconcile of a Config not found stops nothing.
RemovalSeen ==
    /\ \A c \in Configs : \A i \in DOMAIN backlog[c] :
          backlog[c][i] = Nothing => /\ ~Serving(view[c])
                                     /\ \A j \in 1..i : ~Serving(backlog[c][j])
    /\ \A c \in Configs : accepted[c] # Nothing => Nothing \notin Readable(c)
    /\ Serving(cfg) => Nothing \notin Readable(req)
    /\ pc = "teardown" => accepted[req] = Nothing

SeenInv == UpToDate /\ RemovalSeen

--------------------------------------------------------------------------------
(* The writes                                                              *)

\* What a write leaves of the call in progress: all of it, or nothing if the call
\* made the write and returned.
Continues(c) ==
    \/ req' = req /\ cfg' = cfg /\ (pc' = "teardown" => pc = "teardown")
    \/ req = c /\ req' = Nothing /\ cfg' = Nothing /\ pc' = "idle"

Stored(c, o) ==
    /\ Store(c, o)
    /\ o.deleting => object[c] # Nothing
    /\ view' = view /\ accepted' = accepted /\ queue' = queue
    /\ Continues(c)
    /\ req # c => pc' = pc

\* Users and other controllers write a Config.
LEMMA UserStores ==
    ASSUME IndInv, NEW c \in Configs, User(c) \/ ReleaseConfig(c)
    PROVE  \E o \in Object : Stored(c, o)
<1> USE DEF informerVars, callVars, memory
<1>0. object[c] \in Object \cup {Nothing}
  BY DEF IndInv, TypeOK
<1>1. ASSUME NEW o \in Object, UserWrites(c, o), o.deleting => object[c] # Nothing
      PROVE  Stored(c, o)
  BY <1>1 DEF UserWrites, Stored, Continues
<1>2. ASSUME NEW spec \in Specs, CreateConfig(c, spec) PROVE \E o \in Object : Stored(c, o)
  <2> DEFINE o == [spec |-> spec, finalizer |-> FALSE, held |-> FALSE,
                   deleting |-> FALSE, processed |-> FALSE, version |-> 0]
  <2>1. o \in Object /\ ~o.deleting
    BY DEF Object
  <2>2. UserWrites(c, o)
    BY <1>2 DEF CreateConfig
  <2> HIDE DEF o
  <2> QED BY <1>1, <2>1, <2>2
<1>3. ASSUME NEW spec \in Specs, EditConfig(c, spec) PROVE \E o \in Object : Stored(c, o)
  <2>1. [object[c] EXCEPT !.spec = spec] \in Object
    BY <1>0, <1>3 DEF EditConfig, Object
  <2> QED BY <1>1, <1>3, <2>1 DEF EditConfig
<1>4. CASE DeleteConfig(c)
  <2>1. [object[c] EXCEPT !.deleting = TRUE] \in Object
    BY <1>0, <1>4 DEF DeleteConfig, Object
  <2> QED BY <1>1, <1>4, <2>1 DEF DeleteConfig
<1>5. CASE HoldConfig(c)
  <2>1. [object[c] EXCEPT !.held = TRUE] \in Object
    BY <1>0, <1>5 DEF HoldConfig, Object
  <2> QED BY <1>1, <1>5, <2>1 DEF HoldConfig
<1>6. CASE ReleaseConfig(c)
  <2>1. [object[c] EXCEPT !.held = FALSE] \in Object
    BY <1>0, <1>6 DEF ReleaseConfig, Object
  <2>2. Stored(c, [object[c] EXCEPT !.held = FALSE])
    BY <1>6 DEF ReleaseConfig, Stored, Continues
  <2> QED BY <2>1, <2>2
<1> QED BY <1>2, <1>3, <1>4, <1>5, <1>6 DEF User

\* The accepted Updates of Reconcile write the Config it works on.
LEMMA UpdateStores ==
    ASSUME IndInv, RemoveFinalizer \/ AddFinalizer \/ Annotate
    PROVE  \E c \in Configs, o \in Object : Stored(c, o)
<1>1. /\ cfg # Nothing /\ Current
      /\ view' = view /\ accepted' = accepted /\ queue' = queue
      /\ \/ req' = Nothing /\ cfg' = Nothing /\ pc' = "idle"
         \/ req' = req /\ cfg' = cfg /\ pc' = "destinations"
  BY DEF IndInv, TypeOK, RemoveFinalizer, AddFinalizer, Annotate, Allowed, Return,
         informerVars, memory
<1>2. PICK c \in Configs : c = req
  BY <1>1 DEF IndInv, TypeOK
<1>3. cfg \in Object /\ object[c] # Nothing
  BY <1>1, <1>2, CurrentIsRead DEF Current
<1>4. Continues(c)
  BY <1>1, <1>2 DEF Continues
<1>5. CASE RemoveFinalizer
  <2>1. [cfg EXCEPT !.finalizer = FALSE] \in Object
    BY <1>3 DEF Object
  <2> QED BY <1>1, <1>2, <1>3, <1>4, <1>5, <2>1 DEF RemoveFinalizer, Stored
<1>6. CASE AddFinalizer
  <2>1. [cfg EXCEPT !.finalizer = TRUE] \in Object
    BY <1>3 DEF Object
  <2> QED BY <1>1, <1>2, <1>3, <1>4, <1>6, <2>1 DEF AddFinalizer, Stored
<1>7. CASE Annotate
  <2>1. [cfg EXCEPT !.processed = TRUE] \in Object
    BY <1>3 DEF Object
  <2> QED BY <1>1, <1>2, <1>3, <1>4, <1>7, <2>1 DEF Annotate, Stored
<1> QED BY <1>5, <1>6, <1>7

--------------------------------------------------------------------------------
(* The invariant about the informer                                        *)

\* A write is the last state the informer will deliver, and a removal is written only
\* when no listener runs and nothing that can be read would start one.
LEMMA StoreSeen ==
    ASSUME IndInv, IndInv', SeenInv, NEW c \in Configs, NEW o \in Object, Stored(c, o)
    PROVE  SeenInv'
<1> USE DEF Maybe
<1>1. Store(c, o) /\ view' = view /\ accepted' = accepted /\ Continues(c)
  BY DEF Stored
<1>2. /\ \A d \in Configs : d # c => object'[d] = object[d] /\ Readable(d)' = Readable(d)
      /\ Readable(c)' = Readable(c) \cup {object'[c]}
      /\ object' \in [Configs -> Maybe]
  BY <1>1, StoreFacts DEF IndInv
<1>3. backlog \in [Configs -> Seq(Maybe)] /\ object \in [Configs -> Maybe]
  BY DEF IndInv, TypeOK
<1>4. backlog'[c] = Append(backlog[c], object'[c])
      /\ \A d \in Configs : d # c => backlog'[d] = backlog[d]
  BY <1>1, <1>3 DEF Store
<1>5. /\ DOMAIN backlog'[c] = 1..(Len(backlog[c]) + 1)
      /\ \A i \in DOMAIN backlog[c] : backlog'[c][i] = backlog[c][i]
      /\ backlog'[c][Len(backlog[c]) + 1] = object'[c]
      /\ DOMAIN backlog[c] = 1..Len(backlog[c]) /\ Len(backlog[c]) \in Nat
  <2>1. backlog[c] \in Seq(Maybe) /\ object'[c] \in Maybe
    BY <1>2, <1>3
  <2> QED BY <1>4, <2>1, AppendFacts
<1>6. UpToDate'
  <2>1. ASSUME NEW d \in Configs, d # c PROVE Latest(d)' = object'[d]
    BY <1>1, <1>2, <1>4, <2>1 DEF Latest, SeenInv, UpToDate
  <2>2. Latest(c)' = object'[c]
    <3>1. backlog[c] \in Seq(Maybe) /\ object'[c] \in Maybe
      BY <1>2, <1>3
    <3>2. backlog'[c] # <<>> /\ Len(backlog'[c]) = Len(backlog[c]) + 1
      BY <1>4, <3>1
    <3> QED BY <1>5, <3>2 DEF Latest
  <2> QED BY <2>1, <2>2 DEF UpToDate
<1>7. object'[c] = Nothing =>
          /\ accepted[c] = Nothing
          /\ \A x \in Readable(c)' : ~Serving(x)
          /\ req' = c => ~Serving(cfg')
  <2>1. GuardedByFinalizer' /\ FinalizerKept'
    BY DEF IndInv
  <2> QED BY <1>1, <2>1 DEF GuardedByFinalizer, FinalizerKept
<1>8. ASSUME NEW d \in Configs, NEW i \in DOMAIN backlog'[d], backlog'[d][i] = Nothing
      PROVE  ~Serving(view'[d]) /\ \A j \in 1..i : ~Serving(backlog'[d][j])
  <2>1. CASE d # c
    BY <1>1, <1>4, <1>8, <2>1 DEF SeenInv, RemovalSeen
  <2>2. CASE d = c /\ i \in DOMAIN backlog[c]
    <3>1. \A j \in 1..i : j \in DOMAIN backlog[c]
      BY <1>5, <2>2
    <3> QED BY <1>1, <1>5, <1>8, <2>2, <3>1 DEF SeenInv, RemovalSeen
  <2>3. CASE d = c /\ i = Len(backlog[c]) + 1
    <3>1. \A x \in Readable(c)' : ~Serving(x)
      BY <1>5, <1>7, <1>8, <2>3
    <3>2. view'[c] \in Readable(c)' /\ \A j \in DOMAIN backlog'[c] : backlog'[c][j] \in Readable(c)'
      BY DEF Readable
    <3>3. \A j \in 1..i : j \in DOMAIN backlog'[c]
      BY <1>5, <2>3
    <3> QED BY <2>3, <3>1, <3>2, <3>3
  <2> QED BY <1>5, <2>1, <2>2, <2>3
<1>9. ASSUME NEW d \in Configs, accepted'[d] # Nothing PROVE Nothing \notin Readable(d)'
  <2>1. Nothing \notin Readable(d)
    BY <1>1, <1>9 DEF SeenInv, RemovalSeen
  <2>2. d = c => object'[c] # Nothing
    BY <1>1, <1>7, <1>9
  <2> QED BY <1>2, <2>1, <2>2
<1>10. ASSUME Serving(cfg') PROVE Nothing \notin Readable(req)'
  <2>1. req' = req /\ cfg' = cfg
    BY <1>1, <1>10 DEF Continues, Serving
  <2>2. PICK d \in Configs : d = req
    BY <1>10, <2>1 DEF IndInv, TypeOK, Serving
  <2>3. Nothing \notin Readable(d)
    BY <1>10, <2>1, <2>2 DEF SeenInv, RemovalSeen
  <2>4. d = c => object'[c] # Nothing
    BY <1>7, <1>10, <2>1, <2>2
  <2>5. Nothing \notin Readable(d)'
    BY <1>2, <2>3, <2>4
  <2> QED BY <2>1, <2>2, <2>5
<1>11. pc' = "teardown" => accepted'[req'] = Nothing
  BY <1>1 DEF Continues, SeenInv, RemovalSeen
<1>12. RemovalSeen'
  BY <1>8, <1>9, <1>10, <1>11 DEF RemovalSeen
<1> QED BY <1>6, <1>12 DEF SeenInv

\* A delivery takes the oldest state away and none of the others.
LEMMA DeliverFacts ==
    ASSUME IndInv, NEW c \in Configs, Deliver(c)
    PROVE  /\ UNCHANGED <<object, revision, pc, req, cfg, accepted>>
           /\ \A d \in Configs : d # c => view'[d] = view[d] /\ backlog'[d] = backlog[d]
           /\ 1 \in DOMAIN backlog[c] /\ view'[c] = backlog[c][1]
           /\ \A i \in DOMAIN backlog'[c] :
                 i \in Nat /\ i + 1 \in DOMAIN backlog[c] /\ backlog'[c][i] = backlog[c][i + 1]
           /\ \A d \in Configs : Readable(d)' \subseteq Readable(d)
           /\ Latest(c)' = Latest(c)
<1> USE DEF Maybe
<1>1. /\ backlog[c] # <<>>
      /\ view' = [view EXCEPT ![c] = Head(backlog[c])]
      /\ backlog' = [backlog EXCEPT ![c] = Tail(backlog[c])]
      /\ UNCHANGED <<object, revision, pc, req, cfg, accepted>>
  BY DEF Deliver, callVars, memory
<1>2. backlog \in [Configs -> Seq(Maybe)] /\ view \in [Configs -> Maybe]
  BY DEF IndInv, TypeOK
<1>3. /\ 1 \in DOMAIN backlog[c] /\ Head(backlog[c]) = backlog[c][1]
      /\ \A i \in DOMAIN Tail(backlog[c]) :
            i \in Nat /\ i + 1 \in DOMAIN backlog[c] /\ Tail(backlog[c])[i] = backlog[c][i + 1]
  BY <1>1, <1>2, TailFacts
<1>4. /\ view'[c] = backlog[c][1] /\ backlog'[c] = Tail(backlog[c])
      /\ \A d \in Configs : d # c => view'[d] = view[d] /\ backlog'[d] = backlog[d]
  BY <1>1, <1>2, <1>3
<1>5. ASSUME NEW d \in Configs, NEW x \in Readable(d)' PROVE x \in Readable(d)
  <2>1. x = view'[d] \/ \E i \in DOMAIN backlog'[d] : x = backlog'[d][i]
    BY DEF Readable
  <2>2. CASE d # c
    BY <1>4, <2>1, <2>2 DEF Readable
  <2>3. CASE d = c /\ x = view'[c]
    BY <1>3, <1>4, <2>3 DEF Readable
  <2>4. ASSUME d = c, NEW i \in DOMAIN backlog'[c], x = backlog'[c][i] PROVE x \in Readable(d)
    BY <1>3, <1>4, <2>4 DEF Readable
  <2> QED BY <2>1, <2>2, <2>3, <2>4
<1>6. Latest(c)' = Latest(c)
  <2>1. PICK b \in Seq(Maybe) : b = backlog[c]
    BY <1>2
  <2>2. b # <<>> /\ Len(b) \in Nat /\ Len(b) # 0 /\ Len(Tail(b)) = Len(b) - 1
    BY <1>1, <2>1
  <2>3. CASE Len(b) = 1
    <3>0. Tail(b) \in Seq(Maybe) /\ Len(Tail(b)) = 0
      BY <1>1, <2>1, <2>2, <2>3, TailFacts
    <3>1. Tail(b) = <<>>
      BY <3>0, EmptySeq
    <3> QED BY <1>4, <2>1, <2>2, <2>3, <3>1 DEF Latest
  <2>4. CASE Len(b) # 1
    <3>1. Tail(b) # <<>> /\ Len(Tail(b)) \in DOMAIN Tail(b)
      BY <2>2, <2>4
    <3>2. Tail(b)[Len(Tail(b))] = b[Len(b)]
      BY <1>3, <2>1, <2>2, <3>1
    <3> QED BY <1>4, <2>1, <2>2, <3>1, <3>2 DEF Latest
  <2> QED BY <2>3, <2>4
<1> QED BY <1>1, <1>3, <1>4, <1>5, <1>6

\* A delivery keeps the order of removals and of what comes before them.
LEMMA DeliverSeen ==
    ASSUME IndInv, SeenInv, NEW c \in Configs, Deliver(c)
    PROVE  SeenInv'
<1>1. /\ UNCHANGED <<object, revision, pc, req, cfg, accepted>>
      /\ \A d \in Configs : d # c => view'[d] = view[d] /\ backlog'[d] = backlog[d]
      /\ 1 \in DOMAIN backlog[c] /\ view'[c] = backlog[c][1]
      /\ \A i \in DOMAIN backlog'[c] :
            i \in Nat /\ i + 1 \in DOMAIN backlog[c] /\ backlog'[c][i] = backlog[c][i + 1]
      /\ \A d \in Configs : Readable(d)' \subseteq Readable(d)
      /\ Latest(c)' = Latest(c)
  BY DeliverFacts
<1>2. UpToDate'
  <2>1. \A d \in Configs : d # c => Latest(d)' = Latest(d)
    BY <1>1 DEF Latest
  <2>2. \A d \in Configs : Latest(d)' = object'[d]
    BY <1>1, <2>1 DEF SeenInv, UpToDate
  <2> QED BY <2>2 DEF UpToDate
<1>3. ASSUME NEW d \in Configs, NEW i \in DOMAIN backlog'[d], backlog'[d][i] = Nothing
      PROVE  ~Serving(view'[d]) /\ \A j \in 1..i : ~Serving(backlog'[d][j])
  <2>1. CASE d # c
    BY <1>1, <1>3, <2>1 DEF SeenInv, RemovalSeen
  <2>2. CASE d = c
    <3>1. i \in Nat /\ i + 1 \in DOMAIN backlog[c] /\ backlog[c][i + 1] = Nothing
      BY <1>1, <1>3, <2>2
    <3>2. \A j \in 1..(i + 1) : ~Serving(backlog[c][j])
      BY <3>1 DEF SeenInv, RemovalSeen
    <3>3. ~Serving(view'[c])
      <4>1. 1 \in 1..(i + 1)
        BY <3>1
      <4> QED BY <1>1, <3>2, <4>1
    <3>4. ASSUME NEW j \in 1..i PROVE ~Serving(backlog'[c][j])
      <4>1. j \in DOMAIN backlog'[c]
        <5>1. DOMAIN backlog'[c] = 1..Len(backlog'[c]) /\ Len(backlog'[c]) \in Nat
          <6>1. backlog'[c] \in Seq(Object \cup {Nothing})
            BY DeliverPreserves DEF IndInv, TypeOK
          <6> QED BY <6>1
        <5> QED BY <2>2, <3>1, <5>1
      <4>2. backlog'[c][j] = backlog[c][j + 1] /\ j + 1 \in 1..(i + 1)
        BY <1>1, <3>1, <4>1
      <4> QED BY <3>2, <4>2
    <3> QED BY <2>2, <3>3, <3>4
  <2> QED BY <2>1, <2>2
<1>4. Serving(cfg) => req \in Configs
  BY DEF IndInv, TypeOK, Serving
<1>5. \A d \in Configs : accepted'[d] # Nothing => Nothing \notin Readable(d)'
  BY <1>1 DEF SeenInv, RemovalSeen
<1>6. Serving(cfg') => Nothing \notin Readable(req)'
  BY <1>1, <1>4 DEF SeenInv, RemovalSeen
<1>7. pc' = "teardown" => accepted'[req'] = Nothing
  BY <1>1 DEF SeenInv, RemovalSeen
<1>8. RemovalSeen'
  BY <1>3, <1>5, <1>6, <1>7 DEF RemovalSeen
<1> QED BY <1>2, <1>8 DEF SeenInv

\* The steps of Reconcile other than Get and the Updates, and the one that takes a name.
Calls ==
    \/ \E c \in Configs : Dequeue(c)
    \/ Teardown \/ Cleanup \/ UpdateRefused \/ CallFails
    \/ UpdateDestinationsToWatch \/ ManageListeners

\* They read and write no Config, and start listeners only for one that serves.
LEMMA CallFacts ==
    ASSUME IndInv, Calls
    PROVE  /\ UNCHANGED <<object, backlog, revision, view>>
           /\ \A c \in Configs : Readable(c)' = Readable(c)
           /\ pc' # "teardown"
           /\ cfg' = Nothing \/ (cfg' = cfg /\ req' = req)
           /\ \A c \in Configs : accepted'[c] # Nothing =>
                 accepted'[c] = accepted[c] \/ (c = req /\ Serving(cfg))
<1> USE DEF informerVars, apiVars, memory, bounds, Return, Requeue
<1>1. /\ UNCHANGED <<object, backlog, revision, view>>
      /\ pc' # "teardown"
      /\ cfg' = Nothing \/ (cfg' = cfg /\ req' = req)
  BY DEF Calls, Dequeue, Teardown, Cleanup, UpdateRefused, CallFails,
         UpdateDestinationsToWatch, ManageListeners, IndInv, TypeOK
<1>2. ASSUME NEW c \in Configs, accepted'[c] # Nothing
      PROVE  accepted'[c] = accepted[c] \/ (c = req /\ Serving(cfg))
  <2>0. accepted \in [Configs -> {s.sources : s \in Specs} \cup {Nothing}]
    BY DEF IndInv, TypeOK
  <2>1. CASE accepted' = accepted
    BY <2>1
  <2>2. CASE accepted' = [accepted EXCEPT ![req] = Nothing]
    BY <1>2, <2>0, <2>2
  <2>3. CASE ManageListeners
    <3>1. Serving(cfg)
      BY <2>3 DEF ManageListeners, IndInv, CallState
    <3> QED BY <2>0, <2>3, <3>1 DEF ManageListeners
  <2> QED BY <2>1, <2>2, <2>3 DEF Calls, Dequeue, Teardown, Cleanup, UpdateRefused,
                                  CallFails, UpdateDestinationsToWatch
<1>3. \A c \in Configs : Readable(c)' = Readable(c)
  BY <1>1 DEF Readable
<1> QED BY <1>1, <1>2, <1>3

\* Every step preserves the invariant about the informer.
LEMMA NextSeen ==
    ASSUME IndInv, IndInv', SeenInv, [Next]_vars
    PROVE  SeenInv'
<1>1. CASE UNCHANGED vars
  BY <1>1 DEF vars, SeenInv, UpToDate, Latest, RemovalSeen, Readable, Serving
<1>2. ASSUME NEW c \in Configs, User(c) \/ ReleaseConfig(c) PROVE SeenInv'
  BY <1>2, UserStores, StoreSeen
<1>3. CASE RemoveFinalizer \/ AddFinalizer \/ Annotate
  BY <1>3, UpdateStores, StoreSeen
<1>4. ASSUME NEW c \in Configs, Deliver(c) PROVE SeenInv'
  BY <1>4, DeliverSeen
<1>5. CASE Get
  <2>1. /\ cfg' = view[req] /\ req' = req /\ pc = "get"
        /\ UNCHANGED <<object, backlog, view, accepted>>
    BY <1>5 DEF Get, informerVars, apiVars, memory
  <2>2. PICK c \in Configs : c = req
    BY <2>1 DEF IndInv, TypeOK
  <2>3. UpToDate' /\ \A d \in Configs : Readable(d)' = Readable(d)
    BY <2>1 DEF SeenInv, UpToDate, Latest, Readable
  <2>4. pc' = "teardown" => view[c] = Nothing
    BY <2>1, <2>2 DEF IndInv, TypeOK
  <2>5. pc' = "teardown" => accepted'[req'] = Nothing
    BY <2>1, <2>2, <2>4 DEF SeenInv, RemovalSeen, Readable
  <2>6. Serving(view[c]) => Nothing \notin Readable(c)
    BY DEF SeenInv, RemovalSeen, Readable, Serving
  <2>7. Serving(cfg') => Nothing \notin Readable(req)'
    BY <2>1, <2>2, <2>3, <2>6
  <2>8. RemovalSeen'
    BY <2>1, <2>3, <2>5, <2>7 DEF SeenInv, RemovalSeen
  <2> QED BY <2>3, <2>8 DEF SeenInv
<1>6. CASE Calls
  <2>1. /\ UNCHANGED <<object, backlog, revision, view>>
        /\ \A c \in Configs : Readable(c)' = Readable(c)
        /\ pc' # "teardown"
        /\ cfg' = Nothing \/ (cfg' = cfg /\ req' = req)
        /\ \A c \in Configs : accepted'[c] # Nothing =>
              accepted'[c] = accepted[c] \/ (c = req /\ Serving(cfg))
    BY <1>6, CallFacts
  <2>2. UpToDate'
    BY <2>1 DEF SeenInv, UpToDate, Latest
  <2>3. \A c \in Configs : accepted'[c] # Nothing => Nothing \notin Readable(c)'
    BY <2>1 DEF SeenInv, RemovalSeen
  <2>4. Serving(cfg) => req \in Configs
    BY DEF IndInv, TypeOK, Serving
  <2>5. Serving(cfg') => Nothing \notin Readable(req)'
    BY <2>1, <2>4 DEF SeenInv, RemovalSeen, Serving
  <2>6. RemovalSeen'
    BY <2>1, <2>3, <2>5 DEF SeenInv, RemovalSeen
  <2> QED BY <2>2, <2>6 DEF SeenInv
<1>7. CASE Restart
  <2>1. /\ pc' = "idle" /\ cfg' = Nothing
        /\ \A c \in Configs : /\ backlog'[c] = <<>> /\ view'[c] = object'[c]
                              /\ accepted'[c] = Nothing
    BY <1>7 DEF Restart, Return
  <2>2. \A c \in Configs : DOMAIN backlog'[c] = {}
    BY <2>1
  <2>3. UpToDate'
    BY <2>1 DEF UpToDate, Latest
  <2>4. RemovalSeen'
    BY <2>1, <2>2 DEF RemovalSeen, Serving
  <2> QED BY <2>3, <2>4 DEF SeenInv
<1> QED BY <1>1, <1>2, <1>3, <1>4, <1>5, <1>6, <1>7 DEF Next, Step, Calls

--------------------------------------------------------------------------------
(* The refinement, step by step                                            *)

Known(c) == {StateOf(o) : o \in Pending(c)}

\* What Reconcile may act upon is an object with a version not newer than the last
\* one; with the last version it is the present object.
LEMMA PendingFacts ==
    ASSUME IndInv, NEW c \in Configs, NEW o \in Pending(c)
    PROVE  /\ o \in Object /\ o # Nothing
           /\ o.version = revision[c] => o = object[c]
<1>1. /\ view \in [Configs -> Object \cup {Nothing}] /\ cfg \in Object \cup {Nothing}
      /\ backlog \in [Configs -> Seq(Object \cup {Nothing})]
  BY DEF IndInv, TypeOK
<1>2. o # Nothing
  BY DEF Pending
<1>3. CASE o \in Readable(c)
  <2>1. o \in Object
    BY <1>1, <1>2, <1>3 DEF Readable
  <2> QED BY <1>2, <1>3, <2>1 DEF IndInv, VersionOrder, Dated
<1>4. CASE req = c /\ o = cfg
  BY <1>1, <1>2, <1>4 DEF IndInv, ReadOrder, Dated
<1> QED BY <1>3, <1>4 DEF Pending

PresentPending == \A c \in Configs : object[c] # Nothing => object[c] \in Pending(c)

\* The present object is among what Reconcile may act upon.
LEMMA ObjectPending == IndInv /\ SeenInv => PresentPending
<1> SUFFICES ASSUME IndInv, SeenInv, NEW c \in Configs, object[c] # Nothing
             PROVE  object[c] \in Pending(c)
  BY DEF PresentPending
<1>1. backlog[c] \in Seq(Object \cup {Nothing})
  BY DEF IndInv, TypeOK
<1>2. backlog[c] # <<>> => Len(backlog[c]) \in DOMAIN backlog[c]
  BY <1>1
<1>3. Latest(c) \in Readable(c)
  BY <1>2 DEF Latest, Readable
<1> QED BY <1>3 DEF SeenInv, UpToDate, Pending

\* Steps that only reduce what Reconcile may act upon keep the newest state of it.
LEMMA Forgets ==
    ASSUME IndInv, IndInv', SeenInv', NEW c \in Configs,
           UNCHANGED <<object, revision>>,
           \A d \in Configs : d # c => Pending(d)' = Pending(d),
           Pending(c)' \subseteq Pending(c)
    PROVE  Service!Forget(c)
<1>0. PresentPending'
  BY ObjectPending, PTL
<1>1. Known(c)' \in SUBSET Known(c)
  BY DEF Known, StateOf
<1>2. ASSUME NEW k \in Known(c), k.version = revision[c] PROVE k \in Known(c)'
  <2>1. PICK o \in Pending(c) : k = StateOf(o)
    BY DEF Known
  <2>2. o = object[c] /\ o # Nothing
    BY <1>2, <2>1, PendingFacts DEF StateOf
  <2>3. object'[c] # Nothing /\ object'[c] = o
    BY <2>2
  <2>4. o \in Pending(c)'
    BY <1>0, <2>3 DEF PresentPending
  <2> QED BY <2>1, <2>4 DEF Known, StateOf
<1>3. \A d \in Configs : d # c => Known(d)' = Known(d)
  BY DEF Known, StateOf
<1>4. PICK kept \in SUBSET Known(c) : kept = Known(c)'
  BY <1>1
<1>5. [d \in Configs |-> Known(d)'] = [[d \in Configs |-> Known(d)] EXCEPT ![c] = kept]
  BY <1>3, <1>4
<1>6. Service!Newest(c) \subseteq kept
  BY <1>2, <1>4 DEF Service!Newest, Known
<1> QED BY <1>5, <1>6 DEF Service!Forget, Known

\* Steps that change nothing the service speaks of.
LEMMA Stutters ==
    ASSUME UNCHANGED <<object, revision, accepted>>,
           \A d \in Configs : Pending(d)' = Pending(d)
    PROVE  UNCHANGED Service!vars
<1>1. [d \in Configs |-> Known(d)'] = [d \in Configs |-> Known(d)]
  BY DEF Known, StateOf
<1> QED BY <1>1 DEF Service!vars, Known

\* The steps of Reconcile that reduce what it may act upon, and leave listeners alone.
LEMMA Reads ==
    ASSUME IndInv, IndInv', SeenInv', NEW c \in Configs,
           UNCHANGED <<object, revision, accepted>>,
           \A d \in Configs : d # c => Pending(d)' = Pending(d),
           Pending(c)' \subseteq Pending(c)
    PROVE  Service!Read(c)
  BY Forgets DEF Service!Read

SpecOfObject(c) == IF object[c] = Nothing THEN Nothing ELSE object[c].spec

\* A write of a Config is a Write of the service, or a Remove if the Config is then gone.
LEMMA StoreRefines ==
    ASSUME IndInv, IndInv', NEW c \in Configs, NEW o \in Object, Stored(c, o)
    PROVE  Service!Next
<1> USE DEF Maybe
<1>1. /\ Store(c, o) /\ view' = view /\ accepted' = accepted /\ Continues(c)
      /\ o.deleting => object[c] # Nothing
  BY DEF Stored
<1>2. /\ \A d \in Configs : d # c => object'[d] = object[d] /\ revision'[d] = revision[d]
                                     /\ Readable(d)' = Readable(d)
      /\ Readable(c)' = Readable(c) \cup {object'[c]}
      /\ object'[c] = IF o.deleting /\ ~o.finalizer /\ ~o.held THEN Nothing
                      ELSE [o EXCEPT !.version = revision[c] + 1]
      /\ revision'[c] = revision[c] + 1
      /\ revision' \in [Configs -> Nat] /\ object' \in [Configs -> Maybe]
  BY <1>1, StoreFacts DEF IndInv
<1>3. revision \in [Configs -> Nat] /\ object \in [Configs -> Maybe]
  BY DEF IndInv, TypeOK
<1>4. revision' = [revision EXCEPT ![c] = @ + 1]
  BY <1>2, <1>3
<1>5. \A d \in Configs : d # c => Pending(d)' = Pending(d)
  BY <1>1, <1>2, NothingAssumption DEF Pending, Continues
<1>6. \A d \in Configs : d # c => Known(d)' = Known(d) /\ SpecOfObject(d)' = SpecOfObject(d)
  BY <1>2, <1>5 DEF Known, StateOf, SpecOfObject
<1>7. Pending(c)' \subseteq Pending(c) \cup {object'[c]}
  <2>1. (IF req' = c THEN {cfg'} ELSE {}) \subseteq (IF req = c THEN {cfg} ELSE {})
    BY <1>1, NothingAssumption DEF Continues
  <2> QED BY <1>2, <2>1 DEF Pending
<1>8. CASE o.deleting /\ ~o.finalizer /\ ~o.held
  <2>1. object'[c] = Nothing /\ accepted[c] = Nothing
    BY <1>1, <1>2, <1>8 DEF IndInv, GuardedByFinalizer
  <2>2. Pending(c)' \subseteq Pending(c)
    BY <1>7, <2>1 DEF Pending
  <2>3. PICK kept \in SUBSET Known(c) : kept = Known(c)'
    BY <2>2 DEF Known, StateOf
  <2>4. [d \in Configs |-> Known(d)'] = [[d \in Configs |-> Known(d)] EXCEPT ![c] = kept]
    BY <1>6, <2>3
  <2>5. SpecOfObject(c) # Nothing
    BY <1>1, <1>3, <1>8, NothingAssumption DEF SpecOfObject, Object
  <2>6. SpecOfObject(c)' = Nothing
    BY <2>1 DEF SpecOfObject
  <2>7. [d \in Configs |-> SpecOfObject(d)']
            = [[d \in Configs |-> SpecOfObject(d)] EXCEPT ![c] = Nothing]
    BY <1>6, <2>6
  <2>8. Service!Remove(c)
    <3>1. [d \in Configs |-> SpecOfObject(d)][c] # Nothing
      BY <2>5
    <3> QED BY <1>1, <1>4, <2>1, <2>4, <2>7, <3>1 DEF Service!Remove, Known, SpecOfObject
  <2> QED BY <2>8 DEF Service!Next
<1>9. CASE ~(o.deleting /\ ~o.finalizer /\ ~o.held)
  <2> DEFINE new == [version |-> revision[c] + 1, spec |-> o.spec, deleting |-> o.deleting]
             kept == {StateOf(x) : x \in Pending(c)' \ {object'[c]}}
  <2>1. /\ object'[c] # Nothing /\ object'[c].spec = o.spec
        /\ StateOf(object'[c]) = new
    <3>1. revision[c] + 1 \in Nat
      BY <1>3
    <3>2. object'[c] = [o EXCEPT !.version = revision[c] + 1]
      BY <1>2, <1>9
    <3>3. /\ object'[c] \in Object /\ object'[c].spec = o.spec
          /\ object'[c].version = revision[c] + 1 /\ object'[c].deleting = o.deleting
      BY <3>1, <3>2 DEF Object
    <3> QED BY <3>3, NothingAssumption DEF StateOf
  <2>2. object'[c] \in Pending(c)'
    BY <1>2, <2>1 DEF Pending
  <2>3. kept \in SUBSET Known(c)
    BY <1>7 DEF Known
  <2>4. Known(c)' = kept \cup {new}
    <3>1. Known(c)' = {StateOf(x) : x \in Pending(c)'}
      BY DEF Known, StateOf
    <3> QED BY <2>1, <2>2, <3>1
  <2> HIDE DEF kept, new
  <2>5. [d \in Configs |-> Known(d)'] = [[d \in Configs |-> Known(d)] EXCEPT ![c] = kept \cup {new}]
    BY <1>6, <2>4
  <2>6. [d \in Configs |-> SpecOfObject(d)']
            = [[d \in Configs |-> SpecOfObject(d)] EXCEPT ![c] = o.spec]
    <3>1. SpecOfObject(c)' = o.spec
      BY <2>1 DEF SpecOfObject
    <3> QED BY <1>6, <3>1
  <2>7. Service!Write(c, o.spec, o.deleting)
    BY <1>1, <1>4, <2>3, <2>5, <2>6 DEF Service!Write, Known, SpecOfObject, new
  <2>8. o.spec \in Specs /\ o.deleting \in BOOLEAN
    BY DEF Object
  <2> QED BY <2>7, <2>8 DEF Service!Next
<1> QED BY <1>8, <1>9

\* A delivery makes the informer forget an older state.
LEMMA DeliverRefines ==
    ASSUME IndInv, IndInv', SeenInv', NEW c \in Configs, Deliver(c)
    PROVE  Service!Read(c)
<1>1. /\ UNCHANGED <<object, revision, req, cfg, accepted>>
      /\ \A d \in Configs : d # c => view'[d] = view[d] /\ backlog'[d] = backlog[d]
      /\ \A d \in Configs : Readable(d)' \subseteq Readable(d)
  BY DeliverFacts
<1>2. \A d \in Configs : d # c => Readable(d)' = Readable(d)
  BY <1>1 DEF Readable
<1>3. \A d \in Configs : d # c => Pending(d)' = Pending(d)
  BY <1>1, <1>2 DEF Pending
<1>4. Pending(c)' \subseteq Pending(c)
  BY <1>1 DEF Pending
<1> QED BY <1>1, <1>3, <1>4, Reads

\* What a call of Reconcile has read is forgotten when it returns.
LEMMA CallPending ==
    ASSUME IndInv, NEW c \in Configs, c = req,
           \A d \in Configs : Readable(d)' = Readable(d),
           (req' = req /\ cfg' = cfg) \/ (req' = Nothing /\ cfg' = Nothing)
    PROVE  /\ \A d \in Configs : d # c => Pending(d)' = Pending(d)
           /\ Pending(c)' \subseteq Pending(c)
           /\ cfg = Nothing \/ cfg' = cfg => Pending(c)' = Pending(c)
  BY NothingAssumption DEF Pending

\* The Config that Reconcile works on is the oldest it may still act upon.
LEMMA ReadIsOldest ==
    ASSUME IndInv, NEW c \in Configs, c = req, cfg # Nothing
    PROVE  StateOf(cfg) \in Known(c) /\ Service!Oldest(c, StateOf(cfg))
<1>1. cfg \in Pending(c)
  BY DEF Pending
<1>2. cfg \in Object
  BY DEF IndInv, TypeOK
<1>3. ASSUME NEW x \in Pending(c) PROVE cfg.version <= x.version
  <2>1. x \in Object /\ x # Nothing
    BY PendingFacts
  <2>2. CASE x = cfg
    BY <1>2, <2>2 DEF Object
  <2>3. CASE x \in Readable(c)
    BY <2>1, <2>3 DEF IndInv, ReadOrder, Older
  <2> QED BY <2>2, <2>3 DEF Pending
<1>4. \A k \in Known(c) : StateOf(cfg).version <= k.version
  BY <1>3 DEF Known, StateOf
<1>5. StateOf(cfg) \in Known(c)
  BY <1>1 DEF Known
<1> QED BY <1>4, <1>5 DEF Service!Oldest, Known

\* Reconcile starts listeners for the oldest state it may act upon, which is not
\* being deleted, and stops them for one that is.
LEMMA WorkRefines ==
    ASSUME IndInv, IndInv', SeenInv, SeenInv',
           Teardown \/ Cleanup \/ UpdateRefused \/ CallFails
             \/ UpdateDestinationsToWatch \/ ManageListeners
    PROVE  Service!Next \/ UNCHANGED Service!vars
<1> USE DEF informerVars, apiVars, Return, Requeue
<1>1. PICK c \in Configs : c = req
  BY DEF IndInv, TypeOK, Teardown, Cleanup, UpdateRefused, CallFails,
         UpdateDestinationsToWatch, ManageListeners
<1>2. /\ UNCHANGED <<object, revision>> /\ \A d \in Configs : Readable(d)' = Readable(d)
      /\ (req' = req /\ cfg' = cfg) \/ (req' = Nothing /\ cfg' = Nothing)
  BY DEF Teardown, Cleanup, UpdateRefused, CallFails,
         UpdateDestinationsToWatch, ManageListeners, Readable
<1>3. /\ \A d \in Configs : d # c => Pending(d)' = Pending(d)
      /\ Pending(c)' \subseteq Pending(c)
      /\ cfg = Nothing \/ cfg' = cfg => Pending(c)' = Pending(c)
  BY <1>1, <1>2, CallPending
<1>4. Service!Forget(c)
  BY <1>2, <1>3, Forgets
<1>5. accepted \in [Configs -> {s.sources : s \in Specs} \cup {Nothing}]
  BY DEF IndInv, TypeOK
<1>6. CASE Teardown
  <2>1. accepted[c] = Nothing /\ cfg = Nothing
    BY <1>1, <1>6 DEF Teardown, SeenInv, RemovalSeen, IndInv, TypeOK
  <2>2. accepted' = accepted
    BY <1>1, <1>5, <1>6, <2>1 DEF Teardown
  <2>3. \A d \in Configs : Pending(d)' = Pending(d)
    BY <1>3, <2>1
  <2> QED BY <1>2, <2>2, <2>3, Stutters
<1>7. CASE UpdateRefused \/ CallFails
  <2>1. accepted' = accepted
    BY <1>7 DEF UpdateRefused, CallFails, memory
  <2>2. Service!Read(c)
    BY <1>2, <1>3, <2>1, Reads
  <2> QED BY <2>2 DEF Service!Next
<1>8. CASE UpdateDestinationsToWatch
  <2>1. accepted' = accepted /\ cfg' = cfg
    BY <1>8 DEF UpdateDestinationsToWatch
  <2>2. \A d \in Configs : Pending(d)' = Pending(d)
    BY <1>3, <2>1
  <2> QED BY <1>2, <2>1, <2>2, Stutters
<1>9. CASE Cleanup
  <2>1. cfg # Nothing /\ cfg.deleting
    BY <1>9 DEF Cleanup, IndInv, TypeOK, CallState
  <2>2. StateOf(cfg) \in Known(c) /\ Service!Oldest(c, StateOf(cfg)) /\ StateOf(cfg).deleting
    BY <1>1, <2>1, ReadIsOldest DEF StateOf
  <2>3. accepted' = [accepted EXCEPT ![c] = Nothing]
    BY <1>1, <1>9 DEF Cleanup
  <2>4. \E k \in [d \in Configs |-> Known(d)][c] : Service!Oldest(c, k) /\ k.deleting
    BY <2>2
  <2>5. Service!Quiet(c)
    BY <1>2, <1>4, <2>3, <2>4 DEF Service!Quiet, Known
  <2> QED BY <2>5 DEF Service!Next
<1>10. CASE ManageListeners
  <2>1. cfg # Nothing /\ ~cfg.deleting /\ object[c] # Nothing
    BY <1>1, <1>10 DEF ManageListeners, IndInv, TypeOK, CallState, FinalizerKept, Serving
  <2>2. CASE cfg.spec.sources \in ValidSources
    <3>1. /\ StateOf(cfg) \in Known(c) /\ Service!Oldest(c, StateOf(cfg))
          /\ ~StateOf(cfg).deleting /\ StateOf(cfg).spec.sources \in ValidSources
      BY <1>1, <2>1, <2>2, ReadIsOldest DEF StateOf
    <3>2. accepted' = [accepted EXCEPT ![c] = StateOf(cfg).spec.sources]
      BY <1>1, <1>10, <2>2 DEF ManageListeners, StateOf
    <3>3. \E k \in [d \in Configs |-> Known(d)][c] :
              /\ Service!Oldest(c, k) /\ ~k.deleting /\ k.spec.sources \in ValidSources
              /\ accepted' = [accepted EXCEPT ![c] = k.spec.sources]
      BY <3>1, <3>2
    <3>4. [d \in Configs |-> SpecOfObject(d)][c] # Nothing
      <4>1. object[c] \in Object
        BY <2>1 DEF IndInv, TypeOK
      <4> QED BY <2>1, <4>1, NothingAssumption DEF SpecOfObject, Object
    <3>5. Service!Listen(c)
      BY <1>2, <1>4, <3>3, <3>4 DEF Service!Listen, Known, SpecOfObject
    <3> QED BY <3>5 DEF Service!Next
  <2>3. CASE cfg.spec.sources \notin ValidSources
    <3>1. accepted' = accepted
      BY <1>10, <2>3 DEF ManageListeners
    <3>2. Service!Read(c)
      BY <1>2, <1>3, <3>1, Reads
    <3> QED BY <3>2 DEF Service!Next
  <2> QED BY <2>2, <2>3
<1> QED BY <1>6, <1>7, <1>8, <1>9, <1>10

\* After a crash the newest state is all that is left to act upon.
LEMMA RestartRefines ==
    ASSUME IndInv, SeenInv, Restart
    PROVE  Service!Restart
<1>1. /\ UNCHANGED <<object, revision>> /\ req' = Nothing
      /\ accepted' = [c \in Configs |-> Nothing]
      /\ \A c \in Configs : backlog'[c] = <<>> /\ view'[c] = object[c]
  BY DEF Restart, Return
<1>2. ASSUME NEW c \in Configs PROVE Known(c)' = {k \in Known(c) : k.version = revision[c]}
  <2>1. DOMAIN backlog'[c] = {}
    BY <1>1
  <2>2. Pending(c)' = {object[c]} \ {Nothing}
    BY <1>1, <2>1, NothingAssumption DEF Pending, Readable
  <2>3. Known(c)' = {StateOf(x) : x \in {object[c]} \ {Nothing}}
    BY <2>2 DEF Known, StateOf
  <2>4. ASSUME object[c] # Nothing
        PROVE  object[c] \in Pending(c) /\ object[c].version = revision[c]
    BY <2>4, ObjectPending DEF PresentPending, IndInv, VersionOrder
  <2>5. \A x \in Pending(c) : x # Nothing /\ (x.version = revision[c] => x = object[c])
    BY PendingFacts
  <2> QED BY <2>3, <2>4, <2>5 DEF Known, StateOf
<1>3. [c \in Configs |-> Known(c)'] = [c \in Configs |-> Service!Newest(c)]
  <2>1. \A c \in Configs : Known(c)' = Service!Newest(c)
    BY <1>2 DEF Service!Newest, Known
  <2> QED BY <2>1
<1> QED BY <1>1, <1>3 DEF Service!Restart, Known

\* Every step of the controller is a step of the service or changes nothing of it.
LEMMA NextRefines ==
    ASSUME IndInv, IndInv', SeenInv, SeenInv', [Next]_vars
    PROVE  [Service!Next]_(Service!vars)
<1>1. CASE UNCHANGED vars
  <2>1. UNCHANGED <<object, revision, accepted>> /\ \A d \in Configs : Pending(d)' = Pending(d)
    BY <1>1 DEF vars, Pending, Readable
  <2> QED BY <2>1, Stutters
<1>2. ASSUME NEW c \in Configs, User(c) \/ ReleaseConfig(c) PROVE Service!Next
  BY <1>2, UserStores, StoreRefines
<1>3. CASE RemoveFinalizer \/ AddFinalizer \/ Annotate
  BY <1>3, UpdateStores, StoreRefines
<1>4. ASSUME NEW c \in Configs, Deliver(c) PROVE Service!Next
  <2>1. Service!Read(c)
    BY <1>4, DeliverRefines
  <2> QED BY <2>1 DEF Service!Next
<1>5. ASSUME NEW c \in Configs, Dequeue(c) PROVE UNCHANGED Service!vars
  <2>1. /\ UNCHANGED <<object, revision, accepted>> /\ cfg = Nothing /\ cfg' = Nothing
        /\ \A d \in Configs : Readable(d)' = Readable(d)
    BY <1>5 DEF Dequeue, apiVars, memory, IndInv, TypeOK, Readable
  <2>2. \A d \in Configs : Pending(d)' = Pending(d)
    BY <2>1 DEF Pending
  <2> QED BY <2>1, <2>2, Stutters
<1>6. CASE Get
  <2>1. /\ UNCHANGED <<object, revision, accepted, view, req>> /\ cfg = Nothing
        /\ cfg' = view[req] /\ \A d \in Configs : Readable(d)' = Readable(d)
    BY <1>6 DEF Get, informerVars, apiVars, memory, IndInv, TypeOK, Readable
  <2>2. \A d \in Configs : Pending(d)' = Pending(d)
    BY <2>1 DEF Pending, Readable
  <2> QED BY <2>1, <2>2, Stutters
<1>7. CASE Teardown \/ Cleanup \/ UpdateRefused \/ CallFails
             \/ UpdateDestinationsToWatch \/ ManageListeners
  BY <1>7, WorkRefines
<1>8. CASE Restart
  <2>1. Service!Restart
    BY <1>8, RestartRefines
  <2> QED BY <2>1 DEF Service!Next
<1> QED BY <1>1, <1>2, <1>3, <1>4, <1>5, <1>6, <1>7, <1>8 DEF Next, Step

\* At the start there is no Config, on either level.
LEMMA InitRefines ==
    ASSUME Init
    PROVE  Service!Init /\ SeenInv
<1>1. \A c \in Configs : /\ object[c] = Nothing /\ view[c] = Nothing
                         /\ accepted[c] = Nothing /\ backlog[c] = <<>>
  BY DEF Init
<1>2. \A c \in Configs : DOMAIN backlog[c] = {}
  <2> SUFFICES ASSUME NEW c \in Configs PROVE DOMAIN backlog[c] = {}
    OBVIOUS
  <2>1. backlog[c] = <<>>
    BY <1>1
  <2> QED BY <2>1
<1>3. \A c \in Configs : Pending(c) = {}
  BY <1>1, <1>2 DEF Pending, Readable, Init
<1>4. \A c \in Configs : Known(c) = {} /\ SpecOfObject(c) = Nothing
  BY <1>1, <1>3 DEF Known, SpecOfObject
<1>5. Service!Init
  <2>1. /\ [c \in Configs |-> Known(c)] = [c \in Configs |-> {}]
        /\ [c \in Configs |-> SpecOfObject(c)] = [c \in Configs |-> Nothing]
    BY <1>4
  <2> QED BY <2>1 DEF Service!Init, Init, Known, SpecOfObject
<1>6. UpToDate
  BY <1>1 DEF UpToDate, Latest
<1>7. RemovalSeen
  BY <1>1, <1>2 DEF RemovalSeen, Serving, Init
<1> QED BY <1>5, <1>6, <1>7 DEF SeenInv

\* The informer ends up with the present object, and delivers a removal only after
\* the listeners are stopped, in every behaviour (reloader_controller.go:108-127).
THEOREM WritesReachInformer == Spec => []SeenInv
<1>1. Init => SeenInv
  BY InitRefines
<1>2. IndInv /\ IndInv' /\ SeenInv /\ [Next]_vars => SeenInv'
  BY NextSeen
<1> QED BY <1>1, <1>2, Invariance, PTL DEF Spec

\* The controller implements ConfigService: whatever the informer, the API server and
\* crashes do, listeners follow the writes to a Config in their order, are stopped only
\* for a deletion or by a crash, and the newest state is never lost
\* (reloader_controller.go:108-190).
THEOREM ServiceImplemented == Spec => ImplementsService
<1>1. Init => Service!Init
  BY InitRefines
<1>2. IndInv /\ IndInv' /\ SeenInv /\ SeenInv' /\ [Next]_vars => [Service!Next]_(Service!vars)
  BY NextRefines
<1> QED BY <1>1, <1>2, Invariance, WritesReachInformer, PTL
        DEF Spec, ImplementsService, Service!Spec

--------------------------------------------------------------------------------
(* The controller rests when all is done                                   *)

\* While nothing is on its way and the name is not queued again, the worker has read
\* the present object; without the worker all is done.
RestInv ==
    \A c \in Configs : backlog[c] = <<>> /\ c \notin queue =>
        /\ req # c => Done(c)
        /\ req = c /\ pc # "get" => cfg = object[c]
        /\ req = c /\ pc \in {"destinations", "manage"} => cfg.processed

\* A sequence with an element added is not empty.
LEMMA AppendNotEmpty ==
    ASSUME NEW S, NEW b \in Seq(S), NEW n \in S
    PROVE  Append(b, n) # <<>>
<1>1. Append(b, n) \in Seq(S) /\ Len(Append(b, n)) = Len(b) + 1 /\ Len(b) \in Nat
  OBVIOUS
<1>2. Append(b, n) = <<>> => Len(Append(b, n)) = 0
  OBVIOUS
<1> QED BY <1>1, <1>2

\* A write is on its way to the informer until it is delivered.
LEMMA StoreRests ==
    ASSUME IndInv, RestInv, NEW c \in Configs, NEW o \in Object, Stored(c, o)
    PROVE  RestInv'
<1> USE DEF Maybe
<1>1. /\ Store(c, o) /\ view' = view /\ accepted' = accepted /\ queue' = queue
      /\ Continues(c) /\ (req # c => pc' = pc)
  BY DEF Stored
<1>2. /\ \A d \in Configs : d # c => object'[d] = object[d]
      /\ object' \in [Configs -> Maybe]
  BY <1>1, StoreFacts DEF IndInv
<1>3. /\ backlog'[c] = Append(backlog[c], object'[c])
      /\ \A d \in Configs : d # c => backlog'[d] = backlog[d]
  <2>1. backlog \in [Configs -> Seq(Maybe)] /\ object \in [Configs -> Maybe]
    BY DEF IndInv, TypeOK
  <2> QED BY <1>1, <2>1 DEF Store
<1>4. backlog'[c] # <<>>
  <2>1. backlog[c] \in Seq(Maybe) /\ object'[c] \in Maybe
    BY <1>2 DEF IndInv, TypeOK
  <2> QED BY <1>3, <2>1, AppendNotEmpty
<1>5. ASSUME NEW d \in Configs, d # c, backlog'[d] = <<>>, d \notin queue'
      PROVE  /\ req' # d => Done(d)'
             /\ req' = d /\ pc' # "get" => cfg' = object'[d]
             /\ req' = d /\ pc' \in {"destinations", "manage"} => cfg'.processed
  <2>1. Done(d)' = Done(d)
    BY <1>1, <1>2, <1>5 DEF Done
  <2>2. CASE req = d
    <3>1. req' = req /\ cfg' = cfg /\ pc' = pc
      BY <1>1, <1>5, <2>2 DEF Continues
    <3> QED BY <1>1, <1>2, <1>3, <1>5, <2>1, <2>2, <3>1 DEF RestInv
  <2>3. CASE req # d
    <3>1. req' # d
      BY <1>1, <2>3, NothingAssumption DEF Continues
    <3> QED BY <1>1, <1>3, <1>5, <2>1, <2>3, <3>1 DEF RestInv
  <2> QED BY <2>2, <2>3
<1> QED BY <1>4, <1>5 DEF RestInv

\* The steps of a call: it ends with all done or with the name queued again.
LEMMA WorkRests ==
    ASSUME IndInv, RestInv,
           Teardown \/ Cleanup \/ UpdateRefused \/ CallFails
             \/ UpdateDestinationsToWatch \/ ManageListeners
    PROVE  RestInv'
<1> USE DEF informerVars, apiVars, memory, Return, Requeue
<1>1. PICK c \in Configs : c = req
  BY DEF IndInv, TypeOK, Teardown, Cleanup, UpdateRefused, CallFails,
         UpdateDestinationsToWatch, ManageListeners
<1>2. /\ UNCHANGED <<object, backlog>> /\ queue \subseteq queue'
      /\ req' = req \/ req' = Nothing
  BY DEF Teardown, Cleanup, UpdateRefused, CallFails,
         UpdateDestinationsToWatch, ManageListeners
<1>3. accepted \in [Configs -> {s.sources : s \in Specs} \cup {Nothing}]
  BY DEF IndInv, TypeOK
<1>4. \A d \in Configs : d # c => accepted'[d] = accepted[d]
  BY <1>1, <1>3 DEF Teardown, Cleanup, UpdateRefused, CallFails,
                    UpdateDestinationsToWatch, ManageListeners
<1>5. ASSUME NEW d \in Configs, d # c, backlog'[d] = <<>>, d \notin queue'
      PROVE  req' # d /\ Done(d)'
  <2>1. Done(d) /\ req' # d
    BY <1>1, <1>2, <1>5, NothingAssumption DEF RestInv
  <2> QED BY <1>2, <1>4, <1>5, <2>1 DEF Done
<1>6. ASSUME backlog'[c] = <<>>, c \notin queue'
      PROVE  /\ req' # c => Done(c)'
             /\ req' = c /\ pc' # "get" => cfg' = object'[c]
             /\ req' = c /\ pc' \in {"destinations", "manage"} => cfg'.processed
  <2>1. /\ pc # "get" => cfg = object[c]
        /\ pc \in {"destinations", "manage"} => cfg.processed
    BY <1>1, <1>2, <1>6 DEF RestInv
  <2>2. CASE Teardown
    <3>1. object[c] = Nothing /\ accepted'[c] = Nothing /\ req' # c
      BY <1>1, <1>3, <2>1, <2>2, NothingAssumption DEF Teardown, IndInv, TypeOK
    <3> QED BY <1>2, <3>1 DEF Done
  <2>3. CASE Cleanup
    BY <1>1, <1>2, <2>1, <2>3 DEF Cleanup
  <2>4. CASE UpdateRefused \/ CallFails
    BY <1>1, <1>6, <2>4 DEF UpdateRefused, CallFails
  <2>5. CASE UpdateDestinationsToWatch
    BY <1>1, <1>2, <2>1, <2>5 DEF UpdateDestinationsToWatch
  <2>6. CASE ManageListeners
    <3>1. cfg.spec.sources \in ValidSources
      BY <1>1, <1>6, <2>6 DEF ManageListeners
    <3>2. /\ Serving(cfg) /\ cfg.processed /\ cfg = object[c] /\ req' # c
          /\ accepted'[c] = cfg.spec.sources
      BY <1>1, <1>3, <2>1, <2>6, <3>1, NothingAssumption DEF ManageListeners, IndInv, CallState
    <3> QED BY <1>2, <3>2 DEF Done, Serving
  <2> QED BY <2>2, <2>3, <2>4, <2>5, <2>6
<1> QED BY <1>5, <1>6 DEF RestInv

\* Every step keeps the work that is left to do with somebody.
LEMMA NextRests ==
    ASSUME IndInv, SeenInv, RestInv, [Next]_vars
    PROVE  RestInv'
<1>1. CASE UNCHANGED vars
  BY <1>1 DEF vars, RestInv, Done
<1>2. ASSUME NEW c \in Configs, User(c) \/ ReleaseConfig(c) PROVE RestInv'
  BY <1>2, UserStores, StoreRests
<1>3. CASE RemoveFinalizer \/ AddFinalizer \/ Annotate
  BY <1>3, UpdateStores, StoreRests
<1>4. ASSUME NEW c \in Configs, Deliver(c) PROVE RestInv'
  <2>1. /\ UNCHANGED <<object, pc, req, cfg, accepted>>
        /\ \A d \in Configs : d # c => backlog'[d] = backlog[d]
        /\ queue' = queue \cup {c}
    BY <1>4, DeliverFacts DEF Deliver
  <2> QED BY <2>1 DEF RestInv, Done
<1>5. ASSUME NEW c \in Configs, Dequeue(c) PROVE RestInv'
  <2>1. /\ UNCHANGED <<object, backlog, accepted>> /\ req = Nothing
        /\ queue' = queue \ {c} /\ req' = c /\ pc' = "get"
    BY <1>5 DEF Dequeue, apiVars, memory, IndInv, TypeOK
  <2>2. \A d \in Configs : Done(d)' = Done(d)
    BY <2>1 DEF Done
  <2> QED BY <2>1, <2>2, NothingAssumption DEF RestInv
<1>6. CASE Get
  <2>1. /\ cfg' = view[req] /\ req' = req /\ pc' = Branch(view[req])
        /\ UNCHANGED <<object, backlog, queue, accepted>>
    BY <1>6 DEF Get, informerVars, apiVars, memory
  <2>2. \A d \in Configs : Done(d)' = Done(d)
    BY <2>1 DEF Done
  <2>3. \A d \in Configs : backlog[d] = <<>> => view[d] = object[d]
    BY DEF SeenInv, UpToDate, Latest
  <2>4. pc' \in {"destinations", "manage"} => cfg'.processed
    BY <2>1 DEF Branch
  <2> QED BY <2>1, <2>2, <2>3, <2>4 DEF RestInv
<1>7. CASE Teardown \/ Cleanup \/ UpdateRefused \/ CallFails
             \/ UpdateDestinationsToWatch \/ ManageListeners
  BY <1>7, WorkRests
<1>8. CASE Restart
  <2>1. /\ req' = Nothing /\ queue' = {c \in Configs : object'[c] # Nothing}
        /\ \A c \in Configs : accepted'[c] = Nothing
    BY <1>8 DEF Restart, Return
  <2> QED BY <2>1, NothingAssumption DEF RestInv, Done
<1> QED BY <1>1, <1>2, <1>3, <1>4, <1>5, <1>6, <1>7, <1>8 DEF Next, Step

\* When nothing is on its way, queued or at work for a Config, its listeners are those of
\* its spec and no deletion waits: what Converges and DeletionCompletes owe to fairness is
\* only that the controller comes to rest (reloader_controller.go:128-190).
THEOREM RestMeansDone == Spec => []RestsWhenDone
<1>1. Init => RestInv
  BY DEF Init, RestInv, Done
<1>2. IndInv /\ SeenInv /\ RestInv /\ [Next]_vars => RestInv'
  BY NextRests
<1>3. RestInv => RestsWhenDone
  BY DEF RestInv, RestsWhenDone, AtRest
<1> QED BY <1>1, <1>2, <1>3, Invariance, WritesReachInformer, PTL DEF Spec
================================================================================
