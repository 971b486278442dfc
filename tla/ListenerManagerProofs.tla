------------------------- MODULE ListenerManagerProofs -------------------------
(***************************************************************************)
(* Proofs about ListenerManager for any number of Configs, sources,        *)
(* suffixes and addresses.                                                 *)
(***************************************************************************)
EXTENDS ListenerManager, TLAPS

USE DEF servers, restOfServer

\* The part of the type invariant that the goroutines of Event Grid can change.
ServerTypesOK ==
    /\ bound \in [Addrs -> Owner \cup {None}]
    /\ server \in [Owner -> {"none", "starting", "checked", "listening", "serving"}]
    /\ late \in [Owner -> 0..MaxLate]
    /\ leaving \subseteq Addrs

\* The keys of a list are keys, and a key has a suffix or the empty one.
LEMMA KeyFacts ==
    /\ \A list \in SourceLists : desiredListeners(list) \subseteq Keys
    /\ \A k \in Keys : PathSuffix(k) \in Suffixes \cup {NoSuffix}
    /\ \A k \in Keys : k.type \in SocketTypes \cup ServerTypes => Addr(k) \in Addrs \cup {None}
<1>1. \A list \in SourceLists : desiredListeners(list) \subseteq Keys
  <2> SUFFICES ASSUME NEW list \in SourceLists, NEW i \in DOMAIN list
               PROVE  generateListenerKey(list[i]) \in Keys
    BY DEF desiredListeners
  <2>1. list \in Seq(Sources)
    BY SourcesAssumption
  <2>2. list[i] \in Sources
    BY <2>1
  <2> QED BY <2>2 DEF Keys
<1>2. ASSUME NEW k \in Keys
      PROVE  /\ PathSuffix(k) \in Suffixes \cup {NoSuffix}
             /\ k.type \in SocketTypes \cup ServerTypes => Addr(k) \in Addrs \cup {None}
  <2>1. PICK s \in Sources : k = generateListenerKey(s)
    BY DEF Keys
  <2>2. k.type = s.type /\ k.block = s.block
    BY <2>1 DEF generateListenerKey
  <2>3. PathSuffix(k) = PathSuffix(s) /\ Addr(k) = Addr(s)
    BY <2>2 DEF PathSuffix, Addr
  <2> QED BY <2>2, <2>3, SourcesAssumption
<1> QED BY <1>1, <1>2

\* The validated list gives two webhook sources different suffixes.
LEMMA SuffixesDiffer ==
    ASSUME NEW list \in SourceLists, Validate(list),
           NEW k \in desiredListeners(list), NEW m \in desiredListeners(list),
           k.type = "Webhook", m.type = "Webhook", k # m
    PROVE  PathSuffix(k) # PathSuffix(m)
<1>1. PICK i \in DOMAIN list : k = generateListenerKey(list[i])
  BY DEF desiredListeners
<1>2. PICK j \in DOMAIN list : m = generateListenerKey(list[j])
  BY DEF desiredListeners
<1>3. i # j
  BY <1>1, <1>2
<1>4. /\ list[i].type = "Webhook" /\ PathSuffix(k) = PathSuffix(list[i])
      /\ list[j].type = "Webhook" /\ PathSuffix(m) = PathSuffix(list[j])
  BY <1>1, <1>2 DEF generateListenerKey, PathSuffix
<1> QED BY <1>3, <1>4 DEF Validate

\* RouteKey yields one of the two forms that RouteShape describes, whatever the
\* number of webhook sources.
LEMMA RouteKeyFacts ==
    ASSUME NEW c \in Configs, NEW k \in Keys, NEW n
    PROVE  LET r == RouteKey(c, PathSuffix(k), k, n) IN
           /\ r \in RouteKeys
           /\ r[1] = c
           /\ IF PathSuffix(k) # NoSuffix THEN r[2] = PathSuffix(k)
              ELSE r[2] \in {NoSuffix, k}
<1> DEFINE r == RouteKey(c, PathSuffix(k), k, n)
<1>1. r \in {<<c, PathSuffix(k)>>, <<c, NoSuffix>>, <<c, k>>}
  BY DEF RouteKey
<1>2. PathSuffix(k) # NoSuffix => r = <<c, PathSuffix(k)>>
  BY DEF RouteKey
<1>3. PathSuffix(k) = NoSuffix => r \in {<<c, NoSuffix>>, <<c, k>>}
  BY DEF RouteKey
<1> HIDE DEF r
<1>4. r \in RouteKeys
  BY <1>1, KeyFacts DEF RouteKeys
<1> QED BY <1>2, <1>3, <1>4 DEF r

\* Stopping a recorded listener leaves the routes and addresses of the others as
\* they are and frees its own.
LEMMA StopPreserves ==
    ASSUME IndInv, NEW o \in listeners, StopListener(o)
    PROVE  /\ listeners' = listeners \ {o}
           /\ routeOf' \in [Owner -> RouteKeys \cup {None}]
           /\ routes' \in [RouteKeys -> Owner \cup {None}]
           /\ ServerTypesOK'
           /\ RouteOwned' /\ AddressOwned' /\ RouteShape' /\ AddressShape'
<1> USE DEF IndInv, TypeOK
<1>1. o \in Owner /\ listeners' = listeners \ {o}
  BY DEF StopListener
<1>2. /\ bound' = [a \in Addrs |-> IF bound[a] = o THEN None ELSE bound[a]]
      /\ server' = [server EXCEPT ![o] = "none"]
      /\ late' = IF server[o] = "checked" THEN [late EXCEPT ![o] = @ + 1] ELSE late
      /\ leaving' = IF server[o] = "listening" THEN leaving \cup {Addr(o[2])} ELSE leaving
  BY DEF StopListener, Release, CloseServer
<1>3. ServerTypesOK'
  <2>1. late' \in [Owner -> 0..MaxLate]
    <3>1. CASE server[o] = "checked"
      <4>1. late[o] \in 0..MaxLate /\ late[o] < MaxLate
        BY <1>1, <3>1 DEF AddressShape
      <4>2. late[o] + 1 \in 0..MaxLate
        BY <4>1, LateAssumption
      <4> QED BY <1>1, <1>2, <3>1, <4>2
    <3> QED BY <1>2, <3>1
  <2>2. leaving' \subseteq Addrs
    BY <1>1, <1>2 DEF AddressShape
  <2> QED BY <1>1, <1>2, <2>1, <2>2 DEF ServerTypesOK
<1>4. AddressOwned' /\ AddressShape'
  <2>1. ASSUME NEW p \in listeners', p[2].type \in SocketTypes
        PROVE  bound'[Addr(p[2])] = p /\ Addr(p[2]) \in Addrs
    BY <1>1, <1>2, <2>1 DEF AddressOwned, AddressShape
  <2>2. ASSUME NEW a \in Addrs, bound'[a] # None
        PROVE  /\ bound'[a] \in listeners' /\ Addr(bound'[a][2]) = a
               /\ bound'[a][2].type \in ServerTypes =>
                     server'[bound'[a]] \in {"listening", "serving"}
    BY <1>1, <1>2, <2>2 DEF AddressOwned
  <2>3. ASSUME NEW p \in Owner, server'[p] # "none"
        PROVE  p \in listeners' /\ server'[p] = server[p] /\ late'[p] = late[p] /\ p # o
    BY <1>1, <1>2, <2>3 DEF AddressOwned
  <2>4. ASSUME NEW p \in Owner, server'[p] \in {"listening", "serving"}
        PROVE  bound'[Addr(p[2])] = p
    BY <1>1, <1>2, <2>3, <2>4 DEF AddressOwned, AddressShape
  <2>5. ASSUME NEW a \in leaving' PROVE bound'[a] = None
    <3>1. CASE a \in leaving
      BY <1>2, <3>1 DEF AddressOwned
    <3>2. CASE a \notin leaving
      <4>1. a = Addr(o[2]) /\ bound[a] = o /\ a \in Addrs
        BY <1>1, <1>2, <2>5, <3>2 DEF AddressOwned, AddressShape
      <4> QED BY <1>2, <4>1
    <3> QED BY <3>1, <3>2
  <2>6. ASSUME NEW p \in Owner, server'[p] # "none" \/ late'[p] > 0
        PROVE  p[2].type \in ServerTypes /\ Addr(p[2]) \in Addrs
    <3>1. server[p] # "none" \/ late[p] > 0
      BY <1>1, <1>2, <2>6
    <3> QED BY <3>1 DEF AddressShape
  <2>7. AddressOwned'
    BY <2>1, <2>2, <2>3, <2>4, <2>5 DEF AddressOwned
  <2>8. AddressShape'
    BY <2>1, <2>3, <2>6 DEF AddressShape
  <2> QED BY <2>7, <2>8
<1>5. CASE IsWebhook(o)
  <2>1. /\ routeOf[o] \in RouteKeys
        /\ routes[routeOf[o]] = o
    BY <1>5 DEF RouteOwned, RouteShape
  <2>2. /\ routes' = [routes EXCEPT ![routeOf[o]] = None]
        /\ routeOf' = [routeOf EXCEPT ![o] = None]
    BY <1>5 DEF StopListener, Unregister, IsWebhook
  <2>3. /\ routes' \in [RouteKeys -> Owner \cup {None}]
        /\ routeOf' \in [Owner -> RouteKeys \cup {None}]
    BY <2>1, <2>2
  <2>4. ASSUME NEW p \in listeners', IsWebhook(p)
        PROVE  routeOf'[p] = routeOf[p] /\ routes'[routeOf'[p]] = p /\ routeOf'[p] # None
    BY <1>1, <2>1, <2>2, <2>4 DEF RouteOwned, RouteShape
  <2>5. ASSUME NEW r \in RouteKeys, routes'[r] # None
        PROVE  /\ routes'[r] = routes[r] /\ routes'[r] \in listeners'
               /\ routeOf'[routes'[r]] = r
    BY <1>1, <2>1, <2>2, <2>5 DEF RouteOwned, RouteShape
  <2>6. RouteOwned'
    BY <2>4, <2>5 DEF RouteOwned, IsWebhook
  <2>7. RouteShape'
    BY <1>1, <2>4, <2>5 DEF RouteShape, IsWebhook
  <2> QED BY <1>1, <1>3, <1>4, <2>3, <2>6, <2>7
<1>6. CASE ~IsWebhook(o)
  <2>1. UNCHANGED <<routes, routeOf>>
    BY <1>6 DEF StopListener, IsWebhook
  <2>2. \A r \in RouteKeys : routes[r] # o
    BY <1>6, NoneAssumption DEF RouteShape
  <2>3. RouteOwned'
    BY <1>1, <2>1, <2>2 DEF RouteOwned, IsWebhook
  <2>4. RouteShape'
    BY <1>1, <2>1 DEF RouteShape, IsWebhook
  <2> QED BY <1>1, <1>3, <1>4, <2>1, <2>3, <2>4
<1> QED BY <1>5, <1>6

\* The route a new webhook listener takes is free: the listeners left after the
\* first loop are all desired, and desired suffixes differ.
LEMMA NewRouteIsFree ==
    ASSUME IndInv, phase = "add", NEW o \in todo, IsWebhook(o), NEW n,
           NEW r, r = RouteKey(target, PathSuffix(o[2]), o[2], n)
    PROVE  r \in RouteKeys /\ routes[r] = None
<1> USE DEF IndInv, TypeOK
<1>1. /\ target \in Configs /\ sources \in SourceLists /\ Validate(sources)
      /\ o \in Owner /\ o[1] = target /\ o[2] \in desiredListeners(sources)
      /\ o \notin listeners
  BY DEF CallState
<1>2. o[2] \in Keys /\ o = <<target, o[2]>>
  BY <1>1 DEF Owner
<1>3. /\ r \in RouteKeys
      /\ r[1] = target
      /\ IF PathSuffix(o[2]) # NoSuffix THEN r[2] = PathSuffix(o[2])
         ELSE r[2] \in {NoSuffix, o[2]}
  BY <1>1, <1>2, RouteKeyFacts
<1>4. SUFFICES ASSUME routes[r] # None PROVE FALSE
  BY <1>3
<1> DEFINE p == routes[r]
<1>5. p \in listeners /\ routeOf[p] = r /\ IsWebhook(p)
  BY <1>3, <1>4 DEF RouteOwned, RouteShape
<1>6. /\ p[1] = target
      /\ IF PathSuffix(p[2]) # NoSuffix THEN r[2] = PathSuffix(p[2])
         ELSE r[2] \in {NoSuffix, p[2]}
  BY <1>3, <1>5 DEF RouteShape
<1>7. p[2] \in desiredListeners(sources) /\ p[2] # o[2] /\ p[2] \in Keys
  <2>1. p \in Owner
    BY <1>5
  <2>2. p = <<target, p[2]>> /\ p[2] \in Keys
    BY <2>1, <1>6 DEF Owner
  <2> QED BY <1>1, <1>2, <1>5, <1>6, <2>2 DEF CallState
<1>8. PathSuffix(p[2]) # PathSuffix(o[2])
  BY <1>1, <1>5, <1>7, SuffixesDiffer DEF IsWebhook
<1>9. /\ PathSuffix(p[2]) \in Suffixes \cup {NoSuffix}
      /\ PathSuffix(o[2]) \in Suffixes \cup {NoSuffix}
  BY <1>2, <1>7, KeyFacts
<1> QED BY <1>2, <1>3, <1>6, <1>7, <1>8, <1>9, HashAssumption

\* StartWebhook preserves the invariant.
LEMMA StartWebhookPreserves ==
    ASSUME IndInv, NEW o \in Owner, StartWebhook(o)
    PROVE  IndInv'
<1> DEFINE r == RouteKey(target, PathSuffix(o[2]), o[2], webhookSourceCount(sources))
<1>1. /\ phase = "add" /\ o \in todo /\ IsWebhook(o)
      /\ todo' = todo \ {o}
      /\ listeners' = listeners \cup {o}
      /\ routes' = [routes EXCEPT ![r] = o]
      /\ routeOf' = [routeOf EXCEPT ![o] = r]
      /\ UNCHANGED <<manifests, phase, target, sources, result, accepted, shutdown,
                     bound, servers, names>>
  BY DEF StartWebhook, Adding, Register, IsWebhook
<1>2. r \in RouteKeys /\ routes[r] = None
  BY <1>1, NewRouteIsFree
<1>3. /\ o[1] = target /\ o[2] \in desiredListeners(sources) /\ o \notin listeners
      /\ target \in Configs /\ target \in manifests
  BY <1>1 DEF IndInv, TypeOK, CallState
<1>4. /\ r[1] = o[1]
      /\ IF PathSuffix(o[2]) # NoSuffix THEN r[2] = PathSuffix(o[2])
         ELSE r[2] \in {NoSuffix, o[2]}
  BY <1>3, RouteKeyFacts DEF Owner
<1> HIDE DEF r
<1>5. TypeOK'
  BY <1>1, <1>2, <1>3 DEF IndInv, TypeOK
<1>6. RouteOwned' /\ RouteShape'
  <2> USE DEF IndInv, TypeOK
  <2>1. routeOf'[o] = r /\ routes'[r] = o
    BY <1>1, <1>2
  <2>2. ASSUME NEW p \in listeners, IsWebhook(p)
        PROVE  /\ routeOf'[p] = routeOf[p] /\ routeOf[p] \in RouteKeys
               /\ routes'[routeOf[p]] = p
    BY <1>1, <1>2, <1>3, <2>2, NoneAssumption DEF RouteOwned, RouteShape
  <2>3. ASSUME NEW q \in RouteKeys, routes'[q] # None, q # r
        PROVE  /\ routes'[q] = routes[q] /\ routes[q] \in listeners
               /\ routeOf'[routes[q]] = q
    BY <1>1, <1>2, <1>3, <2>3 DEF RouteOwned
  <2>4. RouteOwned'
    <3>1. ASSUME NEW p \in listeners', IsWebhook(p)
          PROVE  routeOf'[p] # None /\ routes'[routeOf'[p]] = p
      BY <1>1, <1>2, <2>1, <2>2, <3>1, NoneAssumption
    <3>2. ASSUME NEW q \in RouteKeys, routes'[q] # None
          PROVE  routes'[q] \in listeners' /\ routeOf'[routes'[q]] = q
      BY <1>1, <2>1, <2>3, <3>2
    <3> QED BY <3>1, <3>2 DEF RouteOwned, IsWebhook
  <2>5. RouteShape'
    <3>1. ASSUME NEW p \in listeners', IsWebhook(p)
          PROVE  /\ routeOf'[p] \in RouteKeys
                 /\ routeOf'[p][1] = p[1]
                 /\ IF PathSuffix(p[2]) # NoSuffix THEN routeOf'[p][2] = PathSuffix(p[2])
                    ELSE routeOf'[p][2] \in {NoSuffix, p[2]}
      BY <1>1, <1>2, <1>4, <2>1, <2>2, <3>1 DEF RouteShape
    <3>2. ASSUME NEW q \in RouteKeys, routes'[q] # None
          PROVE  IsWebhook(routes'[q])
      BY <1>1, <2>1, <2>3, <3>2 DEF RouteShape
    <3> QED BY <3>1, <3>2 DEF RouteShape, IsWebhook
  <2> QED BY <2>4, <2>5
<1>7. AddressOwned' /\ AddressShape'
  <2>1. o[2].type \notin SocketTypes
    BY <1>1 DEF IsWebhook, SocketTypes
  <2> QED BY <1>1, <2>1 DEF IndInv, TypeOK, AddressOwned, AddressShape
<1>8. CallState'
  BY <1>1, <1>3 DEF IndInv, TypeOK, CallState
<1> QED BY <1>5, <1>6, <1>7, <1>8 DEF IndInv

\* A start that takes no route preserves the invariant when it leaves the
\* addresses in order.
LEMMA StartOtherPreserves ==
    ASSUME IndInv, NEW o \in Owner, Adding(o), ~IsWebhook(o),
           listeners' = listeners \cup {o},
           UNCHANGED <<routeOf, routes>>,
           ServerTypesOK', names' \subseteq WatchTypes, AddressOwned', AddressShape'
    PROVE  IndInv'
<1>1. /\ phase = "add" /\ o \in todo /\ todo' = todo \ {o}
      /\ UNCHANGED <<manifests, phase, target, sources, result, accepted, shutdown>>
  BY DEF Adding
<1>2. /\ o[1] = target /\ o[2] \in desiredListeners(sources) /\ o \notin listeners
      /\ target \in manifests
  BY <1>1 DEF IndInv, TypeOK, CallState
<1>3. TypeOK'
  BY <1>1, <1>2 DEF IndInv, TypeOK, ServerTypesOK
<1>4. RouteOwned' /\ RouteShape'
  BY <1>1, <1>2 DEF IndInv, TypeOK, RouteOwned, RouteShape, IsWebhook
<1>5. CallState'
  BY <1>1, <1>2 DEF IndInv, TypeOK, CallState
<1> QED BY <1>3, <1>4, <1>5 DEF IndInv

\* A goroutine of a recorded Event Grid server binds only a free address.
LEMMA ServerPreserves ==
    ASSUME IndInv, NEW o \in Owner,
           \/ ServerChecks(o) \/ ServerListens(o) \/ ServerFails(o) \/ ServerServes(o)
    PROVE  UNCHANGED restOfServer /\ ServerTypesOK' /\ AddressOwned' /\ AddressShape'
<1> USE DEF IndInv, TypeOK
<1>1. /\ UNCHANGED <<late, leaving, restOfServer>>
      /\ server[o] # "none"
      /\ \E to \in {"none", "checked", "listening", "serving"} :
            /\ server' = [server EXCEPT ![o] = to]
            /\ to = "checked" => late[o] < MaxLate
            /\ to # "serving" => server[o] \in {"starting", "checked"}
            /\ to = "serving" => server[o] = "listening"
            /\ to = "listening" =>
                  /\ AddressFree(Addr(o[2]))
                  /\ bound' = [bound EXCEPT ![Addr(o[2])] = o]
            /\ to # "listening" => bound' = bound
  BY DEF ServerChecks, ServerListens, ServerFails, ServerServes, ServerMoves
<1>2. PICK to \in {"none", "checked", "listening", "serving"} :
            /\ server' = [server EXCEPT ![o] = to]
            /\ to = "checked" => late[o] < MaxLate
            /\ to # "serving" => server[o] \in {"starting", "checked"}
            /\ to = "serving" => server[o] = "listening"
            /\ to = "listening" =>
                  /\ AddressFree(Addr(o[2]))
                  /\ bound' = [bound EXCEPT ![Addr(o[2])] = o]
            /\ to # "listening" => bound' = bound
  BY <1>1
<1>3. /\ o \in listeners /\ Addr(o[2]) \in Addrs
      /\ o[2].type \in ServerTypes /\ o[2].type \notin SocketTypes
  BY <1>1 DEF AddressOwned, AddressShape, ServerTypes, SocketTypes
<1>4. ServerTypesOK'
  BY <1>1, <1>2, <1>3 DEF ServerTypesOK
<1>5. AddressShape'
  BY <1>1, <1>2, <1>3 DEF AddressShape
<1>6. AddressOwned'
  <2>1. /\ server'[o] = to
        /\ \A p \in Owner : p # o => server'[p] = server[p]
        /\ \A a \in Addrs : a # Addr(o[2]) => bound'[a] = bound[a]
    BY <1>2, <1>3
  <2>2. CASE to = "listening"
    <3>1. bound[Addr(o[2])] = None /\ Addr(o[2]) \notin leaving /\ bound'[Addr(o[2])] = o
      BY <1>2, <1>3, <2>2 DEF AddressFree
    <3>2. ASSUME NEW p \in listeners, p[2].type \in SocketTypes PROVE bound'[Addr(p[2])] = p
      <4>1. bound[Addr(p[2])] = p /\ Addr(p[2]) \in Addrs /\ p # None
        BY <3>2, NoneAssumption DEF AddressOwned, AddressShape
      <4> QED BY <2>1, <3>1, <4>1
    <3>3. ASSUME NEW a \in Addrs, bound'[a] # None
          PROVE  /\ bound'[a] \in listeners /\ Addr(bound'[a][2]) = a
                 /\ bound'[a][2].type \in ServerTypes =>
                       server'[bound'[a]] \in {"listening", "serving"}
      BY <1>3, <2>1, <2>2, <3>1, <3>3 DEF AddressOwned
    <3>4. ASSUME NEW p \in Owner, server'[p] \in {"listening", "serving"}
          PROVE  bound'[Addr(p[2])] = p
      <4>1. CASE p = o
        BY <3>1, <4>1
      <4>2. CASE p # o
        <5>1. bound[Addr(p[2])] = p /\ Addr(p[2]) \in Addrs /\ p # None
          BY <2>1, <3>4, <4>2, NoneAssumption DEF AddressOwned, AddressShape
        <5> QED BY <2>1, <3>1, <5>1
      <4> QED BY <4>1, <4>2
    <3>5. \A p \in Owner : server'[p] # "none" => p \in listeners
      BY <1>3, <2>1 DEF AddressOwned
    <3>6. \A a \in leaving : bound'[a] = None
      BY <2>1, <3>1 DEF AddressOwned
    <3> QED BY <1>1, <3>2, <3>3, <3>4, <3>5, <3>6 DEF AddressOwned
  <2>3. CASE to # "listening"
    <3>1. bound' = bound
      BY <1>2, <2>3
    <3>2. ASSUME NEW a \in Addrs, bound[a] # None, bound[a][2].type \in ServerTypes
          PROVE  server'[bound[a]] \in {"listening", "serving"}
      <4>1. bound[a] \in Owner /\ server[bound[a]] \in {"listening", "serving"}
        BY <3>2 DEF AddressOwned
      <4> QED BY <1>2, <2>1, <4>1
    <3>3. ASSUME NEW p \in Owner, server'[p] \in {"listening", "serving"}
          PROVE  server[p] \in {"listening", "serving"}
      BY <1>2, <2>1, <2>3, <3>3
    <3>4. \A p \in Owner : server'[p] # "none" => p \in listeners
      BY <1>3, <2>1 DEF AddressOwned
    <3> QED BY <1>1, <3>1, <3>2, <3>3, <3>4 DEF AddressOwned
  <2> QED BY <2>2, <2>3
<1> QED BY <1>1, <1>4, <1>5, <1>6

\* The goroutine of a closed server takes no address from anybody.
LEMMA LatePreserves ==
    ASSUME IndInv, NEW o \in Owner, LateListens(o) \/ LateFails(o)
    PROVE  UNCHANGED restOfServer /\ ServerTypesOK' /\ AddressOwned' /\ AddressShape'
<1> USE DEF IndInv, TypeOK
<1>1. /\ UNCHANGED <<bound, server, restOfServer>>
      /\ late[o] > 0 /\ late' = [late EXCEPT ![o] = @ - 1]
      /\ \/ leaving' = leaving
         \/ leaving' = leaving \cup {Addr(o[2])} /\ bound[Addr(o[2])] = None
  BY DEF LateListens, LateFails, AddressFree
<1>2. Addr(o[2]) \in Addrs
  BY <1>1 DEF AddressShape
<1>3. /\ late' \in [Owner -> 0..MaxLate]
      /\ \A p \in Owner : late'[p] <= late[p]
  <2>1. late[o] \in 0..MaxLate /\ late[o] - 1 \in 0..MaxLate
    BY <1>1, LateAssumption
  <2> QED BY <1>1, <2>1, LateAssumption
<1>4. ServerTypesOK'
  BY <1>1, <1>2, <1>3 DEF ServerTypesOK
<1>5. AddressOwned'
  BY <1>1, <1>2 DEF AddressOwned
<1>6. AddressShape'
  <2>1. ASSUME NEW p \in Owner
        PROVE  /\ late'[p] > 0 => late[p] > 0
               /\ late[p] < MaxLate => late'[p] < MaxLate
    <3>1. late[p] \in 0..MaxLate /\ late'[p] \in 0..MaxLate /\ late'[p] <= late[p]
      BY <1>3
    <3> QED BY <3>1, LateAssumption
  <2> QED BY <1>1, <2>1 DEF AddressShape
<1> QED BY <1>1, <1>4, <1>5, <1>6

\* Serve turns a closed server away.
LEMMA RefusalPreserves ==
    ASSUME IndInv, NEW a \in Addrs, ServeRefuses(a)
    PROVE  UNCHANGED restOfServer /\ ServerTypesOK' /\ AddressOwned' /\ AddressShape'
<1>1. UNCHANGED <<bound, server, late, restOfServer>> /\ leaving' = leaving \ {a}
  BY DEF ServeRefuses
<1> QED BY <1>1 DEF IndInv, TypeOK, ServerTypesOK, AddressOwned, AddressShape

--------------------------------------------------------------------------------
\* The state after initialisation satisfies the invariant.
LEMMA InitEstablishes == Init => IndInv
<1> SUFFICES ASSUME Init PROVE IndInv
  OBVIOUS
<1>1. TypeOK
  BY SourcesAssumption, LateAssumption DEF Init, TypeOK
<1>2. RouteOwned /\ RouteShape
  BY DEF Init, RouteOwned, RouteShape
<1>3. AddressOwned /\ AddressShape
  BY DEF Init, AddressOwned, AddressShape
<1>4. CallState
  BY DEF Init, CallState
<1> QED BY <1>1, <1>2, <1>3, <1>4 DEF IndInv

\* Every step of the manager preserves the invariant.
LEMMA NextPreserves == IndInv /\ [Next]_vars => IndInv'
<1> SUFFICES ASSUME IndInv, [Next]_vars PROVE IndInv'
  OBVIOUS
<1>1. CASE UNCHANGED vars
  BY <1>1 DEF vars, IndInv, TypeOK, RouteOwned, AddressOwned, RouteShape, AddressShape,
              CallState, Unwanted, IsWebhook
<1>2. ASSUME NEW c \in Configs, NEW list \in SourceLists, RejectSources(c, list)
      PROVE  IndInv'
  <2>1. TypeOK'
    BY <1>2 DEF RejectSources, IndInv, TypeOK
  <2>2. RouteOwned' /\ RouteShape'
    BY <1>2 DEF RejectSources, IndInv, RouteOwned, RouteShape, IsWebhook
  <2>3. AddressOwned' /\ AddressShape' /\ CallState'
    BY <1>2 DEF RejectSources, IndInv, AddressOwned, AddressShape, CallState
  <2> QED BY <2>1, <2>2, <2>3 DEF IndInv
<1>3. ASSUME NEW c \in Configs, NEW list \in SourceLists, ManageListeners(c, list)
      PROVE  IndInv'
  <2>1. TypeOK'
    BY <1>3 DEF ManageListeners, IndInv, TypeOK, Unwanted
  <2>2. RouteOwned' /\ RouteShape'
    BY <1>3 DEF ManageListeners, IndInv, RouteOwned, RouteShape, IsWebhook
  <2>3. AddressOwned' /\ AddressShape'
    BY <1>3 DEF ManageListeners, IndInv, AddressOwned, AddressShape
  <2>4. CallState'
    <3>1. target = None /\ \A o \in listeners : o[1] \in Configs
      BY <1>3 DEF ManageListeners, IndInv, TypeOK, CallState, Owner
    <3>2. \A o \in listeners : o[1] # c => o[2] \in desiredListeners(accepted'[o[1]])
      BY <1>3, <3>1, NoneAssumption DEF ManageListeners, IndInv, TypeOK, CallState
    <3>3. accepted'[c] = list
      BY <1>3 DEF ManageListeners, IndInv, TypeOK
    <3> QED BY <1>3, <3>2, <3>3 DEF ManageListeners, IndInv, TypeOK, CallState, Unwanted
  <2> QED BY <2>1, <2>2, <2>3, <2>4 DEF IndInv
<1>4. ASSUME NEW o \in Owner, RemoveUnwanted(o) PROVE IndInv'
  <2>1. /\ phase = "remove" /\ o \in todo /\ StopListener(o) /\ todo' = todo \ {o}
        /\ UNCHANGED <<manifests, names, phase, target, sources, result, accepted, shutdown>>
    BY <1>4 DEF RemoveUnwanted
  <2>2. o \in listeners
    BY <2>1 DEF IndInv, CallState, Unwanted
  <2>3. /\ listeners' = listeners \ {o}
        /\ routeOf' \in [Owner -> RouteKeys \cup {None}]
        /\ routes' \in [RouteKeys -> Owner \cup {None}]
        /\ ServerTypesOK'
        /\ RouteOwned' /\ AddressOwned' /\ RouteShape' /\ AddressShape'
    BY <2>1, <2>2, StopPreserves
  <2>4. TypeOK'
    BY <2>1, <2>3 DEF IndInv, TypeOK, ServerTypesOK
  <2>5. CallState'
    BY <2>1, <2>3 DEF IndInv, TypeOK, CallState, Unwanted
  <2> QED BY <2>3, <2>4, <2>5 DEF IndInv
<1>5. CASE BeginAdding
  <2>1. TypeOK'
    <3>1. {target} \X desiredListeners(sources) \subseteq Owner
      BY <1>5, KeyFacts DEF BeginAdding, IndInv, TypeOK, CallState, Owner
    <3> QED BY <1>5, <3>1 DEF BeginAdding, Missing, IndInv, TypeOK
  <2>2. RouteOwned' /\ RouteShape'
    BY <1>5 DEF BeginAdding, IndInv, RouteOwned, RouteShape, IsWebhook
  <2>3. AddressOwned' /\ AddressShape'
    BY <1>5 DEF BeginAdding, IndInv, AddressOwned, AddressShape
  <2>4. CallState'
    BY <1>5 DEF BeginAdding, Missing, IndInv, TypeOK, CallState, Unwanted
  <2> QED BY <2>1, <2>2, <2>3, <2>4 DEF IndInv
<1>6. ASSUME NEW o \in Owner, StartWebhook(o) PROVE IndInv'
  BY <1>6, StartWebhookPreserves
<1>7. ASSUME NEW o \in Owner, StartSocket(o) PROVE IndInv'
  <2>1. /\ Adding(o) /\ ~IsWebhook(o) /\ o[2].type \in SocketTypes
        /\ bound[Addr(o[2])] = None /\ Addr(o[2]) \notin leaving /\ Addr(o[2]) # None
        /\ o[2].type \notin ServerTypes /\ o \notin listeners
        /\ bound' = [bound EXCEPT ![Addr(o[2])] = o]
        /\ listeners' = listeners \cup {o}
        /\ UNCHANGED <<routeOf, routes, servers, names>>
    BY <1>7 DEF StartSocket, AddressFree, IsWebhook, SocketTypes, ServerTypes, Adding,
                IndInv, CallState
  <2>2. Addr(o[2]) \in Addrs
    BY <2>1, KeyFacts DEF Owner
  <2>3. ServerTypesOK' /\ names' \subseteq WatchTypes
    BY <2>1 DEF IndInv, TypeOK, ServerTypesOK
  <2>4. AddressOwned' /\ AddressShape'
    BY <2>1, <2>2, NoneAssumption DEF IndInv, TypeOK, AddressOwned, AddressShape
  <2> QED BY <2>1, <2>3, <2>4, StartOtherPreserves
<1>8. ASSUME NEW o \in Owner, StartServer(o) PROVE IndInv'
  <2>1. /\ Adding(o) /\ ~IsWebhook(o) /\ o[2].type \in ServerTypes
        /\ o[2].type \notin SocketTypes /\ Addr(o[2]) # None
        /\ server' = [server EXCEPT ![o] = "starting"]
        /\ listeners' = listeners \cup {o} /\ o \notin listeners
        /\ UNCHANGED <<routeOf, routes, bound, late, leaving, names>>
    BY <1>8 DEF StartServer, IsWebhook, SocketTypes, ServerTypes, Adding, IndInv, CallState
  <2>2. Addr(o[2]) \in Addrs
    BY <2>1, KeyFacts DEF Owner
  <2>3. ServerTypesOK' /\ names' \subseteq WatchTypes
    BY <2>1 DEF IndInv, TypeOK, ServerTypesOK
  <2>4. AddressOwned' /\ AddressShape'
    BY <2>1, <2>2, NoneAssumption DEF IndInv, TypeOK, AddressOwned, AddressShape
  <2> QED BY <2>1, <2>3, <2>4, StartOtherPreserves
<1>9. ASSUME NEW o \in Owner, StartPoller(o) \/ StartWatch(o) PROVE IndInv'
  <2>1. /\ Adding(o) /\ ~IsWebhook(o) /\ o[2].type \notin SocketTypes
        /\ listeners' = listeners \cup {o}
        /\ UNCHANGED <<routeOf, routes, bound, servers>>
        /\ names' = names \/ (o[2].type \in WatchTypes /\ names' = names \cup {o[2].type})
    BY <1>9 DEF StartPoller, StartWatch, IsWebhook, SocketTypes, PollTypes, WatchTypes
  <2>2. ServerTypesOK' /\ names' \subseteq WatchTypes
    BY <2>1 DEF IndInv, TypeOK, ServerTypesOK
  <2>3. AddressOwned' /\ AddressShape'
    BY <2>1 DEF IndInv, AddressOwned, AddressShape
  <2> QED BY <2>1, <2>2, <2>3, StartOtherPreserves
<1>10. ASSUME NEW o \in Owner, SkipSource(o) PROVE IndInv'
  <2>1. TypeOK'
    BY <1>10 DEF SkipSource, Adding, IndInv, TypeOK
  <2>2. RouteOwned' /\ RouteShape'
    BY <1>10 DEF SkipSource, IndInv, RouteOwned, RouteShape, IsWebhook
  <2>3. AddressOwned' /\ AddressShape'
    BY <1>10 DEF SkipSource, IndInv, AddressOwned, AddressShape
  <2>4. CallState'
    BY <1>10 DEF SkipSource, Adding, IndInv, CallState
  <2> QED BY <2>1, <2>2, <2>3, <2>4 DEF IndInv
<1>11. ASSUME FinishManage \/ \E o \in Owner : StartPanics(o) PROVE IndInv'
  <2>1. /\ phase = "add" /\ phase' = "idle" /\ target' = None /\ sources' = <<>>
        /\ todo' = {}
        /\ \E x \in {"ok", "failed"} : result' = [result EXCEPT ![target] = x]
        /\ UNCHANGED <<listeners, routeOf, routes, bound, servers, names, accepted, shutdown>>
        /\ manifests' \subseteq manifests
        /\ \A o \in listeners : o[1] \in manifests => o[1] \in manifests'
    BY <1>11 DEF FinishManage, StartPanics, CleanupIfEmpty
  <2>2. TypeOK'
    BY <2>1, SourcesAssumption DEF IndInv, TypeOK
  <2>3. RouteOwned' /\ RouteShape'
    BY <2>1 DEF IndInv, RouteOwned, RouteShape, IsWebhook
  <2>4. AddressOwned' /\ AddressShape'
    BY <2>1 DEF IndInv, AddressOwned, AddressShape
  <2>5. CallState'
    BY <2>1 DEF IndInv, TypeOK, CallState
  <2> QED BY <2>2, <2>3, <2>4, <2>5 DEF IndInv
<1>12. ASSUME UNCHANGED restOfServer, ServerTypesOK', AddressOwned', AddressShape'
       PROVE  IndInv'
  <2>1. TypeOK'
    BY <1>12 DEF IndInv, TypeOK, ServerTypesOK
  <2>2. RouteOwned' /\ RouteShape'
    BY <1>12 DEF IndInv, RouteOwned, RouteShape, IsWebhook
  <2>3. CallState'
    BY <1>12 DEF IndInv, CallState, Unwanted
  <2> QED BY <1>12, <2>1, <2>2, <2>3 DEF IndInv
<1>13. ASSUME NEW o \in Owner,
              \/ ServerChecks(o) \/ ServerListens(o) \/ ServerFails(o) \/ ServerServes(o)
       PROVE  IndInv'
  BY <1>12, <1>13, ServerPreserves
<1>17. ASSUME NEW o \in Owner, LateListens(o) \/ LateFails(o) PROVE IndInv'
  BY <1>12, <1>17, LatePreserves
<1>18. ASSUME NEW a \in Addrs, ServeRefuses(a) PROVE IndInv'
  BY <1>12, <1>18, RefusalPreserves
<1>14. CASE CancelContext \/ StopAll \/ FinishStopAll
  <2>1. UNCHANGED <<listeners, manifests, routeOf, routes, bound, servers, target, sources,
                    result, accepted>>
    BY <1>14 DEF CancelContext, StopAll, FinishStopAll
  <2>2. TypeOK'
    BY <1>14 DEF CancelContext, StopAll, FinishStopAll, IndInv, TypeOK
  <2>3. RouteOwned' /\ RouteShape'
    BY <2>1 DEF IndInv, RouteOwned, RouteShape, IsWebhook
  <2>4. AddressOwned' /\ AddressShape'
    BY <2>1 DEF IndInv, AddressOwned, AddressShape
  <2>5. CallState'
    BY <1>14 DEF CancelContext, StopAll, FinishStopAll, IndInv, CallState, Unwanted
  <2> QED BY <2>2, <2>3, <2>4, <2>5 DEF IndInv
<1>15. ASSUME NEW o \in Owner, StopNext(o) PROVE IndInv'
  <2>1. /\ phase = "stopall" /\ o \in todo /\ StopListener(o) /\ todo' = todo \ {o}
        /\ UNCHANGED <<manifests, names, phase, target, sources, result, accepted, shutdown>>
    BY <1>15 DEF StopNext
  <2>2. o \in listeners
    BY <2>1 DEF IndInv, CallState
  <2>3. /\ listeners' = listeners \ {o}
        /\ routeOf' \in [Owner -> RouteKeys \cup {None}]
        /\ routes' \in [RouteKeys -> Owner \cup {None}]
        /\ ServerTypesOK'
        /\ RouteOwned' /\ AddressOwned' /\ RouteShape' /\ AddressShape'
    BY <2>1, <2>2, StopPreserves
  <2>4. TypeOK'
    BY <2>1, <2>3 DEF IndInv, TypeOK, ServerTypesOK
  <2>5. CallState'
    BY <2>1, <2>3 DEF IndInv, TypeOK, CallState
  <2> QED BY <2>3, <2>4, <2>5 DEF IndInv
<1>16. CASE Restart
  <2>1. TypeOK'
    BY <1>16, SourcesAssumption, LateAssumption DEF Restart, TypeOK
  <2>2. RouteOwned' /\ RouteShape'
    BY <1>16 DEF Restart, RouteOwned, RouteShape
  <2>3. AddressOwned' /\ AddressShape' /\ CallState'
    BY <1>16 DEF Restart, AddressOwned, AddressShape, CallState
  <2> QED BY <2>1, <2>2, <2>3 DEF IndInv
<1> QED
  BY <1>1, <1>2, <1>3, <1>4, <1>5, <1>6, <1>7, <1>8, <1>9, <1>10, <1>11, <1>12, <1>13,
     <1>14, <1>15, <1>16, <1>17, <1>18 DEF Next

--------------------------------------------------------------------------------
\* In every reachable state the invariant holds.
THEOREM Invariance == Spec => []IndInv
BY InitEstablishes, NextPreserves, PTL DEF Spec

\* Types, including the shape of the nested listener map (manager.go:21-29).
THEOREM TypeCorrect == Spec => []TypeOK
<1>1. IndInv => TypeOK
  BY DEF IndInv
<1> QED BY <1>1, Invariance, PTL

\* No webhook route is overwritten or orphaned, for any number of Configs and any
\* history of edits (server.go:161-185, manager.go:43-150).
THEOREM RoutesOwned == Spec => []RouteOwned
<1>1. IndInv => RouteOwned
  BY DEF IndInv
<1> QED BY <1>1, Invariance, PTL

\* A recorded socket listener holds its address, and an address has one holder: a
\* recorded listener, or an Event Grid server that Close found between its check for a
\* shutdown and Serve, and that Serve will turn away
\* (tcp/listener.go:36-50, 141-144; eventgrid/listener.go:51-76).
THEOREM AddressesOwned == Spec => []AddressOwned
<1>1. IndInv => AddressOwned
  BY DEF IndInv
<1> QED BY <1>1, Invariance, PTL

\* Between calls no Config has a listener its last valid list does not name
\* (manager.go:67-77).
THEOREM NoUnwantedListener == Spec => []OnlyAccepted
<1>1. IndInv => OnlyAccepted
  <2> SUFFICES ASSUME IndInv, phase = "idle", NEW o \in listeners
               PROVE  o[2] \in desiredListeners(accepted[o[1]])
    BY DEF OnlyAccepted
  <2>1. o[1] \in Configs /\ target = None
    BY DEF IndInv, TypeOK, CallState, Owner
  <2> QED BY <2>1, NoneAssumption DEF IndInv, CallState
<1> QED BY <1>1, Invariance, PTL

\* The loop of StopAll leaves no listener, no route, and no server that serves or can
\* come to serve (manager.go:153-172, eventgrid/listener.go:64-76).
THEOREM StopAllComplete == Spec => []StopAllClears
<1>1. IndInv => StopAllClears
  BY DEF IndInv, CallState, RouteOwned, AddressOwned, StopAllClears
<1> QED BY <1>1, Invariance, PTL

\* No step but a restart takes route or address from a listener that the running
\* call does not remove (reloader_controller.go:115, manager.go:68-91).
THEOREM KeptListenersUndisturbed == Spec => KeptUndisturbed
<1>1. IndInv /\ [Next]_vars => [KeepsListeners]_vars
  <2> SUFFICES ASSUME IndInv, Next, ~Restart, NEW o \in listeners, ~MayStop(o)
               PROVE  /\ o \in listeners'
                      /\ IsWebhook(o) => routes'[routeOf[o]] = o
                      /\ \A a \in Addrs : bound[a] = o => bound'[a] = o
    BY DEF KeepsListeners
  <2>0. /\ o \in Owner /\ o # None
        /\ IsWebhook(o) => routeOf[o] \in RouteKeys /\ routes[routeOf[o]] = o
    BY NoneAssumption DEF IndInv, TypeOK, RouteOwned, RouteShape
  <2>1. ASSUME NEW p \in Owner, RemoveUnwanted(p) \/ StopNext(p)
        PROVE  /\ o \in listeners'
               /\ IsWebhook(o) => routes'[routeOf[o]] = o
               /\ \A a \in Addrs : bound[a] = o => bound'[a] = o
    <3>1. p \in todo /\ StopListener(p) /\ phase \in {"remove", "stopall"}
      BY <2>1 DEF RemoveUnwanted, StopNext
    <3>2. p \in listeners /\ p # o
      BY <3>1 DEF IndInv, CallState, Unwanted, MayStop
    <3>3. o \in listeners'
      BY <3>1, <3>2 DEF StopListener
    <3>4. \A a \in Addrs : bound[a] = o => bound'[a] = o
      BY <3>1, <3>2 DEF StopListener, Release
    <3>5. CASE IsWebhook(p)
      <4>1. routes' = [routes EXCEPT ![routeOf[p]] = None] /\ routes[routeOf[p]] = p
        BY <3>1, <3>2, <3>5 DEF StopListener, Unregister, IsWebhook, IndInv, RouteOwned
      <4>2. IsWebhook(o) => routes'[routeOf[o]] = o
        BY <2>0, <3>2, <4>1 DEF IndInv, TypeOK
      <4> QED BY <3>3, <3>4, <4>2
    <3>6. CASE ~IsWebhook(p)
      BY <2>0, <3>1, <3>3, <3>4, <3>6 DEF StopListener, IsWebhook
    <3> QED BY <3>5, <3>6
  <2>2. ASSUME NEW p \in Owner, StartWebhook(p)
        PROVE  /\ o \in listeners'
               /\ IsWebhook(o) => routes'[routeOf[o]] = o
               /\ \A a \in Addrs : bound[a] = o => bound'[a] = o
    <3> DEFINE r == RouteKey(target, PathSuffix(p[2]), p[2], webhookSourceCount(sources))
    <3>1. /\ phase = "add" /\ p \in todo /\ IsWebhook(p)
          /\ routes' = [routes EXCEPT ![r] = p]
          /\ listeners' = listeners \cup {p} /\ bound' = bound
      BY <2>2 DEF StartWebhook, Adding, Register, IsWebhook
    <3>2. r \in RouteKeys /\ routes[r] = None
      BY <3>1, NewRouteIsFree
    <3> HIDE DEF r
    <3> QED BY <2>0, <3>1, <3>2 DEF IndInv, TypeOK
  <2>3. ASSUME NEW p \in Owner, StartSocket(p) \/ ServerListens(p)
        PROVE  /\ o \in listeners'
               /\ IsWebhook(o) => routes'[routeOf[o]] = o
               /\ \A a \in Addrs : bound[a] = o => bound'[a] = o
    BY <2>0, <2>3 DEF StartSocket, ServerListens, AddressFree, IndInv, TypeOK
  <2>4. ASSUME NEW p \in Owner,
               \/ StartServer(p) \/ StartPoller(p) \/ StartWatch(p)
               \/ SkipSource(p) \/ StartPanics(p)
               \/ ServerChecks(p) \/ ServerFails(p) \/ ServerServes(p)
               \/ LateListens(p) \/ LateFails(p)
        PROVE  /\ o \in listeners'
               /\ IsWebhook(o) => routes'[routeOf[o]] = o
               /\ \A a \in Addrs : bound[a] = o => bound'[a] = o
    BY <2>0, <2>4 DEF StartServer, StartPoller, StartWatch, SkipSource, StartPanics,
        ServerChecks, ServerFails, ServerServes, LateListens, LateFails
  <2>5. ASSUME UNCHANGED <<listeners, routes, bound>>
        PROVE  /\ o \in listeners'
               /\ IsWebhook(o) => routes'[routeOf[o]] = o
               /\ \A a \in Addrs : bound[a] = o => bound'[a] = o
    BY <2>0, <2>5
  <2>6. ASSUME NEW c \in Configs, NEW list \in SourceLists,
               RejectSources(c, list) \/ ManageListeners(c, list)
        PROVE  UNCHANGED <<listeners, routes, bound>>
    BY <2>6 DEF RejectSources, ManageListeners
  <2>7. BeginAdding \/ FinishManage \/ CancelContext \/ StopAll \/ FinishStopAll
           \/ (\E a \in Addrs : ServeRefuses(a))
        => UNCHANGED <<listeners, routes, bound>>
    BY DEF BeginAdding, FinishManage, CancelContext, StopAll, FinishStopAll, ServeRefuses
  <2> QED BY <2>1, <2>2, <2>3, <2>4, <2>5, <2>6, <2>7 DEF Next
<1> QED BY <1>1, Invariance, PTL DEF Spec, KeptUndisturbed

--------------------------------------------------------------------------------
(* Webhook sources are served between calls                                *)

\* The listeners for the well-placed webhook sources of the last valid list.
Due(c) ==
    LET placed == {i \in DOMAIN accepted[c] :
                      accepted[c][i].type = "Webhook" /\ ~Misplaced(accepted[c][i])}
    IN  {<<c, generateListenerKey(accepted[c][i])>> : i \in placed}

Panics(c) == \E k \in desiredListeners(accepted[c]) : Credential(k) = "panic"

\* What is due is recorded, or the second loop has still to come to it.
Served(c) ==
    \/ Panics(c)
    \/ c = target /\ phase = "remove"
    \/ Due(c) \subseteq listeners \cup (IF c = target /\ phase = "add" THEN todo ELSE {})

ServedInv ==
    shutdown # "stopped" /\ phase # "stopall" => \A c \in Configs : Served(c)

\* A list with two sources of one key is not valid when they are webhooks: the source
\* that the second loop finds for a key is the one that gave the key.
LEMMA KeyNamesSource ==
    ASSUME NEW list \in SourceLists, Validate(list), NEW i \in DOMAIN list,
           list[i].type = "Webhook"
    PROVE  desiredSource(list, generateListenerKey(list[i])) = list[i]
<1> DEFINE key == generateListenerKey(list[i])
           P(n) == /\ generateListenerKey(list[n]) = key
                   /\ \A j \in DOMAIN list : generateListenerKey(list[j]) = key => j <= n
<1>1. ASSUME NEW j \in DOMAIN list, generateListenerKey(list[j]) = key PROVE j = i
  <2>1. list[j].type = "Webhook" /\ PathSuffix(list[j]) = PathSuffix(list[i])
    BY <1>1 DEF generateListenerKey, PathSuffix
  <2> QED BY <2>1 DEF Validate
<1>2. i \in Nat
  <2>1. list \in Seq(Sources)
    BY SourcesAssumption
  <2> QED BY <2>1
<1>3. P(i)
  <2>1. \A j \in DOMAIN list : generateListenerKey(list[j]) = key => j = i
    BY <1>1
  <2>2. i <= i
    BY <1>2
  <2> HIDE DEF key
  <2>3. \A j \in DOMAIN list : generateListenerKey(list[j]) = key => j <= i
    BY <2>1, <2>2
  <2> QED BY <2>3 DEF key
<1> HIDE DEF P
<1>4. P(CHOOSE n \in DOMAIN list : P(n)) /\ (CHOOSE n \in DOMAIN list : P(n)) \in DOMAIN list
  BY <1>3
<1>5. (CHOOSE n \in DOMAIN list : P(n)) = i
  BY <1>1, <1>4 DEF P
<1> QED BY <1>5 DEF P, desiredSource

\* Steps that leave the lists alone, take no listener of another Config away, and lose
\* nothing of the second loop.
LEMMA ServedKept ==
    ASSUME IndInv, ServedInv, UNCHANGED <<phase, target, accepted>>,
           shutdown' # "stopped" => shutdown # "stopped",
           \A c \in Configs : c # target => Due(c) \cap listeners \subseteq listeners',
           phase = "add" /\ Due(target) \subseteq listeners \cup todo =>
               Due(target) \subseteq listeners' \cup todo'
    PROVE  ServedInv'
<1> SUFFICES ASSUME shutdown' # "stopped", phase' # "stopall", NEW c \in Configs
             PROVE  Served(c)'
  BY DEF ServedInv
<1>1. Served(c) /\ Panics(c)' = Panics(c) /\ Due(c)' = Due(c)
  BY DEF ServedInv, Panics, Due
<1>2. CASE c # target
  BY <1>1, <1>2 DEF Served
<1>3. CASE c = target
  <2>1. phase \in {"remove", "add"}
    BY <1>3, NoneAssumption DEF IndInv, TypeOK, CallState
  <2> QED BY <1>1, <1>3, <2>1 DEF Served
<1> QED BY <1>2, <1>3

\* A step of the second loop that records the listener it comes to, if that is due.
LEMMA AddingServes ==
    ASSUME IndInv, ServedInv, NEW o \in Owner, Adding(o), listeners \subseteq listeners',
           o \in Due(target) => o \in listeners'
    PROVE  ServedInv'
<1>1. /\ todo' = todo \ {o} /\ UNCHANGED <<phase, target, accepted, shutdown>>
  BY DEF Adding
<1>2. Due(target) \subseteq listeners \cup todo => Due(target) \subseteq listeners' \cup todo'
  BY <1>1
<1> QED BY <1>1, <1>2, ServedKept

\* The second loop passes over a webhook source only if it is misplaced, and then no
\* listener is due for it.
LEMMA SkippedNotDue ==
    ASSUME IndInv, NEW o \in Owner, SkipSource(o)
    PROVE  o \notin Due(target)
<1> SUFFICES ASSUME o \in Due(target) PROVE FALSE
  OBVIOUS
<1>1. /\ sources \in SourceLists /\ Validate(sources) /\ accepted[target] = sources
  BY DEF SkipSource, Adding, IndInv, TypeOK, CallState
<1>2. PICK i \in DOMAIN sources : /\ sources[i].type = "Webhook" /\ ~Misplaced(sources[i])
                                  /\ o = <<target, generateListenerKey(sources[i])>>
  BY <1>1 DEF Due
<1>3. o[2] = generateListenerKey(sources[i]) /\ o[2].type = "Webhook"
  BY <1>2 DEF generateListenerKey
<1>4. desiredSource(sources, o[2]) = sources[i]
  BY <1>1, <1>2, <1>3, KeyNamesSource
<1> QED BY <1>2, <1>3, <1>4 DEF SkipSource

\* What is due are listeners of the Config for keys of its list.
LEMMA DueFacts ==
    ASSUME NEW c \in Configs, NEW o \in Due(c)
    PROVE  o[1] = c /\ o[2] \in desiredListeners(accepted[c]) /\ o = <<c, o[2]>> /\ IsWebhook(o)
  BY DEF Due, desiredListeners, IsWebhook, generateListenerKey

\* Every step keeps what is due served.
LEMMA NextServes ==
    ASSUME IndInv, ServedInv, [Next]_vars
    PROVE  ServedInv'
<1>1. CASE UNCHANGED vars
  <2>1. UNCHANGED <<phase, target, accepted, shutdown, listeners, todo>>
    BY <1>1 DEF vars
  <2> QED BY <2>1, ServedKept
<1>2. ASSUME NEW c \in Configs, NEW list \in SourceLists, RejectSources(c, list)
      PROVE  ServedInv'
  BY <1>2, ServedKept DEF RejectSources
<1>3. ASSUME NEW c \in Configs, NEW list \in SourceLists, ManageListeners(c, list)
      PROVE  ServedInv'
  <2>1. /\ phase = "idle" /\ phase' = "remove" /\ target' = c
        /\ UNCHANGED <<shutdown, listeners>>
        /\ \A d \in Configs : d # c => accepted'[d] = accepted[d]
    BY <1>3 DEF ManageListeners, IndInv, TypeOK
  <2>2. ASSUME shutdown # "stopped", NEW d \in Configs, d # c
        PROVE  Served(d)'
    <3>1. Served(d) /\ Panics(d)' = Panics(d) /\ Due(d)' = Due(d)
      BY <2>1, <2>2 DEF ServedInv, Panics, Due
    <3> QED BY <2>1, <2>2, <3>1 DEF Served
  <2>3. Served(c)'
    BY <2>1 DEF Served
  <2> QED BY <2>1, <2>2, <2>3 DEF ServedInv
<1>4. ASSUME NEW o \in Owner, RemoveUnwanted(o) PROVE ServedInv'
  <2>1. /\ phase = "remove" /\ UNCHANGED <<phase, target, accepted, shutdown>>
        /\ listeners' = listeners \ {o} /\ o[1] = target
    BY <1>4 DEF RemoveUnwanted, StopListener, IndInv, CallState, Unwanted
  <2>2. \A c \in Configs : c # target => Due(c) \cap listeners \subseteq listeners'
    BY <2>1, DueFacts
  <2> QED BY <2>1, <2>2, ServedKept
<1>5. CASE BeginAdding
  <2>1. /\ phase = "remove" /\ phase' = "add" /\ todo' = Missing(target, sources)
        /\ UNCHANGED <<target, accepted, shutdown, listeners>>
        /\ target \in Configs /\ accepted[target] = sources
    BY <1>5 DEF BeginAdding, IndInv, TypeOK, CallState
  <2>2. Due(target) \subseteq listeners' \cup todo'
    <3>1. ASSUME NEW o \in Due(target) PROVE o \in {target} \X desiredListeners(sources)
      BY <2>1, DueFacts
    <3> QED BY <2>1, <3>1 DEF Missing
  <2>3. ASSUME shutdown # "stopped", NEW c \in Configs PROVE Served(c)'
    <3>1. Served(c) /\ Panics(c)' = Panics(c) /\ Due(c)' = Due(c)
      BY <2>1, <2>3 DEF ServedInv, Panics, Due
    <3> QED BY <2>1, <2>2, <3>1 DEF Served
  <2> QED BY <2>1, <2>3 DEF ServedInv
<1>6. ASSUME NEW o \in Owner,
             \/ StartWebhook(o) \/ StartSocket(o) \/ StartServer(o)
             \/ StartPoller(o) \/ StartWatch(o)
      PROVE  ServedInv'
  <2>1. Adding(o) /\ listeners' = listeners \cup {o}
    BY <1>6 DEF StartWebhook, StartSocket, StartServer, StartPoller, StartWatch
  <2> QED BY <2>1, AddingServes
<1>7. ASSUME NEW o \in Owner, SkipSource(o) PROVE ServedInv'
  <2>1. Adding(o) /\ listeners' = listeners
    BY <1>7 DEF SkipSource
  <2> QED BY <1>7, <2>1, AddingServes, SkippedNotDue
<1>8. ASSUME phase = "add", phase' = "idle", target' = None,
             UNCHANGED <<listeners, accepted, shutdown>>,
             todo = {} \/ Panics(target)
      PROVE  ServedInv'
  <2> SUFFICES ASSUME shutdown # "stopped", NEW c \in Configs PROVE Served(c)'
    BY <1>8 DEF ServedInv
  <2>1. Served(c) /\ Panics(c)' = Panics(c) /\ Due(c)' = Due(c)
    BY <1>8 DEF ServedInv, Panics, Due
  <2> QED BY <1>8, <2>1 DEF Served
<1>9. CASE FinishManage
  BY <1>8, <1>9 DEF FinishManage
<1>10. ASSUME NEW o \in Owner, StartPanics(o) PROVE ServedInv'
  <2>1. Panics(target)
    BY <1>10 DEF StartPanics, IndInv, CallState, Panics
  <2> QED BY <1>8, <1>10, <2>1 DEF StartPanics
<1>11. ASSUME UNCHANGED restOfServer PROVE ServedInv'
  <2>1. UNCHANGED <<phase, target, accepted, shutdown, listeners, todo>>
    BY <1>11
  <2> QED BY <2>1, ServedKept
<1>12. CASE CancelContext
  <2>1. UNCHANGED <<phase, target, accepted, listeners, todo>> /\ shutdown = "running"
    BY <1>12 DEF CancelContext
  <2> QED BY <2>1, ServedKept
<1>13. ASSUME StopAll \/ FinishStopAll \/ \E o \in Owner : StopNext(o) PROVE ServedInv'
  <2>1. phase' = "stopall" \/ shutdown' = "stopped"
    BY <1>13 DEF StopAll, FinishStopAll, StopNext
  <2> QED BY <2>1 DEF ServedInv
<1>14. CASE Restart
  <2>1. \A c \in Configs : accepted'[c] = <<>>
    BY <1>14 DEF Restart
  <2>2. \A c \in Configs : Due(c)' = {}
    <3> SUFFICES ASSUME NEW c \in Configs PROVE Due(c)' = {}
      OBVIOUS
    <3>1. accepted'[c] = <<>>
      BY <2>1
    <3>2. DOMAIN accepted'[c] = {}
      BY <3>1
    <3> QED BY <3>2 DEF Due
  <2> QED BY <2>2 DEF ServedInv, Served
<1>15. ASSUME NEW o \in Owner,
              \/ ServerChecks(o) \/ ServerListens(o) \/ ServerFails(o) \/ ServerServes(o)
              \/ LateListens(o) \/ LateFails(o)
       PROVE  UNCHANGED restOfServer
  BY <1>15 DEF ServerChecks, ServerListens, ServerFails, ServerServes, LateListens, LateFails
<1>16. ASSUME NEW a \in Addrs, ServeRefuses(a) PROVE UNCHANGED restOfServer
  BY <1>16 DEF ServeRefuses
<1> QED
  BY <1>1, <1>2, <1>3, <1>4, <1>5, <1>6, <1>7, <1>9, <1>10, <1>11, <1>12, <1>13, <1>14,
     <1>15, <1>16 DEF Next

\* Between calls every well-placed webhook source of the last valid list has its listener,
\* through any history of edits, rejected lists, failing starts and the shutdown
\* (manager.go:87-125).
THEOREM WebhookSourcesServed == Spec => []WebhooksServed
<1>1. Init => ServedInv
  <2> SUFFICES ASSUME Init, NEW c \in Configs PROVE Due(c) = {}
    BY DEF ServedInv, Served
  <2>1. accepted[c] = <<>>
    BY DEF Init
  <2>2. DOMAIN accepted[c] = {}
    BY <2>1
  <2> QED BY <2>2 DEF Due
<1>2. IndInv /\ ServedInv /\ [Next]_vars => ServedInv'
  BY NextServes
<1>3. IndInv /\ ServedInv => WebhooksServed
  <2> SUFFICES ASSUME IndInv, ServedInv, phase = "idle", shutdown # "stopped",
                      NEW c \in Configs, NEW i \in DOMAIN accepted[c],
                      accepted[c][i].type = "Webhook", ~Misplaced(accepted[c][i]),
                      ~Panics(c)
               PROVE  <<c, generateListenerKey(accepted[c][i])>> \in listeners
    BY DEF WebhooksServed, Panics
  <2>1. <<c, generateListenerKey(accepted[c][i])>> \in Due(c)
    BY DEF Due
  <2>2. Due(c) \subseteq listeners
    BY DEF ServedInv, Served
  <2> QED BY <2>1, <2>2
<1> QED BY <1>1, <1>2, <1>3, Invariance, PTL DEF Spec
================================================================================
