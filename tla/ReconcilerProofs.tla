---------------------------- MODULE ReconcilerProofs ----------------------------
(***************************************************************************)
(* Proofs about Reconciler for any number of Configs and specs, any number *)
(* of writes, failed calls and crashes.                                    *)
(***************************************************************************)
EXTENDS Reconciler, TLAPS

Maybe == Object \cup {Nothing}

\* What a sequence holds after one element is added at its end.
LEMMA AppendFacts ==
    ASSUME NEW S, NEW b \in Seq(S), NEW n \in S
    PROVE  /\ Append(b, n) \in Seq(S)
           /\ DOMAIN Append(b, n) = 1..(Len(b) + 1)
           /\ \A i \in DOMAIN b : Append(b, n)[i] = b[i]
           /\ Append(b, n)[Len(b) + 1] = n
           /\ DOMAIN b = 1..Len(b) /\ Len(b) \in Nat
  OBVIOUS

\* What is left of a sequence when its head is taken.
LEMMA TailFacts ==
    ASSUME NEW S, NEW b \in Seq(S), b # <<>>
    PROVE  /\ Tail(b) \in Seq(S)
           /\ 1 \in DOMAIN b /\ Head(b) = b[1] /\ Head(b) \in S
           /\ \A i \in DOMAIN Tail(b) : i \in Nat /\ i + 1 \in DOMAIN b /\ Tail(b)[i] = b[i + 1]
           /\ \A i \in DOMAIN Tail(b) : \A j \in 1..i : j \in DOMAIN Tail(b)
<1>1. /\ Tail(b) \in Seq(S) /\ Len(b) \in Nat /\ Len(b) > 0
      /\ DOMAIN b = 1..Len(b) /\ DOMAIN Tail(b) = 1..(Len(b) - 1)
      /\ Head(b) = b[1] /\ Head(b) \in S
      /\ \A i \in 1..(Len(b) - 1) : Tail(b)[i] = b[i + 1]
  OBVIOUS
<1> QED BY <1>1

\* A write gives the Config a version newer than all that can still be read.
LEMMA StoreFacts ==
    ASSUME TypeOK, VersionOrder, NEW c \in Configs, NEW o \in Object,
           Store(c, o), view' = view
    PROVE  /\ object' \in [Configs -> Maybe]
           /\ backlog' \in [Configs -> Seq(Maybe)]
           /\ revision' \in [Configs -> Nat]
           /\ \A d \in Configs : d # c => object'[d] = object[d] /\ revision'[d] = revision[d]
                                          /\ Readable(d)' = Readable(d)
           /\ Readable(c)' = Readable(c) \cup {object'[c]}
           /\ object'[c] = IF o.deleting /\ ~o.finalizer /\ ~o.held THEN Nothing
                           ELSE [o EXCEPT !.version = revision[c] + 1]
           /\ revision'[c] = revision[c] + 1
<1> DEFINE new == IF o.deleting /\ ~o.finalizer /\ ~o.held THEN Nothing
                  ELSE [o EXCEPT !.version = revision[c] + 1]
<1>1. revision[c] \in Nat /\ new \in Maybe
  <2>1. revision[c] + 1 \in Nat /\ revision[c] \in Nat
    BY DEF TypeOK
  <2>2. [o EXCEPT !.version = revision[c] + 1] \in Object
    BY <2>1 DEF Object
  <2> QED BY <2>1, <2>2 DEF Maybe
<1>2. /\ object' = [object EXCEPT ![c] = new]
      /\ backlog' = [backlog EXCEPT ![c] = Append(@, new)]
      /\ revision' = [revision EXCEPT ![c] = @ + 1]
  BY DEF Store
<1> HIDE DEF new
<1>3. backlog[c] \in Seq(Maybe)
  BY DEF TypeOK, Maybe
<1>4. object' \in [Configs -> Maybe] /\ revision' \in [Configs -> Nat]
  BY <1>1, <1>2 DEF TypeOK, Maybe
<1>5. backlog' \in [Configs -> Seq(Maybe)]
  BY <1>1, <1>2, <1>3, AppendFacts DEF TypeOK, Maybe
<1>6. \A d \in Configs : d # c => object'[d] = object[d] /\ revision'[d] = revision[d]
                                  /\ backlog'[d] = backlog[d]
  BY <1>2 DEF TypeOK
<1>7. object'[c] = new /\ revision'[c] = revision[c] + 1
      /\ backlog'[c] = Append(backlog[c], new)
  BY <1>2 DEF TypeOK
<1>8. Readable(c)' = Readable(c) \cup {new}
  <2>1. /\ DOMAIN backlog'[c] = 1..(Len(backlog[c]) + 1)
        /\ \A i \in DOMAIN backlog[c] : backlog'[c][i] = backlog[c][i]
        /\ backlog'[c][Len(backlog[c]) + 1] = new
        /\ DOMAIN backlog[c] = 1..Len(backlog[c]) /\ Len(backlog[c]) \in Nat
    BY <1>1, <1>3, <1>7, AppendFacts
  <2>2. ASSUME NEW x \in Readable(c)' PROVE x \in Readable(c) \cup {new}
    BY <2>1, <2>2 DEF Readable
  <2>3. ASSUME NEW x \in Readable(c) PROVE x \in Readable(c)'
    BY <2>1, <2>3 DEF Readable
  <2>4. new \in Readable(c)'
    BY <2>1 DEF Readable
  <2> QED BY <2>2, <2>3, <2>4
<1>9. \A d \in Configs : d # c => Readable(d)' = Readable(d)
  BY <1>6 DEF Readable
<1>10. object'[c] = IF o.deleting /\ ~o.finalizer /\ ~o.held THEN Nothing
                    ELSE [o EXCEPT !.version = revision[c] + 1]
  BY <1>7 DEF new
<1> QED BY <1>4, <1>5, <1>6, <1>7, <1>8, <1>9, <1>10

\* A write keeps the versions in order.
LEMMA StoreKeepsOrder ==
    ASSUME TypeOK, VersionOrder, NEW c \in Configs, NEW o \in Object,
           Store(c, o), view' = view
    PROVE  /\ VersionOrder'
           /\ \A d \in Configs, x \in Maybe : Dated(d, x) => Dated(d, x)'
<1> USE DEF Maybe
<1>0. /\ object' \in [Configs -> Maybe]
      /\ backlog' \in [Configs -> Seq(Maybe)]
      /\ revision' \in [Configs -> Nat]
      /\ \A d \in Configs : d # c => object'[d] = object[d] /\ revision'[d] = revision[d]
                                     /\ Readable(d)' = Readable(d)
      /\ Readable(c)' = Readable(c) \cup {object'[c]}
      /\ object'[c] = IF o.deleting /\ ~o.finalizer /\ ~o.held THEN Nothing
                      ELSE [o EXCEPT !.version = revision[c] + 1]
      /\ revision'[c] = revision[c] + 1
  BY StoreFacts
<1>1. revision \in [Configs -> Nat] /\ view \in [Configs -> Maybe]
      /\ backlog \in [Configs -> Seq(Maybe)]
  BY DEF TypeOK
<1>2. \A x \in Maybe : x # Nothing => x.version \in Nat
  BY DEF Object
<1>3. ASSUME NEW d \in Configs, NEW x \in Maybe, Dated(d, x)
      PROVE  Dated(d, x)'
  BY <1>0, <1>1, <1>2, <1>3 DEF Dated
<1>4. object'[c] # Nothing => object'[c].version = revision'[c]
  BY <1>0 DEF Object
<1>5. \A d \in Configs : object'[d] # Nothing => object'[d].version = revision'[d]
  BY <1>0, <1>4 DEF VersionOrder
<1>6. \A d \in Configs : Readable(d) \subseteq Maybe
  BY <1>1 DEF Readable
<1>7. ASSUME NEW d \in Configs, NEW x \in Readable(d)'
      PROVE  Dated(d, x)'
  <2>1. CASE x \in Readable(d)
    BY <1>3, <1>6, <2>1 DEF VersionOrder
  <2>2. CASE d = c /\ x = object'[c]
    BY <1>0, <1>4, <2>2 DEF Dated
  <2> QED BY <1>0, <2>1, <2>2
<1>8. ASSUME NEW d \in Configs, NEW i \in DOMAIN backlog'[d]
      PROVE  /\ Older(view'[d], backlog'[d][i])
             /\ \A j \in 1..i : Older(backlog'[d][j], backlog'[d][i])
  <2>1. CASE d # c
    <3>1. backlog'[d] = backlog[d]
      BY <1>1, <2>1 DEF Store
    <3> QED BY <3>1 DEF VersionOrder
  <2>2. CASE d = c
    <3>1. backlog[c] \in Seq(Maybe) /\ object'[c] \in Maybe
          /\ backlog'[c] = Append(backlog[c], object'[c])
      BY <1>0, <1>1 DEF Store
    <3>2. /\ DOMAIN backlog'[c] = 1..(Len(backlog[c]) + 1)
          /\ \A k \in DOMAIN backlog[c] : backlog'[c][k] = backlog[c][k]
          /\ backlog'[c][Len(backlog[c]) + 1] = object'[c]
          /\ DOMAIN backlog[c] = 1..Len(backlog[c]) /\ Len(backlog[c]) \in Nat
      BY <3>1, AppendFacts
    <3>3. CASE i \in DOMAIN backlog[c]
      <4>1. \A j \in 1..i : j \in DOMAIN backlog[c]
        BY <3>2, <3>3
      <4> QED BY <2>2, <3>2, <3>3, <4>1 DEF VersionOrder
    <3>4. CASE i = Len(backlog[c]) + 1
      <4>1. ASSUME NEW x \in Readable(c) PROVE Older(x, object'[c])
        <5>1. Dated(c, x) /\ x \in Maybe
          BY <1>6 DEF VersionOrder
        <5> QED BY <5>1, <1>0, <1>1, <1>2, <1>4 DEF Dated, Older
      <4>2. Older(view'[c], backlog'[c][i])
        BY <3>2, <3>4, <4>1 DEF Readable
      <4>3. ASSUME NEW j \in 1..i PROVE Older(backlog'[c][j], backlog'[c][i])
        <5>1. CASE j \in DOMAIN backlog[c]
          BY <3>2, <3>4, <4>1, <5>1 DEF Readable
        <5>2. CASE j = i
          BY <1>2, <3>1, <3>2, <3>4, <5>2 DEF Older
        <5> QED BY <3>2, <3>4, <5>1, <5>2
      <4> QED BY <2>2, <4>2, <4>3
    <3> QED BY <2>2, <3>2, <3>3, <3>4
  <2> QED BY <2>1, <2>2
<1>9. VersionOrder'
  BY <1>5, <1>7, <1>8 DEF VersionOrder
<1> QED BY <1>3, <1>9

\* A write that does not take the finalizer away takes nothing away from the
\* invariant, as far as it speaks of the API server and of what can be read.
LEMMA StoreKeepsFinalizer ==
    ASSUME IndInv, NEW c \in Configs, NEW o \in Object, Store(c, o), view' = view,
           object[c] # Nothing /\ object[c].finalizer => o.finalizer
    PROVE  \A d \in Configs :
               /\ object[d] # Nothing /\ object[d].finalizer =>
                     object'[d] # Nothing /\ object'[d].finalizer
               /\ \A x \in Readable(d)' :
                     Serving(x) => object'[d] # Nothing /\ object'[d].finalizer
<1>0. /\ \A d \in Configs : d # c => object'[d] = object[d] /\ Readable(d)' = Readable(d)
      /\ Readable(c)' = Readable(c) \cup {object'[c]}
      /\ object'[c] = IF o.deleting /\ ~o.finalizer /\ ~o.held THEN Nothing
                      ELSE [o EXCEPT !.version = revision[c] + 1]
  BY StoreFacts DEF IndInv
<1>1. o.finalizer => object'[c] # Nothing /\ object'[c].finalizer
  <2> SUFFICES ASSUME o.finalizer PROVE object'[c] # Nothing /\ object'[c].finalizer
    OBVIOUS
  <2>1. object'[c] = [o EXCEPT !.version = revision[c] + 1]
    BY <1>0
  <2>2. revision[c] + 1 \in Nat
    BY DEF IndInv, TypeOK
  <2>3. object'[c] \in Object /\ object'[c].finalizer
    BY <2>1, <2>2 DEF Object
  <2> QED BY <2>3, NothingAssumption
<1>2. ASSUME NEW d \in Configs, object[d] # Nothing, object[d].finalizer
      PROVE  object'[d] # Nothing /\ object'[d].finalizer
  BY <1>0, <1>1, <1>2
<1>3. ASSUME NEW d \in Configs, NEW x \in Readable(d)', Serving(x)
      PROVE  object'[d] # Nothing /\ object'[d].finalizer
  <2>1. CASE x \in Readable(d)
    BY <1>2, <1>3, <2>1 DEF IndInv, FinalizerKept
  <2>2. CASE d = c /\ x = object'[c]
    BY <1>3, <2>2 DEF Serving
  <2> QED BY <1>0, <2>1, <2>2
<1> QED BY <1>2, <1>3

\* A write by somebody else.
LEMMA OthersPreserve ==
    ASSUME IndInv, NEW c \in Configs, NEW o \in Object, Store(c, o),
           object[c] # Nothing /\ object[c].finalizer => o.finalizer,
           UNCHANGED <<informerVars, callVars, memory>>,
           writes' \in 0..MaxWrites, faults' \in 0..MaxFaults
    PROVE  IndInv'
<1> USE DEF Maybe
<1>0. UNCHANGED <<view, queue, pc, req, cfg, accepted, cache>>
  BY DEF informerVars, callVars, memory
<1>1. /\ object' \in [Configs -> Maybe] /\ backlog' \in [Configs -> Seq(Maybe)]
      /\ revision' \in [Configs -> Nat]
      /\ \A d \in Configs : d # c => Readable(d)' = Readable(d)
      /\ Readable(c)' = Readable(c) \cup {object'[c]}
  BY <1>0, StoreFacts DEF IndInv
<1>2. VersionOrder' /\ \A d \in Configs, x \in Maybe : Dated(d, x) => Dated(d, x)'
  BY <1>0, StoreKeepsOrder DEF IndInv
<1>3. \A d \in Configs :
          /\ object[d] # Nothing /\ object[d].finalizer =>
                object'[d] # Nothing /\ object'[d].finalizer
          /\ \A x \in Readable(d)' :
                Serving(x) => object'[d] # Nothing /\ object'[d].finalizer
  BY <1>0, StoreKeepsFinalizer
<1>4. TypeOK'
  BY <1>0, <1>1 DEF IndInv, TypeOK
<1>5. GuardedByFinalizer'
  BY <1>0, <1>3 DEF IndInv, GuardedByFinalizer
<1>6. cfg # Nothing => req \in Configs
  BY DEF IndInv, TypeOK
<1>7. ReadOrder'
  <2> SUFFICES ASSUME cfg # Nothing
               PROVE  Dated(req, cfg)' /\ \A x \in Readable(req)' : Older(cfg, x)
    BY <1>0 DEF ReadOrder
  <2>1. Dated(req, cfg) /\ cfg \in Maybe /\ \A x \in Readable(req) : Older(cfg, x)
    BY DEF IndInv, ReadOrder, TypeOK
  <2>2. Dated(req, cfg)'
    BY <1>0, <1>2, <1>6, <2>1
  <2>3. object'[req] # Nothing => object'[req].version = revision'[req]
    BY <1>2, <1>6 DEF VersionOrder
  <2>4. Older(cfg, object'[req])
    BY <1>0, <2>2, <2>3 DEF Dated, Older
  <2>5. ASSUME NEW x \in Readable(req)' PROVE Older(cfg, x)
    <3>1. x \in Readable(req) \/ x = object'[req]
      <4>1. req' = req /\ cfg # Nothing
        BY <1>0
      <4>2. CASE req = c
        BY <1>1, <4>1, <4>2
      <4>3. CASE req # c
        BY <1>1, <1>6, <4>1, <4>3
      <4> QED BY <4>2, <4>3
    <3> QED BY <2>1, <2>4, <3>1
  <2> QED BY <2>2, <2>5
<1>8. FinalizerKept'
  BY <1>0, <1>3, <1>6 DEF IndInv, FinalizerKept, Serving
<1>9. CallState'
  BY <1>0 DEF IndInv, CallState, Serving
<1> QED BY <1>2, <1>4, <1>5, <1>7, <1>8, <1>9 DEF IndInv

\* An Update that the API server accepts is based on the present object, and then
\* nothing older can be read any more.
LEMMA CurrentIsRead ==
    ASSUME IndInv, cfg # Nothing, Current
    PROVE  /\ req \in Configs /\ cfg \in Object /\ cfg = object[req]
           /\ \A x \in Readable(req) : x # Nothing => x = object[req]
<1>1. /\ req \in Configs /\ cfg \in Object
      /\ revision[req] \in Nat /\ Readable(req) \subseteq Object \cup {Nothing}
  BY DEF IndInv, TypeOK, Readable
<1>2. object[req] # Nothing /\ object[req].version = cfg.version
      /\ object[req].version = revision[req]
  BY <1>1 DEF Current, IndInv, VersionOrder
<1>3. cfg = object[req]
  BY <1>2 DEF IndInv, ReadOrder, Dated
<1>4. ASSUME NEW x \in Readable(req), x # Nothing PROVE x = object[req]
  <2>1. x.version \in Nat
    BY <1>1, <1>4 DEF Object
  <2>2. Older(cfg, x) /\ Dated(req, x)
    BY <1>1 DEF IndInv, ReadOrder, VersionOrder
  <2> QED BY <1>1, <1>2, <1>4, <2>1, <2>2 DEF Older, Dated
<1> QED BY <1>1, <1>3, <1>4

\* Between calls there is nothing to say about the Config that was read.
LEMMA IdleFacts ==
    ASSUME cfg' = Nothing
    PROVE  ReadOrder' /\ ~Serving(cfg')
  BY DEF ReadOrder, Serving

\* RemoveFinalizer: nothing that can still be read is serving.
LEMMA RemoveFinalizerPreserves ==
    ASSUME IndInv, RemoveFinalizer
    PROVE  IndInv'
<1> USE DEF Maybe
<1> DEFINE o == [cfg EXCEPT !.finalizer = FALSE]
<1>1. /\ pc = "unfinalize" /\ Current /\ Store(req, o)
      /\ pc' = "idle" /\ req' = Nothing /\ cfg' = Nothing
      /\ UNCHANGED <<view, queue, accepted, cache, writes, faults>>
  BY DEF RemoveFinalizer, Return, informerVars, memory, bounds
<1>2. cfg # Nothing /\ cfg.deleting /\ cfg.finalizer /\ accepted[req] = Nothing
  BY <1>1 DEF IndInv, TypeOK, CallState
<1>3. PICK c \in Configs : c = req
  BY <1>2 DEF IndInv, TypeOK
<1>4. /\ cfg \in Object /\ cfg = object[c]
      /\ \A x \in Readable(c) : x # Nothing => x = object[c]
  BY <1>1, <1>2, <1>3, CurrentIsRead
<1>5. o \in Object /\ ~o.finalizer /\ o.deleting
  BY <1>2, <1>4 DEF Object
<1> HIDE DEF o
<1>6. Store(c, o) /\ view' = view
  BY <1>1, <1>3
<1>7. /\ object' \in [Configs -> Maybe] /\ backlog' \in [Configs -> Seq(Maybe)]
      /\ revision' \in [Configs -> Nat]
      /\ \A d \in Configs : d # c => object'[d] = object[d] /\ Readable(d)' = Readable(d)
      /\ Readable(c)' = Readable(c) \cup {object'[c]}
      /\ object'[c] = IF o.deleting /\ ~o.finalizer /\ ~o.held THEN Nothing
                      ELSE [o EXCEPT !.version = revision[c] + 1]
  BY <1>5, <1>6, StoreFacts DEF IndInv
<1>8. VersionOrder'
  BY <1>5, <1>6, StoreKeepsOrder DEF IndInv
<1>9. TypeOK'
  BY <1>1, <1>7 DEF IndInv, TypeOK
<1>10. GuardedByFinalizer'
  BY <1>1, <1>2, <1>3, <1>7 DEF IndInv, GuardedByFinalizer
<1>11. ASSUME NEW d \in Configs, NEW x \in Readable(d)', Serving(x)
       PROVE  object'[d] # Nothing /\ object'[d].finalizer
  <2>1. CASE d # c
    BY <1>7, <1>11, <2>1 DEF IndInv, FinalizerKept
  <2>2. CASE d = c
    <3>1. ~Serving(object[c])
      BY <1>2, <1>4 DEF Serving
    <3>2. ~Serving(object'[c])
      BY <1>5, <1>7 DEF Serving, Object
    <3>3. x \in Readable(c) \/ x = object'[c]
      BY <1>7, <1>11, <2>2
    <3>4. ~Serving(x)
      BY <1>4, <3>1, <3>2, <3>3 DEF Serving
    <3> QED BY <1>11, <3>4
  <2> QED BY <2>1, <2>2
<1>12. FinalizerKept' /\ ReadOrder'
  BY <1>1, <1>11, IdleFacts DEF FinalizerKept
<1>13. CallState'
  BY <1>1 DEF CallState
<1> QED BY <1>8, <1>9, <1>10, <1>12, <1>13 DEF IndInv

\* AddFinalizer and Annotate write the present object with one field more.
LEMMA UpdatePreserves ==
    ASSUME IndInv, AddFinalizer \/ Annotate
    PROVE  IndInv'
<1> USE DEF Maybe
<1>1. /\ cfg # Nothing /\ Current
      /\ UNCHANGED <<view, queue, accepted, cache, writes, faults>>
      /\ \/ pc' = "idle" /\ req' = Nothing /\ cfg' = Nothing
         \/ pc = "annotate" /\ pc' = "destinations" /\ req' = req /\ cfg' = cfg /\ Serving(cfg)
  BY DEF AddFinalizer, Annotate, Allowed, Return, informerVars, memory, bounds,
         IndInv, TypeOK, CallState
<1>2. PICK c \in Configs : c = req
  BY <1>1 DEF IndInv, TypeOK
<1>3. cfg \in Object /\ cfg = object[c]
  BY <1>1, <1>2, CurrentIsRead
<1>4. PICK o \in Object : Store(c, o) /\ o.finalizer
  <2>1. CASE AddFinalizer
    <3>1. [cfg EXCEPT !.finalizer = TRUE] \in Object /\ [cfg EXCEPT !.finalizer = TRUE].finalizer
      BY <1>3 DEF Object
    <3> QED BY <1>2, <2>1, <3>1 DEF AddFinalizer
  <2>2. CASE Annotate
    <3>1. cfg.finalizer
      BY <2>2 DEF Annotate, IndInv, CallState, Serving
    <3>2. [cfg EXCEPT !.processed = TRUE] \in Object /\ [cfg EXCEPT !.processed = TRUE].finalizer
      BY <1>3, <3>1 DEF Object
    <3> QED BY <1>2, <2>2, <3>2 DEF Annotate
  <2> QED BY <2>1, <2>2
<1>5. /\ object' \in [Configs -> Maybe] /\ backlog' \in [Configs -> Seq(Maybe)]
      /\ revision' \in [Configs -> Nat]
      /\ Readable(c)' = Readable(c) \cup {object'[c]}
  BY <1>1, <1>4, StoreFacts DEF IndInv
<1>6. VersionOrder' /\ \A d \in Configs, x \in Maybe : Dated(d, x) => Dated(d, x)'
  BY <1>1, <1>4, StoreKeepsOrder DEF IndInv
<1>7. \A d \in Configs :
          /\ object[d] # Nothing /\ object[d].finalizer =>
                object'[d] # Nothing /\ object'[d].finalizer
          /\ \A x \in Readable(d)' :
                Serving(x) => object'[d] # Nothing /\ object'[d].finalizer
  BY <1>1, <1>4, StoreKeepsFinalizer
<1>8. TypeOK'
  BY <1>1, <1>5 DEF IndInv, TypeOK
<1>9. GuardedByFinalizer'
  BY <1>1, <1>7 DEF IndInv, GuardedByFinalizer
<1>10. CASE cfg' = Nothing /\ pc' = "idle"
  <2>1. ReadOrder' /\ FinalizerKept'
    BY <1>7, <1>10, IdleFacts DEF FinalizerKept
  <2>2. CallState'
    BY <1>10 DEF CallState
  <2> QED BY <1>6, <1>8, <1>9, <2>1, <2>2 DEF IndInv
<1>11. CASE pc' = "destinations" /\ req' = req /\ cfg' = cfg /\ Serving(cfg)
  <2>1. Dated(c, cfg) /\ \A x \in Readable(c) : Older(cfg, x)
    BY <1>1, <1>2 DEF IndInv, ReadOrder
  <2>2. PICK k \in Object : k = cfg
    BY <1>3
  <2>3. Dated(c, k)'
    BY <1>6, <2>1, <2>2
  <2>4. object'[c] # Nothing => object'[c].version = revision'[c]
    BY <1>6 DEF VersionOrder
  <2>5. Older(k, object'[c])
    BY <2>3, <2>4 DEF Dated, Older
  <2>6. \A x \in Readable(c)' : Older(k, x)
    BY <1>5, <2>1, <2>2, <2>5
  <2>7. ReadOrder'
    BY <1>2, <1>11, <2>2, <2>3, <2>6 DEF ReadOrder
  <2>8. FinalizerKept'
    BY <1>2, <1>3, <1>7, <1>11 DEF FinalizerKept, Serving
  <2>9. CallState'
    BY <1>11 DEF CallState, Serving
  <2> QED BY <1>6, <1>8, <1>9, <2>7, <2>8, <2>9 DEF IndInv
<1> QED BY <1>1, <1>10, <1>11

\* The informer moves on to the next state: less can be read than before.
LEMMA DeliverPreserves ==
    ASSUME IndInv, NEW c \in Configs, Deliver(c)
    PROVE  IndInv'
<1> USE DEF Maybe
<1>1. /\ backlog[c] # <<>>
      /\ view' = [view EXCEPT ![c] = Head(backlog[c])]
      /\ backlog' = [backlog EXCEPT ![c] = Tail(backlog[c])]
      /\ queue' = queue \cup {c}
      /\ UNCHANGED <<object, revision, pc, req, cfg, accepted, cache, writes, faults>>
  BY DEF Deliver, callVars, memory, bounds
<1>2. backlog \in [Configs -> Seq(Maybe)] /\ view \in [Configs -> Maybe]
  BY DEF IndInv, TypeOK
<1>3. /\ Tail(backlog[c]) \in Seq(Maybe)
      /\ 1 \in DOMAIN backlog[c] /\ Head(backlog[c]) = backlog[c][1] /\ Head(backlog[c]) \in Maybe
      /\ \A i \in DOMAIN Tail(backlog[c]) : \A j \in 1..i : j \in DOMAIN Tail(backlog[c])
      /\ \A i \in DOMAIN Tail(backlog[c]) :
            i \in Nat /\ i + 1 \in DOMAIN backlog[c] /\ Tail(backlog[c])[i] = backlog[c][i + 1]
  BY <1>1, <1>2, TailFacts
<1>4. /\ view'[c] = backlog[c][1] /\ backlog'[c] = Tail(backlog[c])
      /\ \A d \in Configs : d # c => view'[d] = view[d] /\ backlog'[d] = backlog[d]
  BY <1>1, <1>2, <1>3
<1>5. TypeOK'
  <2>1. view' \in [Configs -> Maybe] /\ backlog' \in [Configs -> Seq(Maybe)]
    BY <1>1, <1>2, <1>3
  <2> QED BY <1>1, <2>1 DEF IndInv, TypeOK
<1>6. ASSUME NEW d \in Configs PROVE Readable(d)' \subseteq Readable(d)
  <2>1. CASE d # c
    BY <1>4, <2>1 DEF Readable
  <2>2. CASE d = c
    <3>1. view'[c] \in Readable(c)
      BY <1>3, <1>4 DEF Readable
    <3>2. ASSUME NEW i \in DOMAIN backlog'[c] PROVE backlog'[c][i] \in Readable(c)
      <4>1. i + 1 \in DOMAIN backlog[c] /\ backlog'[c][i] = backlog[c][i + 1]
        BY <1>3, <1>4
      <4> QED BY <4>1 DEF Readable
    <3>3. ASSUME NEW x \in Readable(c)' PROVE x \in Readable(c)
      <4>1. x = view'[c] \/ \E i \in DOMAIN backlog'[c] : x = backlog'[c][i]
        BY DEF Readable
      <4> QED BY <3>1, <3>2, <4>1
    <3> QED BY <2>2, <3>3
  <2> QED BY <2>1, <2>2
<1>7. ASSUME NEW d \in Configs, NEW i \in DOMAIN backlog'[d]
      PROVE  /\ Older(view'[d], backlog'[d][i])
             /\ \A j \in 1..i : Older(backlog'[d][j], backlog'[d][i])
  <2>1. CASE d # c
    BY <1>4, <2>1 DEF IndInv, VersionOrder
  <2>2. CASE d = c
    <3>1. i \in Nat /\ i + 1 \in DOMAIN backlog[c] /\ backlog'[c][i] = backlog[c][i + 1]
      BY <1>3, <1>4, <2>2
    <3>2. \A j \in 1..(i + 1) : Older(backlog[c][j], backlog[c][i + 1])
      BY <3>1 DEF IndInv, VersionOrder
    <3>3. Older(view'[c], backlog'[c][i])
      <4>1. 1 \in 1..(i + 1)
        BY <3>1
      <4> QED BY <1>4, <3>1, <3>2, <4>1
    <3>4. ASSUME NEW j \in 1..i PROVE Older(backlog'[c][j], backlog'[c][i])
      <4>1. j \in DOMAIN Tail(backlog[c])
        BY <1>3, <1>4, <2>2
      <4>2. backlog'[c][j] = backlog[c][j + 1] /\ j + 1 \in 1..(i + 1)
        BY <1>3, <1>4, <3>1, <4>1
      <4> QED BY <3>1, <3>2, <4>2
    <3> QED BY <2>2, <3>3, <3>4
  <2> QED BY <2>1, <2>2
<1>8. VersionOrder'
  <2>1. \A d \in Configs : object'[d] # Nothing => object'[d].version = revision'[d]
    BY <1>1 DEF IndInv, VersionOrder
  <2>2. \A d \in Configs : \A x \in Readable(d)' : Dated(d, x)'
    BY <1>1, <1>6 DEF IndInv, VersionOrder, Dated
  <2> QED BY <1>7, <2>1, <2>2 DEF VersionOrder
<1>9. ReadOrder'
  <2>1. cfg # Nothing => req \in Configs
    BY DEF IndInv, TypeOK
  <2>2. cfg # Nothing => \A x \in Readable(req)' : x \in Readable(req)
    BY <1>1, <1>6, <2>1
  <2> QED BY <1>1, <2>2 DEF IndInv, ReadOrder, Dated
<1>10. FinalizerKept'
  BY <1>1, <1>6 DEF IndInv, FinalizerKept, Serving
<1>11. GuardedByFinalizer' /\ CallState'
  BY <1>1 DEF IndInv, GuardedByFinalizer, CallState, Serving
<1> QED BY <1>5, <1>8, <1>9, <1>10, <1>11 DEF IndInv

\* Steps of Reconcile that neither read nor write a Config.
LEMMA SameApi ==
    ASSUME IndInv, UNCHANGED <<object, backlog, revision, view>>
    PROVE  /\ VersionOrder'
           /\ \A c \in Configs : Readable(c)' = Readable(c)
           /\ \A c \in Configs : \A x : Dated(c, x)' <=> Dated(c, x)
           /\ \A c \in Configs : \A x \in Readable(c)' :
                 Serving(x) => object'[c] # Nothing /\ object'[c].finalizer
  BY DEF IndInv, VersionOrder, Readable, Dated, FinalizerKept

\* Get: what is read is what the informer has, and Branch looks at it.
LEMMA GetPreserves ==
    ASSUME IndInv, Get
    PROVE  IndInv'
<1>1. /\ pc = "get" /\ cfg' = view[req] /\ pc' = Branch(view[req]) /\ req' = req
      /\ UNCHANGED <<object, backlog, revision, view, queue, accepted, cache, writes, faults>>
  BY DEF Get, informerVars, apiVars, memory, bounds
<1>2. PICK c \in Configs : c = req
  BY <1>1 DEF IndInv, TypeOK
<1>3. PICK k \in Object \cup {Nothing} : k = view[c]
  BY DEF IndInv, TypeOK
<1>4. /\ VersionOrder'
      /\ Readable(c)' = Readable(c)
      /\ \A x : Dated(c, x)' <=> Dated(c, x)
      /\ \A d \in Configs : \A x \in Readable(d)' :
            Serving(x) => object'[d] # Nothing /\ object'[d].finalizer
  BY <1>1, SameApi
<1>5. k = Nothing => pc' = "teardown"
  BY <1>1, <1>2, <1>3 DEF Branch
<1>6. k # Nothing => \/ pc' = "cleanup" /\ k.deleting /\ k.finalizer
                     \/ pc' = "finalize"
                     \/ pc' \in {"annotate", "destinations"} /\ Serving(k)
  BY <1>1, <1>2, <1>3 DEF Branch, Serving
<1>7. TypeOK'
  BY <1>1, <1>2, <1>3, <1>5, <1>6 DEF IndInv, TypeOK
<1>8. k \in Readable(c)
  BY <1>3 DEF Readable
<1>9. ReadOrder'
  <2>1. Dated(c, k)'
    BY <1>4, <1>8 DEF IndInv, VersionOrder
  <2>2. ASSUME NEW x \in Readable(c) PROVE Older(k, x)
    <3>1. CASE x = k
      BY <3>1 DEF Older, Object
    <3>2. CASE \E i \in DOMAIN backlog[c] : x = backlog[c][i]
      BY <1>3, <3>2 DEF IndInv, VersionOrder
    <3> QED BY <1>3, <3>1, <3>2 DEF Readable
  <2> QED BY <1>1, <1>2, <1>3, <1>4, <2>1, <2>2 DEF ReadOrder
<1>10. FinalizerKept'
  BY <1>1, <1>2, <1>3, <1>4, <1>8 DEF FinalizerKept, Serving
<1>11. CallState'
  BY <1>1, <1>2, <1>3, <1>5, <1>6 DEF CallState
<1>12. GuardedByFinalizer'
  BY <1>1 DEF IndInv, GuardedByFinalizer
<1> QED BY <1>4, <1>7, <1>9, <1>10, <1>11, <1>12 DEF IndInv

\* Init establishes the invariant: there is no Config.
LEMMA InitHolds ==
    ASSUME Init
    PROVE  IndInv
<1> USE DEF Init
<1>1. TypeOK
  BY BoundsAssumption DEF TypeOK
<1>2. \A c \in Configs : /\ object[c] = Nothing /\ DOMAIN backlog[c] = {}
                         /\ Readable(c) = {Nothing}
  <2> SUFFICES ASSUME NEW c \in Configs
               PROVE  /\ object[c] = Nothing /\ DOMAIN backlog[c] = {}
                      /\ Readable(c) = {Nothing}
    OBVIOUS
  <2>1. object[c] = Nothing /\ view[c] = Nothing /\ backlog[c] = <<>>
    OBVIOUS
  <2>2. DOMAIN backlog[c] = {}
    BY <2>1
  <2> QED BY <2>1, <2>2 DEF Readable
<1>3. GuardedByFinalizer /\ ReadOrder /\ CallState /\ ~Serving(Nothing)
  BY DEF GuardedByFinalizer, ReadOrder, CallState, Serving
<1>4. VersionOrder
  BY <1>2 DEF VersionOrder, Dated
<1>5. FinalizerKept
  BY <1>2, <1>3 DEF FinalizerKept
<1> QED BY <1>1, <1>3, <1>4, <1>5 DEF IndInv

\* The writes of users and of other controllers leave the finalizer of this
\* controller alone.
LEMMA UserPreserves ==
    ASSUME IndInv, NEW c \in Configs, User(c) \/ ReleaseConfig(c)
    PROVE  IndInv'
<1>0. /\ object[c] \in Object \cup {Nothing} /\ writes \in 0..MaxWrites
      /\ faults \in 0..MaxFaults
  BY DEF IndInv, TypeOK
<1>1. ASSUME NEW o \in Object, UserWrites(c, o),
             object[c] # Nothing /\ object[c].finalizer => o.finalizer
      PROVE  IndInv'
  <2>1. /\ Store(c, o) /\ UNCHANGED <<informerVars, callVars, memory>>
        /\ writes' \in 0..MaxWrites /\ faults' \in 0..MaxFaults
    BY <1>0, <1>1, BoundsAssumption DEF UserWrites
  <2> QED BY <1>1, <2>1, OthersPreserve
<1>2. ASSUME NEW spec \in Specs, CreateConfig(c, spec) PROVE IndInv'
  <2>1. [spec |-> spec, finalizer |-> FALSE, held |-> FALSE,
         deleting |-> FALSE, processed |-> FALSE, version |-> 0] \in Object
    BY DEF Object
  <2> QED BY <1>1, <1>2, <2>1 DEF CreateConfig
<1>3. ASSUME NEW spec \in Specs, EditConfig(c, spec) PROVE IndInv'
  <2>1. /\ [object[c] EXCEPT !.spec = spec] \in Object
        /\ [object[c] EXCEPT !.spec = spec].finalizer = object[c].finalizer
    BY <1>0, <1>3 DEF EditConfig, Object
  <2> QED BY <1>1, <1>3, <2>1 DEF EditConfig
<1>4. CASE DeleteConfig(c)
  <2>1. /\ [object[c] EXCEPT !.deleting = TRUE] \in Object
        /\ [object[c] EXCEPT !.deleting = TRUE].finalizer = object[c].finalizer
    BY <1>0, <1>4 DEF DeleteConfig, Object
  <2> QED BY <1>1, <1>4, <2>1 DEF DeleteConfig
<1>5. CASE HoldConfig(c)
  <2>1. /\ [object[c] EXCEPT !.held = TRUE] \in Object
        /\ [object[c] EXCEPT !.held = TRUE].finalizer = object[c].finalizer
    BY <1>0, <1>5 DEF HoldConfig, Object
  <2> QED BY <1>1, <1>5, <2>1 DEF HoldConfig
<1>6. CASE ReleaseConfig(c)
  <2>1. /\ [object[c] EXCEPT !.held = FALSE] \in Object
        /\ [object[c] EXCEPT !.held = FALSE].finalizer = object[c].finalizer
    BY <1>0, <1>6 DEF ReleaseConfig, Object
  <2>2. /\ Store(c, [object[c] EXCEPT !.held = FALSE])
        /\ UNCHANGED <<informerVars, callVars, memory>>
        /\ writes' \in 0..MaxWrites /\ faults' \in 0..MaxFaults
    BY <1>0, <1>6 DEF ReleaseConfig, bounds
  <2> QED BY <2>1, <2>2, OthersPreserve
<1> QED BY <1>2, <1>3, <1>4, <1>5, <1>6 DEF User

\* What Reconcile does between Get and its return, other than an accepted Update.
LEMMA CallPreserves ==
    ASSUME IndInv,
           UNCHANGED <<object, backlog, revision, view>>,
           TypeOK', CallState', GuardedByFinalizer',
           cfg' = Nothing \/ (cfg' = cfg /\ req' = req)
    PROVE  IndInv'
<1>1. /\ VersionOrder'
      /\ \A c \in Configs : Readable(c)' = Readable(c)
      /\ \A c \in Configs : \A x : Dated(c, x)' <=> Dated(c, x)
      /\ \A c \in Configs : \A x \in Readable(c)' :
            Serving(x) => object'[c] # Nothing /\ object'[c].finalizer
  BY SameApi
<1>2. CASE cfg' = Nothing
  BY <1>1, <1>2, IdleFacts DEF IndInv, FinalizerKept
<1>3. CASE cfg' = cfg /\ req' = req /\ cfg # Nothing
  <2>1. PICK c \in Configs : c = req
    BY <1>3 DEF IndInv, TypeOK
  <2>2. ReadOrder'
    <3>1. Dated(c, cfg) /\ \A x \in Readable(c) : Older(cfg, x)
      BY <1>3, <2>1 DEF IndInv, ReadOrder
    <3>2. PICK k \in Object \cup {Nothing} : k = cfg
      BY DEF IndInv, TypeOK
    <3>3. Dated(c, k)' /\ \A x \in Readable(c)' : Older(k, x)
      BY <1>1, <3>1, <3>2
    <3> QED BY <1>3, <2>1, <3>2, <3>3 DEF ReadOrder
  <2>3. FinalizerKept'
    BY <1>1, <1>3 DEF IndInv, FinalizerKept, Serving
  <2> QED BY <1>1, <2>2, <2>3 DEF IndInv
<1> QED BY <1>2, <1>3

\* The other steps of Reconcile: an Update that is not accepted, the destinations and
\* the listeners, which are started only for a Config with the finalizer.
LEMMA WorkPreserves ==
    ASSUME IndInv,
           Teardown \/ Cleanup \/ UpdateRefused \/ CallFails
             \/ UpdateDestinationsToWatch \/ ManageListeners
    PROVE  IndInv'
<1> USE DEF informerVars, apiVars, memory, bounds, Return, Requeue
<1>1. req \in Configs
  BY DEF IndInv, TypeOK, Teardown, Cleanup, UpdateRefused, CallFails,
         UpdateDestinationsToWatch, ManageListeners
<1>2. CASE Teardown
  <2>1. TypeOK'
    BY <1>1, <1>2 DEF IndInv, TypeOK, Teardown
  <2>2. CallState' /\ GuardedByFinalizer'
    BY <1>1, <1>2 DEF IndInv, TypeOK, CallState, GuardedByFinalizer, Teardown
  <2> QED BY <1>2, <2>1, <2>2, CallPreserves DEF Teardown
<1>3. CASE Cleanup
  <2>1. TypeOK'
    BY <1>1, <1>3 DEF IndInv, TypeOK, Cleanup
  <2>2. CallState' /\ GuardedByFinalizer'
    BY <1>1, <1>3 DEF IndInv, TypeOK, CallState, GuardedByFinalizer, Cleanup
  <2> QED BY <1>3, <2>1, <2>2, CallPreserves DEF Cleanup
<1>4. CASE UpdateRefused
  <2>1. TypeOK'
    BY <1>1, <1>4 DEF IndInv, TypeOK, UpdateRefused
  <2>2. CallState' /\ GuardedByFinalizer'
    BY <1>4 DEF IndInv, CallState, GuardedByFinalizer, UpdateRefused
  <2> QED BY <1>4, <2>1, <2>2, CallPreserves DEF UpdateRefused
<1>5. CASE CallFails
  <2>1. faults' \in 0..MaxFaults
    BY <1>5, BoundsAssumption DEF IndInv, TypeOK, CallFails
  <2>2. TypeOK'
    BY <1>1, <1>5, <2>1 DEF IndInv, TypeOK, CallFails
  <2>3. CallState' /\ GuardedByFinalizer'
    BY <1>5 DEF IndInv, CallState, GuardedByFinalizer, CallFails
  <2> QED BY <1>5, <2>2, <2>3, CallPreserves DEF CallFails
<1>6. CASE UpdateDestinationsToWatch
  <2>1. cfg \in Object /\ cfg.spec \in Specs
    BY <1>6 DEF IndInv, TypeOK, UpdateDestinationsToWatch, Object
  <2>2. TypeOK'
    BY <1>6, <2>1 DEF IndInv, TypeOK, UpdateDestinationsToWatch
  <2>3. CallState' /\ GuardedByFinalizer'
    BY <1>6 DEF IndInv, CallState, GuardedByFinalizer, Serving, UpdateDestinationsToWatch
  <2> QED BY <1>6, <2>2, <2>3, CallPreserves DEF UpdateDestinationsToWatch
<1>7. CASE ManageListeners
  <2>1. cfg \in Object /\ cfg.spec \in Specs
    BY <1>7 DEF IndInv, TypeOK, ManageListeners, Object
  <2>2. object[req] # Nothing /\ object[req].finalizer
    BY <1>7 DEF IndInv, FinalizerKept, CallState, ManageListeners
  <2>3. TypeOK'
    BY <1>1, <1>7, <2>1 DEF IndInv, TypeOK, ManageListeners
  <2>4. CallState'
    BY <1>7 DEF CallState, ManageListeners
  <2>5. GuardedByFinalizer'
    BY <1>1, <1>7, <2>2 DEF IndInv, TypeOK, GuardedByFinalizer, ManageListeners
  <2> QED BY <1>7, <2>3, <2>4, <2>5, CallPreserves DEF ManageListeners
<1> QED BY <1>2, <1>3, <1>4, <1>5, <1>6, <1>7

\* The worker takes a name; nothing is read yet.
LEMMA DequeuePreserves ==
    ASSUME IndInv, NEW c \in Configs, Dequeue(c)
    PROVE  IndInv'
<1> USE DEF Dequeue, apiVars, memory, bounds
<1>1. cfg' = Nothing /\ UNCHANGED <<object, backlog, revision, view>>
  BY DEF IndInv, TypeOK
<1>2. TypeOK'
  BY NothingAssumption DEF IndInv, TypeOK
<1>3. CallState' /\ GuardedByFinalizer'
  BY DEF IndInv, CallState, GuardedByFinalizer
<1> QED BY <1>1, <1>2, <1>3, CallPreserves

\* After a crash the informer has the present objects and no listener runs.
LEMMA RestartPreserves ==
    ASSUME IndInv, Restart
    PROVE  IndInv'
<1> USE DEF Restart, Return
<1>1. TypeOK'
  <2>1. faults' \in 0..MaxFaults
    BY BoundsAssumption DEF IndInv, TypeOK
  <2>2. backlog' \in [Configs -> Seq(Object \cup {Nothing})]
    OBVIOUS
  <2> QED BY <2>1, <2>2 DEF IndInv, TypeOK
<1>2. \A c \in Configs : DOMAIN backlog'[c] = {} /\ Readable(c)' = {object'[c]}
  <2> SUFFICES ASSUME NEW c \in Configs
               PROVE  DOMAIN backlog'[c] = {} /\ Readable(c)' = {object'[c]}
    OBVIOUS
  <2>1. view'[c] = object'[c] /\ backlog'[c] = <<>>
    OBVIOUS
  <2>2. DOMAIN backlog'[c] = {}
    BY <2>1
  <2> QED BY <2>1, <2>2 DEF Readable
<1>3. VersionOrder'
  <2>1. \A c \in Configs : object'[c] # Nothing => object'[c].version = revision'[c]
    BY DEF IndInv, VersionOrder
  <2>2. revision' \in [Configs -> Nat]
    BY DEF IndInv, TypeOK
  <2> QED BY <1>2, <2>1, <2>2 DEF VersionOrder, Dated
<1>4. FinalizerKept' /\ ReadOrder'
  BY <1>2, IdleFacts DEF FinalizerKept, Serving
<1>5. CallState' /\ GuardedByFinalizer'
  BY DEF CallState, GuardedByFinalizer
<1> QED BY <1>1, <1>3, <1>4, <1>5 DEF IndInv

\* Every step preserves the invariant.
LEMMA NextPreserves ==
    ASSUME IndInv, [Next]_vars
    PROVE  IndInv'
<1>1. CASE UNCHANGED vars
  <2>1. UNCHANGED <<object, backlog, revision, view, pc, req, cfg, accepted>>
    BY <1>1 DEF vars
  <2>2. TypeOK' /\ CallState' /\ GuardedByFinalizer'
    BY <1>1 DEF vars, IndInv, TypeOK, CallState, GuardedByFinalizer, Serving
  <2> QED BY <2>1, <2>2, CallPreserves
<1>2. ASSUME NEW c \in Configs, User(c) \/ ReleaseConfig(c) PROVE IndInv'
  BY <1>2, UserPreserves
<1>3. ASSUME NEW c \in Configs, Deliver(c) PROVE IndInv'
  BY <1>3, DeliverPreserves
<1>4. ASSUME NEW c \in Configs, Dequeue(c) PROVE IndInv'
  BY <1>4, DequeuePreserves
<1>5. CASE Step
  BY <1>5, GetPreserves, RemoveFinalizerPreserves, UpdatePreserves, WorkPreserves DEF Step
<1>6. CASE Restart
  BY <1>6, RestartPreserves
<1> QED BY <1>1, <1>2, <1>3, <1>4, <1>5, <1>6 DEF Next

\* The strengthened invariant holds in every behaviour of the controller.
THEOREM Invariance == Spec => []IndInv
<1>1. Init => IndInv
  BY InitHolds
<1>2. IndInv /\ [Next]_vars => IndInv'
  BY NextPreserves
<1> QED BY <1>1, <1>2, PTL DEF Spec

\* The variables of the controller keep their types, and Reconcile holds a Config
\* exactly while it works on one that it has found.
THEOREM TypeCorrect == Spec => []TypeOK
<1>1. IndInv => TypeOK
  BY DEF IndInv
<1> QED BY <1>1, Invariance, PTL

\* Listeners run only while the finalizer keeps their Config in the API server, for
\* any number of Configs, writes, stale reads, failed Updates and crashes.
THEOREM ListenersGuarded == Spec => []GuardedByFinalizer
<1>1. IndInv => GuardedByFinalizer
  BY DEF IndInv
<1> QED BY <1>1, Invariance, PTL

\* A write of the Config that was read, accepted by the API server, changes neither
\* the spec nor the deletion that users have asked for.
LEMMA UpdateKeepsEdits ==
    ASSUME IndInv, RemoveFinalizer \/ AddFinalizer \/ Annotate, NEW c \in Configs
    PROVE  /\ object[c] = Nothing => object'[c] = Nothing
           /\ object'[c] # Nothing => /\ object'[c].spec = object[c].spec
                                      /\ object'[c].deleting = object[c].deleting
<1>1. cfg # Nothing /\ Current /\ view' = view
  BY DEF IndInv, TypeOK, RemoveFinalizer, AddFinalizer, Annotate, Allowed, informerVars
<1>2. PICK d \in Configs : d = req
  BY <1>1 DEF IndInv, TypeOK
<1>3. cfg \in Object /\ cfg = object[d] /\ object[d] # Nothing
  BY <1>1, <1>2, CurrentIsRead DEF Current
<1>4. PICK o \in Object : Store(d, o) /\ o.spec = cfg.spec /\ o.deleting = cfg.deleting
  <2>1. CASE RemoveFinalizer
    <3>1. /\ [cfg EXCEPT !.finalizer = FALSE] \in Object
          /\ [cfg EXCEPT !.finalizer = FALSE].spec = cfg.spec
          /\ [cfg EXCEPT !.finalizer = FALSE].deleting = cfg.deleting
      BY <1>3 DEF Object
    <3> QED BY <1>2, <2>1, <3>1 DEF RemoveFinalizer
  <2>2. CASE AddFinalizer
    <3>1. /\ [cfg EXCEPT !.finalizer = TRUE] \in Object
          /\ [cfg EXCEPT !.finalizer = TRUE].spec = cfg.spec
          /\ [cfg EXCEPT !.finalizer = TRUE].deleting = cfg.deleting
      BY <1>3 DEF Object
    <3> QED BY <1>2, <2>2, <3>1 DEF AddFinalizer
  <2>3. CASE Annotate
    <3>1. /\ [cfg EXCEPT !.processed = TRUE] \in Object
          /\ [cfg EXCEPT !.processed = TRUE].spec = cfg.spec
          /\ [cfg EXCEPT !.processed = TRUE].deleting = cfg.deleting
      BY <1>3 DEF Object
    <3> QED BY <1>2, <2>3, <3>1 DEF Annotate
  <2> QED BY <2>1, <2>2, <2>3
<1>5. /\ c # d => object'[c] = object[c]
      /\ object'[d] = IF o.deleting /\ ~o.finalizer /\ ~o.held THEN Nothing
                      ELSE [o EXCEPT !.version = revision[d] + 1]
  BY <1>1, <1>4, StoreFacts DEF IndInv
<1> QED BY <1>3, <1>4, <1>5 DEF Object

\* No step of the worker reverts the spec or the deletion of a Config, or brings back
\* one that is gone, however stale the Config it has read.
THEOREM EditsKept == Spec => NoEditReverted
<1> DEFINE Kept == pc' # pc /\ writes' = writes =>
                      \A c \in Configs :
                         /\ object[c] = Nothing => object'[c] = Nothing
                         /\ object'[c] # Nothing =>
                               /\ object'[c].spec = object[c].spec
                               /\ object'[c].deleting = object[c].deleting
<1>1. ASSUME IndInv, [Next]_vars PROVE [Kept]_vars
  <2>1. CASE UNCHANGED vars
    BY <2>1
  <2>2. ASSUME NEW c \in Configs, User(c) \/ ReleaseConfig(c) \/ Deliver(c) PROVE pc' = pc
    BY <2>2 DEF User, CreateConfig, EditConfig, DeleteConfig, HoldConfig, UserWrites,
                ReleaseConfig, Deliver, callVars
  <2>3. ASSUME NEW c \in Configs, Dequeue(c) PROVE object' = object
    BY <2>3 DEF Dequeue, apiVars
  <2>4. CASE RemoveFinalizer \/ AddFinalizer \/ Annotate
    BY <1>1, <2>4, UpdateKeepsEdits
  <2>5. CASE Get \/ Teardown \/ Cleanup \/ UpdateRefused \/ CallFails
               \/ UpdateDestinationsToWatch \/ ManageListeners
    <3>1. object' = object
      BY <2>5 DEF Get, Teardown, Cleanup, UpdateRefused, CallFails,
                  UpdateDestinationsToWatch, ManageListeners, apiVars
    <3> QED BY <3>1
  <2>6. CASE Restart
    BY <2>6 DEF Restart
  <2> QED BY <1>1, <2>1, <2>2, <2>3, <2>4, <2>5, <2>6 DEF Next, Step
<1>2. IndInv /\ [Next]_vars => [Kept]_vars
  BY <1>1
<1> QED BY <1>2, Invariance, PTL DEF Spec, NoEditReverted
================================================================================
