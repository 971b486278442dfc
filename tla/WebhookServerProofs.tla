--------------------------- MODULE WebhookServerProofs ---------------------------
(***************************************************************************)
(* Proofs about WebhookServer for any number of requests, of route objects *)
(* and any size of the channel.                                            *)
(***************************************************************************)
EXTENDS WebhookServer, TLAPS

\* Whoever registers has room for another route object, a request that is being
\* handled has a route object, and a worker that retries has a message.
Assigned ==
    /\ lock = "register" => created < MaxGen
    /\ lock = "unregister" => current # 0
    /\ \A q \in Requests : pc[q] \notin {"new", "done"} => gen[q] \in Gens
    /\ \A g \in Gens : worker[g] = "retrying" => message[g] \in Requests

\* Messages are offered to a worker, and held by one, only when the context of the
\* route is done: it is what made the first attempt to publish fail.
OfferedWhenDone ==
    /\ \A q \in Requests : pc[q] = "offering" => ctxDone(gen[q])
    /\ \A g \in Gens : worker[g] = "retrying" => ctxDone(g)

\* Nobody but the handler of a request publishes its event, and then says so.
PublishedByHandler ==
    \A q \in Requests :
        /\ pc[q] \in {"new", "routed", "reading", "read", "publishing", "published"} => status[q] = 0
        /\ pc[q] = "offering" => status[q] = 500
        /\ published[q] = IF pc[q] = "published" \/ status[q] = 204 THEN 1 ELSE 0

\* No retry worker ever publishes.
NothingRetried == \A q \in Requests : attempts[q] = 0

IndInv == /\ TypeOK /\ Assigned /\ NoWorkerLeft /\ OfferedWhenDone
          /\ PublishedByHandler /\ NothingRetried

\* Init establishes the invariant: there is no route and no request was sent.
LEMMA InitHolds ==
    ASSUME Init
    PROVE  IndInv
<1> USE BoundsAssumption DEF Init
<1>1. TypeOK
  BY DEF TypeOK, Gens
<1>2. Assigned /\ NoWorkerLeft /\ OfferedWhenDone
  BY DEF Assigned, NoWorkerLeft, OfferedWhenDone
<1>3. PublishedByHandler /\ NothingRetried
  BY DEF PublishedByHandler, NothingRetried
<1> QED BY <1>1, <1>2, <1>3 DEF IndInv

\* The steps of a request.
LEMMA RequestPreserves ==
    ASSUME IndInv, NEW q \in Requests, ServeHTTP(q) \/ Client(q) \/ Handler(q)
    PROVE  IndInv'
<1> USE BoundsAssumption DEF IndInv, routeVars, workerVars, chanVars, requestVars
<1>1. CASE ServeHTTP(q)
  <2>0. pc[q] = "new" /\ UNCHANGED <<routeVars, workerVars, chanVars, shutdown>>
    BY <1>1 DEF ServeHTTP
  <2> USE <2>0
  <2>1. CASE current = 0
    <3>0. Return(q, 404)
      BY <1>1, <2>1 DEF ServeHTTP
    <3> USE <3>0 DEF Return
    <3>1. TypeOK'
      BY DEF TypeOK
    <3>2. Assigned' /\ NoWorkerLeft' /\ OfferedWhenDone'
      BY DEF TypeOK, Assigned, NoWorkerLeft, OfferedWhenDone, ctxDone
    <3>3. PublishedByHandler' /\ NothingRetried'
      BY DEF TypeOK, PublishedByHandler, NothingRetried
    <3> QED BY <3>1, <3>2, <3>3
  <2>2. CASE current # 0
    <3>0. current \in Gens /\ current \in 0..MaxGen
      BY <2>2 DEF TypeOK, Gens
    <3>1. /\ pc' = [pc EXCEPT ![q] = "routed"]
          /\ gen' = [gen EXCEPT ![q] = current]
          /\ status' = status
      BY <1>1, <2>2 DEF ServeHTTP
    <3> USE <3>0, <3>1
    <3>2. TypeOK'
      BY DEF TypeOK
    <3>3. Assigned' /\ NoWorkerLeft' /\ OfferedWhenDone'
      BY DEF TypeOK, Assigned, NoWorkerLeft, OfferedWhenDone, ctxDone
    <3>4. PublishedByHandler' /\ NothingRetried'
      BY DEF TypeOK, PublishedByHandler, NothingRetried
    <3> QED BY <3>2, <3>3, <3>4
  <2> QED BY <2>1, <2>2
<1>2. CASE Unauthorized(q) \/ BodyFails(q) \/ BadPayload(q) \/ HandlerPanics(q)
  <2>1. PICK stage \in {"routed", "reading", "read"}, code \in {400, 401, 413, 500} :
             Refuse(q, stage, code)
    BY <1>2 DEF Unauthorized, BodyFails, BadPayload, HandlerPanics
  <2> USE <2>1 DEF Refuse, Return
  <2>2. TypeOK'
    BY DEF TypeOK
  <2>3. Assigned' /\ NoWorkerLeft' /\ OfferedWhenDone'
    BY DEF TypeOK, Assigned, NoWorkerLeft, OfferedWhenDone, ctxDone
  <2>4. PublishedByHandler' /\ NothingRetried'
    BY DEF TypeOK, PublishedByHandler, NothingRetried
  <2> QED BY <2>2, <2>3, <2>4
<1>3. CASE Authenticated(q) \/ BodyArrives(q) \/ AcceptRequest(q)
  <2>1. PICK stage \in {"routed", "reading", "read"}, next \in {"reading", "read", "publishing"} :
             MovesOn(q, stage, next)
    BY <1>3 DEF Authenticated, BodyArrives, AcceptRequest
  <2> USE <2>1 DEF MovesOn
  <2>2. TypeOK'
    BY DEF TypeOK
  <2>3. Assigned' /\ NoWorkerLeft' /\ OfferedWhenDone'
    BY DEF TypeOK, Assigned, NoWorkerLeft, OfferedWhenDone, ctxDone
  <2>4. PublishedByHandler' /\ NothingRetried'
    BY DEF TypeOK, PublishedByHandler, NothingRetried
  <2> QED BY <2>2, <2>3, <2>4
<1>4. CASE Publish(q)
  <2> USE <1>4 DEF Publish, Send, HasRoom
  <2>1. TypeOK'
    BY DEF TypeOK
  <2>2. Assigned' /\ NoWorkerLeft' /\ OfferedWhenDone'
    BY DEF TypeOK, Assigned, NoWorkerLeft, OfferedWhenDone, ctxDone
  <2>3. PublishedByHandler' /\ NothingRetried'
    BY DEF TypeOK, PublishedByHandler, NothingRetried
  <2> QED BY <2>1, <2>2, <2>3
<1>5. CASE Acknowledge(q)
  <2> USE <1>5 DEF Acknowledge, Return
  <2>1. TypeOK'
    BY DEF TypeOK
  <2>2. Assigned' /\ NoWorkerLeft' /\ OfferedWhenDone'
    BY DEF TypeOK, Assigned, NoWorkerLeft, OfferedWhenDone, ctxDone
  <2>3. PublishedByHandler' /\ NothingRetried'
    BY DEF TypeOK, PublishedByHandler, NothingRetried
  <2> QED BY <2>1, <2>2, <2>3
<1>6. CASE PublishCancelled(q)
  <2> USE <1>6 DEF PublishCancelled
  <2>1. TypeOK'
    BY DEF TypeOK
  <2>2. Assigned' /\ NoWorkerLeft' /\ OfferedWhenDone'
    BY DEF TypeOK, Assigned, NoWorkerLeft, OfferedWhenDone, ctxDone
  <2>3. PublishedByHandler' /\ NothingRetried'
    BY DEF TypeOK, PublishedByHandler, NothingRetried
  <2> QED BY <2>1, <2>2, <2>3
<1>7. CASE OfferRetry(q)
  <2>0. gen[q] \in Gens /\ ctxDone(gen[q])
    BY <1>7 DEF Assigned, OfferedWhenDone, OfferRetry
  <2> USE <1>7, <2>0 DEF OfferRetry
  <2>1. TypeOK'
    BY DEF TypeOK
  <2>2. Assigned' /\ NoWorkerLeft' /\ OfferedWhenDone'
    BY DEF TypeOK, Assigned, NoWorkerLeft, OfferedWhenDone, ctxDone
  <2>3. PublishedByHandler' /\ NothingRetried'
    BY DEF TypeOK, PublishedByHandler, NothingRetried
  <2> QED BY <2>1, <2>2, <2>3
<1>8. CASE AbandonRetry(q)
  <2> USE <1>8 DEF AbandonRetry
  <2>1. TypeOK'
    BY DEF TypeOK
  <2>2. Assigned' /\ NoWorkerLeft' /\ OfferedWhenDone'
    BY DEF TypeOK, Assigned, NoWorkerLeft, OfferedWhenDone, ctxDone
  <2>3. PublishedByHandler' /\ NothingRetried'
    BY DEF TypeOK, PublishedByHandler, NothingRetried
  <2> QED BY <2>1, <2>2, <2>3
<1> QED BY <1>1, <1>2, <1>3, <1>4, <1>5, <1>6, <1>7, <1>8 DEF Handler, Client

\* The steps of a retry worker: with the context done it gives up its message.
LEMMA WorkerPreserves ==
    ASSUME IndInv, NEW g \in Gens, Worker(g)
    PROVE  IndInv'
<1> USE DEF IndInv, routeVars, workerVars, chanVars, requestVars
<1>1. CASE WorkerExits(g)
  <2> USE <1>1 DEF WorkerExits
  <2>1. TypeOK'
    BY DEF TypeOK
  <2>2. Assigned' /\ NoWorkerLeft' /\ OfferedWhenDone'
    BY DEF TypeOK, Assigned, NoWorkerLeft, OfferedWhenDone, ctxDone
  <2>3. PublishedByHandler' /\ NothingRetried'
    BY DEF PublishedByHandler, NothingRetried
  <2> QED BY <2>1, <2>2, <2>3
<1>2. CASE retryMessage(g)
  <2>0. ctxDone(g) /\ UNCHANGED <<attempts, chanVars>>
    BY <1>2 DEF OfferedWhenDone, retryMessage
  <2> USE <1>2, <2>0 DEF retryMessage
  <2>1. TypeOK'
    BY DEF TypeOK
  <2>2. Assigned' /\ NoWorkerLeft' /\ OfferedWhenDone'
    BY DEF TypeOK, Assigned, NoWorkerLeft, OfferedWhenDone, ctxDone
  <2>3. PublishedByHandler' /\ NothingRetried'
    BY DEF PublishedByHandler, NothingRetried
  <2> QED BY <2>1, <2>2, <2>3
<1> QED BY <1>1, <1>2 DEF Worker

\* The steps that change the route under the key: the old worker has ended before the
\* key gets a new route object or none.
LEMMA RoutePreserves ==
    ASSUME IndInv, Register \/ Unregister \/ LockHolder
    PROVE  IndInv'
<1> USE BoundsAssumption DEF IndInv, routeVars, workerVars, chanVars, requestVars
<1>1. CASE Register \/ Unregister
  <2>0. /\ lock' \in {"register", "unregister"}
        /\ lock' = "register" => created < MaxGen
        /\ lock' = "unregister" => current # 0
        /\ UNCHANGED <<current, created, retries, cancelled, requestVars, workerVars,
                        chanVars, shutdown>>
    BY <1>1 DEF Register, Unregister, LockFor
  <2> USE <2>0
  <2>1. TypeOK'
    BY DEF TypeOK
  <2>2. Assigned' /\ NoWorkerLeft' /\ OfferedWhenDone'
    BY DEF TypeOK, Assigned, NoWorkerLeft, OfferedWhenDone, ctxDone
  <2>3. PublishedByHandler' /\ NothingRetried'
    BY DEF PublishedByHandler, NothingRetried
  <2> QED BY <2>1, <2>2, <2>3
<1>2. CASE CancelRoute
  <2> USE <1>2 DEF CancelRoute
  <2>1. TypeOK'
    BY DEF TypeOK
  <2>2. Assigned' /\ NoWorkerLeft' /\ OfferedWhenDone'
    BY DEF TypeOK, Assigned, NoWorkerLeft, OfferedWhenDone, ctxDone
  <2>3. PublishedByHandler' /\ NothingRetried'
    BY DEF PublishedByHandler, NothingRetried
  <2> QED BY <2>1, <2>2, <2>3
<1>3. CASE DeleteRoute
  <2> USE <1>3 DEF DeleteRoute, ShutDown
  <2>1. TypeOK'
    BY DEF TypeOK
  <2>2. Assigned' /\ NoWorkerLeft' /\ OfferedWhenDone'
    BY DEF TypeOK, Assigned, NoWorkerLeft, OfferedWhenDone, ctxDone
  <2>3. PublishedByHandler' /\ NothingRetried'
    BY DEF PublishedByHandler, NothingRetried
  <2> QED BY <2>1, <2>2, <2>3
<1>4. ASSUME NEW retry \in BOOLEAN, InstallRoute(retry) PROVE IndInv'
  <2> USE <1>4 DEF InstallRoute, ShutDown
  <2>0. created \in Nat /\ created + 1 \in Gens
    BY DEF TypeOK, Assigned, Gens
  <2>1. TypeOK'
    BY <2>0 DEF TypeOK, Gens
  <2>2. \A g \in Gens : worker[g] \notin {"select", "retrying"}
    BY DEF TypeOK, NoWorkerLeft, Gens
  <2>3. Assigned' /\ NoWorkerLeft' /\ OfferedWhenDone'
    BY <2>0, <2>2 DEF TypeOK, Assigned, NoWorkerLeft, OfferedWhenDone, ctxDone
  <2>4. PublishedByHandler' /\ NothingRetried'
    BY DEF PublishedByHandler, NothingRetried
  <2> QED BY <2>1, <2>3, <2>4
<1> QED BY <1>1, <1>2, <1>3, <1>4 DEF LockHolder

\* The consumer, shutdown and stuttering.
LEMMA ProcessPreserves ==
    ASSUME IndInv, Receive \/ CancelContext \/ ConsumerReturns \/ UNCHANGED vars
    PROVE  IndInv'
<1> USE DEF IndInv, routeVars, workerVars, chanVars, requestVars
<1>1. CASE Receive
  <2> USE <1>1 DEF Receive
  <2>1. /\ eventChan' \in Seq(Requests) /\ Head(eventChan) \in Requests
        /\ Len(eventChan') = Len(eventChan) - 1 /\ Len(eventChan) \in Nat
    BY DEF TypeOK
  <2>2. Len(eventChan') <= Cap /\ taken' \subseteq Requests
    BY <2>1, BoundsAssumption DEF TypeOK
  <2>3. TypeOK'
    BY <2>1, <2>2 DEF TypeOK
  <2>4. Assigned' /\ NoWorkerLeft' /\ OfferedWhenDone'
    BY DEF Assigned, NoWorkerLeft, OfferedWhenDone, ctxDone
  <2>5. PublishedByHandler' /\ NothingRetried'
    BY DEF PublishedByHandler, NothingRetried
  <2> QED BY <2>3, <2>4, <2>5
<1>2. CASE CancelContext \/ ConsumerReturns
  <2>0. /\ shutdown' \subseteq {"ctx", "consumer"} /\ shutdown \subseteq shutdown'
        /\ UNCHANGED <<requestVars, routeVars, workerVars, chanVars>>
    BY <1>2 DEF CancelContext, ConsumerReturns, TypeOK
  <2> USE <2>0
  <2>1. TypeOK'
    BY DEF TypeOK
  <2>2. Assigned' /\ NoWorkerLeft' /\ OfferedWhenDone'
    BY DEF Assigned, NoWorkerLeft, OfferedWhenDone, ctxDone
  <2>3. PublishedByHandler' /\ NothingRetried'
    BY DEF PublishedByHandler, NothingRetried
  <2> QED BY <2>1, <2>2, <2>3
<1>3. CASE UNCHANGED vars
  <2> USE <1>3 DEF vars
  <2>1. TypeOK'
    BY DEF TypeOK
  <2>2. Assigned' /\ NoWorkerLeft' /\ OfferedWhenDone'
    BY DEF Assigned, NoWorkerLeft, OfferedWhenDone, ctxDone
  <2>3. PublishedByHandler' /\ NothingRetried'
    BY DEF PublishedByHandler, NothingRetried
  <2> QED BY <2>1, <2>2, <2>3
<1> QED BY <1>1, <1>2, <1>3

\* The strengthened invariant holds in every behaviour of the server.
THEOREM Invariance == Spec => []IndInv
<1>1. Init => IndInv
  BY InitHolds
<1>2. IndInv /\ [Next]_vars => IndInv'
  BY RequestPreserves, WorkerPreserves, RoutePreserves, ProcessPreserves DEF Next
<1> QED BY <1>1, <1>2, PTL DEF Spec

\* The variables keep their types; the channel never holds more than its capacity.
THEOREM TypeCorrect == Spec => []TypeOK
<1>1. IndInv => TypeOK
  BY DEF IndInv
<1> QED BY <1>1, Invariance, PTL

\* What a client is told is true, for any number of requests and routes: 204 only for
\* an event that was published, once, and 4xx only when nothing was.
THEOREM AnswersTrue == Spec => []AnswerIsTrue
<1>1. ASSUME IndInv, NEW q \in Requests
      PROVE  /\ published[q] <= 1
             /\ status[q] = 204 => published[q] = 1
             /\ status[q] \in 400..499 => published[q] = 0
  <2>1. CASE pc[q] = "published"
    BY <1>1, <2>1 DEF IndInv, PublishedByHandler
  <2>2. CASE pc[q] # "published"
    BY <1>1, <2>2 DEF IndInv, PublishedByHandler
  <2> QED BY <2>1, <2>2
<1>2. IndInv => AnswerIsTrue
  BY <1>1 DEF AnswerIsTrue
<1> QED BY <1>2, Invariance, PTL

\* No retry goroutine outlives the route it belongs to.
THEOREM WorkersEnd == Spec => []NoWorkerLeft
<1>1. IndInv => NoWorkerLeft
  BY DEF IndInv
<1> QED BY <1>1, Invariance, PTL

\* The retry policy of a route never leads to another attempt: publishing fails only
\* when the context is done, and then the worker does not publish either
\* (route.go:111-122, 168-176, 193-197).
THEOREM RetriesAreVain == Spec => []NothingRetried
<1>1. IndInv => NothingRetried
  BY DEF IndInv
<1> QED BY <1>1, Invariance, PTL
================================================================================
