----------------------------- MODULE WebhookServer -----------------------------
(***************************************************************************)
(* One route of the shared webhook server (internal/listener/webhook):     *)
(* requests, the retry worker of the route, Register and Unregister, the   *)
(* buffered event channel and its only consumer, and shutdown.             *)
(*                                                                         *)
(* A route key sees a sequence of route objects, numbered by gen: editing a*)
(* source registers a new one.  A request keeps the route object it looked *)
(* up, also after that object was cancelled.  The fields of the write lock *)
(* are those of the whole server: while a route shuts down no request of   *)
(* any route is dispatched.                                                *)
(***************************************************************************)
EXTENDS Naturals, Sequences

CONSTANTS
    Requests,   \* POST requests to the path of the route
    MaxGen,     \* bound: route objects created for the key
    Cap,        \* eventChannelBufferSize
    None

ASSUME BoundsAssumption == MaxGen \in Nat \ {0} /\ Cap \in Nat \ {0}
ASSUME NoRequestAssumption == None \notin Requests

Gens == 1..MaxGen

VARIABLES
    current,    \* the route object under the key in WebhookServer.routes, or 0
    created,    \* how many were created
    retries,    \* whether the config of a route object has a retryPolicy
    cancelled,  \* route objects whose cancel() was called
    worker,     \* the retry goroutine of a route object
    message,    \* the request whose event the worker holds
    lock,       \* holder of the server's write lock and how far it got
    pc,         \* where the handler of a request is
    gen,        \* the route object a request was dispatched to
    status,     \* the status code written for a request, 0 before
    eventChan,  \* buffered channel of events, named after their requests
    published,  \* how often the event of a request entered the channel
    attempts,   \* how often a retry worker tried to publish it
    taken,      \* events received by processEvents
    shutdown    \* the listener context is cancelled, the consumer has returned

vars == <<current, created, retries, cancelled, worker, message, lock, pc, gen,
          status, eventChan, published, attempts, taken, shutdown>>

requestVars == <<pc, gen, status>>
routeVars   == <<current, created, retries, cancelled, lock>>
workerVars  == <<worker, message, attempts>>
chanVars    == <<eventChan, published, taken>>

Init ==
    /\ current = 0
    /\ created = 0
    /\ retries = [g \in Gens |-> FALSE]
    /\ cancelled = {}
    /\ worker = [g \in Gens |-> "none"]
    /\ message = [g \in Gens |-> None]
    /\ lock = "free"
    /\ pc = [q \in Requests |-> "new"]
    /\ gen = [q \in Requests |-> 0]
    /\ status = [q \in Requests |-> 0]
    /\ eventChan = <<>>
    /\ published = [q \in Requests |-> 0]
    /\ attempts = [q \in Requests |-> 0]
    /\ taken = {}
    /\ shutdown = {}

\* The context of a route is a child of the listener context.
ctxDone(g) == g \in cancelled \/ "ctx" \in shutdown

\* Fault: off by one.
HasRoomOneMore == Len(eventChan) <= Cap

HasRoom == Len(eventChan) < Cap

Send(q) == /\ HasRoom
           /\ eventChan' = Append(eventChan, q)
           /\ published' = [published EXCEPT ![q] = @ + 1]
           /\ taken' = taken

Return(q, code) == /\ pc' = [pc EXCEPT ![q] = "done"]
                   /\ status' = [status EXCEPT ![q] = code]
                   /\ gen' = gen

--------------------------------------------------------------------------------
(* The handler of a request                                                *)

\* The lookup takes the read lock, so it waits for a writer.
ServeHTTP(q) ==
    /\ pc[q] = "new"
    /\ lock = "free"
    /\ IF current = 0
       THEN Return(q, 404)
       ELSE /\ pc' = [pc EXCEPT ![q] = "routed"]
            /\ gen' = [gen EXCEPT ![q] = current]
            /\ status' = status
    /\ UNCHANGED <<routeVars, workerVars, chanVars, shutdown>>

Refuse(q, stage, code) ==
    /\ pc[q] = stage
    /\ Return(q, code)
    /\ UNCHANGED <<routeVars, workerVars, chanVars, shutdown>>

MovesOn(q, stage, next) ==
    /\ pc[q] = stage
    /\ pc' = [pc EXCEPT ![q] = next]
    /\ UNCHANGED <<gen, status, routeVars, workerVars, chanVars, shutdown>>

\* No, or wrong, credentials, or the Secret that holds them cannot be read.
Unauthorized(q) == Refuse(q, "routed", 401)

Authenticated(q) == MovesOn(q, "routed", "reading")

\* io.ReadAll waits for the client until the body is there, too large (413) or broken
\* off.  The server has no read timeout.
BodyArrives(q) == MovesOn(q, "reading", "read")
BodyFails(q)   == Refuse(q, "reading", 400) \/ Refuse(q, "reading", 413)

\* No identifier in the payload.
BadPayload(q) == Refuse(q, "read", 400)

AcceptRequest(q) == MovesOn(q, "read", "publishing")

\* recoverMiddleware answers for a handler that panicked before it wrote anything.
HandlerPanics(q) == Refuse(q, "routed", 500) \/ Refuse(q, "read", 500)

\* processEvent selects between the channel and the context.
Publish(q) ==
    /\ pc[q] = "publishing"
    /\ Send(q)
    /\ pc' = [pc EXCEPT ![q] = "published"]
    /\ UNCHANGED <<gen, status, routeVars, workerVars, shutdown>>

Acknowledge(q) ==
    /\ pc[q] = "published"
    /\ Return(q, 204)
    /\ UNCHANGED <<routeVars, workerVars, chanVars, shutdown>>

\* Fault: the error of a cancelled context is taken for success.
PublishCancelledAcks(q) ==
    /\ pc[q] = "publishing"
    /\ ctxDone(gen[q])
    /\ Return(q, 204)
    /\ UNCHANGED <<routeVars, workerVars, chanVars, shutdown>>

PublishCancelled(q) ==
    /\ pc[q] = "publishing"
    /\ ctxDone(gen[q])
    /\ status' = [status EXCEPT ![q] = 500]
    /\ pc' = [pc EXCEPT ![q] = IF retries[gen[q]] THEN "offering" ELSE "done"]
    /\ UNCHANGED <<gen, routeVars, workerVars, chanVars, shutdown>>

\* retryQueue is unbuffered: request and worker meet.  The context is done by
\* then, and a select with several ready cases may take any.
OfferRetry(q) ==
    LET g == gen[q] IN
    /\ pc[q] = "offering"
    /\ worker[g] = "select"
    /\ worker' = [worker EXCEPT ![g] = "retrying"]
    /\ message' = [message EXCEPT ![g] = q]
    /\ pc' = [pc EXCEPT ![q] = "done"]
    /\ UNCHANGED <<gen, status, attempts, routeVars, chanVars, shutdown>>

\* Fault: the handler offers the message without watching the context.
AbandonRetryNever(q) == FALSE /\ UNCHANGED vars

AbandonRetry(q) ==
    /\ pc[q] = "offering"
    /\ ctxDone(gen[q])
    /\ pc' = [pc EXCEPT ![q] = "done"]
    /\ UNCHANGED <<gen, status, routeVars, workerVars, chanVars, shutdown>>

--------------------------------------------------------------------------------
(* The retry worker                                                        *)

\* Fault: the worker only ever waits for messages.
WorkerExitsNever(g) == FALSE /\ UNCHANGED vars

WorkerExits(g) ==
    /\ worker[g] = "select"
    /\ ctxDone(g)
    /\ worker' = [worker EXCEPT ![g] = "exited"]
    /\ UNCHANGED <<message, attempts, requestVars, routeVars, chanVars, shutdown>>

\* retryMessage looks at the context first; publishing fails only when the
\* context is done, so that a second round of its loop would return as well.
retryMessage(g) ==
    /\ worker[g] = "retrying"
    /\ IF ctxDone(g)
       THEN UNCHANGED <<attempts, chanVars>>
       ELSE /\ Send(message[g])
            /\ attempts' = [attempts EXCEPT ![message[g]] = @ + 1]
    /\ worker' = [worker EXCEPT ![g] = "select"]
    /\ message' = [message EXCEPT ![g] = None]
    /\ UNCHANGED <<requestVars, routeVars, shutdown>>

--------------------------------------------------------------------------------
(* Register and Unregister, called one at a time under the manager's mutex *)

LockFor(what) == /\ lock = "free"
                 /\ lock' = what
                 /\ UNCHANGED <<current, created, retries, cancelled, requestVars,
                                workerVars, chanVars, shutdown>>

Register   == created < MaxGen /\ LockFor("register")
Unregister == current # 0 /\ LockFor("unregister")

\* route.shutdown, first half, with the lock held.
CancelRoute ==
    /\ lock # "free"
    /\ current # 0
    /\ current \notin cancelled
    /\ cancelled' = cancelled \cup {current}
    /\ UNCHANGED <<current, created, retries, lock, requestVars, workerVars,
                   chanVars, shutdown>>

\* Fault: shutdown does not wait for the worker.
ShutDownUnawaited(g) == g \in cancelled

\* route.shutdown, second half: retryWG.Wait.
ShutDown(g) == g \in cancelled /\ worker[g] \in {"none", "exited"}

\* newRoute starts a worker when the config has a retryPolicy.
InstallRoute(retry) ==
    /\ lock = "register"
    /\ current = 0 \/ ShutDown(current)
    /\ lock' = "free"
    /\ created' = created + 1
    /\ current' = created + 1
    /\ retries' = [retries EXCEPT ![created + 1] = retry]
    /\ worker' = [worker EXCEPT ![created + 1] = IF retry THEN "select" ELSE "none"]
    /\ UNCHANGED <<cancelled, message, attempts, requestVars, chanVars, shutdown>>

DeleteRoute ==
    /\ lock = "unregister"
    /\ ShutDown(current)
    /\ lock' = "free"
    /\ current' = 0
    /\ UNCHANGED <<created, retries, cancelled, requestVars, workerVars,
                   chanVars, shutdown>>

--------------------------------------------------------------------------------
(* processEvents and shutdown                                              *)

Receive ==
    /\ "consumer" \notin shutdown
    /\ eventChan # <<>>
    /\ taken' = taken \cup {Head(eventChan)}
    /\ eventChan' = Tail(eventChan)
    /\ UNCHANGED <<published, requestVars, routeVars, workerVars, shutdown>>

CancelContext ==
    /\ "ctx" \notin shutdown
    /\ shutdown' = shutdown \cup {"ctx"}
    /\ UNCHANGED <<requestVars, routeVars, workerVars, chanVars>>

\* Fault: the consumer may return while the process is running.
ConsumerReturnsEarly ==
    /\ "consumer" \notin shutdown
    /\ shutdown' = shutdown \cup {"consumer"}
    /\ UNCHANGED <<requestVars, routeVars, workerVars, chanVars>>

ConsumerReturns ==
    /\ "ctx" \in shutdown
    /\ "consumer" \notin shutdown
    /\ shutdown' = shutdown \cup {"consumer"}
    /\ UNCHANGED <<requestVars, routeVars, workerVars, chanVars>>

Client(q) == BodyArrives(q) \/ BodyFails(q)

Handler(q) ==
    \/ Unauthorized(q) \/ Authenticated(q) \/ HandlerPanics(q)
    \/ BadPayload(q) \/ AcceptRequest(q)
    \/ Publish(q) \/ Acknowledge(q) \/ PublishCancelled(q)
    \/ OfferRetry(q) \/ AbandonRetry(q)

Worker(g)  == WorkerExits(g) \/ retryMessage(g)
LockHolder == CancelRoute \/ DeleteRoute \/ \E retry \in BOOLEAN : InstallRoute(retry)

Next ==
    \/ \E q \in Requests : ServeHTTP(q) \/ Client(q) \/ Handler(q)
    \/ \E g \in Gens : Worker(g)
    \/ Register \/ Unregister \/ LockHolder
    \/ Receive \/ CancelContext \/ ConsumerReturns

\* A goroutine that can run eventually does.  Nothing obliges clients to send a request
\* or the body of one, Configs to change or the process to shut down.
Fairness ==
    /\ \A q \in Requests : WF_vars(Handler(q))
    /\ \A g \in Gens : WF_vars(Worker(g))
    /\ WF_vars(LockHolder)
    /\ WF_vars(Receive)

Spec == Init /\ [][Next]_vars /\ Fairness

--------------------------------------------------------------------------------
(* Properties                                                              *)

TypeOK ==
    /\ current \in 0..created
    /\ created \in 0..MaxGen
    /\ retries \in [Gens -> BOOLEAN]
    /\ cancelled \subseteq 1..created
    /\ worker \in [Gens -> {"none", "select", "retrying", "exited"}]
    /\ message \in [Gens -> Requests \cup {None}]
    /\ lock \in {"free", "register", "unregister"}
    /\ pc \in [Requests -> {"new", "routed", "reading", "read", "publishing", "published",
                         "offering", "done"}]
    /\ gen \in [Requests -> 0..MaxGen]
    /\ status \in [Requests -> {0, 204, 400, 401, 404, 413, 500}]
    /\ eventChan \in Seq(Requests) /\ Len(eventChan) <= Cap
    /\ published \in [Requests -> Nat]
    /\ attempts \in [Requests -> Nat]
    /\ taken \subseteq Requests
    /\ shutdown \subseteq {"ctx", "consumer"}

\* What the client is told is true whatever cancels the route meanwhile: 204 is
\* written only after the event is in the channel, once, and a request answered
\* 4xx has published nothing (route.go:76-126, 168-176).
AnswerIsTrue ==
    \A q \in Requests :
        /\ published[q] <= 1
        /\ status[q] = 204 => published[q] = 1
        /\ status[q] \in 400..499 => published[q] = 0

\* Register and Unregister return only after the retry goroutine of the route
\* they remove has ended: no worker outlives its route (route.go:71-74,
\* server.go:165-181).
NoWorkerLeft ==
    \A g \in Gens : worker[g] \in {"select", "retrying"} => g = current

\* A handler waits for nobody but its client: a dispatched request is answered or waits
\* for its body, and once the body is there the handler returns, also when the channel is
\* full, the route is cancelled under it or no worker takes its message.  A client that
\* stalls keeps its own handler for ever (route.go:76-126, 240-247; server.go:39-42).
HandlersReturn ==
    \A q \in Requests :
        /\ pc[q] = "routed" ~> pc[q] \in {"reading", "done"}
        /\ pc[q] = "read" ~> pc[q] = "done"

\* Whoever takes the server's lock gives it back: waiting for the worker with the
\* lock held cannot block reconciles and requests for good, and handlers that wait for
\* a stalled client are not waited for (server.go:161-185, route.go:71-74).
LockReleased == lock # "free" ~> lock = "free"

\* An event whose request was answered 204 reaches processEvents unless the process
\* is shutting down (reloader_controller.go:193-211).
AcknowledgedTaken ==
    \A q \in Requests : status[q] = 204 ~> q \in taken \/ "ctx" \in shutdown

\* docs/sources/webhook.md:30: with a retryPolicy, failed publishes to the internal
\* event channel are retried.
FailedPublishRetried ==
    \A q \in Requests : pc[q] = "offering" ~> attempts[q] > 0
================================================================================
