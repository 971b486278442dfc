----------------------------- MODULE EventGridSource -----------------------------
(***************************************************************************)
(* The Azure Event Grid source (internal/listener/eventgrid): requests     *)
(* with batches of events, handled at once by the HTTP server.  The first  *)
(* status a handler writes is the one the client gets; 200 if it writes    *)
(* none.                                                                   *)
(***************************************************************************)
EXTENDS EventChannel

CONSTANTS
    Requests,   \* requests to the server
    Batch,      \* by request: the events in its body, Unparsable if it has none
    Unparsable

EventTypes == {"SecretNewVersionCreated", "InvalidData", "Unhandled",
               "Validation", "ValidationNoHeader", "ValidationUnknown"}

ASSUME BatchAssumption ==
    \A r \in Requests : Batch[r] = Unparsable \/ Batch[r] \in Seq(EventTypes)

VARIABLES
    request,         \* by request: where it is, the next event, the status written
    gridServer,      \* "serving", "cancelled" (context) or "closed" (connections)
    gridPublished    \* events sent, as <<request, place in the batch>>

gridVars == <<request, gridServer, gridPublished>>

EventGridInit ==
    /\ request = [r \in Requests |-> [phase |-> "unsent", next |-> 1, status |-> 0]]
    /\ gridServer = "serving"
    /\ gridPublished = {}

GridDone == gridServer # "serving" \/ ~up

\* Stop cancels the context and then closes the server and its connections.
EventGridCancel ==
    /\ gridServer = "serving"
    /\ gridServer' = "cancelled"
    /\ UNCHANGED <<request, gridPublished, channelVars>>

EventGridClose ==
    /\ gridServer = "cancelled"
    /\ gridServer' = "closed"
    /\ request' = [r \in Requests |-> IF request[r].phase = "handling"
                                      THEN [request[r] EXCEPT !.phase = "cut off"]
                                      ELSE request[r]]
    /\ UNCHANGED <<gridPublished, channelVars>>

EventGridPost(r) ==
    /\ gridServer # "closed"
    /\ request[r].phase = "unsent"
    /\ request' = [request EXCEPT ![r] = IF Batch[r] = Unparsable
                                         THEN [@ EXCEPT !.phase = "answered", !.status = 400]
                                         ELSE [@ EXCEPT !.phase = "handling"]]
    /\ UNCHANGED <<gridServer, gridPublished, channelVars>>

\* The handler runs on when its client is cut off.
Handling(r) == request[r].phase \in {"handling", "cut off"} /\ request[r].next <= Len(Batch[r])

Event(r) == Batch[r][request[r].next]

\* w.WriteHeader
Written(q, status) == [q EXCEPT !.next = @ + 1, !.status = IF @ = 0 THEN status ELSE @]

HandleEvent(r) ==
    /\ Handling(r)
    /\ Event(r) # "SecretNewVersionCreated"
    /\ request' = [request EXCEPT ![r] = Written(@,
          CASE Event(r) \in {"ValidationNoHeader", "InvalidData"} -> 400
            [] Event(r) = "ValidationUnknown"                     -> 404
            [] Event(r) = "Validation"                            -> 200
            [] Event(r) = "Unhandled"                             -> 0)]
    /\ UNCHANGED <<gridServer, gridPublished, channelVars>>

PublishGridEvent(r) ==
    /\ Handling(r)
    /\ Event(r) = "SecretNewVersionCreated"
    /\ Send
    /\ request' = [request EXCEPT ![r] = Written(@, 200)]
    /\ gridPublished' = gridPublished \cup {<<r, request[r].next>>}
    /\ UNCHANGED gridServer

\* Fault: an event is dropped when the channel is full.
DropGridEventWhenFull(r) ==
    /\ Handling(r)
    /\ Event(r) = "SecretNewVersionCreated"
    /\ GridDone \/ ~Room
    /\ request' = [request EXCEPT ![r].next = @ + 1]
    /\ UNCHANGED <<gridServer, gridPublished, channelVars>>

\* Nothing is written for an event that is dropped.
DropGridEvent(r) ==
    /\ Handling(r)
    /\ Event(r) = "SecretNewVersionCreated"
    /\ GridDone
    /\ request' = [request EXCEPT ![r].next = @ + 1]
    /\ UNCHANGED <<gridServer, gridPublished, channelVars>>

HandlerReturns(r) ==
    /\ request[r].phase = "handling" /\ request[r].next > Len(Batch[r])
    /\ request' = [request EXCEPT ![r].phase = "answered",
                                  ![r].status = IF @ = 0 THEN 200 ELSE @]
    /\ UNCHANGED <<gridServer, gridPublished, channelVars>>

GridHandler(r) ==
    HandleEvent(r) \/ PublishGridEvent(r) \/ DropGridEvent(r) \/ HandlerReturns(r)

EventGridNext ==
    \/ EventGridCancel \/ EventGridClose
    \/ \E r \in Requests : EventGridPost(r) \/ GridHandler(r)

--------------------------------------------------------------------------------

EventGridTypeOK ==
    /\ request \in [Requests -> [phase : {"unsent", "handling", "cut off", "answered"},
                                 next : Nat \ {0}, status : {0, 200, 400, 404}]]
    /\ gridServer \in {"serving", "cancelled", "closed"}
    /\ \A e \in gridPublished : Batch[e[1]][e[2]] = "SecretNewVersionCreated"

\* Event Grid sends a batch again unless it is answered 200: while the listener runs, an
\* answer of 200 means that every new secret version in the batch was published, even if
\* a handler had to wait or another event of the batch was refused
\* (eventgrid/listener.go:92-102, 188-197).
AnsweredIsPublished ==
    \A r \in Requests :
        request[r].phase = "answered" /\ request[r].status = 200 =>
            \A i \in DOMAIN Batch[r] :
                Batch[r][i] = "SecretNewVersionCreated" => <<r, i>> \in gridPublished \/ GridDone
================================================================================
