------------------------------ MODULE PubSubSource ------------------------------
(***************************************************************************)
(* The Google Pub/Sub source (internal/listener/pubsub): the client        *)
(* library calls the callback of processMessage for each message, several  *)
(* at a time, and the service delivers a message again until it is acked.  *)
(***************************************************************************)
EXTENDS EventChannel

CONSTANTS
    AuditLogs,     \* messages of the subscription
    NewVersions,   \* those that report AddSecretVersion
    Malformed      \* those that cannot be unmarshalled

ASSUME AuditLogsAssumption ==
    NewVersions \subseteq AuditLogs /\ Malformed \subseteq AuditLogs \ NewVersions

VARIABLES
    subscription,  \* by message: "waiting" to be delivered, "leased" or "acked"
    callback,      \* by message: where its callback is
    psStopped,     \* the context of the listener is cancelled
    psPublished    \* messages whose event was sent

psVars == <<subscription, callback, psStopped, psPublished>>

PubSubInit ==
    /\ subscription = [m \in AuditLogs |-> "waiting"]
    /\ callback = [m \in AuditLogs |-> "none"]
    /\ psStopped = FALSE
    /\ psPublished = {}

PubSubDone == psStopped \/ ~up

PubSubStop ==
    /\ ~psStopped
    /\ psStopped' = TRUE
    /\ UNCHANGED <<subscription, callback, psPublished, channelVars>>

\* Receive returns an error, which ends the listener.
PubSubReceiveFails ==
    /\ ~PubSubDone
    /\ psStopped' = TRUE
    /\ UNCHANGED <<subscription, callback, psPublished, channelVars>>

PubSubDeliver(m) ==
    /\ ~PubSubDone
    /\ subscription[m] = "waiting" /\ callback[m] = "none"
    /\ subscription' = [subscription EXCEPT ![m] = "leased"]
    /\ callback' = [callback EXCEPT ![m] = "called"]
    /\ UNCHANGED <<psStopped, psPublished, channelVars>>

Answer(m, state) ==
    /\ subscription' = [subscription EXCEPT ![m] = state]
    /\ callback' = [callback EXCEPT ![m] = "none"]
    /\ UNCHANGED <<psStopped, psPublished>>

Nack(m) ==
    /\ callback[m] = "called"
    /\ PubSubDone \/ m \in Malformed
    /\ Answer(m, "waiting")
    /\ UNCHANGED channelVars

\* Fault: the message is acked first and its event sent afterwards.
AckFirst(m) ==
    /\ callback[m] = "called"
    /\ ~PubSubDone /\ m \in NewVersions
    /\ callback' = [callback EXCEPT ![m] = "send"]
    /\ subscription' = [subscription EXCEPT ![m] = "acked"]
    /\ UNCHANGED <<psStopped, psPublished, channelVars>>

\* Fault: the method is compared with the wrong name.
ReadOtherMethodName(m) ==
    /\ callback[m] = "called"
    /\ ~PubSubDone /\ m \notin Malformed
    /\ callback' = [callback EXCEPT ![m] = IF m \in NewVersions THEN "ack" ELSE "send"]
    /\ UNCHANGED <<subscription, psStopped, psPublished, channelVars>>

\* Whether the context is cancelled is looked at before the send, not during it.
ReadMethodName(m) ==
    /\ callback[m] = "called"
    /\ ~PubSubDone /\ m \notin Malformed
    /\ callback' = [callback EXCEPT ![m] = IF m \in NewVersions THEN "send" ELSE "ack"]
    /\ UNCHANGED <<subscription, psStopped, psPublished, channelVars>>

PubSubSend(m) ==
    /\ callback[m] = "send"
    /\ Send
    /\ psPublished' = psPublished \cup {m}
    /\ callback' = [callback EXCEPT ![m] = "ack"]
    /\ UNCHANGED <<subscription, psStopped>>

Ack(m) ==
    /\ callback[m] = "ack"
    /\ Answer(m, "acked")
    /\ UNCHANGED channelVars

\* The ack does not reach the service, or too late: the message is delivered again.
AckLost(m) ==
    /\ callback[m] = "ack"
    /\ Answer(m, "waiting")
    /\ UNCHANGED channelVars

Callback(m) == Nack(m) \/ ReadMethodName(m) \/ PubSubSend(m) \/ Ack(m) \/ AckLost(m)

PubSubNext ==
    \/ PubSubStop \/ PubSubReceiveFails
    \/ \E m \in AuditLogs : PubSubDeliver(m) \/ Callback(m)

--------------------------------------------------------------------------------

PubSubTypeOK ==
    /\ subscription \in [AuditLogs -> {"waiting", "leased", "acked"}]
    /\ callback \in [AuditLogs -> {"none", "called", "send", "ack"}]
    /\ psStopped \in BOOLEAN
    /\ psPublished \subseteq NewVersions

\* The service may forget a message only after its event was sent, not even Stop and
\* shutdown make an exception (pubsub/listener.go:74-78).
AckedIsPublished == \A m \in NewVersions : subscription[m] = "acked" => m \in psPublished
================================================================================
