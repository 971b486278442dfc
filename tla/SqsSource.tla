------------------------------- MODULE SqsSource --------------------------------
(***************************************************************************)
(* The AWS SQS source: a poller (pkg/listener/aws) receives and deletes    *)
(* batches of messages and hands them over an unbuffered channel to a      *)
(* worker (internal/listener/sqs) that publishes their events.  Stop       *)
(* cancels the context of the poller; the worker has the context of the    *)
(* process.                                                                *)
(***************************************************************************)
EXTENDS EventChannel

CONSTANTS
    Messages,  \* messages in the queue
    Parsable   \* those that parseEvent accepts

ASSUME ParsableAssumption == Parsable \subseteq Messages

VARIABLES
    sqsQueue,      \* messages that can be received
    sqsHidden,     \* received and not deleted
    poller,        \* where the poller is
    batch,         \* the messages it has received
    toDelete,      \* those it has yet to delete
    pollErrors,    \* errors in errCh, which holds one
    worker,        \* where the worker is
    work,          \* the messages it has yet to process
    sqsStopped,    \* Stop was called
    sqsPublished,  \* messages whose event was sent
    sqsDropped     \* messages the poller still had when it returned

sqsVars == <<sqsQueue, sqsHidden, poller, batch, toDelete, pollErrors, worker, work,
             sqsStopped, sqsPublished, sqsDropped>>

serviceVars == <<sqsQueue, sqsHidden>>
pollerVars  == <<poller, batch, toDelete, sqsDropped>>
workerVars  == <<worker, work, sqsPublished>>

SqsInit ==
    /\ sqsQueue = Messages /\ sqsHidden = {}
    /\ poller = "poll" /\ batch = {} /\ toDelete = {}
    /\ pollErrors = 0
    /\ worker = "select" /\ work = {}
    /\ sqsStopped = FALSE
    /\ sqsPublished = {} /\ sqsDropped = {}

SqsDone == sqsStopped \/ ~up

SqsStop ==
    /\ ~sqsStopped
    /\ sqsStopped' = TRUE
    /\ UNCHANGED <<serviceVars, pollerVars, pollErrors, workerVars, channelVars>>

\* Nobody deleted the message in time.
VisibilityTimeout(m) ==
    /\ m \in sqsHidden
    /\ sqsHidden' = sqsHidden \ {m}
    /\ sqsQueue' = sqsQueue \cup {m}
    /\ UNCHANGED <<pollerVars, pollErrors, workerVars, sqsStopped, channelVars>>

--------------------------------------------------------------------------------
(* The poller                                                              *)

ReceiveMessage(S) ==
    /\ poller = "poll" /\ ~SqsDone
    /\ sqsQueue' = sqsQueue \ S
    /\ sqsHidden' = sqsHidden \cup S
    /\ batch' = S /\ toDelete' = S
    /\ poller' = "delete"
    /\ UNCHANGED <<sqsDropped, pollErrors, workerVars, sqsStopped, channelVars>>

\* Fault: errCh has no limit.
ReceiveFailsQueued ==
    /\ poller = "poll" /\ ~SqsDone
    /\ pollErrors' = pollErrors + 1
    /\ poller' = "backoff"
    /\ UNCHANGED <<serviceVars, batch, toDelete, sqsDropped, workerVars, sqsStopped, channelVars>>

\* The error is dropped if errCh is full.
ReceiveFails ==
    /\ poller = "poll" /\ ~SqsDone
    /\ pollErrors' = 1
    /\ poller' = "backoff"
    /\ UNCHANGED <<serviceVars, batch, toDelete, sqsDropped, workerVars, sqsStopped, channelVars>>

BackoffEnds ==
    /\ poller = "backoff"
    /\ poller' = "poll"
    /\ UNCHANGED <<serviceVars, batch, toDelete, sqsDropped, pollErrors, workerVars, sqsStopped,
                   channelVars>>

Deleted(m) ==
    /\ toDelete' = toDelete \ {m}
    /\ poller' = IF toDelete' = {} THEN "send" ELSE "delete"
    /\ UNCHANGED <<batch, sqsDropped, pollErrors, workerVars, sqsStopped>>

DeleteMessage(m) ==
    /\ poller = "delete" /\ m \in toDelete /\ ~SqsDone
    /\ Deleted(m)
    /\ sqsHidden' = sqsHidden \ {m} /\ sqsQueue' = sqsQueue \ {m}
    /\ UNCHANGED channelVars

\* A failure is logged; with a cancelled context every call fails.
DeleteFails(m) ==
    /\ poller = "delete" /\ m \in toDelete
    /\ Deleted(m)
    /\ UNCHANGED <<serviceVars, channelVars>>

\* Fault: the batch is dropped when the worker is busy.
HandOverOrDrop ==
    /\ poller = "send"
    /\ poller' = "poll" /\ batch' = {}
    /\ IF worker = "select" THEN worker' = "process" /\ work' = batch
                            ELSE UNCHANGED <<worker, work>>
    /\ UNCHANGED <<serviceVars, toDelete, sqsDropped, pollErrors, sqsStopped, sqsPublished,
                   channelVars>>

\* msgCh <- messages
HandOver ==
    /\ poller = "send" /\ worker = "select"
    /\ poller' = "poll" /\ batch' = {}
    /\ worker' = "process" /\ work' = batch
    /\ UNCHANGED <<serviceVars, toDelete, sqsDropped, pollErrors, sqsStopped, sqsPublished,
                   channelVars>>

\* The deferred function closes both channels; messages not handed over are gone.
PollerReturns ==
    /\ poller \in {"poll", "backoff", "send"} /\ SqsDone
    /\ poller' = "closed" /\ batch' = {} /\ sqsDropped' = batch
    /\ UNCHANGED <<serviceVars, toDelete, pollErrors, workerVars, sqsStopped, channelVars>>

--------------------------------------------------------------------------------
(* The worker                                                              *)

WorkerLogsError ==
    /\ worker = "select" /\ pollErrors = 1
    /\ pollErrors' = 0
    /\ UNCHANGED <<serviceVars, pollerVars, workerVars, sqsStopped, channelVars>>

Processed(m) ==
    /\ work' = work \ {m}
    /\ worker' = IF work' = {} THEN "select" ELSE "process"
    /\ UNCHANGED <<serviceVars, pollerVars, pollErrors, sqsStopped>>

\* The message cannot be parsed, or the process is shutting down.
SkipMessage(m) ==
    /\ worker = "process" /\ m \in work
    /\ m \notin Parsable \/ ~up
    /\ Processed(m)
    /\ UNCHANGED <<sqsPublished, channelVars>>

PublishMessage(m) ==
    /\ worker = "process" /\ m \in work /\ m \in Parsable
    /\ Send
    /\ sqsPublished' = sqsPublished \cup {m}
    /\ Processed(m)

\* Fault: the poller does not close the channels.
WorkerReturnsOnShutdown ==
    /\ worker = "select" /\ ~up
    /\ worker' = "gone"
    /\ UNCHANGED <<serviceVars, pollerVars, pollErrors, work, sqsPublished, sqsStopped, channelVars>>

\* A closed channel ends the worker.
WorkerReturns ==
    /\ worker = "select" /\ poller = "closed"
    /\ worker' = "gone"
    /\ UNCHANGED <<serviceVars, pollerVars, pollErrors, work, sqsPublished, sqsStopped, channelVars>>

Poller ==
    \/ \E S \in (SUBSET sqsQueue) \ {{}} : ReceiveMessage(S)
    \/ ReceiveFails \/ BackoffEnds
    \/ \E m \in Messages : DeleteMessage(m) \/ DeleteFails(m)
    \/ HandOver \/ PollerReturns

Worker ==
    \/ WorkerLogsError \/ WorkerReturns
    \/ \E m \in Messages : SkipMessage(m) \/ PublishMessage(m)

SqsNext ==
    \/ SqsStop
    \/ \E m \in Messages : VisibilityTimeout(m)
    \/ Poller
    \/ Worker

--------------------------------------------------------------------------------

SqsTypeOK ==
    /\ sqsQueue \subseteq Messages /\ sqsHidden \subseteq Messages
    /\ poller \in {"poll", "backoff", "delete", "send", "closed"}
    /\ batch \subseteq Messages /\ toDelete \subseteq batch
    /\ pollErrors \in 0..1
    /\ worker \in {"select", "process", "gone"}
    /\ work \subseteq Messages
    /\ sqsStopped \in BOOLEAN
    /\ sqsPublished \subseteq Parsable /\ sqsDropped \subseteq Messages

\* Messages are deleted before they are processed (aws_sqs.go:128-137): still, until
\* the process shuts down none is lost but those that Stop finds between the poller
\* and the worker.
SqsNotLost ==
    up => Parsable \subseteq sqsQueue \cup sqsHidden \cup batch \cup sqsDropped
                             \cup work \cup sqsPublished

\* After Stop both goroutines end, whatever they were doing, although the worker does
\* not see the context that Stop cancels (aws_sqs.go:69-73, sqs/listener.go:88-94).
SqsEnds == sqsStopped ~> (poller = "closed" /\ worker = "gone")
================================================================================
