-------------------------------- MODULE Sources ---------------------------------
(***************************************************************************)
(* The notification sources other than webhooks, around the channel they   *)
(* all send to.  Each source is a module; they share nothing else, so a    *)
(* behaviour is that of some of them (active), next to other senders.      *)
(***************************************************************************)
EXTENDS SqsSource, PubSubSource, SocketSource, WatchSource, EventGridSource

CONSTANT Together  \* the sets of sources that may be active in one behaviour

ASSUME TogetherAssumption ==
    \A S \in Together : S \subseteq {"sqs", "pubsub", "tcp", "watch", "eventgrid"}

VARIABLE active

vars == <<channelVars, sqsVars, psVars, tcpVars, watchVars, gridVars, active>>

\* What a step of one source leaves alone.
noSource == <<sqsVars, psVars, tcpVars, watchVars, gridVars, active>>
notSqs   == <<psVars, tcpVars, watchVars, gridVars, active>>
notPs    == <<sqsVars, tcpVars, watchVars, gridVars, active>>
notTcp   == <<sqsVars, psVars, watchVars, gridVars, active>>
notWatch == <<sqsVars, psVars, tcpVars, gridVars, active>>
notGrid  == <<sqsVars, psVars, tcpVars, watchVars, active>>

Init ==
    /\ ChannelInit
    /\ SqsInit /\ PubSubInit /\ TcpInit /\ WatchInit /\ EventGridInit
    /\ active \in Together

Next ==
    \/ ChannelNext /\ UNCHANGED noSource
    \/ "sqs" \in active /\ SqsNext /\ UNCHANGED notSqs
    \/ "pubsub" \in active /\ PubSubNext /\ UNCHANGED notPs
    \/ "tcp" \in active /\ TcpNext /\ UNCHANGED notTcp
    \/ "watch" \in active /\ WatchNext /\ UNCHANGED notWatch
    \/ "eventgrid" \in active /\ EventGridNext /\ UNCHANGED notGrid
    \/ active = {"watch"} /\ WatchRestart /\ UNCHANGED notWatch

\* Goroutines run and the consumer takes events.  A channel serves those who wait to
\* send in turn, so a sender that is ready again and again gets its turn.
Fairness ==
    /\ WF_vars(Take /\ UNCHANGED noSource)
    /\ WF_vars("sqs" \in active /\ Poller /\ UNCHANGED notSqs)
    /\ SF_vars("sqs" \in active /\ Worker /\ UNCHANGED notSqs)
    /\ \A m \in AuditLogs :
          /\ WF_vars("pubsub" \in active /\ PubSubDeliver(m) /\ UNCHANGED notPs)
          /\ SF_vars("pubsub" \in active /\ Callback(m) /\ UNCHANGED notPs)
    /\ SF_vars("tcp" \in active /\ Reader /\ UNCHANGED notTcp)
    /\ SF_vars("watch" \in active /\ MapFunc /\ UNCHANGED notWatch)

Spec == Init /\ [][Next]_vars /\ Fairness

TypeOK ==
    /\ ChannelTypeOK
    /\ SqsTypeOK /\ PubSubTypeOK /\ TcpTypeOK /\ WatchTypeOK /\ EventGridTypeOK

\* While the listener runs, every new version of a secret is published in the end, although
\* malformed messages come back for ever and acks are lost (pubsub/listener.go:58-62).
PubSubDelivers ==
    "pubsub" \in active => <>(NewVersions \subseteq psPublished \/ PubSubDone)

\* Pub/Sub callbacks and the map function of a watch send without looking at their
\* context, while other listeners fill the channel; yet a listener that is stopped comes
\* to rest, until the process ends: nobody waits for a send for ever
\* (pubsub/listener.go:74-78, kubernetes/listener.go:103).
SendersEnd ==
    psStopped \/ watchStopped ~>
        \/ ~up \/ ~(psStopped \/ watchStopped)
        \/ (\A m \in AuditLogs : callback[m] = "none") /\ mapping = 0 /\ toMap = <<>>
================================================================================
