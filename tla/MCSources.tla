-------------------------------- MODULE MCSources --------------------------------
(***************************************************************************)
(* Values for the constants of Sources.                                    *)
(***************************************************************************)
EXTENDS Sources

MCMessages == {"rotated", "garbage"}
MCParsable == {"rotated"}

MCAuditLogs   == {"added", "listed", "garbage"}
MCNewVersions == {"added"}
MCMalformed   == {"garbage"}

MCLines   == {"rotated", "garbage"}
MCNotices == {"rotated"}

MCRequests == 1..3

\* A batch with an event that is refused between two that are published, one without,
\* and a body that is no batch.
MCBatch == <<
    <<"SecretNewVersionCreated", "InvalidData", "Unhandled", "SecretNewVersionCreated">>,
    <<"Validation", "ValidationNoHeader", "ValidationUnknown">>,
    "no batch" >>

MCWatch    == {{"watch"}}
MCTogether == {{"sqs"}, {"pubsub"}, {"tcp"}, {"watch"}, {"eventgrid"}}
================================================================================
