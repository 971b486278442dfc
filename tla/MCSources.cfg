SPECIFICATION Spec
CONSTANTS
    Capacity = 1
    MaxRelists = 2
    Messages <- MCMessages
    Parsable <- MCParsable
    AuditLogs <- MCAuditLogs
    NewVersions <- MCNewVersions
    Malformed <- MCMalformed
    Lines <- MCLines
    Notices <- MCNotices
    MaxVersions = 3
    Absent = Absent
    Requests <- MCRequests
    Batch <- MCBatch
    Unparsable = "no batch"
    Together <- MCTogether
INVARIANTS TypeOK SqsNotLost AckedIsPublished WholeIsPublished ReportedOnce ChangesReported AnsweredIsPublished
PROPERTIES SqsEnds PubSubDelivers ReaderEnds SendersEnd
CHECK_DEADLOCK FALSE
