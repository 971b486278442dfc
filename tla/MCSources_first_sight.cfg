SPECIFICATION Spec
CONSTANTS
    Capacity = 1
    MaxRelists = 2
    Messages <- MCMessages
    Parsable <- MCParsable
    AuditLogs <- MCAuditLogs
    NewVersions <- MCNewVersions
    Malformed <- MCMalformed
    Lines <- MCLines
    Notices <- MCNotices
    MaxVersions = 3
    Absent = Absent
    Requests <- MCRequests
    Batch <- MCBatch
    Unparsable = "no batch"
    Together <- MCWatch
INVARIANT OperationsReported
CHECK_DEADLOCK FALSE
