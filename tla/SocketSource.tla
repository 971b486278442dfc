------------------------------ MODULE SocketSource ------------------------------
(***************************************************************************)
(* A connection of the TCP socket source (internal/listener/tcp), which    *)
(* the Vault source uses with its own processFn.  A line is sent as two    *)
(* pieces, so that a Read may return the whole of it or cut it.            *)
(***************************************************************************)
EXTENDS EventChannel

CONSTANTS
    Lines,     \* lines a client may send
    Notices    \* those that processFn turns into an event

ASSUME LinesAssumption == Notices \subseteq Lines

VARIABLES
    stream,         \* pieces sent and not read yet
    unsent,         \* lines that were not sent yet
    clientOpen,     \* the client has not closed the connection
    buf,            \* pieces of the last Read that are not processed yet
    reader,         \* where readMessage is
    tcpStopped,     \* Stop was called
    readWhole,      \* lines that one Read returned
    tcpPublished    \* lines whose event was sent

tcpVars == <<stream, unsent, clientOpen, buf, reader, tcpStopped, readWhole, tcpPublished>>

clientVars == <<unsent, clientOpen>>

TcpInit ==
    /\ stream = <<>> /\ unsent = Lines /\ clientOpen = TRUE
    /\ buf = <<>> /\ reader = "check"
    /\ tcpStopped = FALSE
    /\ readWhole = {} /\ tcpPublished = {}

TcpDone == tcpStopped \/ ~up

ClientSends(m) ==
    /\ clientOpen /\ m \in unsent
    /\ stream' = stream \o << <<m, 1>>, <<m, 2>> >>
    /\ unsent' = unsent \ {m}
    /\ UNCHANGED <<clientOpen, buf, reader, tcpStopped, readWhole, tcpPublished, channelVars>>

ClientCloses ==
    /\ clientOpen
    /\ clientOpen' = FALSE
    /\ UNCHANGED <<stream, unsent, buf, reader, tcpStopped, readWhole, tcpPublished, channelVars>>

\* The listening socket is closed; connections are not.
TcpStop ==
    /\ ~tcpStopped
    /\ tcpStopped' = TRUE
    /\ UNCHANGED <<stream, clientVars, buf, reader, readWhole, tcpPublished, channelVars>>

ReaderChecksContext ==
    /\ reader = "check"
    /\ reader' = IF TcpDone THEN "gone" ELSE "read"
    /\ UNCHANGED <<stream, clientVars, buf, tcpStopped, readWhole, tcpPublished, channelVars>>

\* Read waits for the client, whatever happens to the context.
ReadPieces(n) ==
    /\ reader = "read"
    /\ buf' = SubSeq(stream, 1, n)
    /\ stream' = SubSeq(stream, n + 1, Len(stream))
    /\ readWhole' = readWhole \cup
          {m \in Lines : \E i \in 1..(n - 1) : stream[i] = <<m, 1>> /\ stream[i + 1] = <<m, 2>>}
    /\ reader' = "process"
    /\ UNCHANGED <<clientVars, tcpStopped, tcpPublished, channelVars>>

\* Fault: the reader goes on after an error.
ReadFailsContinues ==
    /\ reader = "read"
    /\ stream = <<>> /\ ~clientOpen
    /\ reader' = "check"
    /\ UNCHANGED <<stream, clientVars, buf, tcpStopped, readWhole, tcpPublished, channelVars>>

\* The connection is closed.
ReadFails ==
    /\ reader = "read"
    /\ stream = <<>> /\ ~clientOpen
    /\ reader' = "gone"
    /\ UNCHANGED <<stream, clientVars, buf, tcpStopped, readWhole, tcpPublished, channelVars>>

\* The next line of the Read, or the piece of one: how many pieces it has.
NextLine == IF Len(buf) > 1 /\ buf[1][2] = 1 THEN 2 ELSE 1

IsNotice == NextLine = 2 /\ buf[1][1] \in Notices

\* Fault: the rest of the Read is given up with a line that cannot be parsed.
LineProcessedLast(n) ==
    /\ buf' = IF IsNotice THEN SubSeq(buf, n + 1, Len(buf)) ELSE <<>>
    /\ reader' = IF buf' = <<>> THEN "check" ELSE "process"
    /\ UNCHANGED <<stream, clientVars, tcpStopped, readWhole>>

LineProcessed(n) ==
    /\ buf' = SubSeq(buf, n + 1, Len(buf))
    /\ reader' = IF buf' = <<>> THEN "check" ELSE "process"
    /\ UNCHANGED <<stream, clientVars, tcpStopped, readWhole>>

\* Logged: the line is not valid, or the context is cancelled.
DropLine ==
    /\ reader = "process"
    /\ ~IsNotice \/ TcpDone
    /\ LineProcessed(NextLine)
    /\ UNCHANGED <<tcpPublished, channelVars>>

PublishLine ==
    /\ reader = "process" /\ IsNotice
    /\ Send
    /\ tcpPublished' = tcpPublished \cup {buf[1][1]}
    /\ LineProcessed(NextLine)

Reader ==
    \/ \E n \in 1..Len(stream) : ReadPieces(n)
    \/ ReaderChecksContext \/ ReadFails \/ DropLine \/ PublishLine

TcpNext ==
    \/ \E m \in Lines : ClientSends(m)
    \/ ClientCloses \/ TcpStop
    \/ Reader

--------------------------------------------------------------------------------

Piece == Lines \X {1, 2}

TcpTypeOK ==
    /\ stream \in Seq(Piece) /\ buf \in Seq(Piece)
    /\ unsent \subseteq Lines /\ clientOpen \in BOOLEAN
    /\ reader \in {"check", "read", "process", "gone"}
    /\ reader = "process" <=> buf # <<>>
    /\ tcpStopped \in BOOLEAN
    /\ readWhole \subseteq Lines /\ tcpPublished \subseteq Notices

\* Reads cut lines anywhere and there is no reassembly (tcp/listener.go:118-133), yet a
\* line that arrives in one piece is published while the listener runs, whatever comes
\* before it in the same Read.
WholeIsPublished ==
    \A m \in readWhole \cap Notices :
        m \in tcpPublished \/ TcpDone \/ \E i \in DOMAIN buf : buf[i][1] = m

\* The reader ends after the connection is closed, also when it waits for room in the
\* channel at that moment (tcp/listener.go:97-103, 119-125).
ReaderEnds == ~clientOpen ~> reader = "gone"
================================================================================
