----------------------------- MODULE SourcesProofs ------------------------------
(***************************************************************************)
(* Proofs about Sources for any messages, lines, batches and versions, any *)
(* capacity of the channel and any sources that are active together.       *)
(* Each source has an inductive invariant of its own, that the steps of    *)
(* the others keep because they only share the channel.                    *)
(***************************************************************************)
EXTENDS Sources, TLAPS

\* Messages are where the poller and the worker say they are.
SqsInv ==
    /\ SqsTypeOK
    /\ SqsNotLost
    /\ poller \in {"poll", "backoff"} => batch = {}
    /\ poller # "delete" => toDelete = {}
    /\ poller # "closed" => sqsDropped = {}
    /\ worker # "process" => work = {}

\* A callback is about to send the new versions only, and acks them after that.
PubSubInv ==
    /\ PubSubTypeOK
    /\ AckedIsPublished
    /\ \A m \in AuditLogs :
          /\ callback[m] = "send" => m \in NewVersions
          /\ callback[m] = "ack" /\ m \in NewVersions => m \in psPublished

\* The second piece of a line follows the first.
Paired(s) == \A i \in 1..(Len(s) - 1) : s[i][2] = 1 => s[i + 1][2] = 2

\* Both pieces of a line are there.
Whole(s, m) == \E i \in 1..(Len(s) - 1) : s[i] = <<m, 1>> /\ s[i + 1] = <<m, 2>>

\* Clients send whole lines; a line that one Read returned is whole until it is processed.
TcpInv ==
    /\ TcpTypeOK
    /\ Paired(stream) /\ Paired(buf)
    /\ stream # <<>> => stream[Len(stream)][2] = 2
    /\ \A m \in readWhole \cap Notices : m \in tcpPublished \/ TcpDone \/ Whole(buf, m)

\* The events before the next one were published, if they had to be and the listener
\* runs; a body that is no batch is refused.
RequestOK(r) ==
    /\ request[r].phase \in {"handling", "cut off"} => Batch[r] # Unparsable
    /\ request[r].phase = "answered" /\ Batch[r] = Unparsable => request[r].status = 400
    /\ request[r].phase = "answered" /\ Batch[r] # Unparsable => request[r].next > Len(Batch[r])
    /\ request[r].phase # "unsent" /\ Batch[r] # Unparsable =>
          \A i \in DOMAIN Batch[r] :
              i < request[r].next /\ Batch[r][i] = "SecretNewVersionCreated" =>
                  <<r, i>> \in gridPublished \/ GridDone
    /\ request[r].phase = "unsent" => request[r].next = 1

Phase  == {"unsent", "handling", "cut off", "answered"}
Status == {0, 200, 400, 404}

Request == [phase : Phase, next : Nat \ {0}, status : Status]

\* Only new secret versions are published.
PublishedNews == \A e \in gridPublished : Batch[e[1]][e[2]] = "SecretNewVersionCreated"

EventGridInv ==
    /\ request \in [Requests -> Request]
    /\ gridServer \in {"serving", "cancelled", "closed"}
    /\ PublishedNews
    /\ \A r \in Requests : RequestOK(r)

\* The version in VersionMap and those that were reported, by this process or before.
Stored == {versionMap} \cup {reported[j] : j \in DOMAIN reported}

\* The versions the listener has got hold of.
Seen == Stored \cup {toMap[j].version : j \in DOMAIN toMap}
               \cup (IF informed = Absent THEN {} ELSE {informed.version})

\* Versions in a sequence of states do not go back.
Rising(s) == \A i, j \in DOMAIN s : i < j => s[i].version <= s[j].version

\* What is still to come is newer than what was seen, and newer the later it comes.
Upcoming ==
    /\ \A i \in DOMAIN upcoming :
          upcoming[i].version <= resource /\ \A v \in Seen : v < upcoming[i].version
    /\ \A i, j \in DOMAIN upcoming : i < j => upcoming[i].version < upcoming[j].version

\* Versions reach the map function in order.
InOrder ==
    /\ \A v \in Seen : v <= resource /\ (informed # Absent => v <= informed.version)
    /\ watched # Absent => watched.version = resource
    /\ Rising(toMap)
    /\ \A i \in DOMAIN toMap : \A v \in Stored : v <= toMap[i].version

\* VersionMap has the last version that was reported or is being sent, once the process
\* has seen the object.
Mapped ==
    /\ versionMap # 0 => \A i \in DOMAIN reported : reported[i] <= versionMap
    /\ mapping # 0 => mapping = versionMap /\ \A i \in DOMAIN reported : reported[i] < mapping
    /\ versionMap = 0 <=> firstSeen = 0
    /\ versionMap # 0 =>
          versionMap \in {reported[i] : i \in DOMAIN reported} \cup {firstSeen, mapping}

\* The version of a selected object is reported or on the way to be.
Pending(v) ==
    \/ v \in {reported[i] : i \in DOMAIN reported} \cup {firstSeen, mapping}
    \/ \E i \in DOMAIN toMap : toMap[i].version = v /\ ~toMap[i].deleting

WatchInv ==
    /\ WatchTypeOK
    /\ ReportedOnce
    /\ Upcoming
    /\ InOrder
    /\ Mapped
    /\ informed # Absent /\ informed.selected /\ ~informed.deleting => Pending(informed.version)

--------------------------------------------------------------------------------
(* The channel                                                             *)

\* What every step does to the channel: it never holds more than its capacity, and a
\* context that is cancelled stays so.
ChannelKept == ChannelTypeOK' /\ (up' => up)

\* A send keeps the channel within its capacity.
LEMMA SendKeeps ==
    ASSUME ChannelTypeOK, Send
    PROVE  ChannelKept /\ up' = up
  BY ChannelAssumption DEF ChannelTypeOK, Send, Room, ChannelKept

\* A step that leaves the channel alone.
LEMMA NothingSent ==
    ASSUME ChannelTypeOK, UNCHANGED channelVars
    PROVE  ChannelKept /\ up' = up
  BY DEF ChannelTypeOK, channelVars, ChannelKept

\* The consumer, the other senders and the shutdown.
LEMMA ChannelStep ==
    ASSUME ChannelTypeOK, ChannelNext
    PROVE  ChannelKept
<1>1. CASE Take
  BY <1>1, ChannelAssumption DEF ChannelTypeOK, Take, ChannelKept
<1>2. CASE ConsumerReturns
  BY <1>2 DEF ChannelTypeOK, ConsumerReturns, ChannelKept
<1>3. CASE Shutdown
  BY <1>3 DEF ChannelTypeOK, Shutdown, ChannelKept
<1>4. CASE OthersSend
  BY <1>4, SendKeeps DEF OthersSend
<1> QED BY <1>1, <1>2, <1>3, <1>4 DEF ChannelNext

--------------------------------------------------------------------------------
(* SQS                                                                     *)

\* The invariant of the SQS source holds whatever the others do.
LEMMA SqsKept ==
    ASSUME SqsInv, UNCHANGED sqsVars, up' => up
    PROVE  SqsInv'
  BY DEF SqsInv, SqsTypeOK, SqsNotLost, sqsVars

\* A step of the poller.  It overwrites what it had only when that was handed over.
LEMMA PollerStep ==
    ASSUME ChannelTypeOK, SqsInv, Poller
    PROVE  SqsInv' /\ ChannelKept
<1> USE DEF serviceVars, pollerVars, workerVars
<1>1. ASSUME NEW S \in (SUBSET sqsQueue) \ {{}}, ReceiveMessage(S)
      PROVE  SqsInv' /\ ChannelKept
  BY <1>1, NothingSent DEF ReceiveMessage, SqsInv, SqsTypeOK, SqsNotLost
<1>2. CASE ReceiveFails \/ BackoffEnds
  BY <1>2, NothingSent DEF ReceiveFails, BackoffEnds, SqsInv, SqsTypeOK, SqsNotLost
<1>3. ASSUME NEW m \in Messages, DeleteMessage(m) \/ DeleteFails(m)
      PROVE  SqsInv' /\ ChannelKept
  <2>1. CASE DeleteMessage(m)
    BY <2>1, NothingSent DEF DeleteMessage, Deleted, SqsInv, SqsTypeOK, SqsNotLost
  <2>2. CASE DeleteFails(m)
    BY <2>2, NothingSent DEF DeleteFails, Deleted, SqsInv, SqsTypeOK, SqsNotLost
  <2> QED BY <1>3, <2>1, <2>2
<1>4. CASE HandOver
  BY <1>4, NothingSent DEF HandOver, SqsInv, SqsTypeOK, SqsNotLost
<1>5. CASE PollerReturns
  BY <1>5, NothingSent DEF PollerReturns, SqsInv, SqsTypeOK, SqsNotLost
<1> QED BY <1>1, <1>2, <1>3, <1>4, <1>5 DEF Poller

\* A step of the worker.  It leaves a message out only if nobody can parse it or the
\* process ends.
LEMMA WorkerStep ==
    ASSUME ChannelTypeOK, SqsInv, Worker
    PROVE  SqsInv' /\ ChannelKept
<1> USE DEF serviceVars, pollerVars, workerVars
<1>1. CASE WorkerLogsError \/ WorkerReturns
  BY <1>1, NothingSent DEF WorkerLogsError, WorkerReturns, SqsInv, SqsTypeOK, SqsNotLost
<1>2. ASSUME NEW m \in Messages, SkipMessage(m)
      PROVE  SqsInv' /\ ChannelKept
  BY <1>2, NothingSent DEF SkipMessage, Processed, SqsInv, SqsTypeOK, SqsNotLost
<1>3. ASSUME NEW m \in Messages, PublishMessage(m)
      PROVE  SqsInv' /\ ChannelKept
  <2>1. ChannelKept /\ up' = up
    BY <1>3, SendKeeps DEF PublishMessage
  <2> QED BY <1>3, <2>1 DEF PublishMessage, Processed, SqsInv, SqsTypeOK, SqsNotLost
<1> QED BY <1>1, <1>2, <1>3 DEF Worker

\* A step of the SQS source.
LEMMA SqsStep ==
    ASSUME ChannelTypeOK, SqsInv, SqsNext
    PROVE  SqsInv' /\ ChannelKept
<1> USE DEF serviceVars, pollerVars, workerVars
<1>1. CASE SqsStop
  BY <1>1, NothingSent DEF SqsStop, SqsInv, SqsTypeOK, SqsNotLost
<1>2. ASSUME NEW m \in Messages, VisibilityTimeout(m)
      PROVE  SqsInv' /\ ChannelKept
  BY <1>2, NothingSent DEF VisibilityTimeout, SqsInv, SqsTypeOK, SqsNotLost
<1> QED BY <1>1, <1>2, PollerStep, WorkerStep DEF SqsNext

--------------------------------------------------------------------------------
(* Pub/Sub                                                                 *)

\* The invariant of the Pub/Sub source holds whatever the others do.
LEMMA PubSubKept ==
    ASSUME PubSubInv, UNCHANGED psVars
    PROVE  PubSubInv'
  BY DEF PubSubInv, PubSubTypeOK, AckedIsPublished, psVars

\* A step of the Pub/Sub source.  Stop may come between any two steps of a callback.
LEMMA PubSubStep ==
    ASSUME ChannelTypeOK, PubSubInv, PubSubNext
    PROVE  PubSubInv' /\ ChannelKept
<1> USE DEF PubSubInv, PubSubTypeOK, AckedIsPublished
<1>1. CASE PubSubStop \/ PubSubReceiveFails
  BY <1>1, NothingSent DEF PubSubStop, PubSubReceiveFails
<1>2. ASSUME NEW m \in AuditLogs, PubSubDeliver(m)
      PROVE  PubSubInv' /\ ChannelKept
  BY <1>2, NothingSent DEF PubSubDeliver
<1>3. ASSUME NEW m \in AuditLogs, Answer(m, "waiting"), UNCHANGED channelVars
      PROVE  PubSubInv' /\ ChannelKept
  BY <1>3, NothingSent DEF Answer
<1>4. ASSUME NEW m \in AuditLogs, Ack(m)
      PROVE  PubSubInv' /\ ChannelKept
  BY <1>4, NothingSent DEF Ack, Answer
<1>5. ASSUME NEW m \in AuditLogs, ReadMethodName(m)
      PROVE  PubSubInv' /\ ChannelKept
  BY <1>5, NothingSent DEF ReadMethodName
<1>6. ASSUME NEW m \in AuditLogs, PubSubSend(m)
      PROVE  PubSubInv' /\ ChannelKept
  <2>1. ChannelKept
    BY <1>6, SendKeeps DEF PubSubSend
  <2> QED BY <1>6, <2>1 DEF PubSubSend
<1> QED BY <1>1, <1>2, <1>3, <1>4, <1>5, <1>6 DEF PubSubNext, Callback, Nack, AckLost

--------------------------------------------------------------------------------
(* TCP                                                                     *)

\* The invariant of the TCP source holds whatever the others do.
LEMMA TcpKept ==
    ASSUME TcpInv, UNCHANGED tcpVars, up' => up
    PROVE  TcpInv'
  BY DEF TcpInv, TcpTypeOK, TcpDone, tcpVars

\* The rest of a sequence of pieces is one too, its places moved.
LEMMA RestOfPieces ==
    ASSUME NEW s \in Seq(Piece), NEW n \in 1..Len(s)
    PROVE  LET rest == SubSeq(s, n + 1, Len(s))
           IN  /\ rest \in Seq(Piece) /\ Len(rest) = Len(s) - n
               /\ \A i \in 1..(Len(s) - n) : rest[i] = s[n + i]
  OBVIOUS

\* So is the beginning, in the same places.
LEMMA FirstPieces ==
    ASSUME NEW s \in Seq(Piece), NEW n \in 1..Len(s)
    PROVE  LET first == SubSeq(s, 1, n)
           IN  /\ first \in Seq(Piece) /\ Len(first) = n
               /\ \A i \in 1..n : first[i] = s[i]
  OBVIOUS

\* A client sends both pieces of a line at once.
LEMMA ClientStep ==
    ASSUME TcpInv, NEW m \in Lines, ClientSends(m)
    PROVE  TcpInv'
<1> DEFINE s == stream \o << <<m, 1>>, <<m, 2>> >>
<1>1. stream \in Seq(Piece) /\ Len(stream) \in Nat /\ <<m, 1>> \in Piece /\ <<m, 2>> \in Piece
  BY DEF TcpInv, TcpTypeOK, Piece
<1>2. << <<m, 1>>, <<m, 2>> >> \in Seq(Piece)
  BY <1>1
<1>3. /\ s \in Seq(Piece) /\ Len(s) = Len(stream) + 2
      /\ \A i \in 1..Len(stream) : s[i] = stream[i]
      /\ s[Len(stream) + 1] = <<m, 1>> /\ s[Len(stream) + 2] = <<m, 2>>
  BY <1>1, <1>2
<1> HIDE DEF s
<1>4. Paired(s)
  <2> SUFFICES ASSUME NEW i \in 1..(Len(s) - 1), s[i][2] = 1
               PROVE  s[i + 1][2] = 2
    BY DEF Paired
  <2>1. CASE i \in 1..(Len(stream) - 1)
    <3>1. s[i] = stream[i] /\ s[i + 1] = stream[i + 1]
      BY <1>1, <1>3, <2>1
    <3> QED BY <2>1, <3>1 DEF TcpInv, Paired
  <2>2. CASE i = Len(stream)
    <3>1. stream # <<>> /\ s[i] = stream[Len(stream)]
      BY <1>1, <1>3, <2>2
    <3>2. s[i][2] = 2
      BY <3>1 DEF TcpInv
    <3> QED BY <3>2
  <2>3. CASE i = Len(stream) + 1
    BY <1>1, <1>3, <2>3
  <2> QED BY <1>1, <1>3, <2>1, <2>2, <2>3
<1>5. s[Len(s)][2] = 2
  BY <1>1, <1>3
<1>6. /\ stream' = s /\ unsent' \subseteq Lines
      /\ UNCHANGED <<buf, reader, tcpStopped, readWhole, tcpPublished, clientOpen, up>>
  BY DEF ClientSends, s, channelVars, TcpInv, TcpTypeOK
<1>7. TcpTypeOK'
  BY <1>3, <1>6 DEF TcpInv, TcpTypeOK
<1> QED BY <1>4, <1>5, <1>6, <1>7 DEF TcpInv, TcpDone

\* A Read returns any number of the pieces that have arrived: what it returns and what
\* is left are paired, and a line that it returns whole is whole in the buffer.
LEMMA ReadStep ==
    ASSUME TcpInv, NEW n \in 1..Len(stream), ReadPieces(n)
    PROVE  TcpInv'
<1> DEFINE first == SubSeq(stream, 1, n)
           rest  == SubSeq(stream, n + 1, Len(stream))
<1>1. stream \in Seq(Piece) /\ Len(stream) \in Nat /\ n \in Nat
  BY DEF TcpInv, TcpTypeOK
<1>2. /\ first \in Seq(Piece) /\ Len(first) = n
      /\ \A i \in 1..n : first[i] = stream[i]
  BY <1>1, FirstPieces
<1>3. /\ rest \in Seq(Piece) /\ Len(rest) = Len(stream) - n
      /\ \A i \in 1..(Len(stream) - n) : rest[i] = stream[n + i]
  BY <1>1, RestOfPieces
<1>4. buf' = first /\ stream' = rest
  BY DEF ReadPieces
<1> HIDE DEF first, rest
<1>5. Paired(first)
  BY <1>1, <1>2 DEF TcpInv, Paired
<1>6. Paired(rest)
  <2> SUFFICES ASSUME NEW i \in 1..(Len(rest) - 1), rest[i][2] = 1
               PROVE  rest[i + 1][2] = 2
    BY DEF Paired
  <2>1. rest[i] = stream[n + i] /\ rest[i + 1] = stream[n + (i + 1)]
    BY <1>1, <1>3
  <2>2. n + i \in 1..(Len(stream) - 1) /\ n + (i + 1) = (n + i) + 1
    BY <1>1, <1>3
  <2> QED BY <2>1, <2>2 DEF TcpInv, Paired
<1>7. rest # <<>> => rest[Len(rest)][2] = 2
  <2> SUFFICES ASSUME rest # <<>> PROVE rest[Len(rest)][2] = 2
    OBVIOUS
  <2>1. Len(rest) \in 1..(Len(stream) - n) /\ n + Len(rest) = Len(stream) /\ stream # <<>>
    BY <1>1, <1>3
  <2> QED BY <1>3, <2>1 DEF TcpInv
<1>8. buf = <<>> /\ first # <<>> /\ reader' = "process"
  BY <1>2 DEF ReadPieces, TcpInv, TcpTypeOK
<1>9. ASSUME NEW m \in readWhole' \cap Notices
      PROVE  m \in tcpPublished' \/ TcpDone' \/ Whole(buf', m)
  <2>1. CASE m \in readWhole
    <3>1. ~Whole(buf, m)
      BY <1>8 DEF Whole
    <3> QED BY <1>9, <2>1, <3>1 DEF TcpInv, TcpDone, ReadPieces, channelVars
  <2>2. CASE m \notin readWhole
    <3>1. PICK i \in 1..(n - 1) : stream[i] = <<m, 1>> /\ stream[i + 1] = <<m, 2>>
      BY <1>9, <2>2 DEF ReadPieces
    <3>2. i \in 1..n /\ i + 1 \in 1..n
      BY <1>1
    <3> QED BY <1>2, <1>4, <3>1, <3>2 DEF Whole
  <2> QED BY <2>1, <2>2
<1>10. TcpTypeOK'
  BY <1>2, <1>3, <1>4, <1>8 DEF ReadPieces, TcpInv, TcpTypeOK, clientVars
<1> QED BY <1>4, <1>5, <1>6, <1>7, <1>9, <1>10 DEF TcpInv

\* The reader goes on in the buffer: a whole line that is not the next one stays whole,
\* because the second piece of the next line is never the first one of another.
LEMMA LineStep ==
    ASSUME TcpInv, reader = "process", LineProcessed(NextLine), up' = up,
           tcpPublished' \in {tcpPublished, tcpPublished \cup {buf[1][1]}},
           IsNotice => buf[1][1] \in tcpPublished' \/ TcpDone,
           tcpPublished' \subseteq Notices
    PROVE  TcpInv'
<1> DEFINE n    == NextLine
           rest == SubSeq(buf, n + 1, Len(buf))
<1>1. buf \in Seq(Piece) /\ Len(buf) \in Nat /\ buf # <<>>
  BY DEF TcpInv, TcpTypeOK
<1>2. n \in 1..Len(buf) /\ n \in {1, 2}
  BY <1>1 DEF NextLine
<1>3. /\ rest \in Seq(Piece) /\ Len(rest) = Len(buf) - n
      /\ \A i \in 1..(Len(buf) - n) : rest[i] = buf[n + i]
  BY <1>1, <1>2, RestOfPieces
<1>4. /\ buf' = rest /\ reader' = IF rest = <<>> THEN "check" ELSE "process"
      /\ UNCHANGED <<stream, unsent, clientOpen, tcpStopped, readWhole>>
  BY DEF LineProcessed, clientVars
<1> HIDE DEF rest
<1>5. Paired(rest)
  <2> SUFFICES ASSUME NEW i \in 1..(Len(rest) - 1), rest[i][2] = 1
               PROVE  rest[i + 1][2] = 2
    BY DEF Paired
  <2> HIDE DEF n
  <2>1. rest[i] = buf[n + i] /\ rest[i + 1] = buf[n + (i + 1)]
    BY <1>1, <1>2, <1>3
  <2>2. n + i \in 1..(Len(buf) - 1) /\ n + (i + 1) = (n + i) + 1
    BY <1>1, <1>2, <1>3
  <2> QED BY <2>1, <2>2 DEF TcpInv, Paired
<1>6. ASSUME NEW m \in readWhole \cap Notices
      PROVE  m \in tcpPublished' \/ TcpDone' \/ Whole(rest, m)
  <2>1. CASE m \in tcpPublished \/ TcpDone
    BY <1>4, <2>1 DEF TcpDone
  <2>2. CASE ~(m \in tcpPublished \/ TcpDone)
    <3>1. PICK i \in 1..(Len(buf) - 1) : buf[i] = <<m, 1>> /\ buf[i + 1] = <<m, 2>>
      BY <1>6, <2>2 DEF TcpInv, Whole
    <3>2. CASE i = 1
      <4>1. IsNotice /\ buf[1][1] = m
        BY <1>1, <1>6, <3>1, <3>2 DEF IsNotice, NextLine
      <4> QED BY <2>2, <4>1
    <3>3. CASE i # 1
      <4>1. n # 2 \/ i # 2
        <5> SUFFICES ASSUME n = 2, i = 2 PROVE FALSE
          OBVIOUS
        <5>1. buf[1][2] = 1 /\ 1 \in 1..(Len(buf) - 1)
          BY <1>1, <3>1 DEF NextLine
        <5>2. buf[2][2] = 2
          BY <5>1 DEF TcpInv, Paired
        <5> QED BY <3>1, <5>2
      <4> HIDE DEF n
      <4>2. /\ i - n \in 1..(Len(rest) - 1)
            /\ rest[i - n] = buf[n + (i - n)] /\ rest[(i - n) + 1] = buf[n + ((i - n) + 1)]
        BY <1>1, <1>2, <1>3, <3>3, <4>1
      <4>3. n + (i - n) = i /\ n + ((i - n) + 1) = i + 1
        BY <1>2
      <4> QED BY <3>1, <4>2, <4>3 DEF Whole
    <3> QED BY <3>2, <3>3
  <2> QED BY <2>1, <2>2
<1>7. TcpTypeOK'
  BY <1>3, <1>4 DEF TcpInv, TcpTypeOK
<1> QED BY <1>4, <1>5, <1>6, <1>7 DEF TcpInv

\* A step of the TCP source.
LEMMA TcpStep ==
    ASSUME ChannelTypeOK, TcpInv, TcpNext
    PROVE  TcpInv' /\ ChannelKept
<1>1. ASSUME NEW m \in Lines, ClientSends(m)
      PROVE  TcpInv' /\ ChannelKept
  BY <1>1, ClientStep, NothingSent DEF ClientSends
<1>2. CASE ClientCloses
  <2>1. ChannelKept /\ up' = up
    BY <1>2, NothingSent DEF ClientCloses
  <2>2. TcpTypeOK'
    BY <1>2 DEF ClientCloses, TcpInv, TcpTypeOK
  <2> QED BY <1>2, <2>1, <2>2 DEF ClientCloses, TcpInv, TcpDone
<1>3. CASE TcpStop
  BY <1>3, NothingSent DEF TcpStop, TcpInv, TcpTypeOK, TcpDone, clientVars
<1>4. ASSUME NEW n \in 1..Len(stream), ReadPieces(n)
      PROVE  TcpInv' /\ ChannelKept
  BY <1>4, ReadStep, NothingSent DEF ReadPieces
<1>5. CASE ReaderChecksContext
  BY <1>5, NothingSent DEF ReaderChecksContext, TcpInv, TcpTypeOK, TcpDone, clientVars
<1>6. CASE ReadFails
  BY <1>6, NothingSent DEF ReadFails, TcpInv, TcpTypeOK, TcpDone, clientVars
<1>7. CASE DropLine
  <2>1. ChannelKept /\ up' = up
    BY <1>7, NothingSent DEF DropLine
  <2>2. /\ reader = "process" /\ LineProcessed(NextLine) /\ tcpPublished' = tcpPublished
        /\ IsNotice => TcpDone
    BY <1>7 DEF DropLine
  <2> QED BY <2>1, <2>2, LineStep DEF TcpInv, TcpTypeOK
<1>8. CASE PublishLine
  <2>1. ChannelKept /\ up' = up
    BY <1>8, SendKeeps DEF PublishLine
  <2>2. /\ reader = "process" /\ LineProcessed(NextLine) /\ IsNotice
        /\ tcpPublished' = tcpPublished \cup {buf[1][1]}
    BY <1>8 DEF PublishLine
  <2> QED BY <2>1, <2>2, LineStep DEF TcpInv, TcpTypeOK, IsNotice
<1> QED BY <1>1, <1>2, <1>3, <1>4, <1>5, <1>6, <1>7, <1>8 DEF TcpNext, Reader

--------------------------------------------------------------------------------
(* Event Grid                                                              *)

\* The invariant of the Event Grid source holds whatever the others do.
LEMMA EventGridKept ==
    ASSUME EventGridInv, UNCHANGED gridVars, up' => up
    PROVE  EventGridInv'
<1>1. UNCHANGED <<request, gridServer, gridPublished>>
  BY DEF gridVars
<1>2. PublishedNews'
  BY <1>1 DEF EventGridInv, PublishedNews
<1>3. ASSUME NEW r \in Requests PROVE RequestOK(r)'
  BY <1>1 DEF EventGridInv, RequestOK, GridDone
<1> QED BY <1>1, <1>2, <1>3 DEF EventGridInv

\* The fields of a request.
LEMMA RequestFields ==
    ASSUME NEW q \in Request
    PROVE  q.phase \in Phase /\ q.next \in Nat /\ q.next > 0 /\ q.status \in Status
  BY DEF Request

\* A request whose next event is handled.
LEMMA RequestMoved ==
    ASSUME NEW q \in Request, NEW s \in Status
    PROVE  LET x == [q EXCEPT !.next = q.next + 1, !.status = s]
           IN  /\ x \in Request /\ x.phase = q.phase
               /\ x.next = q.next + 1 /\ x.status = s
<1>1. q.next + 1 \in Nat \ {0}
  BY DEF Request
<1> QED BY <1>1 DEF Request

\* The places of a batch.
LEMMA BatchPlaces ==
    ASSUME NEW s \in Seq(EventTypes)
    PROVE  \A i \in DOMAIN s : i \in Nat /\ i > 0 /\ i <= Len(s)
  OBVIOUS

\* A step that changes one request, publishes nothing twice and leaves the server alone.
LEMMA RequestStep ==
    ASSUME EventGridInv, NEW r \in Requests, NEW q \in Request,
           request' = [request EXCEPT ![r] = q], RequestOK(r)',
           gridServer' = gridServer, up' = up,
           gridPublished \subseteq gridPublished', PublishedNews'
    PROVE  EventGridInv'
<1>1. request' \in [Requests -> Request]
  BY DEF EventGridInv
<1>2. ASSUME NEW k \in Requests, k # r PROVE RequestOK(k)'
  <2>1. request'[k] = request[k]
    BY <1>2 DEF EventGridInv
  <2> QED BY <2>1 DEF EventGridInv, RequestOK, GridDone
<1> QED BY <1>1, <1>2 DEF EventGridInv

\* The handler of a request goes on to the next event.
LEMMA GridHandlerStep ==
    ASSUME ChannelTypeOK, EventGridInv, NEW r \in Requests, GridHandler(r)
    PROVE  EventGridInv' /\ ChannelKept
<1> DEFINE q == request[r]
           n == q.next
<1>1. q \in Request /\ RequestOK(r)
  BY DEF EventGridInv
<1>2. n \in Nat /\ n > 0 /\ q.status \in Status
  BY <1>1, RequestFields
<1>3. ASSUME NEW s \in Status, Handling(r), gridServer' = gridServer, up' = up,
             request' = [request EXCEPT ![r] = [q EXCEPT !.next = n + 1, !.status = s]],
             gridPublished' \in {gridPublished, gridPublished \cup {<<r, n>>}},
             Event(r) = "SecretNewVersionCreated" => <<r, n>> \in gridPublished' \/ GridDone,
             gridPublished' # gridPublished => Event(r) = "SecretNewVersionCreated"
      PROVE  EventGridInv'
  <2> DEFINE x == [q EXCEPT !.next = n + 1, !.status = s]
  <2>1. x \in Request /\ x.next = n + 1 /\ x.phase = q.phase
    BY <1>1, <1>3, RequestMoved
  <2>2. request'[r] = x
    BY <1>3 DEF EventGridInv
  <2>3. /\ Batch[r] \in Seq(EventTypes) /\ n <= Len(Batch[r])
        /\ q.phase \in {"handling", "cut off"}
    BY <1>1, <1>3, BatchAssumption DEF Handling, RequestOK
  <2>4. \A i \in DOMAIN Batch[r] : i \in Nat
    BY <2>3, BatchPlaces
  <2> HIDE DEF x
  <2>5. RequestOK(r)'
    <3>1. ASSUME NEW i \in DOMAIN Batch[r], i < n + 1, Batch[r][i] = "SecretNewVersionCreated"
          PROVE  <<r, i>> \in gridPublished' \/ GridDone
      <4>1. CASE i < n
        <5>1. <<r, i>> \in gridPublished \/ GridDone
          BY <1>1, <2>3, <3>1, <4>1 DEF RequestOK
        <5> QED BY <1>3, <5>1
      <4>2. CASE i = n
        BY <1>3, <3>1, <4>2 DEF Event
      <4> QED BY <1>2, <2>4, <3>1, <4>1, <4>2
    <3> QED BY <1>1, <1>3, <2>1, <2>2, <2>3, <3>1 DEF RequestOK, GridDone
  <2>6. PublishedNews'
    BY <1>3 DEF EventGridInv, PublishedNews, Event
  <2>7. gridPublished \subseteq gridPublished'
    BY <1>3
  <2>8. request' = [request EXCEPT ![r] = x]
    BY <1>3 DEF x
  <2> QED BY <1>3, <2>1, <2>5, <2>6, <2>7, <2>8, RequestStep
<1>4. ASSUME NEW s \in Status
      PROVE  \E t \in Status : Written(q, s) = [q EXCEPT !.next = n + 1, !.status = t]
  <2>1. CASE q.status = 0
    BY <2>1 DEF Written
  <2>2. CASE q.status # 0
    <3>1. Written(q, s) = [q EXCEPT !.next = n + 1, !.status = q.status]
      BY <2>2 DEF Written
    <3> QED BY <1>2, <3>1
  <2> QED BY <2>1, <2>2
<1>5. CASE HandleEvent(r)
  <2> DEFINE s == CASE Event(r) \in {"ValidationNoHeader", "InvalidData"} -> 400
                    [] Event(r) = "ValidationUnknown"                     -> 404
                    [] Event(r) = "Validation"                            -> 200
                    [] Event(r) = "Unhandled"                             -> 0
  <2>1. Event(r) \in EventTypes \ {"SecretNewVersionCreated"}
    <3>1. Batch[r] \in Seq(EventTypes) /\ n <= Len(Batch[r])
      BY <1>1, <1>5, BatchAssumption DEF HandleEvent, Handling, RequestOK
    <3>2. n \in 1..Len(Batch[r])
      BY <1>2, <3>1
    <3> QED BY <1>5, <3>1, <3>2 DEF HandleEvent, Event
  <2>2. s \in Status
    BY <2>1 DEF EventTypes, Status
  <2>3. request' = [request EXCEPT ![r] = Written(q, s)]
    BY <1>5 DEF HandleEvent
  <2> HIDE DEF s
  <2>4. ChannelKept /\ up' = up
    BY <1>5, NothingSent DEF HandleEvent
  <2> QED BY <1>3, <1>4, <1>5, <2>1, <2>2, <2>3, <2>4 DEF HandleEvent
<1>6. CASE PublishGridEvent(r)
  <2>1. ChannelKept /\ up' = up
    BY <1>6, SendKeeps DEF PublishGridEvent
  <2>2. request' = [request EXCEPT ![r] = Written(q, 200)]
    BY <1>6 DEF PublishGridEvent
  <2>3. /\ gridPublished' = gridPublished \cup {<<r, n>>} /\ gridServer' = gridServer
        /\ Handling(r) /\ Event(r) = "SecretNewVersionCreated"
    BY <1>6 DEF PublishGridEvent
  <2>4. PICK t \in Status : Written(q, 200) = [q EXCEPT !.next = n + 1, !.status = t]
    BY <1>4 DEF Status
  <2>5. request' = [request EXCEPT ![r] = [q EXCEPT !.next = n + 1, !.status = t]]
    BY <2>2, <2>4
  <2> QED BY <1>3, <2>1, <2>3, <2>5
<1>7. CASE DropGridEvent(r)
  <2>1. ChannelKept /\ up' = up
    BY <1>7, NothingSent DEF DropGridEvent
  <2>2. request' = [request EXCEPT ![r] = [q EXCEPT !.next = n + 1, !.status = q.status]]
    <3>1. request' = [request EXCEPT ![r] = [q EXCEPT !.next = n + 1]]
      BY <1>7 DEF DropGridEvent
    <3>2. [q EXCEPT !.next = n + 1] = [q EXCEPT !.next = n + 1, !.status = q.status]
      BY <1>1 DEF Request
    <3> QED BY <3>1, <3>2
  <2> QED BY <1>2, <1>3, <1>7, <2>1, <2>2 DEF DropGridEvent
<1>8. CASE HandlerReturns(r)
  <2> DEFINE x == [q EXCEPT !.phase = "answered", !.status = IF q.status = 0 THEN 200 ELSE q.status]
  <2>1. x \in Request /\ x.phase = "answered" /\ x.next = n
    <3> DEFINE t == IF q.status = 0 THEN 200 ELSE q.status
    <3>1. t \in Status /\ "answered" \in Phase
      BY <1>2 DEF Status, Phase
    <3> HIDE DEF t
    <3>2. LET y == [q EXCEPT !.phase = "answered", !.status = t]
          IN  y \in Request /\ y.phase = "answered" /\ y.next = n
      BY <1>1, <3>1 DEF Request
    <3> QED BY <3>2 DEF t
  <2>2. request' = [request EXCEPT ![r] = x]
    BY <1>8 DEF HandlerReturns
  <2>3. request'[r] = x
    BY <2>2 DEF EventGridInv
  <2>4. Batch[r] \in Seq(EventTypes) /\ n > Len(Batch[r]) /\ q.phase = "handling"
    BY <1>1, <1>8, BatchAssumption DEF HandlerReturns, RequestOK
  <2> HIDE DEF x
  <2>5. ChannelKept /\ up' = up
    BY <1>8, NothingSent DEF HandlerReturns
  <2>6. UNCHANGED <<gridServer, gridPublished>>
    BY <1>8 DEF HandlerReturns
  <2>7. \A i \in DOMAIN Batch[r] : i < n
    <3>1. \A i \in DOMAIN Batch[r] : i \in Nat /\ i <= Len(Batch[r])
      BY <2>4
    <3> QED BY <1>2, <2>4, <3>1
  <2>8. RequestOK(r)'
    BY <1>1, <2>1, <2>3, <2>4, <2>5, <2>6, <2>7 DEF RequestOK, GridDone
  <2> QED BY <2>1, <2>2, <2>5, <2>6, <2>8, RequestStep DEF EventGridInv, PublishedNews
<1> QED BY <1>5, <1>6, <1>7, <1>8 DEF GridHandler

\* A step of the Event Grid source.
LEMMA EventGridStep ==
    ASSUME ChannelTypeOK, EventGridInv, EventGridNext
    PROVE  EventGridInv' /\ ChannelKept
<1>1. CASE EventGridCancel
  <2>1. ChannelKept /\ up' = up
    BY <1>1, NothingSent DEF EventGridCancel
  <2>2. /\ UNCHANGED <<request, gridPublished>> /\ gridServer' = "cancelled"
    BY <1>1 DEF EventGridCancel
  <2>3. PublishedNews'
    BY <2>2 DEF EventGridInv, PublishedNews
  <2>4. ASSUME NEW r \in Requests PROVE RequestOK(r)'
    BY <2>2 DEF EventGridInv, RequestOK, GridDone
  <2> QED BY <2>1, <2>2, <2>3, <2>4 DEF EventGridInv
<1>2. CASE EventGridClose
  <2>1. ChannelKept /\ up' = up
    BY <1>2, NothingSent DEF EventGridClose
  <2>2. request' = [r \in Requests |-> IF request[r].phase = "handling"
                                      THEN [request[r] EXCEPT !.phase = "cut off"]
                                      ELSE request[r]]
    BY <1>2 DEF EventGridClose
  <2>3. gridServer' = "closed" /\ gridPublished' = gridPublished /\ GridDone'
    BY <1>2 DEF EventGridClose, GridDone
  <2>4. ASSUME NEW r \in Requests
        PROVE  request'[r] \in Request /\ RequestOK(r)'
    <3>1. request[r] \in Request /\ RequestOK(r)
      BY DEF EventGridInv, Request
    <3>2. CASE request[r].phase = "handling"
      <4>1. request'[r] = [request[r] EXCEPT !.phase = "cut off"]
        BY <2>2, <3>2
      <4>2. /\ request'[r] \in Request /\ request'[r].phase = "cut off"
            /\ request'[r].next = request[r].next
        BY <3>1, <4>1 DEF Request, Phase
      <4> QED BY <2>3, <3>1, <3>2, <4>2 DEF RequestOK
    <3>3. CASE request[r].phase # "handling"
      BY <2>2, <2>3, <3>1, <3>3 DEF RequestOK
    <3> QED BY <3>2, <3>3
  <2>5. request' \in [Requests -> Request] /\ PublishedNews'
    BY <2>2, <2>3, <2>4 DEF EventGridInv, PublishedNews
  <2> QED BY <2>1, <2>3, <2>4, <2>5 DEF EventGridInv
<1>3. ASSUME NEW r \in Requests, EventGridPost(r)
      PROVE  EventGridInv' /\ ChannelKept
  <2>1. ChannelKept /\ up' = up /\ UNCHANGED <<gridServer, gridPublished>>
    BY <1>3, NothingSent DEF EventGridPost
  <2>2. request[r] \in Request /\ RequestOK(r) /\ request[r].phase = "unsent"
    BY <1>3 DEF EventGridPost, EventGridInv, Request
  <2>3. PICK x \in Request : /\ request' = [request EXCEPT ![r] = x]
                             /\ x.next = request[r].next
                             /\ IF Batch[r] = Unparsable THEN x.phase = "answered" /\ x.status = 400
                                                         ELSE x.phase = "handling"
    <3>1. CASE Batch[r] = Unparsable
      <4> DEFINE y == [request[r] EXCEPT !.phase = "answered", !.status = 400]
      <4>1. y \in Request /\ y.next = request[r].next /\ y.phase = "answered" /\ y.status = 400
        BY <2>2 DEF Request, Phase, Status
      <4>2. request' = [request EXCEPT ![r] = y]
        BY <1>3, <3>1 DEF EventGridPost
      <4> HIDE DEF y
      <4> QED BY <3>1, <4>1, <4>2
    <3>2. CASE Batch[r] # Unparsable
      <4> DEFINE y == [request[r] EXCEPT !.phase = "handling"]
      <4>1. y \in Request /\ y.next = request[r].next /\ y.phase = "handling"
        BY <2>2 DEF Request, Phase, Status
      <4>2. request' = [request EXCEPT ![r] = y]
        BY <1>3, <3>2 DEF EventGridPost
      <4> HIDE DEF y
      <4> QED BY <3>2, <4>1, <4>2
    <3> QED BY <3>1, <3>2
  <2>4. request'[r] = x
    BY <2>3 DEF EventGridInv
  <2>5. RequestOK(r)'
    <3>1. \A i \in DOMAIN Batch[r] : Batch[r] # Unparsable => ~(i < x.next)
      <4>1. Batch[r] # Unparsable => DOMAIN Batch[r] \subseteq Nat \ {0}
        BY BatchAssumption
      <4> QED BY <2>2, <2>3, <4>1 DEF RequestOK
    <3>2. CASE Batch[r] = Unparsable
      BY <2>3, <2>4, <3>2 DEF RequestOK
    <3>3. CASE Batch[r] # Unparsable
      BY <2>3, <2>4, <3>1, <3>3 DEF RequestOK
    <3> QED BY <3>2, <3>3
  <2> QED BY <2>1, <2>3, <2>5, RequestStep DEF EventGridInv, PublishedNews
<1> QED BY <1>1, <1>2, <1>3, GridHandlerStep DEF EventGridNext

--------------------------------------------------------------------------------
(* Watches                                                                 *)

\* The invariant of a watch holds whatever the others do.
LEMMA WatchKept ==
    ASSUME WatchInv, UNCHANGED watchVars
    PROVE  WatchInv'
<1>1. UNCHANGED <<watched, upcoming, informed, toMap, mapping, versionMap, resource,
                  relists, watchStopped, firstSeen, reported>>
  BY DEF watchVars
<1>2. WatchTypeOK' /\ ReportedOnce'
  BY <1>1 DEF WatchInv, WatchTypeOK, ReportedOnce
<1>3. Upcoming' /\ InOrder'
  BY <1>1 DEF WatchInv, Upcoming, InOrder, Seen, Stored, Rising
<1>4. Mapped' /\ \A v : Pending(v)' = Pending(v)
  BY <1>1 DEF WatchInv, Mapped, Pending
<1> QED BY <1>1, <1>2, <1>3, <1>4 DEF WatchInv

\* The elements of a sequence.
LEMMA Elements ==
    ASSUME NEW S, NEW s \in Seq(S)
    PROVE  \A i \in DOMAIN s : s[i] \in S
  OBVIOUS

\* Versions are numbers.
LEMMA SeenNumbers ==
    ASSUME WatchTypeOK
    PROVE  /\ \A v \in Seen : v \in Nat
           /\ \A i \in DOMAIN toMap : toMap[i] \in State /\ toMap[i].version \in Nat
           /\ \A i \in DOMAIN upcoming : upcoming[i] \in State /\ upcoming[i].version \in Nat
           /\ \A i \in DOMAIN reported : reported[i] \in Nat
           /\ versionMap \in Nat /\ resource \in Nat /\ mapping \in Nat
           /\ informed # Absent => informed \in State /\ informed.version \in Nat
           /\ watched # Absent => watched \in State /\ watched.version \in Nat
<1>1. /\ \A i \in DOMAIN toMap : toMap[i] \in State
      /\ \A i \in DOMAIN upcoming : upcoming[i] \in State
      /\ \A i \in DOMAIN reported : reported[i] \in 1..MaxVersions
      /\ informed # Absent => informed \in State
      /\ watched # Absent => watched \in State
  <2>1. /\ toMap \in Seq(State) /\ upcoming \in Seq(State) /\ reported \in Seq(1..MaxVersions)
        /\ informed \in State \cup {Absent} /\ watched \in State \cup {Absent}
    BY DEF WatchTypeOK
  <2>2. \A i \in DOMAIN reported : reported[i] \in 1..MaxVersions
    BY <2>1, Elements
  <2> QED BY <2>1, <2>2
<1>2. \A o \in State : o.version \in Nat
  BY VersionsAssumption DEF State
<1>3. \A i \in DOMAIN reported : reported[i] \in Nat
  BY <1>1, VersionsAssumption
<1>4. versionMap \in Nat /\ resource \in Nat /\ mapping \in Nat
  BY VersionsAssumption DEF WatchTypeOK
<1>5. \A v \in Seen : v \in Nat
  BY <1>1, <1>2, <1>3, <1>4 DEF Seen, Stored
<1> QED BY <1>1, <1>2, <1>3, <1>4, <1>5

\* The object changes in the API server: the change has a version of its own.
LEMMA ChangeStep ==
    ASSUME WatchInv, NEW o \in State, Change(o)
    PROVE  WatchInv'
<1>1. /\ resource < MaxVersions /\ resource' = resource + 1 /\ o.version = resource + 1
      /\ watched' \in {Absent, o} /\ upcoming' = Append(upcoming, o)
      /\ UNCHANGED <<informed, toMap, mapping, versionMap, firstSeen, reported, relists, watchStopped>>
  BY DEF Change, mapVars
<1>2. upcoming \in Seq(State) /\ Len(upcoming) \in Nat
  BY DEF WatchInv, WatchTypeOK
<1>3. WatchTypeOK'
  BY <1>1, <1>2, VersionsAssumption DEF WatchInv, WatchTypeOK
<1>4. WatchTypeOK
  BY DEF WatchInv
<1>5. Seen' = Seen /\ Stored' = Stored
  BY <1>1 DEF Seen, Stored
<1>6. Upcoming'
  <2> DEFINE n == Len(upcoming)
  <2>1. /\ DOMAIN upcoming' = 1..(n + 1) /\ DOMAIN upcoming = 1..n
        /\ \A i \in 1..n : upcoming'[i] = upcoming[i]
        /\ upcoming'[n + 1] = o
    BY <1>1, <1>2
  <2> HIDE DEF n
  <2>2. \A i \in 1..n : upcoming'[i].version <= resource /\ \A v \in Seen : v < upcoming'[i].version
    BY <2>1 DEF WatchInv, Upcoming
  <2>3. \A v \in Seen : v \in Nat /\ v <= resource
    BY <1>4, SeenNumbers DEF WatchInv, InOrder
  <2>4. /\ \A i \in 1..n : upcoming'[i].version \in Nat
        /\ resource \in Nat /\ n \in Nat
    BY <1>2, <1>4, <2>1, SeenNumbers DEF n
  <2>5. upcoming'[n + 1].version = resource + 1
    BY <1>1, <2>1
  <2>6. \A i \in 1..(n + 1) : upcoming'[i].version <= resource' /\ \A v \in Seen : v < upcoming'[i].version
    <3>1. ASSUME NEW i \in 1..n
          PROVE  upcoming'[i].version <= resource' /\ \A v \in Seen : v < upcoming'[i].version
      BY <1>1, <2>2, <2>4
    <3>2. upcoming'[n + 1].version <= resource' /\ \A v \in Seen : v < upcoming'[n + 1].version
      BY <1>1, <2>3, <2>4, <2>5
    <3> QED BY <2>4, <3>1, <3>2
  <2>7. ASSUME NEW i \in 1..(n + 1), NEW j \in 1..(n + 1), i < j
        PROVE  upcoming'[i].version < upcoming'[j].version
    <3>1. CASE j \in 1..n
      <4>1. i \in 1..n
        BY <2>4, <2>7, <3>1
      <4> QED BY <2>1, <2>7, <3>1, <4>1 DEF WatchInv, Upcoming
    <3>2. CASE j = n + 1
      <4>1. i \in 1..n
        BY <2>4, <2>7, <3>2
      <4> QED BY <2>2, <2>4, <2>5, <3>2, <4>1
    <3> QED BY <2>4, <3>1, <3>2
  <2> QED BY <1>5, <2>1, <2>6, <2>7 DEF Upcoming
<1>7. InOrder'
  <2>1. \A v \in Seen : v <= resource'
    BY <1>1, <1>4, SeenNumbers DEF WatchInv, InOrder
  <2> QED BY <1>1, <1>5, <2>1 DEF WatchInv, InOrder, Rising
<1>8. ReportedOnce' /\ Mapped' /\ \A v : Pending(v)' = Pending(v)
  BY <1>1 DEF WatchInv, ReportedOnce, Mapped, Pending
<1> QED BY <1>1, <1>3, <1>6, <1>7, <1>8 DEF WatchInv

\* What a notification adds to the calls of the map function.
LEMMA Notified ==
    ASSUME WatchInv, NEW new \in State, Notify(informed, new),
           \A v \in Seen : v <= new.version
    PROVE  /\ toMap' \in Seq(State) /\ Rising(toMap')
           /\ \A j \in DOMAIN toMap' : toMap'[j].version \in Seen \cup {new.version}
           /\ \A j \in DOMAIN toMap' : \A v \in Stored : v <= toMap'[j].version
           /\ \A j \in DOMAIN toMap : j \in DOMAIN toMap' /\ toMap'[j] = toMap[j]
           /\ new.selected => \E j \in DOMAIN toMap' : toMap'[j] = new
<1> DEFINE n == Len(toMap)
<1>1. toMap \in Seq(State) /\ n \in Nat /\ DOMAIN toMap = 1..n /\ WatchTypeOK /\ InOrder
  BY DEF WatchInv, WatchTypeOK
<1>2. /\ \A v \in Seen : v \in Nat
      /\ \A i \in DOMAIN toMap : toMap[i].version \in Nat
      /\ versionMap \in Nat /\ new.version \in Nat
  <2>1. new.version \in Nat
    BY VersionsAssumption DEF State
  <2> QED BY <1>1, <2>1, SeenNumbers
<1>3. Stored \subseteq Seen /\ \A i \in DOMAIN toMap : toMap[i].version \in Seen
  BY DEF Seen
<1>4. CASE ~new.selected
  <2>1. toMap' = toMap
    BY <1>4 DEF Notify
  <2> QED BY <1>1, <1>3, <1>4, <2>1 DEF InOrder
<1>5. CASE new.selected /\ (informed = Absent \/ new.gone)
  <2>1. toMap' = Append(toMap, new)
    BY <1>5 DEF Notify
  <2>2. /\ toMap' \in Seq(State) /\ DOMAIN toMap' = 1..(n + 1)
        /\ \A i \in 1..n : toMap'[i] = toMap[i]
        /\ toMap'[n + 1] = new
    BY <1>1, <2>1
  <2> HIDE DEF n
  <2>3. Rising(toMap')
    <3> SUFFICES ASSUME NEW i \in 1..(n + 1), NEW j \in 1..(n + 1), i < j
                 PROVE  toMap'[i].version <= toMap'[j].version
      BY <2>2 DEF Rising
    <3>1. i \in 1..n /\ (j \in 1..n \/ j = n + 1)
      BY <1>1
    <3> QED BY <1>1, <1>3, <2>2, <3>1 DEF InOrder, Rising
  <2>4. \A j \in 1..(n + 1) : j \in 1..n \/ j = n + 1
    BY <1>1
  <2>5. \A j \in 1..(n + 1) : toMap'[j].version \in Seen \cup {new.version}
    BY <1>1, <1>3, <2>2, <2>4
  <2>6. \A j \in 1..(n + 1) : \A v \in Stored : v <= toMap'[j].version
    BY <1>1, <1>3, <2>2, <2>4 DEF InOrder
  <2>7. n + 1 \in 1..(n + 1) /\ \A j \in 1..n : j \in 1..(n + 1)
    BY <1>1
  <2> QED BY <1>1, <2>2, <2>3, <2>5, <2>6, <2>7
<1>6. CASE new.selected /\ informed # Absent /\ ~new.gone
  <2>1. toMap' = toMap \o <<informed, new>>
    BY <1>6 DEF Notify
  <2>2. /\ informed \in State /\ informed.version \in Nat /\ informed.version \in Seen
    BY <1>1, <1>6, SeenNumbers DEF Seen
  <2>3. /\ toMap' \in Seq(State) /\ DOMAIN toMap' = 1..(n + 2)
        /\ \A i \in 1..n : toMap'[i] = toMap[i]
        /\ toMap'[n + 1] = informed /\ toMap'[n + 2] = new
    <3>1. <<informed, new>> \in Seq(State)
      BY <2>2
    <3> QED BY <1>1, <2>1, <3>1
  <2> HIDE DEF n
  <2>4. \A v \in Seen : v <= informed.version
    BY <1>1, <1>6 DEF InOrder
  <2>5. \A j \in 1..(n + 2) : j \in 1..n \/ j = n + 1 \/ j = n + 2
    BY <1>1
  <2>6. Rising(toMap')
    <3> SUFFICES ASSUME NEW i \in 1..(n + 2), NEW j \in 1..(n + 2), i < j
                 PROVE  toMap'[i].version <= toMap'[j].version
      BY <2>3 DEF Rising
    <3>1. CASE j \in 1..n
      <4>1. i \in 1..n
        BY <1>1, <3>1
      <4> QED BY <1>1, <2>3, <3>1, <4>1 DEF InOrder, Rising
    <3>2. CASE j = n + 1
      <4>1. i \in 1..n
        BY <1>1, <3>2
      <4> QED BY <1>1, <1>3, <2>3, <2>4, <3>2, <4>1
    <3>3. CASE j = n + 2
      <4>1. i \in 1..n \/ i = n + 1
        BY <1>1, <3>3
      <4> QED BY <1>1, <1>3, <2>2, <2>3, <3>3, <4>1
    <3> QED BY <2>5, <3>1, <3>2, <3>3
  <2>7. \A j \in 1..(n + 2) : toMap'[j].version \in Seen \cup {new.version}
    BY <1>1, <1>3, <2>2, <2>3, <2>5
  <2>8. \A j \in 1..(n + 2) : \A v \in Stored : v <= toMap'[j].version
    BY <1>1, <1>3, <2>3, <2>4, <2>5 DEF InOrder
  <2>9. n + 2 \in 1..(n + 2) /\ \A j \in 1..n : j \in 1..(n + 2)
    BY <1>1
  <2> QED BY <1>1, <2>3, <2>6, <2>7, <2>8, <2>9
<1> QED BY <1>4, <1>5, <1>6

\* The informer learns of a state that is not older than what it has seen and older than
\* what is still to come.
LEMMA InformedStep ==
    ASSUME WatchInv, NEW new \in State, Notify(informed, new),
           \A v \in Seen : v <= new.version,
           new.version <= resource,
           informed' \in {Absent, new},
           upcoming' \in Seq(State),
           \A i \in DOMAIN upcoming' :
               upcoming'[i].version <= resource /\ new.version < upcoming'[i].version,
           \A i, j \in DOMAIN upcoming' : i < j => upcoming'[i].version < upcoming'[j].version,
           relists' \in 0..MaxRelists,
           UNCHANGED <<watched, resource, mapping, versionMap, firstSeen, reported, watchStopped>>
    PROVE  WatchInv'
<1>1. WatchTypeOK /\ InOrder
  BY DEF WatchInv
<1>2. /\ toMap' \in Seq(State) /\ Rising(toMap')
      /\ \A j \in DOMAIN toMap' : toMap'[j].version \in Seen \cup {new.version}
      /\ \A j \in DOMAIN toMap' : \A v \in Stored : v <= toMap'[j].version
      /\ \A j \in DOMAIN toMap : j \in DOMAIN toMap' /\ toMap'[j] = toMap[j]
      /\ new.selected => \E j \in DOMAIN toMap' : toMap'[j] = new
  BY Notified
<1>3. /\ \A v \in Seen : v \in Nat
      /\ new.version \in Nat /\ resource \in Nat
      /\ \A i \in DOMAIN upcoming' : upcoming'[i].version \in Nat
  <2>1. \A o \in State : o.version \in Nat
    BY VersionsAssumption DEF State
  <2>2. \A i \in DOMAIN upcoming' : upcoming'[i] \in State
    OBVIOUS
  <2> QED BY <1>1, <2>1, <2>2, SeenNumbers
<1>4. Seen' \subseteq Seen \cup {new.version}
  <2>1. Stored' = Stored /\ Stored \subseteq Seen
    BY DEF Seen, Stored
  <2>2. informed' # Absent => informed'.version = new.version
    OBVIOUS
  <2> QED BY <1>2, <2>1, <2>2 DEF Seen
<1>5. \A v \in Seen' : v \in Nat /\ v <= new.version
  BY <1>3, <1>4
<1>6. WatchTypeOK'
  BY <1>1, <1>2 DEF WatchTypeOK
<1>7. Upcoming'
  BY <1>3, <1>5 DEF Upcoming
<1>8. InOrder'
  <2>1. \A v \in Seen' : v <= resource /\ (informed' # Absent => v <= informed'.version)
    BY <1>3, <1>5
  <2>2. Stored' = Stored
    BY DEF Stored
  <2> QED BY <1>1, <1>2, <2>1, <2>2 DEF InOrder
<1>9. ReportedOnce' /\ Mapped'
  BY DEF WatchInv, ReportedOnce, Mapped
<1>10. (informed # Absent /\ informed.selected /\ ~informed.deleting
           => Pending(informed.version))'
  <2> SUFFICES ASSUME informed' = new, new.selected, ~new.deleting
               PROVE  Pending(informed.version)'
    OBVIOUS
  <2>1. PICK j \in DOMAIN toMap' : toMap'[j] = new
    BY <1>2
  <2> QED BY <2>1 DEF Pending
<1> QED BY <1>6, <1>7, <1>8, <1>9, <1>10 DEF WatchInv

\* A watch event or a relist.
LEMMA InformerStep ==
    ASSUME WatchInv, WatchEvent \/ Relist
    PROVE  WatchInv'
<1>1. WatchTypeOK /\ InOrder /\ Upcoming
  BY DEF WatchInv
<1>2. CASE WatchEvent
  <2> DEFINE new == Head(upcoming)
  <2>1. /\ upcoming # <<>> /\ Notify(informed, new) /\ informed' \in {Absent, new}
        /\ upcoming' = Tail(upcoming)
        /\ UNCHANGED <<watched, resource, relists, mapping, versionMap, firstSeen, reported,
                       watchStopped>>
    BY <1>2 DEF WatchEvent, mapVars
  <2>2. upcoming \in Seq(State) /\ relists \in 0..MaxRelists
    BY <1>1 DEF WatchTypeOK
  <2>3. /\ 1 \in DOMAIN upcoming /\ new = upcoming[1] /\ new \in State
        /\ upcoming' \in Seq(State)
        /\ \A i \in DOMAIN upcoming' : /\ i \in Nat /\ i >= 1
                                       /\ i + 1 \in DOMAIN upcoming /\ upcoming'[i] = upcoming[i + 1]
    BY <2>1, <2>2
  <2> HIDE DEF new
  <2>4. /\ new.version <= resource /\ \A v \in Seen : v <= new.version
    BY <1>1, <2>3, SeenNumbers DEF Upcoming
  <2>5. \A i \in DOMAIN upcoming' :
           upcoming'[i].version <= resource /\ new.version < upcoming'[i].version
    <3> SUFFICES ASSUME NEW i \in DOMAIN upcoming'
                 PROVE  upcoming'[i].version <= resource /\ new.version < upcoming'[i].version
      OBVIOUS
    <3>1. i + 1 \in DOMAIN upcoming /\ upcoming'[i] = upcoming[i + 1] /\ 1 < i + 1
      BY <2>3
    <3> QED BY <1>1, <2>3, <3>1 DEF Upcoming
  <2>6. ASSUME NEW i \in DOMAIN upcoming', NEW j \in DOMAIN upcoming', i < j
        PROVE  upcoming'[i].version < upcoming'[j].version
    <3>1. /\ i + 1 \in DOMAIN upcoming /\ upcoming'[i] = upcoming[i + 1]
          /\ j + 1 \in DOMAIN upcoming /\ upcoming'[j] = upcoming[j + 1] /\ i + 1 < j + 1
      BY <2>3, <2>6
    <3> QED BY <1>1, <3>1 DEF Upcoming
  <2> QED BY <2>1, <2>2, <2>3, <2>4, <2>5, <2>6, InformedStep
<1>3. CASE Relist
  <2>1. /\ relists < MaxRelists /\ relists' = relists + 1
        /\ watched # Absent \/ informed # Absent
        /\ informed' = watched /\ upcoming' = <<>>
        /\ UNCHANGED <<watched, resource, mapping, versionMap, firstSeen, reported, watchStopped>>
    BY <1>3 DEF Relist, mapVars
  <2>2. relists' \in 0..MaxRelists /\ upcoming' \in Seq(State) /\ DOMAIN upcoming' = {}
    BY <1>1, <2>1, VersionsAssumption DEF WatchTypeOK
  <2>3. CASE watched # Absent
    <3>1. Notify(informed, watched) /\ watched \in State /\ informed' \in {Absent, watched}
      BY <1>1, <1>3, <2>1, <2>3 DEF Relist, WatchTypeOK
    <3>2. watched.version <= resource /\ \A v \in Seen : v <= watched.version
      BY <1>1, <2>3, SeenNumbers DEF InOrder
    <3> QED BY <2>1, <2>2, <3>1, <3>2, InformedStep
  <2>4. CASE watched = Absent
    <3> DEFINE new == [informed EXCEPT !.gone = TRUE]
    <3>1. Notify(informed, new) /\ informed # Absent /\ informed \in State
      BY <1>1, <1>3, <2>1, <2>4 DEF Relist, WatchTypeOK
    <3>2. new \in State /\ new.version = informed.version
      BY <3>1 DEF State
    <3> HIDE DEF new
    <3>3. informed.version \in Seen /\ informed' \in {Absent, new}
      BY <2>1, <2>4, <3>1 DEF Seen
    <3>4. new.version <= resource /\ \A v \in Seen : v <= new.version
      BY <1>1, <3>1, <3>2, <3>3 DEF InOrder
    <3> QED BY <2>1, <2>2, <3>1, <3>2, <3>3, <3>4, InformedStep
  <2> QED BY <2>3, <2>4
<1> QED BY <1>2, <1>3

\* What the map function takes from the calls that wait for it.
LEMMA Taken ==
    ASSUME WatchInv, toMap # <<>>, toMap' = Tail(toMap),
           versionMap' \in {versionMap, Head(toMap).version},
           UNCHANGED <<watched, upcoming, informed, resource, reported>>
    PROVE  /\ Head(toMap) = toMap[1] /\ 1 \in DOMAIN toMap /\ toMap' \in Seq(State)
           /\ Head(toMap) \in State /\ Head(toMap).version \in Nat \ {0}
           /\ \A v \in Stored : v <= Head(toMap).version
           /\ \A i \in DOMAIN toMap : i # 1 => \E j \in DOMAIN toMap' : toMap'[j] = toMap[i]
           /\ Upcoming' /\ InOrder'
<1> DEFINE h == Head(toMap)
<1>1. WatchTypeOK /\ InOrder /\ Upcoming /\ toMap \in Seq(State)
  BY DEF WatchInv, WatchTypeOK
<1>2. /\ h = toMap[1] /\ 1 \in DOMAIN toMap /\ toMap' \in Seq(State) /\ h \in State
      /\ Len(toMap) \in Nat /\ DOMAIN toMap = 1..Len(toMap)
      /\ DOMAIN toMap' = 1..(Len(toMap) - 1)
      /\ \A i \in DOMAIN toMap' : toMap'[i] = toMap[i + 1]
  BY <1>1
<1>3. h.version \in Nat \ {0}
  BY <1>2, VersionsAssumption DEF State
<1> HIDE DEF h
<1>4. \A v \in Stored : v <= h.version
  BY <1>1, <1>2 DEF InOrder
<1>5. ASSUME NEW i \in DOMAIN toMap, i # 1
      PROVE  \E j \in DOMAIN toMap' : toMap'[j] = toMap[i]
  <2>1. i - 1 \in DOMAIN toMap' /\ (i - 1) + 1 = i
    BY <1>2, <1>5
  <2> QED BY <1>2, <2>1
<1>6. Seen' \subseteq Seen
  <2>1. \A i \in DOMAIN toMap' : i + 1 \in DOMAIN toMap
    BY <1>2
  <2> QED BY <1>2, <2>1 DEF Seen, Stored, h
<1>7. Upcoming'
  BY <1>1, <1>6 DEF Upcoming
<1>8. Rising(toMap')
  <2> SUFFICES ASSUME NEW i \in DOMAIN toMap', NEW j \in DOMAIN toMap', i < j
               PROVE  toMap'[i].version <= toMap'[j].version
    BY DEF Rising
  <2>1. i + 1 \in DOMAIN toMap /\ j + 1 \in DOMAIN toMap /\ i + 1 < j + 1
    BY <1>2
  <2> QED BY <1>1, <1>2, <2>1 DEF InOrder, Rising
<1>9. ASSUME NEW i \in DOMAIN toMap', NEW v \in Stored' PROVE v <= toMap'[i].version
  <2>1. i + 1 \in DOMAIN toMap /\ 1 < i + 1 /\ toMap'[i] = toMap[i + 1]
    BY <1>2
  <2>2. h.version <= toMap[i + 1].version /\ \A w \in Stored : w <= toMap[i + 1].version
    BY <1>1, <1>2, <2>1 DEF InOrder, Rising
  <2>3. v \in Stored \cup {h.version}
    BY DEF Stored, h
  <2> QED BY <2>1, <2>2, <2>3
<1>10. InOrder'
  BY <1>1, <1>6, <1>8, <1>9 DEF InOrder
<1> QED BY <1>2, <1>3, <1>4, <1>5, <1>7, <1>10 DEF h

\* A call of the map function that reports nothing: the version is the first one, or it
\* was reported before.
LEMMA MapIgnoredStep ==
    ASSUME WatchInv, MapIgnored
    PROVE  WatchInv'
<1> DEFINE h == Head(toMap)
<1>1. /\ toMap # <<>> /\ mapping = 0
      /\ h.deleting \/ versionMap \in {0, h.version}
      /\ toMap' = Tail(toMap)
      /\ versionMap' = IF versionMap = 0 /\ ~h.deleting THEN h.version ELSE versionMap
      /\ firstSeen' = IF firstSeen = 0 THEN versionMap' ELSE firstSeen
      /\ UNCHANGED <<watched, upcoming, informed, resource, relists, mapping, reported, watchStopped>>
  BY DEF MapIgnored, Ignored, serverVars
<1>2. WatchTypeOK /\ Mapped
  BY DEF WatchInv
<1>3. /\ h = toMap[1] /\ 1 \in DOMAIN toMap /\ toMap' \in Seq(State)
      /\ h \in State /\ h.version \in Nat \ {0} /\ \A v \in Stored : v <= h.version
      /\ \A i \in DOMAIN toMap : i # 1 => \E j \in DOMAIN toMap' : toMap'[j] = toMap[i]
      /\ Upcoming' /\ InOrder'
  <2>1. versionMap' \in {versionMap, h.version}
    BY <1>1
  <2> QED BY <1>1, <2>1, Taken
<1>4. h.version \in 0..MaxVersions /\ versionMap \in 0..MaxVersions /\ firstSeen \in 0..MaxVersions
  BY <1>2, <1>3, VersionsAssumption DEF State, WatchTypeOK
<1> HIDE DEF h
<1>5. versionMap' \in 0..MaxVersions /\ firstSeen' \in 0..MaxVersions
  BY <1>1, <1>4
<1>6. WatchTypeOK'
  BY <1>1, <1>2, <1>3, <1>5 DEF WatchTypeOK
<1>7. ReportedOnce'
  BY <1>1 DEF WatchInv, ReportedOnce
<1>8. Mapped'
  <2>1. /\ versionMap # 0 => versionMap' = versionMap /\ firstSeen' = firstSeen
        /\ versionMap = 0 => firstSeen' = versionMap' /\ firstSeen = 0
    BY <1>1, <1>2 DEF Mapped
  <2>2. versionMap' # 0 => \A i \in DOMAIN reported : reported[i] <= versionMap'
    <3>1. CASE versionMap # 0
      BY <1>2, <2>1, <3>1 DEF Mapped
    <3>2. CASE versionMap = 0
      BY <1>1, <1>3, <3>2 DEF Stored
    <3> QED BY <3>1, <3>2
  <2> QED BY <1>1, <1>2, <2>1, <2>2 DEF Mapped
<1>9. ASSUME NEW v \in Nat \ {0}, Pending(v) PROVE Pending(v)'
  <2>1. CASE v \in {reported[i] : i \in DOMAIN reported} \cup {firstSeen, mapping}
    <3>1. v # 0
      OBVIOUS
    <3>2. v # mapping /\ (v = firstSeen => firstSeen' = firstSeen)
      BY <1>1, <3>1
    <3> QED BY <1>1, <2>1, <3>2 DEF Pending
  <2>2. ASSUME NEW i \in DOMAIN toMap, toMap[i].version = v, ~toMap[i].deleting
        PROVE  Pending(v)'
    <3>1. CASE i = 1
      <4>1. h.version = v /\ ~h.deleting
        BY <1>3, <2>2, <3>1
      <4>2. CASE versionMap = 0
        BY <1>1, <1>2, <4>1, <4>2 DEF Mapped, Pending
      <4>3. CASE versionMap = v
        BY <1>1, <1>2, <4>3 DEF Mapped, Pending
      <4> QED BY <1>1, <4>1, <4>2, <4>3
    <3>2. CASE i # 1
      BY <1>3, <2>2, <3>2 DEF Pending
    <3> QED BY <3>1, <3>2
  <2> QED BY <1>9, <2>1, <2>2 DEF Pending
<1>10. (informed # Absent /\ informed.selected /\ ~informed.deleting
           => Pending(informed.version))'
  <2> SUFFICES ASSUME informed # Absent, informed.selected, ~informed.deleting
               PROVE  Pending(informed.version)'
    BY <1>1
  <2>1. informed.version \in Nat \ {0}
    BY <1>2, VersionsAssumption DEF WatchTypeOK, State
  <2>2. PICK v \in Nat \ {0} : v = informed.version
    BY <2>1
  <2>3. Pending(v)'
    BY <1>9, <2>2 DEF WatchInv
  <2> QED BY <1>1, <2>2, <2>3 DEF Pending
<1> QED BY <1>3, <1>6, <1>7, <1>8, <1>10 DEF WatchInv

\* A call that reports a version: a later one than all that were reported.
LEMMA MapChangedStep ==
    ASSUME WatchInv, MapChanged
    PROVE  WatchInv'
<1> DEFINE h == Head(toMap)
<1>1. /\ toMap # <<>> /\ mapping = 0 /\ versionMap # 0 /\ versionMap # h.version
      /\ toMap' = Tail(toMap)
      /\ versionMap' = h.version /\ mapping' = h.version
      /\ UNCHANGED <<watched, upcoming, informed, resource, relists, firstSeen, reported, watchStopped>>
  BY DEF MapChanged, Ignored, serverVars
<1>2. WatchTypeOK /\ Mapped
  BY DEF WatchInv
<1>3. /\ h = toMap[1] /\ 1 \in DOMAIN toMap /\ toMap' \in Seq(State)
      /\ h \in State /\ h.version \in Nat \ {0} /\ \A v \in Stored : v <= h.version
      /\ \A i \in DOMAIN toMap : i # 1 => \E j \in DOMAIN toMap' : toMap'[j] = toMap[i]
      /\ Upcoming' /\ InOrder'
  BY <1>1, Taken
<1>4. h.version \in 0..MaxVersions
  BY <1>3, VersionsAssumption DEF State
<1> HIDE DEF h
<1>5. WatchTypeOK'
  BY <1>1, <1>2, <1>3, <1>4 DEF WatchTypeOK
<1>6. ReportedOnce'
  BY <1>1 DEF WatchInv, ReportedOnce
<1>7. Mapped'
  <2>1. \A i \in DOMAIN reported : reported[i] \in Nat /\ reported[i] <= versionMap
    BY <1>1, <1>2, SeenNumbers DEF Mapped
  <2>2. versionMap \in Nat /\ versionMap <= h.version
    BY <1>2, <1>3, SeenNumbers DEF Stored
  <2>3. \A i \in DOMAIN reported : reported[i] < h.version
    BY <1>1, <1>3, <2>1, <2>2
  <2>4. \A i \in DOMAIN reported : reported[i] <= h.version
    BY <1>3, <2>1, <2>3
  <2> QED BY <1>1, <1>2, <1>3, <2>3, <2>4 DEF Mapped
<1>8. ASSUME NEW v \in Nat \ {0}, Pending(v) PROVE Pending(v)'
  <2>1. CASE v \in {reported[i] : i \in DOMAIN reported} \cup {firstSeen, mapping}
    BY <1>1, <2>1 DEF Pending
  <2>2. ASSUME NEW i \in DOMAIN toMap, toMap[i].version = v, ~toMap[i].deleting
        PROVE  Pending(v)'
    <3>1. CASE i = 1
      BY <1>1, <1>3, <2>2, <3>1 DEF Pending
    <3>2. CASE i # 1
      BY <1>3, <2>2, <3>2 DEF Pending
    <3> QED BY <3>1, <3>2
  <2> QED BY <1>8, <2>1, <2>2 DEF Pending
<1>9. (informed # Absent /\ informed.selected /\ ~informed.deleting
           => Pending(informed.version))'
  <2> SUFFICES ASSUME informed # Absent, informed.selected, ~informed.deleting
               PROVE  Pending(informed.version)'
    BY <1>1
  <2>1. informed.version \in Nat \ {0}
    BY <1>2, VersionsAssumption DEF WatchTypeOK, State
  <2>2. PICK v \in Nat \ {0} : v = informed.version
    BY <2>1
  <2>3. Pending(v)'
    BY <1>8, <2>2 DEF WatchInv
  <2> QED BY <1>1, <2>2, <2>3 DEF Pending
<1> QED BY <1>3, <1>5, <1>6, <1>7, <1>9 DEF WatchInv

\* The event of a version is sent.
LEMMA WatchSendStep ==
    ASSUME WatchInv, WatchSend
    PROVE  WatchInv'
<1> DEFINE n == Len(reported)
<1>1. /\ mapping # 0 /\ mapping' = 0 /\ reported' = Append(reported, mapping)
      /\ UNCHANGED <<watched, upcoming, informed, toMap, versionMap, resource, relists, firstSeen,
                     watchStopped>>
  BY DEF WatchSend, serverVars
<1>2. WatchTypeOK /\ Mapped /\ ReportedOnce
  BY DEF WatchInv
<1>3. reported \in Seq(1..MaxVersions) /\ mapping \in 1..MaxVersions
  BY <1>1, <1>2, VersionsAssumption DEF WatchTypeOK
<1>4. /\ reported' \in Seq(1..MaxVersions) /\ n \in Nat
      /\ DOMAIN reported = 1..n /\ DOMAIN reported' = 1..(n + 1)
      /\ \A i \in 1..n : reported'[i] = reported[i]
      /\ reported'[n + 1] = mapping
  BY <1>1, <1>3
<1> HIDE DEF n
<1>5. \A i \in 1..(n + 1) : i \in 1..n \/ i = n + 1
  BY <1>4
<1>6. WatchTypeOK'
  BY <1>1, <1>2, <1>4, VersionsAssumption DEF WatchTypeOK
<1>7. ReportedOnce'
  <2> SUFFICES ASSUME NEW i \in 1..(n + 1), NEW j \in 1..(n + 1), i < j
               PROVE  reported'[i] < reported'[j]
    BY <1>4 DEF ReportedOnce
  <2>1. i \in 1..n
    BY <1>4
  <2> QED BY <1>1, <1>2, <1>4, <1>5, <2>1 DEF ReportedOnce, Mapped
<1>8. {reported'[i] : i \in DOMAIN reported'} = {reported[i] : i \in DOMAIN reported} \cup {mapping}
  <2>1. n + 1 \in 1..(n + 1) /\ \A i \in 1..n : i \in 1..(n + 1)
    BY <1>4
  <2> QED BY <1>4, <1>5, <2>1
<1>9. Mapped'
  <2>1. \A i \in DOMAIN reported' : reported'[i] <= versionMap
    <3>1. versionMap # 0 /\ mapping <= versionMap
      BY <1>1, <1>2, <1>3 DEF Mapped
    <3> QED BY <1>2, <1>4, <1>5, <3>1 DEF Mapped
  <2> QED BY <1>1, <1>2, <1>8, <2>1 DEF Mapped
<1>10. \A v : Pending(v) => Pending(v)'
  BY <1>1, <1>8 DEF Pending
<1>11. Upcoming' /\ InOrder'
  <2>1. Stored' = Stored
    BY <1>1, <1>2, <1>8 DEF Stored, Mapped
  <2>2. Seen' = Seen
    BY <1>1, <2>1 DEF Seen
  <2> QED BY <1>1, <2>1, <2>2 DEF WatchInv, Upcoming, InOrder, Rising
<1>12. (informed # Absent /\ informed.selected /\ ~informed.deleting
           => Pending(informed.version))'
  <2> SUFFICES ASSUME informed # Absent, informed.selected, ~informed.deleting
               PROVE  Pending(informed.version)'
    BY <1>1
  <2>1. PICK v : v = informed.version
    OBVIOUS
  <2>2. Pending(v)'
    BY <1>10, <2>1 DEF WatchInv
  <2> QED BY <1>1, <2>1, <2>2 DEF Pending
<1> QED BY <1>6, <1>7, <1>9, <1>11, <1>12 DEF WatchInv

\* A new process begins with the present object, which is not older than anything that was
\* reported.
LEMMA RestartStep ==
    ASSUME ChannelTypeOK, WatchInv, WatchRestart
    PROVE  WatchInv' /\ ChannelKept
<1>1. /\ relists < MaxRelists /\ relists' = relists + 1
      /\ informed' = watched
      /\ toMap' = IF watched # Absent /\ watched.selected THEN <<watched>> ELSE <<>>
      /\ upcoming' = <<>> /\ watchStopped' = FALSE
      /\ mapping' = 0 /\ versionMap' = 0 /\ firstSeen' = 0
      /\ UNCHANGED <<watched, resource, reported>>
  BY DEF WatchRestart
<1>2. WatchTypeOK /\ InOrder
  BY DEF WatchInv
<1>3. watched # Absent => watched \in State /\ watched.version \in Nat /\ watched.version = resource
  BY <1>2, SeenNumbers DEF InOrder
<1>4. /\ toMap' \in Seq(State)
      /\ \A i \in DOMAIN toMap' : i = 1 /\ toMap'[i] = watched /\ watched # Absent
      /\ watched # Absent /\ watched.selected => 1 \in DOMAIN toMap' /\ toMap'[1] = watched
  <2>1. CASE watched # Absent /\ watched.selected
    <3>1. toMap' = <<watched>> /\ watched \in State
      BY <1>1, <1>3, <2>1
    <3> QED BY <2>1, <3>1
  <2>2. CASE ~(watched # Absent /\ watched.selected)
    <3>1. toMap' = <<>>
      BY <1>1, <2>2
    <3> QED BY <2>2, <3>1
  <2> QED BY <2>1, <2>2
<1>5. WatchTypeOK'
  <2>1. relists' \in 0..MaxRelists
    BY <1>1, <1>2, VersionsAssumption DEF WatchTypeOK
  <2>2. <<>> \in Seq(State) /\ 0 \in 0..MaxVersions
    BY VersionsAssumption
  <2> QED BY <1>1, <1>2, <1>4, <2>1, <2>2 DEF WatchTypeOK
<1>6. \A v \in Stored' : v \in Nat /\ v <= resource
  <2>1. \A i \in DOMAIN reported : reported[i] \in Seen
    BY DEF Seen, Stored
  <2>2. resource \in Nat /\ \A v \in Seen : v \in Nat
    BY <1>2, SeenNumbers
  <2>3. ASSUME NEW v \in Stored' PROVE v = 0 \/ v \in Seen
    BY <1>1, <2>1 DEF Stored
  <2> QED BY <1>2, <2>2, <2>3 DEF InOrder
<1>7. \A v \in Seen' : v <= resource /\ (watched # Absent => v <= watched.version)
  <2>1. \A v \in Seen' : v \in Stored' \/ (watched # Absent /\ v = watched.version)
    BY <1>1, <1>4 DEF Seen
  <2> QED BY <1>3, <1>6, <2>1
<1>8. Upcoming'
  BY <1>1 DEF Upcoming
<1>9. InOrder'
  <2>1. Rising(toMap')
    <3>1. \A i, j \in DOMAIN toMap' : i < j => FALSE
      BY <1>4
    <3> QED BY <3>1 DEF Rising
  <2>2. \A i \in DOMAIN toMap' : \A v \in Stored' : v <= toMap'[i].version
    BY <1>3, <1>4, <1>6
  <2> QED BY <1>1, <1>2, <1>7, <2>1, <2>2 DEF InOrder
<1>10. ReportedOnce' /\ Mapped'
  BY <1>1 DEF WatchInv, ReportedOnce, Mapped
<1>11. (informed # Absent /\ informed.selected /\ ~informed.deleting
           => Pending(informed.version))'
  BY <1>1, <1>4 DEF Pending
<1>12. ChannelKept
  BY ChannelAssumption DEF WatchRestart, ChannelTypeOK, ChannelKept
<1> QED BY <1>5, <1>8, <1>9, <1>10, <1>11, <1>12 DEF WatchInv

\* A step of a watch.
LEMMA WatchStep ==
    ASSUME ChannelTypeOK, WatchInv, WatchNext
    PROVE  WatchInv' /\ ChannelKept
<1>1. ASSUME NEW o \in State, Change(o)
      PROVE  WatchInv' /\ ChannelKept
  BY <1>1, ChangeStep, NothingSent DEF Change
<1>2. CASE WatchEvent \/ Relist
  BY <1>2, InformerStep, NothingSent DEF WatchEvent, Relist
<1>3. CASE MapIgnored
  BY <1>3, MapIgnoredStep, NothingSent DEF MapIgnored
<1>4. CASE MapChanged
  BY <1>4, MapChangedStep, NothingSent DEF MapChanged
<1>5. CASE WatchSend
  BY <1>5, WatchSendStep, SendKeeps DEF WatchSend
<1>6. CASE WatchStop
  <2>1. /\ watchStopped' = TRUE
        /\ UNCHANGED <<watched, upcoming, informed, toMap, mapping, versionMap, resource,
                       relists, firstSeen, reported>>
    BY <1>6 DEF WatchStop, serverVars, mapVars
  <2>2. WatchTypeOK' /\ ReportedOnce'
    BY <2>1 DEF WatchInv, WatchTypeOK, ReportedOnce
  <2>3. Upcoming' /\ InOrder'
    BY <2>1 DEF WatchInv, Upcoming, InOrder, Seen, Stored, Rising
  <2>4. Mapped' /\ \A v : Pending(v)' = Pending(v)
    BY <2>1 DEF WatchInv, Mapped, Pending
  <2>5. WatchInv'
    BY <2>1, <2>2, <2>3, <2>4 DEF WatchInv
  <2> QED BY <1>6, <2>5, NothingSent DEF WatchStop
<1> QED BY <1>1, <1>2, <1>3, <1>4, <1>5, <1>6 DEF WatchNext, MapFunc

--------------------------------------------------------------------------------
(* The theorems                                                            *)

IndInv == ChannelTypeOK /\ SqsInv /\ PubSubInv /\ TcpInv /\ WatchInv /\ EventGridInv

\* The initial state satisfies the invariant of every source.
LEMMA InitHolds ==
    ASSUME Init
    PROVE  IndInv
<1>1. ChannelTypeOK
  BY ChannelAssumption DEF Init, ChannelInit, ChannelTypeOK
<1>2. SqsInv
  <2>1. SqsTypeOK
    <3>1. SqsInit
      BY DEF Init
    <3>2. pollErrors \in 0..1
      BY <3>1 DEF SqsInit
    <3>3. sqsStopped \in BOOLEAN
      BY <3>1 DEF SqsInit
    <3>4. /\ poller \in {"poll", "backoff", "delete", "send", "closed"}
          /\ worker \in {"select", "process", "gone"}
      BY <3>1 DEF SqsInit
    <3> QED BY <3>1, <3>2, <3>3, <3>4 DEF SqsInit, SqsTypeOK
  <2>2. SqsNotLost
    BY ParsableAssumption DEF Init, SqsInit, SqsNotLost
  <2> QED BY <2>1, <2>2 DEF Init, SqsInit, SqsInv
<1>3. PubSubInv
  BY AuditLogsAssumption DEF Init, PubSubInit, PubSubInv, PubSubTypeOK, AckedIsPublished
<1>4. TcpInv
  <2>1. TcpTypeOK
    <3>1. TcpInit
      BY DEF Init
    <3>2. stream \in Seq(Piece) /\ buf \in Seq(Piece)
      BY <3>1 DEF TcpInit
    <3>3. clientOpen \in BOOLEAN /\ tcpStopped \in BOOLEAN
      BY <3>1 DEF TcpInit
    <3> QED BY <3>1, <3>2, <3>3 DEF TcpInit, TcpTypeOK
  <2>2. Paired(<<>>)
    BY DEF Paired
  <2> QED BY <2>1, <2>2 DEF Init, TcpInit, TcpInv
<1>5. WatchInv
  <2>0. WatchInit
    BY DEF Init
  <2> USE <2>0, VersionsAssumption DEF WatchInit
  <2>1. WatchTypeOK
    <3>1. <<>> \in Seq(State) /\ <<>> \in Seq(1..MaxVersions)
      OBVIOUS
    <3>2. watchStopped \in BOOLEAN
      OBVIOUS
    <3>3. /\ mapping \in 0..MaxVersions /\ versionMap \in 0..MaxVersions
          /\ resource \in 0..MaxVersions /\ relists \in 0..MaxRelists
          /\ firstSeen \in 0..MaxVersions
      OBVIOUS
    <3> QED BY <3>1, <3>2, <3>3 DEF WatchTypeOK
  <2>2. ReportedOnce /\ Upcoming
    BY DEF ReportedOnce, Upcoming
  <2>3. InOrder
    BY DEF InOrder, Seen, Stored, Rising
  <2>4. Mapped
    BY DEF Mapped
  <2> QED BY <2>1, <2>2, <2>3, <2>4 DEF WatchInv
<1>6. EventGridInv
  <2>1. [phase |-> "unsent", next |-> 1, status |-> 0] \in Request
    BY DEF Request, Phase, Status
  <2>2. /\ request \in [Requests -> Request]
        /\ \A r \in Requests : request[r].phase = "unsent" /\ request[r].next = 1
    BY <2>1 DEF Init, EventGridInit
  <2>3. PublishedNews /\ gridServer = "serving"
    BY DEF Init, EventGridInit, PublishedNews
  <2> QED BY <2>2, <2>3 DEF EventGridInv, RequestOK
<1> QED BY <1>1, <1>2, <1>3, <1>4, <1>5, <1>6 DEF IndInv

\* A step of one source keeps the invariants of all.
LEMMA NextPreserves ==
    ASSUME IndInv, [Next]_vars
    PROVE  IndInv'
<1> USE DEF IndInv
<1>1. CASE UNCHANGED vars
  <2>1. /\ UNCHANGED channelVars /\ UNCHANGED sqsVars /\ UNCHANGED psVars
        /\ UNCHANGED tcpVars /\ UNCHANGED watchVars /\ UNCHANGED gridVars
    BY <1>1 DEF vars
  <2>2. ChannelKept
    BY <2>1, NothingSent
  <2> QED BY <2>1, <2>2, SqsKept, PubSubKept, TcpKept, WatchKept, EventGridKept DEF ChannelKept
<1>2. CASE ChannelNext /\ UNCHANGED noSource
  <2>1. /\ UNCHANGED sqsVars /\ UNCHANGED psVars /\ UNCHANGED tcpVars
        /\ UNCHANGED watchVars /\ UNCHANGED gridVars
    BY <1>2 DEF noSource
  <2>2. ChannelKept
    BY <1>2, ChannelStep
  <2> QED BY <2>1, <2>2, SqsKept, PubSubKept, TcpKept, WatchKept, EventGridKept DEF ChannelKept
<1>3. CASE SqsNext /\ UNCHANGED notSqs
  <2>1. SqsInv' /\ ChannelKept
    BY <1>3, SqsStep
  <2>2. UNCHANGED psVars /\ UNCHANGED tcpVars /\ UNCHANGED watchVars /\ UNCHANGED gridVars
    BY <1>3 DEF notSqs
  <2> QED BY <2>1, <2>2, PubSubKept, TcpKept, WatchKept, EventGridKept DEF ChannelKept
<1>4. CASE PubSubNext /\ UNCHANGED notPs
  <2>1. PubSubInv' /\ ChannelKept
    BY <1>4, PubSubStep
  <2>2. UNCHANGED sqsVars /\ UNCHANGED tcpVars /\ UNCHANGED watchVars /\ UNCHANGED gridVars
    BY <1>4 DEF notPs
  <2> QED BY <2>1, <2>2, SqsKept, TcpKept, WatchKept, EventGridKept DEF ChannelKept
<1>5. CASE TcpNext /\ UNCHANGED notTcp
  <2>1. TcpInv' /\ ChannelKept
    BY <1>5, TcpStep
  <2>2. UNCHANGED sqsVars /\ UNCHANGED psVars /\ UNCHANGED watchVars /\ UNCHANGED gridVars
    BY <1>5 DEF notTcp
  <2> QED BY <2>1, <2>2, SqsKept, PubSubKept, WatchKept, EventGridKept DEF ChannelKept
<1>6. CASE WatchNext /\ UNCHANGED notWatch
  <2>1. WatchInv' /\ ChannelKept
    BY <1>6, WatchStep
  <2>2. UNCHANGED sqsVars /\ UNCHANGED psVars /\ UNCHANGED tcpVars /\ UNCHANGED gridVars
    BY <1>6 DEF notWatch
  <2> QED BY <2>1, <2>2, SqsKept, PubSubKept, TcpKept, EventGridKept DEF ChannelKept
<1>7. CASE EventGridNext /\ UNCHANGED notGrid
  <2>1. EventGridInv' /\ ChannelKept
    BY <1>7, EventGridStep
  <2>2. UNCHANGED sqsVars /\ UNCHANGED psVars /\ UNCHANGED tcpVars /\ UNCHANGED watchVars
    BY <1>7 DEF notGrid
  <2> QED BY <2>1, <2>2, SqsKept, PubSubKept, TcpKept, WatchKept DEF ChannelKept
<1>8. CASE WatchRestart /\ UNCHANGED notWatch
  <2>1. WatchInv' /\ ChannelKept
    BY <1>8, RestartStep
  <2>2. UNCHANGED sqsVars /\ UNCHANGED psVars /\ UNCHANGED tcpVars /\ UNCHANGED gridVars
    BY <1>8 DEF notWatch
  <2> QED BY <2>1, <2>2, SqsKept, PubSubKept, TcpKept, EventGridKept DEF ChannelKept
<1> QED BY <1>1, <1>2, <1>3, <1>4, <1>5, <1>6, <1>7, <1>8 DEF Next

\* The inductive invariant holds in every reachable state, whichever sources are active
\* together and however their steps interleave at the channel.
THEOREM Invariance == Spec => []IndInv
<1>1. Init => IndInv
  BY InitHolds
<1>2. IndInv /\ [Next]_vars => IndInv'
  BY NextPreserves
<1> QED BY <1>1, <1>2, PTL DEF Spec

\* Type correctness of the sources and the channel; in particular the channel never
\* holds more than its capacity.
THEOREM TypeCorrect == Spec => []TypeOK
<1>1. EventGridInv => EventGridTypeOK
  BY DEF EventGridInv, EventGridTypeOK, PublishedNews, Request, Phase, Status
<1>2. IndInv => TypeOK
  BY <1>1 DEF IndInv, SqsInv, PubSubInv, TcpInv, WatchInv, TypeOK
<1> QED BY <1>2, Invariance, PTL

\* No SQS message is lost before the shutdown but those that Stop finds between the poller
\* and the worker, although messages are deleted first (aws_sqs.go:128-137).
THEOREM NoMessageLost == Spec => []SqsNotLost
<1>1. IndInv => SqsNotLost
  BY DEF IndInv, SqsInv
<1> QED BY <1>1, Invariance, PTL

\* A Pub/Sub message that reports a new version is acked only after its event was sent,
\* whatever Stop and the shutdown cut short (pubsub/listener.go:74-78).
THEOREM AckAfterSend == Spec => []AckedIsPublished
<1>1. IndInv => AckedIsPublished
  BY DEF IndInv, PubSubInv
<1> QED BY <1>1, Invariance, PTL

\* A line that one Read returns whole is published, whatever is cut off around it
\* (tcp/listener.go:118-133).
THEOREM WholeLinePublished == Spec => []WholeIsPublished
<1>1. IndInv => WholeIsPublished
  <2> SUFFICES ASSUME IndInv, NEW m, Whole(buf, m)
               PROVE  \E i \in DOMAIN buf : buf[i][1] = m
    BY DEF IndInv, TcpInv, WholeIsPublished
  <2>1. PICK i \in 1..(Len(buf) - 1) : buf[i] = <<m, 1>>
    BY DEF Whole
  <2>2. i \in DOMAIN buf
    BY DEF IndInv, TcpInv, TcpTypeOK
  <2> QED BY <2>1, <2>2
<1> QED BY <1>1, Invariance, PTL

\* No version of a watched object is reported twice or after a later one, for any number
\* of updates, relists and restarts of the process (kubernetes/listener.go:90-102).
THEOREM VersionsReportedOnce == Spec => []ReportedOnce
<1>1. IndInv => ReportedOnce
  BY DEF IndInv, WatchInv
<1> QED BY <1>1, Invariance, PTL

\* When the informer has caught up, the version of a selected object was reported or is
\* the one that this process saw first (kubernetes/listener.go:91-108).
THEOREM LastVersionReported == Spec => []ChangesReported
<1>1. IndInv => ChangesReported
  <2> SUFFICES ASSUME IndInv, toMap = <<>>, mapping = 0, watched # Absent,
                      watched.selected, ~watched.deleting, informed = watched
               PROVE  watched.version \in {reported[i] : i \in DOMAIN reported} \cup {firstSeen}
    BY DEF ChangesReported, CaughtUp, Live
  <2>1. Pending(watched.version) /\ watched.version # 0
    BY VersionsAssumption DEF IndInv, WatchInv, WatchTypeOK, State
  <2>2. DOMAIN toMap = {}
    OBVIOUS
  <2> QED BY <2>1, <2>2 DEF Pending
<1> QED BY <1>1, Invariance, PTL

\* Event Grid gets the answer 200 only when the new versions of the batch were published,
\* as long as the listener runs (eventgrid/listener.go:92-102, 188-197).
THEOREM BatchPublished == Spec => []AnsweredIsPublished
<1>1. IndInv => AnsweredIsPublished
  <2> SUFFICES ASSUME IndInv, NEW r \in Requests, request[r].phase = "answered",
                      request[r].status = 200, NEW i \in DOMAIN Batch[r],
                      Batch[r][i] = "SecretNewVersionCreated"
               PROVE  <<r, i>> \in gridPublished \/ GridDone
    BY DEF AnsweredIsPublished
  <2>1. RequestOK(r) /\ request[r] \in Request
    BY DEF IndInv, EventGridInv
  <2>2. Batch[r] # Unparsable /\ request[r].next > Len(Batch[r])
    BY <2>1 DEF RequestOK
  <2>3. Batch[r] \in Seq(EventTypes)
    BY <2>2, BatchAssumption
  <2>4. i \in Nat /\ i <= Len(Batch[r]) /\ request[r].next \in Nat /\ Len(Batch[r]) \in Nat
    BY <2>1, <2>3, BatchPlaces, RequestFields
  <2>5. i < request[r].next
    BY <2>2, <2>4
  <2> QED BY <2>1, <2>2, <2>5 DEF RequestOK
<1> QED BY <1>1, Invariance, PTL
================================================================================
