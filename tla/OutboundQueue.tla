---------------------------- MODULE OutboundQueue ----------------------------
(***************************************************************************)
(* The outbound queue of one connection, from the goroutines that queue    *)
(* frames to the write loop: byte limits, eviction of stream frames, the   *)
(* answers of requests, FATAL, stop, and how a connection ends.            *)
(*                                                                         *)
(* Sources: internal/relay/connection.go (run, enqueue..., writeLoop, fail *)
(* and stop) and the byte counters of internal/relay/admission.go.         *)
(*                                                                         *)
(* An action is one critical section of queueMu, or what a goroutine does  *)
(* between two of them.  The other connections of the process are the      *)
(* bytes they have reserved.                                               *)
(***************************************************************************)
EXTENDS Integers, Sequences

CONSTANTS
    Request, NoRequest,  \* request identifiers
    Size,                \* sizes of frames other than FATAL
    FatalSize,           \* size of FATAL
    MaxQueuedBytes,      \* config.MaxQueuedBytes
    MaxAggregate         \* config.MaxAggregateQueuedBytes

\* validate of config.go, and frames are never empty.
ASSUME SizeAssumption ==
    /\ Size \cup {FatalSize} \subseteq 1..MaxQueuedBytes
    /\ MaxQueuedBytes \in Nat /\ MaxAggregate \in Nat /\ MaxQueuedBytes <= MaxAggregate
    /\ NoRequest \notin Request

VARIABLES
    out,       \* the queue, see Queue
    total,     \* admissionController.queuedBytes
    others,    \* what the other connections have reserved of it
    writer,    \* where writeLoop is
    writing,   \* the frame it holds
    reader,    \* where run is
    held,      \* the request that is being handled
    requests,  \* connection.requestIDs
    failure,   \* where the function of fatalOnce is
    stopping,  \* where the function of closeOnce is
    shutdown   \* Server.Close has cancelled every context

vars == <<out, total, others, writer, writing, reader, held, requests, failure, stopping,
          shutdown>>

----------------------------------------------------------------------------
\* State shapes

\* struct outboundMessage: stream is droppableStream, answer has an afterWrite
\* that ends its request, fatal has a closeStatus.
Message ==
    [kind : {"frame", "stream", "answer", "fatal"}, size : Size \cup {FatalSize},
     request : Request \cup {NoRequest}]

NoMessage == [kind |-> "none", size |-> 0, request |-> NoRequest]
Fatal == [kind |-> "fatal", size |-> FatalSize, request |-> NoRequest]

\* queue, queuedBytes, queueClosed, closeQueued and the token of queueWake.
Queue ==
    [frames : Seq(Message), bytes : Nat, closed : BOOLEAN, last : BOOLEAN, wake : BOOLEAN]

WriterState == {"looking", "parked", "writing", "written", "stopping", "done"}
ReaderState ==
    {"reading", "handling", "failing", "leaving", "stopping", "waiting", "finished"}

\* The shape of the state: connection and admissionController.
TypeOK ==
    /\ out \in Queue
    /\ total \in Nat /\ others \in Nat
    /\ writer \in WriterState /\ writing \in Message \cup {NoMessage}
    /\ reader \in ReaderState /\ held \in Request \cup {NoRequest}
    /\ requests \subseteq Request
    /\ failure \in {"none", "queueing", "replacing", "stopping", "done"}
    /\ stopping \in {"none", "cancelled", "done"}
    /\ shutdown \in BOOLEAN

Init ==
    /\ out = [frames |-> <<>>, bytes |-> 0, closed |-> FALSE, last |-> FALSE, wake |-> FALSE]
    /\ total = 0 /\ others = 0
    /\ writer = "looking" /\ writing = NoMessage
    /\ reader = "reading" /\ held = NoRequest /\ requests = {}
    /\ failure = "none" /\ stopping = "none" /\ shutdown = FALSE

\* The connection's context is done.
Cancelled == stopping # "none" \/ shutdown

----------------------------------------------------------------------------
\* The queue

\* What the frames weigh together, each by its weight in w.
Weight(frames, w) ==
    LET sum[i \in 0 .. Len(frames)] == IF i = 0 THEN 0 ELSE sum[i - 1] + w[frames[i]]
    IN  sum[Len(frames)]

BytesOf(frames) == Weight(frames, [m \in Message |-> m.size])

\* Mutant: eviction forgets to count.
EvictUncounted(o, size) ==
    [o EXCEPT !.frames = SelectSeq(@, LAMBDA f :
        f.kind # "stream" \/ o.bytes + size <= MaxQueuedBytes)]

\* Mutant: eviction does not look at what it drops.
DropsAnything(o, f, size) == o.bytes + size > MaxQueuedBytes

\* Does the queue have to drop f for a frame of that size?
Drops(o, f, size) == f.kind = "stream" /\ o.bytes + size > MaxQueuedBytes

\* evictStreamsLocked: stream frames make room, the oldest first, and no more
\* of them than it takes.
Evict(o, size) ==
    LET rest[i \in 0 .. Len(o.frames)] ==
          IF i = 0 THEN [o EXCEPT !.frames = <<>>]
          ELSE IF Drops(rest[i - 1], o.frames[i], size)
               THEN [rest[i - 1] EXCEPT !.bytes = @ - o.frames[i].size]
               ELSE [rest[i - 1] EXCEPT !.frames = Append(@, o.frames[i])]
    IN  rest[Len(o.frames)]

\* Mutant: frames are still accepted behind FATAL.
OpenUntilClosed(o) == ~o.closed

\* The queue accepts frames.
Open(o) == ~o.closed /\ ~o.last

\* Mutant: FATAL is queued without waking the writer.
AppendedQuietly(o, f) ==
    [o EXCEPT !.frames = Append(@, f), !.bytes = @ + f.size, !.last = @ \/ f.kind = "fatal",
              !.wake = @ \/ f.kind # "fatal"]

Appended(o, f) ==
    [o EXCEPT !.frames = Append(@, f), !.bytes = @ + f.size, !.last = @ \/ f.kind = "fatal",
              !.wake = TRUE]

\* enqueueBytes: a priority frame may evict; then both limits are tested.  What
\* was evicted for a frame that does not fit after all stays evicted.
MadeRoom(priority, f) == IF Open(out) /\ priority THEN Evict(out, f.size) ELSE out
Fits(priority, f) ==
    /\ Open(out)
    /\ MadeRoom(priority, f).bytes + f.size <= MaxQueuedBytes
    /\ total - (out.bytes - MadeRoom(priority, f).bytes) + f.size <= MaxAggregate

EnqueueBytes(f, priority) ==
    LET room == MadeRoom(priority, f)
        next == IF Fits(priority, f) THEN Appended(room, f) ELSE room
    IN  out' = next /\ total' = total + next.bytes - out.bytes

\* The queue without its frames, as fail and stop leave it.
Emptied(o) == [o EXCEPT !.frames = <<>>, !.bytes = 0]

----------------------------------------------------------------------------
\* fail and stop

\* Whoever calls fail first runs it; the others have nothing more to do.
Failing == failure' = IF failure = "none" THEN "queueing" ELSE failure

\* FATAL is queued like a priority frame.
FailQueues ==
    /\ failure = "queueing"
    /\ EnqueueBytes(Fatal, TRUE)
    /\ failure' = IF Fits(TRUE, Fatal) THEN "done" ELSE "replacing"
    /\ UNCHANGED <<others, writer, writing, reader, held, requests, stopping, shutdown>>

\* Otherwise it replaces the queue, if the total allows even that.
FailReplaces ==
    /\ failure = "replacing"
    /\ LET freed == total - out.bytes
           fits == freed + FatalSize <= MaxAggregate
       IN  \/ /\ out.closed /\ failure' = "stopping"
              /\ UNCHANGED <<out, total>>
           \/ /\ ~out.closed /\ fits /\ failure' = "done"
              /\ out' = Appended(Emptied(out), Fatal) /\ total' = freed + FatalSize
           \/ /\ ~out.closed /\ ~fits /\ failure' = "stopping"
              /\ out' = [Emptied(out) EXCEPT !.closed = TRUE] /\ total' = freed
    /\ UNCHANGED <<others, writer, writing, reader, held, requests, stopping, shutdown>>

\* Whoever calls stop first cancels the context; the others wait for StopEmpties.
Stopping == stopping' = IF stopping = "none" THEN "cancelled" ELSE stopping

FailStops ==
    /\ failure = "stopping"
    /\ IF stopping = "done" THEN failure' = "done" /\ UNCHANGED stopping
       ELSE Stopping /\ UNCHANGED failure
    /\ UNCHANGED <<out, total, others, writer, writing, reader, held, requests, shutdown>>

\* The second half of stop.
StopEmpties ==
    /\ stopping = "cancelled" /\ stopping' = "done"
    /\ out' = [Emptied(out) EXCEPT !.closed = TRUE, !.wake = TRUE]
    /\ total' = total - out.bytes
    /\ UNCHANGED <<others, writer, writing, reader, held, requests, failure, shutdown>>

----------------------------------------------------------------------------
\* The world outside the connection

\* A frame of another goroutine: an event, a call, a status.  When it is
\* refused, the connection is failed.
Send(kind, size, priority) ==
    LET f == [kind |-> kind, size |-> size, request |-> NoRequest] IN
    /\ kind \in {"frame", "stream"} /\ (kind = "stream" => ~priority)
    /\ EnqueueBytes(f, priority)
    /\ IF Fits(priority, f) THEN UNCHANGED failure ELSE Failing
    /\ UNCHANGED <<others, writer, writing, reader, held, requests, stopping, shutdown>>

\* The lease ends, the connection is replaced, ...
Fail ==
    /\ failure = "none" /\ Failing
    /\ UNCHANGED <<out, total, others, writer, writing, reader, held, requests, stopping,
                   shutdown>>

\* A ping is not answered, HELLO does not come, a drain ends.
Stop ==
    /\ stopping = "none" /\ Stopping
    /\ UNCHANGED <<out, total, others, writer, writing, reader, held, requests, failure,
                   shutdown>>

\* Server.Close
Shutdown ==
    /\ ~shutdown /\ shutdown' = TRUE
    /\ UNCHANGED <<out, total, others, writer, writing, reader, held, requests, failure,
                   stopping>>

\* Other connections reserve and release.
Others ==
    /\ \E n \in 0..MaxAggregate :
         /\ total - others + n <= MaxAggregate
         /\ others' = n /\ total' = total - others + n
    /\ UNCHANGED <<out, writer, writing, reader, held, requests, failure, stopping, shutdown>>

----------------------------------------------------------------------------
\* run: the reading goroutine

\* A request frame: beginRequest, or an ERROR that answers no claim.
Receive(r, size) ==
    /\ reader = "reading"
    /\ LET f == [kind |-> "frame", size |-> size, request |-> NoRequest] IN
       IF r \notin requests
       THEN /\ requests' = requests \cup {r} /\ held' = r /\ reader' = "handling"
            /\ UNCHANGED <<out, total, failure>>
       ELSE /\ EnqueueBytes(f, TRUE)
            /\ IF Fits(TRUE, f) THEN UNCHANGED <<failure, reader>>
               ELSE Failing /\ reader' = "failing"
            /\ UNCHANGED <<requests, held>>
    /\ UNCHANGED <<others, writer, writing, stopping, shutdown>>

\* The handler's OK or the ERROR of its failure: enqueueRequestTerminal.
Answer(size, priority) ==
    LET f == [kind |-> "answer", size |-> size, request |-> held] IN
    /\ reader = "handling"
    /\ EnqueueBytes(f, priority)
    /\ IF Fits(priority, f) THEN reader' = "reading" /\ held' = NoRequest /\ UNCHANGED failure
       ELSE reader' = "failing" /\ Failing /\ UNCHANGED held
    /\ UNCHANGED <<others, writer, writing, requests, stopping, shutdown>>

\* A malformed frame, or a handler whose failure is fatal.
ReaderFails ==
    /\ reader \in {"reading", "handling"} /\ reader' = "failing" /\ Failing
    /\ UNCHANGED <<out, total, others, writer, writing, held, requests, stopping, shutdown>>

\* fail has returned, and run does.
ReaderFailed ==
    /\ reader = "failing" /\ failure = "done" /\ reader' = "leaving"
    /\ UNCHANGED <<out, total, others, writer, writing, held, requests, failure, stopping,
                   shutdown>>

\* The peer is gone or the context done.
ReadEnds ==
    /\ reader = "reading" /\ reader' = "leaving"
    /\ UNCHANGED <<out, total, others, writer, writing, held, requests, failure, stopping,
                   shutdown>>

\* The deferred function leaves the rest to a queued FATAL, or stops.
Leave ==
    /\ reader = "leaving"
    /\ reader' = IF out.last THEN "waiting" ELSE "stopping"
    /\ UNCHANGED <<out, total, others, writer, writing, held, requests, failure, stopping,
                   shutdown>>

ReaderStops ==
    /\ reader = "stopping"
    /\ IF stopping = "done" THEN reader' = "waiting" /\ UNCHANGED stopping
       ELSE Stopping /\ UNCHANGED reader
    /\ UNCHANGED <<out, total, others, writer, writing, held, requests, failure, shutdown>>

\* The writer has not ended within WriteTimeout.  A stop that has run already
\* would change nothing.
WaitTimesOut ==
    /\ reader = "waiting" /\ writer # "done" /\ stopping # "done" /\ reader' = "stopping"
    /\ UNCHANGED <<out, total, others, writer, writing, held, requests, failure, stopping,
                   shutdown>>

Finish ==
    /\ reader = "waiting" /\ writer = "done" /\ reader' = "finished"
    /\ UNCHANGED <<out, total, others, writer, writing, held, requests, failure, stopping,
                   shutdown>>

----------------------------------------------------------------------------
\* writeLoop

\* nextMessage, under the lock: a frame gives its bytes back before it is
\* written.
Look ==
    /\ writer = "looking"
    /\ IF out.frames # <<>>
       THEN /\ writing' = Head(out.frames) /\ writer' = "writing"
            /\ out' = [out EXCEPT !.frames = Tail(@), !.bytes = @ - Head(out.frames).size]
            /\ total' = total - Head(out.frames).size
       ELSE /\ writer' = IF out.closed THEN "done" ELSE "parked"
            /\ UNCHANGED <<out, total, writing>>
    /\ UNCHANGED <<others, reader, held, requests, failure, stopping, shutdown>>

\* Between two looks it waits for the token or the end of the context.
Wake ==
    /\ writer = "parked"
    /\ \/ out.wake /\ out' = [out EXCEPT !.wake = FALSE] /\ writer' = "looking"
       \/ Cancelled /\ writer' = "done" /\ UNCHANGED out
    /\ UNCHANGED <<total, others, writing, reader, held, requests, failure, stopping, shutdown>>

\* The socket takes the frame, or fails at the latest after WriteTimeout.
Write ==
    /\ writer = "writing" /\ writer' \in {"written", "stopping"}
    /\ UNCHANGED <<out, total, others, writing, reader, held, requests, failure, stopping,
                   shutdown>>

\* afterWrite, and stop after FATAL.
Written ==
    /\ writer = "written"
    /\ requests' = requests \ {writing.request}
    /\ writing' = NoMessage
    /\ writer' = IF writing.kind = "fatal" THEN "stopping" ELSE "looking"
    /\ UNCHANGED <<out, total, others, reader, held, failure, stopping, shutdown>>

WriterStops ==
    /\ writer = "stopping"
    /\ IF stopping = "done" THEN writer' = "done" /\ UNCHANGED stopping
       ELSE Stopping /\ UNCHANGED writer
    /\ UNCHANGED <<out, total, others, writing, reader, held, requests, failure, shutdown>>

----------------------------------------------------------------------------

Handle == \E size \in Size, priority \in BOOLEAN : Answer(size, priority)
Leaving == ReaderFailed \/ Leave \/ ReaderStops \/ Finish
Failure == FailQueues \/ FailReplaces \/ FailStops
Writing == Look \/ Wake \/ Write \/ Written \/ WriterStops

Next ==
    \/ Handle \/ Leaving \/ Failure \/ Writing \/ StopEmpties
    \/ \E r \in Request, size \in Size : Receive(r, size)
    \/ ReaderFails \/ ReadEnds \/ WaitTimesOut
    \/ \E size \in Size, kind \in {"frame", "stream"}, priority \in BOOLEAN :
         Send(kind, size, priority)
    \/ Fail \/ Stop \/ Shutdown \/ Others

\* Goroutines run, reads end with their context and writes with their timeout.
Fairness ==
    /\ WF_vars(Handle) /\ WF_vars(Leaving) /\ WF_vars(Failure) /\ WF_vars(Writing)
    /\ WF_vars(StopEmpties) /\ WF_vars(Cancelled /\ ReadEnds)

Spec == Init /\ [][Next]_vars
FairSpec == Spec /\ Fairness

----------------------------------------------------------------------------
\* Properties

\* Reserved bytes are those of queued frames, on every path that queues, evicts,
\* writes, replaces or drops them, and both limits hold (reserveQueuedBytes,
\* releaseQueuedBytes, evictStreamsLocked, nextMessage, fail, stop).
BytesAreAccounted ==
    /\ out.bytes = BytesOf(out.frames) /\ out.bytes <= MaxQueuedBytes
    /\ total = out.bytes + others /\ total <= MaxAggregate

AnswersTo(r) ==
    Weight(out.frames, [m \in Message |-> IF m.request = r THEN 1 ELSE 0])
      + (IF writing.request = r THEN 1 ELSE 0) + (IF held = r THEN 1 ELSE 0)

\* As long as a connection has not failed, a request in flight is being
\* handled or has one answer on its way, and an identifier that is free has
\* none: no eviction, duplicate or late answer loses one or frees it early
\* (beginRequest, enqueueRequestTerminal, writeLoop).
RequestsAreAnsweredOnce ==
    failure = "none" /\ stopping = "none" =>
        \A r \in Request : AnswersTo(r) = IF r \in requests THEN 1 ELSE 0

\* FATAL is the last frame, and a failed connection has one queued, being
\* written, or is stopped (fail, enqueueBytes).
FatalComesLast ==
    /\ \A i \in 1..Len(out.frames) : out.frames[i].kind = "fatal" => i = Len(out.frames)
    /\ writing.kind = "fatal" => out.frames = <<>>
    /\ failure = "done" =>
         \/ stopping # "none" \/ writer \in {"stopping", "done"}
         \/ Fatal \in {writing} \cup {out.frames[i] : i \in 1..Len(out.frames)}

Ended == reader = "finished" /\ writer = "done" /\ (out.bytes = 0 \/ shutdown)

\* A connection that fails, stops or is left by its peer ends, whatever its
\* queue holds and its peer reads, and gives back what it reserved; only when
\* the relay shuts down may a FATAL stay in the queue (run, writeLoop).
LeavingEnds ==
    (failure # "none" \/ stopping # "none" \/ reader = "leaving") ~> Ended
==============================================================================
