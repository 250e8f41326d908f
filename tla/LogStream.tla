------------------------------ MODULE LogStream ------------------------------
(***************************************************************************)
(* The Linux log stream, src/core/client/docker_log_stream.rs.             *)
(*                                                                         *)
(* One blocking thread owns the socket of GET /containers/{id}/logs and    *)
(* demultiplexes it into one bounded buffer per stream (stdout, stderr).   *)
(* Any number of readers follow a buffer with offsets of their own: async  *)
(* readers (LogReader: the LogConsumer tasks), woken by tokio's Notify,    *)
(* and blocking readers (SyncLogReader) that look again every 50 ms.       *)
(*                                                                         *)
(* A byte is modelled by its position in its stream, so that a buffer      *)
(* which loses, repeats or reorders bytes shows it.  A lock region is one  *)
(* step; everything between two lock regions or atomics can interleave.    *)
(***************************************************************************)
EXTENDS Integers, Sequences, FiniteSets

CONSTANTS
  Streams,        \* the demultiplexed streams (stdout, stderr)
  AsyncReaders,   \* LogReader instances, each owned by a LogConsumer task
  SyncReaders,    \* SyncLogReader instances
  StreamOf,       \* the stream each reader follows
  Limit,          \* SharedLogBuffer::limit (8 MiB in the code)
  MaxChunk,       \* the most one feed appends to a stream (a decoder buffer)
  MaxBytes        \* bound of the model: bytes the container writes per stream

Readers == AsyncReaders \cup SyncReaders

ASSUME StreamAssumption == IsFiniteSet(Streams)
ASSUME ReaderAssumption ==
  /\ IsFiniteSet(AsyncReaders)
  /\ AsyncReaders \cap SyncReaders = {}
  /\ StreamOf \in [Readers -> Streams]

(* DEFAULT_BUFFER_LIMIT is 8 MiB and a decoded chunk is at most 64 KiB, so *)
(* the branch of append that cuts an oversized input is never taken.       *)
ASSUME BoundAssumption ==
  /\ Limit \in Nat /\ MaxChunk \in Nat /\ MaxBytes \in Nat
  /\ 0 < MaxChunk /\ MaxChunk <= Limit

VARIABLES
  (* The daemon's side of the connection (external). *)
  open,        \* the daemon holds the connection open
  sent,        \* per stream: bytes the daemon has written so far
  got,         \* per stream: bytes the session thread has taken off the socket
  (* DockerLogsHandle *)
  started,     \* spawn_log_session's oneshot: pending, ok, err or cancelled
  logStop,     \* log_stop
  cloned,      \* shutdown_socket holds the clone
  shut,        \* shutdown(Both) was issued
  demuxDone,   \* demux_done
  active,      \* active_consumers
  stopper,     \* position of a caller inside DockerLogsHandle::stop
  (* LogStream: the shared buffers *)
  buf,         \* SharedLogBuffer::buf, a sequence of bytes
  head,        \* SharedLogBuffer::head
  terminated,  \* LogStream::terminated
  (* The session thread *)
  dpc,         \* where run_log_session is
  chunk,       \* per stream: bytes taken off the socket and not fed yet
  todo,        \* streams whose waiters this pass still has to notify
  (* Readers *)
  rpc,         \* where each reader is
  offset,      \* LogReader::offset / SyncLogReader::offset
  wait,        \* LogReader::wait: none, registered, notified
  warned,      \* warned_skip
  seen         \* history: the bytes each reader has delivered

daemonVars  == <<open, sent>>
handleVars  == <<started, logStop, cloned, shut, demuxDone, stopper>>
bufferVars  == <<buf, head, terminated>>
sessionVars == <<dpc, chunk, todo>>
readerVars  == <<rpc, offset, wait, warned, seen, active>>
vars == <<daemonVars, got, handleVars, bufferVars, sessionVars, readerVars>>

Empty == [s \in Streams |-> 0]
End(s) == head[s] + Len(buf[s])

Init ==
  /\ open = TRUE /\ sent = Empty /\ got = Empty
  /\ started = "pending" /\ logStop = FALSE /\ cloned = FALSE /\ shut = FALSE
  /\ demuxDone = FALSE /\ active = 0 /\ stopper = "idle"
  /\ buf = [s \in Streams |-> <<>>] /\ head = Empty
  /\ terminated = [s \in Streams |-> FALSE]
  /\ dpc = "start" /\ chunk = Empty /\ todo = {}
  /\ rpc = [r \in Readers |-> "unborn"] /\ offset = [r \in Readers |-> 0]
  /\ wait = [r \in Readers |-> "none"] /\ warned = [r \in Readers |-> FALSE]
  /\ seen = [r \in Readers |-> <<>>]

------------------------------------------------------------------------------
(* The daemon: the container writes, the connection ends when it exits or  *)
(* is removed.                                                             *)

DaemonWrite(s) ==
  /\ open /\ ~shut /\ sent[s] < MaxBytes
  /\ sent' = [sent EXCEPT ![s] = @ + 1]
  /\ UNCHANGED <<open, got, handleVars, bufferVars, sessionVars, readerVars>>

DaemonClose ==
  /\ open
  /\ open' = FALSE
  /\ UNCHANGED <<sent, got, handleVars, bufferVars, sessionVars, readerVars>>

------------------------------------------------------------------------------
(* SharedLogBuffer, drop-oldest mode.                                      *)

(* The bytes of stream s once n more are pushed behind the buffer. *)
Pushed(s, n) == buf[s] \o [i \in 1..n |-> got[s] - chunk[s] + i - 1]

(* append that drops the oldest bytes without counting them. *)
AppendUncounted(s, n) ==
  LET all  == Pushed(s, n)
      drop == IF Len(all) > Limit THEN Len(all) - Limit ELSE 0
  IN  [bytes |-> SubSeq(all, drop + 1, Len(all)), head |-> head[s]]

(* append that moves the head the wrong way. *)
AppendBackwards(s, n) ==
  LET all  == Pushed(s, n)
      drop == IF Len(all) > Limit THEN Len(all) - Limit ELSE 0
  IN  [bytes |-> SubSeq(all, drop + 1, Len(all)), head |-> head[s] - drop]

append(s, n) ==
  LET all  == Pushed(s, n)
      drop == IF Len(all) > Limit THEN Len(all) - Limit ELSE 0
  IN  [bytes |-> SubSeq(all, drop + 1, Len(all)), head |-> head[s] + drop]

(* read_at that follows a dropped offset without reporting the skip. *)
ReadAtSilent(s, o, n) ==
  LET from == IF o < head[s] THEN head[s] ELSE o
      have == End(s) - from
      len  == IF have <= 0 THEN 0 ELSE IF have < n THEN have ELSE n
  IN  [bytes   |-> SubSeq(buf[s], from - head[s] + 1, from - head[s] + len),
       next    |-> from + len,
       skipped |-> FALSE]

(* read_at: what a reader at offset o finds in the buffer of stream s, cut *)
(* to the n bytes the caller has room for.                                 *)
read_at(s, o, n) ==
  LET from == IF o < head[s] THEN head[s] ELSE o
      have == End(s) - from
      len  == IF have <= 0 THEN 0 ELSE IF have < n THEN have ELSE n
  IN  [bytes   |-> SubSeq(buf[s], from - head[s] + 1, from - head[s] + len),
       next    |-> from + len,
       skipped |-> o < head[s]]

------------------------------------------------------------------------------
(* Notify::notify_waiters wakes the readers registered at that moment and  *)
(* leaves no permit for later ones.                                        *)

Woken(s) ==
  [r \in Readers |-> IF StreamOf[r] = s /\ wait[r] = "registered"
                     THEN "notified" ELSE wait[r]]

(* The session thread: run_log_session, start_and_demux, demux_loop.       *)

(* Connect, send the request, check the head.  On failure the guard        *)
(* terminates the streams and the error goes back over the oneshot; a      *)
(* caller that has gone away ends the thread before the loop.              *)
StartFail ==
  /\ dpc = "start"
  /\ started' = IF started = "pending" THEN "err" ELSE started
  /\ dpc' = "terminate"
  /\ UNCHANGED <<daemonVars, got, logStop, cloned, shut, demuxDone, stopper,
                 bufferVars, chunk, todo, readerVars>>

StartOk ==
  /\ dpc = "start"
  /\ cloned' \in BOOLEAN
  /\ IF started = "pending"
       THEN started' = "ok" /\ dpc' = "check"
       ELSE dpc' = "terminate" /\ UNCHANGED started
  /\ UNCHANGED <<daemonVars, got, logStop, shut, demuxDone, stopper,
                 bufferVars, chunk, todo, readerVars>>

(* The future of spawn_log_session is dropped before the oneshot fires. *)
CallerCancel ==
  /\ started = "pending"
  /\ started' = "cancelled"
  /\ UNCHANGED <<daemonVars, got, logStop, cloned, shut, demuxDone, stopper,
                 bufferVars, sessionVars, readerVars>>

CheckStop ==
  /\ dpc = "check"
  /\ dpc' = IF logStop THEN "terminate" ELSE "feed"
  /\ UNCHANGED <<daemonVars, got, handleVars, bufferVars, chunk, todo, readerVars>>

(* drain_decoded: both buffers are locked while the chunk is fed.  An      *)
(* error of consume_body ends the thread before anybody is notified.       *)
Feed ==
  /\ dpc = "feed"
  /\ LET new == [s \in Streams |-> append(s, chunk[s])]
     IN  /\ buf' = [s \in Streams |-> new[s].bytes]
         /\ head' = [s \in Streams |-> new[s].head]
  /\ chunk' = Empty
  /\ \/ dpc' = "notify" /\ todo' = {s \in Streams : chunk[s] > 0}
     \/ dpc' = "terminate" /\ todo' = {}
  /\ UNCHANGED <<daemonVars, got, handleVars, terminated, readerVars>>

(* Otherwise the waiters of each written stream are notified afterwards. *)
FeedNotify(s) ==
  /\ dpc = "notify" /\ s \in todo
  /\ wait' = Woken(s)
  /\ todo' = todo \ {s}
  /\ UNCHANGED <<daemonVars, got, handleVars, bufferVars, dpc, chunk,
                 rpc, offset, warned, seen, active>>

FeedDone ==
  /\ dpc = "notify" /\ todo = {}
  /\ dpc' = "read"
  /\ UNCHANGED <<daemonVars, got, handleVars, bufferVars, chunk, todo, readerVars>>

ReadData ==
  /\ dpc = "read"
  /\ \E c \in [Streams -> 0..MaxChunk] :
       /\ c # Empty
       /\ \A s \in Streams : got[s] + c[s] <= sent[s]
       /\ chunk' = c
       /\ got' = [s \in Streams |-> got[s] + c[s]]
  /\ dpc' = "check"
  /\ UNCHANGED <<daemonVars, handleVars, bufferVars, todo, readerVars>>

(* Bytes queued in the socket are read before its end is seen. *)
ReadEof ==
  /\ dpc = "read" /\ got = sent /\ (shut \/ ~open)
  /\ dpc' = "terminate"
  /\ UNCHANGED <<daemonVars, got, handleVars, bufferVars, chunk, todo, readerVars>>

ReadError ==
  /\ dpc = "read"
  /\ dpc' = "terminate"
  /\ UNCHANGED <<daemonVars, got, handleVars, bufferVars, chunk, todo, readerVars>>

(* terminate_all, run by the guard's Drop whatever ended the thread:       *)
(* each stream is marked and then its waiters are notified.                *)
Terminate(s) ==
  /\ dpc = "terminate" /\ todo = {} /\ ~terminated[s]
  /\ terminated' = [terminated EXCEPT ![s] = TRUE]
  /\ todo' = {s}
  /\ UNCHANGED <<daemonVars, got, handleVars, buf, head, dpc, chunk, readerVars>>

(* terminate_all that forgets the waiters. *)
TerminateNotifyNobody(s) ==
  /\ dpc = "terminate" /\ s \in todo
  /\ todo' = todo \ {s}
  /\ UNCHANGED <<daemonVars, got, handleVars, bufferVars, dpc, chunk, readerVars>>

TerminateNotify(s) ==
  /\ dpc = "terminate" /\ s \in todo
  /\ wait' = Woken(s)
  /\ todo' = todo \ {s}
  /\ UNCHANGED <<daemonVars, got, handleVars, bufferVars, dpc, chunk,
                 rpc, offset, warned, seen, active>>

SetDemuxDone ==
  /\ dpc = "terminate" /\ todo = {} /\ \A s \in Streams : terminated[s]
  /\ demuxDone' = TRUE
  /\ dpc' = "done"
  /\ UNCHANGED <<daemonVars, got, started, logStop, cloned, shut, stopper,
                 bufferVars, chunk, todo, readerVars>>

------------------------------------------------------------------------------
(* DockerLogsHandle::stop, called by stop / rm / Drop / restart on a       *)
(* handle that spawn_log_session returned.                                 *)

StopFlag ==
  /\ started = "ok" /\ stopper = "idle"
  /\ logStop' = TRUE
  /\ stopper' = "shutdown"
  /\ UNCHANGED <<daemonVars, got, started, cloned, shut, demuxDone,
                 bufferVars, sessionVars, readerVars>>

(* stop that keeps the clone to itself. *)
StopNoShutdown ==
  /\ stopper = "shutdown"
  /\ cloned' = FALSE
  /\ stopper' = "idle"
  /\ UNCHANGED <<daemonVars, got, started, logStop, shut, demuxDone,
                 bufferVars, sessionVars, readerVars>>

StopShutdown ==
  /\ stopper = "shutdown"
  /\ shut' = (shut \/ cloned)
  /\ cloned' = FALSE
  /\ stopper' = "idle"
  /\ UNCHANGED <<daemonVars, got, started, logStop, demuxDone,
                 bufferVars, sessionVars, readerVars>>

------------------------------------------------------------------------------
(* Readers.                                                                *)

(* spawn_log_consumer_task counts the consumer before the task exists;     *)
(* stdout_sync_reader merely builds a reader.                              *)
Spawn(r) ==
  /\ started = "ok" /\ rpc[r] = "unborn"
  /\ rpc' = [rpc EXCEPT ![r] = IF r \in AsyncReaders THEN "poll" ELSE "read"]
  /\ active' = IF r \in AsyncReaders THEN active + 1 ELSE active
  /\ UNCHANGED <<daemonVars, got, handleVars, bufferVars, sessionVars,
                 offset, wait, warned, seen>>

(* poll_fill that looks at the buffer before it registers. *)
PollUnregistered(r) ==
  /\ rpc[r] = "poll"
  /\ wait' = [wait EXCEPT ![r] = "none"]
  /\ rpc' = [rpc EXCEPT ![r] = "read"]
  /\ UNCHANGED <<daemonVars, got, handleVars, bufferVars, sessionVars,
                 offset, warned, seen, active>>

(* poll_fill registers with Notify first; a notified wait is dropped and   *)
(* taken afresh.                                                           *)
Poll(r) ==
  /\ rpc[r] = "poll"
  /\ IF wait[r] = "notified"
       THEN wait' = [wait EXCEPT ![r] = "none"] /\ UNCHANGED rpc
       ELSE /\ wait' = [wait EXCEPT ![r] = "registered"]
            /\ rpc' = [rpc EXCEPT ![r] = "read"]
  /\ UNCHANGED <<daemonVars, got, handleVars, bufferVars, sessionVars,
                 offset, warned, seen, active>>

(* The locked read of the shared buffer, of both kinds of reader. *)
ReadBuffer(r) ==
  /\ rpc[r] = "read"
  /\ \E n \in 1..MaxChunk :
       LET got_ == read_at(StreamOf[r], offset[r], n) IN
       /\ offset' = [offset EXCEPT ![r] = got_.next]
       /\ warned' = [warned EXCEPT ![r] = @ \/ got_.skipped]
       /\ seen' = [seen EXCEPT ![r] = @ \o got_.bytes]
       /\ IF got_.bytes # <<>>
            THEN /\ rpc' = [rpc EXCEPT ![r] = IF r \in AsyncReaders
                                              THEN "poll" ELSE "read"]
                 /\ wait' = [wait EXCEPT ![r] = "none"]
            ELSE rpc' = [rpc EXCEPT ![r] = "check"] /\ UNCHANGED wait
  /\ UNCHANGED <<daemonVars, got, handleVars, bufferVars, sessionVars, active>>

(* The buffer was empty: end of file if the stream has been terminated,    *)
(* otherwise wait.  At end of file a LogConsumer task returns and its      *)
(* guard gives the count back.                                             *)
CheckTerminated(r) ==
  /\ rpc[r] = "check"
  /\ IF terminated[StreamOf[r]]
       THEN /\ rpc' = [rpc EXCEPT ![r] = "eof"]
            /\ wait' = [wait EXCEPT ![r] = "none"]
            /\ active' = IF r \in AsyncReaders THEN active - 1 ELSE active
       ELSE /\ rpc' = [rpc EXCEPT ![r] = "pending"]
            /\ UNCHANGED <<wait, active>>
  /\ UNCHANGED <<daemonVars, got, handleVars, bufferVars, sessionVars,
                 offset, warned, seen>>

(* A pending async task runs again when its Notified fires; a sync reader  *)
(* when park_timeout(50ms) elapses.                                        *)
WakeAsync(r) ==
  /\ r \in AsyncReaders /\ rpc[r] = "pending" /\ wait[r] = "notified"
  /\ rpc' = [rpc EXCEPT ![r] = "poll"]
  /\ UNCHANGED <<daemonVars, got, handleVars, bufferVars, sessionVars,
                 offset, wait, warned, seen, active>>

WakeSync(r) ==
  /\ r \in SyncReaders /\ rpc[r] = "pending"
  /\ rpc' = [rpc EXCEPT ![r] = "read"]
  /\ UNCHANGED <<daemonVars, got, handleVars, bufferVars, sessionVars,
                 offset, wait, warned, seen, active>>

(* A panic that takes the decrement with it. *)
PanicKeepsCount(r) ==
  /\ r \in AsyncReaders /\ rpc[r] = "poll" /\ seen[r] # <<>>
  /\ rpc' = [rpc EXCEPT ![r] = "dead"]
  /\ UNCHANGED <<daemonVars, got, handleVars, bufferVars, sessionVars,
                 offset, wait, warned, seen, active>>

(* LogConsumer::accept panics after a delivery; ConsumerFinishedOnDrop     *)
(* still runs.                                                             *)
Panic(r) ==
  /\ r \in AsyncReaders /\ rpc[r] = "poll" /\ seen[r] # <<>>
  /\ rpc' = [rpc EXCEPT ![r] = "dead"]
  /\ active' = active - 1
  /\ UNCHANGED <<daemonVars, got, handleVars, bufferVars, sessionVars,
                 offset, wait, warned, seen>>

------------------------------------------------------------------------------
Session ==
  \/ StartFail \/ StartOk \/ CheckStop \/ Feed \/ FeedDone
  \/ \E s \in Streams : FeedNotify(s)
  \/ ReadData \/ ReadEof
  \/ \E s \in Streams : Terminate(s) \/ TerminateNotify(s)
  \/ SetDemuxDone

Follow(r) ==
  Poll(r) \/ ReadBuffer(r) \/ CheckTerminated(r) \/ WakeAsync(r) \/ WakeSync(r)

Next ==
  \/ \E s \in Streams : DaemonWrite(s)
  \/ DaemonClose \/ CallerCancel \/ ReadError
  \/ Session
  \/ StopFlag \/ StopShutdown
  \/ \E r \in Readers : Spawn(r) \/ Follow(r) \/ Panic(r)

(* Threads and woken tasks run; the container, the user's calls and the    *)
(* failures are not obliged to happen.                                     *)
Fairness ==
  /\ WF_vars(Session)
  /\ WF_vars(StopShutdown)
  /\ \A r \in Readers : WF_vars(Follow(r))

Spec == Init /\ [][Next]_vars /\ Fairness

------------------------------------------------------------------------------
(* Properties.                                                             *)

Live == {"poll", "read", "check", "pending"}
Ended == {"eof", "dead"}

(* Every variable keeps its type. *)
TypeOK ==
  /\ open \in BOOLEAN
  /\ sent \in [Streams -> Nat] /\ got \in [Streams -> Nat]
  /\ started \in {"pending", "ok", "err", "cancelled"}
  /\ logStop \in BOOLEAN /\ cloned \in BOOLEAN /\ shut \in BOOLEAN
  /\ demuxDone \in BOOLEAN /\ active \in Int
  /\ stopper \in {"idle", "shutdown"}
  /\ buf \in [Streams -> Seq(Nat)] /\ head \in [Streams -> Nat]
  /\ terminated \in [Streams -> BOOLEAN]
  /\ dpc \in {"start", "check", "feed", "notify", "read", "terminate", "done"}
  /\ chunk \in [Streams -> 0..MaxChunk] /\ todo \in SUBSET Streams
  /\ rpc \in [Readers -> {"unborn"} \cup Live \cup Ended]
  /\ offset \in [Readers -> Nat]
  /\ wait \in [Readers -> {"none", "registered", "notified"}]
  /\ warned \in [Readers -> BOOLEAN]
  /\ seen \in [Readers -> Seq(Nat)]

(* SharedLogBuffer (append, head): the buffer of a stream is at most Limit  *)
(* bytes and is exactly the window of the stream that starts at head, so an *)
(* absolute offset always means the same byte.                              *)
BufferIsWindow ==
  \A s \in Streams :
    /\ Len(buf[s]) <= Limit
    /\ \A i \in 1..Len(buf[s]) : buf[s][i] = head[s] + i - 1

(* LogReader / SyncLogReader: bytes come in order, and a reader that has    *)
(* not warned about an overflow has delivered the stream from its first     *)
(* byte without a gap, however the session thread dropped bytes meanwhile.  *)
NoSilentLoss ==
  \A r \in Readers :
    /\ \A i, j \in DOMAIN seen[r] : i < j => seen[r][i] < seen[r][j]
    /\ ~warned[r] => \A i \in DOMAIN seen[r] : seen[r][i] = i - 1

(* active_consumers: the count all_done() reads is the number of consumer   *)
(* tasks still running, panicked ones included in those that are not.       *)
ConsumersCounted == active = Cardinality({r \in AsyncReaders : rpc[r] \in Live})

(* LogReader's contract "buffer empty + terminated => EOF": a reader that   *)
(* saw the end of file has delivered all the session thread stored.         *)
EofOnlyWhenDrained ==
  \A r \in Readers : rpc[r] = "eof" => offset[r] = End(StreamOf[r])

(* poll_fill registers before it looks: no byte stored is left unread by a  *)
(* reader that stays, no notification is lost.                              *)
StoredIsDelivered ==
  \A r \in Readers : \A n \in 0..(MaxBytes - 1) :
    (rpc[r] \in Live /\ End(StreamOf[r]) > n)
      ~> (offset[r] > n \/ rpc[r] \in Ended)

(* terminate_all: once the session thread is over every reader, also one    *)
(* created later, comes to its end of file.                                 *)
ReadersEnd ==
  \A r \in Readers :
    (demuxDone /\ rpc[r] # "unborn") ~> (rpc[r] \in Ended)

(* stop(): with a cloned socket the session thread ends even though the     *)
(* container keeps writing and the daemon keeps the connection open.        *)
StopEndsSession == (stopper = "shutdown" /\ cloned) ~> demuxDone

==============================================================================
