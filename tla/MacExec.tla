------------------------------ MODULE MacExec ------------------------------
(***************************************************************************)
(* exec on macOS: XpcClient::exec, join_exec_readers and                   *)
(* read_file_to_vec_cancellable of src/core/client/xpc_client.rs.          *)
(*                                                                         *)
(* The output of the command comes over two pipes whose write ends are     *)
(* passed to the daemon.  A thread per pipe reads until end of file while  *)
(* the exec thread waits for the process; afterwards the exec thread waits *)
(* for the readers, at most EXEC_READER_JOIN_TIMEOUT.  The daemon may keep *)
(* its copy of a write end, and a child of the command may inherit one.    *)
(***************************************************************************)
EXTENDS Integers

CONSTANTS
  Streams,          \* stdout and stderr
  PipeCapacity,     \* bytes a pipe holds (64 KiB)
  MAX_OUTPUT_SIZE,  \* bytes a reader accepts (64 MiB)
  MaxWrite          \* bound of the model: bytes written to each stream

ASSUME CapacityAssumption ==
  /\ PipeCapacity \in Nat \ {0}
  /\ MAX_OUTPUT_SIZE \in Nat /\ MaxWrite \in [Streams -> Nat]

VARIABLES
  epc,      \* where exec is
  cancel,   \* the flag shared with the readers
  chan,     \* results sent and not received: streams
  received, \* results received: streams
  rd,       \* where the reader of each stream is
  got,      \* bytes it has read
  result,   \* what it ended with: none, some, cancelled, error
  (* The command and the daemon (external). *)
  proc,     \* the process: none, running, exited
  want,     \* bytes the process writes to each stream before it exits
  holders,  \* who holds the write end of each pipe open
  pipe,     \* bytes in each pipe
  wrote     \* bytes written to each stream so far

execVars == <<epc, cancel, chan, received>>
readVars == <<rd, got, result>>
procVars == <<proc, want, holders, pipe, wrote>>
vars == <<execVars, readVars, procVars>>

Zero == [s \in Streams |-> 0]

(* What a command may write. *)
Wants == {w \in [Streams -> UNION {0..MaxWrite[s] : s \in Streams}] :
            \A s \in Streams : w[s] <= MaxWrite[s]}

Init ==
  /\ epc = "create" /\ cancel = FALSE /\ chan = {} /\ received = {}
  /\ rd = [s \in Streams |-> "none"] /\ got = Zero
  /\ result = [s \in Streams |-> "none"]
  /\ proc = "none" /\ want \in Wants
  /\ holders = [s \in Streams |-> {}] /\ pipe = Zero /\ wrote = Zero

Reading == {"check", "poll", "read"}
Finished == {"send", "sent", "panicked"}

(* The read end of a pipe: of exec first, then of the reader, which closes *)
(* it when it ends.                                                        *)
ReadOpen(s) == rd[s] \in Reading \/ (rd[s] = "none" /\ epc \in {"start", "spawn"})

------------------------------------------------------------------------------
(* The command. *)

(* A write blocks while the pipe is full. *)
Written(s) ==
  /\ pipe[s] < PipeCapacity
  /\ pipe' = [pipe EXCEPT ![s] = @ + 1]
  /\ wrote' = [wrote EXCEPT ![s] = @ + 1]

ProcWrite(s) ==
  /\ proc = "running" /\ ReadOpen(s) /\ want[s] > 0
  /\ Written(s)
  /\ want' = [want EXCEPT ![s] = @ - 1]
  /\ UNCHANGED <<execVars, readVars, proc, holders>>

(* The process exits when all is written, or after a write to a pipe       *)
(* nobody reads.                                                           *)
ProcExit ==
  /\ proc = "running"
  /\ \A s \in Streams : want[s] = 0 \/ ~ReadOpen(s)
  /\ proc' = "exited"
  /\ holders' = [s \in Streams |-> holders[s] \ {"process"}]
  /\ UNCHANGED <<execVars, readVars, want, pipe, wrote>>

(* A child inherits the write ends and may outlive the process. *)
Fork ==
  /\ proc = "running"
  /\ holders' = [s \in Streams |-> holders[s] \cup {"child"}]
  /\ UNCHANGED <<execVars, readVars, proc, want, pipe, wrote>>

(* MaxWrite bounds the child by what the process leaves it. *)
ChildWrite(s) ==
  /\ "child" \in holders[s] /\ ReadOpen(s)
  /\ wrote[s] + want[s] < MaxWrite[s]
  /\ Written(s)
  /\ UNCHANGED <<execVars, readVars, proc, want, holders>>

ChildClose(s) ==
  /\ "child" \in holders[s]
  /\ holders' = [holders EXCEPT ![s] = @ \ {"child"}]
  /\ UNCHANGED <<execVars, readVars, proc, want, pipe, wrote>>

(* The daemon closes its copy, if it ever does. *)
DaemonClose(s) ==
  /\ proc = "exited" /\ "daemon" \in holders[s]
  /\ holders' = [holders EXCEPT ![s] = @ \ {"daemon"}]
  /\ UNCHANGED <<execVars, readVars, proc, want, pipe, wrote>>

------------------------------------------------------------------------------
(* exec, up to the wait. *)

(* create_pipe twice, containerCreateProcess. *)
CreateProcess ==
  /\ epc = "create"
  /\ \/ /\ epc' = "start"
        /\ holders' = [s \in Streams |-> {"exec", "daemon"}]
     \/ epc' = "err" /\ UNCHANGED holders
  /\ UNCHANGED <<cancel, chan, received, readVars, proc, want, pipe, wrote>>

(* The own write ends are closed, then containerStartProcess; if that      *)
(* fails the process may run all the same and the read ends are closed.    *)
StartProcess ==
  /\ epc = "start"
  /\ \/ epc' = "spawn" /\ proc' = "running"
     \/ epc' = "err" /\ proc' \in {"none", "running"}
  /\ holders' = [s \in Streams |-> (holders[s] \ {"exec"})
                                   \cup IF proc' = "running" THEN {"process"} ELSE {}]
  /\ UNCHANGED <<cancel, chan, received, readVars, want, pipe, wrote>>

(* The wait for the process comes first, the readers after it. *)
SpawnReadersLate ==
  /\ epc = "spawn" /\ proc = "exited"
  /\ epc' = "wait"
  /\ rd' = [s \in Streams |-> "check"]
  /\ UNCHANGED <<cancel, chan, received, got, result, procVars>>

SpawnReaders ==
  /\ epc = "spawn"
  /\ epc' = "wait"
  /\ rd' = [s \in Streams |-> "check"]
  /\ UNCHANGED <<cancel, chan, received, got, result, procVars>>

(* containerWait. *)
WaitOk ==
  /\ epc = "wait" /\ proc = "exited"
  /\ epc' = "join"
  /\ UNCHANGED <<cancel, chan, received, readVars, procVars>>

(* A failed wait that leaves the readers alone. *)
WaitFailNoCancel ==
  /\ epc = "wait"
  /\ epc' = "err"
  /\ UNCHANGED <<cancel, chan, received, readVars, procVars>>

(* It fails, at the latest after LONG_TIMEOUT: the readers are told and    *)
(* left to themselves.                                                     *)
WaitFail ==
  /\ epc = "wait"
  /\ cancel' = TRUE /\ epc' = "err"
  /\ UNCHANGED <<chan, received, readVars, procVars>>

------------------------------------------------------------------------------
(* join_exec_readers. *)

AllSent == chan = {} /\ \A s \in Streams : rd[s] \in {"sent", "panicked"}

(* A message of either loop; the last one decides.  The exit code of the   *)
(* reply may be missing.                                                   *)
Recv(s) ==
  /\ epc \in {"join", "drain"} /\ s \in chan
  /\ chan' = chan \ {s} /\ received' = received \cup {s}
  /\ IF received' # Streams THEN UNCHANGED epc
     ELSE epc' \in (IF epc = "join" /\ \A t \in Streams : result[t] = "some"
                    THEN {"ok", "err"} ELSE {"err"})
  /\ UNCHANGED <<cancel, readVars, procVars>>

(* After the time limit the result so far is returned. *)
JoinTimeoutGivesPart ==
  /\ epc = "join" /\ chan = {} /\ received # Streams /\ ~AllSent
  /\ cancel' = TRUE /\ epc' = "ok"
  /\ UNCHANGED <<chan, received, readVars, procVars>>

(* recv_timeout finds nothing within the limit: the readers are cancelled  *)
(* and waited for without a limit.                                         *)
JoinTimeout ==
  /\ epc = "join" /\ chan = {} /\ received # Streams /\ ~AllSent
  /\ cancel' = TRUE /\ epc' = "drain"
  /\ UNCHANGED <<chan, received, readVars, procVars>>

(* Both senders are gone and a result is missing. *)
Disconnected ==
  /\ epc \in {"join", "drain"} /\ AllSent /\ received # Streams
  /\ epc' = "err"
  /\ UNCHANGED <<cancel, chan, received, readVars, procVars>>

------------------------------------------------------------------------------
(* read_file_to_vec_cancellable, and the send that follows it. *)

(* The thread returns from the function: its file is closed. *)
Finish(s, r) ==
  /\ rd' = [rd EXCEPT ![s] = "send"]
  /\ result' = [result EXCEPT ![s] = r]

Goes(s, p) == rd' = [rd EXCEPT ![s] = p] /\ UNCHANGED result

CheckCancel(s) ==
  /\ rd[s] = "check"
  /\ IF cancel THEN Finish(s, "cancelled") ELSE Goes(s, "poll")
  /\ UNCHANGED <<execVars, got, procVars>>

(* Readable or hung up, 100 ms without either, or an error. *)
Poll(s) ==
  /\ rd[s] = "poll"
  /\ \/ (pipe[s] > 0 \/ holders[s] = {}) /\ Goes(s, "read")
     \/ pipe[s] = 0 /\ holders[s] # {} /\ Goes(s, "check")
     \/ Finish(s, "error")
  /\ UNCHANGED <<execVars, got, procVars>>

(* Without a limit. *)
ReadUnlimited(s) ==
  /\ rd[s] = "read"
  /\ \/ \E n \in 1..pipe[s] :
          /\ got' = [got EXCEPT ![s] = @ + n]
          /\ pipe' = [pipe EXCEPT ![s] = @ - n]
          /\ Goes(s, "check")
     \/ /\ pipe[s] = 0 /\ holders[s] = {}
        /\ Finish(s, "some") /\ UNCHANGED <<got, pipe>>
     \/ Finish(s, "error") /\ UNCHANGED <<got, pipe>>
  /\ UNCHANGED <<execVars, proc, want, holders, wrote>>

(* A chunk, the end of the file, an error; too much is an error as well. *)
Read(s) ==
  /\ rd[s] = "read"
  /\ \/ \E n \in 1..pipe[s] :
          /\ got' = [got EXCEPT ![s] = @ + n]
          /\ pipe' = [pipe EXCEPT ![s] = @ - n]
          /\ IF got[s] + n > MAX_OUTPUT_SIZE THEN Finish(s, "error")
             ELSE Goes(s, "check")
     \/ /\ pipe[s] = 0 /\ holders[s] = {}
        /\ Finish(s, "some") /\ UNCHANGED <<got, pipe>>
     \/ Finish(s, "error") /\ UNCHANGED <<got, pipe>>
  /\ UNCHANGED <<execVars, proc, want, holders, wrote>>

(* A signal interrupts poll or read: the loop starts again. *)
Interrupted(s) ==
  /\ rd[s] \in {"poll", "read"}
  /\ Goes(s, "check")
  /\ UNCHANGED <<execVars, got, procVars>>

Send(s) ==
  /\ rd[s] = "send"
  /\ chan' = chan \cup {s}
  /\ rd' = [rd EXCEPT ![s] = "sent"]
  /\ UNCHANGED <<epc, cancel, received, got, result, procVars>>

(* The thread dies without a message. *)
ReaderPanic(s) ==
  /\ rd[s] \in Reading
  /\ rd' = [rd EXCEPT ![s] = "panicked"]
  /\ UNCHANGED <<execVars, got, result, procVars>>

------------------------------------------------------------------------------
Exec ==
  \/ CreateProcess \/ StartProcess \/ SpawnReaders \/ WaitOk
  \/ JoinTimeout \/ Disconnected \/ \E s \in Streams : Recv(s)

Reader(s) == CheckCancel(s) \/ Poll(s) \/ Read(s) \/ Send(s)

Process == ProcExit \/ \E s \in Streams : ProcWrite(s)

Next ==
  \/ Exec \/ WaitFail
  \/ Process \/ Fork
  \/ \E s \in Streams :
       \/ Reader(s) \/ Interrupted(s) \/ ReaderPanic(s)
       \/ ChildWrite(s) \/ ChildClose(s) \/ DaemonClose(s)

(* Threads run and the time limit passes; the command comes to its end if  *)
(* its output is taken.  Signals do not interrupt every poll and every     *)
(* read.  The daemon and a child may keep a pipe for ever.                 *)
Fairness ==
  /\ WF_vars(Exec) /\ WF_vars(Process)
  /\ \A s \in Streams : /\ WF_vars(Reader(s))
                         /\ SF_vars(Poll(s)) /\ SF_vars(Read(s))

Spec == Init /\ [][Next]_vars /\ Fairness

------------------------------------------------------------------------------
(* Properties. *)

(* A reader keeps at most the limit and the chunk that exceeds it. *)
TypeOK ==
  /\ epc \in {"create", "start", "spawn", "wait", "join", "drain", "ok", "err"}
  /\ cancel \in BOOLEAN /\ chan \in SUBSET Streams /\ received \in SUBSET Streams
  /\ rd \in [Streams -> {"none"} \cup Reading \cup Finished]
  /\ got \in [Streams -> 0..(MAX_OUTPUT_SIZE + PipeCapacity)]
  /\ result \in [Streams -> {"none", "some", "cancelled", "error"}]
  /\ proc \in {"none", "running", "exited"}
  /\ want \in [Streams -> Nat] /\ wrote \in [Streams -> Nat]
  /\ holders \in [Streams -> SUBSET {"exec", "daemon", "process", "child"}]
  /\ pipe \in [Streams -> 0..PipeCapacity]

(* XpcClient::exec: an exec that succeeds returns the whole output of the   *)
(* command and of its children, of which none can write any more.          *)
OkIsComplete ==
  epc = "ok" => /\ proc = "exited"
                /\ \A s \in Streams : /\ got[s] = wrote[s] /\ want[s] = 0
                                      /\ got[s] <= MAX_OUTPUT_SIZE
                                      /\ holders[s] = {}

(* exec returns: output larger than a pipe blocks nobody for ever, and a    *)
(* write end that stays open ends in the time limit.                       *)
ExecReturns == <>(epc \in {"ok", "err"})

(* However exec ends, its reader threads end too and close their files.     *)
ReadersFinish ==
  \A s \in Streams :
    (epc \in {"ok", "err"}) ~> (rd[s] \in {"none", "sent", "panicked"})

==============================================================================
