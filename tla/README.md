# Verification of container-rs

TLA+ models, TLC runs and TLAPS proofs for `shiguredo/container-rs`, a Rust
library that starts containers for tests: through the Docker Engine API on Linux
and through Apple's `container` services (XPC) on macOS. Paths below are relative
to the crate (`src/src/...` in the repository tree); the modules name the functions
they translate and keep the names of the code where TLA+ allows it.

## 1. Inventory

| Component | State it keeps | Operations | Talks to |
|---|---|---|---|
| Container lifecycle (`runners/async_runner.rs`, `ContainerAsync`) | id, `dropped`, the handle itself | `AsyncRunner::start` (resolve, pull, create, copy, bootstrap, start, logs, extra hosts, ready sequence), `rollback_remove`, `cleanup_on_ready_failure`, `rm`, `rm_blocking`, `Drop` | clients, watchdog, log stream, wait strategies, `TESTCONTAINERS_COMMAND` |
| Restart and exit code (`async_container.rs`) | `WaitState {generation, exit_code}`, `log_source`, `log_stop`, waiter threads | `start`, `stop`, `exit_code`, `refresh_log_streams`, `reset_wait_state_and_respawn`, `spawn_exit_code_waiter` | clients, log stream |
| Linux log stream (`client/docker_log_stream.rs`) | two `SharedLogBuffer`s, `terminated`, `log_stop`, `demux_done`, `active_consumers`, readers' offsets | session thread (`run_log_session`), `append`, `read_at`, `poll_fill`, `SyncLogReader::read`, `stop`, `terminate_all`, consumer tasks | Docker daemon socket, tokio `Notify` |
| Watchdog (`watchdog.rs`, macOS, optional) | `REAPER` (stdin of the reaper), `SPAWN_FAILURES`; the reaper's list of ids | `register`, `try_spawn_reaper`, `write_id`, `REAPER_SCRIPT` | lifecycle (calls `register` after create), the `container` command |
| Docker client (`client/docker_client.rs`, `http_decode.rs`) | none between requests | one HTTP request per operation over a Unix socket; exec and its stream | daemon |
| XPC client (`client/xpc_client.rs`, `xpc/conn.rs`) | connection, exec reader threads | one XPC message per operation; exec with pipes | Apple services |
| Wait strategies (`wait/*.rs`) | matcher state, deadlines | `wait_until_ready` for log, exit, health, HTTP, command, duration | log readers, clients |
| Log lines (`logs/line.rs`, `logs/consumer*.rs`) | a partial line | `read_line_limited`, consumers | log readers |
| Blocking API (`runners/sync_runner.rs`, `containers/sync_container.rs`) | the shared tokio runtime (`Weak`/`Arc`) | wrappers over the async API, `Drop` | everything above |
| Requests and configuration (`containers/request.rs`, `image/*`, `client/container_cfg.rs`, `client/image_config.rs`, `ports.rs`, `mounts.rs`, `healthcheck.rs`, `env.rs`) | the request record | builders; translation to Docker JSON and to Apple's configuration; manifest choice | clients |
| Copy and archives (`copy.rs`, `client/docker_tar.rs`) | none | tar writing and reading | clients |
| Registry authentication (`client/registry_auth.rs`) | none | lookup in Docker's config file | Docker client |
| Errors, hosts, utilities (`error.rs`, `host.rs`, `util.rs`) | none | formatting, small helpers | all |

What is hard in this code:

* **Concurrency.** A log is written by one OS thread and read by async tasks and
  blocking threads through a mutex, two atomics and a `Notify`; a container is
  waited for by threads that outlive the run they were started for; `start`, `stop`
  and `exit_code` take `&self` and can run at once.
* **Failure and cancellation.** Every client call can fail, can succeed without the
  caller learning of it, and can be cut off because the future that awaits it is
  dropped, while the blocking request behind it goes on.
* **Ordering.** Old log delivery, the container and the new delivery are replaced
  one after the other; a rollback has to know how far things went.
* **Time limits.** `Drop` waits five seconds for a removal, `exit_code` five seconds
  for a code, log tasks are polled for one second; late answers must do no harm.
* **Process death.** The watchdog's promise is about a process that is gone.

What makes each component correct: nothing is orphaned and nothing is removed
against the user's wish (lifecycle); no exit code of an earlier run, one log
delivery, a live one while the container runs (restart); bytes in order, without
silent gaps, delivered and ended (log stream); what was registered is removed after
the process died (watchdog); a successful exec has the whole output and leaves no
thread behind (exec); a response is whole or an error, and no cut of a stream into
pieces changes what is made of it (HTTP, frames, lines, needle); a late XPC reply
neither touches freed memory nor leaks (XPC client); ready means that every condition
was true, and a wait ends (wait strategies); no setting is lost between builder and
daemon, whether the caller or the image brings it (configuration); of an index the
manifest is the right one, the command is the one documented, and the credentials are
those of the reference (image resolution); what is copied arrives whole, within its
limits, and leaves no temporary file but in the cases that are named (copy); the shared runtime is dropped once, outside of every
runtime (blocking API). The hazards behind these properties are listed, each at its
line, in `PROJECT.json`.

## 2. Modules

| Module | Models | Checked by | Proved in |
|---|---|---|---|
| `LogStream` | Linux log stream | `MCLogStream*.cfg` | `LogStreamProofs` |
| `Restart` | restart, exit code, log refresh, both platforms | `MCRestart*.cfg` | `RestartProofs` |
| `Lifecycle` | `AsyncRunner::start` to removal, both platforms, keep | `MCLifecycle.cfg` | `LifecycleProofs` |
| `ContainerContract` | what the user of `start()` may rely on (abstract) | `PROPERTY ContractSpec` of `Lifecycle` | `LifecycleProofs` (refinement) |
| `Watchdog` | watchdog feature | `MCCalls.cfg`, `MCWatchdogKill.cfg` | `ProcessProofs` |
| `MacExec` | exec on macOS with its pipes and reader threads | `MCMacExec.cfg` | `XpcProofs` |
| `XpcBridge` | one XPC request with its timeout, late reply and memory | `MCCalls.cfg` | `XpcProofs` |
| `SharedRuntime` | the runtime behind the blocking API | `MCCalls.cfg` | `ProcessProofs` |
| `ReadyWait` | ready sequence, wait strategies, exec around them | `MCCalls.cfg` (liveness), `MCParts.cfg` (safety) | `StartProofs` |
| `DockerWire` | HTTP responses and log frames over a socket | `MCParts.cfg` | `ReaderProofs` |
| `LogText` | lines of the consumers, needle of the log wait | `MCParts.cfg` | `ReaderProofs` |
| `ContainerSettings` | builder calls to create payload, both platforms | `MCParts.cfg` | `StartProofs` |
| `ImageResolve` | pull, credentials, manifest, command, volumes | `MCParts.cfg` | `StartProofs` |
| `CopyFiles` | copies in and out, archives, temporary files | `MCParts.cfg`, `MCCopyFiles.cfg` | `StartProofs` |

`MCCalls` and `MCParts` put several components into one model in which a variable
`part`, chosen at the start and never changed, says which of them moves; the others
keep their initial state. It is the sum of the components, not their product: they
share no variable, and every state of each is reached. `MCCalls` holds those that wait
for somebody (with fairness), `MCParts` those that turn something into something else.

Operators whose comment describes a faulty variant (`AppendUncounted`,
`PrepareNoRollback`, ...) stand next to the definition they vary. They are used by no
specification; replacing the definition by the variant must break the property
`PROJECT.json` names for it, which shows that the property depends on that code.

### LogStream

Bytes are their positions in their stream, so a buffer that loses, repeats or
reorders bytes shows it. A region under a lock is one step; between two lock
regions or atomics anything may happen.

| Model | Code |
|---|---|
| `buf`, `head`, `append`, `read_at` | `SharedLogBuffer` in drop-oldest mode |
| `dpc`: `StartOk`, `StartFail`, `CheckStop`, `Feed`, `FeedNotify`, `FeedDone`, `ReadData`, `ReadEof`, `ReadError` | `run_log_session`, `start_and_demux`, `read_and_validate_head`, `demux_loop`, `drain_decoded` |
| `Terminate`, `TerminateNotify`, `SetDemuxDone` | `TerminateOnDrop`, `terminate_all`, `LogStream::terminate` |
| `StopFlag`, `StopShutdown` | `DockerLogsHandle::stop` |
| `Poll`, `ReadBuffer`, `CheckTerminated`, `WakeAsync` | `LogReader::poll_fill`: register with `Notify`, look at the buffer, look at `terminated`, sleep |
| `WakeSync` | `SyncLogReader::read`, which polls every 50 ms |
| `Spawn`, `Panic`, `active` | `spawn_log_consumer_task`, `ConsumerFinishedOnDrop` |
| `Woken`, `DaemonWrite`, `DaemonClose` | external: tokio's `notify_waiters`, the daemon |

Frames are abstracted to how many bytes of each stream a decoded chunk carries.
`BoundAssumption` records that a chunk is never longer than the limit (the code
reads 8 KiB at a time and the limit is 8 MiB), so the branch of `append` that cuts
an oversized input is not taken.

### Restart

`run` numbers the runs of the container; an exit code is represented by the run it
belongs to, which is what `NoOldCode` is about. `platform` never changes and selects
the order of steps: Linux stops the old log session, starts the container, opens
a new session and then bumps the generation; macOS bootstraps, starts the process,
bumps, and replaces flag and file descriptors under separate locks. Every awaited
call of `start()` may fail or be dropped (`Abandon`), before or after the daemon has
acted. Waiter threads make their call at any later time (`WaiterCall`), and
`exit_code()` on macOS is six steps, with the five-second wait between the read of
the generation and the store. The commands of `exec_after_start` that end
`start()` touch none of this state.

### Lifecycle and ContainerContract

`pc[c]` is the await at which a call of `start()` stands, then where its handle is.
Each platform has its own order (`After`); a failing step goes to `rollback`
(`rollback_remove`) before `ContainerAsync::new` and to `cleanup`
(`cleanup_on_ready_failure`) after it. `Cancel` drops the future at any await.
`remover` is the removal thread of `Drop`. `keep` is `TESTCONTAINERS_COMMAND=keep`.
Three history variables name the exceptions to `NoOrphan`: `refused` (the daemon
refused a removal), `cut` (`start()` ended with no owner for what existed: the
answer to a create was lost on Linux, or its future was dropped before
`ContainerAsync::new`), and a `remover` still running after `Drop`'s five seconds.
`ContainerContract` is the user's view: a container is handed out only if it
exists, and disappears only after a failed start, a Drop or an `rm`, with keep only
after an `rm`.

### Watchdog

Several test processes share the daemon and the names. `register` is one step (it
runs under the `REAPER` mutex) whose outcomes are the ways spawning and writing can
go; `Reap` is the loop of the script after end of file. Keep mode is left out, since
then nothing is registered.

### MacExec

`epc` follows `XpcClient::exec` and `join_exec_readers`, `rd[s]` the thread that runs
`read_file_to_vec_cancellable` on stream `s`. A pipe is a number of bytes and the set
of those who hold its write end: the daemon, the process, a child of it, and exec
itself until it drops its copy. `want[s]` is what the process still has to write; a
write blocks on a full pipe and fails once the read end is closed. The daemon and the
child may keep a write end for ever, a wait may fail at any time, and a reader may
meet an error, a signal or a panic.

### XpcBridge

`bpc` is the blocking thread that runs `XpcClient::call` and the bridge in C: connect,
build the message, allocate the context with two references, send, wait on the
semaphore, unref, release the message, read the reply, drop the connection. `block`
is the reply block that a thread of the system runs once: retain the reply, signal,
unref. The two interleave freely, so the reply may come before, at or after the
timeout, or only when the connection is cancelled. `DropFuture` is the owner of the
future giving it up, while the thread goes on. Counted are references to the context,
the message and the reply, and the log descriptors that `XpcClient::logs` duplicates.

### SharedRuntime

A caller is a thread outside of any runtime, a thread inside a runtime of the
program, or the single worker of a shared runtime that is in a callback. `weak` is
`ASYNC_RUNTIME`, `arc` the reference a call holds, `owned` the references of the
`Container`s alive. `GetSharedRuntime` is under the mutex; `BlockOnRuntime`,
`CallReturns`, `DropContainer`, `DropSharedRuntime` and `HelperDrops` follow
`block_on_runtime` and `drop_shared_runtime`, which moves the drop to a helper thread
when it happens inside a runtime. `WorkerStops` is tokio's promise that the drop of a
runtime waits for its worker.

### ReadyWait

`phase` is where `run_ready_sequence` stands, `conds` the conditions left, `log`,
`exec` and `command` the state of a log wait and of an exec. `box` is the container,
which prints, serves, becomes healthy, exits and has its exit code recorded at any
moment between two steps of a wait. `LogRound`, `LogRead` and `LogCheck` are the
parts of a round of the log wait: it starts its sum over, reads one stream after the
other, and then holds, goes on, or gives up, the last only after an earlier round
without progress had already found the container or its log at its end. `StartupTimeout` cuts the conditions of start, and those of a command that
start executes. The command itself is not under that limit; it ends some time.

### DockerWire

The wire carries interim heads, the head, the body byte by byte and the last chunk;
a read takes any number of them and the connection may end or fail after any.
`ReadSocket`, `DecodeHeaders`, `DrainBody`, `FeedReturns` are `read_http11_response`
over `ResponseAccumulator`, for the three `BodyLimit`s and the three ways to frame a
body. `DrainOneshot`, `TakeHeader`, `TakePayload`, `SliceDone` are the one-shot log
fetch over `FrameDemuxer`. The reference is `demux_exec_stream`, the code's own
demultiplexer of a whole body.

### LogText

`FillBuf`, `TakeLine`, `Discard`, `EndOfFile` are `read_line_limited` and the delivery
of what it returns, for the task on Linux and the one on macOS, which takes the
present end of a growing file for the end. The bytes after the last line feed are
delivered as one more line on both. `Feed` is a read of the log wait:
`StreamMatcher::feed` and `CollectedLogs::push`. The references are the lines, the
occurrences and the tail of the whole text.

### ContainerSettings

`calls` records the setters of `ImageExt` as they were called, `req` the request they
built, `told` what the daemon is sent. `StartLinux` is the refusal of unsupported
settings and the create body; `StartMac` is validation, `build_config` and the
resolution of host ports. `img` is what the image brings by itself: environment, mounts,
command, entrypoint, exposed ports, files to copy (which come before those of the
request) and conditions of readiness. The property compares `told` with `calls` and
`img`, and lets no capability through that was not asked for, by name or as privileged.

### ImageResolve

Each request to the daemon or to its content store is one step: describe, pull, index,
manifest, config, kernel, volumes. `Meddle` is another process that removes the image
or a volume, or pulls another platform, between two of them. `AuthsKey`,
`NormalizeImageReference`, `SelectManifest` and `EffectiveCommand` are operators,
compared with a ranking of manifests and with a rule for commands. `shape` is the type
of the image's descriptor: `ReadIndex` chooses a manifest of an index by platform, while
`UseDescriptor` takes an image that is a single manifest or a config as it is, with no
look at its platform, and refuses other types. The rule for commands is that of Docker
(`DockerCommand`) with one departure, stated apart (`KeptArguments`): under an entrypoint
of the user without a command the crate keeps the arguments of the image.

### CopyFiles

Sizes and the lengths of path components stand for contents and paths; blocks, the
limit of an archive and of a file, and the split of a long name into prefix and name
are the code's. A file may grow between `metadata` and the reading, by the amounts
`Growth`, past the limit for a file too; `buffers` are the sizes of the vectors it was
read into, which `ReadFileLimited` keeps to the limit and one byte. `write_copy_data_temp`
is two steps: `OpenCopyDataTemp` hands the opening to a thread of tokio's pool, which
creates the file at any later time (`BackgroundOpen`, external), and `GuardCopyDataTemp`
gives the file the guard that removes it and hands over the bytes. A `start()` dropped in
between leaves the file behind, an exception that `CopyDelivered` names.
`BackgroundWrite` is the thread that finishes a `write_all` later (external). `DropStart`
and `DropCopyFrom` drop the futures.

## 3. Runs

| Run | Instance | Shows |
|---|---|---|
| `log_safety` | 1 stream, an async and a blocking reader, limit 2, chunks up to 2, 3 bytes | `BufferIsWindow`, `NoSilentLoss`, `ConsumersCounted` with overflow, stop, errors, cancellation and panics |
| `log_liveness` | same readers, limit 1, 2 bytes | `StoredIsDelivered` (no lost wake-up), `ReadersEnd`, `StopEndsSession` |
| `log_eof_race` | as `log_safety` with 2 bytes | violated: `EofOnlyWhenDrained` |
| `restart_exit` | both platforms, a starter, an `exit_code` caller, 2 restarts | `NoOldCode`, `AnswerNotOld`, `CodeOfThisRunUnlessBroken` |
| `restart_logs` | both platforms, a starter, a stopper, 2 restarts | `OneDelivery`, `LogsFollowContainer`, `ExitObserved` |
| `restart_broken` | Linux, 1 restart | violated: `CodeOfThisRun` |
| `lifecycle` | both platforms, keep or not, 2 calls | `NoOrphan`, `OwnedIsThere`, `SessionEnds`, `KeepKeeps`, `ContractSpec`, `DropReturns` |
| `calls` | watchdog: 2 processes, 2 names, failure limit 2, a killed reaper per process; bridge: 2 requests; runtime: a thread outside, one inside a runtime, 3 runtimes, 2 containers; waits: every kind of end of the sequence | `KnownUnlessKilled`, `BridgeMemory`, `RuntimeDrop`, `DeadAreReaped`, `RequestsEnd`, `WaitEnds` |
| `watchdog_killed` | 1 process, 2 names | violated: `RegisteredIsKnown` |
| `parts` | bodies of 4 bytes, texts of 5, needles of 3, chains of 2 builder calls, 2 manifests, 2 sources to copy, every kind of condition | `ResponseWhole`, `DemuxFaithful`, `LinesFaithful`, `MatchesCounted`, `SettingsHonoured`, `ImageChosen`, `CopyDelivered`, `ReadySound` |
| `copy_unflushed` | one source | violated: `DataWhole` |
| `mac_exec` | pipes of 1 byte, limit 2, up to 4 bytes on stdout and 1 on stderr | `OkIsComplete`, `ExecReturns` (no deadlock over a full pipe, a time limit for a write end that stays open), `ReadersFinish` |

Why the bounds are enough. A buffer of two bytes and three written reaches every
relation of head, tail and a reader's offset, overflow in the middle of a read
included; the readers do not influence each other, and streams only share the
session thread. Two restarts give three generations, so a waiter can be two
generations late. The lifecycle calls are independent but for the process they
share, so two suffice. Two names and two processes let a name pass from one process
to the other and let a reaper know one container and miss another. Output of
`MacExec` may exceed the pipe with and without exceeding the limit.
A body of four bytes holds two headers of two bytes or a header and a payload, cut
anywhere, with limits below and above its length; a text of five bytes has two lines
over a limit of two bytes, or a needle of three that overlaps itself, again cut
anywhere. Two builder calls show every pair of settings that could disturb one
another, on top of images that bring their own; three host ports for at most three
mappings let a random choice meet a fixed one. Two manifests show each preference
against each other. An archive limit of five blocks is exceeded by one file, by a
directory of two files that each fit, and by a directory whose file grows; a growth of
ten takes a file that passed the check of its size beyond the limit while it is read. Two
XPC requests are independent and show it; three runtimes let a worker outlive two later ones. Where the
theorems of section 5 apply, the instance does not matter.
`CHECK_DEADLOCK FALSE` is set because every one of these systems may come to rest:
a container that is gone, a session that has ended, a process that has exited.

### What the violated properties say

* `EofOnlyWhenDrained` (comment on `LogReader`: end of file means "buffer empty and
  terminated"): `poll_fill` and `SyncLogReader::read` look at the buffer under its
  lock and at `terminated` after releasing it. If the session thread stores its last
  chunk and terminates in between, the reader reports the end with bytes unread.
* `CodeOfThisRun` (doc of `exit_code`: `None` while the container has not ended):
  on Linux the generation is bumped only after `refresh_log_streams` succeeded, but
  that function starts the container. If the log session cannot be opened afterwards,
  or the future is dropped, the previous run's code stays and is returned. Without
  such a failure the property holds (`CodeOfThisRunUnlessBroken`).
* `RegisteredIsKnown` (module doc of the watchdog: the registered containers are
  removed): after a reaper was killed the next registration starts a new one that is
  told only the new id. As long as no reaper is killed the property holds
  (`KnownUnlessKilled`).
* `DataWhole` (doc of `copy_to_sources`: data is written to a temporary file and then
  copied): `write_copy_data_temp` does not flush the tokio file after `write_all`, so
  the copy can read the file before a background thread has written it, and start
  goes on with a short file in the container. `CopyDelivered` holds for everything
  else.

Where documents and code disagree without a run of its own, the passing property states
what the code does:

* `docs/TESTCONTAINERS.md:147` and `skills/shiguredo-container/SKILL.md:73` say that on
  Linux what follows the last line feed of a log is discarded ("終端後の非改行残余は破棄").
  `spawn_log_consumer_task` (`client/docker_log_stream.rs:1174`) delivers it as one more
  frame, as its own comment and `LinesFaithful` say.
* The doc of `effective_command` (`client/image_config.rs:22`) says that it follows
  Docker. Under an entrypoint of the user without a command it keeps the arguments of the
  image, which Docker drops; `issues/closed/0124-bug-macos-empty-image-entrypoint.md:25`
  knows of the difference and keeps it. `ImageChosen` states the command as Docker's plus
  `KeptArguments`.
* The comment in `write_copy_data_temp` (`runners/async_runner.rs:781`) says that the file
  has its guard as soon as it exists. It exists some time before the awaited `open`
  returns, and a `start()` dropped in that time leaves it; `CopyDelivered` names the case.
* The header of `wait/mod.rs` says that a log wait on Linux has no log to read and ends
  at its limit, which the code has outgrown.

One leak is an exception that `BridgeMemory` names: descriptors of `XpcClient::logs` on
their way to a future that was dropped belong to nobody and stay open.

## 4. Fairness

* `LogStream`: the session thread, the readers' wake-ups and their steps are weakly
  fair: an OS thread runs, a notified task is polled, a 50 ms sleep ends. A consumer's
  panic, the daemon's writes, its closing the connection and the caller's `stop` are
  not required. `StopEndsSession` assumes the cloned socket, as the code does.
* `Restart`: waiter threads and a `start()` under way go on, since the calls they
  make answer or time out. The container's exit and the user's calls are not required.
* `Lifecycle`: only `Drop`, the removal thread and the end of the wait are fair:
  `remove_blocking` and `recv_timeout` are bounded. Nothing is assumed of `start()`.
* `Watchdog`: the shell of a reaper runs on after its process died.
* `XpcBridge`: the calling thread goes on and its wait ends by its timeout. The reply
  block has to go on once it has begun; a pending one only has to begin when the
  connection has been released, since the system then runs it with an error. A daemon
  may never answer.
* `ReadyWait`: a task that can go on is polled, the startup timer fires, and a command
  that is executed ends. Nothing is assumed of the container, and nothing of the
  strategies, so that `WaitEnds` rests on the timer alone.
* `SharedRuntime`, `DockerWire`, `LogText`, `ContainerSettings`, `ImageResolve` and
  `CopyFiles` have safety properties only.
* `MacExec`: threads run, the join's time limit passes, and the command ends if its
  output is taken. `poll` and `read` are strongly fair, since a signal may send them
  back to the top of the loop, but not every time. The failure of `containerWait`,
  which its time limit would force, is not fair: exec has to return without it.

## 5. Theorems

All proofs are checked by TLAPS to the last leaf and hold for every value of the
constants under the named assumptions of the component modules.

**LogStreamProofs** (`StreamAssumption`, `ReaderAssumption`, `BoundAssumption`).
`TypeCorrect`, `BufferWindow`, `NoLossUnwarned`, `ConsumersExact`. `BufferIsWindow` is not inductive:
what is appended comes from `got` and `chunk`, so the invariant adds `Fed` (the byte
after the buffer is the first one not fed yet: `End(s) = got[s] - chunk[s]`), the
window as an equality of functions, and for each reader that it has delivered no byte
at or beyond its offset, in order, and exactly the bytes before it if it never warned.
The lemmas `PushWindow`, `CutWindow`, `AppendWindow`, `ReadWindow` and `DeliverMore`
state what the buffer operations do to windows; the only actions that move bytes
(`Feed`, `ReadData`, `ReadBuffer`) get a lemma each. `ConsumersCounted` is inductive
given the types: `ConsumerJoins`, `ConsumerLeaves` and `ConsumersStay` are the three
things that can happen to the set that is counted.

**RestartProofs** (`RestartAssumption`). `OldCodeNeverRecorded` (`NoOldCode`),
`OldCodeNeverReturned` (`AnswerNotOld`), `TypeCorrect` and `CodeIsOfThisRun`
(`CodeOfThisRunUnlessBroken`), for any numbers of starters, stoppers, askers and
restarts. A code is stored only under the current generation; the invariant says that a
waiter or an asker of the current generation targets a run not older than the last bump,
which is true because its call is made after that bump and `run` never decreases, and
that a recorded code is not older than the last bump either. That the generation stays
within its bound is a count: `Counted` adds the `start()` calls that have yet to bump.
`RunInv` says which starters may have begun a run that no bump knows of.
`OneDeliveryForOneStarter` and `LogsFollowForOneStarter` (`OneDelivery`,
`LogsFollowContainer`) assume `OneStarter`, that calls of `start()` do not overlap, since
two that do may leave two deliveries (a hazard of `PROJECT.json`); stops and exit code
questions are any number. One delivery at a time does not mean that a line comes
once: on Linux each session asks for the whole log (`tail=all`), so lines of earlier runs
come again after a restart. `LogInv` says that the only delivery not told to stop is the
one the handle names, and at each place of `start()` which delivery is stopped already
and which is still unused.

**LifecycleProofs** (`PlatformAssumption`). `TypeCorrect`, `NothingOrphaned`,
`HandedOutExists`, `SessionsEnd`, `Refinement` (`Spec => ContractSpec`) and
`KeepIsKept`. `NoOrphan` speaks only of calls that are over; the invariant
says for every place of a call whether the container exists (`Held`), who is about
to remove it (`OwnerInv`), what has been returned (`ReturnInv`) and whether a log
session may run (`LogInv`). The refinement maps each step to a step of the contract
or to none (`ContractStep`), with `OnePhase` for the calls that do not move;
`KeepIsKept` then follows from the contract alone.

**XpcProofs**. For `MacExec` (`CapacityAssumption`): `TypeCorrect` and
`SuccessIsComplete` (`OkIsComplete`). The invariant adds that every byte is read or still
in its pipe (`NoByteLost`), that a running process holds both write ends (`Holding`),
that a process which exits while its output is taken has written all of it
(`ExitIsLast`), and what a reader knows at the end of the file (`EndOfFile`): the pipe is
empty and nobody can write to it again. For `XpcBridge` (no assumption: any set of
requests): `LateReplyIsSafe` (`BridgeMemory`). That the context is live follows only if
its count is the number of parties that hold it; `Counts` says who accounts for every
reference, `Stages` what can be held where, and `FrameKeeps` that a step of one request
leaves the others alone.

**ProcessProofs**. For `Watchdog` (`NobodyAssumption`, `LimitAssumption`): `TypeCorrect`
and `ReaperKnows` (`KnownUnlessKilled`). A `register` that spawns starts from an empty
list, which is right only if nothing was registered before; `OneReaper` says that a
process whose reaper nobody killed still has the reaper that read its first id.
`RegisterOutcome` states once what a registration may bring about. For `SharedRuntime`
(`RuntimeAssumption`): `DropIsOrderly` (`RuntimeDrop`). `Ages` adds that runtimes are
built in order, that the `Weak` is the latest and that a runtime is up exactly while
somebody holds it; `Places` that a worker only calls from a callback and then deals with
its own runtime or a later one, which is why the waits have no cycle but the documented
one.

**InductionFacts**. `Least`, `Upwards` and `Downwards`: induction over the numbers up to
a bound, stated of a set where the library's theorems take an operator, and proved from
the well-foundedness of `<`. With them the recursive functions of the models can be
reasoned about: that such a function exists, and satisfies its equation, is one induction
(`DemuxExists`, `LinesExist`, `FlatExists`, `PickExists`, `SumsExist` and others), and
what it computes is another.

**ReaderProofs** (`TextAssumption`, `WireAssumption`). `MatchesExact` (`MatchesCounted`):
for any log, needle and cut. The invariant says what is carried over, the last
`Len(pattern) - 1` bytes read; `OccurrencesSplit` then divides the occurrences in a longer
prefix into those of the shorter one and those of the carried bytes and the piece, and
`PushKeepsSuffix` does the same for the collected tail. `LinesAreFaithful`
(`LinesFaithful`): for any log, cut and limit. `LineInv` names the place `b` behind which
the current line begins: what has been delivered is the lines of the text up to `b`, and
the current line is put together (`Plain`), over the limit and being discarded (`Cut`) or
delivered at the end of the file (`Flushed`); where a pause of the macOS task has split a
line, `LettersKept` still says that no letter of a short line is lost. `LinesSplit`, that
the lines of a text split where a line begins, and `LettersConcat` are the inductions it
rests on. `ResponseIsWhole` (`ResponseWhole`): `BodySoFar` says that `body_buf` is what was
consumed of the body, cut by `Truncate` alone, wherever the connection ends.
`DemuxIsFaithful` (`DemuxFaithful`): `DemuxSoFar` says that what a `FrameDemuxer` has delivered, followed by what
`demux_exec_stream` makes of the rest from the place where it stands, is what
`demux_exec_stream` makes of the whole.

**StartProofs** (`ImageAssumption`, `WaitAssumption`, `ConditionsAssumption`,
`CopyAssumption`, `SettingsAssumption`).
`ImageIsTheOneAsked` (`ImageChosen`): the invariant keeps what was decided before the
container is created, that the one pull is behind start (`PulledOnce`), that the key is
that of the reference (`KeyOfReference`), that the manifest is still the one the index
gives (`Selected`), although others change the store meanwhile. The platform is claimed of
indexes only, since nothing compares it for other images; the command is `DockerCommand`
followed by `KeptArguments`. `ReadyMeansReady`
(`ReadySound`): a condition was found to hold some time ago; `CountInv` says that no round
of the log wait counts a match that was not printed on a stream it has read, `HeldInv`
and `TrueStays` that what was found stays true. `FilesAreDelivered` (`CopyDelivered`):
`CopyArrived` says of an archive that is built but not sent what the property says of
what has arrived, `TempOwned` where a temporary file may be with and without its guard,
`BuffersBounded` that no file is read beyond the limit and one byte, and `SplitUstarPath` and the sums over sizes get lemmas by induction.
`SettingsAreHonoured` (`SettingsHonoured`): for chains of any number of calls. The
property compares the payload with the calls, and `RequestInv` says what the request has
of them on the way: the last value of a setting that is overwritten, all values of one
that is added to, in order, and nothing of what was not asked for, where the default or
the image's own value stays (`DefaultsKept`). `OneMoreCall` (by
induction over the calls) is what a call adds to each setting, `LinuxBodyHas` and
`MacBodyHas` are what each payload has under each name, and `PublishedIs` (by induction
over the exposed ports) and `PortsDiffer` are about the ports.

Working on these proofs corrected the models in four places. `BeginExec` of `ReadyWait`
forgot the command of an exec that was refused, which the code keeps. The ranking that
`ImageChosen` compares with was a `CASE` whose arms overlapped, and so chose between
preferences without saying which; it is now a chain of conditions in the order of
`select_manifest`. And the targets of copies have to be paths with at least one
component, none of them empty, for the lengths of the two halves of a name to add up.
`Published` compared an exposed port with the mapped ports only, where the code compares
it with all ports so far; images that expose a port twice are now among the inputs.

Only model-checked: all liveness (`StoredIsDelivered`, `ReadersEnd`, `StopEndsSession`,
`ExitObserved`, `DropReturns`, `DeadAreReaped`, `RequestsEnd`, `WaitEnds`, `ExecReturns`,
`ReadersFinish`), since fairness and `ENABLED` are out of the prover's reach.
Every safety property of a passing run has a theorem, `OneDelivery` and
`LogsFollowContainer` for one starter.

## 6. Not modelled

* Read-only queries of the clients (ports, addresses, `container_env`, host detection),
  the parsing of container snapshots and of network interfaces: no state is kept and
  the answer is passed on.
* The methods of the blocking `Container` one by one: each is `block_on_runtime` of the
  async method, and `block_on_runtime` is what `SharedRuntime` models.
* Encodings: header fields of tar (checksum, mode, octal numbers), Base64, JSON, the
  fields of XPC dictionaries, and the numbers of a setting (sizes, durations, modes),
  which are values that are only passed on.
* Pause and unpause (forwarded, no state kept), error types and their texts, host and
  name helpers, and consumers: what they do with a line is the program's.
* A consumer task that is cancelled before its first poll: its count is then never given
  back, which the comment at `client/docker_log_stream.rs:460` accepts because nobody is
  left to read the count. And a decoded chunk longer than the log buffer, which no read
  can produce.
* The HTTP request of the HTTP wait: it succeeds, or is tried again until the limit.
* The daemons, tokio and the operating system, which appear only as far as the code
  uses them and are marked external in `PROJECT.json`.

Open ends: two concurrent calls of `start()` on one container in the runs (the
theorems about exit codes hold for any number, those about log deliveries for one), and a
composition of `Lifecycle` with `CopyFiles` and `ReadyWait` in place of its single steps.
