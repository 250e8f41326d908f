------------------------------- MODULE Restart -------------------------------
(***************************************************************************)
(* Stopping and restarting a container behind one ContainerAsync,          *)
(* src/core/containers/async_container.rs: start, stop_with_timeout,       *)
(* exit_code, the threads that wait for the exit code (WaitState,          *)
(* spawn_exit_code_waiter) and the replacement of the log delivery         *)
(* (refresh_log_streams).                                                  *)
(*                                                                         *)
(* All of them take &self and run concurrently.  An exit code is modelled  *)
(* by the number of the run it belongs to, so that a code of an earlier    *)
(* run is recognised.  Every await, lock region and thread hand-over is a  *)
(* step of its own.                                                        *)
(***************************************************************************)
EXTENDS Integers, FiniteSets

CONSTANTS
  Platforms,    \* the platforms considered, of "linux" and "macos"
  Starters,     \* concurrent callers of start()
  Stoppers,     \* concurrent callers of stop_with_timeout()
  Askers,       \* concurrent callers of exit_code()
  MaxRestarts   \* bound of the model: calls of start() that find it stopped

None == -1      \* Option::None; also ContainerLogSource::None

ASSUME PlatformAssumption == Platforms \subseteq {"linux", "macos"}
ASSUME RestartAssumption  == MaxRestarts \in Nat

Gens == 0..MaxRestarts
Codes == {None} \cup Nat

VARIABLES
  platform,     \* the target_os the crate was built for
  (* The container, kept by the daemon (external). *)
  running,      \* the init process runs
  run,          \* the number of its current or last run
  (* WaitState *)
  generation, exitCode,
  (* The waiter thread of each generation. *)
  waiter,       \* none, spawned, waiting, got, done or failed
  target,       \* the run its wait call is about
  (* Log delivery: numbered handles (Linux) or FD pairs (macOS). *)
  source,       \* log_source
  flag,         \* the delivery that log_stop / the handle stops
  stopped,      \* deliveries told to stop
  handles,      \* deliveries made so far
  delivering,   \* deliveries whose consumers were spawned
  (* Callers. *)
  spc,          \* where each start() is
  held,         \* old_handle, then the new one
  tpc,          \* where each stop_with_timeout() is
  apc,          \* where each exit_code() is
  askGen,       \* the generation it read
  askRun,       \* the run its wait call is about
  answer,       \* what it returned last
  (* History. *)
  starts,       \* start() calls that went past the check
  bumpedAt,     \* the run in place at the last bump
  broken,       \* a start() gave up after it had started the container
  stopFailed,   \* a stop of the container failed
  floor         \* bumpedAt when each exit_code() gave its answer

contVars   == <<running, run>>
waitVars   == <<generation, exitCode, bumpedAt>>
waiterVars == <<waiter, target>>
logVars    == <<source, flag, stopped, handles, delivering>>
startVars  == <<spc, held, starts, broken>>
stopVars   == <<tpc, stopFailed>>
askVars    == <<apc, askGen, askRun, answer, floor>>
vars == <<platform, contVars, waitVars, waiterVars, logVars, startVars, stopVars,
          askVars>>

Linux == platform = "linux"

(* A container that AsyncRunner::start has just returned: delivery 0 may   *)
(* be missing (logs() failed and nothing needs it).                        *)
Init ==
  /\ platform \in Platforms
  /\ running = TRUE /\ run = 0
  /\ generation = 0 /\ exitCode = None /\ bumpedAt = 0
  /\ waiter = [g \in Gens |-> IF g = 0 THEN "spawned" ELSE "none"]
  /\ target = [g \in Gens |-> 0]
  /\ source \in {None, 0} /\ flag = (IF Linux THEN source ELSE 0)
  /\ stopped = {} /\ handles = 1 /\ delivering = {source} \ {None}
  /\ spc = [c \in Starters |-> "idle"] /\ held = [c \in Starters |-> None]
  /\ starts = 0 /\ broken = FALSE
  /\ tpc = [c \in Stoppers |-> "idle"] /\ stopFailed = FALSE
  /\ apc = [c \in Askers |-> "idle"] /\ askGen = [c \in Askers |-> 0]
  /\ askRun = [c \in Askers |-> 0] /\ answer = [c \in Askers |-> None]
  /\ floor = [c \in Askers |-> 0]

------------------------------------------------------------------------------
(* The container. *)

Exit ==
  /\ running
  /\ running' = FALSE
  /\ UNCHANGED <<platform, run, waitVars, waiterVars, logVars, startVars,
                 stopVars, askVars>>

(* A wait call made during run r returns once that run is over. *)
Over(r) == r < run \/ ~running

------------------------------------------------------------------------------
(* WaitState. *)

(* store_if_current without the comparison. *)
CurrentAlways(g) == TRUE

(* store_if_current: whether generation g may record its code. *)
Current(g) == g = generation

store_if_current(g, code) == IF Current(g) THEN code ELSE exitCode

------------------------------------------------------------------------------
(* The waiter threads: spawn_exit_code_waiter.                             *)

WaiterCall(g) ==
  /\ waiter[g] = "spawned"
  /\ waiter' = [waiter EXCEPT ![g] = "waiting"]
  /\ target' = [target EXCEPT ![g] = run]
  /\ UNCHANGED <<platform, contVars, waitVars, logVars, startVars, stopVars,
                 askVars>>

WaiterReturn(g) ==
  /\ waiter[g] = "waiting" /\ Over(target[g])
  /\ waiter' = [waiter EXCEPT ![g] = "got"]
  /\ UNCHANGED <<platform, contVars, waitVars, target, logVars, startVars,
                 stopVars, askVars>>

(* A failed wait is dropped silently. *)
WaiterFail(g) ==
  /\ waiter[g] = "waiting"
  /\ waiter' = [waiter EXCEPT ![g] = "failed"]
  /\ UNCHANGED <<platform, contVars, waitVars, target, logVars, startVars,
                 stopVars, askVars>>

WaiterStore(g) ==
  /\ waiter[g] = "got"
  /\ exitCode' = store_if_current(g, target[g])
  /\ waiter' = [waiter EXCEPT ![g] = "done"]
  /\ UNCHANGED <<platform, contVars, generation, bumpedAt, target, logVars,
                 startVars, stopVars, askVars>>

------------------------------------------------------------------------------
(* start().                                                                *)

(* container_state: only a stopped container is restarted. *)
StartCheck(c) ==
  /\ spc[c] = "idle" /\ ~running /\ starts < MaxRestarts
  /\ starts' = starts + 1
  /\ spc' = [spc EXCEPT ![c] = IF Linux THEN "stopOld" ELSE "bootstrap"]
  /\ UNCHANGED <<platform, contVars, waitVars, waiterVars, logVars, held,
                 broken, stopVars, askVars>>

(* refresh_log_streams (Linux) that takes the handle without looking. *)
StopOldUnwraps(c) ==
  /\ spc[c] = "stopOld"
  /\ held' = [held EXCEPT ![c] = source]
  /\ stopped' = stopped \cup {source}
  /\ spc' = [spc EXCEPT ![c] = "startContainer"]
  /\ UNCHANGED <<platform, contVars, waitVars, waiterVars, delivering, source,
                 flag, handles, starts, broken, stopVars, askVars>>

(* refresh_log_streams (Linux) that leaves the old session alone. *)
StopOldNot(c) ==
  /\ spc[c] = "stopOld"
  /\ held' = [held EXCEPT ![c] = source]
  /\ spc' = [spc EXCEPT ![c] = "startContainer"]
  /\ UNCHANGED <<platform, contVars, waitVars, waiterVars, logVars, starts,
                 broken, stopVars, askVars>>

(* refresh_log_streams (Linux): the old session is stopped first ... *)
StopOld(c) ==
  /\ spc[c] = "stopOld"
  /\ held' = [held EXCEPT ![c] = source]
  /\ stopped' = stopped \cup ({source} \ {None})
  /\ spc' = [spc EXCEPT ![c] = "startContainer"]
  /\ UNCHANGED <<platform, contVars, waitVars, waiterVars, delivering, source,
                 flag, handles, starts, broken, stopVars, askVars>>

(* ... then the container is started; 304 (already running) is a success.  *)
StartContainer(c) ==
  /\ spc[c] = "startContainer"
  /\ running' = TRUE
  /\ run' = IF running THEN run ELSE run + 1
  /\ spc' = [spc EXCEPT ![c] = "started"]
  /\ UNCHANGED <<platform, waitVars, waiterVars, logVars, held, starts,
                 broken, stopVars, askVars>>

(* spawn_log_session succeeds, or the container is to be stopped again. *)
SpawnSession(c) ==
  /\ spc[c] = "session"
  /\ \/ /\ held' = [held EXCEPT ![c] = handles]
        /\ handles' = handles + 1
        /\ spc' = [spc EXCEPT ![c] = "swap"]
     \/ /\ spc' = [spc EXCEPT ![c] = "rollback"]
        /\ UNCHANGED <<held, handles>>
  /\ UNCHANGED <<platform, contVars, waitVars, waiterVars, delivering, source,
                 flag, stopped, starts, broken, stopVars, askVars>>

(* Consumers respawned on the new session, log_source left as it was. *)
SwapKeepsSource(c) ==
  /\ spc[c] = "swap"
  /\ delivering' = delivering \cup {held[c]}
  /\ spc' = [spc EXCEPT ![c] = "bump"]
  /\ UNCHANGED <<platform, contVars, waitVars, waiterVars, source, flag,
                 stopped, handles, held, starts, broken, stopVars, askVars>>

(* log_source is replaced and the consumers respawned. *)
Swap(c) ==
  /\ spc[c] = "swap"
  /\ delivering' = delivering \cup {held[c]}
  /\ source' = held[c] /\ flag' = held[c]
  /\ spc' = [spc EXCEPT ![c] = "bump"]
  /\ UNCHANGED <<platform, contVars, waitVars, waiterVars, stopped, handles,
                 held, starts, broken, stopVars, askVars>>

(* macOS: containerBootstrap, then containerStartProcess. *)
Bootstrap(c) ==
  /\ spc[c] = "bootstrap"
  /\ spc' = [spc EXCEPT ![c] = "process"]
  /\ UNCHANGED <<platform, contVars, waitVars, waiterVars, logVars, held,
                 starts, broken, stopVars, askVars>>

StartProcess(c) ==
  /\ spc[c] = "process" /\ ~running
  /\ running' = TRUE /\ run' = run + 1
  /\ spc' = [spc EXCEPT ![c] = "started"]
  /\ UNCHANGED <<platform, waitVars, waiterVars, logVars, held, starts,
                 broken, stopVars, askVars>>

(* The answer arrives.  Without an old log session (Linux) none is made. *)
Started(c) ==
  /\ spc[c] = "started"
  /\ spc' = [spc EXCEPT ![c] = IF Linux /\ held[c] # None THEN "session"
                               ELSE "bump"]
  /\ UNCHANGED <<platform, contVars, waitVars, waiterVars, logVars, held,
                 starts, broken, stopVars, askVars>>

(* bump that forgets to clear the code. *)
BumpKeepsCode(c) ==
  /\ spc[c] = "bump"
  /\ generation' = generation + 1 /\ bumpedAt' = run
  /\ waiter' = [waiter EXCEPT ![generation + 1] = "spawned"]
  /\ spc' = [spc EXCEPT ![c] = IF Linux THEN "idle" ELSE "logs"]
  /\ UNCHANGED <<platform, contVars, exitCode, target, logVars, held, starts,
                 broken, stopVars, askVars>>

(* bump without a new waiter thread. *)
BumpNoWaiter(c) ==
  /\ spc[c] = "bump"
  /\ generation' = generation + 1 /\ exitCode' = None /\ bumpedAt' = run
  /\ spc' = [spc EXCEPT ![c] = IF Linux THEN "idle" ELSE "logs"]
  /\ UNCHANGED <<platform, contVars, waiterVars, logVars, held, starts,
                 broken, stopVars, askVars>>

(* reset_wait_state_and_respawn: bump() under the lock, then a new waiter  *)
(* thread, which may make its call at any time later.                      *)
Bump(c) ==
  /\ spc[c] = "bump"
  /\ generation' = generation + 1 /\ exitCode' = None /\ bumpedAt' = run
  /\ waiter' = [waiter EXCEPT ![generation + 1] = "spawned"]
  /\ spc' = [spc EXCEPT ![c] = IF Linux THEN "idle" ELSE "logs"]
  /\ UNCHANGED <<platform, contVars, target, logVars, held, starts, broken,
                 stopVars, askVars>>

(* refresh_log_streams (macOS): new FDs first, nothing changes if it fails *)
Logs(c) ==
  /\ spc[c] = "logs"
  /\ \/ /\ held' = [held EXCEPT ![c] = handles]
        /\ handles' = handles + 1
        /\ spc' = [spc EXCEPT ![c] = "flagOld"]
        /\ UNCHANGED stopped
     \/ /\ stopped' = stopped \cup {flag}          \* stop_with_timeout(Some(0))
        /\ spc' = [spc EXCEPT ![c] = "rollback"]
        /\ UNCHANGED <<held, handles>>
  /\ UNCHANGED <<platform, contVars, waitVars, waiterVars, delivering, source,
                 flag, starts, broken, stopVars, askVars>>

(* ... then the old stop flag is raised, the flag and the FDs replaced,    *)
(* each under a lock of its own.                                           *)
FlagOld(c) ==
  /\ spc[c] = "flagOld"
  /\ stopped' = stopped \cup {flag}
  /\ spc' = [spc EXCEPT ![c] = "flagNew"]
  /\ UNCHANGED <<platform, contVars, waitVars, waiterVars, delivering, source,
                 flag, handles, held, starts, broken, stopVars, askVars>>

FlagNew(c) ==
  /\ spc[c] = "flagNew"
  /\ flag' = held[c]
  /\ spc' = [spc EXCEPT ![c] = "source"]
  /\ UNCHANGED <<platform, contVars, waitVars, waiterVars, delivering, source,
                 stopped, handles, held, starts, broken, stopVars, askVars>>

SwapSource(c) ==
  /\ spc[c] = "source"
  /\ delivering' = delivering \cup {held[c]}
  /\ source' = held[c]
  /\ spc' = [spc EXCEPT ![c] = "idle"]
  /\ UNCHANGED <<platform, contVars, waitVars, waiterVars, flag, stopped,
                 handles, held, starts, broken, stopVars, askVars>>

(* The log delivery could not be replaced: the container is killed, or     *)
(* that fails too, and the error is returned.                              *)
Rollback(c) ==
  /\ spc[c] = "rollback"
  /\ running' \in {FALSE, running}
  /\ broken' = TRUE
  /\ spc' = [spc EXCEPT ![c] = "idle"]
  /\ UNCHANGED <<platform, run, waitVars, waiterVars, logVars, held, starts,
                 stopVars, askVars>>

(* An awaited call fails or its future is dropped, the call itself done    *)
(* or not: start() ends there.                                             *)
Abandon(c) ==
  /\ spc[c] \in {"startContainer", "bootstrap", "process", "started", "session",
                 "logs", "rollback"}
  /\ broken' = (broken \/ spc[c] \in {"started", "session", "logs", "rollback"})
  /\ spc' = [spc EXCEPT ![c] = "idle"]
  /\ UNCHANGED <<platform, contVars, waitVars, waiterVars, logVars, held,
                 starts, stopVars, askVars>>

------------------------------------------------------------------------------
(* stop_with_timeout(): the log delivery is stopped before the container.  *)

StopLogDelivery(c) ==
  /\ tpc[c] = "idle"
  /\ stopped' = stopped \cup ({flag} \ {None})
  /\ tpc' = [tpc EXCEPT ![c] = "client"]
  /\ UNCHANGED <<platform, contVars, waitVars, waiterVars, delivering, source,
                 flag, handles, startVars, stopFailed, askVars>>

StopClient(c) ==
  /\ tpc[c] = "client"
  /\ \/ running' = FALSE /\ UNCHANGED stopFailed
     \/ stopFailed' = TRUE /\ UNCHANGED running
  /\ tpc' = [tpc EXCEPT ![c] = "idle"]
  /\ UNCHANGED <<platform, run, waitVars, waiterVars, logVars, startVars,
                 askVars>>

------------------------------------------------------------------------------
(* exit_code().                                                            *)

(* A recorded code is returned; Linux knows no other. *)
AskCached(c) ==
  /\ apc[c] = "idle"
  /\ floor' = [floor EXCEPT ![c] = bumpedAt]
  /\ answer' = [answer EXCEPT ![c] = exitCode]
  /\ apc' = [apc EXCEPT ![c] = IF exitCode = None /\ ~Linux
                               THEN "state" ELSE "idle"]
  /\ UNCHANGED <<platform, contVars, waitVars, waiterVars, logVars, startVars,
                 stopVars, askGen, askRun>>

(* macOS: container_state, and if stopped one more wait of 5 seconds. *)
AskState(c) ==
  /\ apc[c] = "state"
  /\ apc' = [apc EXCEPT ![c] = IF running THEN "idle" ELSE "generation"]
  /\ UNCHANGED <<platform, contVars, waitVars, waiterVars, logVars, startVars,
                 stopVars, askGen, askRun, answer, floor>>

AskGeneration(c) ==
  /\ apc[c] = "generation"
  /\ askGen' = [askGen EXCEPT ![c] = generation]
  /\ apc' = [apc EXCEPT ![c] = "call"]
  /\ UNCHANGED <<platform, contVars, waitVars, waiterVars, logVars, startVars,
                 stopVars, askRun, answer, floor>>

AskCall(c) ==
  /\ apc[c] = "call"
  /\ askRun' = [askRun EXCEPT ![c] = run]
  /\ apc' = [apc EXCEPT ![c] = "wait"]
  /\ UNCHANGED <<platform, contVars, waitVars, waiterVars, logVars, startVars,
                 stopVars, askGen, answer, floor>>

(* The wait returns, or times out after 5 s and None is the answer. *)
AskReturn(c) ==
  /\ apc[c] = "wait" /\ Over(askRun[c])
  /\ apc' = [apc EXCEPT ![c] = "store"]
  /\ UNCHANGED <<platform, contVars, waitVars, waiterVars, logVars, startVars,
                 stopVars, askGen, askRun, answer, floor>>

AskTimeout(c) ==
  /\ apc[c] = "wait"
  /\ apc' = [apc EXCEPT ![c] = "idle"]
  /\ UNCHANGED <<platform, contVars, waitVars, waiterVars, logVars, startVars,
                 stopVars, askGen, askRun, answer, floor>>

(* Recording the code whatever the generation, and returning it. *)
AskStoreAnyway(c) ==
  /\ apc[c] = "store"
  /\ exitCode' = store_if_current(askGen[c], askRun[c])
  /\ answer' = [answer EXCEPT ![c] = askRun[c]]
  /\ floor' = [floor EXCEPT ![c] = bumpedAt]
  /\ apc' = [apc EXCEPT ![c] = "idle"]
  /\ UNCHANGED <<platform, contVars, generation, bumpedAt, waiterVars,
                 logVars, startVars, stopVars, askGen, askRun>>

AskStore(c) ==
  /\ apc[c] = "store"
  /\ exitCode' = store_if_current(askGen[c], askRun[c])
  /\ answer' = [answer EXCEPT ![c] = IF Current(askGen[c]) THEN askRun[c]
                                     ELSE None]
  /\ floor' = [floor EXCEPT ![c] = bumpedAt]
  /\ apc' = [apc EXCEPT ![c] = "idle"]
  /\ UNCHANGED <<platform, contVars, generation, bumpedAt, waiterVars,
                 logVars, startVars, stopVars, askGen, askRun>>

------------------------------------------------------------------------------
Start(c) ==
  \/ StopOld(c) \/ StartContainer(c) \/ SpawnSession(c) \/ Swap(c)
  \/ Bootstrap(c) \/ StartProcess(c) \/ Started(c) \/ Bump(c)
  \/ Logs(c) \/ FlagOld(c) \/ FlagNew(c) \/ SwapSource(c)
  \/ Rollback(c) \/ Abandon(c)

Wait(g) == WaiterCall(g) \/ WaiterReturn(g) \/ WaiterStore(g)

Next ==
  \/ Exit
  \/ \E g \in Gens : Wait(g) \/ WaiterFail(g)
  \/ \E c \in Starters : StartCheck(c) \/ Start(c)
  \/ \E c \in Stoppers : StopLogDelivery(c) \/ StopClient(c)
  \/ \E c \in Askers :
       \/ AskCached(c) \/ AskState(c) \/ AskGeneration(c) \/ AskCall(c)
       \/ AskReturn(c) \/ AskTimeout(c) \/ AskStore(c)

(* A thread runs, and a start() under way goes on: its calls answer or time *)
(* out.  The container's exit and the user's calls are not obliged.         *)
Fairness ==
  /\ \A g \in Gens : WF_vars(Wait(g))
  /\ \A c \in Starters : WF_vars(Start(c))

Spec == Init /\ [][Next]_vars /\ Fairness

------------------------------------------------------------------------------
(* Properties. *)

(* A start() between the restart of the container and the bump. *)
Restarting == {"started", "session", "swap", "bump", "rollback"}
InWindow(c) ==
  spc[c] \in (IF Linux THEN Restarting ELSE {"started", "bump"})
Quiet == \A c \in Starters : ~InWindow(c)
Deliveries == delivering \ stopped

TypeOK ==
  /\ platform \in Platforms
  /\ running \in BOOLEAN /\ run \in Nat
  /\ generation \in Gens /\ exitCode \in Codes /\ bumpedAt \in Nat
  /\ waiter \in [Gens -> {"none", "spawned", "waiting", "got", "done", "failed"}]
  /\ target \in [Gens -> Nat]
  /\ source \in Codes /\ flag \in Codes
  /\ stopped \in SUBSET Nat /\ handles \in Nat /\ delivering \in SUBSET Nat
  /\ spc \in [Starters -> {"idle", "stopOld", "startContainer", "bootstrap",
                           "process", "logs", "flagOld", "flagNew", "source"}
                          \cup Restarting]
  /\ held \in [Starters -> Codes] /\ starts \in Gens
  /\ broken \in BOOLEAN /\ stopFailed \in BOOLEAN
  /\ tpc \in [Stoppers -> {"idle", "client"}]
  /\ apc \in [Askers -> {"idle", "state", "generation", "call", "wait", "store"}]
  /\ askGen \in [Askers -> Gens] /\ askRun \in [Askers -> Nat]
  /\ answer \in [Askers -> Codes] /\ floor \in [Askers -> Nat]

(* WaitState::generation: whichever threads and calls are still waiting,    *)
(* no code of a run before the last restart is ever recorded.               *)
NoOldCode == exitCode # None => bumpedAt <= exitCode

(* exit_code(): a code it returns is not of a run before the last restart   *)
(* recorded when it returns, however long its own wait took.                *)
AnswerNotOld ==
  \A c \in Askers : answer[c] # None => floor[c] <= answer[c]

(* exit_code() "None while it has not ended": once start() is past the      *)
(* bump, a recorded code means the current run, and that it is over.        *)
CodeOfThisRun ==
  Quiet => (exitCode # None => exitCode = run /\ ~running)

(* The same as long as no start() gave up half way.                         *)
CodeOfThisRunUnlessBroken == ~broken => CodeOfThisRun

(* refresh_log_streams: at most one log delivery has not been told to       *)
(* stop, so consumers are fed by one at a time.  What it feeds them may be  *)
(* old: each session of Linux asks for the whole log (tail=all of           *)
(* start_and_demux), so after a restart the lines of earlier runs come      *)
(* again.                                                                   *)
OneDelivery == Cardinality(Deliveries) <= 1

(* refresh_log_streams: whenever nothing is under way and nothing failed,   *)
(* a running container that has logs has a live delivery as its source.     *)
LogsFollowContainer ==
  (/\ running /\ source # None /\ ~broken /\ ~stopFailed
   /\ \A c \in Starters : spc[c] = "idle"
   /\ \A c \in Stoppers : tpc[c] = "idle") => source \notin stopped

(* spawn_exit_code_waiter: when the container stops, the code is recorded   *)
(* unless the wait of the current generation failed.                        *)
ExitObserved ==
  ~running ~> (running \/ exitCode # None \/ waiter[generation] = "failed")

==============================================================================
