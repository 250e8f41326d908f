------------------------------ MODULE ReadyWait ------------------------------
(***************************************************************************)
(* Waiting until a container is ready: run_ready_sequence of               *)
(* src/runners/async_runner.rs (the commands before, the conditions under  *)
(* the startup timeout, the commands after), the strategies of             *)
(* src/core/wait, and exec of src/core/containers/async_container.rs with  *)
(* its own conditions and its command condition.                           *)
(*                                                                         *)
(* The container goes on by itself between any two steps of a wait: it     *)
(* prints, serves, becomes healthy or unhealthy, exits; the thread of      *)
(* Restart records its exit code some time after that.  Reading and        *)
(* matching of the log are LogText's, the execution of a command on macOS  *)
(* is MacExec's.                                                           *)
(***************************************************************************)
EXTENDS Naturals, Sequences, FiniteSets

CONSTANTS
  Codes,        \* exit codes
  Backoffs,     \* number of EXEC_EXIT_CODE_BACKOFF_MILLIS (5)
  MaxTimes,     \* bound of the model: times of a log condition, what is printed
  ReadyConditions,  \* bound of the model: ready_conditions of an image
  CmdConditions,    \* bound of the model: container_ready_conditions of a command
  MaxCommands   \* bound of the model: commands the image asks for

ASSUME WaitAssumption ==
  /\ "unknown" \notin Codes /\ Backoffs \in Nat
  /\ MaxTimes \in Nat \ {0} /\ MaxCommands \in Nat

Unknown == "unknown"
StdStreams == {"stdout", "stderr"}

(* WaitFor; with_times clamps to at least 1, and an empty message waits    *)
(* for nothing.                                                            *)
WaitFor ==
  [kind : {"nothing", "empty log", "duration", "health"}]
    \cup [kind : {"log"}, source : (SUBSET StdStreams) \ {{}}, times : 1..MaxTimes]
    \cup [kind : {"http"}, matcher : BOOLEAN]
    \cup [kind : {"exit"}, code : Codes \cup {Unknown}]

ASSUME ConditionsAssumption ==
  ReadyConditions \subseteq Seq(WaitFor) /\ CmdConditions \subseteq Seq(WaitFor)

(* CmdWaitFor; an ExecCommand also brings conditions of the container.     *)
CmdWaitFor ==
  [kind : {"nothing", "duration", "message"}]
    \cup [kind : {"exit"}, code : Codes \cup {Unknown}]

VARIABLES
  wos,       \* where it runs
  source,    \* the container has a log source
  phase,     \* before, waiting, after, ready, failed
  why,       \* the error
  asked,     \* the conditions that start has to wait for
  conds,     \* those still to wait for in the wait that is going on
  held,      \* those that were found to hold
  wait,      \* where the strategy of the next one is
  log,       \* LogWaitStrategy: the readers of this round, counts, total, exited_at
  seenRunning, \* HealthWaitStrategy
  exec,      \* the command: where it is, its conditions, tries, its exit code,
             \* the exit code it was required to have and passed with
  left,      \* commands that the image may still ask for
  (* The container and the command in it (external). *)
  box,       \* the container
  hint,      \* the exit code that the background wait has recorded
  command    \* the command of exec: running, ended with a code, recorded

waitVars == <<wos, source, phase, why, asked, conds, held, wait, log, seenRunning, exec, left, box,
              hint, command>>
envVars == <<box, hint, command>>

NoLog == [todo |-> {}, count |-> [s \in StdStreams |-> 0], total |-> 0,
          progressed |-> FALSE, exited |-> FALSE]
NoExec == [at |-> "none", conds |-> <<>>, tries |-> 0, code |-> Unknown, passed |-> Unknown]

RequireLog(cs) == \E i \in DOMAIN cs : cs[i].kind \in {"log", "empty log"}

(* start has refused conditions on the log of a container without one.     *)
WaitInit ==
  /\ wos \in {"linux", "macos"} /\ source \in BOOLEAN
  /\ phase = "before" /\ why = "none" /\ left = MaxCommands
  /\ asked \in {cs \in ReadyConditions : RequireLog(cs) => source}
  /\ conds = <<>> /\ held = {} /\ wait = "none" /\ log = NoLog /\ seenRunning = FALSE /\ exec = NoExec
  /\ box = [running |-> TRUE, code |-> Unknown, health |-> "none", healthy |-> FALSE,
            served |-> FALSE, logEnded |-> FALSE, printed |-> [s \in StdStreams |-> 0]]
  /\ hint = Unknown /\ command = [ended |-> TRUE, code |-> Unknown, recorded |-> TRUE]

Fail(error) == phase' = "failed" /\ why' = error
Cond == conds[1]
Holds == held' = held \cup {Cond} /\ conds' = Tail(conds) /\ wait' = "none"
Stays == UNCHANGED <<held, conds>>
Waiting == phase = "waiting" \/ exec.at = "conds"
------------------------------------------------------------------------------
(* The container.  What no condition at hand looks at does not change.     *)
Looks(kind) ==
  \E cs \in {IF phase = "before" THEN asked ELSE <<>>, conds, exec.conds} :
    \E i \in DOMAIN cs : cs[i].kind = kind

Prints ==
  /\ Looks("log") /\ box.running /\ ~box.logEnded
  /\ \E s \in StdStreams :
       box.printed[s] < MaxTimes /\ box' = [box EXCEPT !.printed[s] = @ + 1]
  /\ UNCHANGED <<hint, command>>

(* The session of LogStream is over, with the container or without it.     *)
LogEnds ==
  /\ Looks("log") /\ wos = "linux" /\ ~box.logEnded /\ box' = [box EXCEPT !.logEnded = TRUE]
  /\ UNCHANGED <<hint, command>>

Exits ==
  /\ Looks("exit") \/ Looks("log") \/ Looks("health")
  /\ box.running
  /\ \E c \in Codes : box' = [box EXCEPT !.running = FALSE, !.code = c]
  /\ UNCHANGED <<hint, command>>

Recorded ==
  /\ ~box.running /\ hint = Unknown /\ hint' = box.code
  /\ UNCHANGED <<box, command>>

Serves ==
  /\ Looks("http") /\ ~box.served /\ box.running /\ box' = [box EXCEPT !.served = TRUE]
  /\ UNCHANGED <<hint, command>>

HealthChanges ==
  /\ Looks("health") /\ box.running
  /\ \E h \in {"starting", "healthy", "unhealthy"} \ {box.health} :
       box' = [box EXCEPT !.health = h, !.healthy = @ \/ h = "healthy"]
  /\ UNCHANGED <<hint, command>>

CommandEnds ==
  /\ \/ ~command.ended /\ \E c \in Codes : command' = [command EXCEPT !.ended = TRUE, !.code = c]
     \/ command.ended /\ ~command.recorded /\ command' = [command EXCEPT !.recorded = TRUE]
  /\ UNCHANGED <<box, hint>>

Container ==
  /\ Prints \/ LogEnds \/ Exits \/ Recorded \/ Serves \/ HealthChanges \/ CommandEnds
  /\ UNCHANGED <<wos, source, phase, why, asked, conds, held, wait, log, seenRunning, exec, left>>
------------------------------------------------------------------------------
waitOnly == <<wos, source, asked, exec, left, envVars>>

(* wait_until_ready of the condition at hand, up to its loop.              *)
BeginCondition ==
  /\ Waiting /\ conds # <<>> /\ wait = "none"
  /\ log' = NoLog /\ seenRunning' = FALSE
  /\ \/ /\ Cond.kind \in {"nothing", "duration", "empty log"}
        /\ Holds /\ UNCHANGED <<phase, why>>
     \/ /\ \/ Cond.kind = "log"
           \/ Cond.kind = "health" /\ wos = "linux"
           \/ Cond.kind = "http" /\ Cond.matcher
           \/ Cond.kind = "exit"
        /\ wait' = Cond.kind /\ UNCHANGED <<phase, why, held, conds>>
     \/ /\ Cond.kind = "health" /\ wos = "macos"
        /\ Fail("HealthCheckNotConfigured") /\ UNCHANGED <<held, conds, wait>>
     \/ /\ Cond.kind = "http"
        /\ Fail(IF Cond.matcher THEN "NoExposedPorts" ELSE "NoResponseMatcher")
        /\ UNCHANGED <<held, conds, wait>>
  /\ UNCHANGED waitOnly

(* Mutant of LogRound: the matches of earlier rounds are added up again. *)
LogRoundAddsUp ==
  /\ wait = "log" /\ wait' = "log read"
  /\ log' = [log EXCEPT !.todo = Cond.source, !.progressed = FALSE]
  /\ UNCHANGED <<waitOnly, phase, why, held, conds, seenRunning>>

(* LogWaitStrategy: a round begins, reads one stream after the other,      *)
(* at most POLL_INTERVAL each, and adds up the matches so far.             *)
LogRound ==
  /\ wait = "log"
  /\ log' = [log EXCEPT !.todo = Cond.source, !.total = 0, !.progressed = FALSE]
  /\ wait' = "log read"
  /\ UNCHANGED <<waitOnly, phase, why, held, conds, seenRunning>>

ReadStream(s, base) ==
  \E n \in 0 .. box.printed[s] - log.count[s] :
    /\ n = 0 => box.printed[s] = log.count[s]
    /\ log' = [log EXCEPT !.todo = @ \ {s}, !.count[s] = @ + n,
                          !.total = base + log.count[s] + n,
                          !.progressed = @ \/ n > 0]

LogRead ==
  /\ wait = "log read" /\ log.todo # {}
  /\ \/ /\ ReadStream(IF "stdout" \in log.todo THEN "stdout" ELSE "stderr", log.total)
        /\ UNCHANGED <<phase, why>>
     \/ Fail("Io") /\ log' = log
  /\ UNCHANGED <<waitOnly, held, conds, wait, seenRunning>>

(* then it is done, goes on, or, DRAIN_GRACE after it saw that the         *)
(* container is gone or the log has ended, gives up.                       *)
Gone == hint # Unknown \/ box.logEnded
LogCheck ==
  /\ wait = "log read" /\ log.todo = {}
  /\ \/ /\ log.total >= Cond.times /\ Holds /\ log' = NoLog /\ UNCHANGED <<phase, why>>
     \/ /\ log.total < Cond.times
        /\ \/ /\ wait' = "log" /\ UNCHANGED <<phase, why>>
              /\ log' = [log EXCEPT !.exited = @ \/ (~log.progressed /\ Gone)]
           \/ /\ ~log.progressed /\ Gone /\ log.exited
              /\ Fail("EndOfStream") /\ UNCHANGED <<wait, log>>
        /\ Stays
  /\ UNCHANGED <<waitOnly, seenRunning>>

(* HealthWaitStrategy: one inspection, which may fail.                     *)
HealthPoll ==
  /\ wait = "health"
  /\ \/ /\ seenRunning' = (seenRunning \/ box.running)
        /\ CASE box.health = "healthy" -> Holds /\ UNCHANGED <<phase, why>>
             [] box.health = "unhealthy" -> Fail("Unhealthy") /\ UNCHANGED <<held, conds, wait>>
             [] box.health = "none" /\ seenRunning' ->
                  Fail("HealthCheckNotConfigured") /\ UNCHANGED <<held, conds, wait>>
             [] OTHER -> UNCHANGED <<phase, why, held, conds, wait>>
     \/ Fail("inspect") /\ UNCHANGED <<held, conds, wait, seenRunning>>
  /\ UNCHANGED <<waitOnly, log>>

(* HttpWaitStrategy: one request; any error of it is tried again.          *)
HttpPoll ==
  /\ wait = "http"
  /\ \/ box.served /\ box.running /\ Holds
     \/ UNCHANGED <<held, conds, wait>>
  /\ UNCHANGED <<waitOnly, phase, why, log, seenRunning>>

Verdict(actual) ==
  IF Cond.code \in {Unknown, actual} THEN Holds /\ UNCHANGED <<phase, why>>
  ELSE Fail("UnexpectedExitCode") /\ UNCHANGED <<held, conds, wait>>

(* ExitWaitStrategy: what the background wait has recorded decides,        *)
ExitHint ==
  /\ wait = "exit"
  /\ IF hint # Unknown THEN Verdict(hint)
     ELSE wait' = "exit state" /\ UNCHANGED <<phase, why, held, conds>>
  /\ UNCHANGED <<waitOnly, log, seenRunning>>

(* otherwise the state of the container, when no code is asked for; on     *)
(* macOS a stopped container is asked for its code once more.              *)
ExitState ==
  /\ wait = "exit state"
  /\ \/ box.running /\ wait' = "exit" /\ UNCHANGED <<phase, why, held, conds>>
     \/ ~box.running /\ Cond.code = Unknown /\ Holds /\ UNCHANGED <<phase, why>>
     \/ /\ ~box.running /\ Cond.code # Unknown /\ wos = "linux"
        /\ wait' = "exit" /\ UNCHANGED <<phase, why, held, conds>>
     \/ /\ ~box.running /\ Cond.code # Unknown /\ wos = "macos"
        /\ \E actual \in {box.code, Unknown} : Verdict(actual)
     \/ Fail("state") /\ UNCHANGED <<held, conds, wait>>
  /\ UNCHANGED <<waitOnly, log, seenRunning>>

(* block_until_ready is through with all of them. *)
ConditionsHold ==
  /\ Waiting /\ conds = <<>>
  /\ IF exec.at = "conds" THEN phase' = phase /\ exec' = [exec EXCEPT !.at = "cmd"]
     ELSE phase' = "after" /\ exec' = exec
  /\ UNCHANGED <<wos, source, why, asked, conds, held, wait, log, seenRunning, left, envVars>>

(* Mutant of StartupTimeout: the conditions of a command have none. *)
StartOnlyTimeout ==
  /\ phase = "waiting" /\ Fail("StartupTimeout")
  /\ conds' = <<>> /\ wait' = "none" /\ log' = NoLog /\ seenRunning' = FALSE
  /\ UNCHANGED <<waitOnly, held>>

(* The timeout around block_until_ready, in both callers, drops it.        *)
StartupTimeout ==
  /\ Waiting /\ Fail("StartupTimeout")
  /\ conds' = <<>> /\ wait' = "none" /\ log' = NoLog /\ seenRunning' = FALSE
  /\ UNCHANGED <<waitOnly, held>>
------------------------------------------------------------------------------
execOnly == <<wos, source, asked, held, wait, log, seenRunning, box, hint>>

(* exec: without a log source a condition on the log is an error before    *)
(* the command runs.                                                       *)
BeginExec ==
  /\ phase \in {"before", "after"} /\ exec.at = "none" /\ left > 0
  /\ \E cs \in CmdConditions :
       IF ~source /\ RequireLog(cs)
       THEN Fail("no log source") /\ UNCHANGED <<exec, command>>
       ELSE /\ exec' = [NoExec EXCEPT !.at = "run", !.conds = cs]
            /\ command' = [ended |-> FALSE, code |-> Unknown, recorded |-> FALSE]
            /\ UNCHANGED <<phase, why>>
  /\ left' = left - 1
  /\ UNCHANGED <<execOnly, conds>>

(* The output of the command is at its end.  On macOS the exit code is     *)
(* there then; Docker is asked for it.  Everything before may fail.        *)
ExecRun ==
  /\ exec.at = "run"
  /\ \/ /\ wos = "linux" /\ exec' = [exec EXCEPT !.at = "inspect"] /\ UNCHANGED <<phase, why>>
     \/ /\ wos = "macos" /\ command.ended
        /\ exec' = [exec EXCEPT !.at = "ran", !.code = command.code]
        /\ UNCHANGED <<phase, why>>
     \/ Fail("exec") /\ exec' = exec
  /\ UNCHANGED <<execOnly, conds, left, command>>

(* GET /exec/{id}/json: the daemon may not have recorded the end yet; an   *)
(* answer without ExitCode is taken as it is.                              *)
ExecInspect ==
  /\ exec.at = "inspect"
  /\ \/ Fail("inspect exec") /\ exec' = exec
     \/ /\ UNCHANGED <<phase, why>>
        /\ IF command.recorded
           THEN \E c \in {command.code, Unknown} : exec' = [exec EXCEPT !.at = "ran", !.code = c]
           ELSE exec' = IF exec.tries < Backoffs THEN [exec EXCEPT !.tries = @ + 1]
                        ELSE [exec EXCEPT !.at = "ran"]
  /\ UNCHANGED <<execOnly, conds, left, command>>

(* The conditions of the command, under a timeout of their own,            *)
ExecConditions ==
  /\ exec.at = "ran" /\ exec' = [exec EXCEPT !.at = "conds"] /\ conds' = exec.conds
  /\ UNCHANGED <<execOnly, phase, why, left, command>>

(* and what is asked of the command itself.                                *)
CmdReady ==
  /\ exec.at = "cmd"
  /\ \E ready \in CmdWaitFor :
       LET required == IF ready.kind = "exit" THEN ready.code ELSE Unknown IN
       \/ /\ required \in {Unknown, exec.code}
          /\ exec' = [NoExec EXCEPT !.passed = required] /\ UNCHANGED <<phase, why>>
       \/ /\ ready.kind = "message" \/ required \notin {Unknown, exec.code}
          /\ Fail("command") /\ exec' = exec
  /\ UNCHANGED <<execOnly, conds, left, command>>

(* From one part of run_ready_sequence to the next; each asks for the      *)
(* state of the container first.                                           *)
NextPhase ==
  /\ phase \in {"before", "after"} /\ exec.at = "none"
  /\ \/ phase = "before" /\ phase' = "waiting" /\ conds' = asked /\ why' = why
     \/ phase = "after" /\ phase' = "ready" /\ UNCHANGED <<conds, why>>
     \/ Fail("state") /\ conds' = conds
  /\ UNCHANGED <<execOnly, exec, left, command>>

Strategy ==
  \/ BeginCondition \/ LogRound \/ LogRead \/ LogCheck \/ HealthPoll \/ HttpPoll
  \/ ExitHint \/ ExitState

Sequence == ConditionsHold \/ BeginExec \/ ExecRun \/ ExecInspect \/ ExecConditions
              \/ CmdReady \/ NextPhase

WaitNext ==
  /\ phase \notin {"ready", "failed"}
  /\ Container \/ (Strategy /\ Waiting) \/ Sequence \/ StartupTimeout

(* A task that can go on is polled, the timer of tokio fires, the daemon   *)
(* answers, and a command that is executed ends some time.  Nothing is     *)
(* assumed of the container.                                               *)
WaitFairness ==
  /\ WF_waitVars(phase # "failed" /\ Sequence) /\ WF_waitVars(phase # "failed" /\ StartupTimeout)
  /\ WF_waitVars(phase # "failed" /\ CommandEnds /\ Container)

WaitSpec == WaitInit /\ [][WaitNext]_waitVars /\ WaitFairness
------------------------------------------------------------------------------
(* What a condition that was found to hold says of the container.          *)
Printed(S) ==
  (IF "stdout" \in S THEN box.printed["stdout"] ELSE 0)
    + (IF "stderr" \in S THEN box.printed["stderr"] ELSE 0)

TrueOf(c) ==
  CASE c.kind = "log" -> Printed(c.source) >= c.times
    [] c.kind = "health" -> wos = "linux" /\ box.healthy
    [] c.kind = "http" -> c.matcher /\ box.served
    [] c.kind = "exit" -> ~box.running /\ c.code \in {Unknown, box.code}
    [] OTHER -> TRUE

(* start reports a container as ready only when every condition was true   *)
(* of it: the message was printed that many times over the streams asked   *)
(* for, a check was healthy, a request was answered, the container ended,  *)
(* with the expected code if there is one (the strategies of src/core/wait *)
(* read the container in steps while it changes).  A command whose exit    *)
(* code is required passed only if it ended with that code (exec).  A wait *)
(* for the log is given up only when the container or its log has ended,   *)
(* and only with fewer matches in what was read (EndOfStream).             *)
ReadySound ==
  /\ \A c \in held : TrueOf(c)
  /\ phase \in {"after", "ready"} => \A i \in DOMAIN asked : asked[i] \in held
  /\ exec.passed # Unknown => command.ended /\ command.code = exec.passed
  /\ why = "EndOfStream" => (~box.running \/ box.logEnded) /\ log.total < Cond.times

(* start ends: no condition, of start or of a command, can wait for ever,  *)
(* whatever the container does (startup_timeout around block_until_ready). *)
WaitEnds == Waiting \/ exec.at # "none" ~> phase \in {"ready", "failed"}
=============================================================================
