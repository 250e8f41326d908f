------------------------------ MODULE Lifecycle ------------------------------
(***************************************************************************)
(* The life of a container from AsyncRunner::start to its removal,         *)
(* src/runners/async_runner.rs and rm / rm_blocking / Drop of              *)
(* src/core/containers/async_container.rs.                                 *)
(*                                                                         *)
(* Several calls of start() run side by side, each with a container id of  *)
(* its own.  Every awaited call of a client is a step that may succeed,    *)
(* fail, or see the future that awaits it dropped; the request itself runs *)
(* in spawn_blocking and is carried out or not all the same.               *)
(***************************************************************************)
EXTENDS Integers, FiniteSets

CONSTANTS
  Platforms,  \* the platforms considered, of "linux" and "macos"
  Calls       \* calls of start()

ASSUME PlatformAssumption == Platforms \subseteq {"linux", "macos"}

VARIABLES
  platform,   \* the target_os the crate was built for
  keep,       \* core::env::command(): TESTCONTAINERS_COMMAND=keep
  alive,      \* the process runs
  pc,         \* where each call and, later, its handle is
  there,      \* the daemon has the container of the call (external)
  logNeeded,  \* WaitFor::Log, or on Linux a LogConsumer, asks for the log
  session,    \* its log delivery: none, live, stopped
  dropped,    \* ContainerAsync::dropped
  remover,    \* the removal thread of Drop: none, running, done
  returned,   \* what start() returned: none, ok, err
  (* History. *)
  refused,    \* a removal failed
  cut,        \* start() ended without an owner for what it had created
  asked       \* the user called rm or rm_blocking

env == <<platform, keep>>
vars == <<env, alive, pc, there, logNeeded, session, dropped, remover, returned,
          refused, cut, asked>>

Linux == platform = "linux"

(* Awaits of start() before the container has an owner ... *)
Unowned == {"resolve", "create", "bootstrap", "process", "copy", "start", "logs"}
(* ... and after ContainerAsync::new. *)
Owned == {"hosts", "ready"}
Over == {"err", "gone"}

Init ==
  /\ platform \in Platforms /\ keep \in BOOLEAN
  /\ alive = TRUE
  /\ pc = [c \in Calls |-> "idle"]
  /\ there = [c \in Calls |-> FALSE]
  /\ logNeeded \in [Calls -> BOOLEAN]
  /\ session = [c \in Calls |-> "none"]
  /\ dropped = [c \in Calls |-> FALSE]
  /\ remover = [c \in Calls |-> "none"]
  /\ returned = [c \in Calls |-> "none"]
  /\ refused = [c \in Calls |-> FALSE]
  /\ cut = [c \in Calls |-> FALSE]
  /\ asked = [c \in Calls |-> FALSE]

Go(c, p) == pc' = [pc EXCEPT ![c] = p]
Set(f, c, v) == [f EXCEPT ![c] = v]

------------------------------------------------------------------------------
(* start().                                                                *)

Begin(c) ==
  /\ alive /\ pc[c] = "idle"
  /\ Go(c, "resolve")
  /\ UNCHANGED <<env, alive, there, logNeeded, session, dropped, remover,
                 returned, refused, cut, asked>>

(* The request is checked, the image resolved, pulled if it is missing and *)
(* resolved again; an error at any point leaves nothing behind.            *)
Resolve(c) ==
  /\ alive /\ pc[c] = "resolve"
  /\ \/ Go(c, "create") /\ UNCHANGED returned
     \/ Go(c, "err") /\ returned' = Set(returned, c, "err")
  /\ UNCHANGED <<env, alive, there, logNeeded, session, dropped, remover,
                 refused, cut, asked>>

(* create_container.  After a failure the container may exist nonetheless, *)
(* if only the answer was lost: macOS removes by the id it chose itself,   *)
(* Linux has no id to remove.                                              *)
CreateOk(c) ==
  /\ alive /\ pc[c] = "create"
  /\ there' = Set(there, c, TRUE)
  /\ Go(c, IF Linux THEN "copy" ELSE "bootstrap")
  /\ UNCHANGED <<env, alive, logNeeded, session, dropped, remover, returned,
                 refused, cut, asked>>

CreateFail(c) ==
  /\ alive /\ pc[c] = "create"
  /\ \E made \in BOOLEAN :
       /\ there' = Set(there, c, made)
       /\ cut' = Set(cut, c, made /\ Linux)
  /\ Go(c, IF Linux THEN "err" ELSE "rollback")
  /\ returned' = Set(returned, c, "err")
  /\ UNCHANGED <<env, alive, logNeeded, session, dropped, remover, refused,
                 asked>>

(* The steps between creation and the log, in the order of the platform:   *)
(* copy and start on Linux; (watchdog registration,) bootstrap, start and  *)
(* copy on macOS.  A failure is rolled back.                               *)
After(step) ==
  CASE step = "copy"      -> IF Linux THEN "start" ELSE "logs"
    [] step = "start"     -> "logs"
    [] step = "bootstrap" -> "process"
    [] step = "process"   -> "copy"

(* Preparation whose failure is returned without a rollback. *)
PrepareNoRollback(c) ==
  /\ alive /\ pc[c] \in {"copy", "start", "bootstrap", "process"}
  /\ \/ Go(c, After(pc[c])) /\ UNCHANGED returned
     \/ Go(c, "err") /\ returned' = Set(returned, c, "err")
  /\ UNCHANGED <<env, alive, there, logNeeded, session, dropped, remover,
                 refused, cut, asked>>

Prepare(c) ==
  /\ alive /\ pc[c] \in {"copy", "start", "bootstrap", "process"}
  /\ \/ Go(c, After(pc[c])) /\ UNCHANGED returned
     \/ Go(c, "rollback") /\ returned' = Set(returned, c, "err")
  /\ UNCHANGED <<env, alive, there, logNeeded, session, dropped, remover,
                 refused, cut, asked>>

(* logs() / start_linux_log_stream, then ContainerAsync::new.  Without the *)
(* log the call fails only if something needs it.                          *)
Log(c) ==
  /\ alive /\ pc[c] = "logs"
  /\ \/ /\ session' = Set(session, c, "live")
        /\ Go(c, IF Linux THEN "ready" ELSE "hosts")
        /\ UNCHANGED returned
     \/ /\ ~logNeeded[c]
        /\ Go(c, IF Linux THEN "ready" ELSE "hosts")
        /\ UNCHANGED <<session, returned>>
     \/ /\ logNeeded[c]
        /\ Go(c, "rollback")
        /\ returned' = Set(returned, c, "err")
        /\ UNCHANGED session
  /\ UNCHANGED <<env, alive, there, logNeeded, dropped, remover, refused, cut,
                 asked>>

(* rollback_remove that waits for nobody: the call is left half way. *)
RollbackStuck(c) ==
  /\ alive /\ pc[c] = "rollback"
  /\ Go(c, "rolledback")
  /\ UNCHANGED <<env, alive, there, logNeeded, session, dropped, remover,
                 returned, refused, cut, asked>>

(* rollback_remove: a failed removal is only logged. *)
Rollback(c) ==
  /\ alive /\ pc[c] = "rollback"
  /\ \/ keep /\ UNCHANGED <<there, refused>>
     \/ ~keep /\ there' = Set(there, c, FALSE) /\ UNCHANGED refused
     \/ ~keep /\ refused' = Set(refused, c, TRUE) /\ UNCHANGED there
  /\ Go(c, "err")
  /\ UNCHANGED <<env, alive, logNeeded, session, dropped, remover, returned,
                 cut, asked>>

(* A ready sequence that removes the container on a failure and returns it *)
(* all the same.                                                           *)
ReadyReturnsAnyway(c) ==
  /\ alive /\ pc[c] \in Owned
  /\ \/ pc[c] = "hosts" /\ Go(c, "ready") /\ UNCHANGED <<there, returned>>
     \/ /\ pc[c] = "ready" /\ Go(c, "owned")
        /\ there' \in {there, Set(there, c, FALSE)}
        /\ returned' = Set(returned, c, "ok")
  /\ UNCHANGED <<env, alive, logNeeded, session, dropped, remover, refused,
                 cut, asked>>

(* apply_extra_hosts (macOS), then run_ready_sequence: exec_before_ready,  *)
(* the ready conditions under startup_timeout, exec_after_start.  Whatever *)
(* goes wrong or runs out of time ends in cleanup_on_ready_failure: rm()   *)
(* unless keep, in which case the handle is just dropped.                  *)
Ready(c) ==
  /\ alive /\ pc[c] \in Owned
  /\ \/ pc[c] = "hosts" /\ Go(c, "ready") /\ UNCHANGED returned
     \/ pc[c] = "ready" /\ Go(c, "owned") /\ returned' = Set(returned, c, "ok")
     \/ /\ Go(c, IF keep THEN "dropping" ELSE "cleanup")
        /\ returned' = Set(returned, c, "err")
  /\ UNCHANGED <<env, alive, there, logNeeded, session, dropped, remover,
                 refused, cut, asked>>

(* The future of start() is dropped while it awaits.  Before               *)
(* ContainerAsync::new nobody owns the container; the pending request may  *)
(* still be carried out.  Afterwards the handle is dropped with the future.*)
Cancel(c) ==
  /\ alive /\ pc[c] \in Unowned \cup Owned \cup {"rollback"}
  /\ IF pc[c] \in Owned
       THEN Go(c, "dropping") /\ UNCHANGED <<there, cut>>
       ELSE /\ there' \in
                 (CASE pc[c] = "create"            -> {there, Set(there, c, TRUE)}
                    [] pc[c] = "rollback" /\ ~keep -> {there, Set(there, c, FALSE)}
                    [] OTHER                       -> {there})
            /\ Go(c, "err")
            /\ cut' = Set(cut, c, there'[c])
  /\ returned' = Set(returned, c, "err")
  /\ UNCHANGED <<env, alive, logNeeded, session, dropped, remover, refused,
                 asked>>

------------------------------------------------------------------------------
(* rm() and rm_blocking(), by the user or by cleanup_on_ready_failure.     *)

RmCall(c) ==
  /\ alive /\ pc[c] = "owned"
  /\ asked' = Set(asked, c, TRUE)
  /\ Go(c, "cleanup")
  /\ UNCHANGED <<env, alive, there, logNeeded, session, dropped, remover,
                 returned, refused, cut>>

(* rm that believes itself done whatever the daemon answered. *)
RmIgnoresError(c) ==
  /\ alive /\ pc[c] = "cleanup"
  /\ session' = Set(session, c, "stopped")
  /\ \/ there' = Set(there, c, FALSE)
     \/ UNCHANGED there
  /\ dropped' = Set(dropped, c, TRUE)
  /\ Go(c, "dropping")
  /\ UNCHANGED <<env, alive, logNeeded, remover, returned, refused, cut,
                 asked>>

(* The log is stopped, the container removed, dropped set on success.  A   *)
(* removal that fails, or whose future is dropped, leaves it to Drop.      *)
Rm(c) ==
  /\ alive /\ pc[c] = "cleanup"
  /\ session' = IF session[c] = "live" THEN Set(session, c, "stopped") ELSE session
  /\ \/ there' = Set(there, c, FALSE) /\ dropped' = Set(dropped, c, TRUE)
     \/ there' \in {there, Set(there, c, FALSE)} /\ UNCHANGED dropped
  /\ Go(c, "dropping")
  /\ UNCHANGED <<env, alive, logNeeded, remover, returned, refused, cut,
                 asked>>

------------------------------------------------------------------------------
(* Drop.                                                                   *)

DropCall(c) ==
  /\ alive /\ pc[c] = "owned"
  /\ Go(c, "dropping")
  /\ UNCHANGED <<env, alive, there, logNeeded, session, dropped, remover,
                 returned, refused, cut, asked>>

(* Drop without the keep gate. *)
DropUngated(c) ==
  /\ alive /\ pc[c] = "dropping"
  /\ session' = IF session[c] = "live" THEN Set(session, c, "stopped") ELSE session
  /\ IF dropped[c]
       THEN Go(c, "gone") /\ UNCHANGED remover
       ELSE /\ Go(c, "waiting")
            /\ remover' = Set(remover, c, "running")
  /\ UNCHANGED <<env, alive, there, logNeeded, dropped, returned, refused,
                 cut, asked>>

(* Drop that forgets the log. *)
DropKeepsSession(c) ==
  /\ alive /\ pc[c] = "dropping"
  /\ IF dropped[c] \/ keep
       THEN Go(c, "gone") /\ UNCHANGED remover
       ELSE \E p \in {"waiting", "removing"} :
              Go(c, p) /\ remover' = Set(remover, c, "running")
  /\ UNCHANGED <<env, alive, there, logNeeded, session, dropped, returned,
                 refused, cut, asked>>

(* The log is stopped first; nothing more if rm() succeeded or keep.       *)
(* Inside a runtime a thread removes the container and the caller waits at *)
(* most 5 s ("waiting"); outside the caller removes it itself ("removing").*)
Drop(c) ==
  /\ alive /\ pc[c] = "dropping"
  /\ session' = IF session[c] = "live" THEN Set(session, c, "stopped") ELSE session
  /\ IF dropped[c] \/ keep
       THEN Go(c, "gone") /\ UNCHANGED remover
       ELSE \E p \in {"waiting", "removing"} :
              Go(c, p) /\ remover' = Set(remover, c, "running")
  /\ UNCHANGED <<env, alive, there, logNeeded, dropped, returned, refused,
                 cut, asked>>

(* remove_blocking answers or times out. *)
Remove(c) ==
  /\ alive /\ remover[c] = "running"
  /\ remover' = Set(remover, c, "done")
  /\ \/ there' = Set(there, c, FALSE) /\ UNCHANGED refused
     \/ refused' = Set(refused, c, TRUE) /\ UNCHANGED there
  /\ UNCHANGED <<env, alive, pc, logNeeded, session, dropped, returned, cut,
                 asked>>

(* Drop that waits until the removal has succeeded. *)
DropEndUntimed(c) ==
  /\ alive /\ pc[c] \in {"waiting", "removing"}
  /\ remover[c] = "done" /\ ~refused[c]
  /\ Go(c, "gone")
  /\ UNCHANGED <<env, alive, there, logNeeded, session, dropped, remover,
                 returned, refused, cut, asked>>

(* recv_timeout: the result is there, or the 5 seconds are over. *)
DropEnd(c) ==
  /\ alive
  /\ pc[c] = "waiting" \/ (pc[c] = "removing" /\ remover[c] = "done")
  /\ Go(c, "gone")
  /\ UNCHANGED <<env, alive, there, logNeeded, session, dropped, remover,
                 returned, refused, cut, asked>>

(* The process ends, by exit or crash, with whatever it was doing. *)
ProcessExit ==
  /\ alive
  /\ alive' = FALSE
  /\ UNCHANGED <<env, pc, there, logNeeded, session, dropped, remover,
                 returned, refused, cut, asked>>

------------------------------------------------------------------------------
Work(c) ==
  \/ Resolve(c) \/ CreateOk(c) \/ CreateFail(c) \/ Prepare(c) \/ Log(c)
  \/ Rollback(c) \/ Ready(c) \/ Rm(c) \/ Drop(c) \/ Remove(c) \/ DropEnd(c)

Next ==
  \/ \E c \in Calls : Begin(c) \/ Work(c) \/ Cancel(c) \/ RmCall(c) \/ DropCall(c)
  \/ ProcessExit

(* Drop runs to its end: the thread is not joined by any runtime and       *)
(* remove_blocking and recv_timeout are bounded.  start() itself has steps *)
(* without a time limit, so nothing is assumed of it.                      *)
Fairness ==
  \A c \in Calls : WF_vars(Drop(c)) /\ WF_vars(Remove(c)) /\ WF_vars(DropEnd(c))

Spec == Init /\ [][Next]_vars /\ Fairness

------------------------------------------------------------------------------
(* Properties. *)

Phases == {"idle", "rollback", "cleanup", "owned", "dropping", "waiting",
           "removing"} \cup Unowned \cup Owned \cup Over

TypeOK ==
  /\ platform \in Platforms /\ keep \in BOOLEAN
  /\ alive \in BOOLEAN
  /\ pc \in [Calls -> Phases]
  /\ there \in [Calls -> BOOLEAN] /\ logNeeded \in [Calls -> BOOLEAN]
  /\ session \in [Calls -> {"none", "live", "stopped"}]
  /\ dropped \in [Calls -> BOOLEAN]
  /\ remover \in [Calls -> {"none", "running", "done"}]
  /\ returned \in [Calls -> {"none", "ok", "err"}]
  /\ refused \in [Calls -> BOOLEAN] /\ cut \in [Calls -> BOOLEAN]
  /\ asked \in [Calls -> BOOLEAN]

(* rollback_remove, cleanup_on_ready_failure, Drop: when a call or a handle *)
(* is over, whichever way it went, its container is gone, unless a removal  *)
(* was refused, is still running past the 5 s, or start() lost track of it. *)
NoOrphan ==
  \A c \in Calls :
    (pc[c] \in Over /\ ~keep /\ ~refused[c] /\ ~cut[c] /\ remover[c] # "running")
      => ~there[c]

(* The keep gates: with TESTCONTAINERS_COMMAND=keep a container that start()*)
(* created disappears only after an explicit rm.                            *)
KeepKeeps ==
  [][\A c \in Calls : (keep /\ there[c] /\ ~there'[c]) => asked[c]]_vars

(* A container in the user's hands exists, and a handle whose rm succeeded  *)
(* is not removed again by its Drop.                                        *)
OwnedIsThere ==
  \A c \in Calls : /\ pc[c] = "owned" => there[c]
                   /\ dropped[c] => (~there[c] /\ remover[c] = "none")

(* stop_log_delivery: no follow session outlives its handle.                *)
SessionEnds == \A c \in Calls : pc[c] \in Over => session[c] # "live"

(* Drop of a handle returns although the removal may hang or fail.          *)
DropReturns ==
  \A c \in Calls : pc[c] = "dropping" ~> (pc[c] = "gone" \/ ~alive)

(* What the user of start() sees of a call: where it is, then how it ended. *)
Ended(c) ==
  IF asked[c] THEN "removing" ELSE IF returned[c] = "err" THEN "failed" ELSE "released"

PhaseOf(c) ==
  CASE pc[c] = "idle" -> "none"
    [] pc[c] \in (Unowned \cup Owned) -> "starting"
    [] pc[c] = "owned" -> "owned"
    [] OTHER -> Ended(c)

Contract == INSTANCE ContainerContract
              WITH phase <- [c \in Calls |-> PhaseOf(c)]

(* start(), rm() and Drop implement the contract.                           *)
ContractSpec == Contract!Spec

==============================================================================
