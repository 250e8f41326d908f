------------------------------ MODULE Watchdog ------------------------------
(***************************************************************************)
(* The watchdog feature (macOS), src/watchdog.rs: a reaper process per     *)
(* test process collects container ids from a pipe and, when the pipe ends *)
(* because the test process died, removes them all.                        *)
(*                                                                         *)
(* Several test processes share one daemon.  Container names come from     *)
(* with_container_name, so two processes may use the same name in turn.    *)
(***************************************************************************)
EXTENDS Integers, FiniteSets

CONSTANTS
  Procs,              \* test processes
  Names,              \* container ids
  MAX_SPAWN_FAILURES, \* 3 in the code
  MaxKills            \* bound of the model: reapers of a process killed

Nobody == "nobody"

ASSUME NobodyAssumption == Nobody \notin Procs
ASSUME LimitAssumption == MAX_SPAWN_FAILURES \in Nat \ {0} /\ MaxKills \in Nat

VARIABLES
  owner,      \* the process that created the container of that name (external)
  alive,      \* the test process runs
  pending,    \* created by a start() that has not registered it yet
  stdin,      \* REAPER: the process holds the stdin of a reaper
  reaper,     \* the reaper behind it: none, up, dead
  ids,        \* the ids that reaper has read
  failures,   \* SPAWN_FAILURES
  (* History. *)
  registered, \* names whose register() wrote the id
  kills       \* reapers of each process killed so far

reaperVars == <<stdin, reaper, ids, failures, registered>>
vars == <<owner, alive, pending, reaperVars, kills>>

Init ==
  /\ owner = [n \in Names |-> Nobody]
  /\ alive = [p \in Procs |-> TRUE]
  /\ pending = [p \in Procs |-> {}]
  /\ stdin = [p \in Procs |-> FALSE]
  /\ reaper = [p \in Procs |-> "none"]
  /\ ids = [p \in Procs |-> {}]
  /\ failures = [p \in Procs |-> 0]
  /\ registered = [p \in Procs |-> {}]
  /\ kills = [p \in Procs |-> 0]

------------------------------------------------------------------------------
(* The test process. *)

(* create_container succeeds; start() registers the id next. *)
Create(p, n) ==
  /\ alive[p] /\ owner[n] = Nobody
  /\ owner' = [owner EXCEPT ![n] = p]
  /\ pending' = [pending EXCEPT ![p] = @ \cup {n}]
  /\ UNCHANGED <<alive, reaperVars, kills>>

(* The reaper process p talks to after register(n), the failures counted   *)
(* and whether the id was written.                                         *)
Outcome(up, read, failed, written) ==
  [up |-> up, ids |-> read, failures |-> failed, written |-> written]

(* The pipe was dead: one more spawn and one more write, unless the limit  *)
(* is reached.  A spawn that fails and a reaper that dies at once both     *)
(* count as one failure.                                                   *)
Respawn(p, n) ==
  IF failures[p] >= MAX_SPAWN_FAILURES
    THEN {Outcome("none", {}, failures[p], FALSE)}
    ELSE {Outcome("up", {n}, failures[p], TRUE),
          Outcome("none", {}, failures[p] + 1, FALSE)}

(* A first spawn that is tried again for ever. *)
FirstSpawnForever(p, n) ==
  {Outcome("none", {}, failures[p] + 1, FALSE),
   Outcome("up", {n}, failures[p], TRUE)} \cup Respawn(p, n)

(* try_spawn_reaper: fails, or gives a reaper that reads the id or is dead *)
(* before it does.                                                         *)
FirstSpawn(p, n) ==
  IF failures[p] >= MAX_SPAWN_FAILURES
    THEN {Outcome("none", {}, failures[p], FALSE)}
    ELSE {Outcome("none", {}, failures[p] + 1, FALSE),
          Outcome("up", {n}, failures[p], TRUE)}
         \cup Respawn(p, n)

(* A write that starts a new list. *)
WriteForgets(p, n) == {Outcome("up", {n}, failures[p], TRUE)}

(* write_id to the reaper at hand. *)
write_id(p, n) == {Outcome("up", ids[p] \cup {n}, failures[p], TRUE)}

(* register(), under the REAPER mutex. *)
register(p, n) ==
  /\ alive[p] /\ n \in pending[p]
  /\ \E o \in (IF ~stdin[p] THEN FirstSpawn(p, n)
               ELSE IF reaper[p] = "up" THEN write_id(p, n)
               ELSE Respawn(p, n)) :
       /\ stdin' = [stdin EXCEPT ![p] = (o.up = "up")]
       /\ reaper' = [reaper EXCEPT ![p] = o.up]
       /\ ids' = [ids EXCEPT ![p] = o.ids]
       /\ failures' = [failures EXCEPT ![p] = o.failures]
       /\ registered' = [registered EXCEPT ![p] =
                           IF o.written THEN @ \cup {n} ELSE @]
  /\ pending' = [pending EXCEPT ![p] = @ \ {n}]
  /\ UNCHANGED <<owner, alive, kills>>

(* rm() or Drop removes a container; nothing is taken back from the reaper.*)
Drop(p, n) ==
  /\ alive[p] /\ owner[n] = p /\ n \notin pending[p]
  /\ owner' = [owner EXCEPT ![n] = Nobody]
  /\ UNCHANGED <<alive, pending, reaperVars, kills>>

(* The process ends, whatever the signal: the pipe is closed. *)
Die(p) ==
  /\ alive[p]
  /\ alive' = [alive EXCEPT ![p] = FALSE]
  /\ UNCHANGED <<owner, pending, reaperVars, kills>>

------------------------------------------------------------------------------
(* The reaper: REAPER_SCRIPT. *)

(* A loop that ends after its first removal. *)
ReapFirst(p, n) ==
  /\ ~alive[p] /\ reaper[p] = "up" /\ n \in ids[p]
  /\ owner' = [owner EXCEPT ![n] = Nobody]
  /\ ids' = [ids EXCEPT ![p] = {}]
  /\ UNCHANGED <<alive, pending, stdin, reaper, failures, registered, kills>>

(* End of file: container rm --force for every id read.  The daemon is     *)
(* taken to obey; the script looks at no status.                           *)
Reap(p, n) ==
  /\ ~alive[p] /\ reaper[p] = "up" /\ n \in ids[p]
  /\ owner' = [owner EXCEPT ![n] = Nobody]
  /\ ids' = [ids EXCEPT ![p] = @ \ {n}]
  /\ UNCHANGED <<alive, pending, stdin, reaper, failures, registered, kills>>

(* Someone kills the reaper. *)
Kill(p) ==
  /\ reaper[p] = "up" /\ kills[p] < MaxKills
  /\ reaper' = [reaper EXCEPT ![p] = "dead"]
  /\ ids' = [ids EXCEPT ![p] = {}]
  /\ kills' = [kills EXCEPT ![p] = @ + 1]
  /\ UNCHANGED <<owner, alive, pending, stdin, failures, registered>>

Next ==
  \E p \in Procs :
    \/ \E n \in Names : Create(p, n) \/ register(p, n) \/ Drop(p, n) \/ Reap(p, n)
    \/ Die(p) \/ Kill(p)

(* The reaper's shell runs on after the process is dead. *)
Fairness == \A p \in Procs : \A n \in Names : WF_vars(Reap(p, n))

Spec == Init /\ [][Next]_vars /\ Fairness

------------------------------------------------------------------------------
(* Properties. *)

TypeOK ==
  /\ owner \in [Names -> Procs \cup {Nobody}]
  /\ alive \in [Procs -> BOOLEAN]
  /\ pending \in [Procs -> SUBSET Names]
  /\ stdin \in [Procs -> BOOLEAN]
  /\ reaper \in [Procs -> {"none", "up", "dead"}]
  /\ ids \in [Procs -> SUBSET Names]
  /\ failures \in [Procs -> 0..MAX_SPAWN_FAILURES]
  /\ registered \in [Procs -> SUBSET Names]
  /\ kills \in [Procs -> 0..MaxKills]

(* The reaper a living process writes to knows container n of the process.  *)
Known(p, n) ==
  (alive[p] /\ stdin[p] /\ reaper[p] = "up" /\ owner[n] = p) => n \in ids[p]

(* The module's promise: the reaper a living process writes to knows every  *)
(* container the process registered and still has.                          *)
RegisteredIsKnown == \A p \in Procs : \A n \in registered[p] : Known(p, n)

(* The same for the processes whose reaper nobody killed, whatever spawns   *)
(* and writes of theirs failed.                                             *)
KnownUnlessKilled ==
  \A p \in Procs : kills[p] = 0 => \A n \in registered[p] : Known(p, n)

(* REAPER_SCRIPT: once a process is dead the containers it registered go    *)
(* away, also when it died in the middle of a start().                      *)
DeadAreReaped ==
  \A p \in Procs : \A n \in Names :
    (~alive[p] /\ n \in registered[p] /\ kills[p] = 0)
      ~> (owner[n] # p \/ kills[p] > 0)

==============================================================================
