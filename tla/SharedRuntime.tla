---------------------------- MODULE SharedRuntime ----------------------------
(***************************************************************************)
(* The runtime behind the blocking API: shared_runtime of                  *)
(* src/runners/sync_runner.rs keeps a Weak to it, every Container and      *)
(* every call in progress own an Arc of it, and the last owner drops it    *)
(* (block_on_runtime and drop_shared_runtime of                            *)
(* src/core/containers/sync_container.rs).                                 *)
(*                                                                         *)
(* Whoever calls is a thread outside of any runtime, a thread inside a     *)
(* runtime of the program's own, or the one worker of a shared runtime,    *)
(* in a callback of the program (a LogConsumer).  A callback may call the  *)
(* API again, own Containers, and still run when its runtime is dropped.   *)
(***************************************************************************)
EXTENDS Naturals, FiniteSets

CONSTANTS
  Outside,       \* threads outside of any runtime
  Inside,        \* threads inside a runtime of the program
  MaxRuntimes,   \* bound of the model: shared runtimes that are built
  MaxContainers  \* bound of the model: Containers alive

ASSUME RuntimeAssumption ==
  /\ MaxRuntimes \in Nat \ {0} /\ MaxContainers \in Nat
  /\ IsFiniteSet(Outside) /\ IsFiniteSet(Inside)

Runtimes == 1..MaxRuntimes
Callers == Outside \cup Inside \cup Runtimes   \* the worker of r calls as r

VARIABLES
  weak,       \* ASYNC_RUNTIME, 0 before the first
  rt,         \* each runtime: none, up, stopping (in its drop), gone
  owned,      \* Containers alive, by the runtime they own a reference to
  callback,   \* its worker is in a callback
  spc,        \* where the call of each caller is
  arc         \* the reference that it holds, 0 if none

runtimeVars == <<weak, rt, owned, callback, spc, arc>>

RuntimeInit ==
  /\ weak = 0 /\ rt = [r \in Runtimes |-> "none"] /\ owned = [r \in Runtimes |-> 0]
  /\ callback = [r \in Runtimes |-> FALSE]
  /\ spc = [a \in Callers |-> "idle"] /\ arc = [a \in Callers |-> 0]

(* The strong count: Containers, calls, and helper threads about to drop.  *)
Holders(r) ==
  {a \in Callers : arc[a] = r /\ spc[a] \in {"got", "blocked", "drop", "join drop"}}
Strong(r) == owned[r] + Cardinality(Holders(r))

Free(a) == spc[a] = "idle" /\ (a \in Runtimes => callback[a])
Goes_(a, to) == spc' = [spc EXCEPT ![a] = to]
Idle(a) == Goes_(a, "idle") /\ arc' = [arc EXCEPT ![a] = 0]
------------------------------------------------------------------------------
(* shared_runtime, under its mutex: the Weak is upgraded, or a new runtime *)
(* takes its place.                                                        *)
GetSharedRuntime(a) ==
  /\ Free(a)
  /\ \E r \in Runtimes :
       /\ IF weak # 0 /\ Strong(weak) > 0 THEN r = weak
          ELSE rt[r] = "none" /\ \A q \in 1 .. r - 1 : rt[q] # "none"
       /\ weak' = r /\ rt' = [rt EXCEPT ![r] = "up"]
       /\ arc' = [arc EXCEPT ![a] = r]
  /\ Goes_(a, "got") /\ UNCHANGED <<owned, callback>>

(* block_on_runtime: an error inside the runtime itself, a scoped thread   *)
(* inside another one.                                                     *)
BlockOnRuntime(a) ==
  /\ spc[a] = "got" /\ Goes_(a, IF a = arc[a] THEN "drop" ELSE "blocked")
  /\ UNCHANGED <<weak, rt, owned, callback, arc>>

(* The future is done: the Arc goes into the Container, or is given back   *)
(* after an error and by pull_image.                                       *)
CallReturns(a) ==
  /\ spc[a] = "blocked"
  /\ \/ /\ \A r \in Runtimes : owned[r] < MaxContainers
        /\ owned' = [owned EXCEPT ![arc[a]] = @ + 1] /\ Idle(a)
     \/ Goes_(a, "drop") /\ UNCHANGED <<owned, arc>>
  /\ UNCHANGED <<weak, rt, callback>>

(* Drop of a Container, after the one of its ContainerAsync (Lifecycle).   *)
DropContainer(a) ==
  /\ Free(a)
  /\ \E r \in Runtimes :
       /\ owned[r] > 0 /\ owned' = [owned EXCEPT ![r] = @ - 1]
       /\ arc' = [arc EXCEPT ![a] = r]
  /\ Goes_(a, "drop") /\ UNCHANGED <<weak, rt, callback>>

(* The reference goes.  With the last one the thread that holds it stops   *)
(* the runtime.                                                            *)
Release(a, stopping) ==
  /\ IF Strong(arc[a]) = 1
     THEN Goes_(a, stopping) /\ rt' = [rt EXCEPT ![arc[a]] = "stopping"] /\ arc' = arc
     ELSE Idle(a) /\ rt' = rt
  /\ UNCHANGED <<weak, owned, callback>>

(* Mutant of DropSharedRuntime: dropped wherever the last owner is. *)
DropInPlace(a) == spc[a] = "drop" /\ Release(a, "stop")

(* drop_shared_runtime: inside any runtime another thread is spawned for   *)
(* it and joined.                                                          *)
DropSharedRuntime(a) ==
  /\ spc[a] = "drop"
  /\ IF a \in Outside THEN Release(a, "stop")
     ELSE Goes_(a, "join drop") /\ UNCHANGED <<weak, rt, owned, callback, arc>>

HelperDrops(a) == spc[a] = "join drop" /\ Release(a, "join stop")

(* Drop of the Runtime waits for its worker, and that for its callback.    *)
WorkerStops(r) ==
  /\ rt[r] = "stopping" /\ ~callback[r] /\ rt' = [rt EXCEPT ![r] = "gone"]
  /\ UNCHANGED <<weak, owned, callback, spc, arc>>

RuntimeStopped(a) ==
  /\ spc[a] \in {"stop", "join stop"} /\ rt[arc[a]] = "gone" /\ Idle(a)
  /\ UNCHANGED <<weak, rt, owned, callback>>

(* The worker calls the program and comes back from it. *)
Callback(r) ==
  /\ \/ ~callback[r] /\ rt[r] = "up"
     \/ callback[r] /\ spc[r] = "idle"
  /\ callback' = [callback EXCEPT ![r] = ~@]
  /\ UNCHANGED <<weak, rt, owned, spc, arc>>

RuntimeNext ==
  \/ \E a \in Callers :
       \/ GetSharedRuntime(a) \/ BlockOnRuntime(a) \/ CallReturns(a) \/ DropContainer(a)
       \/ DropSharedRuntime(a) \/ HelperDrops(a) \/ RuntimeStopped(a)
  \/ \E r \in Runtimes : WorkerStops(r) \/ Callback(r)

RuntimeSpec == RuntimeInit /\ [][RuntimeNext]_runtimeVars
------------------------------------------------------------------------------
WaitsFor(r, q) == spc[r] = "join stop" /\ arc[r] = q /\ rt[q] = "stopping"

(* A runtime is up as long as anything refers to it, so that no call ends  *)
(* up on one that is being dropped (shared_runtime upgrades the Weak while *)
(* owners come and go); no two are up at a time.  The drop runs on a       *)
(* thread outside of every runtime, where it does not panic, and whoever   *)
(* gave the last reference back has not returned before it is over         *)
(* (drop_shared_runtime).  No worker blocks on its own runtime             *)
(* (block_on_runtime), and a worker that waits for the end of a runtime    *)
(* waits for a later one or for its own: apart from that last case, which  *)
(* hangs, the waits have no cycle.                                         *)
RuntimeDrop ==
  /\ \A r \in Runtimes : Strong(r) > 0 => rt[r] = "up"
  /\ Cardinality({r \in Runtimes : rt[r] = "up"}) <= 1
  /\ \A a \in Callers : spc[a] = "stop" => a \in Outside
  /\ \A r \in Runtimes :
       rt[r] = "stopping" => \E a \in Callers : arc[a] = r /\ spc[a] \in {"stop", "join stop"}
  /\ \A r \in Runtimes : spc[r] = "blocked" => arc[r] # r
  /\ \A r, q \in Runtimes : WaitsFor(r, q) => r <= q
==============================================================================
