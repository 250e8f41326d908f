-------------------------- MODULE ContainerContract --------------------------
(***************************************************************************)
(* What a user of start() may rely on, container by container: a container *)
(* is in the user's hands or on its way out, and it only disappears in the *)
(* second case.  With TESTCONTAINERS_COMMAND=keep it only disappears when  *)
(* the user asks for it (rm, rm_blocking).                                 *)
(***************************************************************************)
CONSTANT Calls  \* calls of start(), each with a container of its own

VARIABLES
  keep,    \* TESTCONTAINERS_COMMAND=keep
  phase,   \* of each call: none, starting, failed, owned, removing, released
  there    \* the daemon has the container of the call

vars == <<keep, phase, there>>

Init ==
  /\ keep \in BOOLEAN
  /\ phase = [c \in Calls |-> "none"]
  /\ there = [c \in Calls |-> FALSE]

Move(c, from, to) == phase[c] = from /\ phase' = [phase EXCEPT ![c] = to]

Begin(c) == Move(c, "none", "starting") /\ UNCHANGED <<keep, there>>

Create(c) ==
  /\ phase[c] = "starting"
  /\ there' = [there EXCEPT ![c] = TRUE]
  /\ UNCHANGED <<keep, phase>>

(* start() returns the container: only one that exists is handed out. *)
Return(c) == there[c] /\ Move(c, "starting", "owned") /\ UNCHANGED <<keep, there>>

(* start() gives up, possibly after a creation it never heard about. *)
Fail(c) ==
  /\ Move(c, "starting", "failed")
  /\ there' \in {there, [there EXCEPT ![c] = TRUE]}
  /\ UNCHANGED keep

AskRemove(c) == Move(c, "owned", "removing") /\ UNCHANGED <<keep, there>>

Release(c) == Move(c, "owned", "released") /\ UNCHANGED <<keep, there>>

(* The only ways out. *)
Remove(c) ==
  /\ \/ phase[c] = "removing"
     \/ phase[c] \in {"failed", "released"} /\ ~keep
  /\ there' = [there EXCEPT ![c] = FALSE]
  /\ UNCHANGED <<keep, phase>>

Next ==
  \E c \in Calls : \/ Begin(c) \/ Create(c) \/ Return(c) \/ Fail(c)
                   \/ AskRemove(c) \/ Release(c) \/ Remove(c)

Spec == Init /\ [][Next]_vars

==============================================================================
