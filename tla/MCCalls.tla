------------------------------ MODULE MCCalls ------------------------------
(* Four components that wait for others, each by itself: in a behaviour one *)
(* of them moves, the rest stays in its initial state.                      *)
EXTENDS Watchdog, XpcBridge, ReadyWait, SharedRuntime

CONSTANT Part
VARIABLE part
mcVars == <<part, vars, bridgeVars, waitVars, runtimeVars>>

Log == [kind |-> "log", source |-> {"stdout"}, times |-> 1]
Http == [kind |-> "http", matcher |-> TRUE]
MCReadyConditions == {<<>>, <<[kind |-> "exit", code |-> "zero"], Http>>}
MCCmdConditions == {<<>>, <<Log>>}

MCInit ==
  /\ part \in Part /\ Init /\ BridgeInit /\ RuntimeInit
  /\ IF part = "wait" THEN WaitInit
     ELSE wos = "linux" /\ source = FALSE /\ asked = <<>> /\ WaitInit

MCNext ==
  /\ part' = part
  /\ \/ part = "watchdog" /\ Next /\ UNCHANGED <<bridgeVars, waitVars, runtimeVars>>
     \/ part = "bridge" /\ BridgeNext /\ UNCHANGED <<vars, waitVars, runtimeVars>>
     \/ part = "wait" /\ WaitNext /\ UNCHANGED <<vars, bridgeVars, runtimeVars>>
     \/ part = "runtime" /\ RuntimeNext /\ UNCHANGED <<vars, bridgeVars, waitVars>>

(* Fairness, BridgeFairness and WaitFairness, of the component that moves.  *)
MCFairness ==
  /\ \A p \in Procs : \A n \in Names : WF_vars(part = "watchdog" /\ Reap(p, n))
  /\ \A c \in Calls : /\ WF_bridgeVars(part = "bridge" /\ CallerNext(c))
                       /\ WF_bridgeVars(part = "bridge" /\ BlockMust(c))
  /\ WF_waitVars(part = "wait" /\ phase # "failed" /\ Sequence)
  /\ WF_waitVars(part = "wait" /\ phase # "failed" /\ StartupTimeout)
  /\ WF_waitVars(part = "wait" /\ phase # "failed" /\ CommandEnds /\ Container)

MCSpec == MCInit /\ [][MCNext]_mcVars /\ MCFairness
==============================================================================
