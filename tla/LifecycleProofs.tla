--------------------------- MODULE LifecycleProofs ---------------------------
(***************************************************************************)
(* No container is orphaned and the contract of ContainerContract is kept, *)
(* for any number of start() calls, on both platforms, with and without    *)
(* TESTCONTAINERS_COMMAND=keep.                                            *)
(***************************************************************************)
EXTENDS Lifecycle, TLAPS

(* The container of the call exists and no removal has begun. *)
Held(c) == there[c] /\ remover[c] = "none" /\ ~dropped[c]

(* What start() has returned by the place the call is at, and whether the  *)
(* user can have asked for the removal.                                    *)
ReturnInv(c) ==
  /\ pc[c] \in {"idle"} \cup Unowned \cup Owned => returned[c] = "none" /\ ~asked[c]
  /\ pc[c] = "owned" => returned[c] = "ok" /\ ~asked[c]
  /\ pc[c] \in {"rollback", "err"} => returned[c] = "err" /\ ~asked[c]
  /\ pc[c] = "cleanup" => asked[c] \/ (returned[c] = "err" /\ ~keep)

(* Where the container is and who is about to remove it. *)
OwnerInv(c) ==
  /\ pc[c] \in {"idle", "resolve", "create"} =>
       ~there[c] /\ remover[c] = "none" /\ ~dropped[c]
  /\ pc[c] \in {"copy", "start", "bootstrap", "process", "logs", "owned",
                "cleanup"} \cup Owned => Held(c)
  /\ pc[c] \in {"rollback", "dropping", "err"} => remover[c] = "none"
  /\ pc[c] \in {"rollback", "err"} => ~dropped[c]
  /\ pc[c] \in {"waiting", "removing"} => ~dropped[c] /\ remover[c] # "none"
  /\ dropped[c] => ~there[c] /\ remover[c] = "none"
  /\ remover[c] # "none" => ~keep
  /\ remover[c] = "done" => ~there[c] \/ refused[c]
  /\ pc[c] = "err" => ~there[c] \/ keep \/ refused[c] \/ cut[c]
  /\ pc[c] = "gone" => dropped[c] \/ keep \/ remover[c] # "none"

(* Whose log session may run. *)
LogInv(c) ==
  pc[c] \in {"idle", "rollback", "waiting", "removing"} \cup Unowned \cup Over
    => session[c] # "live"

CallInv(c) == ReturnInv(c) /\ OwnerInv(c) /\ LogInv(c)

IInv == TypeOK /\ \A c \in Calls : CallInv(c)

(* No call has done anything at the start.                                 *)
LEMMA InitIInv == Init => IInv
<1> SUFFICES ASSUME Init PROVE IInv
  OBVIOUS
<1>1. TypeOK
  BY DEF Init, TypeOK, Phases
<1>2. ASSUME NEW c \in Calls PROVE CallInv(c)
  <2>1. /\ pc[c] = "idle" /\ ~there[c] /\ session[c] = "none" /\ ~dropped[c]
        /\ remover[c] = "none" /\ returned[c] = "none" /\ ~asked[c]
    BY DEF Init
  <2> QED BY <2>1 DEF CallInv, ReturnInv, OwnerInv, LogInv, Unowned, Owned, Over
<1> QED
  BY <1>1, <1>2 DEF IInv

(* Every step of one call keeps the invariant of all calls.                *)
LEMMA StepIInv ==
  ASSUME IInv, NEW c \in Calls,
         Begin(c) \/ Work(c) \/ Cancel(c) \/ RmCall(c) \/ DropCall(c)
  PROVE  IInv'
<1> USE DEF Go, Set
<1>1. CASE Begin(c)
  <2>1. TypeOK'
    BY <1>1 DEF IInv, TypeOK, Begin, env, Phases, Unowned, Owned, Over
  <2>2. ASSUME NEW d \in Calls, d # c PROVE CallInv(d)'
    BY <1>1, <2>2 DEF IInv, TypeOK, Begin, env, CallInv, ReturnInv, OwnerInv, LogInv, Held
  <2>3. CallInv(c)'
    BY <1>1 DEF IInv, TypeOK, Begin, env, CallInv, ReturnInv, OwnerInv, LogInv, Held,
       Unowned, Owned, Over, Linux
  <2> QED BY <2>1, <2>2, <2>3 DEF IInv
<1>2. CASE Resolve(c)
  <2>1. TypeOK'
    BY <1>2 DEF IInv, TypeOK, Resolve, env, Phases, Unowned, Owned, Over
  <2>2. ASSUME NEW d \in Calls, d # c PROVE CallInv(d)'
    BY <1>2, <2>2 DEF IInv, TypeOK, Resolve, env, CallInv, ReturnInv, OwnerInv, LogInv, Held
  <2>3. CallInv(c)'
    BY <1>2 DEF IInv, TypeOK, Resolve, env, CallInv, ReturnInv, OwnerInv, LogInv, Held,
       Unowned, Owned, Over, Linux
  <2> QED BY <2>1, <2>2, <2>3 DEF IInv
<1>3. CASE CreateOk(c)
  <2>1. TypeOK'
    BY <1>3 DEF IInv, TypeOK, CreateOk, env, Phases, Unowned, Owned, Over
  <2>2. ASSUME NEW d \in Calls, d # c PROVE CallInv(d)'
    BY <1>3, <2>2 DEF IInv, TypeOK, CreateOk, env, CallInv, ReturnInv, OwnerInv, LogInv, Held
  <2>3. CallInv(c)'
    BY <1>3 DEF IInv, TypeOK, CreateOk, env, CallInv, ReturnInv, OwnerInv, LogInv, Held,
       Unowned, Owned, Over, Linux
  <2> QED BY <2>1, <2>2, <2>3 DEF IInv
<1>4. CASE CreateFail(c)
  <2>1. TypeOK'
    BY <1>4 DEF IInv, TypeOK, CreateFail, env, Phases, Unowned, Owned, Over
  <2>2. ASSUME NEW d \in Calls, d # c PROVE CallInv(d)'
    BY <1>4, <2>2 DEF IInv, TypeOK, CreateFail, env, CallInv, ReturnInv, OwnerInv, LogInv, Held
  <2>3. CallInv(c)'
    BY <1>4 DEF IInv, TypeOK, CreateFail, env, CallInv, ReturnInv, OwnerInv, LogInv, Held,
       Unowned, Owned, Over, Linux
  <2> QED BY <2>1, <2>2, <2>3 DEF IInv
<1>5. CASE Prepare(c)
  <2>1. TypeOK'
    BY <1>5 DEF IInv, TypeOK, Prepare, After, env, Phases, Unowned, Owned, Over
  <2>2. ASSUME NEW d \in Calls, d # c PROVE CallInv(d)'
    BY <1>5, <2>2 DEF IInv, TypeOK, Prepare, env, CallInv, ReturnInv, OwnerInv, LogInv, Held
  <2>3. CallInv(c)'
    BY <1>5 DEF IInv, TypeOK, Prepare, After, env, CallInv, ReturnInv, OwnerInv, LogInv, Held,
       Unowned, Owned, Over, Linux
  <2> QED BY <2>1, <2>2, <2>3 DEF IInv
<1>6. CASE Log(c)
  <2>1. TypeOK'
    BY <1>6 DEF IInv, TypeOK, Log, env, Phases, Unowned, Owned, Over
  <2>2. ASSUME NEW d \in Calls, d # c PROVE CallInv(d)'
    BY <1>6, <2>2 DEF IInv, TypeOK, Log, env, CallInv, ReturnInv, OwnerInv, LogInv, Held
  <2>3. CallInv(c)'
    BY <1>6 DEF IInv, TypeOK, Log, env, CallInv, ReturnInv, OwnerInv, LogInv, Held,
       Unowned, Owned, Over, Linux
  <2> QED BY <2>1, <2>2, <2>3 DEF IInv
<1>7. CASE Rollback(c)
  <2>1. TypeOK'
    BY <1>7 DEF IInv, TypeOK, Rollback, env, Phases, Unowned, Owned, Over
  <2>2. ASSUME NEW d \in Calls, d # c PROVE CallInv(d)'
    BY <1>7, <2>2 DEF IInv, TypeOK, Rollback, env, CallInv, ReturnInv, OwnerInv, LogInv, Held
  <2>3. CallInv(c)'
    BY <1>7 DEF IInv, TypeOK, Rollback, env, CallInv, ReturnInv, OwnerInv, LogInv, Held,
       Unowned, Owned, Over, Linux
  <2> QED BY <2>1, <2>2, <2>3 DEF IInv
<1>8. CASE Ready(c)
  <2>1. TypeOK'
    BY <1>8 DEF IInv, TypeOK, Ready, env, Phases, Unowned, Owned, Over
  <2>2. ASSUME NEW d \in Calls, d # c PROVE CallInv(d)'
    BY <1>8, <2>2 DEF IInv, TypeOK, Ready, env, CallInv, ReturnInv, OwnerInv, LogInv, Held
  <2>3. CallInv(c)'
    BY <1>8 DEF IInv, TypeOK, Ready, env, CallInv, ReturnInv, OwnerInv, LogInv, Held,
       Unowned, Owned, Over, Linux
  <2> QED BY <2>1, <2>2, <2>3 DEF IInv
<1>9. CASE Cancel(c)
  <2>1. TypeOK'
    <3>1. there \in [Calls -> BOOLEAN] /\ cut \in [Calls -> BOOLEAN]
      BY DEF IInv, TypeOK
    <3>2. there' \in {there, Set(there, c, TRUE), Set(there, c, FALSE)}
      BY <1>9, Zenon DEF Cancel
    <3>3. there' \in [Calls -> BOOLEAN]
      BY <3>1, <3>2
    <3>4. cut' \in {cut, Set(cut, c, there'[c])}
      BY <1>9 DEF Cancel
    <3>5. cut' \in [Calls -> BOOLEAN]
      BY <3>1, <3>3, <3>4
    <3>6. pc' \in [Calls -> Phases] /\ returned' \in [Calls -> {"none", "ok", "err"}]
      BY <1>9 DEF IInv, TypeOK, Cancel, Phases, Unowned, Owned, Over
    <3> QED
      BY <1>9, <3>3, <3>5, <3>6 DEF IInv, TypeOK, Cancel, env
  <2>2. ASSUME NEW d \in Calls, d # c PROVE CallInv(d)'
    BY <1>9, <2>2 DEF IInv, TypeOK, Cancel, env, CallInv, ReturnInv, OwnerInv, LogInv, Held
  <2>3. CallInv(c)'
    BY <1>9 DEF IInv, TypeOK, Cancel, env, CallInv, ReturnInv, OwnerInv, LogInv, Held,
       Unowned, Owned, Over, Linux
  <2> QED BY <2>1, <2>2, <2>3 DEF IInv
<1>10. CASE RmCall(c)
  <2>1. TypeOK'
    BY <1>10 DEF IInv, TypeOK, RmCall, env, Phases, Unowned, Owned, Over
  <2>2. ASSUME NEW d \in Calls, d # c PROVE CallInv(d)'
    BY <1>10, <2>2 DEF IInv, TypeOK, RmCall, env, CallInv, ReturnInv, OwnerInv, LogInv, Held
  <2>3. CallInv(c)'
    BY <1>10 DEF IInv, TypeOK, RmCall, env, CallInv, ReturnInv, OwnerInv, LogInv, Held,
       Unowned, Owned, Over, Linux
  <2> QED BY <2>1, <2>2, <2>3 DEF IInv
<1>11. CASE Rm(c)
  <2>1. TypeOK'
    BY <1>11 DEF IInv, TypeOK, Rm, env, Phases, Unowned, Owned, Over
  <2>2. ASSUME NEW d \in Calls, d # c PROVE CallInv(d)'
    BY <1>11, <2>2 DEF IInv, TypeOK, Rm, env, CallInv, ReturnInv, OwnerInv, LogInv, Held
  <2>3. CallInv(c)'
    BY <1>11 DEF IInv, TypeOK, Rm, env, CallInv, ReturnInv, OwnerInv, LogInv, Held,
       Unowned, Owned, Over, Linux
  <2> QED BY <2>1, <2>2, <2>3 DEF IInv
<1>12. CASE DropCall(c)
  <2>1. TypeOK'
    BY <1>12 DEF IInv, TypeOK, DropCall, env, Phases, Unowned, Owned, Over
  <2>2. ASSUME NEW d \in Calls, d # c PROVE CallInv(d)'
    BY <1>12, <2>2 DEF IInv, TypeOK, DropCall, env, CallInv, ReturnInv, OwnerInv, LogInv, Held
  <2>3. CallInv(c)'
    BY <1>12 DEF IInv, TypeOK, DropCall, env, CallInv, ReturnInv, OwnerInv, LogInv, Held,
       Unowned, Owned, Over, Linux
  <2> QED BY <2>1, <2>2, <2>3 DEF IInv
<1>13. CASE Drop(c)
  <2>1. TypeOK'
    BY <1>13 DEF IInv, TypeOK, Drop, env, Phases, Unowned, Owned, Over
  <2>2. ASSUME NEW d \in Calls, d # c PROVE CallInv(d)'
    BY <1>13, <2>2 DEF IInv, TypeOK, Drop, env, CallInv, ReturnInv, OwnerInv, LogInv, Held
  <2>3. CallInv(c)'
    BY <1>13 DEF IInv, TypeOK, Drop, env, CallInv, ReturnInv, OwnerInv, LogInv, Held,
       Unowned, Owned, Over, Linux
  <2> QED BY <2>1, <2>2, <2>3 DEF IInv
<1>14. CASE Remove(c)
  <2>1. TypeOK'
    BY <1>14 DEF IInv, TypeOK, Remove, env, Phases, Unowned, Owned, Over
  <2>2. ASSUME NEW d \in Calls, d # c PROVE CallInv(d)'
    BY <1>14, <2>2 DEF IInv, TypeOK, Remove, env, CallInv, ReturnInv, OwnerInv, LogInv, Held
  <2>3. CallInv(c)'
    BY <1>14 DEF IInv, TypeOK, Remove, env, CallInv, ReturnInv, OwnerInv, LogInv, Held,
       Unowned, Owned, Over, Linux
  <2> QED BY <2>1, <2>2, <2>3 DEF IInv
<1>15. CASE DropEnd(c)
  <2>1. TypeOK'
    BY <1>15 DEF IInv, TypeOK, DropEnd, env, Phases, Unowned, Owned, Over
  <2>2. ASSUME NEW d \in Calls, d # c PROVE CallInv(d)'
    BY <1>15, <2>2 DEF IInv, TypeOK, DropEnd, env, CallInv, ReturnInv, OwnerInv, LogInv, Held
  <2>3. CallInv(c)'
    BY <1>15 DEF IInv, TypeOK, DropEnd, env, CallInv, ReturnInv, OwnerInv, LogInv, Held,
       Unowned, Owned, Over, Linux
  <2> QED BY <2>1, <2>2, <2>3 DEF IInv
<1> QED
  BY <1>1, <1>2, <1>3, <1>4, <1>5, <1>6, <1>7, <1>8, <1>9, <1>10, <1>11, <1>12, <1>13, <1>14, <1>15 DEF Work

(* Every step keeps the invariant; the end of the process touches no call. *)
LEMMA NextIInv == IInv /\ [Next]_vars => IInv'
<1> SUFFICES ASSUME IInv, [Next]_vars PROVE IInv'
  OBVIOUS
<1>1. CASE \E c \in Calls : Begin(c) \/ Work(c) \/ Cancel(c) \/ RmCall(c) \/ DropCall(c)
  BY <1>1, StepIInv
<1>2. CASE ProcessExit
  BY <1>2 DEF IInv, TypeOK, ProcessExit, env, CallInv, ReturnInv, OwnerInv, LogInv, Held
<1>3. CASE UNCHANGED vars
  BY <1>3 DEF IInv, TypeOK, vars, env, CallInv, ReturnInv, OwnerInv, LogInv, Held
<1> QED
  BY <1>1, <1>2, <1>3 DEF Next

(* The invariant holds in every state start(), rm() and Drop can reach.    *)
THEOREM Invariance == Spec => []IInv
<1>1. Init => IInv
  BY InitIInv
<1>2. IInv /\ [Next]_vars => IInv'
  BY NextIInv
<1> QED
  BY <1>1, <1>2, PTL DEF Spec

(* Every variable keeps its type.                                          *)
THEOREM TypeCorrect == Spec => []TypeOK
<1>1. IInv => TypeOK
  BY DEF IInv
<1> QED
  BY <1>1, Invariance, PTL

(* When a start() call or a handle is over its container is gone, unless a *)
(* removal was refused, is still running, or start() lost track of it.     *)
THEOREM NothingOrphaned == Spec => []NoOrphan
<1>1. IInv => NoOrphan
  <2> SUFFICES ASSUME IInv, NEW c \in Calls, pc[c] \in Over, ~keep, ~refused[c],
                      ~cut[c], remover[c] # "running"
               PROVE  ~there[c]
    BY DEF NoOrphan
  <2>1. remover[c] \in {"none", "done"} /\ OwnerInv(c)
    BY DEF IInv, TypeOK, CallInv
  <2> QED BY <2>1 DEF OwnerInv, Over
<1> QED
  BY <1>1, Invariance, PTL

(* A container in the user's hands exists, and no Drop removes again what  *)
(* rm removed.                                                             *)
THEOREM HandedOutExists == Spec => []OwnedIsThere
<1>1. IInv => OwnedIsThere
  BY DEF IInv, OwnedIsThere, CallInv, OwnerInv, Held
<1> QED
  BY <1>1, Invariance, PTL

(* No log session outlives its handle.                                     *)
THEOREM SessionsEnd == Spec => []SessionEnds
<1>1. IInv => SessionEnds
  BY DEF IInv, SessionEnds, CallInv, LogInv
<1> QED
  BY <1>1, Invariance, PTL

------------------------------------------------------------------------------
(* The refinement of ContainerContract.                                    *)

phaseMap == [d \in Calls |-> PhaseOf(d)]

(* A step that leaves the place, the answer and the wish of the other calls *)
(* alone changes the phase of one call only.                               *)
LEMMA OnePhase ==
  ASSUME NEW c \in Calls,
         \A d \in Calls \ {c} : /\ pc'[d] = pc[d] /\ asked'[d] = asked[d]
                                /\ returned'[d] = returned[d]
  PROVE  phaseMap' = [phaseMap EXCEPT ![c] = PhaseOf(c)']
<1>1. ASSUME NEW d \in Calls, d # c PROVE PhaseOf(d)' = PhaseOf(d)
  BY <1>1 DEF PhaseOf, Ended
<1> QED
  BY <1>1 DEF phaseMap

(* The same when the phase of that call does not change either.            *)
LEMMA SamePhase ==
  ASSUME NEW c \in Calls,
         \A d \in Calls \ {c} : /\ pc'[d] = pc[d] /\ asked'[d] = asked[d]
                                /\ returned'[d] = returned[d],
         PhaseOf(c)' = PhaseOf(c)
  PROVE  phaseMap' = phaseMap
<1>1. phaseMap' = [phaseMap EXCEPT ![c] = PhaseOf(c)']
  BY OnePhase
<1> QED
  BY <1>1 DEF phaseMap

(* Every step of a call is a step of the contract or changes nothing in it. *)
LEMMA ContractStep ==
  ASSUME IInv, NEW c \in Calls,
         Begin(c) \/ Work(c) \/ Cancel(c) \/ RmCall(c) \/ DropCall(c)
  PROVE  Contract!Next \/ UNCHANGED Contract!vars
<1> USE DEF Go, Set
<1>0. /\ CallInv(c) /\ pc \in [Calls -> Phases] /\ asked \in [Calls -> BOOLEAN]
      /\ returned \in [Calls -> {"none", "ok", "err"}] /\ there \in [Calls -> BOOLEAN]
  BY DEF IInv, TypeOK
<1>1. CASE Begin(c)
  <2>1. \A d \in Calls \ {c} : /\ pc'[d] = pc[d] /\ asked'[d] = asked[d]
                                /\ returned'[d] = returned[d]
    BY <1>0, <1>1 DEF Begin
  <2>2. PhaseOf(c) = "none" /\ PhaseOf(c)' = "starting"
    BY <1>0, <1>1 DEF Begin, PhaseOf, Ended, Linux, CallInv, ReturnInv, OwnerInv, LogInv,
        Held, Unowned, Owned, Over
  <2>3. phaseMap' = [phaseMap EXCEPT ![c] = "starting"]
    BY <2>1, <2>2, OnePhase
  <2>4. Contract!Begin(c)
    BY <1>0, <1>1, <2>2, <2>3 DEF Begin, env, phaseMap, Contract!Begin, Contract!Move
  <2> QED BY <2>4 DEF Contract!Next
<1>2. CASE Resolve(c)
  <2>1. \A d \in Calls \ {c} : /\ pc'[d] = pc[d] /\ asked'[d] = asked[d]
                                /\ returned'[d] = returned[d]
    BY <1>0, <1>2 DEF Resolve
  <2>2. CASE UNCHANGED returned
    <3>1. PhaseOf(c) = "starting" /\ PhaseOf(c)' = "starting"
      BY <1>0, <1>2, <2>2 DEF Resolve, PhaseOf, Ended, Linux, CallInv, ReturnInv, OwnerInv,
          LogInv, Held, Unowned, Owned, Over
    <3>2. phaseMap' = phaseMap
      BY <2>1, <3>1, SamePhase
    <3> QED BY <1>0, <1>2, <2>2, <3>2 DEF Resolve, env, phaseMap, Contract!vars
  <2>3. CASE returned' = Set(returned, c, "err") /\ pc'[c] = "err"
    <3>1. PhaseOf(c) = "starting" /\ PhaseOf(c)' = "failed"
      BY <1>0, <1>2, <2>3 DEF Resolve, PhaseOf, Ended, Linux, CallInv, ReturnInv, OwnerInv,
          LogInv, Held, Unowned, Owned, Over
    <3>2. phaseMap' = [phaseMap EXCEPT ![c] = "failed"]
      BY <2>1, <3>1, OnePhase
    <3>3. Contract!Fail(c)
      BY <1>0, <1>2, <2>3, <3>1, <3>2 DEF Resolve, env, phaseMap, Contract!Fail,
          Contract!Move, CallInv, ReturnInv, OwnerInv, LogInv, Held, Unowned, Owned,
          Over
    <3> QED BY <3>3 DEF Contract!Next
  <2> QED BY <1>0, <1>2, <2>2, <2>3 DEF Resolve, Owned, Unowned
<1>3. CASE CreateOk(c)
  <2>1. \A d \in Calls \ {c} : /\ pc'[d] = pc[d] /\ asked'[d] = asked[d]
                                /\ returned'[d] = returned[d]
    BY <1>0, <1>3 DEF CreateOk
  <2>2. PhaseOf(c) = "starting" /\ PhaseOf(c)' = "starting"
    BY <1>0, <1>3 DEF CreateOk, PhaseOf, Ended, Linux, CallInv, ReturnInv, OwnerInv, LogInv,
        Held, Unowned, Owned, Over
  <2>3. phaseMap' = phaseMap
    BY <2>1, <2>2, SamePhase
  <2>4. Contract!Create(c)
    BY <1>0, <1>3, <2>2, <2>3 DEF CreateOk, env, phaseMap, Contract!Create
  <2> QED BY <2>4 DEF Contract!Next
<1>4. CASE CreateFail(c)
  <2>1. \A d \in Calls \ {c} : /\ pc'[d] = pc[d] /\ asked'[d] = asked[d]
                                /\ returned'[d] = returned[d]
    BY <1>0, <1>4 DEF CreateFail
  <2>2. PhaseOf(c) = "starting" /\ PhaseOf(c)' = "failed"
    BY <1>0, <1>4 DEF CreateFail, PhaseOf, Ended, Linux, CallInv, ReturnInv, OwnerInv,
        LogInv, Held, Unowned, Owned, Over
  <2>3. phaseMap' = [phaseMap EXCEPT ![c] = "failed"]
    BY <2>1, <2>2, OnePhase
  <2>4. PICK made \in BOOLEAN : there' = Set(there, c, made)
    BY <1>4 DEF CreateFail
  <2>5. there' \in {there, Set(there, c, TRUE)}
    <3>1. CASE made
      BY <2>4, <3>1
    <3>2. CASE ~made
      BY <1>0, <1>4, <2>4, <3>2 DEF CreateFail, CallInv, OwnerInv
    <3> QED BY <3>1, <3>2
  <2>6. Contract!Fail(c)
    BY <1>0, <2>2, <2>3, <2>5, <1>4 DEF CreateFail, env, phaseMap, Contract!Fail,
        Contract!Move, CallInv, ReturnInv, OwnerInv, LogInv, Held, Unowned, Owned, Over
  <2> QED BY <2>6 DEF Contract!Next
<1>5. CASE Prepare(c)
  <2>1. \A d \in Calls \ {c} : /\ pc'[d] = pc[d] /\ asked'[d] = asked[d]
                                /\ returned'[d] = returned[d]
    BY <1>0, <1>5 DEF Prepare
  <2>2. CASE UNCHANGED returned
    <3>1. PhaseOf(c) = "starting" /\ PhaseOf(c)' = "starting"
      BY <1>0, <1>5, <2>2 DEF Prepare, After, PhaseOf, Ended, Linux, CallInv, ReturnInv,
          OwnerInv, LogInv, Held, Unowned, Owned, Over
    <3>2. phaseMap' = phaseMap
      BY <2>1, <3>1, SamePhase
    <3> QED BY <1>0, <1>5, <2>2, <3>2 DEF Prepare, env, phaseMap, Contract!vars
  <2>3. CASE pc'[c] = "rollback"
    <3>1. PhaseOf(c) = "starting" /\ PhaseOf(c)' = "failed"
      BY <1>0, <1>5, <2>3 DEF Prepare, After, PhaseOf, Ended, Linux, CallInv, ReturnInv,
          OwnerInv, LogInv, Held, Unowned, Owned, Over
    <3>2. phaseMap' = [phaseMap EXCEPT ![c] = "failed"]
      BY <2>1, <3>1, OnePhase
    <3>3. Contract!Fail(c)
      BY <1>0, <1>5, <2>3, <3>1, <3>2 DEF Prepare, env, phaseMap, Contract!Fail,
          Contract!Move, CallInv, ReturnInv, OwnerInv, LogInv, Held, Unowned, Owned,
          Over
    <3> QED BY <3>3 DEF Contract!Next
  <2> QED BY <1>0, <1>5, <2>2, <2>3 DEF Prepare, After, Owned, Unowned
<1>6. CASE Log(c)
  <2>1. \A d \in Calls \ {c} : /\ pc'[d] = pc[d] /\ asked'[d] = asked[d]
                                /\ returned'[d] = returned[d]
    BY <1>0, <1>6 DEF Log
  <2>2. CASE pc'[c] \in Owned
    <3>1. PhaseOf(c) = "starting" /\ PhaseOf(c)' = "starting"
      BY <1>0, <1>6, <2>2 DEF Log, PhaseOf, Ended, Linux, CallInv, ReturnInv, OwnerInv,
          LogInv, Held, Unowned, Owned, Over
    <3>2. phaseMap' = phaseMap
      BY <2>1, <3>1, SamePhase
    <3> QED BY <1>0, <1>6, <2>2, <3>2 DEF Log, env, phaseMap, Contract!vars
  <2>3. CASE pc'[c] = "rollback"
    <3>1. PhaseOf(c) = "starting" /\ PhaseOf(c)' = "failed"
      BY <1>0, <1>6, <2>3 DEF Log, PhaseOf, Ended, Linux, CallInv, ReturnInv, OwnerInv,
          LogInv, Held, Unowned, Owned, Over
    <3>2. phaseMap' = [phaseMap EXCEPT ![c] = "failed"]
      BY <2>1, <3>1, OnePhase
    <3>3. Contract!Fail(c)
      BY <1>0, <1>6, <2>3, <3>1, <3>2 DEF Log, env, phaseMap, Contract!Fail,
          Contract!Move, CallInv, ReturnInv, OwnerInv, LogInv, Held, Unowned, Owned,
          Over
    <3> QED BY <3>3 DEF Contract!Next
  <2> QED BY <1>0, <1>6, <2>2, <2>3 DEF Log, Owned, Unowned
<1>7. CASE Rollback(c)
  <2>1. \A d \in Calls \ {c} : /\ pc'[d] = pc[d] /\ asked'[d] = asked[d]
                                /\ returned'[d] = returned[d]
    BY <1>0, <1>7 DEF Rollback
  <2>2. CASE UNCHANGED there
    <3>1. PhaseOf(c) = "failed" /\ PhaseOf(c)' = "failed"
      BY <1>0, <1>7, <2>2 DEF Rollback, PhaseOf, Ended, Linux, CallInv, ReturnInv, OwnerInv,
          LogInv, Held, Unowned, Owned, Over
    <3>2. phaseMap' = phaseMap
      BY <2>1, <3>1, SamePhase
    <3> QED BY <1>0, <1>7, <2>2, <3>2 DEF Rollback, env, phaseMap, Contract!vars
  <2>3. CASE ~keep /\ there' = Set(there, c, FALSE)
    <3>1. PhaseOf(c) = "failed" /\ PhaseOf(c)' = "failed"
      BY <1>0, <1>7, <2>3 DEF Rollback, PhaseOf, Ended, Linux, CallInv, ReturnInv, OwnerInv,
          LogInv, Held, Unowned, Owned, Over
    <3>2. phaseMap' = phaseMap
      BY <2>1, <3>1, SamePhase
    <3>3. Contract!Remove(c)
      BY <1>0, <1>7, <2>3, <3>1, <3>2 DEF Rollback, env, phaseMap, Contract!Remove
    <3> QED BY <3>3 DEF Contract!Next
  <2> QED BY <1>0, <1>7, <2>2, <2>3 DEF Rollback, Owned, Unowned
<1>8. CASE Ready(c)
  <2>1. \A d \in Calls \ {c} : /\ pc'[d] = pc[d] /\ asked'[d] = asked[d]
                                /\ returned'[d] = returned[d]
    BY <1>0, <1>8 DEF Ready
  <2>2. CASE pc'[c] = "ready"
    <3>1. PhaseOf(c) = "starting" /\ PhaseOf(c)' = "starting"
      BY <1>0, <1>8, <2>2 DEF Ready, PhaseOf, Ended, Linux, CallInv, ReturnInv, OwnerInv,
          LogInv, Held, Unowned, Owned, Over
    <3>2. phaseMap' = phaseMap
      BY <2>1, <3>1, SamePhase
    <3> QED BY <1>0, <1>8, <2>2, <3>2 DEF Ready, env, phaseMap, Contract!vars
  <2>3. CASE pc'[c] = "owned"
    <3>1. PhaseOf(c) = "starting" /\ PhaseOf(c)' = "owned"
      BY <1>0, <1>8, <2>3 DEF Ready, PhaseOf, Ended, Linux, CallInv, ReturnInv, OwnerInv,
          LogInv, Held, Unowned, Owned, Over
    <3>2. phaseMap' = [phaseMap EXCEPT ![c] = "owned"]
      BY <2>1, <3>1, OnePhase
    <3>3. Contract!Return(c)
      BY <1>0, <1>8, <2>3, <3>1, <3>2 DEF Ready, env, phaseMap, Contract!Return,
          Contract!Move, CallInv, ReturnInv, OwnerInv, LogInv, Held, Unowned, Owned,
          Over
    <3> QED BY <3>3 DEF Contract!Next
  <2>4. CASE pc'[c] \in {"dropping", "cleanup"}
    <3>1. PhaseOf(c) = "starting" /\ PhaseOf(c)' = "failed"
      BY <1>0, <1>8, <2>4 DEF Ready, PhaseOf, Ended, Linux, CallInv, ReturnInv, OwnerInv,
          LogInv, Held, Unowned, Owned, Over
    <3>2. phaseMap' = [phaseMap EXCEPT ![c] = "failed"]
      BY <2>1, <3>1, OnePhase
    <3>3. Contract!Fail(c)
      BY <1>0, <1>8, <2>4, <3>1, <3>2 DEF Ready, env, phaseMap, Contract!Fail,
          Contract!Move, CallInv, ReturnInv, OwnerInv, LogInv, Held, Unowned, Owned,
          Over
    <3> QED BY <3>3 DEF Contract!Next
  <2> QED BY <1>0, <1>8, <2>2, <2>3, <2>4 DEF Ready, Owned, Unowned
<1>9. CASE Cancel(c)
  <2>1. \A d \in Calls \ {c} : /\ pc'[d] = pc[d] /\ asked'[d] = asked[d]
                                /\ returned'[d] = returned[d]
    BY <1>0, <1>9 DEF Cancel
  <2>2. CASE pc[c] # "rollback"
    <3>1. PhaseOf(c) = "starting" /\ PhaseOf(c)' = "failed"
      BY <1>0, <1>9, <2>2 DEF Cancel, PhaseOf, Ended, Linux, CallInv, ReturnInv, OwnerInv,
          LogInv, Held, Unowned, Owned, Over
    <3>2. phaseMap' = [phaseMap EXCEPT ![c] = "failed"]
      BY <2>1, <3>1, OnePhase
    <3>3. Contract!Fail(c)
      BY <1>0, <1>9, <2>2, <3>1, <3>2 DEF Cancel, env, phaseMap, Contract!Fail,
          Contract!Move, CallInv, ReturnInv, OwnerInv, LogInv, Held, Unowned, Owned,
          Over
    <3> QED BY <3>3 DEF Contract!Next
  <2>3. CASE pc[c] = "rollback" /\ UNCHANGED there
    <3>1. PhaseOf(c) = "failed" /\ PhaseOf(c)' = "failed"
      BY <1>0, <1>9, <2>3 DEF Cancel, PhaseOf, Ended, Linux, CallInv, ReturnInv, OwnerInv,
          LogInv, Held, Unowned, Owned, Over
    <3>2. phaseMap' = phaseMap
      BY <2>1, <3>1, SamePhase
    <3> QED BY <1>0, <1>9, <2>3, <3>2 DEF Cancel, env, phaseMap, Contract!vars
  <2>4. CASE pc[c] = "rollback" /\ ~keep /\ there' = Set(there, c, FALSE)
    <3>1. PhaseOf(c) = "failed" /\ PhaseOf(c)' = "failed"
      BY <1>0, <1>9, <2>4 DEF Cancel, PhaseOf, Ended, Linux, CallInv, ReturnInv, OwnerInv,
          LogInv, Held, Unowned, Owned, Over
    <3>2. phaseMap' = phaseMap
      BY <2>1, <3>1, SamePhase
    <3>3. Contract!Remove(c)
      BY <1>0, <1>9, <2>4, <3>1, <3>2 DEF Cancel, env, phaseMap, Contract!Remove
    <3> QED BY <3>3 DEF Contract!Next
  <2> QED BY <1>0, <1>9, <2>2, <2>3, <2>4 DEF Cancel, Owned, Unowned
<1>10. CASE RmCall(c)
  <2>1. \A d \in Calls \ {c} : /\ pc'[d] = pc[d] /\ asked'[d] = asked[d]
                                /\ returned'[d] = returned[d]
    BY <1>0, <1>10 DEF RmCall
  <2>2. PhaseOf(c) = "owned" /\ PhaseOf(c)' = "removing"
    BY <1>0, <1>10 DEF RmCall, PhaseOf, Ended, Linux, CallInv, ReturnInv, OwnerInv, LogInv,
        Held, Unowned, Owned, Over
  <2>3. phaseMap' = [phaseMap EXCEPT ![c] = "removing"]
    BY <2>1, <2>2, OnePhase
  <2>4. Contract!AskRemove(c)
    BY <1>0, <1>10, <2>2, <2>3 DEF RmCall, env, phaseMap, Contract!AskRemove,
        Contract!Move
  <2> QED BY <2>4 DEF Contract!Next
<1>11. CASE Rm(c)
  <2>1. \A d \in Calls \ {c} : /\ pc'[d] = pc[d] /\ asked'[d] = asked[d]
                                /\ returned'[d] = returned[d]
    BY <1>0, <1>11 DEF Rm
  <2>2. CASE UNCHANGED there
    <3>1. PhaseOf(c)' = PhaseOf(c)
      BY <1>0, <1>11, <2>2 DEF Rm, PhaseOf, Ended, Phases, CallInv, ReturnInv, OwnerInv,
          LogInv, Held, Unowned, Owned, Over
    <3>2. phaseMap' = phaseMap
      BY <2>1, <3>1, SamePhase
    <3> QED BY <1>0, <1>11, <2>2, <3>2 DEF Rm, env, phaseMap, Contract!vars
  <2>3. CASE there' = Set(there, c, FALSE)
    <3>1. /\ PhaseOf(c)' = PhaseOf(c)
          /\ PhaseOf(c) = "removing" \/ (~keep /\ PhaseOf(c) = "failed")
      <4>1. /\ pc[c] = "cleanup" /\ pc'[c] = "dropping"
            /\ asked' = asked /\ returned' = returned
        BY <1>0, <1>11 DEF Rm
      <4>2. CASE asked[c]
        BY <4>1, <4>2 DEF PhaseOf, Ended, Unowned, Owned
      <4>3. CASE ~asked[c]
        <5>1. returned[c] = "err" /\ ~keep
          BY <1>0, <4>1, <4>3 DEF CallInv, ReturnInv
        <5> QED BY <4>1, <4>3, <5>1 DEF PhaseOf, Ended, Unowned, Owned
      <4> QED BY <4>2, <4>3
    <3>2. phaseMap' = phaseMap
      BY <2>1, <3>1, SamePhase
    <3>3. Contract!Remove(c)
      BY <1>0, <1>11, <2>3, <3>1, <3>2 DEF Rm, env, phaseMap, Contract!Remove
    <3> QED BY <3>3 DEF Contract!Next
  <2> QED BY <1>0, <1>11, <2>2, <2>3 DEF Rm, Owned, Unowned
<1>12. CASE DropCall(c)
  <2>1. \A d \in Calls \ {c} : /\ pc'[d] = pc[d] /\ asked'[d] = asked[d]
                                /\ returned'[d] = returned[d]
    BY <1>0, <1>12 DEF DropCall
  <2>2. PhaseOf(c) = "owned" /\ PhaseOf(c)' = "released"
    BY <1>0, <1>12 DEF DropCall, PhaseOf, Ended, Linux, CallInv, ReturnInv, OwnerInv,
        LogInv, Held, Unowned, Owned, Over
  <2>3. phaseMap' = [phaseMap EXCEPT ![c] = "released"]
    BY <2>1, <2>2, OnePhase
  <2>4. Contract!Release(c)
    BY <1>0, <1>12, <2>2, <2>3 DEF DropCall, env, phaseMap, Contract!Release,
        Contract!Move
  <2> QED BY <2>4 DEF Contract!Next
<1>13. CASE Drop(c)
  <2>1. \A d \in Calls \ {c} : /\ pc'[d] = pc[d] /\ asked'[d] = asked[d]
                                /\ returned'[d] = returned[d]
    BY <1>0, <1>13 DEF Drop
  <2>2. PhaseOf(c)' = PhaseOf(c)
    BY <1>0, <1>13 DEF Drop, PhaseOf, Ended, Phases, CallInv, ReturnInv, OwnerInv, LogInv,
        Held, Unowned, Owned, Over
  <2>3. phaseMap' = phaseMap
    BY <2>1, <2>2, SamePhase
  <2> QED BY <1>0, <1>13, <2>3 DEF Drop, env, phaseMap, Contract!vars
<1>14. CASE Remove(c)
  <2>1. \A d \in Calls \ {c} : /\ pc'[d] = pc[d] /\ asked'[d] = asked[d]
                                /\ returned'[d] = returned[d]
    BY <1>0, <1>14 DEF Remove
  <2>2. CASE UNCHANGED there
    <3>1. PhaseOf(c)' = PhaseOf(c)
      BY <1>0, <1>14, <2>2 DEF Remove, PhaseOf, Ended, Phases, CallInv, ReturnInv, OwnerInv,
          LogInv, Held, Unowned, Owned, Over
    <3>2. phaseMap' = phaseMap
      BY <2>1, <3>1, SamePhase
    <3> QED BY <1>0, <1>14, <2>2, <3>2 DEF Remove, env, phaseMap, Contract!vars
  <2>3. CASE there' = Set(there, c, FALSE)
    <3>1. /\ PhaseOf(c)' = PhaseOf(c)
          /\ \/ PhaseOf(c) = "removing"
             \/ ~keep /\ PhaseOf(c) \in {"failed", "released"}
      BY <1>0, <1>14, <2>3 DEF Remove, PhaseOf, Ended, Phases, CallInv, ReturnInv, OwnerInv,
          LogInv, Held, Unowned, Owned, Over
    <3>2. phaseMap' = phaseMap
      BY <2>1, <3>1, SamePhase
    <3>3. Contract!Remove(c)
      BY <1>0, <1>14, <2>3, <3>1, <3>2 DEF Remove, env, phaseMap, Contract!Remove
    <3> QED BY <3>3 DEF Contract!Next
  <2> QED BY <1>0, <1>14, <2>2, <2>3 DEF Remove, Owned, Unowned
<1>15. CASE DropEnd(c)
  <2>1. \A d \in Calls \ {c} : /\ pc'[d] = pc[d] /\ asked'[d] = asked[d]
                                /\ returned'[d] = returned[d]
    BY <1>0, <1>15 DEF DropEnd
  <2>2. PhaseOf(c)' = PhaseOf(c)
    BY <1>0, <1>15 DEF DropEnd, PhaseOf, Ended, Phases, CallInv, ReturnInv, OwnerInv,
        LogInv, Held, Unowned, Owned, Over
  <2>3. phaseMap' = phaseMap
    BY <2>1, <2>2, SamePhase
  <2> QED BY <1>0, <1>15, <2>3 DEF DropEnd, env, phaseMap, Contract!vars
<1> QED
  BY <1>1, <1>2, <1>3, <1>4, <1>5, <1>6, <1>7, <1>8, <1>9, <1>10, <1>11, <1>12,
      <1>13, <1>14, <1>15 DEF Work

(* The same of every step, the end of the process included.                *)
LEMMA NextContract == IInv /\ [Next]_vars => [Contract!Next]_(Contract!vars)
<1> SUFFICES ASSUME IInv, [Next]_vars PROVE Contract!Next \/ UNCHANGED Contract!vars
  OBVIOUS
<1>1. CASE \E c \in Calls : Begin(c) \/ Work(c) \/ Cancel(c) \/ RmCall(c) \/ DropCall(c)
  BY <1>1, ContractStep
<1>2. CASE ProcessExit
  BY <1>2 DEF ProcessExit, env, Contract!vars, PhaseOf, Ended
<1>3. CASE UNCHANGED vars
  BY <1>3 DEF vars, env, Contract!vars, PhaseOf, Ended
<1> QED
  BY <1>1, <1>2, <1>3 DEF Next

(* start(), rm() and Drop implement ContainerContract: only an existing    *)
(* container is handed out, and one disappears only after a failed start,  *)
(* an rm or a Drop, with keep only after an rm.                            *)
THEOREM Refinement == Spec => ContractSpec
<1>1. ASSUME Init PROVE Contract!Init
  <2>1. \A c \in Calls : PhaseOf(c) = "none"
    BY <1>1 DEF Init, PhaseOf, Unowned, Owned
  <2> QED
    BY <1>1, <2>1 DEF Init, Contract!Init
<1>2. IInv /\ [Next]_vars => [Contract!Next]_(Contract!vars)
  BY NextContract
<1> QED
  BY <1>1, <1>2, Invariance, PTL DEF Spec, ContractSpec, Contract!Spec

(* With TESTCONTAINERS_COMMAND=keep a created container disappears only    *)
(* after an explicit rm.  A consequence of the contract.                   *)
THEOREM KeepIsKept == Spec => KeepKeeps
<1>1. ASSUME IInv, [Next]_vars, NEW c \in Calls, keep, there[c], ~there'[c]
      PROVE  asked[c]
  <2>1. there \in [Calls -> BOOLEAN]
    BY <1>1 DEF IInv, TypeOK
  <2>2. Contract!Next \/ UNCHANGED Contract!vars
    BY <1>1, NextContract
  <2>3. PICK d \in Calls : \/ Contract!Begin(d) \/ Contract!Create(d)
                           \/ Contract!Return(d) \/ Contract!Fail(d)
                           \/ Contract!AskRemove(d) \/ Contract!Release(d)
                           \/ Contract!Remove(d)
    BY <1>1, <2>2 DEF Contract!Next, Contract!vars
  <2>4. Contract!Remove(d)
    BY <1>1, <2>1, <2>3 DEF Contract!Begin, Contract!Create, Contract!Return,
       Contract!Fail, Contract!AskRemove, Contract!Release
  <2>5. PhaseOf(d) = "removing" /\ d = c
    BY <1>1, <2>1, <2>4 DEF Contract!Remove
  <2> QED
    BY <2>5 DEF PhaseOf, Ended, Unowned, Owned
<1>2. IInv /\ [Next]_vars =>
        [\A c \in Calls : (keep /\ there[c] /\ ~there'[c]) => asked[c]]_vars
  BY <1>1
<1> QED
  BY <1>2, Invariance, PTL DEF Spec, KeepKeeps

==============================================================================
