---------------------------- MODULE RestartProofs ----------------------------
(***************************************************************************)
(* Proofs about Restart, for any number of restarts and on both platforms: *)
(* no exit code of an earlier run is recorded or returned, and a recorded  *)
(* code is that of the current run, for any number of concurrent callers;  *)
(* the log delivery follows the container when start() calls do not        *)
(* overlap.                                                                *)
(***************************************************************************)
EXTENDS Restart, FiniteSetTheorems, TLAPS

States == {"none", "spawned", "waiting", "got", "done", "failed"}
AskStates == {"idle", "state", "generation", "call", "wait", "store"}

(* The types the argument needs; that generation stays within Gens is a    *)
(* matter of counting starters, see Counted.                               *)
Types ==
  /\ run \in Nat /\ generation \in Nat /\ bumpedAt \in Nat /\ exitCode \in Codes
  /\ waiter \in [Gens -> States] /\ target \in [Gens -> Nat]
  /\ apc \in [Askers -> AskStates]
  /\ askGen \in [Askers -> Nat] /\ askRun \in [Askers -> Nat]
  /\ answer \in [Askers -> Codes] /\ floor \in [Askers -> Nat]

(* The last bump was made for the current or an earlier run. *)
BumpedPast == bumpedAt <= run

(* The wait call of the current generation is about a run since its bump.  *)
WaiterFresh(g) ==
  (g = generation /\ waiter[g] \in {"waiting", "got"}) => bumpedAt <= target[g]

(* exit_code() read its generation before it called wait: if that is still *)
(* the current one, the call is about a run since the bump.                *)
AskFresh(c) ==
  /\ askGen[c] <= generation
  /\ (apc[c] \in {"wait", "store"} /\ askGen[c] = generation)
       => bumpedAt <= askRun[c]

(* The inductive invariant: what is recorded is fresh because what may     *)
(* still be recorded is.                                                   *)
IInv ==
  /\ Types /\ BumpedPast /\ NoOldCode /\ AnswerNotOld
  /\ \A g \in Gens : WaiterFresh(g)
  /\ \A c \in Askers : AskFresh(c)

recordVars == <<run, waitVars, waiterVars, askVars>>

(* Nothing is recorded when a container is started for the first time.     *)
LEMMA InitIInv == Init => IInv
<1> SUFFICES ASSUME Init PROVE IInv
  OBVIOUS
<1>1. Types
  BY RestartAssumption DEF Init, Types, States, AskStates, Codes, None, Gens
<1>2. BumpedPast /\ NoOldCode /\ AnswerNotOld
  BY DEF Init, BumpedPast, NoOldCode, AnswerNotOld
<1>3. \A g \in Gens : WaiterFresh(g)
  BY DEF Init, WaiterFresh
<1>4. \A c \in Askers : AskFresh(c)
  BY DEF Init, AskFresh
<1> QED
  BY <1>1, <1>2, <1>3, <1>4 DEF IInv

(* A step that touches no code, waiter or question keeps the invariant.    *)
LEMMA NothingRecorded == ASSUME IInv, UNCHANGED recordVars PROVE IInv'
<1>1. /\ run' = run /\ generation' = generation /\ exitCode' = exitCode
      /\ bumpedAt' = bumpedAt /\ waiter' = waiter /\ target' = target
      /\ apc' = apc /\ askGen' = askGen /\ askRun' = askRun
      /\ answer' = answer /\ floor' = floor
  BY DEF recordVars, waitVars, waiterVars, askVars
<1>2. Types' /\ BumpedPast' /\ NoOldCode' /\ AnswerNotOld'
  BY <1>1 DEF IInv, Types, BumpedPast, NoOldCode, AnswerNotOld
<1>3. (\A g \in Gens : WaiterFresh(g)') /\ (\A c \in Askers : AskFresh(c)')
  BY <1>1 DEF IInv, WaiterFresh, AskFresh
<1> QED
  BY <1>2, <1>3 DEF IInv

(* A new run makes nothing that is recorded older than the last bump.      *)
LEMMA NewRun ==
  ASSUME IInv, run' \in {run, run + 1}, UNCHANGED <<waitVars, waiterVars, askVars>>
  PROVE  IInv'
<1>1. /\ generation' = generation /\ exitCode' = exitCode
      /\ bumpedAt' = bumpedAt /\ waiter' = waiter /\ target' = target
      /\ apc' = apc /\ askGen' = askGen /\ askRun' = askRun
      /\ answer' = answer /\ floor' = floor
  BY DEF waitVars, waiterVars, askVars
<1>2. Types' /\ BumpedPast'
  BY <1>1 DEF IInv, Types, BumpedPast
<1>3. NoOldCode' /\ AnswerNotOld'
  BY <1>1 DEF IInv, NoOldCode, AnswerNotOld
<1>4. (\A g \in Gens : WaiterFresh(g)') /\ (\A c \in Askers : AskFresh(c)')
  BY <1>1 DEF IInv, WaiterFresh, AskFresh
<1> QED
  BY <1>2, <1>3, <1>4 DEF IInv

(* bump clears the code; calls of earlier generations no longer count.     *)
LEMMA BumpIInv == ASSUME IInv, NEW c \in Starters, Bump(c) PROVE IInv'
<1> USE DEF IInv
<1>1. /\ run' = run /\ generation' = generation + 1 /\ exitCode' = None
      /\ bumpedAt' = run /\ target' = target
      /\ waiter' = [waiter EXCEPT ![generation + 1] = "spawned"]
      /\ apc' = apc /\ askGen' = askGen /\ askRun' = askRun
      /\ answer' = answer /\ floor' = floor
  BY DEF Bump, contVars, askVars
<1>2. Types'
  <2>1. waiter \in [Gens -> States] /\ "spawned" \in States
    BY DEF Types, States
  <2>2. waiter' \in [Gens -> States]
    BY <1>1, <2>1
  <2> QED BY <1>1, <2>2 DEF Types, Codes
<1>3. BumpedPast' /\ NoOldCode' /\ AnswerNotOld'
  BY <1>1 DEF Types, BumpedPast, NoOldCode, AnswerNotOld
<1>4. ASSUME NEW g \in Gens PROVE WaiterFresh(g)'
  <2>1. g = generation' => waiter'[g] = "spawned"
    BY <1>1 DEF Types
  <2> QED BY <2>1 DEF WaiterFresh
<1>5. ASSUME NEW d \in Askers PROVE AskFresh(d)'
  <2>1. askGen[d] \in Nat /\ generation \in Nat /\ askGen[d] <= generation
    BY DEF Types, AskFresh
  <2> QED BY <1>1, <2>1 DEF AskFresh
<1> QED
  BY <1>2, <1>3, <1>4, <1>5

(* A waiter's steps: its call is about the run in place, and only the      *)
(* current generation records what it returned.                            *)
LEMMA WaitIInv ==
  ASSUME IInv, NEW g \in Gens, Wait(g) \/ WaiterFail(g)
  PROVE  IInv'
<1> USE DEF IInv
<1>1. CASE WaiterCall(g)
  <2>1. /\ run' = run /\ generation' = generation /\ exitCode' = exitCode
        /\ bumpedAt' = bumpedAt
        /\ waiter' = [waiter EXCEPT ![g] = "waiting"]
        /\ target' = [target EXCEPT ![g] = run]
        /\ UNCHANGED <<apc, askGen, askRun, answer, floor>>
    BY <1>1 DEF WaiterCall, contVars, waitVars, askVars
  <2>2. Types'
    BY <2>1 DEF Types, States
  <2>3. BumpedPast' /\ NoOldCode' /\ AnswerNotOld' /\ \A c \in Askers : AskFresh(c)'
    BY <2>1 DEF BumpedPast, NoOldCode, AnswerNotOld, AskFresh
  <2>4. \A h \in Gens : WaiterFresh(h)'
    BY <2>1 DEF WaiterFresh, Types, BumpedPast
  <2> QED BY <2>2, <2>3, <2>4
<1>2. CASE WaiterReturn(g) \/ WaiterFail(g)
  <2>1. /\ run' = run /\ generation' = generation /\ exitCode' = exitCode
        /\ bumpedAt' = bumpedAt /\ target' = target /\ waiter[g] = "waiting"
        /\ \E w \in {"got", "failed"} : waiter' = [waiter EXCEPT ![g] = w]
        /\ UNCHANGED <<apc, askGen, askRun, answer, floor>>
    BY <1>2 DEF WaiterReturn, WaiterFail, contVars, waitVars, askVars
  <2>2. Types'
    BY <2>1 DEF Types, States
  <2>3. BumpedPast' /\ NoOldCode' /\ AnswerNotOld' /\ \A c \in Askers : AskFresh(c)'
    BY <2>1 DEF BumpedPast, NoOldCode, AnswerNotOld, AskFresh
  <2>4. \A h \in Gens : WaiterFresh(h)'
    BY <2>1 DEF WaiterFresh, Types
  <2> QED BY <2>2, <2>3, <2>4
<1>3. CASE WaiterStore(g)
  <2>1. /\ run' = run /\ generation' = generation /\ bumpedAt' = bumpedAt
        /\ target' = target /\ waiter[g] = "got"
        /\ waiter' = [waiter EXCEPT ![g] = "done"]
        /\ exitCode' = IF g = generation THEN target[g] ELSE exitCode
        /\ UNCHANGED <<apc, askGen, askRun, answer, floor>>
    BY <1>3 DEF WaiterStore, store_if_current, Current, contVars, askVars
  <2>2. Types'
    BY <2>1 DEF Types, States, Codes
  <2>3. BumpedPast' /\ AnswerNotOld' /\ \A c \in Askers : AskFresh(c)'
    BY <2>1 DEF BumpedPast, AnswerNotOld, AskFresh
  <2>4. NoOldCode'
    BY <2>1 DEF NoOldCode, WaiterFresh
  <2>5. \A h \in Gens : WaiterFresh(h)'
    BY <2>1 DEF WaiterFresh, Types
  <2> QED BY <2>2, <2>3, <2>4, <2>5
<1> QED
  BY <1>1, <1>2, <1>3 DEF Wait

Ask(c) ==
  \/ AskCached(c) \/ AskState(c) \/ AskGeneration(c) \/ AskCall(c)
  \/ AskReturn(c) \/ AskTimeout(c) \/ AskStore(c)

(* exit_code(): what it returns was recorded since the bump it saw, or is  *)
(* of a call made since.                                                   *)
LEMMA AskIInv == ASSUME IInv, NEW c \in Askers, Ask(c) PROVE IInv'
<1> USE DEF IInv
<1>w. ASSUME UNCHANGED <<run, generation, bumpedAt, waiterVars>>
      PROVE  BumpedPast' /\ \A g \in Gens : WaiterFresh(g)'
  BY <1>w DEF BumpedPast, WaiterFresh, waiterVars
<1>1. CASE AskCached(c)
  <2>1. /\ UNCHANGED <<run, generation, exitCode, bumpedAt, waiter, target, askGen, askRun>>
        /\ floor' = [floor EXCEPT ![c] = bumpedAt]
        /\ answer' = [answer EXCEPT ![c] = exitCode]
        /\ \E p \in {"state", "idle"} : apc' = [apc EXCEPT ![c] = p]
    BY <1>1 DEF AskCached, contVars, waitVars, waiterVars
  <2>2. Types'
    BY <2>1 DEF Types, AskStates
  <2>3. NoOldCode' /\ AnswerNotOld'
    BY <2>1 DEF NoOldCode, AnswerNotOld, Types
  <2>4. \A d \in Askers : AskFresh(d)'
    BY <2>1 DEF AskFresh, Types
  <2> QED BY <1>w, <2>1, <2>2, <2>3, <2>4 DEF waiterVars
<1>2. CASE AskState(c) \/ AskReturn(c) \/ AskTimeout(c)
  <2>1. /\ UNCHANGED <<run, generation, exitCode, bumpedAt, waiter, target, askGen,
                       askRun, answer, floor>>
        /\ \/ \E p \in {"idle", "generation"} : apc' = [apc EXCEPT ![c] = p]
           \/ apc[c] = "wait" /\ apc' = [apc EXCEPT ![c] = "store"]
    BY <1>2 DEF AskState, AskReturn, AskTimeout, contVars, waitVars, waiterVars
  <2>2. Types'
    BY <2>1 DEF Types, AskStates
  <2>3. NoOldCode' /\ AnswerNotOld'
    BY <2>1 DEF NoOldCode, AnswerNotOld
  <2>4. \A d \in Askers : AskFresh(d)'
    BY <2>1 DEF AskFresh, Types
  <2> QED BY <1>w, <2>1, <2>2, <2>3, <2>4 DEF waiterVars
<1>3. CASE AskGeneration(c)
  <2>1. /\ UNCHANGED <<run, generation, exitCode, bumpedAt, waiter, target, askRun,
                       answer, floor>>
        /\ askGen' = [askGen EXCEPT ![c] = generation]
        /\ apc' = [apc EXCEPT ![c] = "call"]
    BY <1>3 DEF AskGeneration, contVars, waitVars, waiterVars
  <2>2. Types'
    BY <2>1 DEF Types, AskStates
  <2>3. NoOldCode' /\ AnswerNotOld'
    BY <2>1 DEF NoOldCode, AnswerNotOld
  <2>4. \A d \in Askers : AskFresh(d)'
    BY <2>1 DEF AskFresh, Types
  <2> QED BY <1>w, <2>1, <2>2, <2>3, <2>4 DEF waiterVars
<1>4. CASE AskCall(c)
  <2>1. /\ UNCHANGED <<run, generation, exitCode, bumpedAt, waiter, target, askGen,
                       answer, floor>>
        /\ askRun' = [askRun EXCEPT ![c] = run]
        /\ apc' = [apc EXCEPT ![c] = "wait"]
    BY <1>4 DEF AskCall, contVars, waitVars, waiterVars
  <2>2. Types'
    BY <2>1 DEF Types, AskStates
  <2>3. NoOldCode' /\ AnswerNotOld'
    BY <2>1 DEF NoOldCode, AnswerNotOld
  <2>4. \A d \in Askers : AskFresh(d)'
    BY <2>1 DEF AskFresh, Types, BumpedPast
  <2> QED BY <1>w, <2>1, <2>2, <2>3, <2>4 DEF waiterVars
<1>5. CASE AskStore(c)
  <2>1. /\ UNCHANGED <<run, generation, bumpedAt, waiter, target, askGen, askRun>>
        /\ floor' = [floor EXCEPT ![c] = bumpedAt]
        /\ apc[c] = "store" /\ apc' = [apc EXCEPT ![c] = "idle"]
        /\ exitCode' = IF askGen[c] = generation THEN askRun[c] ELSE exitCode
        /\ answer' = [answer EXCEPT ![c] =
                        IF askGen[c] = generation THEN askRun[c] ELSE None]
    BY <1>5 DEF AskStore, store_if_current, Current, contVars, waiterVars
  <2>2. Types'
    BY <2>1 DEF Types, AskStates, Codes
  <2>3. askGen[c] = generation => bumpedAt <= askRun[c]
    BY <2>1 DEF AskFresh
  <2>4. NoOldCode'
    BY <2>1, <2>3 DEF NoOldCode
  <2>5. AnswerNotOld'
    <3>1. bumpedAt \in Nat /\ askRun[c] \in Nat
      BY DEF Types
    <3>2. ASSUME NEW d \in Askers, answer'[d] # None PROVE floor'[d] <= answer'[d]
      <4>1. CASE d = c
        BY <2>1, <2>3, <3>1, <3>2, <4>1 DEF Types
      <4>2. CASE d # c
        BY <2>1, <3>2, <4>2 DEF Types, AnswerNotOld
      <4> QED BY <4>1, <4>2
    <3> QED BY <3>2 DEF AnswerNotOld
  <2>6. \A d \in Askers : AskFresh(d)'
    BY <2>1 DEF AskFresh, Types
  <2> QED BY <1>w, <2>1, <2>2, <2>4, <2>5, <2>6 DEF waiterVars
<1> QED
  BY <1>1, <1>2, <1>3, <1>4, <1>5 DEF Ask

(* Every step keeps the invariant.                                         *)
LEMMA NextIInv == IInv /\ [Next]_vars => IInv'
<1> SUFFICES ASSUME IInv, [Next]_vars PROVE IInv'
  OBVIOUS
<1> USE DEF recordVars
<1>1. CASE Exit
  BY <1>1, NothingRecorded DEF Exit
<1>2. ASSUME NEW g \in Gens, Wait(g) \/ WaiterFail(g) PROVE IInv'
  BY <1>2, WaitIInv
<1>3. ASSUME NEW c \in Starters, StartCheck(c) \/ Start(c) PROVE IInv'
  <2>1. CASE StartCheck(c) \/ StopOld(c) \/ SpawnSession(c) \/ Swap(c)
             \/ Bootstrap(c) \/ Started(c)
    BY <2>1, NothingRecorded
       DEF StartCheck, StopOld, SpawnSession, Swap, Bootstrap, Started, contVars
  <2>2. CASE Logs(c) \/ FlagOld(c) \/ FlagNew(c) \/ SwapSource(c)
             \/ Rollback(c) \/ Abandon(c)
    BY <2>2, NothingRecorded
       DEF Logs, FlagOld, FlagNew, SwapSource, Rollback, Abandon, contVars
  <2>3. CASE StartContainer(c) \/ StartProcess(c)
    BY <2>3, NewRun DEF StartContainer, StartProcess
  <2>4. CASE Bump(c)
    BY <2>4, BumpIInv
  <2> QED BY <1>3, <2>1, <2>2, <2>3, <2>4 DEF Start
<1>4. ASSUME NEW c \in Stoppers, StopLogDelivery(c) \/ StopClient(c) PROVE IInv'
  BY <1>4, NothingRecorded DEF StopLogDelivery, StopClient, contVars
<1>5. ASSUME NEW c \in Askers, Ask(c) PROVE IInv'
  BY <1>5, AskIInv
<1>6. CASE UNCHANGED vars
  BY <1>6, NothingRecorded DEF vars, contVars
<1> QED
  BY <1>1, <1>2, <1>3, <1>4, <1>5, <1>6 DEF Next, Ask

------------------------------------------------------------------------------
(* IInv holds in every reachable state.                                    *)
THEOREM Invariance == Spec => []IInv
  BY InitIInv, NextIInv, PTL DEF Spec

(* WaitState: however many start() calls, waiter threads and exit_code()   *)
(* calls are under way, no code of a run before the last restart is        *)
(* recorded.                                                               *)
THEOREM OldCodeNeverRecorded == Spec => []NoOldCode
<1>1. IInv => NoOldCode
  BY DEF IInv
<1> QED
  BY <1>1, Invariance, PTL

(* exit_code(): it never returns a code of a run before the last restart   *)
(* recorded at that moment, although a restart may happen while it waits.  *)
THEOREM OldCodeNeverReturned == Spec => []AnswerNotOld
<1>1. IInv => AnswerNotOld
  BY DEF IInv
<1> QED
  BY <1>1, Invariance, PTL

------------------------------------------------------------------------------
(* Types.  A start() past its check is owed one bump, until it makes it or *)
(* gives up.                                                               *)
PreBump == {"stopOld", "startContainer", "bootstrap", "process", "started",
            "session", "swap", "bump"}
Pending == {c \in Starters : spc[c] \in PreBump}
Counted == IsFiniteSet(Pending) /\ generation + Cardinality(Pending) <= starts

(* The places of start() on each platform, and where it holds a new        *)
(* delivery.                                                               *)
LinuxPlaces == {"idle", "stopOld", "startContainer", "started", "session",
                "swap", "bump", "rollback"}
MacPlaces == {"idle", "bootstrap", "process", "started", "bump", "logs",
              "flagOld", "flagNew", "source", "rollback"}
Placed(c) ==
  /\ spc[c] \in (IF Linux THEN LinuxPlaces ELSE MacPlaces)
  /\ spc[c] \in {"swap", "flagOld", "flagNew", "source"} => held[c] # None

Places == LinuxPlaces \cup MacPlaces

(* TypeOK, in the parts that one step touches at a time.                   *)
RecordType ==
  /\ run \in Nat /\ generation \in Gens /\ exitCode \in Codes /\ bumpedAt \in Nat
  /\ waiter \in [Gens -> States] /\ target \in [Gens -> Nat]
  /\ apc \in [Askers -> AskStates] /\ askGen \in [Askers -> Gens]
  /\ askRun \in [Askers -> Nat] /\ answer \in [Askers -> Codes]
  /\ floor \in [Askers -> Nat]
SwitchType ==
  /\ running \in BOOLEAN /\ broken \in BOOLEAN /\ stopFailed \in BOOLEAN
LogType ==
  /\ source \in Codes /\ flag \in Codes /\ handles \in Nat
  /\ stopped \in SUBSET Nat /\ delivering \in SUBSET Nat
CallType ==
  /\ platform \in Platforms
  /\ spc \in [Starters -> Places] /\ held \in [Starters -> Codes]
  /\ starts \in Gens /\ tpc \in [Stoppers -> {"idle", "client"}]

TypeInv ==
  /\ RecordType /\ SwitchType /\ LogType /\ CallType
  /\ Counted /\ (~Linux => flag # None)
  /\ \A c \in Starters : Placed(c)

(* The parts make up TypeOK.                                               *)
LEMMA TypeParts == TypeInv => TypeOK
<1> SUFFICES ASSUME TypeInv PROVE TypeOK
  OBVIOUS
<1>1. Places = {"idle", "stopOld", "startContainer", "bootstrap", "process",
                "logs", "flagOld", "flagNew", "source"} \cup Restarting
  BY DEF Places, LinuxPlaces, MacPlaces, Restarting
<1> QED
  BY <1>1, Zenon DEF TypeInv, TypeOK, RecordType, SwitchType, LogType, CallType,
                     States, AskStates

(* One start() moves: how the number of bumps owed changes.                *)
LEMMA PendingMoves ==
  ASSUME spc \in [Starters -> Places], IsFiniteSet(Pending), NEW c \in Starters,
         NEW p \in Places, spc' = [spc EXCEPT ![c] = p]
  PROVE  /\ IsFiniteSet(Pending') /\ Cardinality(Pending') \in Nat
         /\ Cardinality(Pending) \in Nat
         /\ Cardinality(Pending') <= Cardinality(Pending) + 1
         /\ (spc[c] \in PreBump \/ p \notin PreBump)
              => Cardinality(Pending') <= Cardinality(Pending)
         /\ (spc[c] \in PreBump /\ p \notin PreBump)
              => Cardinality(Pending') = Cardinality(Pending) - 1
<1>0. Cardinality(Pending) \in Nat
  BY FS_CardinalityType
<1>1. CASE p \in PreBump /\ spc[c] \notin PreBump
  <2>1. Pending' = Pending \cup {c} /\ c \notin Pending
    BY <1>1 DEF Pending
  <2>2. IsFiniteSet(Pending \cup {c})
        /\ Cardinality(Pending \cup {c}) = Cardinality(Pending) + 1
    BY <2>1, FS_AddElement
  <2>3. IsFiniteSet(Pending') /\ Cardinality(Pending') = Cardinality(Pending) + 1
    BY <2>1, <2>2
  <2> QED BY <1>0, <1>1, <2>3
<1>2. CASE p \notin PreBump /\ spc[c] \in PreBump
  <2>1. Pending' = Pending \ {c} /\ c \in Pending
    BY <1>2 DEF Pending
  <2>2. IsFiniteSet(Pending \ {c})
        /\ Cardinality(Pending \ {c}) = Cardinality(Pending) - 1
    BY <2>1, FS_RemoveElement
  <2>3. IsFiniteSet(Pending') /\ Cardinality(Pending') = Cardinality(Pending) - 1
    BY <2>1, <2>2
  <2>4. Cardinality(Pending') \in Nat
    BY <2>3, FS_CardinalityType
  <2> QED BY <1>0, <1>2, <2>3, <2>4
<1>3. CASE p \in PreBump <=> spc[c] \in PreBump
  <2>1. Pending' = Pending
    BY <1>3 DEF Pending
  <2> QED BY <1>0, <1>3, <2>1
<1> QED BY <1>1, <1>2, <1>3

(* Nobody has called anything yet.                                         *)
LEMMA InitTypeInv == Init => TypeInv
<1> SUFFICES ASSUME Init PROVE TypeInv
  OBVIOUS
<1>1. RecordType
  BY RestartAssumption
     DEF Init, RecordType, Gens, Codes, None, States, AskStates
<1>2. SwitchType
  BY DEF Init, SwitchType
<1>3. LogType
  BY DEF Init, LogType, Codes, None
<1>4. CallType
  BY RestartAssumption DEF Init, CallType, Places, LinuxPlaces, Gens, Codes
<1>5. Counted
  <2>1. Pending = {}
    BY DEF Init, Pending, PreBump
  <2> QED BY <2>1, FS_EmptySet DEF Init, Counted
<1>6. (~Linux => flag # None) /\ \A c \in Starters : Placed(c)
  BY DEF Init, Placed, LinuxPlaces, MacPlaces, None
<1> QED BY <1>1, <1>2, <1>3, <1>4, <1>5, <1>6 DEF TypeInv

(* What a step of start() other than the check and the bump does to the    *)
(* types: start() goes to a place of its platform and still owes its bump  *)
(* unless it gave up.                                                      *)
Goes(c, p) ==
  /\ spc' = [spc EXCEPT ![c] = p]
  /\ spc[c] \in PreBump \/ p \notin PreBump
  /\ p \in (IF Linux THEN LinuxPlaces ELSE MacPlaces)
  /\ p \in {"swap", "flagOld", "flagNew", "source"} => held'[c] # None
GoesOn(c) ==
  /\ UNCHANGED <<platform, waitVars, waiterVars, starts, stopVars, askVars>>
  /\ run' \in Nat /\ running' \in BOOLEAN /\ broken' \in BOOLEAN /\ LogType'
  /\ (~Linux => flag' # None)
  /\ \E h \in Codes : held' = [held EXCEPT ![c] = h]
  /\ \E p \in Places : Goes(c, p)

(* Every step of start() but the bump is such a step.                      *)
LEMMA StartGoesOn ==
  ASSUME TypeInv, NEW c \in Starters, Start(c), ~Bump(c) PROVE GoesOn(c)
<1> USE DEF TypeInv
<1>t. /\ run \in Nat /\ running \in BOOLEAN /\ broken \in BOOLEAN /\ LogType
      /\ (~Linux => flag # None)
      /\ held[c] \in Codes /\ held = [held EXCEPT ![c] = held[c]]
      /\ spc[c] \in (IF Linux THEN LinuxPlaces ELSE MacPlaces)
      /\ (spc[c] \in {"swap", "flagOld", "flagNew", "source"} => held[c] # None)
  BY DEF Placed, RecordType, SwitchType, CallType
<1> DEFINE Rest ==
      /\ UNCHANGED <<platform, waitVars, waiterVars, starts, stopVars, askVars>>
      /\ run' \in Nat /\ running' \in BOOLEAN /\ broken' \in BOOLEAN /\ LogType'
      /\ (~Linux => flag' # None)
      /\ \E h \in Codes : held' = [held EXCEPT ![c] = h]
<1>g. ASSUME NEW p \in Places, Goes(c, p), Rest PROVE GoesOn(c)
  BY <1>g DEF GoesOn
<1> USE <1>t DEF LinuxPlaces, MacPlaces, Places, PreBump, LogType, Codes, None
<1>1. CASE StopOld(c)
  <2>1. Rest
    BY <1>1 DEF StopOld, contVars, logVars
  <2>2. Goes(c, "startContainer")
    BY <1>1 DEF StopOld, Goes
  <2> QED BY <1>g, <2>1, <2>2
<1>2. CASE StartContainer(c)
  <2>1. Rest
    BY <1>2 DEF StartContainer, contVars, logVars
  <2>2. Goes(c, "started")
    BY <1>2 DEF StartContainer, Goes
  <2> QED BY <1>g, <2>1, <2>2
<1>3. CASE SpawnSession(c)
  <2>1. Rest
    BY <1>3 DEF SpawnSession, contVars, logVars
  <2>2. Goes(c, "swap") \/ Goes(c, "rollback")
    BY <1>3 DEF SpawnSession, Goes, CallType
  <2> QED BY <1>g, <2>1, <2>2
<1>4. CASE Swap(c)
  <2>1. Rest
    BY <1>4 DEF Swap, contVars, logVars
  <2>2. Goes(c, "bump")
    BY <1>4 DEF Swap, Goes
  <2> QED BY <1>g, <2>1, <2>2
<1>5. CASE Bootstrap(c)
  <2>1. Rest
    BY <1>5 DEF Bootstrap, contVars, logVars
  <2>2. Goes(c, "process")
    BY <1>5 DEF Bootstrap, Goes
  <2> QED BY <1>g, <2>1, <2>2
<1>6. CASE StartProcess(c)
  <2>1. Rest
    BY <1>6 DEF StartProcess, contVars, logVars
  <2>2. Goes(c, "started")
    BY <1>6 DEF StartProcess, Goes
  <2> QED BY <1>g, <2>1, <2>2
<1>7. CASE Started(c)
  <2>1. Rest
    BY <1>7 DEF Started, contVars, logVars
  <2>2. (Linux /\ held[c] # None) => Goes(c, "session")
    BY <1>7 DEF Started, Goes
  <2>3. ~(Linux /\ held[c] # None) => Goes(c, "bump")
    BY <1>7 DEF Started, Goes
  <2> QED BY <1>g, <2>1, <2>2, <2>3
<1>8. CASE Logs(c)
  <2>1. Rest
    BY <1>8 DEF Logs, contVars, logVars
  <2>2. Goes(c, "flagOld") \/ Goes(c, "rollback")
    BY <1>8 DEF Logs, Goes, CallType
  <2> QED BY <1>g, <2>1, <2>2
<1>9. CASE FlagOld(c)
  <2>1. Rest
    BY <1>9 DEF FlagOld, contVars, logVars
  <2>2. Goes(c, "flagNew")
    BY <1>9 DEF FlagOld, Goes
  <2> QED BY <1>g, <2>1, <2>2
<1>10. CASE FlagNew(c)
  <2>1. Rest
    BY <1>10 DEF FlagNew, contVars, logVars
  <2>2. Goes(c, "source")
    BY <1>10 DEF FlagNew, Goes
  <2> QED BY <1>g, <2>1, <2>2
<1>11. CASE SwapSource(c)
  <2>1. Rest
    BY <1>11 DEF SwapSource, contVars, logVars
  <2>2. Goes(c, "idle")
    BY <1>11 DEF SwapSource, Goes
  <2> QED BY <1>g, <2>1, <2>2
<1>12. CASE Rollback(c)
  <2>1. Rest
    BY <1>12 DEF Rollback, contVars, logVars
  <2>2. Goes(c, "idle")
    BY <1>12 DEF Rollback, Goes
  <2> QED BY <1>g, <2>1, <2>2
<1>13. CASE Abandon(c)
  <2>1. Rest
    BY <1>13 DEF Abandon, contVars, logVars
  <2>2. Goes(c, "idle")
    BY <1>13 DEF Abandon, Goes
  <2> QED BY <1>g, <2>1, <2>2
<1> QED
  BY <1>1, <1>2, <1>3, <1>4, <1>5, <1>6, <1>7, <1>8, <1>9, <1>10, <1>11, <1>12,
     <1>13 DEF Start

(* The check of start() adds to the bumps owed, the bump pays one, and no  *)
(* other step of start() does more than give one up.                       *)
LEMMA StartTypeInv ==
  ASSUME TypeInv, NEW c \in Starters, StartCheck(c) \/ Start(c)
  PROVE  TypeInv'
<1> USE DEF TypeInv
<1>n. /\ Cardinality(Pending) \in Nat /\ IsFiniteSet(Pending)
      /\ generation + Cardinality(Pending) <= starts
      /\ generation \in Nat /\ starts \in 0..MaxRestarts
  BY FS_CardinalityType DEF Counted, CallType, RecordType, Gens
<1>s. spc \in [Starters -> Places] /\ held \in [Starters -> Codes]
  BY DEF CallType
<1>p. ASSUME NEW p \in Places, Goes(c, p), platform' = platform,
             \A d \in Starters \ {c} : held'[d] = held[d]
      PROVE  \A d \in Starters : Placed(d)'
  BY <1>s, <1>p DEF Placed, Linux, Goes
<1>1. CASE StartCheck(c)
  <2>1. PICK p \in {"stopOld", "bootstrap"} :
          spc' = [spc EXCEPT ![c] = p] /\ (Linux <=> p = "stopOld")
    BY <1>1 DEF StartCheck
  <2>2. p \in Places
    BY DEF Places, LinuxPlaces, MacPlaces
  <2>3. /\ UNCHANGED <<platform, contVars, waitVars, waiterVars, logVars, held,
                       broken, stopVars, askVars>>
        /\ starts' = starts + 1 /\ starts < MaxRestarts
    BY <1>1 DEF StartCheck
  <2>4. RecordType' /\ SwitchType' /\ LogType' /\ (~Linux => flag # None)'
    BY <2>3 DEF RecordType, SwitchType, LogType, contVars, waitVars, waiterVars,
                logVars, stopVars, askVars, Linux
  <2>5. CallType'
    <3>1. starts' \in Gens
      BY <1>n, <2>3, RestartAssumption DEF Gens
    <3>2. spc' \in [Starters -> Places]
      BY <1>s, <2>1, <2>2
    <3> QED BY <2>3, <3>1, <3>2 DEF CallType, stopVars
  <2>6. Counted'
    <3>1. IsFiniteSet(Pending') /\ Cardinality(Pending') \in Nat
          /\ Cardinality(Pending') <= Cardinality(Pending) + 1
      BY <1>s, <1>n, <2>1, <2>2, PendingMoves
    <3> QED BY <1>n, <2>3, <3>1 DEF Counted, waitVars
  <2>7. \A d \in Starters : Placed(d)'
    BY <1>s, <2>1, <2>3 DEF Placed, Linux, LinuxPlaces, MacPlaces
  <2> QED BY <2>4, <2>5, <2>6, <2>7
<1>2. CASE Bump(c)
  <2>1. PICK p \in {"idle", "logs"} :
          spc' = [spc EXCEPT ![c] = p] /\ (Linux <=> p = "idle")
    BY <1>2 DEF Bump
  <2>2. p \in Places /\ spc[c] \in PreBump /\ p \notin PreBump
    BY <1>2 DEF Bump, PreBump, Places, LinuxPlaces, MacPlaces
  <2>3. /\ IsFiniteSet(Pending') /\ Cardinality(Pending') \in Nat
        /\ Cardinality(Pending') = Cardinality(Pending) - 1
    BY <1>s, <1>n, <2>1, <2>2, PendingMoves
  <2>4. /\ UNCHANGED <<platform, contVars, target, logVars, held, starts, broken,
                       stopVars, askVars>>
        /\ generation' = generation + 1 /\ exitCode' = None /\ bumpedAt' = run
        /\ waiter' = [waiter EXCEPT ![generation + 1] = "spawned"]
    BY <1>2 DEF Bump
  <2>5. Counted' /\ generation + 1 \in Gens
    BY <1>n, <2>3, <2>4, RestartAssumption DEF Counted, Gens
  <2>6. RecordType'
    BY <2>4, <2>5 DEF RecordType, Codes, States, contVars, askVars
  <2>7. SwitchType' /\ LogType' /\ (~Linux => flag # None)'
    BY <2>4 DEF SwitchType, LogType, contVars, logVars, stopVars, Linux
  <2>8. CallType'
    BY <2>1, <2>2, <2>4 DEF CallType, stopVars
  <2>9. \A d \in Starters : Placed(d)'
    BY <1>s, <2>1, <2>4 DEF Placed, Linux, LinuxPlaces, MacPlaces
  <2> QED BY <2>5, <2>6, <2>7, <2>8, <2>9
<1>3. CASE Start(c) /\ ~Bump(c)
  <2>1. GoesOn(c)
    BY <1>3, StartGoesOn
  <2>2. PICK p \in Places : Goes(c, p)
    BY <2>1 DEF GoesOn
  <2>3. PICK h \in Codes : held' = [held EXCEPT ![c] = h]
    BY <2>1 DEF GoesOn
  <2>4. UNCHANGED <<platform, waitVars, waiterVars, starts, stopVars, askVars>>
    BY <2>1 DEF GoesOn
  <2>5. RecordType'
    BY <2>1, <2>4 DEF GoesOn, RecordType, waitVars, waiterVars, askVars
  <2>6. SwitchType' /\ LogType' /\ (~Linux => flag # None)'
    BY <2>1, <2>4 DEF GoesOn, SwitchType, stopVars, Linux
  <2>7. CallType'
    BY <2>2, <2>3, <2>4 DEF CallType, Goes, stopVars
  <2>8. Counted'
    <3>1. /\ IsFiniteSet(Pending') /\ Cardinality(Pending') \in Nat
          /\ Cardinality(Pending') <= Cardinality(Pending)
      BY <1>s, <1>n, <2>2, PendingMoves DEF Goes
    <3> QED BY <1>n, <2>4, <3>1 DEF Counted, waitVars
  <2>9. \A d \in Starters : Placed(d)'
    BY <1>s, <1>p, <2>2, <2>3, <2>4
  <2> QED BY <2>5, <2>6, <2>7, <2>8, <2>9
<1> QED
  BY <1>1, <1>2, <1>3

(* No step leaves the types, whoever takes it.                             *)
LEMMA NextTypeInv == TypeInv /\ [Next]_vars => TypeInv'
<1> SUFFICES ASSUME TypeInv, [Next]_vars PROVE TypeInv'
  OBVIOUS
<1> USE DEF TypeInv
<1>s. ASSUME UNCHANGED <<platform, startVars, generation>>, flag' = flag
      PROVE  Counted' /\ (~Linux => flag # None)' /\ \A c \in Starters : Placed(c)'
  <2>1. Pending' = Pending
    BY <1>s DEF Pending, startVars
  <2>2. \A c \in Starters : Placed(c)'
    BY <1>s DEF Placed, Linux, startVars
  <2> QED BY <1>s, <2>1, <2>2 DEF Counted, Linux, startVars
<1>c. ASSUME UNCHANGED <<platform, startVars, stopVars>> PROVE CallType'
  BY <1>c DEF CallType, startVars, stopVars
<1>1. CASE Exit
  <2>1. RecordType' /\ LogType'
    BY <1>1 DEF Exit, RecordType, LogType, waitVars, waiterVars, logVars, askVars
  <2>2. SwitchType'
    BY <1>1 DEF Exit, SwitchType, startVars, stopVars
  <2> QED BY <1>1, <1>s, <1>c, <2>1, <2>2 DEF Exit, waitVars, logVars
<1>2. ASSUME NEW g \in Gens, Wait(g) \/ WaiterFail(g) PROVE TypeInv'
  <2>1. /\ UNCHANGED <<platform, contVars, logVars, startVars, stopVars, askVars,
                       generation, bumpedAt>>
        /\ \E w \in States : waiter' = [waiter EXCEPT ![g] = w]
        /\ target' = target \/ target' = [target EXCEPT ![g] = run]
        /\ exitCode' \in {exitCode, target[g]}
    BY <1>2 DEF Wait, WaiterCall, WaiterReturn, WaiterFail, WaiterStore,
                store_if_current, States, waitVars, waiterVars
  <2>2. RecordType'
    BY <2>1 DEF RecordType, contVars, askVars, Codes
  <2>3. SwitchType' /\ LogType'
    BY <2>1 DEF SwitchType, LogType, contVars, logVars, startVars, stopVars
  <2> QED BY <1>s, <1>c, <2>1, <2>2, <2>3 DEF logVars
<1>3. ASSUME NEW c \in Starters, StartCheck(c) \/ Start(c) PROVE TypeInv'
  BY <1>3, StartTypeInv
<1>4. ASSUME NEW c \in Stoppers, StopLogDelivery(c) \/ StopClient(c) PROVE TypeInv'
  <2>1. /\ UNCHANGED <<platform, run, waitVars, waiterVars, source, flag, handles,
                       delivering, startVars, askVars>>
        /\ stopped' \in {stopped, stopped \cup ({flag} \ {None})}
        /\ \E p \in {"idle", "client"} : tpc' = [tpc EXCEPT ![c] = p]
    BY <1>4 DEF StopLogDelivery, StopClient, logVars, contVars
  <2>2. RecordType' /\ LogType' /\ CallType'
    BY <2>1 DEF RecordType, LogType, CallType, waitVars, waiterVars, askVars,
                startVars, Codes
  <2>3. SwitchType'
    BY <1>4 DEF StopLogDelivery, StopClient, SwitchType, contVars, startVars
  <2> QED BY <1>s, <2>1, <2>2, <2>3 DEF waitVars
<1>5. ASSUME NEW c \in Askers, Ask(c) PROVE TypeInv'
  <2>1. /\ UNCHANGED <<platform, contVars, logVars, startVars, stopVars, waiterVars,
                       generation, bumpedAt>>
        /\ exitCode' \in {exitCode, askRun[c]}
        /\ \E p \in AskStates : apc' = [apc EXCEPT ![c] = p]
        /\ \E g \in {askGen[c], generation} : askGen' = [askGen EXCEPT ![c] = g]
        /\ \E r \in {askRun[c], run} : askRun' = [askRun EXCEPT ![c] = r]
        /\ \E a \in {answer[c], exitCode, askRun[c], None} :
             answer' = [answer EXCEPT ![c] = a]
        /\ \E b \in {floor[c], bumpedAt} : floor' = [floor EXCEPT ![c] = b]
    BY <1>5 DEF Ask, AskCached, AskState, AskGeneration, AskCall, AskReturn,
                AskTimeout, AskStore, store_if_current, AskStates, waitVars,
                RecordType
  <2>2. RecordType'
    BY <2>1 DEF RecordType, contVars, waiterVars, Codes
  <2>3. SwitchType' /\ LogType'
    BY <2>1 DEF SwitchType, LogType, contVars, logVars, startVars, stopVars
  <2> QED BY <1>s, <1>c, <2>1, <2>2, <2>3 DEF logVars
<1>6. CASE UNCHANGED vars
  <2>1. RecordType' /\ SwitchType' /\ LogType'
    BY <1>6 DEF vars, RecordType, SwitchType, LogType, contVars, waitVars,
                waiterVars, logVars, startVars, stopVars, askVars
  <2> QED BY <1>s, <1>c, <1>6, <2>1 DEF vars, waitVars, logVars
<1> QED
  BY <1>1, <1>2, <1>3, <1>4, <1>5, <1>6 DEF Next, Ask

(* The generation never runs past the restarts begun, whichever start()    *)
(* calls overlap or give up, so every waiter thread has a place; the other *)
(* variables keep their types.                                             *)
THEOREM TypeCorrect == Spec => []TypeOK
  BY InitTypeInv, NextTypeInv, TypeParts, PTL DEF Spec

------------------------------------------------------------------------------
(* What is recorded, or may still be recorded, is of a run that began and, *)
(* once its wait returned, is over.                                        *)
CodeOver == exitCode # None => exitCode <= run /\ Over(exitCode)
WaiterOver(g) ==
  /\ waiter[g] \in {"waiting", "got"} => target[g] <= run
  /\ waiter[g] = "got" => Over(target[g])
AskOver(c) ==
  /\ apc[c] \in {"wait", "store"} => askRun[c] <= run
  /\ apc[c] = "store" => Over(askRun[c])

(* A run that no bump has seen yet belongs to a start() still on its way   *)
(* to the bump.                                                            *)
BumpDue == ~broken => (bumpedAt = run \/ \E c \in Starters : InWindow(c))

RunInv ==
  /\ CodeOver /\ BumpDue
  /\ \A g \in Gens : WaiterOver(g)
  /\ \A c \in Askers : AskOver(c)

(* A run that is over stays over: a container only stops, or runs again    *)
(* under the next number.                                                  *)
Forward == (run' = run /\ (running' => running)) \/ run' = run + 1

(* What is over when a step begins is over when it ends.                   *)
LEMMA OverStays ==
  ASSUME run \in Nat, Forward, NEW r \in Nat, r <= run
  PROVE  r <= run' /\ (Over(r) => Over(r)')
BY DEF Forward, Over

(* A step that records nothing and asks nothing.                           *)
LEMMA RunForward ==
  ASSUME Types, RunInv, Forward, UNCHANGED <<exitCode, waiterVars, askVars>>
  PROVE  /\ CodeOver' /\ \A g \in Gens : WaiterOver(g)'
         /\ \A c \in Askers : AskOver(c)'
<1>0. /\ exitCode' = exitCode /\ waiter' = waiter /\ target' = target
      /\ apc' = apc /\ askRun' = askRun /\ run \in Nat
  BY DEF waiterVars, askVars, Types
<1>1. CodeOver'
  <2>1. CASE exitCode = None
    BY <1>0, <2>1 DEF CodeOver
  <2>2. CASE exitCode # None
    <3>1. exitCode \in Nat /\ exitCode <= run /\ Over(exitCode)
      BY <2>2 DEF RunInv, CodeOver, Types, Codes
    <3>2. exitCode <= run' /\ Over(exitCode)'
      BY <1>0, <3>1, OverStays
    <3> QED BY <1>0, <3>2 DEF CodeOver, Over
  <2> QED BY <2>1, <2>2
<1>2. ASSUME NEW g \in Gens PROVE WaiterOver(g)'
  <2>1. target[g] \in Nat /\ WaiterOver(g)
    BY DEF Types, RunInv
  <2>2. target[g] <= run
          => target[g] <= run' /\ (Over(target[g]) => Over(target[g])')
    BY <1>0, <2>1, OverStays
  <2> QED BY <1>0, <2>1, <2>2 DEF WaiterOver, Over
<1>3. ASSUME NEW c \in Askers PROVE AskOver(c)'
  <2>1. askRun[c] \in Nat /\ AskOver(c)
    BY DEF Types, RunInv
  <2>2. askRun[c] <= run
          => askRun[c] <= run' /\ (Over(askRun[c]) => Over(askRun[c])')
    BY <1>0, <2>1, OverStays
  <2> QED BY <1>0, <2>1, <2>2 DEF AskOver, Over
<1> QED BY <1>1, <1>2, <1>3

(* A step after which every start() is where it was.                       *)
LEMMA StillDue ==
  ASSUME RunInv, UNCHANGED <<platform, spc, broken, bumpedAt, run>> PROVE BumpDue'
<1>1. \A c \in Starters : InWindow(c)' <=> InWindow(c)
  BY DEF InWindow, Linux
<1> QED BY <1>1 DEF RunInv, BumpDue

(* Nothing is recorded and the first run needs no bump.                    *)
LEMMA InitRunInv == Init => RunInv
BY DEF Init, RunInv, CodeOver, BumpDue, WaiterOver, AskOver

(* start(): a new run opens the window that its bump closes; giving up in  *)
(* between is what broken records.                                         *)
LEMMA StartRunInv ==
  ASSUME IInv, RunInv, NEW c \in Starters, StartCheck(c) \/ Start(c), TypeInv
  PROVE  RunInv'
<1>t. Types /\ spc \in [Starters -> Places]
  BY DEF IInv, TypeInv, CallType
(* A start() that stays out of the window, or in it. *)
<1>w. ASSUME NEW p, spc' = [spc EXCEPT ![c] = p], platform' = platform,
             InWindow(c) => InWindow(c)', ~broken' => ~broken,
             UNCHANGED <<bumpedAt, run>>
      PROVE  BumpDue'
  <2>1. \A d \in Starters : InWindow(d) => InWindow(d)'
    BY <1>t, <1>w DEF InWindow, Linux
  <2> QED BY <1>w, <2>1 DEF RunInv, BumpDue
<1>b. broken' => BumpDue'
  BY DEF BumpDue
<1> USE DEF RunInv
<1>1. CASE StartCheck(c) \/ StopOld(c) \/ SpawnSession(c) \/ Swap(c)
           \/ Bootstrap(c) \/ Started(c)
  <2>1. UNCHANGED <<platform, running, run, waitVars, waiterVars, askVars, broken>>
    BY <1>1 DEF StartCheck, StopOld, SpawnSession, Swap, Bootstrap, Started,
                contVars
  <2>2. \E p : spc' = [spc EXCEPT ![c] = p] /\ (InWindow(c) => InWindow(c)')
    BY <1>1, <1>t, <2>1 DEF StartCheck, StopOld, SpawnSession, Swap, Bootstrap,
                            Started, InWindow, Restarting, Linux
  <2>3. BumpDue'
    BY <1>w, <2>1, <2>2 DEF waitVars
  <2> QED BY <1>t, <2>1, <2>3, RunForward DEF Forward, waitVars
<1>2. CASE Logs(c) \/ FlagOld(c) \/ FlagNew(c) \/ SwapSource(c)
  <2>1. UNCHANGED <<platform, running, run, waitVars, waiterVars, askVars, broken>>
    BY <1>2 DEF Logs, FlagOld, FlagNew, SwapSource, contVars
  <2>2. \E p : spc' = [spc EXCEPT ![c] = p] /\ (InWindow(c) => InWindow(c)')
    BY <1>2, <1>t, <2>1 DEF Logs, FlagOld, FlagNew, SwapSource,
                            InWindow, Restarting, Linux
  <2>3. BumpDue'
    BY <1>w, <2>1, <2>2 DEF waitVars
  <2> QED BY <1>t, <2>1, <2>3, RunForward DEF Forward, waitVars
<1>3. CASE StartContainer(c) \/ StartProcess(c)
  <2>1. /\ UNCHANGED <<platform, waitVars, waiterVars, askVars, broken>>
        /\ (run' = run /\ running) \/ run' = run + 1
        /\ spc' = [spc EXCEPT ![c] = "started"]
    BY <1>3 DEF StartContainer, StartProcess
  <2>2. InWindow(c)'
    BY <1>t, <2>1 DEF InWindow, Restarting
  <2> QED BY <1>t, <2>1, <2>2, RunForward DEF Forward, waitVars, BumpDue
<1>4. CASE Bump(c)
  <2>1. /\ UNCHANGED <<running, run, target, askVars>>
        /\ exitCode' = None /\ bumpedAt' = run
        /\ waiter' = [waiter EXCEPT ![generation + 1] = "spawned"]
    BY <1>4 DEF Bump, contVars
  <2>2. CodeOver' /\ BumpDue'
    BY <2>1 DEF CodeOver, BumpDue
  <2>3. \A g \in Gens : WaiterOver(g)'
    BY <1>t, <2>1 DEF WaiterOver, Types, Over
  <2>4. \A d \in Askers : AskOver(d)'
    BY <2>1 DEF AskOver, Over, askVars
  <2> QED BY <2>2, <2>3, <2>4
<1>5. CASE Rollback(c)
  <2>1. UNCHANGED <<run, waitVars, waiterVars, askVars>> /\ broken'
    BY <1>5 DEF Rollback
  <2>2. running' => running
    BY <1>5 DEF Rollback
  <2> QED BY <1>t, <1>b, <2>1, <2>2, RunForward DEF Forward, waitVars
<1>6. CASE Abandon(c)
  <2>1. UNCHANGED <<platform, running, run, waitVars, waiterVars, askVars>>
    BY <1>6 DEF Abandon, contVars
  <2>2. BumpDue'
    <3>1. CASE broken' \/ broken
      BY <1>6, <1>b, <3>1 DEF Abandon
    <3>2. CASE ~broken' /\ ~broken
      <4>1. ~InWindow(c)
        BY <1>6, <3>2 DEF Abandon, InWindow, Restarting
      <4> QED BY <1>6, <1>w, <2>1, <3>2, <4>1 DEF Abandon, waitVars
    <3> QED BY <3>1, <3>2
  <2> QED BY <1>t, <2>1, <2>2, RunForward DEF Forward, waitVars
<1> QED
  BY <1>1, <1>2, <1>3, <1>4, <1>5, <1>6 DEF Start

(* Every step keeps RunInv.                                                *)
LEMMA NextRunInv == IInv /\ TypeInv /\ RunInv /\ [Next]_vars => RunInv'
<1> SUFFICES ASSUME IInv, TypeInv, RunInv, [Next]_vars PROVE RunInv'
  OBVIOUS
<1> USE DEF RunInv
<1>t. Types
  BY DEF IInv
<1>1. CASE Exit
  <2>1. /\ UNCHANGED <<platform, run, waitVars, waiterVars, spc, broken, askVars>>
        /\ running' = FALSE
    BY <1>1 DEF Exit, startVars
  <2> QED BY <1>t, <2>1, RunForward, StillDue DEF Forward, waitVars
<1>2. ASSUME NEW g \in Gens, Wait(g) \/ WaiterFail(g) PROVE RunInv'
  <2>0. UNCHANGED <<platform, running, run, spc, broken, generation, bumpedAt,
                    askVars>>
    BY <1>2 DEF Wait, WaiterCall, WaiterReturn, WaiterStore, WaiterFail,
                contVars, startVars, waitVars
  <2>1. BumpDue' /\ \A c \in Askers : AskOver(c)'
    BY <2>0, StillDue DEF AskOver, Over, askVars
  <2>2. CodeOver'
    <3>1. exitCode' = exitCode \/ (exitCode' = target[g] /\ waiter[g] = "got")
      BY <1>2 DEF Wait, WaiterCall, WaiterReturn, WaiterStore, WaiterFail,
                  waitVars, store_if_current
    <3> QED BY <2>0, <3>1 DEF CodeOver, WaiterOver, Over
  <2>3. \A h \in Gens : WaiterOver(h)'
    <3>1. CASE WaiterCall(g)
      <4>1. /\ waiter' = [waiter EXCEPT ![g] = "waiting"]
            /\ target' = [target EXCEPT ![g] = run]
        BY <3>1 DEF WaiterCall
      <4> QED BY <1>t, <2>0, <4>1 DEF WaiterOver, Over, Types
    <3>2. CASE WaiterReturn(g)
      BY <1>t, <2>0, <3>2 DEF WaiterReturn, WaiterOver, Over, Types
    <3>3. CASE WaiterStore(g) \/ WaiterFail(g)
      BY <1>t, <2>0, <3>3 DEF WaiterStore, WaiterFail, WaiterOver, Over, Types
    <3> QED BY <1>2, <3>1, <3>2, <3>3 DEF Wait
  <2> QED BY <2>1, <2>2, <2>3
<1>3. ASSUME NEW c \in Starters, StartCheck(c) \/ Start(c) PROVE RunInv'
  BY <1>3, StartRunInv
<1>4. ASSUME NEW c \in Stoppers, StopLogDelivery(c) \/ StopClient(c) PROVE RunInv'
  <2>1. UNCHANGED <<platform, run, waitVars, waiterVars, spc, broken, askVars>>
    BY <1>4 DEF StopLogDelivery, StopClient, startVars, contVars
  <2>2. running' => running
    BY <1>4 DEF StopLogDelivery, StopClient, contVars
  <2> QED BY <1>t, <2>1, <2>2, RunForward, StillDue DEF Forward, waitVars
<1>5. ASSUME NEW c \in Askers, Ask(c) PROVE RunInv'
  <2>0. UNCHANGED <<platform, running, run, spc, broken, generation, bumpedAt,
                    waiterVars>>
    BY <1>5 DEF Ask, AskCached, AskState, AskGeneration, AskCall, AskReturn,
                AskTimeout, AskStore, contVars, startVars, waitVars
  <2>1. BumpDue' /\ \A g \in Gens : WaiterOver(g)'
    BY <2>0, StillDue DEF WaiterOver, Over, waiterVars
  <2>2. CodeOver'
    <3>1. exitCode' = exitCode \/ (exitCode' = askRun[c] /\ apc[c] = "store")
      BY <1>5 DEF Ask, AskCached, AskState, AskGeneration, AskCall, AskReturn,
                  AskTimeout, AskStore, waitVars, store_if_current
    <3> QED BY <2>0, <3>1 DEF CodeOver, AskOver, Over
  <2>3. \A d \in Askers : AskOver(d)'
    <3>1. CASE AskCall(c)
      BY <1>t, <2>0, <3>1 DEF AskCall, AskOver, Over, Types
    <3>2. CASE AskReturn(c)
      BY <1>t, <2>0, <3>2 DEF AskReturn, AskOver, Over, Types
    <3>3. CASE AskCached(c) \/ AskState(c) \/ AskGeneration(c) \/ AskTimeout(c)
               \/ AskStore(c)
      <4>1. /\ askRun' = askRun
            /\ \E p \in {"idle", "state", "generation", "call"} :
                 apc' = [apc EXCEPT ![c] = p]
        BY <3>3 DEF AskCached, AskState, AskGeneration, AskTimeout, AskStore
      <4> QED BY <1>t, <2>0, <4>1 DEF AskOver, Over, Types
    <3> QED BY <1>5, <3>1, <3>2, <3>3 DEF Ask
  <2> QED BY <2>1, <2>2, <2>3
<1>6. CASE UNCHANGED vars
  <2>1. UNCHANGED <<platform, running, run, waitVars, waiterVars, spc, broken, askVars>>
    BY <1>6 DEF vars, contVars, startVars
  <2> QED BY <1>t, <2>1, RunForward, StillDue DEF Forward, waitVars
<1> QED
  BY <1>1, <1>2, <1>3, <1>4, <1>5, <1>6 DEF Next, Ask

(* exit_code(): unless some start() gave up half way, a code recorded      *)
(* while no start() is between restart and bump is that of the current     *)
(* run, which is over.  Old codes are excluded by NoOldCode; that the code *)
(* is not of a run still going on is RunInv.                               *)
THEOREM CodeIsOfThisRun == Spec => []CodeOfThisRunUnlessBroken
<1>1. IInv /\ RunInv => CodeOfThisRunUnlessBroken
  <2> SUFFICES ASSUME IInv, RunInv, ~broken, Quiet, exitCode # None
               PROVE  exitCode = run /\ ~running
    BY DEF CodeOfThisRunUnlessBroken, CodeOfThisRun
  <2>1. bumpedAt = run
    BY DEF RunInv, BumpDue, Quiet
  <2>2. bumpedAt <= exitCode /\ exitCode <= run /\ Over(exitCode)
    BY DEF IInv, NoOldCode, RunInv, CodeOver
  <2>3. run \in Nat /\ exitCode \in Nat
    BY DEF IInv, Types, Codes
  <2> QED BY <2>1, <2>2, <2>3 DEF Over
<1> QED
  BY <1>1, InitTypeInv, NextTypeInv, InitIInv, NextIInv, InitRunInv, NextRunInv,
     PTL DEF Spec

------------------------------------------------------------------------------
(* Where a start() is once the container runs again and its log delivery   *)
(* is still to be replaced.                                                *)
LogsDue == IF Linux THEN {"started", "session", "swap", "rollback"}
           ELSE {"started", "bump", "logs", "flagOld", "flagNew", "source",
                 "rollback"}
Stopping == \E t \in Stoppers : tpc[t] = "client"
Unharmed == running /\ ~broken /\ ~stopFailed
Made == 0..(handles - 1)

(* Deliveries are told apart by their numbers.                             *)
HandlesMade ==
  /\ stopped \subseteq Made /\ delivering \subseteq Made
  /\ source \in Made \cup {None} /\ flag \in Made \cup {None}

(* What the one start() under way holds.                                   *)
NotYet(c) ==
  spc[c] \in {"stopOld", "startContainer", "bootstrap", "process"} => ~running
OldStopped(c) ==
  /\ (Linux /\ spc[c] \in {"startContainer", "started", "session", "rollback"})
       => held[c] = source /\ source \in stopped \cup {None}
  /\ spc[c] = "swap" => source \in stopped \cup {None}
  /\ spc[c] = "flagNew" => flag \in stopped
NewUnused(c) ==
  /\ spc[c] \in {"swap", "flagOld", "flagNew"}
       => held[c] \in Made /\ held[c] \notin stopped /\ held[c] # flag
  /\ spc[c] = "source"
       => held[c] = flag /\ (Unharmed /\ flag \in stopped => Stopping)

(* A running container whose delivery was told to stop is about to be      *)
(* stopped itself, or to get a new delivery.                               *)
Followed ==
  (Unharmed /\ source # None /\ source \in stopped)
    => Stopping \/ \E c \in Starters : spc[c] \in LogsDue

(* The inductive invariant of the log delivery, for one start() at a time. *)
LogInv ==
  /\ HandlesMade /\ Deliveries \subseteq {flag} /\ (Linux => flag = source)
  /\ Followed
  /\ \A c \in Starters : NotYet(c) /\ OldStopped(c) /\ NewUnused(c)

(* One start() at a time; Stoppers and Askers are any number.              *)
OneStarter == \A c, d \in Starters : c = d

(* The first delivery, or none.                                            *)
LEMMA InitLogInv == Init => LogInv
<1> SUFFICES ASSUME Init PROVE LogInv
  OBVIOUS
<1> USE DEF Init
<1>1. HandlesMade
  BY DEF HandlesMade, Made, None
<1>2. Deliveries \subseteq {flag} /\ (Linux => flag = source)
  BY DEF Deliveries, None
<1>3. Followed /\ \A c \in Starters : NotYet(c) /\ OldStopped(c) /\ NewUnused(c)
  BY DEF Followed, NotYet, OldStopped, NewUnused
<1> QED BY <1>1, <1>2, <1>3 DEF LogInv

(* start(): the old delivery is stopped before the new one is put in its   *)
(* place, and nothing else stops the new one before that.                  *)
LEMMA StartLogInv ==
  ASSUME OneStarter, TypeInv, LogInv, NEW c \in Starters, StartCheck(c) \/ Start(c)
  PROVE  LogInv'
<1> USE DEF LogInv
<1>t. /\ spc \in [Starters -> Places] /\ held \in [Starters -> Codes]
      /\ spc[c] \in (IF Linux THEN LinuxPlaces ELSE MacPlaces)
      /\ \A d \in Starters : d = c
      /\ handles \in Nat /\ (~Linux => flag # None)
  BY DEF TypeInv, CallType, LogType, Placed, OneStarter
<1>i. HandlesMade /\ Deliveries \subseteq {flag} /\ (Linux => flag = source)
      /\ Followed /\ NotYet(c) /\ OldStopped(c) /\ NewUnused(c)
  OBVIOUS
<1>q. ASSUME NotYet(c)', OldStopped(c)', NewUnused(c)'
      PROVE  \A d \in Starters : NotYet(d)' /\ OldStopped(d)' /\ NewUnused(d)'
  BY <1>t, <1>q
<1> USE <1>t, <1>i DEF Linux
(* Steps that leave the deliveries alone ... *)
<1>k. ASSUME UNCHANGED <<platform, logVars, held, stopVars>>
      PROVE  /\ HandlesMade' /\ Deliveries' \subseteq {flag'}
             /\ (Linux => flag = source)' /\ (Stopping' <=> Stopping)
  BY <1>k DEF logVars, stopVars, HandlesMade, Made, Deliveries, Stopping
<1>1. CASE StartCheck(c)
  <2>1. UNCHANGED <<platform, logVars, held, stopVars>>
    BY <1>1 DEF StartCheck
  <2>2. NotYet(c)' /\ OldStopped(c)' /\ NewUnused(c)'
    BY <1>1, <1>k, <2>1
       DEF StartCheck, contVars, logVars, stopVars, NotYet, OldStopped, NewUnused,
           Made, Unharmed
  <2>3. Followed'
    BY <1>1, <1>k, <2>1
       DEF StartCheck, contVars, logVars, stopVars, NotYet, OldStopped, Followed, LogsDue,
           Unharmed, LinuxPlaces, MacPlaces
  <2> QED BY <1>k, <1>q, <2>1, <2>2, <2>3
<1>2. CASE StartContainer(c)
  <2>1. UNCHANGED <<platform, logVars, held, stopVars>>
    BY <1>2 DEF StartContainer
  <2>2. NotYet(c)' /\ OldStopped(c)' /\ NewUnused(c)'
    BY <1>2, <1>k, <2>1
       DEF StartContainer, contVars, logVars, stopVars, NotYet, OldStopped, NewUnused,
           Made, Unharmed
  <2>3. Followed'
    BY <1>2, <1>k, <2>1
       DEF StartContainer, contVars, logVars, stopVars, NotYet, OldStopped, Followed, LogsDue,
           Unharmed, LinuxPlaces, MacPlaces
  <2> QED BY <1>k, <1>q, <2>1, <2>2, <2>3
<1>3. CASE Bootstrap(c)
  <2>1. UNCHANGED <<platform, logVars, held, stopVars>>
    BY <1>3 DEF Bootstrap
  <2>2. NotYet(c)' /\ OldStopped(c)' /\ NewUnused(c)'
    BY <1>3, <1>k, <2>1
       DEF Bootstrap, contVars, logVars, stopVars, NotYet, OldStopped, NewUnused,
           Made, Unharmed
  <2>3. Followed'
    BY <1>3, <1>k, <2>1
       DEF Bootstrap, contVars, logVars, stopVars, NotYet, OldStopped, Followed, LogsDue,
           Unharmed, LinuxPlaces, MacPlaces
  <2> QED BY <1>k, <1>q, <2>1, <2>2, <2>3
<1>4. CASE StartProcess(c)
  <2>1. UNCHANGED <<platform, logVars, held, stopVars>>
    BY <1>4 DEF StartProcess
  <2>2. NotYet(c)' /\ OldStopped(c)' /\ NewUnused(c)'
    BY <1>4, <1>k, <2>1
       DEF StartProcess, contVars, logVars, stopVars, NotYet, OldStopped, NewUnused,
           Made, Unharmed, LinuxPlaces
  <2>3. Followed'
    BY <1>4, <1>k, <2>1
       DEF StartProcess, contVars, logVars, stopVars, NotYet, OldStopped, Followed, LogsDue,
           Unharmed, LinuxPlaces, MacPlaces
  <2> QED BY <1>k, <1>q, <2>1, <2>2, <2>3
<1>5. CASE Started(c)
  <2>1. UNCHANGED <<platform, logVars, held, stopVars>>
    BY <1>5 DEF Started
  <2>2. NotYet(c)' /\ OldStopped(c)' /\ NewUnused(c)'
    BY <1>5, <1>k, <2>1
       DEF Started, contVars, logVars, stopVars, NotYet, OldStopped, NewUnused,
           Made, Unharmed
  <2>3. Followed'
    BY <1>5, <1>k, <2>1
       DEF Started, contVars, logVars, stopVars, NotYet, OldStopped, Followed, LogsDue,
           Unharmed, LinuxPlaces, MacPlaces
  <2> QED BY <1>k, <1>q, <2>1, <2>2, <2>3
<1>6. CASE Bump(c)
  <2>1. UNCHANGED <<platform, logVars, held, stopVars>>
    BY <1>6 DEF Bump
  <2>2. NotYet(c)' /\ OldStopped(c)' /\ NewUnused(c)'
    BY <1>6, <1>k, <2>1
       DEF Bump, contVars, logVars, stopVars, NotYet, OldStopped, NewUnused,
           Made, Unharmed
  <2>3. Followed'
    BY <1>6, <1>k, <2>1
       DEF Bump, contVars, logVars, stopVars, NotYet, OldStopped, Followed, LogsDue,
           Unharmed, LinuxPlaces, MacPlaces
  <2> QED BY <1>k, <1>q, <2>1, <2>2, <2>3
<1>7. CASE Rollback(c)
  <2>1. UNCHANGED <<platform, logVars, held, stopVars>>
    BY <1>7 DEF Rollback
  <2>2. NotYet(c)' /\ OldStopped(c)' /\ NewUnused(c)'
    BY <1>7, <1>k, <2>1
       DEF Rollback, contVars, logVars, stopVars, NotYet, OldStopped, NewUnused,
           Made, Unharmed
  <2>3. Followed'
    BY <1>7, <1>k, <2>1
       DEF Rollback, contVars, logVars, stopVars, NotYet, OldStopped, Followed, LogsDue,
           Unharmed, LinuxPlaces, MacPlaces
  <2> QED BY <1>k, <1>q, <2>1, <2>2, <2>3
<1>8. CASE Abandon(c)
  <2>1. UNCHANGED <<platform, logVars, held, stopVars>>
    BY <1>8 DEF Abandon
  <2>2. NotYet(c)' /\ OldStopped(c)' /\ NewUnused(c)'
    BY <1>8, <1>k, <2>1
       DEF Abandon, contVars, logVars, stopVars, NotYet, OldStopped, NewUnused,
           Made, Unharmed
  <2>3. Followed'
    BY <1>8, <1>k, <2>1
       DEF Abandon, contVars, logVars, stopVars, NotYet, OldStopped, Followed, LogsDue,
           Unharmed, LinuxPlaces, MacPlaces
  <2> QED BY <1>k, <1>q, <2>1, <2>2, <2>3
(* ... and those that stop, make or replace one. *)
<1>9. CASE StopOld(c)
  <2> USE <1>9 DEF StopOld, contVars, stopVars
  <2>1. HandlesMade'
    BY DEF HandlesMade, Made, NewUnused, LinuxPlaces
  <2>2. Deliveries' \subseteq {flag'}
    BY DEF HandlesMade, Deliveries, OldStopped, NewUnused
  <2>3. (Linux => flag = source)' /\ NotYet(c)'
    BY DEF NotYet, LinuxPlaces, MacPlaces
  <2>4. OldStopped(c)'
    BY DEF OldStopped, NewUnused, HandlesMade, LinuxPlaces, MacPlaces
  <2>5. NewUnused(c)'
    BY DEF NewUnused, HandlesMade, Made, Unharmed, Stopping, None
  <2>6. Followed'
    BY DEF Followed, Unharmed, Stopping, LogsDue, NotYet, NewUnused,
           LinuxPlaces, MacPlaces
  <2> QED BY <1>q, <2>1, <2>2, <2>3, <2>4, <2>5, <2>6
<1>10. CASE SpawnSession(c)
  <2> USE <1>10 DEF SpawnSession, contVars, stopVars
  <2>1. HandlesMade'
    BY DEF HandlesMade, Made, NewUnused, LinuxPlaces
  <2>2. Deliveries' \subseteq {flag'}
    BY DEF HandlesMade, Deliveries, OldStopped, NewUnused
  <2>3. (Linux => flag = source)' /\ NotYet(c)'
    BY DEF NotYet, LinuxPlaces, MacPlaces
  <2>4. OldStopped(c)'
    BY DEF OldStopped, NewUnused, HandlesMade, LinuxPlaces, MacPlaces
  <2>5. NewUnused(c)'
    BY DEF NewUnused, HandlesMade, Made, Unharmed, Stopping, None
  <2>6. Followed'
    BY DEF Followed, Unharmed, Stopping, LogsDue, NotYet, NewUnused,
           LinuxPlaces, MacPlaces
  <2> QED BY <1>q, <2>1, <2>2, <2>3, <2>4, <2>5, <2>6
<1>11. CASE Swap(c)
  <2> USE <1>11 DEF Swap, contVars, stopVars
  <2>1. HandlesMade'
    BY DEF HandlesMade, Made, NewUnused, LinuxPlaces
  <2>2. Deliveries' \subseteq {flag'}
    <3>1. flag \in stopped \cup {None} /\ None \notin delivering
      BY DEF OldStopped, HandlesMade, Made, None, LinuxPlaces, MacPlaces
    <3>2. delivering \ stopped = {}
      BY <3>1 DEF Deliveries
    <3> QED BY <3>2 DEF Deliveries
  <2>3. (Linux => flag = source)' /\ NotYet(c)'
    BY DEF NotYet, LinuxPlaces, MacPlaces
  <2>4. OldStopped(c)'
    BY DEF OldStopped, NewUnused, HandlesMade, LinuxPlaces, MacPlaces
  <2>5. NewUnused(c)'
    BY DEF NewUnused, HandlesMade, Made, Unharmed, Stopping, None
  <2>6. Followed'
    BY DEF Followed, Unharmed, Stopping, LogsDue, NotYet, NewUnused,
           LinuxPlaces, MacPlaces
  <2> QED BY <1>q, <2>1, <2>2, <2>3, <2>4, <2>5, <2>6
<1>12. CASE Logs(c)
  <2> USE <1>12 DEF Logs, contVars, stopVars
  <2>1. HandlesMade'
    <3>1. ~Linux /\ flag \in Made
      BY DEF HandlesMade, LinuxPlaces
    <3>2. Made \subseteq Made' /\ stopped' \subseteq stopped \cup {flag}
      BY DEF Made
    <3> QED BY <3>1, <3>2 DEF HandlesMade
  <2>2. Deliveries' \subseteq {flag'}
    BY DEF HandlesMade, Deliveries, OldStopped, NewUnused
  <2>3. (Linux => flag = source)' /\ NotYet(c)'
    BY DEF NotYet, LinuxPlaces, MacPlaces
  <2>4. OldStopped(c)'
    BY DEF OldStopped, NewUnused, HandlesMade, LinuxPlaces, MacPlaces
  <2>5. NewUnused(c)'
    BY DEF NewUnused, HandlesMade, Made, Unharmed, Stopping, None
  <2>6. Followed'
    BY DEF Followed, Unharmed, Stopping, LogsDue, NotYet, NewUnused,
           LinuxPlaces, MacPlaces
  <2> QED BY <1>q, <2>1, <2>2, <2>3, <2>4, <2>5, <2>6
<1>13. CASE FlagOld(c)
  <2> USE <1>13 DEF FlagOld, contVars, stopVars
  <2>1. HandlesMade'
    BY DEF HandlesMade, Made, NewUnused, LinuxPlaces
  <2>2. Deliveries' \subseteq {flag'}
    BY DEF HandlesMade, Deliveries, OldStopped, NewUnused
  <2>3. (Linux => flag = source)' /\ NotYet(c)'
    BY DEF NotYet, LinuxPlaces, MacPlaces
  <2>4. OldStopped(c)'
    BY DEF OldStopped, NewUnused, HandlesMade, LinuxPlaces, MacPlaces
  <2>5. NewUnused(c)'
    BY DEF NewUnused, HandlesMade, Made, Unharmed, Stopping, None
  <2>6. Followed'
    BY DEF Followed, Unharmed, Stopping, LogsDue, NotYet, NewUnused,
           LinuxPlaces, MacPlaces
  <2> QED BY <1>q, <2>1, <2>2, <2>3, <2>4, <2>5, <2>6
<1>14. CASE FlagNew(c)
  <2> USE <1>14 DEF FlagNew, contVars, stopVars
  <2>1. HandlesMade'
    BY DEF HandlesMade, Made, NewUnused, LinuxPlaces
  <2>2. Deliveries' \subseteq {flag'}
    BY DEF HandlesMade, Deliveries, OldStopped, NewUnused
  <2>3. (Linux => flag = source)' /\ NotYet(c)'
    BY DEF NotYet, LinuxPlaces, MacPlaces
  <2>4. OldStopped(c)'
    BY DEF OldStopped, NewUnused, HandlesMade, LinuxPlaces, MacPlaces
  <2>5. NewUnused(c)'
    BY DEF NewUnused, HandlesMade, Made, Unharmed, Stopping, None
  <2>6. Followed'
    BY DEF Followed, Unharmed, Stopping, LogsDue, NotYet, NewUnused,
           LinuxPlaces, MacPlaces
  <2> QED BY <1>q, <2>1, <2>2, <2>3, <2>4, <2>5, <2>6
<1>15. CASE SwapSource(c)
  <2> USE <1>15 DEF SwapSource, contVars, stopVars
  <2>1. HandlesMade'
    BY DEF HandlesMade, Made, NewUnused, LinuxPlaces
  <2>2. Deliveries' \subseteq {flag'}
    BY DEF HandlesMade, Deliveries, OldStopped, NewUnused
  <2>3. (Linux => flag = source)' /\ NotYet(c)'
    BY DEF NotYet, LinuxPlaces, MacPlaces
  <2>4. OldStopped(c)'
    BY DEF OldStopped, NewUnused, HandlesMade, LinuxPlaces, MacPlaces
  <2>5. NewUnused(c)'
    BY DEF NewUnused, HandlesMade, Made, Unharmed, Stopping, None
  <2>6. Followed'
    BY DEF Followed, Unharmed, Stopping, LogsDue, NotYet, NewUnused,
           LinuxPlaces, MacPlaces
  <2> QED BY <1>q, <2>1, <2>2, <2>3, <2>4, <2>5, <2>6
<1> QED
  BY <1>1, <1>2, <1>3, <1>4, <1>5, <1>6, <1>7, <1>8, <1>9, <1>10, <1>11, <1>12,
     <1>13, <1>14, <1>15 DEF Start

(* stop_with_timeout(): the delivery is stopped first, and is then owed    *)
(* the container.                                                          *)
LEMMA StopLogInv ==
  ASSUME TypeInv, LogInv, NEW t \in Stoppers, StopLogDelivery(t) \/ StopClient(t)
  PROVE  LogInv'
<1> USE DEF LogInv
<1>t. /\ tpc \in [Stoppers -> {"idle", "client"}]
      /\ handles \in Nat /\ (~Linux => flag # None)
  BY DEF TypeInv, CallType, LogType
<1>0. UNCHANGED <<platform, source, flag, handles, delivering, spc, held, broken>>
  BY DEF StopLogDelivery, StopClient, logVars, startVars
<1>1. CASE StopLogDelivery(t)
  <2>1. stopped' = stopped \cup ({flag} \ {None}) /\ UNCHANGED <<running, stopFailed>>
    BY <1>1 DEF StopLogDelivery, contVars
  <2>2. Stopping'
    BY <1>t, <1>1 DEF StopLogDelivery, Stopping
  <2>3. HandlesMade' /\ Deliveries' \subseteq {flag'} /\ (Linux => flag = source)'
    BY <1>0, <2>1 DEF HandlesMade, Made, Deliveries, Linux
  <2>4. Followed'
    BY <2>2 DEF Followed
  <2>5. ASSUME NEW c \in Starters
        PROVE  NotYet(c)' /\ OldStopped(c)' /\ NewUnused(c)'
    BY <1>0, <2>1, <2>2 DEF NotYet, OldStopped, NewUnused, Made, Linux
  <2> QED BY <2>3, <2>4, <2>5
<1>2. CASE StopClient(t)
  <2>1. UNCHANGED stopped
    BY <1>2 DEF StopClient, logVars
  <2>2. ~Unharmed' /\ (running' => running)
    BY <1>2 DEF StopClient, Unharmed
  <2>3. HandlesMade' /\ Deliveries' \subseteq {flag'} /\ (Linux => flag = source)'
    BY <1>0, <2>1 DEF HandlesMade, Made, Deliveries, Linux
  <2>4. Followed'
    BY <2>2 DEF Followed
  <2>5. ASSUME NEW c \in Starters
        PROVE  NotYet(c)' /\ OldStopped(c)' /\ NewUnused(c)'
    BY <1>0, <2>1, <2>2 DEF NotYet, OldStopped, NewUnused, Made, Linux
  <2> QED BY <2>3, <2>4, <2>5
<1> QED BY <1>1, <1>2

(* Every step keeps LogInv.                                                *)
LEMMA NextLogInv ==
  ASSUME OneStarter PROVE TypeInv /\ LogInv /\ [Next]_vars => LogInv'
<1> SUFFICES ASSUME TypeInv, LogInv, [Next]_vars PROVE LogInv'
  OBVIOUS
<1>k. ASSUME UNCHANGED <<platform, logVars, spc, held, broken, stopVars>>,
             running' => running
      PROVE  LogInv'
  <2>1. UNCHANGED <<source, flag, handles, delivering, stopped, stopFailed, tpc>>
    BY <1>k DEF logVars, stopVars
  <2>2. HandlesMade' /\ Deliveries' \subseteq {flag'} /\ (Linux => flag = source)'
    BY <1>k, <2>1 DEF LogInv, HandlesMade, Made, Deliveries, Linux
  <2>3. Unharmed' => Unharmed
    BY <1>k, <2>1 DEF Unharmed
  <2>4. Stopping' = Stopping /\ LogsDue' = LogsDue
    BY <1>k, <2>1 DEF Stopping, LogsDue, Linux
  <2>5. Followed'
    BY <1>k, <2>1, <2>3, <2>4 DEF LogInv, Followed
  <2>6. ASSUME NEW c \in Starters
        PROVE  NotYet(c)' /\ OldStopped(c)' /\ NewUnused(c)'
    BY <1>k, <2>1, <2>3, <2>4 DEF LogInv, NotYet, OldStopped, NewUnused, Made, Linux
  <2> QED BY <2>2, <2>5, <2>6 DEF LogInv
<1>1. CASE Exit
  BY <1>1, <1>k DEF Exit, startVars
<1>2. ASSUME NEW g \in Gens, Wait(g) \/ WaiterFail(g) PROVE LogInv'
  BY <1>2, <1>k DEF Wait, WaiterCall, WaiterReturn, WaiterStore, WaiterFail,
                    contVars, startVars
<1>3. ASSUME NEW c \in Starters, StartCheck(c) \/ Start(c) PROVE LogInv'
  BY <1>3, StartLogInv
<1>4. ASSUME NEW c \in Stoppers, StopLogDelivery(c) \/ StopClient(c) PROVE LogInv'
  BY <1>4, StopLogInv
<1>5. ASSUME NEW c \in Askers, Ask(c) PROVE LogInv'
  BY <1>5, <1>k DEF Ask, AskCached, AskState, AskGeneration, AskCall, AskReturn,
                    AskTimeout, AskStore, contVars, startVars
<1>6. CASE UNCHANGED vars
  BY <1>6, <1>k DEF vars, contVars, startVars
<1> QED
  BY <1>1, <1>2, <1>3, <1>4, <1>5, <1>6 DEF Next, Ask

(* refresh_log_streams: when start() calls do not overlap, at most one log *)
(* delivery has not been told to stop, whatever stop() and exit_code()     *)
(* calls run beside it and wherever start() fails.  (Two overlapping       *)
(* start() calls may leave two.)                                           *)
THEOREM OneDeliveryForOneStarter ==
  ASSUME OneStarter PROVE Spec => []OneDelivery
<1>1. LogInv => OneDelivery
  <2> SUFFICES ASSUME LogInv PROVE Cardinality(Deliveries) <= 1
    BY DEF OneDelivery
  <2>1. Deliveries \subseteq {flag}
    BY DEF LogInv
  <2>2. IsFiniteSet({flag}) /\ Cardinality({flag}) = 1
    BY FS_Singleton
  <2>3. Cardinality(Deliveries) <= Cardinality({flag})
    BY <2>1, <2>2, FS_Subset
  <2> QED BY <2>2, <2>3
<1> QED
  BY <1>1, InitTypeInv, NextTypeInv, InitLogInv, NextLogInv, PTL DEF Spec

(* refresh_log_streams: when start() calls do not overlap and nothing      *)
(* failed, a running container with logs is never left with a delivery     *)
(* that was told to stop.                                                  *)
THEOREM LogsFollowForOneStarter ==
  ASSUME OneStarter PROVE Spec => []LogsFollowContainer
<1>1. LogInv => LogsFollowContainer
  BY DEF LogInv, Followed, Unharmed, Stopping, LogsDue, LogsFollowContainer
<1> QED
  BY <1>1, InitTypeInv, NextTypeInv, InitLogInv, NextLogInv, PTL DEF Spec

==============================================================================
