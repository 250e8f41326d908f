------------------------------ MODULE XpcProofs ------------------------------
(***************************************************************************)
(* Proofs about the two parts of the XPC client: MacExec, for any pipe     *)
(* capacity and any limit, and XpcBridge, for any set of requests under    *)
(* way.                                                                    *)
(*                                                                         *)
(* BridgeMemory is not inductive: that the context is live follows only    *)
(* when its count is the number of parties that still hold it, and that    *)
(* nothing leaks only when every other count is known from where caller    *)
(* and block are.  Counts and Stages say so, request by request.           *)
(***************************************************************************)
EXTENDS MacExec, XpcBridge, TLAPS

------------------------------------------------------------------------------
(* The inductive invariant. *)

(* Every byte written has been read or is still in the pipe. *)
NoByteLost == \A s \in Streams : wrote[s] = got[s] + pipe[s]

(* A running process holds both write ends, and a reader that has not ended *)
(* is within the limit.                                                     *)
Holding ==
  /\ proc = "running" => \A s \in Streams : "process" \in holders[s]
  /\ \A s \in Streams :
       rd[s] \in {"none"} \cup Reading => /\ got[s] <= MAX_OUTPUT_SIZE
                                          /\ result[s] = "none"

(* The process exists once exec has started it, and exec joins the readers  *)
(* only after its exit; before the readers start there are none.            *)
Phases ==
  /\ epc \in {"create", "start"} => proc = "none"
  /\ epc \in {"spawn", "wait"} => proc \in {"running", "exited"}
  /\ epc \in {"join", "drain", "ok"} => proc = "exited"
  /\ epc \in {"create", "start", "spawn"} => \A s \in Streams : rd[s] = "none"
  /\ \A s \in Streams : rd[s] # "none" => proc \in {"running", "exited"}

(* A process that exits while its output is taken has written all of it.    *)
ExitIsLast ==
  \A s \in Streams : (proc = "exited" /\ ReadOpen(s)) => want[s] = 0

(* What a reader that met the end of the file knows, and exec with it.      *)
EndOfFile ==
  /\ \A s \in Streams :
       result[s] = "some" => /\ pipe[s] = 0 /\ holders[s] = {}
                             /\ want[s] = 0 /\ got[s] <= MAX_OUTPUT_SIZE
                             /\ proc = "exited" /\ ~ReadOpen(s)
  /\ epc = "ok" => \A s \in Streams : result[s] = "some"

IInv == TypeOK /\ NoByteLost /\ Holding /\ Phases /\ ExitIsLast /\ EndOfFile

------------------------------------------------------------------------------
LEMMA WantsType == Wants \subseteq [Streams -> Nat]
<1>1. UNION {0..MaxWrite[s] : s \in Streams} \subseteq Nat
  BY CapacityAssumption
<1> QED BY <1>1 DEF Wants

LEMMA InitIInv == Init => IInv
<1> SUFFICES ASSUME Init PROVE IInv
  OBVIOUS
<1> USE CapacityAssumption DEF Init, Zero, Reading
<1>1. TypeOK
  <2>1. want \in [Streams -> Nat] BY WantsType
  <2>2. 0 \in 0..(MAX_OUTPUT_SIZE + PipeCapacity) /\ 0 \in 0..PipeCapacity
    OBVIOUS
  <2> QED BY <2>1, <2>2 DEF TypeOK, Finished
<1>2. NoByteLost /\ Holding BY DEF NoByteLost, Holding
<1>3. Phases /\ ExitIsLast /\ EndOfFile
  BY DEF Phases, ExitIsLast, EndOfFile, ReadOpen
<1> QED BY <1>1, <1>2, <1>3 DEF IInv

(* Each step keeps the types. *)
LEMMA StepTypeOK == IInv /\ [Next]_vars => TypeOK'
<1> SUFFICES ASSUME IInv, [Next]_vars PROVE TypeOK'
  OBVIOUS
<1> USE CapacityAssumption DEF IInv, TypeOK, Reading, Finished
<1> USE DEF execVars, readVars, procVars
<1>1. CASE CreateProcess BY <1>1 DEF CreateProcess
<1>2. CASE StartProcess BY <1>2 DEF StartProcess
<1>3. CASE SpawnReaders BY <1>3 DEF SpawnReaders
<1>4. CASE WaitOk \/ WaitFail BY <1>4 DEF WaitOk, WaitFail
<1>5. CASE JoinTimeout \/ Disconnected BY <1>5 DEF JoinTimeout, Disconnected
<1>6. ASSUME NEW s \in Streams, Recv(s) PROVE TypeOK' BY <1>6 DEF Recv
<1>7. CASE ProcExit \/ Fork BY <1>7 DEF ProcExit, Fork
<1>8. ASSUME NEW s \in Streams, ProcWrite(s) PROVE TypeOK'
  BY <1>8 DEF ProcWrite, Written
<1>9. ASSUME NEW s \in Streams, ChildWrite(s) \/ ChildClose(s) \/ DaemonClose(s)
      PROVE TypeOK'
  BY <1>9 DEF ChildWrite, ChildClose, DaemonClose, Written
<1>10. ASSUME NEW s \in Streams,
              CheckCancel(s) \/ Poll(s) \/ Interrupted(s) \/ ReaderPanic(s) \/ Send(s)
       PROVE TypeOK'
  BY <1>10 DEF CheckCancel, Poll, Interrupted, ReaderPanic, Send, Finish, Goes
<1>11. ASSUME NEW s \in Streams, Read(s) PROVE TypeOK'
  BY <1>11 DEF Read, Finish, Goes, Holding
<1>12. CASE UNCHANGED vars BY <1>12 DEF vars
<1> QED BY <1>1, <1>2, <1>3, <1>4, <1>5, <1>6, <1>7, <1>8, <1>9, <1>10, <1>11, <1>12
        DEF Next, Exec, Process, Reader

(* Each step keeps the bytes together. *)
LEMMA StepNoByteLost == IInv /\ [Next]_vars => NoByteLost'
<1> SUFFICES ASSUME IInv, [Next]_vars PROVE NoByteLost'
  OBVIOUS
<1> USE DEF IInv, TypeOK, NoByteLost, execVars, readVars, procVars
<1>1. ASSUME NEW s \in Streams, ProcWrite(s) \/ ChildWrite(s) PROVE NoByteLost'
  BY <1>1 DEF ProcWrite, ChildWrite, Written
<1>2. ASSUME NEW s \in Streams, Read(s) PROVE NoByteLost'
  BY <1>2, CapacityAssumption DEF Read
<1>3. ASSUME UNCHANGED <<wrote, got, pipe>> PROVE NoByteLost' BY <1>3
<1> QED BY <1>1, <1>2, <1>3
  DEF Next, Exec, Process, Reader, vars, CreateProcess, StartProcess, SpawnReaders,
      WaitOk, WaitFail, JoinTimeout, Disconnected, Recv, ProcExit, Fork, ChildClose,
      DaemonClose, CheckCancel, Poll, Interrupted, Send, ReaderPanic

------------------------------------------------------------------------------
(* The rest, one action at a time. *)

Rest == Holding /\ Phases /\ ExitIsLast /\ EndOfFile

LEMMA ExecRest == IInv /\ Exec => Rest'
<1> SUFFICES ASSUME IInv, Exec PROVE Rest'
  OBVIOUS
<1> USE CapacityAssumption
    DEF IInv, Rest, TypeOK, Holding, Phases, ExitIsLast, EndOfFile, ReadOpen, Reading,
        execVars, readVars, procVars
<1>1. CASE CreateProcess BY <1>1 DEF CreateProcess
<1>2. CASE StartProcess BY <1>2 DEF StartProcess
<1>3. CASE SpawnReaders BY <1>3 DEF SpawnReaders
<1>4. CASE WaitOk BY <1>4 DEF WaitOk
<1>5. CASE JoinTimeout \/ Disconnected BY <1>5 DEF JoinTimeout, Disconnected
<1>6. ASSUME NEW s \in Streams, Recv(s) PROVE Rest' BY <1>6 DEF Recv
<1> QED BY <1>1, <1>2, <1>3, <1>4, <1>5, <1>6 DEF Exec

LEMMA CommandRest ==
  IInv /\ (Process \/ Fork \/ \E s \in Streams :
             ChildWrite(s) \/ ChildClose(s) \/ DaemonClose(s)) => Rest'
<1> USE DEF IInv, Rest, TypeOK, Holding, Phases, ExitIsLast, EndOfFile, ReadOpen, Reading,
        execVars, readVars, procVars
<1>1. ASSUME IInv, ProcExit PROVE Rest' BY <1>1 DEF ProcExit
<1>2. ASSUME IInv, Fork PROVE Rest' BY <1>2 DEF Fork
<1>3. ASSUME IInv, NEW s \in Streams, ProcWrite(s) PROVE Rest'
  BY <1>3 DEF ProcWrite, Written
<1>4. ASSUME IInv, NEW s \in Streams, ChildWrite(s) PROVE Rest'
  BY <1>4 DEF ChildWrite, Written
<1>5. ASSUME IInv, NEW s \in Streams, ChildClose(s) \/ DaemonClose(s) PROVE Rest'
  BY <1>5 DEF ChildClose, DaemonClose
<1> QED BY <1>1, <1>2, <1>3, <1>4, <1>5 DEF Process

LEMMA ReaderRest ==
  ASSUME IInv, NEW s \in Streams, Reader(s) \/ Interrupted(s) \/ ReaderPanic(s)
  PROVE  Rest'
<1> USE CapacityAssumption
    DEF IInv, Rest, TypeOK, Holding, Phases, ExitIsLast, EndOfFile, ReadOpen, Reading,
        execVars, readVars, procVars
<1>1. CASE CheckCancel(s) BY <1>1 DEF CheckCancel, Finish, Goes
<1>2. CASE Poll(s) BY <1>2 DEF Poll, Finish, Goes
<1>3. CASE Read(s) BY <1>3 DEF Read, Finish, Goes
<1>4. CASE Send(s) BY <1>4 DEF Send
<1>5. CASE Interrupted(s) \/ ReaderPanic(s) BY <1>5 DEF Interrupted, ReaderPanic, Goes
<1> QED BY <1>1, <1>2, <1>3, <1>4, <1>5 DEF Reader

LEMMA StepIInv == IInv /\ [Next]_vars => IInv'
<1> SUFFICES ASSUME IInv, [Next]_vars PROVE Rest'
  BY StepTypeOK, StepNoByteLost DEF IInv, Rest
<1>1. CASE WaitFail
  BY <1>1 DEF WaitFail, IInv, Rest, TypeOK, Holding, Phases, ExitIsLast, EndOfFile,
              ReadOpen, Reading, readVars, procVars
<1>2. CASE UNCHANGED vars
  BY <1>2 DEF vars, execVars, readVars, procVars, IInv, Rest, Holding, Phases,
              ExitIsLast, EndOfFile, ReadOpen
<1> QED BY <1>1, <1>2, ExecRest, CommandRest, ReaderRest DEF Next

------------------------------------------------------------------------------
(* The types, with the bound on what a reader keeps in memory. *)
THEOREM TypeCorrect == Spec => []TypeOK
<1>1. IInv => TypeOK BY DEF IInv
<1> QED BY InitIInv, StepIInv, <1>1, PTL DEF Spec

(* XpcClient::exec: a successful exec has every byte that was written, the  *)
(* command has written all it wanted and nobody can write any more,         *)
(* whatever the daemon and the children of the command do with the pipes.   *)
THEOREM SuccessIsComplete == Spec => []OkIsComplete
<1>1. IInv => OkIsComplete
  BY DEF IInv, TypeOK, NoByteLost, Phases, EndOfFile, OkIsComplete
<1> QED BY InitIInv, StepIInv, <1>1, PTL DEF Spec

------------------------------------------------------------------------------
(* XpcBridge. *)

One(b) == IF b THEN 1 ELSE 0

(* What is counted, and who holds it. *)
Counts(c) ==
  /\ refs[c] = One(CallerInBridge(c)) + One(BlockInBridge(c))
  /\ ctx[c] = "live" <=> refs[c] > 0
  /\ replies[c] = One(reply[c]) + One(out[c])
  /\ dict[c] = One(bpc[c] \in {"context", "wait", "unref", "release"})

(* What can be held where. *)
Stages(c) ==
  /\ bpc[c] \in {"connect", "message", "context"} => block[c] = "none"
  /\ reply[c] => ctx[c] = "live" /\ block[c] \in {"retained", "signalled", "done"}
  /\ out[c] => bpc[c] \in {"unref", "release", "reply"}
  /\ bpc[c] = "reply" => out[c]
  /\ conn[c] = "open" <=> bpc[c] \notin {"connect", "returned", "delivered"}
  /\ fds[c] > 0 => bpc[c] \in {"cancel", "returned"}
                     \/ (bpc[c] = "delivered" /\ future[c] = "dropped")

BridgeInv == BridgeTypeOK /\ \A c \in Calls : Counts(c) /\ Stages(c)

LEMMA InitBridgeInv == BridgeInit => BridgeInv
BY DEF BridgeInit, BridgeInv, BridgeTypeOK, Counts, Stages, One, CallerInBridge,
       BlockInBridge

(* A step of one request leaves the others alone. *)
Frame(c) ==
  \A d \in Calls \ {c} :
    /\ bpc'[d] = bpc[d] /\ future'[d] = future[d] /\ conn'[d] = conn[d]
    /\ dict'[d] = dict[d] /\ ctx'[d] = ctx[d] /\ refs'[d] = refs[d]
    /\ reply'[d] = reply[d] /\ block'[d] = block[d] /\ out'[d] = out[d]
    /\ replies'[d] = replies[d] /\ fds'[d] = fds[d]

LEMMA FrameKeeps ==
  ASSUME BridgeInv, NEW c \in Calls, Frame(c), Counts(c)', Stages(c)', BridgeTypeOK'
  PROVE  BridgeInv'
<1>1. ASSUME NEW d \in Calls, d # c PROVE Counts(d)' /\ Stages(d)'
  BY <1>1 DEF BridgeInv, Frame, Counts, Stages, CallerInBridge, BlockInBridge
<1> QED BY <1>1 DEF BridgeInv

LEMMA StepCall ==
  ASSUME BridgeInv, NEW c \in Calls, CallerNext(c) \/ BlockNext(c) \/ DropFuture(c)
  PROVE  BridgeInv'
<1> USE DEF BridgeInv, BridgeTypeOK
<1> DEFINE Goal == Frame(c) /\ Counts(c)' /\ Stages(c)' /\ BridgeTypeOK'
<1> SUFFICES Goal BY FrameKeeps
<1>0. Counts(c) /\ Stages(c) OBVIOUS
<1> USE DEF Frame, Counts, Stages, One, CallerInBridge, BlockInBridge, Step, Answer
<1>1. CASE Connect(c) BY <1>0, <1>1 DEF Connect
<1>2. CASE BuildMessage(c) BY <1>0, <1>2 DEF BuildMessage
<1>3. CASE SendMessage(c)
  <2>1. Frame(c) BY <1>3 DEF SendMessage
  <2>2. BridgeTypeOK'
    <3>1. CASE block' = [block EXCEPT ![c] = "pending"]
      <4>1. refs' \in [Calls -> Nat] /\ ctx' \in [Calls -> {"none", "live", "freed"}]
        BY <1>3 DEF SendMessage
      <4> QED BY <1>3, <3>1, <4>1 DEF SendMessage
    <3>2. CASE UNCHANGED <<ctx, refs, block>> BY <1>3, <3>2 DEF SendMessage
    <3> QED BY <1>3, <3>1, <3>2 DEF SendMessage
  <2>3. Counts(c)' BY <1>0, <1>3 DEF SendMessage
  <2>4. Stages(c)' BY <1>0, <1>3 DEF SendMessage
  <2> QED BY <2>1, <2>2, <2>3, <2>4
<1>4. CASE Woken(c) BY <1>0, <1>4 DEF Woken
<1>5. CASE TimesOut(c) BY <1>0, <1>5 DEF TimesOut
<1>6. CASE CallerUnrefs(c)
  <2>1. Frame(c) BY <1>6 DEF CallerUnrefs, Unref
  <2>2. BridgeTypeOK'
    <3>1. refs[c] > 0 BY <1>0, <1>6 DEF CallerUnrefs
    <3>2. reply[c] => replies[c] > 0 BY <1>0
    <3>3. refs' \in [Calls -> Nat] BY <1>6, <3>1 DEF CallerUnrefs, Unref
    <3>4. replies' \in [Calls -> Nat] BY <1>6, <3>2 DEF CallerUnrefs, Unref
    <3>5. ctx' \in [Calls -> {"none", "live", "freed"}] BY <1>6 DEF CallerUnrefs, Unref
    <3>6. reply' = [reply EXCEPT ![c] = FALSE] \/ reply' = reply
      BY <1>6 DEF CallerUnrefs, Unref
    <3>7. reply' \in [Calls -> BOOLEAN] BY <3>6
    <3> QED BY <1>6, <3>3, <3>4, <3>5, <3>7 DEF CallerUnrefs
  <2>3. Counts(c)' BY <1>0, <1>6 DEF CallerUnrefs, Unref
  <2>4. Stages(c)' BY <1>0, <1>6 DEF CallerUnrefs, Unref
  <2> QED BY <2>1, <2>2, <2>3, <2>4
<1>7. CASE ReleaseMessage(c) BY <1>0, <1>7 DEF ReleaseMessage
<1>8. CASE ReadReply(c) BY <1>0, <1>8 DEF ReadReply
<1>9. CASE DropConn(c) BY <1>0, <1>9 DEF DropConn
<1>10. CASE Deliver(c) BY <1>0, <1>10 DEF Deliver
<1>11. CASE BlockRetains(c) BY <1>0, <1>11 DEF BlockRetains
<1>12. CASE BlockSignals(c) BY <1>0, <1>12 DEF BlockSignals
<1>13. CASE BlockUnrefs(c)
  <2>1. Frame(c) BY <1>13 DEF BlockUnrefs, Unref
  <2>2. BridgeTypeOK'
    <3>1. refs[c] > 0 BY <1>0, <1>13 DEF BlockUnrefs
    <3>2. reply[c] => replies[c] > 0 BY <1>0
    <3>3. refs' \in [Calls -> Nat] BY <1>13, <3>1 DEF BlockUnrefs, Unref
    <3>4. replies' \in [Calls -> Nat] BY <1>13, <3>2 DEF BlockUnrefs, Unref
    <3>5. ctx' \in [Calls -> {"none", "live", "freed"}] BY <1>13 DEF BlockUnrefs, Unref
    <3>6. reply' = [reply EXCEPT ![c] = FALSE] \/ reply' = reply
      BY <1>13 DEF BlockUnrefs, Unref
    <3>7. reply' \in [Calls -> BOOLEAN] BY <3>6
    <3> QED BY <1>13, <3>3, <3>4, <3>5, <3>7 DEF BlockUnrefs
  <2>3. Counts(c)' BY <1>0, <1>13 DEF BlockUnrefs, Unref
  <2>4. Stages(c)' BY <1>0, <1>13 DEF BlockUnrefs, Unref
  <2> QED BY <2>1, <2>2, <2>3, <2>4
<1>14. CASE DropFuture(c) BY <1>0, <1>14 DEF DropFuture
<1> QED
  BY <1>1, <1>2, <1>3, <1>4, <1>5, <1>6, <1>7, <1>8, <1>9, <1>10, <1>11, <1>12, <1>13,
     <1>14 DEF CallerNext, BlockNext

LEMMA StepBridgeInv == BridgeInv /\ [BridgeNext]_bridgeVars => BridgeInv'
<1> SUFFICES ASSUME BridgeInv, [BridgeNext]_bridgeVars PROVE BridgeInv'
  OBVIOUS
<1>1. CASE UNCHANGED bridgeVars
  BY <1>1 DEF bridgeVars, BridgeInv, BridgeTypeOK, Counts, Stages, CallerInBridge,
              BlockInBridge
<1> QED BY <1>1, StepCall DEF BridgeNext

(* No reference count of the bridge falls below zero: all of them stay      *)
(* natural numbers, with the other types.                                   *)
THEOREM BridgeTypes == BridgeSpec => []BridgeTypeOK
<1>1. BridgeInv => BridgeTypeOK BY DEF BridgeInv
<1> QED BY InitBridgeInv, StepBridgeInv, <1>1, PTL DEF BridgeSpec

(* xpc_bridge_reply_ctx_unref: for any number of requests, replies that     *)
(* come before, at or after the timeout find their context live, and when   *)
(* caller and block are through, everything has been given back.            *)
THEOREM LateReplyIsSafe == BridgeSpec => []BridgeMemory
<1>1. BridgeInv => BridgeMemory
  <2> SUFFICES ASSUME BridgeInv, NEW c \in Calls
               PROVE  /\ CallerInBridge(c) \/ BlockInBridge(c) => ctx[c] = "live"
                      /\ bpc[c] = "delivered" /\ ~BlockInBridge(c) =>
                           /\ ctx[c] # "live" /\ replies[c] = 0 /\ dict[c] = 0
                           /\ conn[c] # "open" /\ (fds[c] > 0 => future[c] = "dropped")
    BY DEF BridgeMemory
  <2>0. Counts(c) /\ Stages(c) BY DEF BridgeInv
  <2>1. CallerInBridge(c) \/ BlockInBridge(c) => ctx[c] = "live"
    BY <2>0 DEF Counts, One
  <2>2. ASSUME bpc[c] = "delivered", ~BlockInBridge(c)
        PROVE  ctx[c] # "live" /\ dict[c] = 0 /\ ~reply[c] /\ ~out[c]
    BY <2>0, <2>2 DEF Counts, Stages, One, CallerInBridge
  <2>3. ASSUME bpc[c] = "delivered"
        PROVE  conn[c] # "open" /\ (fds[c] > 0 => future[c] = "dropped")
    BY <2>0, <2>3 DEF Stages
  <2>4. ~reply[c] /\ ~out[c] => replies[c] = 0
    BY <2>0 DEF Counts, One
  <2> QED BY <2>1, <2>2, <2>3, <2>4
<1> QED BY InitBridgeInv, StepBridgeInv, <1>1, PTL DEF BridgeSpec
==============================================================================
