----------------------------- MODULE XpcBridge -----------------------------
(***************************************************************************)
(* One XPC request on macOS: call of src/core/client/xpc_client.rs, which  *)
(* runs on a blocking thread of the runtime, XpcConn and RawReply of       *)
(* src/xpc/conn.rs, and the bridge in C below them, src/xpc_bridge.c.      *)
(*                                                                         *)
(* The bridge makes an asynchronous request synchronous: the calling       *)
(* thread waits on a semaphore, with a timeout, for a reply block that a   *)
(* thread of the system runs exactly once, at the latest when the          *)
(* connection is cancelled.  Both share a context with two references.     *)
(* What is counted here is memory and descriptors: who holds what, when.   *)
(***************************************************************************)
EXTENDS Naturals

CONSTANTS Calls  \* requests under way

VARIABLES
  bpc,      \* where the calling thread is
  future,   \* the future of call: awaited, or dropped by its owner
  conn,     \* the connection: none, open, released
  dict,     \* references to the message, which owns duplicated descriptors
  ctx,      \* the context: none, live, freed
  refs,     \* its reference count
  reply,    \* ctx->result holds the reply
  sem,      \* value of its semaphore
  block,    \* the reply block: none, pending, retained, signalled, done
  out,      \* the caller holds the reply
  replies,  \* references to the reply that are ours
  fds,      \* log descriptors duplicated from the reply and open
  answer    \* what the call returned

bridgeVars == <<bpc, future, conn, dict, ctx, refs, reply, sem, block, out,
                replies, fds, answer>>

BridgeInit ==
  /\ bpc = [c \in Calls |-> "connect"] /\ future = [c \in Calls |-> "awaited"]
  /\ conn = [c \in Calls |-> "none"] /\ dict = [c \in Calls |-> 0]
  /\ ctx = [c \in Calls |-> "none"] /\ refs = [c \in Calls |-> 0]
  /\ reply = [c \in Calls |-> FALSE] /\ sem = [c \in Calls |-> 0]
  /\ block = [c \in Calls |-> "none"] /\ out = [c \in Calls |-> FALSE]
  /\ replies = [c \in Calls |-> 0] /\ fds = [c \in Calls |-> 0]
  /\ answer = [c \in Calls |-> "none"]

Step(c, from, to) == bpc[c] = from /\ bpc' = [bpc EXCEPT ![c] = to]
Answer(c, a) == answer' = [answer EXCEPT ![c] = a]

(* XpcConn::connect. *)
Connect(c) ==
  /\ \/ /\ Step(c, "connect", "message") /\ conn' = [conn EXCEPT ![c] = "open"]
        /\ answer' = answer
     \/ Step(c, "connect", "returned") /\ Answer(c, "XpcConnect") /\ conn' = conn
  /\ UNCHANGED <<future, dict, ctx, refs, reply, sem, block, out, replies, fds>>

(* The first half of send_with_timeout: what may fail for its strings is   *)
(* done before the dictionary exists; a descriptor that cannot be put into *)
(* it releases it.                                                         *)
BuildMessage(c) ==
  /\ \/ /\ Step(c, "message", "context") /\ dict' = [dict EXCEPT ![c] = 1]
        /\ answer' = answer
     \/ Step(c, "message", "cancel") /\ Answer(c, "Xpc") /\ dict' = dict
  /\ UNCHANGED <<future, conn, ctx, refs, reply, sem, block, out, replies, fds>>

(* xpc_bridge_send_message_with_reply_sync: the context with its semaphore *)
(* (without memory for either the answer is NULL), then the message.       *)
SendMessage(c) ==
  /\ \/ /\ Step(c, "context", "wait")
        /\ ctx' = [ctx EXCEPT ![c] = "live"] /\ refs' = [refs EXCEPT ![c] = 2]
        /\ block' = [block EXCEPT ![c] = "pending"]
     \/ Step(c, "context", "release") /\ UNCHANGED <<ctx, refs, block>>
  /\ UNCHANGED <<future, conn, dict, reply, sem, out, replies, fds, answer>>

(* Mutant of Unref: the reply nobody took is forgotten. *)
UnrefKeepsReply(c) ==
  /\ refs' = [refs EXCEPT ![c] = @ - 1]
  /\ IF refs[c] = 1
     THEN ctx' = [ctx EXCEPT ![c] = "freed"] /\ reply' = [reply EXCEPT ![c] = FALSE]
     ELSE UNCHANGED <<ctx, reply>>
  /\ replies' = replies

(* xpc_bridge_reply_ctx_unref: the last one out frees the context and the  *)
(* reply nobody took.                                                      *)
Unref(c) ==
  /\ refs' = [refs EXCEPT ![c] = @ - 1]
  /\ IF refs[c] = 1
     THEN /\ ctx' = [ctx EXCEPT ![c] = "freed"]
          /\ replies' = IF reply[c] THEN [replies EXCEPT ![c] = @ - 1] ELSE replies
          /\ reply' = [reply EXCEPT ![c] = FALSE]
     ELSE UNCHANGED <<ctx, replies, reply>>

(* The reply block, on a thread of the system: it retains the reply,       *)
BlockRetains(c) ==
  /\ block[c] = "pending" /\ block' = [block EXCEPT ![c] = "retained"]
  /\ reply' = [reply EXCEPT ![c] = TRUE]
  /\ replies' = [replies EXCEPT ![c] = @ + 1]
  /\ UNCHANGED <<bpc, future, conn, dict, ctx, refs, sem, out, fds, answer>>

(* wakes the caller,                                                       *)
BlockSignals(c) ==
  /\ block[c] = "retained" /\ block' = [block EXCEPT ![c] = "signalled"]
  /\ sem' = [sem EXCEPT ![c] = @ + 1]
  /\ UNCHANGED <<bpc, future, conn, dict, ctx, refs, reply, out, replies, fds, answer>>

(* and lets go of the context.                                             *)
BlockUnrefs(c) ==
  /\ block[c] = "signalled" /\ block' = [block EXCEPT ![c] = "done"]
  /\ Unref(c)
  /\ UNCHANGED <<bpc, future, conn, dict, sem, out, fds, answer>>

(* dispatch_semaphore_wait: woken, the caller takes the reply over ... *)
Woken(c) ==
  /\ Step(c, "wait", "unref") /\ sem[c] > 0
  /\ sem' = [sem EXCEPT ![c] = @ - 1]
  /\ out' = [out EXCEPT ![c] = reply[c]] /\ reply' = [reply EXCEPT ![c] = FALSE]
  /\ UNCHANGED <<future, conn, dict, ctx, refs, block, replies, fds, answer>>

(* Mutant of TimesOut: waiting forever. *)
NeverTimesOut(c) == FALSE /\ UNCHANGED bridgeVars

(* ... or the timeout passes. *)
TimesOut(c) ==
  /\ Step(c, "wait", "unref") /\ sem[c] = 0
  /\ UNCHANGED <<future, conn, dict, ctx, refs, reply, sem, block, out, replies,
                 fds, answer>>

CallerUnrefs(c) ==
  /\ Step(c, "unref", "release") /\ Unref(c)
  /\ UNCHANGED <<future, conn, dict, sem, block, out, fds, answer>>

(* Back in send_with_timeout: the message is released; NULL is a timeout. *)
ReleaseMessage(c) ==
  /\ IF out[c] THEN Step(c, "release", "reply") /\ answer' = answer
     ELSE Step(c, "release", "cancel") /\ Answer(c, "XpcTimeout")
  /\ dict' = [dict EXCEPT ![c] = @ - 1]
  /\ UNCHANGED <<future, conn, ctx, refs, reply, sem, block, out, replies, fds>>

(* The reply is an error, or the operation reads it: XpcClient::logs       *)
(* duplicates two descriptors and closes what it got when one is missing   *)
(* or invalid.  RawReply is dropped in either case.                        *)
ReadReply(c) ==
  /\ Step(c, "reply", "cancel")
  /\ \/ Answer(c, "Xpc") /\ fds' = fds
     \/ Answer(c, "ok") /\ fds' = fds
     \/ Answer(c, "ok") /\ fds' = [fds EXCEPT ![c] = 2]
  /\ out' = [out EXCEPT ![c] = FALSE] /\ replies' = [replies EXCEPT ![c] = @ - 1]
  /\ UNCHANGED <<future, conn, dict, ctx, refs, reply, sem, block>>

(* XpcConn is dropped: cancelled and released. *)
DropConn(c) ==
  /\ Step(c, "cancel", "returned") /\ conn' = [conn EXCEPT ![c] = "released"]
  /\ UNCHANGED <<future, dict, ctx, refs, reply, sem, block, out, replies, fds, answer>>

(* The future of call may be dropped at any time (a timeout, a select); the *)
(* blocking thread goes on.                                                *)
DropFuture(c) ==
  /\ bpc[c] # "delivered" /\ future[c] = "awaited"
  /\ future' = [future EXCEPT ![c] = "dropped"]
  /\ UNCHANGED <<bpc, conn, dict, ctx, refs, reply, sem, block, out, replies, fds, answer>>

(* The answer reaches the owner of the future, who closes the descriptors  *)
(* in the end (ContainerLogSource), or nobody.                             *)
Deliver(c) ==
  /\ Step(c, "returned", "delivered")
  /\ fds' = IF future[c] = "awaited" THEN [fds EXCEPT ![c] = 0] ELSE fds
  /\ UNCHANGED <<future, conn, dict, ctx, refs, reply, sem, block, out, replies, answer>>

CallerNext(c) ==
  \/ Connect(c) \/ BuildMessage(c) \/ SendMessage(c) \/ Woken(c) \/ TimesOut(c)
  \/ CallerUnrefs(c) \/ ReleaseMessage(c) \/ ReadReply(c) \/ DropConn(c) \/ Deliver(c)

BlockNext(c) == BlockRetains(c) \/ BlockSignals(c) \/ BlockUnrefs(c)

BridgeNext == \E c \in Calls : CallerNext(c) \/ BlockNext(c) \/ DropFuture(c)

(* The threads run, and the timeout bounds the wait.  A daemon may never   *)
(* answer: only on a cancelled connection does the system run the block.   *)
BlockMust(c) == BlockNext(c) /\ (block[c] = "pending" => conn[c] = "released")

BridgeFairness ==
  \A c \in Calls : WF_bridgeVars(CallerNext(c)) /\ WF_bridgeVars(BlockMust(c))

BridgeSpec == BridgeInit /\ [][BridgeNext]_bridgeVars /\ BridgeFairness
------------------------------------------------------------------------------
CallerInBridge(c) == bpc[c] \in {"wait", "unref"}
BlockInBridge(c) == block[c] \in {"pending", "retained", "signalled"}

BridgeTypeOK ==
  /\ bpc \in [Calls -> {"connect", "message", "context", "wait", "unref", "release",
                        "reply", "cancel", "returned", "delivered"}]
  /\ future \in [Calls -> {"awaited", "dropped"}]
  /\ conn \in [Calls -> {"none", "open", "released"}]
  /\ dict \in [Calls -> Nat] /\ ctx \in [Calls -> {"none", "live", "freed"}]
  /\ refs \in [Calls -> Nat] /\ reply \in [Calls -> BOOLEAN]
  /\ sem \in [Calls -> Nat]
  /\ block \in [Calls -> {"none", "pending", "retained", "signalled", "done"}]
  /\ out \in [Calls -> BOOLEAN] /\ replies \in [Calls -> Nat]
  /\ fds \in [Calls -> Nat]
  /\ answer \in [Calls -> {"none", "ok", "Xpc", "XpcConnect", "XpcTimeout"}]

(* A late reply neither touches freed memory nor is lost.  While the       *)
(* caller or the reply block may touch the context it is live; when both   *)
(* are through with it, it is freed and every reference to it, to the      *)
(* message, to the reply and to the connection has been given back; a      *)
(* descriptor stays open only if the future was dropped meanwhile          *)
(* (xpc_bridge_reply_ctx_unref, send_with_timeout, XpcClient::logs, whose  *)
(* descriptors nothing owns on the way to the caller).                     *)
BridgeMemory ==
  \A c \in Calls :
    /\ CallerInBridge(c) \/ BlockInBridge(c) => ctx[c] = "live"
    /\ bpc[c] = "delivered" /\ ~BlockInBridge(c) =>
         /\ ctx[c] # "live" /\ replies[c] = 0 /\ dict[c] = 0 /\ conn[c] # "open"
         /\ fds[c] > 0 => future[c] = "dropped"

(* Whatever the daemon does, every request that has a connection ends, and *)
(* the context of one that timed out is freed once its reply or its        *)
(* cancellation arrives.                                                   *)
RequestsEnd ==
  \A c \in Calls : conn[c] = "open" ~> (bpc[c] = "delivered" /\ ctx[c] # "live")
=============================================================================
