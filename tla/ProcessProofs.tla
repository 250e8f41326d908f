---------------------------- MODULE ProcessProofs ----------------------------
(***************************************************************************)
(* Proofs about what a process keeps for all of its containers: the        *)
(* reaper (Watchdog), for any processes, names and limit, and the runtime  *)
(* of the blocking API (SharedRuntime), for any finite sets of threads,    *)
(* any number of runtimes and of Containers.                               *)
(*                                                                         *)
(* KnownUnlessKilled is not inductive: a register() that spawns a reaper   *)
(* starts with an empty list, which is right only because nothing was      *)
(* registered before.  OneReaper adds that a process whose reaper nobody   *)
(* killed keeps the reaper that read its first id.                         *)
(*                                                                         *)
(* RuntimeDrop is not inductive.  Ages adds that runtimes are built in     *)
(* order, that the Weak is the latest one and that a runtime is up exactly *)
(* as long as somebody holds it; Places adds that a worker only calls from *)
(* a callback and then deals with its own runtime or with a later one.     *)
(***************************************************************************)
EXTENDS Watchdog, SharedRuntime, FiniteSetTheorems, TLAPS

OneReaper(p) ==
  kills[p] = 0 =>
    /\ stdin[p] <=> reaper[p] = "up"
    /\ reaper[p] # "dead"
    /\ registered[p] # {} => reaper[p] = "up"
    /\ alive[p] => registered[p] \subseteq ids[p]

IInv == TypeOK /\ \A p \in Procs : OneReaper(p)

LEMMA InitIInv == Init => IInv
BY LimitAssumption, NobodyAssumption DEF Init, IInv, TypeOK, OneReaper

(* What register() may have brought about. *)
LEMMA RegisterOutcome ==
  ASSUME TypeOK, NEW p \in Procs, NEW n \in Names, register(p, n)
  PROVE  \E o \in [up : {"none", "up"}, ids : SUBSET Names,
                   failures : 0..MAX_SPAWN_FAILURES, written : BOOLEAN] :
           /\ stdin' = [stdin EXCEPT ![p] = (o.up = "up")]
           /\ reaper' = [reaper EXCEPT ![p] = o.up]
           /\ ids' = [ids EXCEPT ![p] = o.ids]
           /\ failures' = [failures EXCEPT ![p] = o.failures]
           /\ registered' = [registered EXCEPT ![p] = IF o.written THEN @ \cup {n} ELSE @]
           /\ o.written <=> o.up = "up"
           /\ o.written => n \in o.ids
           /\ stdin[p] /\ reaper[p] = "up" => o.written /\ ids[p] \subseteq o.ids
<1> DEFINE Out == [up : {"none", "up"}, ids : SUBSET Names,
                   failures : 0..MAX_SPAWN_FAILURES, written : BOOLEAN]
<1>0. PICK o \in (IF ~stdin[p] THEN FirstSpawn(p, n)
                  ELSE IF reaper[p] = "up" THEN write_id(p, n)
                  ELSE Respawn(p, n)) :
        /\ stdin' = [stdin EXCEPT ![p] = (o.up = "up")]
        /\ reaper' = [reaper EXCEPT ![p] = o.up]
        /\ ids' = [ids EXCEPT ![p] = o.ids]
        /\ failures' = [failures EXCEPT ![p] = o.failures]
        /\ registered' = [registered EXCEPT ![p] = IF o.written THEN @ \cup {n} ELSE @]
  BY DEF register
<1>1. failures[p] \in 0..MAX_SPAWN_FAILURES /\ MAX_SPAWN_FAILURES \in Nat
      /\ ids[p] \in SUBSET Names
  BY LimitAssumption DEF TypeOK
<1> DEFINE Good(q) == /\ q \in Out /\ (q.written <=> q.up = "up")
                      /\ (q.written => n \in q.ids)
<1>a. ASSUME NEW f \in 0..MAX_SPAWN_FAILURES
      PROVE  Good(Outcome("none", {}, f, FALSE))
  BY <1>a DEF Outcome
<1>b. ASSUME NEW f \in 0..MAX_SPAWN_FAILURES, NEW read \in SUBSET Names, n \in read
      PROVE  LET q == Outcome("up", read, f, TRUE)
             IN  Good(q) /\ q.written /\ q.ids = read
  BY <1>b DEF Outcome
<1> HIDE DEF Good
<1>c. failures[p] < MAX_SPAWN_FAILURES => failures[p] + 1 \in 0..MAX_SPAWN_FAILURES
  BY <1>1
<1>d. Good(Outcome("up", {n}, failures[p], TRUE)) BY <1>1, <1>b
<1>e. Good(Outcome("none", {}, failures[p], FALSE)) BY <1>1, <1>a
<1>f. ASSUME ~(failures[p] >= MAX_SPAWN_FAILURES)
      PROVE  Good(Outcome("none", {}, failures[p] + 1, FALSE))
  <2>1. failures[p] + 1 \in 0..MAX_SPAWN_FAILURES BY <1>1, <1>c, <1>f
  <2> QED BY <2>1, <1>a
<1>2. \A q \in Respawn(p, n) : Good(q)
  BY <1>d, <1>e, <1>f, Zenon DEF Respawn
<1>3. \A q \in FirstSpawn(p, n) : Good(q)
  BY <1>2, <1>d, <1>e, <1>f, Zenon DEF FirstSpawn
<1>4. \A q \in write_id(p, n) : Good(q) /\ q.written /\ ids[p] \subseteq q.ids
  <2>1. ids[p] \cup {n} \in SUBSET Names /\ n \in ids[p] \cup {n} BY <1>1
  <2> DEFINE w == Outcome("up", ids[p] \cup {n}, failures[p], TRUE)
  <2>2. Good(w) /\ w.written /\ w.ids = ids[p] \cup {n} BY <1>1, <1>b, <2>1
  <2> HIDE DEF w
  <2>3. ids[p] \subseteq w.ids BY <2>2
  <2>4. \A q \in write_id(p, n) : q = w BY DEF write_id, w
  <2> QED BY <2>2, <2>3, <2>4
<1>5. Good(o) /\ (stdin[p] /\ reaper[p] = "up" => o.written /\ ids[p] \subseteq o.ids)
  BY <1>0, <1>2, <1>3, <1>4
<1> QED BY <1>0, <1>5 DEF Good

LEMMA StepTypeOK == TypeOK /\ [Next]_vars => TypeOK'
<1> SUFFICES ASSUME TypeOK, [Next]_vars PROVE TypeOK'
  OBVIOUS
<1> USE LimitAssumption, NobodyAssumption DEF TypeOK, reaperVars
<1>1. ASSUME NEW p \in Procs, NEW n \in Names, Create(p, n) PROVE TypeOK'
  BY <1>1 DEF Create
<1>2. ASSUME NEW p \in Procs, NEW n \in Names, register(p, n) PROVE TypeOK'
  <2>1. pending' \in [Procs -> SUBSET Names] /\ UNCHANGED <<owner, alive, kills>>
    BY <1>2 DEF register
  <2>2. PICK o \in [up : {"none", "up"}, ids : SUBSET Names,
                    failures : 0..MAX_SPAWN_FAILURES, written : BOOLEAN] :
          /\ stdin' = [stdin EXCEPT ![p] = (o.up = "up")]
          /\ reaper' = [reaper EXCEPT ![p] = o.up]
          /\ ids' = [ids EXCEPT ![p] = o.ids]
          /\ failures' = [failures EXCEPT ![p] = o.failures]
          /\ registered' = [registered EXCEPT ![p] = IF o.written THEN @ \cup {n} ELSE @]
    BY <1>2, RegisterOutcome
  <2>3. stdin' \in [Procs -> BOOLEAN] BY <2>2
  <2>4. reaper' \in [Procs -> {"none", "up", "dead"}] BY <2>2
  <2>5. failures' \in [Procs -> 0..MAX_SPAWN_FAILURES] BY <2>2
  <2>6. ids' \in [Procs -> SUBSET Names] BY <2>2
  <2>7. registered' \in [Procs -> SUBSET Names] BY <2>2
  <2> QED BY <2>1, <2>3, <2>4, <2>5, <2>6, <2>7
<1>3. ASSUME NEW p \in Procs, NEW n \in Names, Drop(p, n) PROVE TypeOK'
  BY <1>3 DEF Drop
<1>4. ASSUME NEW p \in Procs, NEW n \in Names, Reap(p, n) PROVE TypeOK'
  BY <1>4 DEF Reap
<1>5. ASSUME NEW p \in Procs, Die(p) PROVE TypeOK'
  BY <1>5 DEF Die
<1>6. ASSUME NEW p \in Procs, Kill(p) PROVE TypeOK'
  BY <1>6 DEF Kill
<1>7. CASE UNCHANGED vars BY <1>7 DEF vars
<1> QED BY <1>1, <1>2, <1>3, <1>4, <1>5, <1>6, <1>7 DEF Next

LEMMA StepIInv == IInv /\ [Next]_vars => IInv'
<1> SUFFICES ASSUME IInv, [Next]_vars PROVE \A q \in Procs : OneReaper(q)'
  BY StepTypeOK DEF IInv
<1> USE DEF IInv, TypeOK, OneReaper, reaperVars
<1>1. ASSUME NEW p \in Procs, NEW n \in Names, Create(p, n) \/ Drop(p, n)
      PROVE  \A q \in Procs : OneReaper(q)'
  BY <1>1 DEF Create, Drop
<1>2. ASSUME NEW p \in Procs, NEW n \in Names, register(p, n), NEW q \in Procs
      PROVE  OneReaper(q)'
  <2>1. UNCHANGED <<alive, kills>> BY <1>2 DEF register
  <2>2. CASE q # p BY <1>2, <2>1, <2>2, RegisterOutcome
  <2>3. CASE q = p /\ kills[p] = 0 BY <1>2, <2>1, <2>3, RegisterOutcome
  <2> QED BY <2>1, <2>2, <2>3
<1>3. ASSUME NEW p \in Procs, NEW n \in Names, Reap(p, n)
      PROVE  \A q \in Procs : OneReaper(q)'
  BY <1>3 DEF Reap
<1>4. ASSUME NEW p \in Procs, Die(p) PROVE \A q \in Procs : OneReaper(q)'
  BY <1>4 DEF Die
<1>5. ASSUME NEW p \in Procs, Kill(p) PROVE \A q \in Procs : OneReaper(q)'
  BY <1>5, LimitAssumption DEF Kill
<1>6. CASE UNCHANGED vars BY <1>6 DEF vars
<1> QED BY <1>1, <1>2, <1>3, <1>4, <1>5, <1>6 DEF Next

(* try_spawn_reaper: the types, with the failures counted on every path to  *)
(* a spawn at most MAX_SPAWN_FAILURES.                                      *)
THEOREM TypeCorrect == Spec => []TypeOK
<1> QED BY InitIInv, StepTypeOK, PTL DEF Spec, IInv

(* register: for any number of processes that share the names, the reaper   *)
(* of a process knows every container that the process registered and has,  *)
(* whatever spawns and writes failed, unless somebody killed a reaper.      *)
THEOREM ReaperKnows == Spec => []KnownUnlessKilled
<1>1. IInv => KnownUnlessKilled
  BY DEF IInv, TypeOK, OneReaper, KnownUnlessKilled, Known
<1> QED BY InitIInv, StepIInv, <1>1, PTL DEF Spec

------------------------------------------------------------------------------
(* SharedRuntime. *)

RType ==
  /\ weak \in 0..MaxRuntimes
  /\ rt \in [Runtimes -> {"none", "up", "stopping", "gone"}]
  /\ owned \in [Runtimes -> Nat]
  /\ callback \in [Runtimes -> BOOLEAN]
  /\ spc \in [Callers -> {"idle", "got", "blocked", "drop", "join drop", "stop", "join stop"}]
  /\ arc \in [Callers -> 0..MaxRuntimes]

Held(r) == owned[r] # 0 \/ Holders(r) # {}
Stopping(r) == \E a \in Callers : arc[a] = r /\ spc[a] \in {"stop", "join stop"}

Ages ==
  \A r \in Runtimes :
    /\ rt[r] # "none" <=> r <= weak
    /\ rt[r] = "up" => r = weak
    /\ rt[r] = "up" <=> Held(r)
    /\ rt[r] = "stopping" => Stopping(r)

Places ==
  /\ \A a \in Callers : /\ arc[a] = 0 <=> spc[a] = "idle"
                        /\ spc[a] = "stop" => a \in Outside
  /\ \A r \in Runtimes : /\ callback[r] => rt[r] # "none"
                         /\ spc[r] # "idle" => callback[r] /\ r <= arc[r]
                         /\ spc[r] = "blocked" => arc[r] # r

RInv == RType /\ Ages /\ Places

LEMMA RuntimesAre ==
  /\ MaxRuntimes \in Nat /\ 0 \in 0..MaxRuntimes /\ 0 \notin Runtimes
  /\ \A r \in Runtimes : r \in Nat /\ r # 0 /\ r > 0 /\ r \in 0..MaxRuntimes
  /\ \A n \in 0..MaxRuntimes : n \in Nat /\ (n # 0 => n \in Runtimes)
BY RuntimeAssumption DEF Runtimes

LEMMA InitRInv == RuntimeInit => RInv
<1> SUFFICES ASSUME RuntimeInit PROVE RInv
  OBVIOUS
<1>1. RType BY RuntimesAre DEF RuntimeInit, RType
<1>2. \A r \in Runtimes : ~Held(r)
  <2> SUFFICES ASSUME NEW r \in Runtimes PROVE ~Held(r)
    OBVIOUS
  <2>1. owned[r] = 0 BY DEF RuntimeInit
  <2>2. \A a \in Callers : arc[a] # r BY RuntimesAre DEF RuntimeInit
  <2> QED BY <2>1, <2>2, Zenon DEF Held, Holders
<1>3. Ages BY <1>2, RuntimesAre DEF RuntimeInit, Ages
<1>4. Places BY DEF RuntimeInit, Places, Callers
<1> QED BY <1>1, <1>3, <1>4 DEF RInv

(* The strong count says who holds a runtime. *)
LEMMA StrongCount ==
  ASSUME RType, NEW r \in Runtimes
  PROVE  /\ Strong(r) > 0 <=> Held(r)
         /\ \A a \in Holders(r) : Strong(r) = 1 <=> owned[r] = 0 /\ Holders(r) = {a}
<1>1. IsFiniteSet(Runtimes)
  BY RuntimeAssumption, FS_Interval DEF Runtimes
<1>2. IsFiniteSet(Callers)
  <2>1. IsFiniteSet(Outside \cup Inside) BY RuntimeAssumption, FS_Union
  <2> QED BY <1>1, <2>1, FS_Union DEF Callers
<1>3. Holders(r) \in SUBSET Callers BY DEF Holders
<1>4. IsFiniteSet(Holders(r)) BY <1>2, <1>3, FS_Subset
<1>5. Cardinality(Holders(r)) \in Nat BY <1>4, FS_CardinalityType
<1>6. Cardinality(Holders(r)) = 0 <=> Holders(r) = {} BY <1>4, FS_EmptySet
<1>7. Cardinality(Holders(r)) = 1 <=> \E x : Holders(r) = {x} BY <1>4, FS_Singleton
<1>8. owned[r] \in Nat BY DEF RType
<1>9. Strong(r) > 0 <=> Held(r) BY <1>5, <1>6, <1>8 DEF Strong, Held
<1>10. ASSUME NEW a \in Holders(r)
       PROVE  Strong(r) = 1 <=> owned[r] = 0 /\ Holders(r) = {a}
  <2>1. Cardinality(Holders(r)) = 1 <=> Holders(r) = {a} BY <1>7, <1>10
  <2>2. Cardinality(Holders(r)) > 0 BY <1>5, <1>6, <1>10
  <2> QED BY <1>5, <1>8, <2>1, <2>2 DEF Strong
<1> QED BY <1>9, <1>10

(* Whoever gets hold of a runtime that is up gets the latest. *)
LEMMA StepGet ==
  ASSUME RInv, NEW a \in Callers, GetSharedRuntime(a) PROVE RInv'
<1>1. PICK r \in Runtimes :
        /\ IF weak # 0 /\ Strong(weak) > 0 THEN r = weak
           ELSE rt[r] = "none" /\ \A q \in 1 .. r - 1 : rt[q] # "none"
        /\ weak' = r /\ rt' = [rt EXCEPT ![r] = "up"] /\ arc' = [arc EXCEPT ![a] = r]
        /\ spc' = [spc EXCEPT ![a] = "got"] /\ owned' = owned /\ callback' = callback
  BY DEF GetSharedRuntime, Goes_
<1>2. spc[a] = "idle" /\ (a \in Runtimes => callback[a]) BY DEF GetSharedRuntime, Free
<1>t. RType'
  <2>1. r \in 0..MaxRuntimes BY RuntimesAre
  <2>2. rt' \in [Runtimes -> {"none", "up", "stopping", "gone"}] BY <1>1 DEF RInv, RType
  <2>3. arc' \in [Callers -> 0..MaxRuntimes] BY <1>1, <2>1 DEF RInv, RType
  <2> QED BY <1>1, <2>1, <2>2, <2>3 DEF RInv, RType
<1>3. \A q \in Runtimes : rt[q] = "up" => q = r
  <2>1. CASE weak # 0 /\ Strong(weak) > 0 BY <1>1, <2>1 DEF RInv, Ages
  <2>2. CASE ~(weak # 0 /\ Strong(weak) > 0)
    <3>1. ASSUME NEW q \in Runtimes, rt[q] = "up" PROVE FALSE
      <4>1. q = weak /\ Held(q) /\ weak # 0 BY <3>1 DEF RInv, Ages, Runtimes
      <4> QED BY <4>1, <2>2, StrongCount DEF RInv
    <3> QED BY <3>1
  <2> QED BY <2>1, <2>2
<1>4. weak <= r /\ \A q \in Runtimes : q <= r <=> (q <= weak \/ q = r)
  <2>1. CASE weak # 0 /\ Strong(weak) > 0
    <3>1. r = weak /\ r \in Nat BY <1>1, <2>1, RuntimesAre
    <3>2. \A q \in Runtimes : q \in Nat BY RuntimesAre
    <3> QED BY <3>1, <3>2
  <2>2. CASE ~(weak # 0 /\ Strong(weak) > 0)
    <3>1. rt[r] = "none" /\ \A q \in 1 .. r - 1 : rt[q] # "none" BY <1>1, <2>2
    <3>2. ~(r <= weak) BY <3>1 DEF RInv, Ages
    <3>3. \A q \in 1 .. r - 1 : q <= weak BY <3>1, RuntimeAssumption DEF RInv, Ages, Runtimes
    <3>4. weak \in Nat /\ r \in Nat BY RuntimesAre DEF RInv, RType
    <3>5. ASSUME NEW q \in Runtimes PROVE q <= r <=> (q <= weak \/ q = r)
      <4>1. q \in Nat /\ q > 0 BY RuntimesAre
      <4>2. q < r => q \in 1 .. r - 1 BY <3>4, <4>1
      <4> QED BY <3>2, <3>3, <3>4, <4>1, <4>2
    <3> QED BY <3>2, <3>4, <3>5
  <2> QED BY <2>1, <2>2
<1>5. a \in Holders(r)' BY <1>1 DEF Holders, RInv, RType
<1>6. \A q \in Runtimes \ {r} : Held(q)' <=> Held(q)
  BY <1>1, <1>2 DEF Held, Holders, RInv, RType
<1>7. \A q \in Runtimes : Stopping(q) => Stopping(q)'
  BY <1>1, <1>2 DEF Stopping, RInv, RType
<1>8. Ages'
  <2> SUFFICES ASSUME NEW q \in Runtimes
               PROVE  /\ (rt[q] # "none" <=> q <= weak)'
                      /\ (rt[q] = "up" => q = weak)'
                      /\ (rt[q] = "up" <=> Held(q))'
                      /\ (rt[q] = "stopping" => Stopping(q))'
    BY DEF Ages
  <2>1. CASE q = r
    <3>1. rt'[q] = "up" BY <1>1, <2>1 DEF RInv, RType
    <3>2. Held(q)' BY <1>5, <2>1 DEF Held
    <3> QED BY <1>1, <2>1, <3>1, <3>2, RuntimesAre
  <2>2. CASE q # r BY <1>1, <1>3, <1>4, <1>6, <1>7, <2>2 DEF RInv, RType, Ages
  <2> QED BY <2>1, <2>2
<1>9. Places'
  <2>1. \A b \in Callers : /\ (arc[b] = 0 <=> spc[b] = "idle")'
                           /\ (spc[b] = "stop" => b \in Outside)'
    BY <1>1, RuntimesAre DEF RInv, RType, Places
  <2>2. a \in Runtimes => a <= r
    BY <1>2, <1>4 DEF RInv, Places, Ages
  <2>3. ASSUME NEW q \in Runtimes
        PROVE  /\ (callback[q] => rt[q] # "none")'
               /\ (spc[q] # "idle" => callback[q] /\ q <= arc[q])'
               /\ (spc[q] = "blocked" => arc[q] # q)'
    <3>1. q \in Callers BY DEF Callers
    <3> QED BY <1>1, <1>2, <2>2, <3>1 DEF RInv, RType, Places
  <2> QED BY <2>1, <2>3 DEF Places
<1> QED BY <1>t, <1>8, <1>9 DEF RInv

(* A call goes on with the reference that it has. *)
LEMMA StepCall ==
  ASSUME RInv, NEW a \in Callers, BlockOnRuntime(a) \/ CallReturns(a) \/ DropContainer(a)
  PROVE  RInv'
<1> DEFINE Same == \A r \in Runtimes : (Held(r)' <=> Held(r)) /\ (Stopping(r) => Stopping(r)')
<1>0. ASSUME Same, RType', Places', UNCHANGED <<weak, rt>> PROVE RInv'
  <2>1. Ages' BY <1>0 DEF RInv, Ages
  <2> QED BY <1>0, <2>1 DEF RInv
<1> HIDE DEF Same
<1>1. CASE BlockOnRuntime(a)
  <2>1. /\ spc[a] = "got" /\ UNCHANGED <<weak, rt, owned, callback, arc>>
        /\ spc' = [spc EXCEPT ![a] = IF a = arc[a] THEN "drop" ELSE "blocked"]
    BY <1>1 DEF BlockOnRuntime, Goes_
  <2>2. RType' BY <2>1 DEF RInv, RType
  <2>3. Same BY <2>1 DEF Same, Held, Holders, Stopping, RInv, RType
  <2>4. Places' BY <2>1 DEF RInv, RType, Places, Callers
  <2> QED BY <1>0, <2>1, <2>2, <2>3, <2>4
<1>2. CASE CallReturns(a)
  <2>0. spc[a] = "blocked" /\ arc[a] \in Runtimes
    BY <1>2, RuntimesAre DEF CallReturns, RInv, RType, Places
  <2>1. CASE /\ owned' = [owned EXCEPT ![arc[a]] = @ + 1]
             /\ spc' = [spc EXCEPT ![a] = "idle"] /\ arc' = [arc EXCEPT ![a] = 0]
             /\ UNCHANGED <<weak, rt, callback>>
    <3>0. owned[arc[a]] \in Nat /\ owned \in [Runtimes -> Nat] BY <2>0 DEF RInv, RType
    <3>a. owned' \in [Runtimes -> Nat] BY <2>0, <2>1, <3>0
    <3>b. arc' \in [Callers -> 0..MaxRuntimes] BY <2>1, RuntimesAre DEF RInv, RType
    <3>1. RType' BY <2>1, <3>a, <3>b DEF RInv, RType
    <3>2. a \in Holders(arc[a]) BY <2>0 DEF Holders
    <3>3. Same
      <4> SUFFICES ASSUME NEW r \in Runtimes
                   PROVE  (Held(r)' <=> Held(r)) /\ (Stopping(r) => Stopping(r)')
        BY DEF Same
      <4>1. CASE r = arc[a]
        <5>1. owned'[r] # 0 BY <2>0, <2>1, <3>0, <4>1
        <5>2. Held(r) /\ Held(r)' BY <3>2, <4>1, <5>1 DEF Held
        <5>3. Stopping(r) => Stopping(r)' BY <2>0, <2>1 DEF Stopping, RInv, RType
        <5> QED BY <5>2, <5>3
      <4>2. CASE r # arc[a]
        BY <2>0, <2>1, <4>2, RuntimesAre DEF Held, Holders, Stopping, RInv, RType
      <4> QED BY <4>1, <4>2
    <3>4. Places' BY <2>0, <2>1 DEF RInv, RType, Places, Callers
    <3> QED BY <1>0, <2>1, <3>1, <3>3, <3>4
  <2>2. CASE spc' = [spc EXCEPT ![a] = "drop"] /\ UNCHANGED <<weak, rt, owned, callback, arc>>
    <3>1. RType' BY <2>2 DEF RInv, RType
    <3>2. Same BY <2>0, <2>2 DEF Same, Held, Holders, Stopping, RInv, RType
    <3>3. Places' BY <2>0, <2>2 DEF RInv, RType, Places, Callers
    <3> QED BY <1>0, <2>2, <3>1, <3>2, <3>3
  <2> QED BY <1>2, <2>1, <2>2 DEF CallReturns, Goes_, Idle
<1>3. CASE DropContainer(a)
  <2>1. PICK r \in Runtimes :
          /\ owned[r] > 0 /\ owned' = [owned EXCEPT ![r] = @ - 1]
          /\ arc' = [arc EXCEPT ![a] = r] /\ spc' = [spc EXCEPT ![a] = "drop"]
          /\ UNCHANGED <<weak, rt, callback>>
    BY <1>3 DEF DropContainer, Goes_
  <2>2. spc[a] = "idle" /\ (a \in Runtimes => callback[a]) BY <1>3 DEF DropContainer, Free
  <2>a. owned \in [Runtimes -> Nat] /\ owned[r] \in Nat BY DEF RInv, RType
  <2>b. owned' \in [Runtimes -> Nat] BY <2>1, <2>a
  <2>c. arc' \in [Callers -> 0..MaxRuntimes] BY <2>1, RuntimesAre DEF RInv, RType
  <2>3. RType' BY <2>1, <2>b, <2>c DEF RInv, RType
  <2>d. owned[r] # 0 BY <2>1, <2>a
  <2>4. Held(r) /\ r = weak BY <2>d DEF Held, RInv, Ages
  <2>5. a \in Holders(r)' BY <2>1 DEF Holders, RInv, RType
  <2>6. Same
    <3> SUFFICES ASSUME NEW q \in Runtimes
                 PROVE  (Held(q)' <=> Held(q)) /\ (Stopping(q) => Stopping(q)')
      BY DEF Same
    <3>1. Stopping(q) => Stopping(q)' BY <2>1, <2>2 DEF Stopping, RInv, RType
    <3>2. CASE q = r BY <2>4, <2>5, <3>1, <3>2 DEF Held
    <3>3. CASE q # r BY <2>1, <2>2, <3>1, <3>3 DEF Held, Holders, RInv, RType
    <3> QED BY <3>2, <3>3
  <2>7. Places'
    <3>1. a \in Runtimes => a <= r BY <2>2, <2>4 DEF RInv, Places, Ages
    <3>2. r # 0 BY RuntimesAre
    <3> QED BY <2>1, <2>2, <3>1, <3>2 DEF RInv, RType, Places, Callers
  <2> QED BY <1>0, <2>1, <2>3, <2>6, <2>7
<1> QED BY <1>1, <1>2, <1>3

(* The reference goes: with the last one the runtime stops. *)
LEMMA StepRelease ==
  ASSUME RInv, NEW a \in Callers, NEW to \in {"stop", "join stop"}, Release(a, to),
         spc[a] \in {"drop", "join drop"}, to = "stop" => a \in Outside
  PROVE  RInv'
<1>0. PICK r \in Runtimes : r = arc[a] BY RuntimesAre DEF RInv, RType, Places
<1>1. a \in Holders(r) BY <1>0 DEF Holders
<1>2. rt[r] = "up" /\ r = weak
  <2>1. Held(r) BY <1>1 DEF Held
  <2> QED BY <1>0, <2>1 DEF RInv, Ages
<1>3. UNCHANGED <<weak, owned, callback>> BY DEF Release
<1>4. CASE Strong(r) = 1
  <2>1. /\ spc' = [spc EXCEPT ![a] = to] /\ rt' = [rt EXCEPT ![r] = "stopping"] /\ arc' = arc
    BY <1>0, <1>4 DEF Release, Goes_
  <2>2. owned[r] = 0 /\ Holders(r) = {a} BY <1>0, <1>1, <1>4, StrongCount DEF RInv
  <2>3. RType' BY <2>1, <1>3 DEF RInv, RType
  <2>4. ~Held(r)'
    <3>1. ASSUME NEW b \in Holders(r)' PROVE FALSE
      <4>1. b \in Callers /\ arc[b] = r /\ spc'[b] \in {"got", "blocked", "drop", "join drop"}
        BY <2>1 DEF Holders
      <4>2. b # a BY <4>1, <2>1 DEF RInv, RType
      <4>3. b \in Holders(r) BY <4>1, <4>2, <2>1 DEF Holders, RInv, RType
      <4> QED BY <4>2, <4>3, <2>2
    <3>2. owned'[r] = 0 BY <1>3, <2>2
    <3> QED BY <3>1, <3>2 DEF Held
  <2>5. \A q \in Runtimes \ {r} : Held(q)' <=> Held(q)
    BY <1>0, <1>3, <2>1 DEF Held, Holders, RInv, RType
  <2>6. \A q \in Runtimes : Stopping(q) => Stopping(q)' BY <2>1 DEF Stopping, RInv, RType
  <2>7. Stopping(r)' BY <1>0, <2>1 DEF Stopping, RInv, RType
  <2>8. Ages' BY <1>0, <1>2, <1>3, <2>1, <2>4, <2>5, <2>6, <2>7 DEF RInv, RType, Ages
  <2>9. Places' BY <1>3, <2>1 DEF RInv, RType, Places, Callers
  <2> QED BY <2>3, <2>8, <2>9 DEF RInv
<1>5. CASE Strong(r) # 1
  <2>1. /\ spc' = [spc EXCEPT ![a] = "idle"] /\ rt' = rt /\ arc' = [arc EXCEPT ![a] = 0]
    BY <1>0, <1>5 DEF Release, Idle, Goes_
  <2>2. owned[r] # 0 \/ Holders(r) # {a} BY <1>0, <1>1, <1>5, StrongCount DEF RInv
  <2>3. RType' BY <2>1, <1>3, RuntimesAre DEF RInv, RType
  <2>4. Held(r)'
    <3>1. CASE owned[r] # 0
      <4>1. owned'[r] # 0 BY <1>3, <3>1
      <4> QED BY <4>1 DEF Held
    <3>2. CASE Holders(r) # {a}
      <4>1. PICK b \in Holders(r) : b # a BY <1>1, <3>2
      <4>2. b \in Holders(r)' BY <2>1, <4>1 DEF Holders, RInv, RType
      <4> QED BY <4>2 DEF Held
    <3> QED BY <2>2, <3>1, <3>2
  <2>5. \A q \in Runtimes \ {r} : Held(q)' <=> Held(q)
    BY <1>0, <1>3, <2>1, RuntimesAre DEF Held, Holders, RInv, RType
  <2>6. \A q \in Runtimes : Stopping(q) => Stopping(q)' BY <2>1 DEF Stopping, RInv, RType
  <2>7. Ages'
    BY <1>0, <1>2, <1>3, <2>1, <2>4, <2>5, <2>6 DEF RInv, RType, Ages
  <2>8. Places' BY <1>3, <2>1 DEF RInv, RType, Places, Callers
  <2> QED BY <2>3, <2>7, <2>8 DEF RInv
<1> QED BY <1>4, <1>5

LEMMA StepDrop ==
  ASSUME RInv, NEW a \in Callers, DropSharedRuntime(a) \/ HelperDrops(a) \/ RuntimeStopped(a)
  PROVE  RInv'
<1>1. CASE HelperDrops(a) BY <1>1, StepRelease DEF HelperDrops
<1>2. CASE DropSharedRuntime(a) /\ a \in Outside BY <1>2, StepRelease DEF DropSharedRuntime
<1>3. CASE DropSharedRuntime(a) /\ a \notin Outside
  <2>1. /\ spc[a] = "drop" /\ spc' = [spc EXCEPT ![a] = "join drop"]
        /\ UNCHANGED <<weak, rt, owned, callback, arc>>
    BY <1>3 DEF DropSharedRuntime, Goes_
  <2>2. RType' BY <2>1 DEF RInv, RType
  <2>3. \A q \in Runtimes : (Held(q)' <=> Held(q)) /\ (Stopping(q) => Stopping(q)')
    BY <2>1 DEF Held, Holders, Stopping, RInv, RType
  <2>4. Ages' BY <2>1, <2>3 DEF RInv, Ages
  <2>5. Places' BY <2>1 DEF RInv, RType, Places, Callers
  <2> QED BY <2>2, <2>4, <2>5 DEF RInv
<1>4. CASE RuntimeStopped(a)
  <2>1. /\ spc[a] \in {"stop", "join stop"} /\ rt[arc[a]] = "gone"
        /\ spc' = [spc EXCEPT ![a] = "idle"] /\ arc' = [arc EXCEPT ![a] = 0]
        /\ UNCHANGED <<weak, rt, owned, callback>>
    BY <1>4 DEF RuntimeStopped, Idle, Goes_
  <2>2. RType' BY <2>1, RuntimesAre DEF RInv, RType
  <2>3. \A q \in Runtimes : Held(q)' <=> Held(q)
    BY <2>1, RuntimesAre DEF Held, Holders, RInv, RType
  <2>4. \A q \in Runtimes : q # arc[a] /\ Stopping(q) => Stopping(q)'
    BY <2>1 DEF Stopping, RInv, RType
  <2>5. Ages' BY <2>1, <2>3, <2>4 DEF RInv, Ages
  <2>6. Places' BY <2>1 DEF RInv, RType, Places, Callers
  <2> QED BY <2>2, <2>5, <2>6 DEF RInv
<1> QED BY <1>1, <1>2, <1>3, <1>4

LEMMA StepWorker ==
  ASSUME RInv, NEW r \in Runtimes, WorkerStops(r) \/ Callback(r)
  PROVE  RInv'
<1>1. CASE WorkerStops(r)
  <2>1. /\ rt[r] = "stopping" /\ rt' = [rt EXCEPT ![r] = "gone"]
        /\ UNCHANGED <<weak, owned, callback, spc, arc>>
    BY <1>1 DEF WorkerStops
  <2>2. RType' BY <2>1 DEF RInv, RType
  <2>3. \A q \in Runtimes : (Held(q)' <=> Held(q)) /\ (Stopping(q) => Stopping(q)')
    BY <2>1 DEF Held, Holders, Stopping
  <2>4. Ages' BY <2>1, <2>3 DEF RInv, RType, Ages
  <2>5. Places' BY <2>1 DEF RInv, RType, Places
  <2> QED BY <2>2, <2>4, <2>5 DEF RInv
<1>2. CASE Callback(r)
  <2>1. /\ callback' = [callback EXCEPT ![r] = ~@]
        /\ (~callback[r] /\ rt[r] = "up") \/ (callback[r] /\ spc[r] = "idle")
        /\ UNCHANGED <<weak, rt, owned, spc, arc>>
    BY <1>2 DEF Callback
  <2>2. RType' BY <2>1 DEF RInv, RType
  <2>3. \A q \in Runtimes : (Held(q)' <=> Held(q)) /\ (Stopping(q) => Stopping(q)')
    BY <2>1 DEF Held, Holders, Stopping
  <2>4. Ages' BY <2>1, <2>3 DEF RInv, Ages
  <2>5. ASSUME NEW q \in Runtimes
        PROVE  (callback'[q] => rt[q] # "none") /\ (spc[q] # "idle" => callback'[q])
    <3>1. CASE q = r
      <4>1. callback'[q] <=> ~callback[q] BY <2>1, <3>1 DEF RInv, RType
      <4> QED BY <2>1, <3>1, <4>1 DEF RInv, Places
    <3>2. CASE q # r
      <4>1. callback'[q] <=> callback[q] BY <2>1, <3>2 DEF RInv, RType
      <4> QED BY <4>1 DEF RInv, Places
    <3> QED BY <3>1, <3>2
  <2>6. Places' BY <2>1, <2>5 DEF RInv, Places
  <2> QED BY <2>2, <2>4, <2>6 DEF RInv
<1> QED BY <1>1, <1>2

LEMMA StepRInv == RInv /\ [RuntimeNext]_runtimeVars => RInv'
<1> SUFFICES ASSUME RInv, [RuntimeNext]_runtimeVars PROVE RInv'
  OBVIOUS
<1>1. CASE UNCHANGED runtimeVars
  <2>1. \A q \in Runtimes : (Held(q)' <=> Held(q)) /\ (Stopping(q) => Stopping(q)')
    BY <1>1 DEF runtimeVars, Held, Holders, Stopping
  <2>2. Ages' BY <1>1, <2>1 DEF runtimeVars, RInv, Ages
  <2>3. RType' /\ Places' BY <1>1 DEF runtimeVars, RInv, RType, Places
  <2> QED BY <2>2, <2>3 DEF RInv
<1> QED BY <1>1, StepGet, StepCall, StepDrop, StepWorker DEF RuntimeNext

(* shared_runtime, block_on_runtime, drop_shared_runtime: for any number of *)
(* threads, Containers and runtimes, a runtime is up as long as it is       *)
(* referred to, is dropped outside of every runtime, and the only wait that *)
(* closes a cycle is that of a worker for its own runtime.                  *)
THEOREM DropIsOrderly == RuntimeSpec => []RuntimeDrop
<1>1. RInv => RuntimeDrop
  <2> SUFFICES ASSUME RInv PROVE RuntimeDrop
    OBVIOUS
  <2>1. \A r \in Runtimes : Strong(r) > 0 => rt[r] = "up"
    BY StrongCount DEF RInv, Ages
  <2>2. Cardinality({r \in Runtimes : rt[r] = "up"}) <= 1
    <3>1. {r \in Runtimes : rt[r] = "up"} \in SUBSET {weak} BY DEF RInv, Ages
    <3>2. IsFiniteSet({weak}) /\ Cardinality({weak}) = 1 BY FS_Singleton
    <3> QED BY <3>1, <3>2, FS_Subset
  <2>3. \A a \in Callers : spc[a] = "stop" => a \in Outside BY DEF RInv, Places
  <2>4. \A r \in Runtimes : rt[r] = "stopping" => Stopping(r) BY DEF RInv, Ages
  <2>5. \A r \in Runtimes : spc[r] = "blocked" => arc[r] # r BY DEF RInv, Places
  <2>6. \A r, q \in Runtimes : WaitsFor(r, q) => r <= q BY DEF RInv, Places, WaitsFor
  <2> QED BY <2>1, <2>2, <2>3, <2>4, <2>5, <2>6 DEF RuntimeDrop, Stopping
<1> QED BY InitRInv, StepRInv, <1>1, PTL DEF RuntimeSpec
==============================================================================
