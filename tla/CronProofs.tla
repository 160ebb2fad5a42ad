----------------------------- MODULE CronProofs -----------------------------
(***************************************************************************)
(* Proofs about Cron, for any items, queues, runs and faults.              *)
(***************************************************************************)
EXTENDS Cron, TLAPS, WellFoundedInduction

\* A run past acquire() has the lock, as long as no run has outlived it.
AtWorkHasLock ==
  ~overrun => \A p \in Requests :
    pc[p] \notin {"off", "acquire"} => lock = p /\ ~lockOver

\* The item a run is at work on has been handed to a worker, and a run that is
\* about to delete an item has seen its worker return.
AtWorkExecuted == \A p \in Requests : pc[p] \in Holding => item[p] \in executed
DeletesDone == \A p \in Requests : pc[p] = "delete" => item[p] \in done

\* The lease of a run that is at work lasts unless it is among the lost ones:
\* nobody can claim the item, and of two runs at work on it one has lost it.
LeasesHeld ==
  /\ \A p \in Requests : pc[p] \in Holding /\ p \notin lost =>
       row[item[p]] \notin {"ready", "lapsed"}
  /\ \A p, r \in Requests :
       pc[p] \in Holding /\ pc[r] \in Holding /\ item[p] = item[r] /\ p # r =>
         p \in lost \/ r \in lost

IInv == TypeOK /\ AtWorkHasLock /\ AtWorkExecuted /\ DeletesDone /\ AtLeastOnce /\ LeasesHeld

-----------------------------------------------------------------------------
(* Types.                                                                  *)

\* The SELECT of claimItem() finds an item of its queue, if there is one ready.
LEMMA FirstIsReady ==
  ASSUME NEW q \in 1..Queues, Ready(q) # {}
  PROVE  FirstReady(q) \in Ready(q)
<1> DEFINE Less == OpToRel(<, Nat)
<1>1. IsWellFoundedOn(Less, Nat)
  BY NatLessThanWellFounded
<1>2. \A i, j \in Nat : <<j, i>> \in Less <=> j < i
  BY Zenon DEF OpToRel
<1>3. Ready(q) \subseteq Nat
  BY ItemsAssumption DEF Ready
<1> HIDE DEF Less
<1>4. PICK i \in Ready(q) : \A j \in Ready(q) : ~(<<j, i>> \in Less)
  BY <1>1, <1>3, WFMin, Zenon
<1>5. \A j \in Ready(q) : i <= j
  <2>1. TAKE j \in Ready(q)
  <2>2. ~(j < i)
    BY <1>2, <1>3, <1>4, Zenon
  <2>3. i \in Nat /\ j \in Nat
    BY <1>3, Zenon
  <2>4. QED  BY <2>2, <2>3, SMT
<1>6. QED  BY <1>4, <1>5 DEF FirstReady

-----------------------------------------------------------------------------
(* Every action keeps the invariant.                                       *)

\* A request that begins only learns which leases have passed.
LEMMA StartKeeps ==
  ASSUME NEW p \in Requests, IInv, Start(p)
  PROVE  IInv'
<1>1. TypeOK'
  BY DEF IInv, Start, TypeOK, QueueTypeOK, Holding, Labels, BeginRequest,
         queueVars, Local, Goto
<1>2. AtWorkHasLock' /\ AtWorkExecuted' /\ DeletesDone' /\ AtLeastOnce'
  BY DEF IInv, Start, TypeOK, QueueTypeOK, AtWorkHasLock, AtWorkExecuted,
         DeletesDone, AtLeastOnce, Holding, Labels, BeginRequest, queueVars,
         Local, Goto
<1>3. LeasesHeld'
  BY DEF IInv, Start, TypeOK, QueueTypeOK, Holding, Labels, BeginRequest,
         queueVars, Local, Goto, LeasesHeld
<1>4. QED  BY <1>1, <1>2, <1>3 DEF IInv

\* The lock is granted only while no run is at work, or a run has overrun.
LEMMA AcquireLockKeeps ==
  ASSUME NEW p \in Requests, IInv, AcquireLock(p)
  PROVE  IInv'
<1>1. lock' \in Requests \cup {None, Dead} /\ lockOver' \in BOOLEAN
  BY DEF IInv, TypeOK, AcquireLock
<1>2. pc' \in [Requests -> Labels]
  BY DEF IInv, TypeOK, AcquireLock, Goto, Labels
<1>3. \A r \in Requests : pc'[r] \in Holding \cup {"update"} => pc[r] = pc'[r]
  BY DEF IInv, TypeOK, AcquireLock, Goto, Holding
<1>4. lost' \subseteq {r \in Requests : pc'[r] \in Holding}
  BY DEF IInv, TypeOK, AcquireLock, Goto, Holding
<1>5. TypeOK'
  BY <1>1, <1>2, <1>3, <1>4 DEF IInv, AcquireLock, TypeOK, QueueTypeOK, queueVars
<1>6. AtWorkHasLock' /\ AtWorkExecuted' /\ DeletesDone' /\ AtLeastOnce'
  BY OwnersAssumption DEF IInv, AcquireLock, TypeOK, QueueTypeOK,
         AtWorkHasLock, AtWorkExecuted, DeletesDone, AtLeastOnce, Holding,
         Labels, queueVars, Goto
<1>7. LeasesHeld'
  BY OwnersAssumption DEF IInv, AcquireLock, TypeOK, QueueTypeOK, Holding,
         Labels, queueVars, Goto, LeasesHeld
<1>8. QED  BY <1>5, <1>6, <1>7 DEF IInv

\* Garbage collection turns rows that have lapsed into ready ones only.
LEMMA InvokeHandlersKeeps ==
  ASSUME NEW p \in Requests, IInv, InvokeHandlers(p)
  PROVE  IInv'
<1>1. TypeOK'
  BY DEF IInv, InvokeHandlers, TypeOK, QueueTypeOK, Holding, Labels,
         GarbageCollection, Local, Goto
<1>2. AtWorkHasLock' /\ AtWorkExecuted' /\ DeletesDone' /\ AtLeastOnce'
  BY DEF IInv, InvokeHandlers, TypeOK, QueueTypeOK, AtWorkHasLock,
         AtWorkExecuted, DeletesDone, AtLeastOnce, Holding, Labels,
         GarbageCollection, Local, Goto
<1>3. LeasesHeld'
  BY DEF IInv, InvokeHandlers, TypeOK, QueueTypeOK, Holding, Labels,
         GarbageCollection, Local, Goto, LeasesHeld
<1>4. QED  BY <1>1, <1>2, <1>3 DEF IInv

\* Storing the time of the run changes no item.
LEMMA SetCronLastTimeKeeps ==
  ASSUME NEW p \in Requests, IInv, SetCronLastTime(p)
  PROVE  IInv'
<1>1. TypeOK'
  BY DEF IInv, SetCronLastTime, TypeOK, QueueTypeOK, Holding, Labels,
         queueVars, Local, Goto
<1>2. AtWorkHasLock' /\ AtWorkExecuted' /\ DeletesDone' /\ AtLeastOnce'
  BY DEF IInv, SetCronLastTime, TypeOK, QueueTypeOK, AtWorkHasLock,
         AtWorkExecuted, DeletesDone, AtLeastOnce, Holding, Labels, queueVars,
         Local, Goto
<1>3. LeasesHeld'
  BY DEF IInv, SetCronLastTime, TypeOK, QueueTypeOK, Holding, Labels,
         queueVars, Local, Goto, LeasesHeld
<1>4. QED  BY <1>1, <1>2, <1>3 DEF IInv

\* A run that releases the lock is at work no longer.
LEMMA ReleaseLockKeeps ==
  ASSUME NEW p \in Requests, IInv, ReleaseLock(p)
  PROVE  IInv'
<1>1. TypeOK'
  BY QueuesAssumption, OwnersAssumption DEF IInv, ReleaseLock, TypeOK,
         QueueTypeOK, Holding, Labels, queueVars, Goto, Forget, Leave
<1>2. AtWorkHasLock' /\ AtWorkExecuted' /\ DeletesDone' /\ AtLeastOnce'
  BY QueuesAssumption, OwnersAssumption DEF IInv, ReleaseLock, TypeOK,
         QueueTypeOK, AtWorkHasLock, AtWorkExecuted, DeletesDone, AtLeastOnce,
         Holding, Labels, queueVars, Goto, Forget, Leave
<1>3. LeasesHeld'
  BY QueuesAssumption, OwnersAssumption DEF IInv, ReleaseLock, TypeOK,
         QueueTypeOK, Holding, Labels, queueVars, Goto, Forget, LeasesHeld,
         Leave
<1>4. QED  BY <1>1, <1>2, <1>3 DEF IInv

\* Going to the next queue lets go of the item.
LEMMA TimeUpKeeps ==
  ASSUME NEW p \in Requests, IInv, TimeUp(p)
  PROVE  IInv'
<1>1. TypeOK'
  BY QueuesAssumption DEF IInv, TimeUp, TypeOK, QueueTypeOK, Holding, Labels,
         queueVars, NextQueue, Goto
<1>2. AtWorkHasLock' /\ AtWorkExecuted' /\ DeletesDone' /\ AtLeastOnce'
  BY QueuesAssumption DEF IInv, TimeUp, TypeOK, QueueTypeOK, AtWorkHasLock,
         AtWorkExecuted, DeletesDone, AtLeastOnce, Holding, Labels, queueVars,
         NextQueue, Goto
<1>3. LeasesHeld'
  BY QueuesAssumption DEF IInv, TimeUp, TypeOK, QueueTypeOK, Holding,
         Labels, queueVars, NextQueue, Goto, LeasesHeld
<1>4. QED  BY <1>1, <1>2, <1>3 DEF IInv

\* An empty queue is left like one whose time is up.
LEMMA SelectNoneKeeps ==
  ASSUME NEW p \in Requests, IInv, SelectNone(p)
  PROVE  IInv'
<1>1. TypeOK'
  BY QueuesAssumption DEF IInv, SelectNone, TypeOK, QueueTypeOK, Holding,
         Labels, queueVars, NextQueue, Goto
<1>2. AtWorkHasLock' /\ AtWorkExecuted' /\ DeletesDone' /\ AtLeastOnce'
  BY QueuesAssumption DEF IInv, SelectNone, TypeOK, QueueTypeOK,
         AtWorkHasLock, AtWorkExecuted, DeletesDone, AtLeastOnce, Holding,
         Labels, queueVars, NextQueue, Goto
<1>3. LeasesHeld'
  BY QueuesAssumption DEF IInv, SelectNone, TypeOK, QueueTypeOK, Holding,
         Labels, queueVars, NextQueue, Goto, LeasesHeld
<1>4. QED  BY <1>1, <1>2, <1>3 DEF IInv

\* The item selected belongs to the queue the run is at.
LEMMA SelectItemKeeps ==
  ASSUME NEW p \in Requests, IInv, SelectItem(p)
  PROVE  IInv'
<1> at[p] \in 1..Queues
  BY DEF IInv, TypeOK
<1> FirstReady(at[p]) \in Ready(at[p])
  BY FirstIsReady DEF SelectItem
<1>1. TypeOK'
  BY DEF IInv, SelectItem, TypeOK, QueueTypeOK, Holding, Labels, queueVars,
         Goto, Ready
<1>2. AtWorkHasLock' /\ AtWorkExecuted' /\ DeletesDone' /\ AtLeastOnce'
  BY DEF IInv, SelectItem, TypeOK, QueueTypeOK, AtWorkHasLock, AtWorkExecuted,
         DeletesDone, AtLeastOnce, Holding, Labels, queueVars, Goto, Ready
<1>3. LeasesHeld'
  BY DEF IInv, SelectItem, TypeOK, QueueTypeOK, Holding, Labels, queueVars,
         Goto, Ready, LeasesHeld
<1>4. QED  BY <1>1, <1>2, <1>3 DEF IInv

\* A claimed item is handed to its worker.
LEMMA UpdateItemKeeps ==
  ASSUME NEW p \in Requests, IInv, UpdateItem(p)
  PROVE  IInv'
<1>1. TypeOK'
  BY DEF IInv, UpdateItem, TypeOK, QueueTypeOK, Holding, Labels, queueVars,
         Goto, Claim, CannotClaim, SetExpire
<1>2. AtWorkHasLock' /\ AtWorkExecuted' /\ DeletesDone' /\ AtLeastOnce'
  BY DEF IInv, UpdateItem, TypeOK, QueueTypeOK, AtWorkHasLock, AtWorkExecuted,
         DeletesDone, AtLeastOnce, Holding, Labels, queueVars, Goto, Claim,
         CannotClaim, SetExpire
<1>3. LeasesHeld'
  BY DEF IInv, UpdateItem, TypeOK, QueueTypeOK, Holding, Labels, queueVars,
         Goto, Claim, CannotClaim, SetExpire, LeasesHeld
<1>4. QED  BY <1>1, <1>2, <1>3 DEF IInv

\* A worker that returns is recorded before its item is deleted.
LEMMA ProcessKeeps ==
  ASSUME NEW p \in Requests, IInv, Process(p)
  PROVE  IInv'
<1>1. TypeOK'
  BY DEF IInv, Process, TypeOK, QueueTypeOK, Holding, Labels, AtWorkExecuted,
         queueVars, Goto
<1>2. AtWorkHasLock' /\ AtWorkExecuted' /\ DeletesDone' /\ AtLeastOnce'
  BY DEF IInv, Process, TypeOK, QueueTypeOK, AtWorkHasLock, AtWorkExecuted,
         DeletesDone, AtLeastOnce, Holding, Labels, queueVars, Goto
<1>3. LeasesHeld'
  BY DEF IInv, Process, TypeOK, QueueTypeOK, Holding, Labels, queueVars,
         Goto, LeasesHeld
<1>4. QED  BY <1>1, <1>2, <1>3 DEF IInv

\* A worker that throws leaves the item where it is.
LEMMA ProcessFailsKeeps ==
  ASSUME NEW p \in Requests, IInv, ProcessFails(p)
  PROVE  IInv'
<1>1. TypeOK'
  BY DEF IInv, ProcessFails, TypeOK, QueueTypeOK, Holding, Labels, queueVars,
         Goto, Local, Leave
<1>2. AtWorkHasLock' /\ AtWorkExecuted' /\ DeletesDone' /\ AtLeastOnce'
  BY DEF IInv, ProcessFails, TypeOK, QueueTypeOK, AtWorkHasLock,
         AtWorkExecuted, DeletesDone, AtLeastOnce, Holding, Labels, queueVars,
         Goto, Local, Leave
<1>3. LeasesHeld'
  BY DEF IInv, ProcessFails, TypeOK, QueueTypeOK, Holding, Labels,
         queueVars, Goto, Local, LeasesHeld, Leave
<1>4. QED  BY <1>1, <1>2, <1>3 DEF IInv

\* The one row that goes is that of an item whose worker has returned.
LEMMA DeleteKeeps ==
  ASSUME NEW p \in Requests, IInv, Delete(p)
  PROVE  IInv'
<1>1. TypeOK'
  BY DEF IInv, Delete, TypeOK, QueueTypeOK, Holding, Labels, DeleteItem, Goto,
         Local, Leave
<1>2. AtWorkHasLock' /\ AtWorkExecuted' /\ DeletesDone' /\ AtLeastOnce'
  BY DEF IInv, Delete, TypeOK, QueueTypeOK, AtWorkHasLock, AtWorkExecuted,
         DeletesDone, AtLeastOnce, Holding, Labels, DeleteItem, Goto, Local, Leave
<1>3. LeasesHeld'
  BY DEF IInv, Delete, TypeOK, QueueTypeOK, Holding, Labels, DeleteItem,
         Goto, Local, LeasesHeld, Leave
<1>4. QED  BY <1>1, <1>2, <1>3 DEF IInv

\* A row that another run has deleted is not brought back by a delay.
LEMMA DelayKeeps ==
  ASSUME NEW p \in Requests, IInv, Delay(p)
  PROVE  IInv'
<1>1. TypeOK'
  BY DEF IInv, Delay, TypeOK, QueueTypeOK, Holding, Labels, DelayItem,
         SetExpire, Goto, Local, Leave
<1>2. AtWorkHasLock' /\ AtWorkExecuted' /\ DeletesDone' /\ AtLeastOnce'
  BY DEF IInv, Delay, TypeOK, QueueTypeOK, AtWorkHasLock, AtWorkExecuted,
         DeletesDone, AtLeastOnce, Holding, Labels, DelayItem, SetExpire,
         Goto, Local, Leave
<1>3. LeasesHeld'
  BY DEF IInv, Delay, TypeOK, QueueTypeOK, Holding, Labels, DelayItem,
         SetExpire, Goto, Local, LeasesHeld, Leave
<1>4. QED  BY <1>1, <1>2, <1>3 DEF IInv

\* Nor is it by a release.
LEMMA RequeueKeeps ==
  ASSUME NEW p \in Requests, IInv, Requeue(p)
  PROVE  IInv'
<1>1. TypeOK'
  BY DEF IInv, Requeue, TypeOK, QueueTypeOK, Holding, Labels, ReleaseItem,
         Goto, Local, GiveBack, Workers
<1>2. AtWorkHasLock' /\ AtWorkExecuted' /\ DeletesDone' /\ AtLeastOnce'
  BY DEF IInv, Requeue, TypeOK, QueueTypeOK, AtWorkHasLock, AtWorkExecuted,
         DeletesDone, AtLeastOnce, Holding, Labels, ReleaseItem, Goto, Local, GiveBack
<1>3. LeasesHeld'
  BY DEF IInv, Requeue, TypeOK, QueueTypeOK, Holding, Labels, ReleaseItem,
         Goto, Local, LeasesHeld, GiveBack, Workers
<1>4. QED  BY <1>1, <1>2, <1>3 DEF IInv

\* A run that suspends a queue releases the item and goes on.
LEMMA SuspendKeeps ==
  ASSUME NEW p \in Requests, IInv, Suspend(p)
  PROVE  IInv'
<1>1. TypeOK'
  BY QueuesAssumption DEF IInv, Suspend, TypeOK, QueueTypeOK, Holding, Labels,
         ReleaseItem, NextQueue, Goto, GiveBack, Workers
<1>2. AtWorkHasLock' /\ AtWorkExecuted' /\ DeletesDone' /\ AtLeastOnce'
  BY QueuesAssumption DEF IInv, Suspend, TypeOK, QueueTypeOK, AtWorkHasLock,
         AtWorkExecuted, DeletesDone, AtLeastOnce, Holding, Labels,
         ReleaseItem, NextQueue, Goto, GiveBack
<1>3. LeasesHeld'
  BY QueuesAssumption DEF IInv, Suspend, TypeOK, QueueTypeOK, Holding,
         Labels, ReleaseItem, NextQueue, Goto, LeasesHeld, GiveBack, Workers
<1>4. QED  BY <1>1, <1>2, <1>3 DEF IInv

\* A fatal error releases the lock and ends the run.
LEMMA DieKeeps ==
  ASSUME NEW p \in Requests, IInv, Die(p)
  PROVE  IInv'
<1>1. TypeOK'
  BY FaultsAssumption, QueuesAssumption, OwnersAssumption DEF IInv, Die,
         TypeOK, QueueTypeOK, Holding, Labels, queueVars, Goto, Forget, Leave
<1>2. AtWorkHasLock' /\ AtWorkExecuted' /\ DeletesDone' /\ AtLeastOnce'
  BY FaultsAssumption, QueuesAssumption, OwnersAssumption DEF IInv, Die,
         TypeOK, QueueTypeOK, AtWorkHasLock, AtWorkExecuted, DeletesDone,
         AtLeastOnce, Holding, Labels, queueVars, Goto, Forget, Leave
<1>3. LeasesHeld'
  BY FaultsAssumption, QueuesAssumption, OwnersAssumption DEF IInv, Die,
         TypeOK, QueueTypeOK, Holding, Labels, queueVars, Goto, Forget,
         LeasesHeld, Leave
<1>4. QED  BY <1>1, <1>2, <1>3 DEF IInv

\* The lock of a killed run is nobody's who is at work.
LEMMA CrashKeeps ==
  ASSUME NEW p \in Requests, IInv, Crash(p)
  PROVE  IInv'
<1>1. TypeOK'
  BY FaultsAssumption, QueuesAssumption, OwnersAssumption DEF IInv, Crash,
         TypeOK, QueueTypeOK, Holding, Labels, queueVars, Goto, Forget, Leave
<1>2. AtWorkHasLock' /\ AtWorkExecuted' /\ DeletesDone' /\ AtLeastOnce'
  BY FaultsAssumption, QueuesAssumption, OwnersAssumption DEF IInv, Crash,
         TypeOK, QueueTypeOK, AtWorkHasLock, AtWorkExecuted, DeletesDone,
         AtLeastOnce, Holding, Labels, queueVars, Goto, Forget, Leave
<1>3. LeasesHeld'
  BY FaultsAssumption, QueuesAssumption, OwnersAssumption DEF IInv, Crash,
         TypeOK, QueueTypeOK, Holding, Labels, queueVars, Goto, Forget,
         LeasesHeld, Leave
<1>4. QED  BY <1>1, <1>2, <1>3 DEF IInv

\* A new item has a row.
LEMMA CreateKeeps ==
  ASSUME NEW i \in Items, IInv, Create(i)
  PROVE  IInv'
<1>1. TypeOK'
  BY DEF IInv, Create, CreateItem, cronVars, TypeOK, QueueTypeOK
<1>2. AtWorkHasLock' /\ AtWorkExecuted' /\ DeletesDone' /\ AtLeastOnce'
  BY DEF IInv, Create, CreateItem, cronVars, TypeOK, QueueTypeOK,
         AtWorkHasLock, AtWorkExecuted, DeletesDone, AtLeastOnce
<1>3. LeasesHeld'
  BY DEF IInv, Create, CreateItem, cronVars, TypeOK, QueueTypeOK, LeasesHeld
<1>4. QED  BY <1>1, <1>2, <1>3 DEF IInv

\* A lease that passes changes the row's state only.
LEMMA ItemLapsesKeeps ==
  ASSUME NEW i \in Items, IInv, ItemLapses(i)
  PROVE  IInv'
<1>1. TypeOK'
  BY DEF IInv, ItemLapses, Lapse, Local, Workers, Holding, TypeOK, QueueTypeOK
<1>2. AtWorkHasLock' /\ AtWorkExecuted' /\ DeletesDone' /\ AtLeastOnce'
  BY DEF IInv, ItemLapses, Lapse, Local, Workers, Holding, TypeOK, QueueTypeOK,
         AtWorkHasLock, AtWorkExecuted, DeletesDone, AtLeastOnce
<1>3. LeasesHeld'
  BY DEF IInv, ItemLapses, Lapse, Local, Workers, Holding, TypeOK, QueueTypeOK, LeasesHeld,
         Workers, Local, Holding
<1>4. QED  BY <1>1, <1>2, <1>3 DEF IInv

\* A lock that lapses belongs to a run, which is overrun from then on, or to a
\* dead one, and then no run is at work.
LEMMA LockLapsesKeeps ==
  ASSUME IInv, LockLapses
  PROVE  IInv'
<1>1. overrun' \in BOOLEAN
  BY DEF IInv, LockLapses, TypeOK
<1>2. TypeOK'
  BY <1>1 DEF IInv, LockLapses, queueVars, TypeOK, QueueTypeOK
<1>3. AtWorkHasLock'
  <2>1. CASE lock \in Requests
    <3>1. overrun'
      BY <2>1, Zenon DEF LockLapses
    <3>2. QED  BY <3>1, Zenon DEF AtWorkHasLock
  <2>2. CASE lock \notin Requests
    <3>1. overrun' <=> overrun
      BY <2>2, Zenon DEF LockLapses
    <3>2. QED  BY <2>2, <3>1, Zenon DEF IInv, LockLapses, AtWorkHasLock
  <2>3. QED  BY <2>1, <2>2
<1>4. AtWorkExecuted' /\ DeletesDone' /\ AtLeastOnce'
  BY DEF IInv, LockLapses, queueVars, AtWorkExecuted, DeletesDone, AtLeastOnce
<1>5. LeasesHeld'
  BY DEF IInv, LockLapses, queueVars, LeasesHeld
<1>6. QED  BY <1>2, <1>3, <1>4, <1>5 DEF IInv

\* Every step of a run keeps the invariant.
LEMMA StepKeeps ==
  ASSUME NEW p \in Requests, IInv, Step(p)
  PROVE  IInv'
  BY AcquireLockKeeps, InvokeHandlersKeeps, SetCronLastTimeKeeps,
     ReleaseLockKeeps, TimeUpKeeps, SelectNoneKeeps, SelectItemKeeps,
     UpdateItemKeeps, ProcessKeeps, ProcessFailsKeeps, DeleteKeeps, DelayKeeps,
     RequeueKeeps, SuspendKeeps, Zenon DEF Step

-----------------------------------------------------------------------------
(* The invariant.                                                          *)

\* The invariant holds of empty queues.
LEMMA Initially ==
  ASSUME Init
  PROVE  IInv
<1>1. TypeOK
  <2>1. QueueTypeOK
    BY DEF Init, QueueInit, QueueTypeOK
  <2>2. at \in [Requests -> 1..Queues] /\ faults \in 0..MaxFaults
    BY QueuesAssumption, FaultsAssumption DEF Init
  <2>3. lockOver \in BOOLEAN /\ overrun \in BOOLEAN
    BY Zenon DEF Init
  <2>4. tried \in [Requests -> BOOLEAN]
    BY Zenon DEF Init
  <2>5. lock \in Requests \cup {None, Dead} /\ executed \subseteq made
        /\ done \subseteq executed /\ item \in [Requests -> Items \cup {0}]
    BY DEF Init
  <2>6. pc \in [Requests -> Labels]
    BY DEF Init, Labels
  <2>7. \A p \in Requests : pc[p] \notin Holding \cup {"update"}
    BY DEF Init, Holding
  <2>8. lost \subseteq {p \in Requests : pc[p] \in Holding}
    BY DEF Init
  <2>9. QED  BY <2>1, <2>2, <2>3, <2>4, <2>5, <2>6, <2>7, <2>8 DEF TypeOK
<1>2. AtWorkHasLock /\ AtWorkExecuted /\ DeletesDone /\ AtLeastOnce /\ LeasesHeld
  BY DEF Init, QueueInit, AtWorkHasLock, AtWorkExecuted, DeletesDone,
         AtLeastOnce, LeasesHeld, Holding
<1>3. QED  BY <1>1, <1>2 DEF IInv

\* Every step keeps the invariant.
LEMMA Inductive ==
  ASSUME IInv, [Next]_vars
  PROVE  IInv'
<1>1. ASSUME NEW i \in Items, Create(i) \/ ItemLapses(i)
      PROVE  IInv'
  BY <1>1, CreateKeeps, ItemLapsesKeeps, Zenon
<1>2. CASE LockLapses
  BY <1>2, LockLapsesKeeps
<1>3. ASSUME NEW p \in Requests, Start(p) \/ Step(p) \/ Die(p) \/ Crash(p)
      PROVE  IInv'
  BY <1>3, StartKeeps, StepKeeps, DieKeeps, CrashKeeps, Zenon
<1>4. CASE UNCHANGED vars
  <2>1. TypeOK'
    BY <1>4 DEF IInv, vars, queueVars, cronVars, TypeOK, QueueTypeOK
  <2>2. AtWorkHasLock' /\ AtWorkExecuted' /\ DeletesDone' /\ AtLeastOnce'
    BY <1>4 DEF IInv, vars, queueVars, cronVars, AtWorkHasLock,
                AtWorkExecuted, DeletesDone, AtLeastOnce
  <2>3. LeasesHeld'
    BY <1>4 DEF IInv, vars, queueVars, cronVars, LeasesHeld
  <2>4. QED  BY <2>1, <2>2, <2>3 DEF IInv
<1>5. QED  BY <1>1, <1>2, <1>3, <1>4 DEF Next

\* The invariant holds throughout.
LEMMA Always == Spec => []IInv
  BY Initially, Inductive, PTL DEF Spec

\* Every variable keeps its type, and a run that claims, processes or gives an
\* item back is at the queue the item belongs to.
THEOREM TypeCorrect == Spec => []TypeOK
<1>1. IInv => TypeOK
  BY DEF IInv
<1>2. QED  BY <1>1, Always, PTL

\* While no run has outlived the cron lock, at most one run is past acquire();
\* and of two runs that are past it nevertheless, both can be at work on an item
\* only after the lease of one has lapsed or has been given back under it: for
\* any number of runs, in any order of their SELECTs and UPDATEs.
THEOREM OneRun == Spec => []OneConsumer
<1>1. IInv => OneConsumer
  <2> SUFFICES ASSUME IInv, NEW i \in made, NEW p \in Workers(i), NEW r \in Workers(i), p # r
               PROVE  overrun /\ (p \in lost \/ r \in lost)
    BY DEF OneConsumer
  <2>1. /\ p \in Requests /\ pc[p] \in Holding /\ item[p] = i
        /\ r \in Requests /\ pc[r] \in Holding /\ item[r] = i
    BY DEF Workers
  <2>2. overrun
    BY <2>1 DEF IInv, AtWorkHasLock, Holding
  <2>3. p \in lost \/ r \in lost
    BY <2>1 DEF IInv, LeasesHeld
  <2>4. QED  BY <2>2, <2>3
<1>2. QED  BY <1>1, Always, PTL

\* A row is deleted only after its worker has returned for the item, for any
\* number of overlapping runs that release, delay and delete each other's items.
THEOREM NothingLost == Spec => []AtLeastOnce
<1>1. IInv => AtLeastOnce
  BY DEF IInv
<1>2. QED  BY <1>1, Always, PTL

-----------------------------------------------------------------------------
(* Leases.                                                                 *)

\* One step that takes a lease that is not over belongs to the run at work on
\* the item.
GivesBack(i) ==
  row[i] = "leased" /\ row'[i] = "ready"
    => \E p \in Requests : pc[p] \in {"release", "suspend"} /\ item[p] = i

\* The actions of a run that leave the queue table alone.
LEMMA RowsKept ==
  ASSUME IInv, NEW i \in Items, row' = row
  PROVE  GivesBack(i)
  BY DEF GivesBack

\* Of the steps of a run, only releasing its item takes away a lease.
LEMMA StepGivesBack ==
  ASSUME IInv, NEW p \in Requests, Step(p), NEW i \in Items
  PROVE  GivesBack(i)
<1>1. CASE AcquireLock(p) \/ SetCronLastTime(p) \/ ReleaseLock(p)
  BY <1>1, RowsKept DEF AcquireLock, SetCronLastTime, ReleaseLock, queueVars
<1>2. CASE TimeUp(p) \/ SelectNone(p) \/ SelectItem(p)
  BY <1>2, RowsKept DEF TimeUp, SelectNone, SelectItem, queueVars
<1>3. CASE Process(p) \/ ProcessFails(p)
  BY <1>3, RowsKept DEF Process, ProcessFails, queueVars
<1>4. CASE InvokeHandlers(p)
  BY <1>4 DEF InvokeHandlers, GarbageCollection, GivesBack
<1>5. CASE UpdateItem(p)
  BY <1>5 DEF IInv, TypeOK, QueueTypeOK, UpdateItem, Claim, CannotClaim,
              SetExpire, queueVars, GivesBack
<1>6. CASE Delete(p)
  BY <1>6 DEF IInv, TypeOK, QueueTypeOK, Delete, DeleteItem, GivesBack
<1>7. CASE Delay(p)
  BY <1>7 DEF IInv, TypeOK, QueueTypeOK, Delay, DelayItem, SetExpire, GivesBack
<1>8. CASE Requeue(p)
  BY <1>8 DEF IInv, TypeOK, QueueTypeOK, Requeue, GiveBack, ReleaseItem, GivesBack
<1>9. CASE Suspend(p)
  BY <1>9 DEF IInv, TypeOK, QueueTypeOK, Suspend, GiveBack, ReleaseItem, GivesBack
<1>10. QED
  BY <1>1, <1>2, <1>3, <1>4, <1>5, <1>6, <1>7, <1>8, <1>9, Zenon DEF Step

\* A lease that is not over ends only in the hands of a run that gives the item
\* back: the garbage collection of a run never takes the item of another.
THEOREM LeasesRespected == Spec => NoStealing
<1>1. ASSUME IInv, [Next]_vars, NEW i \in Items
      PROVE  GivesBack(i)
  <2>1. ASSUME NEW j \in Items, Create(j) PROVE GivesBack(i)
    BY <1>1, <2>1 DEF IInv, TypeOK, QueueTypeOK, Create, CreateItem, GivesBack
  <2>2. ASSUME NEW j \in Items, ItemLapses(j) PROVE GivesBack(i)
    BY <1>1, <2>2 DEF IInv, TypeOK, QueueTypeOK, ItemLapses, Lapse, GivesBack
  <2>3. CASE LockLapses
    BY <1>1, <2>3, RowsKept DEF LockLapses, queueVars
  <2>4. ASSUME NEW p \in Requests, Start(p) \/ Die(p) \/ Crash(p)
        PROVE  GivesBack(i)
    BY <1>1, <2>4, RowsKept DEF Start, BeginRequest, Die, Crash, queueVars
  <2>5. ASSUME NEW p \in Requests, Step(p) PROVE GivesBack(i)
    BY <1>1, <2>5, StepGivesBack
  <2>6. CASE UNCHANGED vars
    BY <1>1, <2>6, RowsKept DEF vars, queueVars
  <2>7. QED
    BY <1>1, <2>1, <2>2, <2>3, <2>4, <2>5, <2>6, Zenon DEF Next
<1>2. IInv /\ [Next]_vars
        => [\A i \in Items : row[i] = "leased" /\ row'[i] = "ready"
              => \E p \in Requests : pc[p] \in {"release", "suspend"}
                                     /\ item[p] = i]_vars
  BY <1>1 DEF GivesBack
<1>3. QED  BY <1>2, Always, PTL DEF Spec, NoStealing
=============================================================================
