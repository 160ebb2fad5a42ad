-------------------------------- MODULE Cron --------------------------------
(***************************************************************************)
(* Cron::run() over DatabaseQueue: requests start cron runs, take the cron *)
(* lock, call the hook_cron implementations (system_cron() collects the    *)
(* queue's garbage) and work through the queues.  The lock is the one that *)
(* Lease describes: it is granted only while no other run's lease lasts.   *)
(* A run that outlives its 900 seconds goes on without knowing.            *)
(***************************************************************************)
EXTENDS DatabaseQueue

CONSTANTS
  MaxFaults,  \* bound on crashes and on errors that end a run
  Hopeless,   \* items whose worker throws RequeueException every time
  None, Dead  \* no owner of the lock; an owner that has crashed

ASSUME HopelessAssumption == Hopeless \subseteq Items
ASSUME FaultsAssumption == MaxFaults \in Nat
ASSUME OwnersAssumption == None \notin Requests /\ Dead \notin Requests /\ None # Dead

VARIABLES
  lock,       \* the request whose row is in the semaphore table
  lockOver,   \* that row's expiry has passed
  pc,         \* where each cron run is
  at,         \* at[p]: the queue processQueues() is at
  tried,      \* tried[p]: the loop over that queue has begun
  item,       \* item[p]: $item, 0 if none was claimed yet
  faults,     \* crashes and fatal errors so far
  executed,   \* items processItem() was called for (history)
  done,       \* items processItem() has returned for (history)
  overrun,    \* some run has outlived its lock (history)
  lost        \* runs at work on an item whose lease is over or given back (history)

cronVars == <<lock, lockOver, pc, at, tried, item, faults, executed, done, overrun, lost>>
vars == <<queueVars, cronVars>>

Holding == {"process", "delete", "release", "delay", "suspend"}
Labels == {"off", "acquire", "hooks", "loop", "select", "update",
           "finish", "unlock"} \cup Holding

TypeOK ==
  /\ QueueTypeOK
  /\ lock \in Requests \cup {None, Dead}
  /\ lockOver \in BOOLEAN
  /\ pc \in [Requests -> Labels]
  /\ at \in [Requests -> 1..Queues]
  /\ tried \in [Requests -> BOOLEAN]
  /\ item \in [Requests -> Items \cup {0}]
  /\ \A p \in Requests : pc[p] \in Holding \cup {"update"} =>
       item[p] \in made /\ QueueOf[item[p]] = at[p]
  /\ faults \in 0..MaxFaults
  /\ executed \subseteq made /\ done \subseteq executed
  /\ overrun \in BOOLEAN
  /\ lost \subseteq {p \in Requests : pc[p] \in Holding}

Init ==
  /\ QueueInit
  /\ lock = None /\ lockOver = FALSE
  /\ pc = [p \in Requests |-> "off"]
  /\ at = [p \in Requests |-> 1]
  /\ tried = [p \in Requests |-> FALSE]
  /\ item = [p \in Requests |-> 0]
  /\ faults = 0
  /\ executed = {} /\ done = {}
  /\ overrun = FALSE
  /\ lost = {}

-----------------------------------------------------------------------------
Goto(p, label) == pc' = [pc EXCEPT ![p] = label]

\* Everything but the queue table and where the runs are.
Local == <<lock, lockOver, at, tried, item, faults, executed, done, overrun>>

Workers(i) == {p \in Requests : pc[p] \in Holding /\ item[p] = i}

\* Run p is at work on its item no longer.
Leave(p) == lost' = lost \ {p}

\* Run p gives the item back that it is at work on, and maybe others too.
GiveBack(p) ==
  /\ ReleaseItem(item[p])
  /\ lost' = (lost \cup Workers(item[p])) \ {p}

Forget(p) ==
  /\ at' = [at EXCEPT ![p] = 1]
  /\ tried' = [tried EXCEPT ![p] = FALSE]
  /\ item' = [item EXCEPT ![p] = 0]
  /\ Leave(p)

\* The end of the loop over one queue.
NextQueue(p) ==
  /\ IF at[p] < Queues
       THEN Goto(p, "loop") /\ at' = [at EXCEPT ![p] = @ + 1]
       ELSE Goto(p, "finish") /\ UNCHANGED at
  /\ tried' = [tried EXCEPT ![p] = FALSE]
  /\ item' = [item EXCEPT ![p] = 0]

-----------------------------------------------------------------------------
(* run().                                                                  *)

Start(p) ==
  /\ pc[p] = "off"
  /\ BeginRequest(p)
  /\ Goto(p, "acquire")
  /\ UNCHANGED <<Local, lost>>

\* Mutant of AcquireLock: the answer of acquire() is not looked at.
AcquireAnyway(p) ==
  /\ pc[p] = "acquire"
  /\ IF lock = None \/ lockOver
       THEN lock' = p /\ lockOver' = FALSE
       ELSE UNCHANGED <<lock, lockOver>>
  /\ Goto(p, "hooks")
  /\ UNCHANGED <<queueVars, at, tried, item, faults, executed, done, overrun, lost>>

AcquireLock(p) ==
  /\ pc[p] = "acquire"
  /\ IF lock = None \/ lockOver
       THEN lock' = p /\ lockOver' = FALSE /\ Goto(p, "hooks")
       ELSE Goto(p, "off") /\ UNCHANGED <<lock, lockOver>>
  /\ UNCHANGED <<queueVars, at, tried, item, faults, executed, done, overrun, lost>>

\* invokeCronHandlers(): of the hooks, system_cron() collects the garbage of
\* every queue; the others concern no queue.
InvokeHandlers(p) ==
  /\ pc[p] = "hooks"
  /\ GarbageCollection(p)
  /\ Goto(p, "loop")
  /\ UNCHANGED <<Local, lost>>

\* setCronLastTime() concerns no queue.
SetCronLastTime(p) ==
  /\ pc[p] = "finish"
  /\ Goto(p, "unlock")
  /\ UNCHANGED <<queueVars, Local, lost>>

ReleaseLock(p) ==
  /\ pc[p] = "unlock"
  /\ lock' = IF lock = p THEN None ELSE lock
  /\ lockOver' = (lock # p /\ lockOver)
  /\ Goto(p, "off")
  /\ Forget(p)
  /\ UNCHANGED <<queueVars, faults, executed, done, overrun>>

-----------------------------------------------------------------------------
(* processQueues().                                                        *)

\* getCurrentTime() < $end fails; the first test of a queue does not.
TimeUp(p) ==
  /\ pc[p] = "loop"
  /\ tried[p]
  /\ NextQueue(p)
  /\ UNCHANGED <<queueVars, lock, lockOver, faults, executed, done, overrun, lost>>

\* claimItem(): the SELECT finds nothing.
SelectNone(p) ==
  /\ pc[p] \in {"loop", "select"}
  /\ Ready(at[p]) = {}
  /\ NextQueue(p)
  /\ UNCHANGED <<queueVars, lock, lockOver, faults, executed, done, overrun, lost>>

SelectItem(p) ==
  /\ pc[p] \in {"loop", "select"}
  /\ Ready(at[p]) # {}
  /\ item' = [item EXCEPT ![p] = FirstReady(at[p])]
  /\ tried' = [tried EXCEPT ![p] = TRUE]
  /\ Goto(p, "update")
  /\ UNCHANGED <<queueVars, lock, lockOver, at, faults, executed, done, overrun, lost>>

\* claimItem(): the UPDATE, which another consumer may have been faster at.
UpdateItem(p) ==
  /\ pc[p] = "update"
  /\ \/ /\ Claim(item[p])
        /\ Goto(p, "process")
        /\ executed' = executed \cup {item[p]}
     \/ /\ CannotClaim(item[p])
        /\ Goto(p, "select")
        /\ UNCHANGED executed
  /\ UNCHANGED <<lock, lockOver, at, tried, item, faults, done, overrun, lost>>

\* processItem() returns.
Process(p) ==
  /\ pc[p] = "process"
  /\ item[p] \notin Hopeless
  /\ done' = done \cup {item[p]}
  /\ Goto(p, "delete")
  /\ UNCHANGED <<queueVars, lock, lockOver, at, tried, item, faults, executed, overrun, lost>>

\* Mutant of ProcessFails: the item is deleted when its worker gives up.
FailsAndDrops(p) ==
  /\ pc[p] = "process"
  /\ Goto(p, "delete")
  /\ UNCHANGED <<queueVars, Local, lost>>

\* processItem() throws RequeueException, DelayedRequeueException,
\* SuspendQueueException or another exception.
ProcessFails(p) ==
  /\ pc[p] = "process"
  /\ \/ Goto(p, "release") /\ UNCHANGED lost
     \/ /\ item[p] \notin Hopeless
        /\ \E l \in {"delay", "suspend"} : Goto(p, l)
        /\ UNCHANGED lost
     \/ item[p] \notin Hopeless /\ Goto(p, "loop") /\ Leave(p)
  /\ UNCHANGED <<queueVars, Local>>

Delete(p) ==
  /\ pc[p] = "delete"
  /\ DeleteItem(item[p])
  /\ Goto(p, "loop")
  /\ Leave(p)
  /\ UNCHANGED Local

Delay(p) ==
  /\ pc[p] = "delay"
  /\ DelayItem(item[p])
  /\ Goto(p, "loop")
  /\ Leave(p)
  /\ UNCHANGED Local

Requeue(p) ==
  /\ pc[p] = "release"
  /\ GiveBack(p)
  /\ Goto(p, "loop")
  /\ UNCHANGED Local

Suspend(p) ==
  /\ pc[p] = "suspend"
  /\ GiveBack(p)
  /\ NextQueue(p)
  /\ UNCHANGED <<lock, lockOver, faults, executed, done, overrun>>

-----------------------------------------------------------------------------
(* The environment.                                                        *)

Create(i) == CreateItem(i) /\ UNCHANGED cronVars

\* The lease of item i is over for those at work on it.
ItemLapses(i) ==
  /\ Lapse(i)
  /\ lost' = lost \cup Workers(i)
  /\ UNCHANGED <<Local, pc>>

\* 900 seconds have passed since the lock was taken.
LockLapses ==
  /\ lock # None /\ ~lockOver
  /\ lockOver' = TRUE
  /\ overrun' = (overrun \/ lock \in Requests)
  /\ UNCHANGED <<queueVars, lock, pc, at, tried, item, faults, executed, done, lost>>

\* An \Error, which no catch in Cron sees, ends the request; the shutdown
\* function releases the lock.
Die(p) ==
  /\ pc[p] # "off"
  /\ faults < MaxFaults
  /\ faults' = faults + 1
  /\ lock' = IF lock = p THEN None ELSE lock
  /\ lockOver' = (lock # p /\ lockOver)
  /\ Goto(p, "off")
  /\ Forget(p)
  /\ UNCHANGED <<queueVars, executed, done, overrun>>

\* The process is killed; its row stays in the semaphore table.
Crash(p) ==
  /\ pc[p] # "off"
  /\ faults < MaxFaults
  /\ faults' = faults + 1
  /\ lock' = IF lock = p THEN Dead ELSE lock
  /\ Goto(p, "off")
  /\ Forget(p)
  /\ UNCHANGED <<queueVars, lockOver, executed, done, overrun>>

-----------------------------------------------------------------------------
Step(p) ==
  \/ AcquireLock(p) \/ InvokeHandlers(p) \/ SetCronLastTime(p) \/ ReleaseLock(p)
  \/ TimeUp(p) \/ SelectNone(p) \/ SelectItem(p) \/ UpdateItem(p)
  \/ Process(p) \/ ProcessFails(p)
  \/ Delete(p) \/ Delay(p) \/ Requeue(p) \/ Suspend(p)

Next ==
  \/ \E i \in Items : Create(i) \/ ItemLapses(i)
  \/ LockLapses
  \/ \E p \in Requests : Start(p) \/ Step(p) \/ Die(p) \/ Crash(p)

Spec == Init /\ [][Next]_vars

\* Cron is triggered again and again, runs go on, time passes (leases lapse
\* and a loop's time is used up), and a worker that is not hopeless succeeds
\* if it gets the item often enough.
Fairness ==
  /\ WF_vars(LockLapses)
  /\ \A i \in Items : /\ WF_vars(ItemLapses(i))
                      /\ SF_vars(\E p \in Requests : item[p] = i /\ Process(p))
  /\ \A p \in Requests : WF_vars(Start(p)) /\ WF_vars(Step(p)) /\ SF_vars(TimeUp(p))

FairSpec == Spec /\ Fairness

-----------------------------------------------------------------------------
(* Properties.                                                             *)

\* Two runs are at work on one item only if both things have happened that can
\* bring it about: a run has outlived the cron lock, and one of the two has had
\* its lease end under it, by time or by a run that gave the item back.  Runs
\* that overlap for the lock alone never share an item, whichever of them is
\* between the SELECT and the UPDATE of claimItem().
OneConsumer ==
  \A i \in made : \A p, r \in Workers(i) :
    p # r => overrun /\ (p \in lost \/ r \in lost)

\* An item is gone from the queue only if its worker has returned for it once,
\* even when overlapping runs release, delay and delete each other's items.
AtLeastOnce == \A i \in made : row[i] = "absent" => i \in done

\* Nobody but a run that gives an item back makes an item available again
\* whose lease is not over.
NoStealing ==
  [][\A i \in Items : row[i] = "leased" /\ row'[i] = "ready"
       => \E p \in Requests : pc[p] \in {"release", "suspend"} /\ item[p] = i]_vars

\* No item up to item i of its queue is hopeless.
Hopeful(i) == \A j \in Hopeless : QueueOf[j] = QueueOf[i] => i < j

\* An item leaves the queue in the end, whatever crashes and failures (finitely
\* many fatal ones) come before, unless it is hopeless itself or behind a
\* hopeless one: an item that is requeued every time starves those behind it,
\* and neither those before it nor the other queues.
EventuallyDone ==
  \A i \in Items : Hopeful(i) => (i \in made ~> row[i] = "absent")
=============================================================================
