--------------------------- MODULE DatabaseQueue ---------------------------
(***************************************************************************)
(* The queue table of DatabaseQueue.  An item's expire column is only ever *)
(* compared with 0, with the current time and with the start of a request, *)
(* so a row is kept as "ready" (expire = 0), "leased" (expire not yet      *)
(* past) or "lapsed" (expire past); stale[p] are the items whose expire    *)
(* lies before the start of request p.  Items are numbered in the order    *)
(* (created, item_id); an item may be inserted after one with a higher     *)
(* number.  Every method treats a missing table as an empty one.           *)
(***************************************************************************)
EXTENDS Naturals

CONSTANTS
  Items,      \* items ever created, a finite set of naturals
  Queues,     \* number of queues with cron workers
  QueueOf,    \* QueueOf[i]: the queue (name) item i belongs to
  Requests    \* requests that collect garbage and consume items

ASSUME ItemsAssumption == Items \subseteq Nat
ASSUME QueuesAssumption == Queues \in Nat \ {0} /\ QueueOf \in [Items -> 1..Queues]

VARIABLES
  row,        \* row[i]: state of item i's row
  made,       \* the items that have been inserted
  stale       \* stale[p]: items whose expire is before p's request time

queueVars == <<row, made, stale>>

QueueTypeOK ==
  /\ row \in [Items -> {"absent", "ready", "leased", "lapsed"}]
  /\ made \subseteq Items
  /\ \A i \in Items \ made : row[i] = "absent"
  /\ stale \in [Requests -> SUBSET Items]

QueueInit ==
  /\ row = [i \in Items |-> "absent"]
  /\ made = {}
  /\ stale = [p \in Requests |-> {}]

CreateItem(i) ==
  /\ i \notin made
  /\ made' = made \cup {i}
  /\ row' = [row EXCEPT ![i] = "ready"]
  /\ UNCHANGED stale

\* Mutant of Ready: no condition on the queue's name.
ReadyAnywhere(q) == {i \in Items : row[i] = "ready"}

Ready(q) == {i \in Items : QueueOf[i] = q /\ row[i] = "ready"}

\* ORDER BY created, item_id ... LIMIT 1
FirstReady(q) == CHOOSE i \in Ready(q) : \A j \in Ready(q) : i <= j

\* An expire set to the current time plus something is before nobody's start.
SetExpire(i) ==
  /\ row' = [row EXCEPT ![i] = "leased"]
  /\ stale' = [p \in Requests |-> stale[p] \ {i}]

\* Mutant of Claim: the UPDATE has no condition on expire.
ClaimAnyway(i) == row[i] # "absent" /\ SetExpire(i) /\ UNCHANGED made

\* claimItem(): UPDATE ... SET expire = now + lease WHERE expire = 0.
Claim(i) == row[i] = "ready" /\ SetExpire(i) /\ UNCHANGED made

CannotClaim(i) == row[i] # "ready" /\ UNCHANGED queueVars

\* releaseItem() and delayItem() look at the item's id only.
ReleaseItem(i) ==
  /\ row' = [row EXCEPT ![i] = IF @ = "absent" THEN @ ELSE "ready"]
  /\ UNCHANGED <<made, stale>>

DelayItem(i) ==
  /\ IF row[i] = "absent" THEN UNCHANGED <<row, stale>> ELSE SetExpire(i)
  /\ UNCHANGED made

DeleteItem(i) ==
  /\ row' = [row EXCEPT ![i] = "absent"]
  /\ UNCHANGED <<made, stale>>

\* Mutant of GarbageCollection: any expire other than 0 is reset.
ResetAll(p) ==
  /\ row' = [i \in Items |-> IF row[i] = "absent" THEN "absent" ELSE "ready"]
  /\ UNCHANGED <<made, stale>>

\* Mutant of GarbageCollection: nothing is reset.
ResetNone(p) == UNCHANGED queueVars

\* UPDATE ... SET expire = 0 WHERE expire <> 0 AND expire < request time, in
\* every queue.  (The DELETE of old drupal_batch rows concerns no item here.)
GarbageCollection(p) ==
  /\ row' = [i \in Items |->
               IF row[i] = "lapsed" /\ i \in stale[p] THEN "ready" ELSE row[i]]
  /\ UNCHANGED <<made, stale>>

\* Request p begins: its request time is the current time.
BeginRequest(p) ==
  /\ stale' = [stale EXCEPT ![p] = {i \in Items : row[i] = "lapsed"}]
  /\ UNCHANGED <<row, made>>

\* Time passes the expire of an item.
Lapse(i) ==
  /\ row[i] = "leased"
  /\ row' = [row EXCEPT ![i] = "lapsed"]
  /\ UNCHANGED <<made, stale>>
=============================================================================
