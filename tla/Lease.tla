------------------------------- MODULE Lease -------------------------------
(***************************************************************************)
(* What a Drupal lock promises its callers, without the semaphore table:   *)
(* acquire() hands a request a lease on a name until some instant, never   *)
(* while another request's lease on that name is still running, and a      *)
(* renewal succeeds only if nobody took the name in between.               *)
(***************************************************************************)
EXTENDS Naturals

CONSTANTS
  Requests,   \* page requests (PHP processes)
  Names,      \* lock names
  Instants,   \* a subset of Nat: the instants a lease may last to
  None        \* no request

VARIABLES
  now,        \* the clock all requests read with microtime()
  lease,      \* lease[p][n]: instant p was told its lock n lasts to; 0: none
  last        \* last[n]: the request n was last given to

leaseVars == <<now, lease, last>>

Init ==
  /\ now = 0
  /\ lease = [p \in Requests |-> [n \in Names |-> 0]]
  /\ last = [n \in Names |-> None]

Tick == now' = now + 1 /\ UNCHANGED <<lease, last>>

\* No other request's lease on n is still running.
ClearFor(p, n) ==
  \A q \in Requests \ {p} : lease[q][n] = 0 \/ lease[q][n] < now

Grant(p, n) ==
  /\ ClearFor(p, n)
  /\ \E e \in Instants : lease' = [lease EXCEPT ![p][n] = e]
  /\ last' = [last EXCEPT ![n] = p]
  /\ UNCHANGED now

\* The name is given to a request that ends before it learns of it.
GrantToDying(p, n) ==
  /\ ClearFor(p, n)
  /\ lease' = [lease EXCEPT ![p] = [m \in Names |-> 0]]
  /\ last' = [last EXCEPT ![n] = p]
  /\ UNCHANGED now

Extend(p, n) ==
  /\ lease[p][n] # 0
  /\ last[n] = p
  /\ ClearFor(p, n)
  /\ \E e \in Instants : lease' = [lease EXCEPT ![p][n] = e]
  /\ UNCHANGED <<now, last>>

\* A request gives up, or is told it has lost, some of its leases.
GiveUp(p) ==
  /\ \E gone \in SUBSET Names :
       lease' = [lease EXCEPT ![p] =
                   [n \in Names |-> IF n \in gone THEN 0 ELSE lease[p][n]]]
  /\ UNCHANGED <<now, last>>

Next ==
  \/ Tick
  \/ \E p \in Requests :
       \/ GiveUp(p)
       \/ \E n \in Names : Grant(p, n) \/ GrantToDying(p, n) \/ Extend(p, n)

Spec == Init /\ [][Next]_leaseVars
=============================================================================
