---------------------------- MODULE DatabaseLock ----------------------------
(***************************************************************************)
(* The semaphore table and the page requests that use it through           *)
(* DatabaseLockBackend and LockBackendAbstract.  Each SQL statement is one *)
(* step; between two statements any other request may run, time may pass,  *)
(* the request may end (its shutdown function runs) or crash (it does      *)
(* not).  The clock is the one all requests share; its unit is the         *)
(* millisecond, the shortest timeout acquire() accepts.                    *)
(***************************************************************************)
EXTENDS Naturals

CONSTANTS
  Requests,   \* page requests; each has a lock id of its own (uniqid)
  Names,      \* lock names, as normalizeName() returns them
  Timeouts,   \* the $timeout arguments the callers pass
  Polls,      \* how often wait() polls before its $delay is used up
  MaxTime,    \* bound on the clock
  None        \* the value of a row that does not exist

ASSUME RequestsAssumption == None \notin Requests
ASSUME NamesAssumption == Names # {}
ASSUME TimeoutsAssumption == Timeouts \subseteq Nat
ASSUME BoundsAssumption == MaxTime \in Nat /\ Polls \in Nat

VARIABLES
  now,        \* microtime(TRUE)
  table,      \* whether the semaphore table exists
  semaphore,  \* semaphore[n]: the row of lock n
  locks,      \* locks[p]: the keys of $this->locks in request p
  granted,    \* granted[p][n]: the expiry p was last told for n (history)
  last,       \* last[n]: the request that last inserted n's row (history)
  pc,         \* where each request is
  call        \* the local variables of each request's current call

vars == <<now, table, semaphore, locks, granted, last, pc, call>>

NoRow == [value |-> None, expire |-> 0]
Row == [value : Requests \cup {None}, expire : 0..MaxTime]

\* The local variables of a call at its beginning.
NewCall(op, n, e, polls) ==
  [op |-> op, name |-> n, expire |-> e, retry |-> FALSE, left |-> polls,
   read |-> NoRow]
NoCall == NewCall("none", CHOOSE n \in Names : TRUE, 0, 0)
Call == [op : {"none", "acquire", "release", "available", "wait"},
         name : Names, expire : 0..MaxTime, retry : BOOLEAN,
         left : 0..Polls, read : Row]

Running == {"idle", "renew", "insert", "create", "select", "check",
            "compare", "poll", "release"}
Gone == {"ended", "crashed"}

TypeOK ==
  /\ now \in 0..MaxTime
  /\ table \in BOOLEAN
  /\ semaphore \in [Names -> Row]
  /\ \A n \in Names : semaphore[n].value # None => semaphore[n].expire > 0
  /\ locks \in [Requests -> SUBSET Names]
  /\ granted \in [Requests -> [Names -> 0..MaxTime]]
  /\ last \in [Names -> Requests \cup {None}]
  /\ pc \in [Requests -> Running \cup Gone \cup {"purge"}]
  /\ call \in [Requests -> Call]

Init ==
  /\ now = 0
  /\ table = FALSE
  /\ semaphore = [n \in Names |-> NoRow]
  /\ locks = [p \in Requests |-> {}]
  /\ granted = [p \in Requests |-> [n \in Names |-> 0]]
  /\ last = [n \in Names |-> None]
  /\ pc = [p \in Requests |-> "idle"]
  /\ call = [p \in Requests |-> NoCall]

-----------------------------------------------------------------------------
(* Helpers.                                                                *)

\* Mutant of Lifetime: no lower limit.
LifetimeUnlimited(t) == t

\* "Insure that the timeout is at least 1 ms."
Lifetime(t) == IF t < 1 THEN 1 ELSE t

Goto(p, label) == pc' = [pc EXCEPT ![p] = label]

Return(p) ==
  /\ Goto(p, "idle")
  /\ call' = [call EXCEPT ![p] = NoCall]

\* lockMayBeAvailable() answers TRUE: acquire() retries its INSERT.
Available(p) ==
  IF call[p].op = "acquire"
    THEN /\ Goto(p, "insert")
         /\ call' = [call EXCEPT ![p].retry = TRUE, ![p].read = NoRow]
    ELSE Return(p)

\* lockMayBeAvailable() answers FALSE: wait() goes on polling.
Unavailable(p) ==
  IF call[p].op = "wait"
    THEN /\ Goto(p, "poll")
         /\ call' = [call EXCEPT ![p].read = NoRow]
    ELSE Return(p)

HasRow(p, n) == semaphore[n].value = p

-----------------------------------------------------------------------------
(* acquire().                                                              *)

Acquire(p, n, t) ==
  /\ pc[p] = "idle"
  /\ now + Lifetime(t) < MaxTime
  /\ Goto(p, IF n \in locks[p] THEN "renew" ELSE "insert")
  /\ call' = [call EXCEPT
       ![p] = NewCall("acquire", n, now + Lifetime(t), 0)]
  /\ UNCHANGED <<now, table, semaphore, locks, granted, last>>

\* Mutant of Renew: unsets $this->locks[$name] whatever the UPDATE answers.
RenewForgets(p) ==
  LET n == call[p].name IN
  /\ pc[p] = "renew"
  /\ HasRow(p, n)
  /\ semaphore' = [semaphore EXCEPT ![n].expire = call[p].expire]
  /\ locks' = [locks EXCEPT ![p] = @ \ {n}]
  /\ granted' = [granted EXCEPT ![p][n] = call[p].expire]
  /\ Return(p)
  /\ UNCHANGED <<now, table, last>>

\* UPDATE of a lock the request believes it holds: the row is still its own.
Renew(p) ==
  LET n == call[p].name IN
  /\ pc[p] = "renew"
  /\ HasRow(p, n)
  /\ semaphore' = [semaphore EXCEPT ![n].expire = call[p].expire]
  /\ granted' = [granted EXCEPT ![p][n] = call[p].expire]
  /\ Return(p)
  /\ UNCHANGED <<now, table, locks, last>>

\* "The lock was broken": the UPDATE matched no row; acquire() returns FALSE.
RenewBroken(p) ==
  LET n == call[p].name IN
  /\ pc[p] = "renew"
  /\ ~HasRow(p, n)
  /\ locks' = [locks EXCEPT ![p] = @ \ {n}]
  /\ Return(p)
  /\ UNCHANGED <<now, table, semaphore, granted, last>>

\* Mutant of InsertRow: merges the row instead of inserting it.
InsertReplaces(p) ==
  LET n == call[p].name IN
  /\ pc[p] = "insert"
  /\ table
  /\ semaphore' = [semaphore EXCEPT
       ![n] = [value |-> p, expire |-> call[p].expire]]
  /\ locks' = [locks EXCEPT ![p] = @ \cup {n}]
  /\ granted' = [granted EXCEPT ![p][n] = call[p].expire]
  /\ last' = [last EXCEPT ![n] = p]
  /\ Return(p)
  /\ UNCHANGED <<now, table>>

\* The INSERT goes in and the lock is entered in $this->locks.
InsertRow(p) ==
  LET n == call[p].name IN
  /\ pc[p] = "insert"
  /\ table
  /\ HasRow(None, n)
  /\ semaphore' = [semaphore EXCEPT
       ![n] = [value |-> p, expire |-> call[p].expire]]
  /\ locks' = [locks EXCEPT ![p] = @ \cup {n}]
  /\ granted' = [granted EXCEPT ![p][n] = call[p].expire]
  /\ last' = [last EXCEPT ![n] = p]
  /\ Return(p)
  /\ UNCHANGED <<now, table>>

\* The request is cut short after the INSERT and before the entry in
\* $this->locks: releaseAll() runs without it.
InsertCut(p) ==
  LET n == call[p].name IN
  /\ pc[p] = "insert"
  /\ table
  /\ HasRow(None, n)
  /\ semaphore' = [semaphore EXCEPT
       ![n] = [value |-> p, expire |-> call[p].expire]]
  /\ locks' = [locks EXCEPT ![p] = {}]
  /\ last' = [last EXCEPT ![n] = p]
  /\ Goto(p, IF locks[p] = {} THEN "ended" ELSE "purge")
  /\ call' = [call EXCEPT ![p] = NoCall]
  /\ UNCHANGED <<now, table, granted>>

\* Mutant of InsertDuplicate: does not look at the row in the way.
InsertGivesUp(p) ==
  /\ pc[p] = "insert"
  /\ table
  /\ ~HasRow(None, call[p].name)
  /\ Return(p)
  /\ UNCHANGED <<now, table, semaphore, locks, granted, last>>

\* IntegrityConstraintViolationException: only the first pass looks whether
\* the row in the way has expired.
InsertDuplicate(p) ==
  /\ pc[p] = "insert"
  /\ table
  /\ ~HasRow(None, call[p].name)
  /\ IF call[p].retry
       THEN Return(p)
       ELSE Goto(p, "select") /\ UNCHANGED call
  /\ UNCHANGED <<now, table, semaphore, locks, granted, last>>

InsertNoTable(p) ==
  /\ pc[p] = "insert"
  /\ ~table
  /\ Goto(p, "create")
  /\ UNCHANGED <<now, table, semaphore, locks, granted, last, call>>

\* ensureTableExists(); that another request was faster is no error.
CreateTable(p) ==
  /\ pc[p] = "create"
  /\ table' = TRUE
  /\ IF call[p].retry
       THEN Return(p)
       ELSE /\ Goto(p, "insert")
            /\ call' = [call EXCEPT ![p].retry = TRUE]
  /\ UNCHANGED <<now, semaphore, locks, granted, last>>

-----------------------------------------------------------------------------
(* lockMayBeAvailable(), called by itself, by acquire() and by wait().     *)

MayBeAvailable(p, n) ==
  /\ pc[p] = "idle"
  /\ Goto(p, "select")
  /\ call' = [call EXCEPT ![p] = NewCall("available", n, 0, 0)]
  /\ UNCHANGED <<now, table, semaphore, locks, granted, last>>

SelectRow(p) ==
  LET n == call[p].name IN
  /\ pc[p] = "select"
  /\ ~HasRow(None, n)
  /\ Goto(p, "compare")
  /\ call' = [call EXCEPT ![p].read = semaphore[n]]
  /\ UNCHANGED <<now, table, semaphore, locks, granted, last>>

SelectNoRow(p) ==
  /\ pc[p] = "select"
  /\ table
  /\ HasRow(None, call[p].name)
  /\ Available(p)
  /\ UNCHANGED <<now, table, semaphore, locks, granted, last>>

SelectNoTable(p) ==
  /\ pc[p] = "select"
  /\ ~table
  /\ Goto(p, "check")
  /\ UNCHANGED <<now, table, semaphore, locks, granted, last, call>>

\* catchException(): the exception goes on to the caller if the table has
\* appeared since the SELECT failed.
CheckTable(p) ==
  /\ pc[p] = "check"
  /\ IF table THEN Return(p) ELSE Available(p)
  /\ UNCHANGED <<now, table, semaphore, locks, granted, last>>

NotExpired(p) ==
  /\ pc[p] = "compare"
  /\ now <= call[p].read.expire
  /\ Unavailable(p)
  /\ UNCHANGED <<now, table, semaphore, locks, granted, last>>

\* Mutant of DeleteExpired: only the row's value is compared.
DeleteByValue(p) ==
  LET n == call[p].name
      read == call[p].read IN
  /\ pc[p] = "compare"
  /\ now > read.expire
  /\ IF HasRow(read.value, n)
       THEN semaphore' = [semaphore EXCEPT ![n] = NoRow] /\ Available(p)
       ELSE Unavailable(p) /\ UNCHANGED semaphore
  /\ UNCHANGED <<now, table, locks, granted, last>>

\* Mutant of DeleteExpired: a lock in its last instant counts as expired.
DeleteExpiring(p) ==
  LET n == call[p].name
      read == call[p].read IN
  /\ pc[p] = "compare"
  /\ now >= read.expire
  /\ IF HasRow(read.value, n) /\ semaphore[n].expire <= read.expire
       THEN semaphore' = [semaphore EXCEPT ![n] = NoRow] /\ Available(p)
       ELSE Unavailable(p) /\ UNCHANGED semaphore
  /\ UNCHANGED <<now, table, locks, granted, last>>

\* DELETE of the row that was read, unless another request has renewed or
\* replaced it since.
DeleteExpired(p) ==
  LET n == call[p].name
      read == call[p].read IN
  /\ pc[p] = "compare"
  /\ now > read.expire
  /\ IF HasRow(read.value, n) /\ semaphore[n].expire <= read.expire
       THEN semaphore' = [semaphore EXCEPT ![n] = NoRow] /\ Available(p)
       ELSE Unavailable(p) /\ UNCHANGED semaphore
  /\ UNCHANGED <<now, table, locks, granted, last>>

Wait(p, n) ==
  /\ pc[p] = "idle"
  /\ Goto(p, "poll")
  /\ call' = [call EXCEPT ![p] = NewCall("wait", n, 0, Polls)]
  /\ UNCHANGED <<now, table, semaphore, locks, granted, last>>

\* One turn of wait()'s loop, usleep() included, or its end.
Poll(p) ==
  /\ pc[p] = "poll"
  /\ IF call[p].left = 0
       THEN Return(p)
       ELSE /\ Goto(p, "select")
            /\ call' = [call EXCEPT ![p].left = @ - 1]
  /\ UNCHANGED <<now, table, semaphore, locks, granted, last>>

-----------------------------------------------------------------------------
(* release(), releaseAll() at shutdown, and the environment.               *)

Release(p, n) ==
  /\ pc[p] = "idle"
  /\ locks' = [locks EXCEPT ![p] = @ \ {n}]
  /\ Goto(p, "release")
  /\ call' = [call EXCEPT ![p] = NewCall("release", n, 0, 0)]
  /\ UNCHANGED <<now, table, semaphore, granted, last>>

ReleaseRow(p) ==
  LET n == call[p].name IN
  /\ pc[p] = "release"
  /\ semaphore' = IF HasRow(p, n)
                    THEN [semaphore EXCEPT ![n] = NoRow]
                    ELSE semaphore
  /\ Return(p)
  /\ UNCHANGED <<now, table, locks, granted, last>>

\* The request ends, perhaps in the middle of a call (fatal error, exit, an
\* exception nobody catches), and its shutdown function calls releaseAll(),
\* which does nothing if no lock is in $this->locks.
Shutdown(p) ==
  /\ pc[p] \in Running
  /\ locks' = [locks EXCEPT ![p] = {}]
  /\ Goto(p, IF locks[p] = {} THEN "ended" ELSE "purge")
  /\ call' = [call EXCEPT ![p] = NoCall]
  /\ UNCHANGED <<now, table, semaphore, granted, last>>

\* DELETE of every row with the request's lock id.
Purge(p) ==
  /\ pc[p] = "purge"
  /\ semaphore' = [n \in Names |->
                     IF HasRow(p, n) THEN NoRow ELSE semaphore[n]]
  /\ Goto(p, "ended")
  /\ UNCHANGED <<now, table, locks, granted, last, call>>

\* The process is killed; no shutdown function runs.
Crash(p) ==
  /\ pc[p] \notin Gone
  /\ locks' = [locks EXCEPT ![p] = {}]
  /\ Goto(p, "crashed")
  /\ call' = [call EXCEPT ![p] = NoCall]
  /\ UNCHANGED <<now, table, semaphore, granted, last>>

Tick ==
  /\ now < MaxTime
  /\ now' = now + 1
  /\ UNCHANGED <<table, semaphore, locks, granted, last, pc, call>>

-----------------------------------------------------------------------------
Start(p) ==
  \E n \in Names :
    \/ \E t \in Timeouts : Acquire(p, n, t)
    \/ MayBeAvailable(p, n)
    \/ Wait(p, n)
    \/ Release(p, n)

\* What a request does once a call has begun.
Step(p) ==
  \/ Renew(p) \/ RenewBroken(p)
  \/ InsertRow(p) \/ InsertDuplicate(p) \/ InsertNoTable(p) \/ CreateTable(p)
  \/ SelectRow(p) \/ SelectNoRow(p) \/ SelectNoTable(p) \/ CheckTable(p)
  \/ NotExpired(p) \/ DeleteExpired(p) \/ Poll(p)
  \/ ReleaseRow(p) \/ Purge(p)

End(p) == InsertCut(p) \/ Shutdown(p) \/ Crash(p)

Next == Tick \/ \E p \in Requests : Start(p) \/ Step(p) \/ End(p)

Spec == Init /\ [][Next]_vars

\* A request that is in a call keeps running, and time passes.  Nothing makes
\* a request begin a call, end or crash.
Fairness == WF_vars(Tick) /\ \A p \in Requests : WF_vars(Step(p))

FairSpec == Spec /\ Fairness

-----------------------------------------------------------------------------
(* Properties.                                                             *)

\* p was told it has lock n, and the time it was told has not run out.
Holds(p, n) == n \in locks[p] /\ now <= granted[p][n]

\* While a request may rely on a lock, the semaphore row is its own and ends
\* when acquire() said: no other request's expired-lock DELETE, release() or
\* shutdown has removed or replaced it, whatever it had read before.
LeaseBacked ==
  \A p \in Requests, n \in Names :
    Holds(p, n) => semaphore[n] = [value |-> p, expire |-> granted[p][n]]

\* Two requests never rely on the same lock at the same time.
MutualExclusion ==
  \A p, q \in Requests, n \in Names : Holds(p, n) /\ Holds(q, n) => p = q

\* A row that has not expired is removed only by the request that inserted
\* it, in release() or in releaseAll(); a crashed request's row, by nobody.
NobodyBreaksEarly ==
  [][\A n \in Names, p \in Requests :
       HasRow(p, n) /\ now <= semaphore[n].expire /\ semaphore'[n].value # p
         => pc[p] \in {"release", "purge"}]_vars

\* A request that ends by its shutdown function leaves no row, although
\* releaseAll() looks only at $this->locks, unless it was cut short inside
\* release() or around the INSERT of acquire().
NoStrayRow ==
  [][\A p \in Requests :
       pc[p] \notin {"ended", "insert", "release"} /\ pc'[p] = "ended"
         => \A n \in Names : semaphore'[n].value # p]_vars

\* The table and the locking protocol give callers the leases of Lease.
L == INSTANCE Lease WITH
       lease <- [p \in Requests |-> [n \in Names |->
                   IF n \in locks[p] THEN granted[p][n] ELSE 0]],
       Instants <- 0..MaxTime
ImplementsLease == L!Spec

\* q is about to INSERT for the first time, the row in the way has expired
\* and the request that left it, like every other, is gone.
StaleRowInTheWay(q, n) ==
  /\ pc[q] = "insert" /\ call[q].name = n /\ ~call[q].retry
  /\ ~HasRow(None, n) /\ semaphore[n].expire < now
  /\ \A r \in Requests \ {q} : pc[r] \in Gone

\* An expired lock left behind by a crashed request does not keep a later
\* acquire() from succeeding.
CrashRecovery ==
  \A q \in Requests, n \in Names :
    StaleRowInTheWay(q, n) ~> n \in locks[q] \/ pc[q] \in Gone \cup {"purge"}
=============================================================================
