------------------------------ MODULE FastCache ------------------------------
(***************************************************************************)
(* ChainedFastBackend: every web server has a fast cache of its own in     *)
(* front of the consistent cache they share.  A write to the consistent    *)
(* cache is followed by a "last write timestamp"; items of a fast cache    *)
(* that are older are not used.  A request reads the timestamp once.       *)
(*                                                                         *)
(* Here is one item of a bin, and requests that read, set, delete and      *)
(* flush it or invalidate tags, the latter perhaps within a transaction.   *)
(* They interleave between any two calls of a cache, and are killed.       *)
(*                                                                         *)
(* Times are milliseconds.  Nothing is assumed of clocks: "Clocks on a     *)
(* single server can drift. Multiple servers may have slightly differing   *)
(* opinions about the current time." (markAsOutdated()).  Every use of     *)
(* microtime() gives any time.                                             *)
(***************************************************************************)
EXTENDS Integers

CONSTANTS
  Procs,     \* processes that serve requests
  Servers,   \* web servers
  Host,      \* Host[p]: the server of p
  MaxTime,   \* bound on what a clock shows
  MaxWrites  \* bound on changes of the item

ASSUME HostAssumption == Host \in [Procs -> Servers]
ASSUME BoundsAssumption == MaxTime \in Nat /\ MaxWrites \in Nat

None == 0     \* no item; the contents are numbered from 1
Unknown == -1 \* $lastWriteTimestamp is NULL; no answer

VARIABLES
  writes,    \* changes so far
  value,     \* the item in the consistent cache
  stamp,     \* the timestamp there, 0 if there is none
  fast,      \* fast[s]: item of s's fast cache and the time it was created
  pc,
  memo,      \* memo[p]: $lastWriteTimestamp
  got,       \* got[p]: the item p has read or written
  now,       \* now[p]: $now in markAsOutdated(), 0 once it is not to be stored
  owed,      \* processes in a transaction that will outdate the item's tags
  answer,    \* answer[p]: what a get() of p has returned, Unknown before and after
  before,    \* before[p]: items replaced since the change p has still to mark (history)
  recent,    \* recent[p]: items that were current since p's request began (history)
  latest,    \* the latest timestamp ever stored (history)
  raced      \* see Fill, Now, PutStamp, Commit, Rollback, Increment, Kill (history)

shared == <<value, stamp, fast>>
locals == <<pc, memo, got, now, owed, answer>>
history == <<before, recent, latest, raced>>
vars == <<writes, shared, locals, history>>

Contents == 0..MaxWrites
Clock == 0..MaxTime
Times == 0..MaxTime + 1
Marking == {"now", "compare", "put"}
Labels == {"idle", "ready", "fast", "slow", "fill", "commit", "increment"} \cup Marking
Item == [data : Contents \ {None}, created : Clock]
Missing == [data |-> None, created |-> 0]

\* A change of p is in the consistent cache and is not marked yet.
Pending(p) == pc[p] \in Marking /\ p \notin owed
Untimed    == {q \in Procs : pc[q] = "now" /\ q \notin owed}

TypeOK ==
  /\ writes \in 0..MaxWrites
  /\ value \in 0..writes
  /\ stamp \in Times
  /\ fast \in [Servers -> Item \cup {Missing}]
  /\ pc \in [Procs -> Labels]
  /\ memo \in [Procs -> Times \cup {Unknown}]
  /\ got \in [Procs -> Contents]
  /\ now \in [Procs -> Times]
  /\ owed \subseteq {p \in Procs : pc[p] \in Marking \cup {"commit"}}
  /\ \A p \in Procs : pc[p] = "fill" => got[p] # None
  /\ \A p \in Procs : pc[p] \in {"fast", "slow"} => memo[p] # Unknown
  /\ answer \in [Procs -> Contents \cup {Unknown}]
  /\ before \in [Procs -> SUBSET Contents]
  /\ \A p \in Procs : ~Pending(p) => before[p] = {}
  /\ recent \in [Procs -> SUBSET Contents]
  /\ latest \in Times /\ stamp <= latest
  /\ raced \in BOOLEAN

Init ==
  /\ writes = 0
  /\ value = None /\ stamp = 0
  /\ fast = [s \in Servers |-> Missing]
  /\ pc = [p \in Procs |-> "idle"]
  /\ memo = [p \in Procs |-> Unknown]
  /\ got = [p \in Procs |-> None]
  /\ now = [p \in Procs |-> 0] /\ owed = {}
  /\ answer = [p \in Procs |-> Unknown]
  /\ before = [p \in Procs |-> {}]
  /\ recent = [p \in Procs |-> {}]
  /\ latest = 0
  /\ raced = FALSE

Goto(p, label) == pc' = [pc EXCEPT ![p] = label]
Answered(p, v) == answer' = [answer EXCEPT ![p] = v]
Holds(p, v) == got' = [got EXCEPT ![p] = v]

\* Values a request that begins now may be served: the current one, and those
\* replaced since a change that is not marked yet.
Current == {value} \cup UNION {before[q] : q \in Procs}

-----------------------------------------------------------------------------
\* A request begins.
Begin(p) ==
  /\ pc[p] = "idle"
  /\ Goto(p, "ready")
  /\ recent' = [recent EXCEPT ![p] = Current]
  /\ UNCHANGED <<writes, shared, memo, got, now, owed, answer, before, latest, raced>>

\* Mutant of Forget: the timestamp outlives the request, as in a daemon.
ForgetNotMemo(p) ==
  /\ Goto(p, "idle")
  /\ Holds(p, None)
  /\ now' = [now EXCEPT ![p] = 0] /\ owed' = owed \ {p}
  /\ Answered(p, Unknown)
  /\ recent' = [recent EXCEPT ![p] = {}]
  /\ UNCHANGED memo

\* A request is over, and its cache object with it.
Forget(p) ==
  /\ Goto(p, "idle")
  /\ memo' = [memo EXCEPT ![p] = Unknown]
  /\ Holds(p, None)
  /\ now' = [now EXCEPT ![p] = 0] /\ owed' = owed \ {p}
  /\ Answered(p, Unknown)
  /\ recent' = [recent EXCEPT ![p] = {}]

End(p) ==
  /\ pc[p] = "ready"
  /\ Forget(p)
  /\ UNCHANGED <<writes, shared, before, latest, raced>>

-----------------------------------------------------------------------------
(* getMultiple().                                                          *)

\* getLastWriteTimestamp() asks the consistent cache the first time.
LastWrite(p) == IF memo[p] = Unknown THEN stamp ELSE memo[p]

\* A get() begins.
Get(p) ==
  /\ pc[p] = "ready"
  /\ memo' = [memo EXCEPT ![p] = LastWrite(p)]
  /\ Goto(p, IF LastWrite(p) > 0 THEN "fast" ELSE "slow")
  /\ Answered(p, Unknown)
  /\ UNCHANGED <<writes, shared, got, now, owed, history>>

Valid(s, time) == fast[s] # Missing /\ fast[s].created >= time

FastGet(p) ==
  /\ pc[p] = "fast"
  /\ LET s == Host[p] IN
       \/ Valid(s, memo[p]) /\ Answered(p, fast[s].data) /\ Goto(p, "ready")
       \/ ~Valid(s, memo[p]) /\ Goto(p, "slow") /\ UNCHANGED answer
  /\ UNCHANGED <<writes, shared, memo, got, now, owed, history>>

SlowGet(p) ==
  /\ pc[p] = "slow"
  /\ Answered(p, value)
  /\ Holds(p, value)
  /\ Goto(p, IF value = None THEN "ready" ELSE "fill")
  /\ UNCHANGED <<writes, shared, memo, now, owed, history>>

\* fastBackend->set(), after a read or a write.  The race: the item was
\* replaced by a change that has taken its time already.
Fill(p, time) ==
  /\ pc[p] = "fill"
  /\ fast' = [fast EXCEPT ![Host[p]] = [data |-> got[p], created |-> time]]
  /\ Holds(p, None)
  /\ Goto(p, "ready")
  /\ raced' = (raced \/ got[p] \notin {value} \cup UNION {before[q] : q \in Untimed})
  /\ UNCHANGED <<writes, value, stamp, memo, now, owed, answer, before, recent, latest>>

-----------------------------------------------------------------------------
(* Changes: set(), delete(), invalidate() and, with all, deleteAll() and   *)
(* invalidateAll(), which take the timestamp with the rest.                *)

\* The requests there are may be served what value becomes.
Became(v) == recent' = [q \in Procs |-> IF pc[q] = "idle" THEN {} ELSE recent[q] \cup {v}]

\* A transaction that has stored its time keeps the row locked to its end.
Storing(p) == pc[p] = "commit" /\ now[p] > 0
Unlocked   == \A q \in Procs : ~Storing(q)

Change(p, v, all) ==
  /\ pc[p] = "ready" /\ (all => Unlocked)
  /\ writes < MaxWrites
  /\ writes' = writes + 1
  /\ value' = v
  /\ stamp' = IF all THEN 0 ELSE stamp
  /\ Holds(p, v)
  /\ before' = [q \in Procs |-> IF q = p \/ Pending(q) THEN before[q] \cup {value} ELSE {}]
  /\ Became(v)
  /\ Answered(p, Unknown)
  /\ Goto(p, "now")
  /\ UNCHANGED <<fast, memo, now, owed, latest, raced>>

Set(p) == Change(p, writes + 1, FALSE)
Delete(p) == Change(p, None, FALSE)
DeleteAll(p) == Change(p, None, TRUE)

\* Tags are invalidated: their counters are incremented first, which takes the
\* item away if it has one of the tags, and then invalidateTags() only marks.
\* In a transaction the increments are delayed to its end.
InvalidateTags(p) ==
  \/ Change(p, None, FALSE)
  \/ /\ pc[p] = "ready"
     /\ Goto(p, "now")
     /\ owed' \in {owed, owed \cup {p}}
     /\ Answered(p, Unknown)
     /\ UNCHANGED <<writes, shared, memo, got, now, history>>

\* The replaced item is in a fast cache, from a server whose clock was ahead.
Ahead(p, time) ==
  \E s \in Servers : /\ fast[s] # Missing /\ fast[s].data \in before[p]
                     /\ fast[s].created > time

\* Mutant of Now: without the millisecond that is added.
NowExact(p, time) ==
  /\ pc[p] = "now"
  /\ now' = [now EXCEPT ![p] = time]
  /\ Goto(p, "compare")
  /\ raced' = (raced \/ Ahead(p, time))
  /\ UNCHANGED <<writes, shared, memo, got, owed, answer, before, recent, latest>>

\* markAsOutdated(): the time and a millisecond.  The race: another server has
\* stored the item in its fast cache at a time that this clock has yet to reach.
Now(p, time) ==
  /\ pc[p] = "now"
  /\ now' = [now EXCEPT ![p] = time + 1]
  /\ Goto(p, "compare")
  /\ raced' = (raced \/ Ahead(p, time))
  /\ UNCHANGED <<writes, shared, memo, got, owed, answer, before, recent, latest>>

\* Mutant of AfterMark: a deletion stores its item in the fast cache as well.
AfterMarkFills(p) == IF p \in owed THEN "commit" ELSE "fill"

\* set() goes on with the fast cache, a transaction goes on to its end.
AfterMark(p) ==
  IF p \in owed THEN "commit" ELSE IF got[p] = None THEN "ready" ELSE "fill"

Marked(p) == now' = [now EXCEPT ![p] = 0] /\ before' = [before EXCEPT ![p] = {}]

\* The time is compared with the last write that this request knows,
Compare(p) ==
  /\ pc[p] = "compare"
  /\ IF now[p] > LastWrite(p)
       THEN memo' = [memo EXCEPT ![p] = now[p]] /\ Goto(p, "put") /\ UNCHANGED <<now, before>>
       ELSE memo' = [memo EXCEPT ![p] = LastWrite(p)] /\ Goto(p, AfterMark(p)) /\ Marked(p)
  /\ UNCHANGED <<writes, shared, got, owed, answer, recent, latest, raced>>

\* The timestamp becomes p's time, where others can read it.  The race: a later
\* time has been stored already, perhaps by a clock ahead.
Stored(p) ==
  /\ stamp' = now[p]
  /\ latest' = IF now[p] > latest THEN now[p] ELSE latest

\* and stored, in a transaction for the time being only for itself.
PutStamp(p) ==
  /\ pc[p] = "put" /\ Unlocked
  /\ Goto(p, AfterMark(p))
  /\ IF p \in owed THEN UNCHANGED <<stamp, latest, now, before, raced>>
                    ELSE /\ Stored(p) /\ Marked(p)
                         /\ raced' = (raced \/ now[p] < latest)
  /\ UNCHANGED <<writes, value, fast, memo, got, owed, answer, recent>>

\* The transaction commits: the time stored in it is there for all.
Commit(p) ==
  /\ pc[p] = "commit"
  /\ IF Storing(p) THEN Stored(p) ELSE UNCHANGED <<stamp, latest>>
  /\ raced' = (raced \/ (Storing(p) /\ now[p] < latest))
  /\ now' = [now EXCEPT ![p] = 0] /\ owed' = owed \ {p}
  /\ Goto(p, "increment")
  /\ UNCHANGED <<writes, value, fast, memo, got, answer, before, recent>>

\* Or it is rolled back, the time with it.  The race: the request goes on, and
\* takes it for the last write.
Rollback(p) ==
  /\ pc[p] = "commit"
  /\ raced' = (raced \/ Storing(p))
  /\ now' = [now EXCEPT ![p] = 0] /\ owed' = owed \ {p}
  /\ Goto(p, "ready")
  /\ UNCHANGED <<writes, shared, memo, got, answer, before, recent, latest>>

\* The item to be outdated is in a fast cache, as young as the mark.
Young(p) == \E s \in Servers : /\ fast[s] # Missing /\ fast[s].data = value
                                /\ fast[s].created >= memo[p]

\* rootTransactionEndCallback(): the increments of the tags, at last.  The race:
\* the item was stored in a fast cache after the transaction had taken its time.
Increment(p) ==
  /\ pc[p] = "increment"
  /\ value' = None
  /\ before' = [q \in Procs |-> IF Pending(q) THEN before[q] \cup {value} ELSE {}]
  /\ Became(None)
  /\ raced' = (raced \/ Young(p))
  /\ Goto(p, "ready")
  /\ UNCHANGED <<writes, stamp, fast, memo, got, now, owed, answer, latest>>

-----------------------------------------------------------------------------
\* A process is killed; a change that it has not marked stays unmarked.  (What
\* its transaction was to outdate stays current: it is rolled back, or the
\* increments are lost.)
Kill(p) ==
  /\ pc[p] # "idle"
  /\ Forget(p)
  /\ before' = [before EXCEPT ![p] = {}]
  /\ raced' = (raced \/ Pending(p))
  /\ UNCHANGED <<writes, shared, latest>>

\* A fast cache is restarted, or makes room for others.
Evict(s) ==
  /\ fast[s] # Missing
  /\ fast' = [fast EXCEPT ![s] = Missing]
  /\ UNCHANGED <<writes, value, stamp, locals, history>>

Next ==
  \/ \E s \in Servers : Evict(s)
  \/ \E p \in Procs :
       \/ Begin(p) \/ End(p) \/ Kill(p)
       \/ Get(p) \/ FastGet(p) \/ SlowGet(p)
       \/ Set(p) \/ Delete(p) \/ DeleteAll(p) \/ InvalidateTags(p)
       \/ \E time \in Clock : Fill(p, time) \/ Now(p, time)
       \/ Compare(p) \/ PutStamp(p) \/ Commit(p) \/ Rollback(p) \/ Increment(p)

Spec == Init /\ [][Next]_vars

-----------------------------------------------------------------------------
(* Properties.                                                             *)

\* When no change is under way, an item of a fast cache that the timestamp lets
\* through is the one in the consistent cache, whatever the servers' clocks
\* show: outdated items get through only by one of the races of Fill, Now,
\* PutStamp, Commit, Rollback, Increment and Kill.
Fresh ==
  ~raced /\ stamp > 0 /\ (\A p \in Procs : ~Pending(p)) =>
    \A s \in Servers : Valid(s, stamp) => fast[s].data = value

\* And what a get() returns was current at some time since its request began,
\* or was replaced by a change that had not been marked by then.
Recent ==
  ~raced => \A p \in Procs : pc[p] # "idle" => answer[p] \in recent[p] \cup {Unknown}
=============================================================================
