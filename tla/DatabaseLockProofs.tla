------------------------- MODULE DatabaseLockProofs -------------------------
(***************************************************************************)
(* Proofs about DatabaseLock, for any requests, names, timeouts and bounds.*)
(***************************************************************************)
EXTENDS DatabaseLock, TLAPS

\* A call's local variables: an INSERT or a renewal belongs to an acquire(),
\* whose expiry is not 0.
CallsSane ==
  \A p \in Requests :
    /\ pc[p] \in {"renew", "insert", "create"} => call[p].op = "acquire"
    /\ call[p].op = "acquire" => call[p].expire > 0

\* A request that runs no more, or is in releaseAll(), has emptied
\* $this->locks; one in release() has taken the name out.
ReleasedFirst ==
  \A p \in Requests :
    /\ pc[p] \in Gone \cup {"purge"} => locks[p] = {}
    /\ pc[p] = "release" => call[p].name \notin locks[p]

\* A request that runs knows of its rows, but for the one it is releasing.
OwnRowsKnown ==
  \A p \in Requests, n \in Names :
    pc[p] \in Running /\ HasRow(p, n)
      => \/ n \in locks[p]
         \/ pc[p] = "release" /\ n = call[p].name

\* A row is of the request that inserted last.
RowIsLast == \A n \in Names : semaphore[n].value \in {None, last[n]}

\* A lock in $this->locks has been granted to some instant.
GrantsSane ==
  \A p \in Requests : \A n \in locks[p] : granted[p][n] > 0

IInv ==
  /\ TypeOK
  /\ GrantsSane
  /\ CallsSane
  /\ ReleasedFirst
  /\ OwnRowsKnown
  /\ RowIsLast
  /\ LeaseBacked

Assumptions ==
  /\ None \notin Requests
  /\ Names # {}
  /\ Timeouts \subseteq Nat
  /\ MaxTime \in Nat
  /\ Polls \in Nat

LEMMA ConstantsOK == Assumptions
  BY RequestsAssumption, NamesAssumption, TimeoutsAssumption, BoundsAssumption
     DEF Assumptions

LEMMA RowTyped == NoRow \in Row /\ NoRow.value = None
  BY ConstantsOK DEF Assumptions, NoRow, Row

LEMMA NewCallTyped ==
  ASSUME NEW op \in {"none", "acquire", "release", "available", "wait"},
         NEW n \in Names, NEW e \in 0..MaxTime, NEW k \in 0..Polls
  PROVE  /\ NewCall(op, n, e, k) \in Call
         /\ NewCall(op, n, e, k).op = op
         /\ NewCall(op, n, e, k).name = n
         /\ NewCall(op, n, e, k).expire = e
  BY RowTyped DEF NewCall, Call

LEMMA NoCallTyped == NoCall \in Call /\ NoCall.op = "none"
  <1>1. (CHOOSE n \in Names : TRUE) \in Names
    BY ConstantsOK DEF Assumptions
  <1>2. 0 \in 0..MaxTime /\ 0 \in 0..Polls
    BY ConstantsOK DEF Assumptions
  <1> QED
    BY <1>1, <1>2, NewCallTyped DEF NoCall

LEMMA CallChanges ==
  ASSUME NEW c \in Call
  PROVE  /\ [c EXCEPT !.retry = TRUE] \in Call
         /\ \A r \in Row : [c EXCEPT !.read = r] \in Call
         /\ [c EXCEPT !.retry = TRUE, !.read = NoRow] \in Call
         /\ c.left # 0 => [c EXCEPT !.left = c.left - 1] \in Call
  <1>1. c.left \in 0..Polls
    BY DEF Call
  <1>2. c.left # 0 => c.left - 1 \in 0..Polls
    BY <1>1, ConstantsOK DEF Assumptions
  <1>3. [c EXCEPT !.retry = TRUE] \in Call
    BY DEF Call
  <1>4. \A r \in Row : [c EXCEPT !.read = r] \in Call
    BY DEF Call
  <1>5. [c EXCEPT !.retry = TRUE, !.read = NoRow] \in Call
    BY RowTyped DEF Call
  <1>6. c.left # 0 => [c EXCEPT !.left = c.left - 1] \in Call
    BY <1>2 DEF Call
  <1> QED
    BY <1>3, <1>4, <1>5, <1>6
-----------------------------------------------------------------------------
LEMMA InitIInv == Init => IInv
  <1> SUFFICES ASSUME Init PROVE IInv
    OBVIOUS
  <1>1. TypeOK
    <2>1. 0 \in 0..MaxTime
      BY ConstantsOK DEF Assumptions
    <2>2. \A n \in Names : semaphore[n] = NoRow
      BY DEF Init
    <2>3. semaphore \in [Names -> Row]
      BY RowTyped DEF Init
    <2>4. call \in [Requests -> Call]
      BY NoCallTyped DEF Init
    <2> QED
      BY <2>1, <2>2, <2>3, <2>4, RowTyped DEF Init, TypeOK, Running
  <1>2. CallsSane
    BY NoCallTyped DEF Init, CallsSane
  <1>3. GrantsSane /\ ReleasedFirst /\ OwnRowsKnown /\ RowIsLast /\ LeaseBacked
    BY ConstantsOK DEF Init, GrantsSane, ReleasedFirst, OwnRowsKnown, RowIsLast,
       LeaseBacked, Holds, HasRow, NoRow, Gone, Assumptions
  <1> QED
    BY <1>1, <1>2, <1>3 DEF IInv

\* Each action but Tick leaves one request's call typed.
LEMMA CallTypeStep ==
  ASSUME TypeOK, CallsSane, NEW p \in Requests, Start(p) \/ Step(p) \/ End(p)
  PROVE  call' \in [Requests -> Call] /\ CallsSane'
  <1>1. /\ call \in [Requests -> Call] /\ call[p] \in Call
        /\ pc \in [Requests -> Running \cup Gone \cup {"purge"}]
        /\ now \in 0..MaxTime
        /\ 0 \in 0..MaxTime /\ 0 \in 0..Polls /\ Polls \in 0..Polls
    BY ConstantsOK DEF TypeOK, Assumptions
  <1> USE DEF CallsSane, Goto
  <1>2. CASE Return(p) /\ pc' = [pc EXCEPT ![p] = "idle"]
    BY <1>1, <1>2, NoCallTyped DEF Return
  <1>3. CASE call' = [call EXCEPT ![p] = NoCall]
             /\ \E l \in Gone \cup {"purge"} : Goto(p, l)
    BY <1>1, <1>3, NoCallTyped DEF Gone
  <1>4. CASE UNCHANGED call /\ \E l \in {"create", "select", "check", "ended"} :
                                 /\ Goto(p, l)
                                 /\ l = "create" => pc[p] = "insert"
    BY <1>1, <1>4
  <1>5. CASE Available(p)
    <2>1. CASE call[p].op = "acquire"
      <3>1. [call[p] EXCEPT !.retry = TRUE, !.read = NoRow] \in Call
        BY <1>1, CallChanges
      <3>2. call' = [call EXCEPT ![p] =
                       [call[p] EXCEPT !.retry = TRUE, !.read = NoRow]]
        BY <1>1, <1>5, <2>1 DEF Available
      <3> QED
        BY <1>1, <1>5, <2>1, <3>1, <3>2 DEF Available, Call
    <2>2. CASE call[p].op # "acquire"
      BY <1>2, <1>5, <2>2 DEF Available, Return
    <2> QED
      BY <2>1, <2>2
  <1>6. CASE Unavailable(p)
    <2>1. CASE call[p].op = "wait"
      <3>1. [call[p] EXCEPT !.read = NoRow] \in Call
        BY <1>1, CallChanges, RowTyped
      <3> QED
        BY <1>1, <1>6, <2>1, <3>1 DEF Unavailable, Call
    <2>2. CASE call[p].op # "wait"
      BY <1>2, <1>6, <2>2 DEF Unavailable, Return
    <2> QED
      BY <2>1, <2>2
  <1>7. ASSUME Start(p)
        PROVE  call' \in [Requests -> Call] /\ CallsSane'
    <2>1. ASSUME NEW n \in Names, NEW t \in Timeouts, Acquire(p, n, t)
          PROVE  call' \in [Requests -> Call] /\ CallsSane'
      <3>1. now + Lifetime(t) \in 0..MaxTime /\ now + Lifetime(t) > 0
        BY <1>1, <2>1, ConstantsOK DEF Acquire, Lifetime, Assumptions
      <3>2. NewCall("acquire", n, now + Lifetime(t), 0) \in Call
        BY <1>1, <3>1, NewCallTyped
      <3>3. NewCall("acquire", n, now + Lifetime(t), 0).op = "acquire"
            /\ NewCall("acquire", n, now + Lifetime(t), 0).expire > 0
        BY <3>1 DEF NewCall
      <3> QED
        BY <1>1, <2>1, <3>2, <3>3 DEF Acquire
    <2>2. ASSUME NEW n \in Names, MayBeAvailable(p, n)
          PROVE  call' \in [Requests -> Call] /\ CallsSane'
      <3>1. NewCall("available", n, 0, 0) \in Call
            /\ NewCall("available", n, 0, 0).op = "available"
        BY <1>1, NewCallTyped
      <3> QED
        BY <1>1, <2>2, <3>1 DEF MayBeAvailable
    <2>3. ASSUME NEW n \in Names, Wait(p, n)
          PROVE  call' \in [Requests -> Call] /\ CallsSane'
      <3>1. NewCall("wait", n, 0, Polls) \in Call
            /\ NewCall("wait", n, 0, Polls).op = "wait"
        BY <1>1, NewCallTyped
      <3> QED
        BY <1>1, <2>3, <3>1 DEF Wait
    <2>4. ASSUME NEW n \in Names, Release(p, n)
          PROVE  call' \in [Requests -> Call] /\ CallsSane'
      <3>1. NewCall("release", n, 0, 0) \in Call
            /\ NewCall("release", n, 0, 0).op = "release"
        BY <1>1, NewCallTyped
      <3> QED
        BY <1>1, <2>4, <3>1 DEF Release
    <2> QED
      BY <1>7, <2>1, <2>2, <2>3, <2>4 DEF Start
  <1>8. ASSUME Step(p)
        PROVE  call' \in [Requests -> Call] /\ CallsSane'
    <2>1. CASE Renew(p) \/ RenewBroken(p) \/ InsertRow(p) \/ ReleaseRow(p)
      BY <1>2, <2>1 DEF Renew, RenewBroken, InsertRow, ReleaseRow, Return
    <2>2. CASE InsertDuplicate(p) \/ InsertNoTable(p)
      BY <1>2, <1>4, <2>2 DEF InsertDuplicate, InsertNoTable, Return
    <2>3. CASE CreateTable(p)
      <3>1. [call[p] EXCEPT !.retry = TRUE] \in Call
        BY <1>1, CallChanges
      <3>2. CASE call[p].retry
        BY <1>2, <2>3, <3>2 DEF CreateTable, Return
      <3>3. CASE ~call[p].retry
        <4>1. /\ [call[p] EXCEPT !.retry = TRUE].op = call[p].op
              /\ [call[p] EXCEPT !.retry = TRUE].expire = call[p].expire
          BY <1>1 DEF Call
        <4>2. /\ call' = [call EXCEPT ![p] = [call[p] EXCEPT !.retry = TRUE]]
              /\ pc' = [pc EXCEPT ![p] = "insert"]
              /\ call[p].op = "acquire"
          BY <1>1, <2>3, <3>3 DEF CreateTable
        <4> QED
          BY <1>1, <3>1, <4>1, <4>2
      <3> QED
        BY <3>2, <3>3
    <2>4. CASE SelectRow(p)
      <3>1. semaphore[call[p].name] \in Row
        BY <1>1 DEF TypeOK, Call
      <3>2. [call[p] EXCEPT !.read = semaphore[call[p].name]] \in Call
        BY <1>1, <3>1, CallChanges
      <3> QED
        BY <1>1, <2>4, <3>2 DEF SelectRow, Call
    <2>5. CASE SelectNoRow(p) \/ SelectNoTable(p) \/ CheckTable(p)
      BY <1>2, <1>4, <1>5, <2>5
         DEF SelectNoRow, SelectNoTable, CheckTable, Return
    <2>6. CASE NotExpired(p) \/ DeleteExpired(p)
      BY <1>5, <1>6, <2>6 DEF NotExpired, DeleteExpired
    <2>7. CASE Poll(p)
      <3>1. CASE call[p].left = 0
        BY <1>2, <2>7, <3>1 DEF Poll, Return
      <3>2. CASE call[p].left # 0
        <4>1. [call[p] EXCEPT !.left = call[p].left - 1] \in Call
          BY <1>1, <3>2, CallChanges
        <4> QED
          BY <1>1, <2>7, <3>2, <4>1 DEF Poll, Call
      <3> QED
        BY <3>1, <3>2
    <2>8. CASE Purge(p)
      BY <1>4, <2>8 DEF Purge
    <2> QED
      BY <1>8, <2>1, <2>2, <2>3, <2>4, <2>5, <2>6, <2>7, <2>8 DEF Step
  <1>9. CASE End(p)
    BY <1>3, <1>9 DEF End, InsertCut, Shutdown, Crash, Gone
  <1> QED
    BY <1>7, <1>8, <1>9

LEMMA TypeStep == TypeOK /\ CallsSane /\ [Next]_vars => TypeOK' /\ CallsSane'
  <1> SUFFICES ASSUME TypeOK, CallsSane, [Next]_vars
               PROVE  TypeOK' /\ CallsSane'
    OBVIOUS
  <1>1. CASE UNCHANGED vars
    BY <1>1 DEF vars, TypeOK, CallsSane
  <1>2. CASE Tick
    BY <1>2, ConstantsOK DEF Tick, TypeOK, CallsSane, Assumptions
  <1>3. ASSUME NEW p \in Requests, Start(p) \/ Step(p) \/ End(p)
        PROVE  TypeOK' /\ CallsSane'
    <2>1. call' \in [Requests -> Call] /\ CallsSane'
      BY <1>3, CallTypeStep
    <2>2. /\ call[p] \in Call /\ call[p].name \in Names
          /\ call[p].expire \in 0..MaxTime
      BY DEF TypeOK, Call
    <2>3. pc' \in [Requests -> Running \cup Gone \cup {"purge"}]
      BY <1>3 DEF TypeOK, Goto, Return, Available, Unavailable, Running, Gone,
         Start, Acquire, MayBeAvailable, Wait, Release, Step, Renew,
         RenewBroken, InsertRow, InsertDuplicate, InsertNoTable, CreateTable,
         SelectRow, SelectNoRow, SelectNoTable, CheckTable, NotExpired,
         DeleteExpired, Poll, ReleaseRow, Purge, End, InsertCut, Shutdown,
         Crash
    <2>4. /\ now' \in 0..MaxTime /\ table' \in BOOLEAN
          /\ locks' \in [Requests -> SUBSET Names]
          /\ granted' \in [Requests -> [Names -> 0..MaxTime]]
          /\ last' \in [Names -> Requests \cup {None}]
      <3>1. CASE UNCHANGED <<now, table, locks, granted, last>>
        BY <3>1 DEF TypeOK
      <3> DEFINE g == [granted[p] EXCEPT ![call[p].name] = call[p].expire]
      <3>5. [granted EXCEPT ![p] = g] \in [Requests -> [Names -> 0..MaxTime]]
        <4>1. granted[p] \in [Names -> 0..MaxTime]
          BY DEF TypeOK
        <4>2. g \in [Names -> 0..MaxTime]
          BY <2>2, <4>1
        <4> HIDE DEF g
        <4> QED
          BY <4>2 DEF TypeOK
      <3>6. CASE CreateTable(p) \/ RenewBroken(p)
        BY <3>6 DEF TypeOK, CreateTable, RenewBroken
      <3>2. CASE Renew(p)
        BY <3>5, <3>2 DEF TypeOK, Renew
      <3>3. CASE InsertRow(p) \/ InsertCut(p)
        <4>1. /\ last' = [last EXCEPT ![call[p].name] = p]
              /\ UNCHANGED <<now, table>>
          BY <3>3 DEF InsertRow, InsertCut
        <4>2. last' \in [Names -> Requests \cup {None}]
          BY <2>2, <4>1 DEF TypeOK
        <4>3. granted' \in [Requests -> [Names -> 0..MaxTime]]
          BY <3>5, <3>3 DEF InsertRow, InsertCut, TypeOK
        <4>4. locks' \in [Requests -> SUBSET Names]
          <5>1. /\ locks \in [Requests -> SUBSET Names]
                /\ locks[p] \cup {call[p].name} \in SUBSET Names
            BY <2>2 DEF TypeOK
          <5>2. \/ locks' = [locks EXCEPT ![p] = {}]
                \/ locks' = [locks EXCEPT ![p] = locks[p] \cup {call[p].name}]
            BY <3>3 DEF InsertRow, InsertCut
          <5> QED
            BY <5>1, <5>2
        <4> QED
          BY <4>1, <4>2, <4>3, <4>4 DEF TypeOK
      <3>4. CASE Shutdown(p) \/ Crash(p) \/ \E n \in Names : Release(p, n)
        BY <3>4 DEF TypeOK, Shutdown, Crash, Release
      <3> QED
        BY <1>3, <3>1, <3>6, <3>2, <3>3, <3>4 DEF Start, Acquire,
           MayBeAvailable, Wait, Step, InsertDuplicate, InsertNoTable, SelectRow, SelectNoRow,
           SelectNoTable, CheckTable, NotExpired, DeleteExpired, Poll,
           ReleaseRow, Purge, End
    <2>5. /\ semaphore' \in [Names -> Row]
          /\ \A n \in Names :
               semaphore'[n].value # None => semaphore'[n].expire > 0
      <3> DEFINE r == [value |-> p, expire |-> call[p].expire]
      <3>1. r \in Row /\ r.expire = call[p].expire
        BY <2>2 DEF Row
      <3>2. CASE InsertRow(p) \/ InsertCut(p)
        <4>1. /\ semaphore' = [semaphore EXCEPT ![call[p].name] = r]
              /\ call[p].expire > 0
          BY <3>2 DEF InsertRow, InsertCut, CallsSane
        <4> HIDE DEF r
        <4> QED
          BY <2>2, <3>1, <4>1 DEF TypeOK
      <3>3. CASE Renew(p)
        <4>1. /\ semaphore' = [semaphore EXCEPT ![call[p].name] = r]
              /\ call[p].expire > 0
          <5>1. semaphore[call[p].name] \in Row
            BY <2>2 DEF TypeOK
          <5>2. [semaphore[call[p].name] EXCEPT !.expire = call[p].expire] = r
            BY <3>3, <5>1 DEF Renew, HasRow, Row
          <5>3. semaphore' = [semaphore EXCEPT ![call[p].name] =
                  [semaphore[call[p].name] EXCEPT !.expire = call[p].expire]]
            BY <3>3 DEF Renew
          <5> HIDE DEF r
          <5> QED
            BY <3>3, <5>2, <5>3 DEF Renew, CallsSane
        <4> HIDE DEF r
        <4> QED
          BY <2>2, <3>1, <4>1 DEF TypeOK
      <3>4. CASE \/ UNCHANGED semaphore
                 \/ semaphore' = [semaphore EXCEPT ![call[p].name] = NoRow]
                 \/ Purge(p)
        BY <2>2, <3>4, RowTyped DEF TypeOK, Purge
      <3> QED
        BY <1>3, <3>2, <3>3, <3>4 DEF Start, Acquire, MayBeAvailable, Wait,
           Release, Step, RenewBroken, InsertDuplicate, InsertNoTable,
           CreateTable, SelectRow, SelectNoRow, SelectNoTable, CheckTable,
           NotExpired, DeleteExpired, Poll, ReleaseRow, End, Shutdown, Crash
    <2> QED
      BY <2>1, <2>3, <2>4, <2>5 DEF TypeOK
  <1> QED
    BY <1>1, <1>2, <1>3 DEF Next

-----------------------------------------------------------------------------
(* What the other parts of the invariant need to know of an action.        *)

LEMMA ReleasedFirstStep == IInv /\ [Next]_vars => ReleasedFirst'
  <1> SUFFICES ASSUME IInv, [Next]_vars PROVE ReleasedFirst'
    OBVIOUS
  <1> USE DEF IInv, TypeOK, ReleasedFirst, Gone
  <1>1. CASE UNCHANGED vars \/ Tick
    BY <1>1 DEF vars, Tick
  <1>2. ASSUME NEW p \in Requests, Start(p)
        PROVE  ReleasedFirst'
    <2>1. ASSUME NEW n \in Names, NEW t \in Timeouts, Acquire(p, n, t)
          PROVE  ReleasedFirst'
      BY <2>1 DEF Acquire, Goto
    <2>2. ASSUME NEW n \in Names, MayBeAvailable(p, n) \/ Wait(p, n)
          PROVE  ReleasedFirst'
      BY <2>2 DEF MayBeAvailable, Wait, Goto
    <2>3. ASSUME NEW n \in Names, Release(p, n)
          PROVE  ReleasedFirst'
      <3>1. NewCall("release", n, 0, 0).name = n
        BY DEF NewCall
      <3> QED
        BY <2>3, <3>1 DEF Release, Goto
    <2> QED
      BY <1>2, <2>1, <2>2, <2>3 DEF Start
  <1>3. ASSUME NEW p \in Requests, Step(p)
        PROVE  ReleasedFirst'
    <2>1. CASE UNCHANGED locks /\ ~Purge(p)
      BY <1>3, <2>1 DEF Step, Renew, RenewBroken, InsertRow, InsertDuplicate,
         InsertNoTable, CreateTable, SelectRow, SelectNoRow, SelectNoTable,
         CheckTable, NotExpired, DeleteExpired, Poll, ReleaseRow, Available,
         Unavailable, Goto, Return
    <2>2. CASE RenewBroken(p) \/ InsertRow(p)
      BY <2>2 DEF RenewBroken, InsertRow, Goto, Return
    <2>3. CASE Purge(p)
      BY <2>3 DEF Purge, Goto
    <2> QED
      BY <1>3, <2>1, <2>2, <2>3 DEF Step, Renew, InsertDuplicate,
         InsertNoTable, CreateTable, SelectRow, SelectNoRow, SelectNoTable,
         CheckTable, NotExpired, DeleteExpired, Poll, ReleaseRow
  <1>4. ASSUME NEW p \in Requests, End(p)
        PROVE  ReleasedFirst'
    BY <1>4 DEF End, InsertCut, Shutdown, Crash, Goto
  <1> QED
    BY <1>1, <1>2, <1>3, <1>4 DEF Next

\* An action of one request changes nothing of another's.
LEMMA Frame ==
  ASSUME TypeOK, NEW p \in Requests, Start(p) \/ Step(p) \/ End(p),
         NEW q \in Requests \ {p}
  PROVE  /\ pc'[q] = pc[q] /\ call'[q] = call[q]
         /\ locks'[q] = locks[q] /\ granted'[q] = granted[q]
         /\ now' = now
  <1> USE DEF TypeOK, Goto, Return
  <1>1. CASE Start(p)
    BY <1>1 DEF Start, Acquire, MayBeAvailable, Wait, Release
  <1>2. CASE Step(p)
    <2>1. CASE Renew(p) \/ RenewBroken(p) \/ InsertRow(p) \/ ReleaseRow(p)
               \/ Purge(p)
      BY <2>1 DEF Renew, RenewBroken, InsertRow, ReleaseRow, Purge
    <2>2. CASE InsertDuplicate(p) \/ InsertNoTable(p) \/ CreateTable(p)
      BY <2>2 DEF InsertDuplicate, InsertNoTable, CreateTable
    <2>3. CASE SelectRow(p) \/ SelectNoRow(p) \/ SelectNoTable(p)
               \/ CheckTable(p)
      BY <2>3 DEF SelectRow, SelectNoRow, SelectNoTable, CheckTable, Available
    <2>4. CASE NotExpired(p) \/ DeleteExpired(p) \/ Poll(p)
      BY <2>4 DEF NotExpired, DeleteExpired, Poll, Available, Unavailable
    <2> QED
      BY <1>2, <2>1, <2>2, <2>3, <2>4 DEF Step
  <1>3. CASE End(p)
    BY <1>3 DEF End, InsertCut, Shutdown, Crash
  <1> QED
    BY <1>1, <1>2, <1>3

\* An action of request p changes only rows that are its own, new, or expired
\* for good; what it writes is its own row or none.
LEMMA RowFrame ==
  ASSUME TypeOK, NEW p \in Requests, Start(p) \/ Step(p) \/ End(p),
         NEW n \in Names, semaphore'[n] # semaphore[n]
  PROVE  /\ semaphore'[n].value \in {p, None}
         /\ \/ semaphore[n].value = p /\ semaphore'[n].value = p /\ Renew(p)
            \/ semaphore[n].value = p /\ pc[p] \in {"release", "purge"}
            \/ semaphore[n].value = None
            \/ now > semaphore[n].expire /\ semaphore'[n].value = None
  <1>1. /\ call[p].name \in Names /\ call[p].read.expire \in Nat
        /\ semaphore[n].expire \in Nat /\ now \in Nat
    BY ConstantsOK DEF TypeOK, Call, Row, Assumptions
  <1> USE DEF TypeOK, HasRow
  <1>2. CASE Renew(p)
    BY <1>1, <1>2 DEF Renew
  <1>3. CASE InsertRow(p) \/ InsertCut(p)
    BY <1>1, <1>3 DEF InsertRow, InsertCut
  <1>4. CASE DeleteExpired(p)
    BY <1>1, <1>4, RowTyped DEF DeleteExpired
  <1>5. CASE ReleaseRow(p)
    BY <1>1, <1>5, RowTyped DEF ReleaseRow
  <1>6. CASE Purge(p)
    BY <1>6, RowTyped DEF Purge
  <1> QED
    BY <1>2, <1>3, <1>4, <1>5, <1>6 DEF Start, Acquire, MayBeAvailable, Wait,
       Release, Step, RenewBroken, InsertDuplicate, InsertNoTable,
       CreateTable, SelectRow, SelectNoRow, SelectNoTable, CheckTable,
       NotExpired, Poll, End, Shutdown, Crash

LEMMA OwnRowsStep == IInv /\ [Next]_vars => OwnRowsKnown'
  <1> SUFFICES ASSUME IInv, [Next]_vars PROVE OwnRowsKnown'
    OBVIOUS
  <1> USE DEF OwnRowsKnown, HasRow
  <1>1. CASE UNCHANGED vars \/ Tick
    BY <1>1 DEF IInv, vars, Tick
  <1>2. ASSUME NEW p \in Requests, Start(p) \/ Step(p) \/ End(p)
        PROVE  OwnRowsKnown'
    <2> SUFFICES ASSUME NEW q \in Requests, NEW n \in Names,
                        pc'[q] \in Running, semaphore'[n].value = q
                 PROVE  \/ n \in locks'[q]
                        \/ pc'[q] = "release" /\ n = call'[q].name
      OBVIOUS
    <2>1. CASE q # p
      BY <1>2, <2>1, Frame, RowFrame, ConstantsOK DEF IInv, Assumptions
    <2>2. CASE q = p /\ semaphore[n].value = p /\ pc[p] \in Running
      <3> USE DEF IInv, TypeOK, Goto, Return, Running
      <3>1. \/ n \in locks[p]
            \/ pc[p] = "release" /\ n = call[p].name
        BY <2>2
      <3>2. CASE pc[p] = "release"
        <4>1. ReleaseRow(p) \/ Shutdown(p) \/ Crash(p)
          BY <1>2, <3>2 DEF Start, Acquire, MayBeAvailable, Wait, Release,
             Step, Renew, RenewBroken, InsertRow, InsertDuplicate,
             InsertNoTable, CreateTable, SelectRow, SelectNoRow,
             SelectNoTable, CheckTable, NotExpired, DeleteExpired, Poll,
             Purge, End, InsertCut
        <4>2. CASE ReleaseRow(p)
          BY <2>2, <3>1, <4>2, RowTyped, ConstantsOK
             DEF ReleaseRow, Assumptions
        <4>3. CASE Shutdown(p) \/ Crash(p)
          BY <2>2, <4>3 DEF Shutdown, Crash, Gone
        <4> QED
          BY <4>1, <4>2, <4>3
      <3>3. CASE UNCHANGED locks /\ n \in locks[p]
        BY <2>2, <3>3
      <3>4. ASSUME NEW m \in Names, Release(p, m)
            PROVE  \/ n \in locks'[q]
                   \/ pc'[q] = "release" /\ n = call'[q].name
        <4>1. NewCall("release", m, 0, 0).name = m
          BY DEF NewCall
        <4> QED
          BY <2>2, <3>1, <3>4, <4>1 DEF Release
      <3>5. CASE RenewBroken(p) \/ InsertRow(p)
        BY <2>2, <3>1, <3>5 DEF RenewBroken, InsertRow
      <3>6. CASE End(p)
        BY <2>2, <3>6 DEF End, InsertCut, Shutdown, Crash, Gone
      <3>7. CASE Purge(p)
        BY <2>2, <3>7 DEF Purge
      <3> QED
        BY <1>2, <3>1, <3>2, <3>3, <3>4, <3>5, <3>6, <3>7 DEF Start, Acquire,
           MayBeAvailable, Wait, Step, Renew, InsertDuplicate, InsertNoTable,
           CreateTable, SelectRow, SelectNoRow, SelectNoTable, CheckTable,
           NotExpired, DeleteExpired, Poll, ReleaseRow
    <2>3. CASE q = p /\ semaphore[n].value = p /\ pc[p] \notin Running
      <3>1. Purge(p) \/ Crash(p)
        BY <1>2, <2>3 DEF Start, Acquire, MayBeAvailable, Wait, Release, Step,
           Renew, RenewBroken, InsertRow, InsertDuplicate, InsertNoTable,
           CreateTable, SelectRow, SelectNoRow, SelectNoTable, CheckTable,
           NotExpired, DeleteExpired, Poll, ReleaseRow, End, InsertCut,
           Shutdown, Running
      <3> QED
        BY <2>3, <3>1 DEF Purge, Crash, Goto, IInv, TypeOK, Running
    <2>4. CASE q = p /\ semaphore[n].value # p
      <3>1. InsertRow(p) \/ InsertCut(p)
        <4>1. semaphore'[n] # semaphore[n] /\ semaphore'[n].value # None
          BY <2>4, ConstantsOK DEF Assumptions
        <4> QED
          BY <1>2, <2>4, <4>1, RowFrame, RowTyped DEF IInv, TypeOK, Renew,
             DeleteExpired, ReleaseRow, Purge, Start, Acquire,
             MayBeAvailable, Wait, Release, Step, RenewBroken,
             InsertDuplicate, InsertNoTable, CreateTable, SelectRow,
             SelectNoRow, SelectNoTable, CheckTable, NotExpired, Poll, End,
             Shutdown, Crash
      <3>2. CASE InsertRow(p)
        BY <2>4, <3>2 DEF InsertRow, IInv, TypeOK
      <3>3. CASE InsertCut(p)
        BY <2>4, <3>3 DEF InsertCut, Goto, IInv, TypeOK, Running
      <3> QED
        BY <3>1, <3>2, <3>3
    <2> QED
      BY <2>1, <2>2, <2>3, <2>4
  <1> QED
    BY <1>1, <1>2 DEF Next

LEMMA RowIsLastStep == IInv /\ [Next]_vars => RowIsLast'
  <1> SUFFICES ASSUME IInv, [Next]_vars PROVE RowIsLast'
    OBVIOUS
  <1> USE DEF RowIsLast
  <1>1. CASE UNCHANGED <<semaphore, last>>
    BY <1>1 DEF IInv
  <1>2. ASSUME NEW p \in Requests,
               \/ Renew(p) \/ InsertRow(p) \/ InsertCut(p)
               \/ DeleteExpired(p) \/ ReleaseRow(p) \/ Purge(p)
        PROVE  RowIsLast'
    <2>1. CASE InsertRow(p) \/ InsertCut(p)
      BY <2>1 DEF IInv, TypeOK, InsertRow, InsertCut
    <2>2. CASE Renew(p)
      BY <2>2 DEF IInv, TypeOK, Renew
    <2>3. CASE DeleteExpired(p) \/ ReleaseRow(p) \/ Purge(p)
      BY <2>3, RowTyped DEF IInv, TypeOK, DeleteExpired, ReleaseRow, Purge
    <2> QED
      BY <1>2, <2>1, <2>2, <2>3
  <1> QED
    BY <1>1, <1>2 DEF Next, vars, Tick, Start, Acquire, MayBeAvailable, Wait,
       Release, Step, RenewBroken, InsertDuplicate, InsertNoTable,
       CreateTable, SelectRow, SelectNoRow, SelectNoTable, CheckTable,
       NotExpired, Poll, End, Shutdown, Crash

LEMMA LeaseBackedStep == IInv /\ [Next]_vars => LeaseBacked'
  <1> SUFFICES ASSUME IInv, [Next]_vars PROVE LeaseBacked'
    OBVIOUS
  <1>1. CASE UNCHANGED vars
    BY <1>1 DEF IInv, vars, LeaseBacked, Holds
  <1>2. CASE Tick
    BY <1>2, ConstantsOK DEF IInv, TypeOK, Tick, LeaseBacked, Holds,
       Assumptions
  <1>3. ASSUME NEW p \in Requests, Start(p) \/ Step(p) \/ End(p)
        PROVE  LeaseBacked'
    <2> SUFFICES ASSUME NEW q \in Requests, NEW n \in Names,
                        n \in locks'[q], now' <= granted'[q][n]
                 PROVE  semaphore'[n] = [value |-> q, expire |-> granted'[q][n]]
      BY DEF LeaseBacked, Holds
    <2>1. now' = now
      BY <1>3 DEF Start, Acquire, MayBeAvailable, Wait, Release, Step, Renew,
         RenewBroken, InsertRow, InsertDuplicate, InsertNoTable, CreateTable,
         SelectRow, SelectNoRow, SelectNoTable, CheckTable, NotExpired,
         DeleteExpired, Poll, ReleaseRow, Purge, End, InsertCut, Shutdown,
         Crash
    <2>2. ASSUME Holds(q, n), UNCHANGED <<granted[q][n]>>,
                 q = p => pc[p] \notin {"release", "purge"} /\ ~Renew(p)
          PROVE  semaphore'[n] = [value |-> q, expire |-> granted'[q][n]]
      <3>1. semaphore[n] = [value |-> q, expire |-> granted[q][n]]
        BY <2>2 DEF IInv, LeaseBacked
      <3>2. semaphore[n].value = q /\ ~(now > semaphore[n].expire)
        BY <2>2, <3>1, ConstantsOK DEF Holds, IInv, TypeOK, Assumptions
      <3>3. semaphore'[n] = semaphore[n]
        BY <1>3, <2>2, <3>2, RowFrame, ConstantsOK DEF IInv, Assumptions
      <3> QED
        BY <2>2, <3>1, <3>3
    <2>3. CASE q # p
      BY <1>3, <2>1, <2>2, <2>3, Frame DEF IInv, Holds
    <2>4. CASE q = p /\ InsertRow(p)
      <3>1. CASE n = call[p].name
        BY <2>4, <3>1 DEF InsertRow, IInv, TypeOK
      <3>2. CASE n # call[p].name
        BY <2>1, <2>2, <2>4, <3>2 DEF InsertRow, Renew, IInv, TypeOK, Holds
      <3> QED
        BY <3>1, <3>2
    <2>5. CASE q = p /\ Renew(p)
      <3>1. CASE n = call[p].name
        <4>1. semaphore[n] \in Row /\ semaphore[n].value = p
          BY <2>5, <3>1 DEF Renew, HasRow, IInv, TypeOK
        <4>2. granted'[p][n] = call[p].expire
          BY <2>5, <3>1 DEF Renew, IInv, TypeOK
        <4>3. semaphore'[n] = [semaphore[n] EXCEPT !.expire = call[p].expire]
          BY <2>5, <3>1 DEF Renew, IInv, TypeOK
        <4>4. [semaphore[n] EXCEPT !.expire = call[p].expire]
                = [value |-> p, expire |-> call[p].expire]
          BY <4>1 DEF Row
        <4> QED
          BY <2>5, <4>2, <4>3, <4>4
      <3>2. CASE n # call[p].name
        <4>1. semaphore'[n] = semaphore[n] /\ granted'[p][n] = granted[p][n]
          BY <2>5, <3>2 DEF Renew, IInv, TypeOK
        <4>2. Holds(p, n)
          BY <2>1, <2>5, <4>1 DEF Renew, Holds
        <4> QED
          BY <2>5, <4>1, <4>2 DEF IInv, LeaseBacked
      <3> QED
        BY <3>1, <3>2
    <2>6. CASE q = p /\ ReleaseRow(p)
      <3>1. n \in locks[p] /\ n # call[p].name
        BY <2>6 DEF ReleaseRow, IInv, ReleasedFirst
      <3>2. semaphore'[n] = semaphore[n]
        BY <2>6, <3>1 DEF ReleaseRow, IInv, TypeOK
      <3>3. Holds(p, n) /\ granted' = granted
        BY <2>1, <2>6, <3>1 DEF ReleaseRow, Holds
      <3> QED
        BY <2>6, <3>2, <3>3 DEF IInv, LeaseBacked
    <2>7. CASE q = p /\ (End(p) \/ Purge(p))
      <3>1. locks'[p] = {}
        BY <2>7 DEF End, InsertCut, Shutdown, Crash, Purge, IInv, TypeOK,
           ReleasedFirst
      <3> QED
        BY <2>7, <3>1
    <2>8. CASE /\ q = p /\ ~End(p)
               /\ ~InsertRow(p) /\ ~Renew(p) /\ ~ReleaseRow(p) /\ ~Purge(p)
      <3>1. granted' = granted /\ n \in locks[p]
        BY <1>3, <2>8 DEF IInv, TypeOK, Start, Acquire, MayBeAvailable, Wait,
           Release, Step, RenewBroken, InsertDuplicate, InsertNoTable,
           CreateTable, SelectRow, SelectNoRow, SelectNoTable, CheckTable,
           NotExpired, DeleteExpired, Poll
      <3>2. pc[p] \notin {"release", "purge"}
        BY <1>3, <2>8 DEF Start, Acquire, MayBeAvailable, Wait, Release, Step,
           RenewBroken, InsertDuplicate, InsertNoTable, CreateTable,
           SelectRow, SelectNoRow, SelectNoTable, CheckTable, NotExpired,
           DeleteExpired, Poll
      <3> QED
        BY <2>1, <2>2, <2>8, <3>1, <3>2 DEF Holds
    <2> QED
      BY <2>3, <2>4, <2>5, <2>6, <2>7, <2>8
  <1> QED
    BY <1>1, <1>2, <1>3 DEF Next

LEMMA GrantsSaneStep == IInv /\ [Next]_vars => GrantsSane'
  <1> SUFFICES ASSUME IInv, [Next]_vars PROVE GrantsSane'
    OBVIOUS
  <1> USE DEF IInv, TypeOK, GrantsSane
  <1>1. CASE UNCHANGED <<locks, granted>>
    BY <1>1
  <1>2. ASSUME NEW p \in Requests, Renew(p) \/ InsertRow(p)
        PROVE  GrantsSane'
    <2>1. call[p].expire > 0 /\ call[p].name \in Names
      BY <1>2 DEF Renew, InsertRow, CallsSane, Call
    <2> QED
      <3>1. CASE Renew(p)
        BY <2>1, <3>1 DEF Renew
      <3>2. CASE InsertRow(p)
        BY <2>1, <3>2 DEF InsertRow
      <3> QED
        BY <1>2, <3>1, <3>2
  <1>3. ASSUME NEW p \in Requests, RenewBroken(p)
        PROVE  GrantsSane'
    BY <1>3 DEF RenewBroken
  <1>4. ASSUME NEW p \in Requests, NEW n \in Names, Release(p, n)
        PROVE  GrantsSane'
    BY <1>4 DEF Release
  <1>5. ASSUME NEW p \in Requests, End(p)
        PROVE  GrantsSane'
    BY <1>5 DEF End, InsertCut, Shutdown, Crash
  <1> QED
    BY <1>1, <1>2, <1>3, <1>4, <1>5 DEF Next, vars, Tick, Start, Acquire,
       MayBeAvailable, Wait, Step, InsertDuplicate, InsertNoTable,
       CreateTable, SelectRow, SelectNoRow, SelectNoTable, CheckTable,
       NotExpired, DeleteExpired, Poll, ReleaseRow, Purge

LEMMA IInvStep == IInv /\ [Next]_vars => IInv'
  BY TypeStep, GrantsSaneStep, ReleasedFirstStep, OwnRowsStep, RowIsLastStep, LeaseBackedStep
     DEF IInv

LEMMA Inductive == Spec => []IInv
  BY InitIInv, IInvStep, PTL DEF Spec
-----------------------------------------------------------------------------
\* Every variable keeps its type, and no row of the semaphore table has an
\* expiry of 0: acquire() raises its $timeout to 1 ms.
THEOREM TypeCorrect == Spec => []TypeOK
  BY Inductive, PTL DEF IInv

\* A lock a request may rely on is backed by its own row, for the time
\* acquire() promised.
THEOREM LeasesAreBacked == Spec => []LeaseBacked
  BY Inductive, PTL DEF IInv

\* No two requests rely on one lock at the same time.
THEOREM MutuallyExclusive == Spec => []MutualExclusion
  <1>1. IInv => MutualExclusion
    <2> SUFFICES ASSUME LeaseBacked, NEW p \in Requests, NEW q \in Requests,
                        NEW n \in Names, Holds(p, n), Holds(q, n)
                 PROVE  p = q
      BY DEF IInv, MutualExclusion
    <2>1. semaphore[n] = [value |-> p, expire |-> granted[p][n]]
      BY DEF LeaseBacked
    <2>2. semaphore[n] = [value |-> q, expire |-> granted[q][n]]
      BY DEF LeaseBacked
    <2> QED
      BY <2>1, <2>2
  <1> QED
    BY <1>1, Inductive, PTL

\* Only its own request, in release() or releaseAll(), removes a row that has
\* not expired.
THEOREM OnlyOwnersBreak == Spec => NobodyBreaksEarly
  <1> DEFINE A ==
        \A n \in Names, p \in Requests :
          HasRow(p, n) /\ now <= semaphore[n].expire /\ semaphore'[n].value # p
            => pc[p] \in {"release", "purge"}
  <1>1. IInv /\ [Next]_vars => [A]_vars
    <2> SUFFICES ASSUME IInv, Next PROVE A
      OBVIOUS
    <2> SUFFICES ASSUME NEW n \in Names, NEW p \in Requests,
                        semaphore[n].value = p, now <= semaphore[n].expire,
                        semaphore'[n].value # p
                 PROVE  pc[p] \in {"release", "purge"}
      BY DEF HasRow
    <2>1. CASE Tick
      BY <2>1 DEF Tick
    <2>2. ASSUME NEW q \in Requests, Start(q) \/ Step(q) \/ End(q)
          PROVE  pc[p] \in {"release", "purge"}
      <3>1. now \in Nat /\ semaphore[n].expire \in Nat
        BY ConstantsOK DEF IInv, TypeOK, Row, Assumptions
      <3>2. semaphore'[n] # semaphore[n]
        OBVIOUS
      <3> QED
        BY <2>2, <3>1, <3>2, RowFrame, ConstantsOK DEF IInv, Assumptions
    <2> QED
      BY <2>1, <2>2 DEF Next
  <1> QED
    BY <1>1, Inductive, PTL DEF NobodyBreaksEarly, Spec

\* An orderly end of a request leaves none of its rows, although releaseAll()
\* does nothing when $this->locks is empty.
THEOREM EndsLeaveNoRow == Spec => NoStrayRow
  <1> DEFINE A ==
        \A p \in Requests :
          pc[p] \notin {"ended", "insert", "release"} /\ pc'[p] = "ended"
            => \A n \in Names : semaphore'[n].value # p
  <1>1. IInv /\ [Next]_vars => [A]_vars
    <2> SUFFICES ASSUME IInv, Next,
                        NEW p \in Requests,
                        pc[p] \notin {"ended", "insert", "release"},
                        pc'[p] = "ended",
                        NEW n \in Names
                 PROVE  semaphore'[n].value # p
      OBVIOUS
    <2>1. PICK q \in Requests : Start(q) \/ Step(q) \/ End(q)
      BY DEF Next, Tick
    <2>2. q = p
      BY <2>1, Frame DEF IInv
    <2>3. Purge(p) \/ Shutdown(p)
      BY <2>1, <2>2 DEF IInv, TypeOK, Goto, Return, Available, Unavailable,
         Start, Acquire, MayBeAvailable, Wait, Release, Step, Renew,
         RenewBroken, InsertRow, InsertDuplicate, InsertNoTable, CreateTable,
         SelectRow, SelectNoRow, SelectNoTable, CheckTable, NotExpired,
         DeleteExpired, Poll, ReleaseRow, End, InsertCut, Crash
    <2>4. CASE Purge(p)
      BY <2>4, RowTyped, ConstantsOK DEF Purge, HasRow, Assumptions
    <2>5. CASE Shutdown(p)
      <3>1. locks[p] = {} /\ semaphore' = semaphore /\ pc[p] \in Running
        BY <2>5 DEF Shutdown, Goto, IInv, TypeOK
      <3> QED
        BY <3>1 DEF IInv, OwnRowsKnown, HasRow
    <2> QED
      BY <2>3, <2>4, <2>5
  <1> QED
    BY <1>1, Inductive, PTL DEF NoStrayRow, Spec

-----------------------------------------------------------------------------
(* The refinement of Lease.                                                *)

leaseOf == [p \in Requests |-> [n \in Names |->
              IF n \in locks[p] THEN granted[p][n] ELSE 0]]

LEMMA LeaseOfOthers ==
  ASSUME IInv, NEW p \in Requests, NEW n \in Names,
         semaphore[n].value \in {p, None}
  PROVE  L!ClearFor(p, n)
  <1> SUFFICES ASSUME NEW q \in Requests \ {p}, n \in locks[q],
                      ~(granted[q][n] < now)
               PROVE  FALSE
    BY DEF L!ClearFor
  <1>1. now <= granted[q][n]
    BY ConstantsOK DEF IInv, TypeOK, Assumptions
  <1>2. semaphore[n] = [value |-> q, expire |-> granted[q][n]]
    BY <1>1 DEF IInv, LeaseBacked, Holds
  <1> QED
    BY <1>2, ConstantsOK DEF Assumptions

LEMMA LeaseStep == IInv /\ [Next]_vars => [L!Next]_(L!leaseVars)
  <1> SUFFICES ASSUME IInv, [Next]_vars
               PROVE  L!Next \/ UNCHANGED <<now, leaseOf, last>>
    BY DEF L!leaseVars, leaseOf
  <1> USE DEF leaseOf
  <1>1. CASE UNCHANGED <<now, locks, granted, last>>
    BY <1>1
  <1>2. CASE Tick
    BY <1>2 DEF Tick, L!Next, L!Tick
  <1>3. ASSUME NEW p \in Requests, NEW n \in Names, n = call[p].name,
               Renew(p)
        PROVE  L!Next
    <2>1. n \in Names /\ call[p].expire \in 0..MaxTime
      BY DEF IInv, TypeOK, Call
    <2>2. n \in locks[p]
      BY <1>3, <2>1 DEF Renew, IInv, OwnRowsKnown, Running
    <2>3. leaseOf[p][n] # 0
      BY <2>1, <2>2, ConstantsOK DEF IInv, GrantsSane, TypeOK, Assumptions
    <2>4. last[n] = p /\ semaphore[n].value = p
      BY <1>3, <2>1, ConstantsOK DEF Renew, HasRow, IInv, RowIsLast,
         Assumptions
    <2>5. leaseOf' = [leaseOf EXCEPT ![p][n] = call[p].expire]
      BY <1>3, <2>1, <2>2 DEF Renew, IInv, TypeOK
    <2>6. L!Extend(p, n)
      <3>1. L!ClearFor(p, n)
        BY <2>1, <2>4, LeaseOfOthers
      <3>2. UNCHANGED <<now, last>>
        BY <1>3 DEF Renew
      <3> QED
        BY <2>1, <2>3, <2>4, <2>5, <3>1, <3>2 DEF L!Extend
    <2> QED
      BY <2>1, <2>6 DEF L!Next
  <1>4. ASSUME NEW p \in Requests, NEW n \in Names, n = call[p].name,
               InsertRow(p)
        PROVE  L!Next
    <2>1. n \in Names /\ call[p].expire \in 0..MaxTime
      BY DEF IInv, TypeOK, Call
    <2>2. leaseOf' = [leaseOf EXCEPT ![p][n] = call[p].expire]
      BY <1>4, <2>1 DEF InsertRow, IInv, TypeOK
    <2>3. L!Grant(p, n)
      <3>1. L!ClearFor(p, n)
        BY <1>4, <2>1, LeaseOfOthers DEF InsertRow, HasRow
      <3>2. last' = [last EXCEPT ![n] = p] /\ now' = now
        BY <1>4 DEF InsertRow
      <3> QED
        BY <2>1, <2>2, <3>1, <3>2 DEF L!Grant
    <2> QED
      BY <2>1, <2>3 DEF L!Next
  <1>5. ASSUME NEW p \in Requests, NEW n \in Names, n = call[p].name,
               InsertCut(p)
        PROVE  L!Next
    <2>1. n \in Names
      BY DEF IInv, TypeOK, Call
    <2>2. leaseOf' = [leaseOf EXCEPT ![p] = [m \in Names |-> 0]]
      BY <1>5 DEF InsertCut, IInv, TypeOK
    <2>3. L!GrantToDying(p, n)
      <3>1. L!ClearFor(p, n)
        BY <1>5, <2>1, LeaseOfOthers DEF InsertCut, HasRow
      <3>2. last' = [last EXCEPT ![n] = p] /\ now' = now
        BY <1>5 DEF InsertCut
      <3> QED
        BY <2>2, <3>1, <3>2 DEF L!GrantToDying
    <2> QED
      BY <2>1, <2>3 DEF L!Next
  <1>6. ASSUME NEW p \in Requests, NEW gone \in SUBSET Names,
               locks' = [locks EXCEPT ![p] = locks[p] \ gone],
               UNCHANGED <<now, granted, last>>
        PROVE  L!Next
    <2>1. leaseOf' = [leaseOf EXCEPT ![p] =
             [n \in Names |-> IF n \in gone THEN 0 ELSE leaseOf[p][n]]]
      BY <1>6 DEF IInv, TypeOK
    <2>2. L!GiveUp(p)
      BY <1>6, <2>1 DEF L!GiveUp
    <2> QED
      BY <2>2 DEF L!Next
  <1>7. ASSUME NEW p \in Requests, RenewBroken(p)
        PROVE  L!Next
    <2>1. {call[p].name} \in SUBSET Names
      BY DEF IInv, TypeOK, Call
    <2> QED
      BY <1>6, <1>7, <2>1 DEF RenewBroken
  <1>8. ASSUME NEW p \in Requests, NEW n \in Names, Release(p, n)
        PROVE  L!Next
    <2>1. {n} \in SUBSET Names
      OBVIOUS
    <2> QED
      BY <1>6, <1>8, <2>1 DEF Release
  <1>9. ASSUME NEW p \in Requests, Shutdown(p) \/ Crash(p)
        PROVE  L!Next
    <2>1. locks[p] \ Names = {} /\ Names \in SUBSET Names
      BY DEF IInv, TypeOK
    <2> QED
      BY <1>6, <1>9, <2>1 DEF Shutdown, Crash
  <1>10. \A p \in Requests : call[p].name \in Names
    BY DEF IInv, TypeOK, Call
  <1> QED
    BY <1>1, <1>2, <1>3, <1>4, <1>5, <1>7, <1>8, <1>9, <1>10 DEF Next, vars, Start,
       Acquire, MayBeAvailable, Wait, Step, InsertDuplicate, InsertNoTable,
       CreateTable, SelectRow, SelectNoRow, SelectNoTable, CheckTable,
       NotExpired, DeleteExpired, Poll, ReleaseRow, Purge, End

\* The semaphore table, used the way DatabaseLockBackend uses it, gives every
\* caller the leases of Lease.
THEOREM Refinement == Spec => ImplementsLease
  <1>1. Init => L!Init
    BY DEF Init, L!Init
  <1> QED
    BY <1>1, LeaseStep, Inductive, PTL DEF Spec, ImplementsLease, L!Spec
=============================================================================
