-------------------------- MODULE FastCacheProofs --------------------------
(***************************************************************************)
(* Proofs about FastCache, for any processes, servers and bounds.          *)
(***************************************************************************)
EXTENDS FastCache, TLAPS

\* Request p is about to store a time that it remembers as the last write.
Early(p) == pc[p] = "put" \/ Storing(p)

\* The timestamp is the latest ever stored, or gone; requests know no later
\* one, but for the one they are about to store.
Ordered ==
  /\ stamp = 0 \/ stamp = latest
  /\ \A p \in Procs :
       /\ memo[p] <= latest \/ Early(p)
       /\ Early(p) => memo[p] = now[p] /\ now[p] > 0
       /\ pc[p] = "fast" => memo[p] > 0
       /\ pc[p] = "idle" => memo[p] = Unknown

\* Why the item of fast cache s is there: it is current, or was replaced by a
\* change that has no time yet, or by one whose time is later than the item,
\* marked or not.
Explained(s) ==
  fast[s] # Missing =>
    \/ fast[s].data = value
    \/ \E q \in Untimed : fast[s].data \in before[q]
    \/ \E q \in Procs : /\ pc[q] \in {"compare", "put"}
                        /\ fast[s].data \in before[q]
                        /\ fast[s].created < now[q]
    \/ fast[s].created < latest

\* What request p may be served was current since it began, or is too old for
\* the timestamp that it knows or will read.
Served(p) ==
  /\ pc[p] = "idle" => answer[p] = Unknown
  /\ pc[p] # "idle" =>
       /\ value \in recent[p] /\ answer[p] \in recent[p] \cup {Unknown}
       /\ \A q \in Procs : before[q] \subseteq recent[p]
       /\ \A s \in Servers : fast[s] # Missing =>
            \/ fast[s].data \in recent[p]
            \/ fast[s].created < memo[p]
            \/ fast[s].created < latest /\ (memo[p] \in {Unknown, 0} \/ Early(p))

Unraced ==
  /\ Ordered
  /\ \A s \in Servers : Explained(s)
  /\ \A p \in Procs : Served(p)

IInv == TypeOK /\ (~raced => Unraced)

-----------------------------------------------------------------------------
(* Types.                                                                  *)

\* What the types say of one process and of one fast cache.
LEMMA Typed ==
  ASSUME TypeOK
  PROVE  /\ \A p \in Procs :
              /\ memo[p] \in Int /\ (memo[p] >= 0 \/ memo[p] = Unknown)
              /\ now[p] \in Nat /\ Host[p] \in Servers
         /\ \A s \in Servers :
              fast[s].data \in Contents /\ fast[s].created \in Nat
         /\ stamp \in Nat /\ latest \in Nat /\ writes \in Nat
BY HostAssumption, BoundsAssumption
   DEF TypeOK, Times, Clock, Unknown, Item, Missing, Contents, None

\* A request that ends keeps the types.
LEMMA ForgetType ==
  ASSUME TypeOK, NEW p \in Procs, Forget(p)
  PROVE  /\ pc' = [pc EXCEPT ![p] = "idle"] /\ pc' \in [Procs -> Labels]
         /\ memo' \in [Procs -> Times \cup {Unknown}]
         /\ got' \in [Procs -> Contents] /\ now' \in [Procs -> Times]
         /\ answer' \in [Procs -> Contents \cup {Unknown}] /\ recent' \in [Procs -> SUBSET Contents]
         /\ \A q \in Procs \ {p} : memo'[q] = memo[q] /\ got'[q] = got[q]
         /\ owed' = owed \ {p} /\ \A q \in Procs \ {p} : pc'[q] = pc[q]
BY BoundsAssumption
   DEF Forget, Goto, Holds, Answered, TypeOK, Labels, Marking, Times, Contents, None

\* Every step keeps the types.
LEMMA TypeKept ==
  ASSUME TypeOK, Next
  PROVE  TypeOK'
<1> USE BoundsAssumption DEF Goto, Answered, Holds, shared, locals, history, Labels, Marking
<1>0. 0 \in Contents /\ 0 \in Times /\ value \in Contents
  BY DEF Contents, Times, TypeOK
<1>2. ASSUME NEW s \in Servers, Evict(s)
      PROVE  TypeOK'
  <2>1. fast' \in [Servers -> Item \cup {Missing}]
    BY <1>2, Typed DEF Evict, TypeOK, Missing
  <2>2. QED  BY <1>2, <2>1 DEF Evict, TypeOK, Pending
<1>3. ASSUME NEW p \in Procs, Begin(p)
      PROVE  TypeOK'
  <2>1. Current \subseteq Contents
    BY <1>0 DEF Current, TypeOK
  <2>2. recent' \in [Procs -> SUBSET Contents] /\ answer' \in [Procs -> Contents \cup {Unknown}]
    BY <1>0, <1>3, <2>1 DEF Begin, TypeOK
  <2>3. QED  BY <1>3, <2>2 DEF Begin, TypeOK, Pending
<1>4. ASSUME NEW p \in Procs, End(p)
      PROVE  TypeOK'
  BY <1>4, ForgetType DEF End, TypeOK, Pending
<1>5. ASSUME NEW p \in Procs, Kill(p)
      PROVE  TypeOK'
  <2>1. before' \in [Procs -> SUBSET Contents] /\ before'[p] = {}
        /\ \A q \in Procs \ {p} : before'[q] = before[q]
    BY <1>5 DEF Kill, TypeOK
  <2>2. raced' \in BOOLEAN
    BY <1>5 DEF Kill, TypeOK
  <2>3. QED  BY <1>5, <2>1, <2>2, ForgetType DEF Kill, TypeOK, Pending
<1>6. ASSUME NEW p \in Procs, Get(p)
      PROVE  TypeOK'
  <2>1. LastWrite(p) \in Times /\ LastWrite(p) # Unknown
    BY DEF LastWrite, TypeOK, Times, Unknown
  <2>2. /\ memo' \in [Procs -> Times \cup {Unknown}] /\ memo'[p] # Unknown
        /\ \A q \in Procs \ {p} : memo'[q] = memo[q]
    BY <1>6, <2>1 DEF Get, TypeOK
  <2>3. answer' \in [Procs -> Contents \cup {Unknown}]
    BY <1>0, <1>6 DEF Get, TypeOK
  <2>4. QED  BY <1>6, <2>2, <2>3 DEF Get, TypeOK, Pending
<1>7. ASSUME NEW p \in Procs, FastGet(p)
      PROVE  TypeOK'
  <2>1. answer' \in [Procs -> Contents \cup {Unknown}]
    BY <1>7, Typed DEF FastGet, TypeOK
  <2>2. QED  BY <1>7, <2>1 DEF FastGet, TypeOK, Pending
<1>8. ASSUME NEW p \in Procs, SlowGet(p)
      PROVE  TypeOK'
  BY <1>0, <1>8 DEF SlowGet, TypeOK, Pending
<1>9. ASSUME NEW p \in Procs, NEW time \in Clock, Fill(p, time)
      PROVE  TypeOK'
  <2>1. [data |-> got[p], created |-> time] \in Item
    BY <1>9 DEF Fill, Item, TypeOK
  <2>2. fast' \in [Servers -> Item \cup {Missing}]
    BY <1>9, <2>1, Typed DEF Fill, TypeOK
  <2>3. raced' \in BOOLEAN
    BY <1>9 DEF Fill, TypeOK
  <2>4. QED  BY <1>0, <1>9, <2>2, <2>3 DEF Fill, TypeOK, Pending, None
<1>10. ASSUME NEW p \in Procs, NEW v \in {None, writes + 1}, NEW all \in BOOLEAN,
              Change(p, v, all)
       PROVE  TypeOK'
  <2>1. v \in Contents /\ v \in 0..writes' /\ writes' \in 0..MaxWrites
    BY <1>10, Typed DEF Change, TypeOK, Contents, None
  <2>2. before' \in [Procs -> SUBSET Contents]
    BY <1>0, <1>10 DEF Change, TypeOK
  <2>3. \A q \in Procs : ~(pc'[q] \in Marking /\ q \notin owed) => before'[q] = {}
    BY <1>10 DEF Change, TypeOK, Pending
  <2>4. recent' \in [Procs -> SUBSET Contents]
    BY <1>10, <2>1 DEF Change, Became, TypeOK
  <2>5. stamp' \in Times /\ stamp' <= latest
    BY <1>0, <1>10, Typed DEF Change, TypeOK
  <2>6. QED  BY <1>10, <2>1, <2>2, <2>3, <2>4, <2>5 DEF Change, TypeOK, Pending
<1>11. ASSUME NEW p \in Procs, NEW time \in Clock, Now(p, time)
       PROVE  TypeOK'
  <2>1. now' \in [Procs -> Times] /\ raced' \in BOOLEAN
    BY <1>11, Typed DEF Now, TypeOK, Times, Clock
  <2>2. QED  BY <1>11, <2>1 DEF Now, TypeOK, Pending
<1>12. ASSUME NEW p \in Procs, Marked(p)
       PROVE  /\ now' \in [Procs -> Times] /\ before' \in [Procs -> SUBSET Contents]
              /\ before'[p] = {} /\ \A q \in Procs \ {p} : before'[q] = before[q]
  BY <1>0, <1>12 DEF Marked, TypeOK
<1>13. \A p \in Procs : /\ AfterMark(p) \in {"ready", "fill", "commit"}
                        /\ AfterMark(p) = "fill" => got[p] # None
                        /\ p \in owed => AfterMark(p) = "commit"
  BY DEF AfterMark
<1>14. ASSUME NEW p \in Procs, Compare(p)
       PROVE  TypeOK'
  <2>1. LastWrite(p) \in Times /\ LastWrite(p) # Unknown
    BY DEF LastWrite, TypeOK, Times, Unknown
  <2>2. CASE now[p] > LastWrite(p)
    <3>1. memo' \in [Procs -> Times \cup {Unknown}] /\ \A q \in Procs \ {p} : memo'[q] = memo[q]
      BY <1>14, <2>2 DEF Compare, TypeOK
    <3>2. pc' = [pc EXCEPT ![p] = "put"] /\ UNCHANGED <<now, before>>
      BY <1>14, <2>2 DEF Compare
    <3>3. QED  BY <1>14, <3>1, <3>2 DEF Compare, TypeOK, Pending
  <2>3. CASE ~(now[p] > LastWrite(p))
    <3>1. memo' \in [Procs -> Times \cup {Unknown}] /\ \A q \in Procs \ {p} : memo'[q] = memo[q]
      BY <1>14, <2>1, <2>3 DEF Compare, TypeOK
    <3>2. pc' = [pc EXCEPT ![p] = AfterMark(p)] /\ Marked(p)
      BY <1>14, <2>3 DEF Compare
    <3>3. QED  BY <1>12, <1>13, <1>14, <3>1, <3>2 DEF Compare, TypeOK, Pending
  <2>4. QED  BY <2>2, <2>3
<1>15. ASSUME NEW p \in Procs, PutStamp(p)
       PROVE  TypeOK'
  <2>1. pc' = [pc EXCEPT ![p] = AfterMark(p)]
    BY <1>15 DEF PutStamp
  <2>2. CASE p \in owed
    BY <1>13, <1>15, <2>1, <2>2 DEF PutStamp, TypeOK, Pending
  <2>3. CASE p \notin owed
    <3>1. stamp' \in Times /\ latest' \in Times /\ stamp' <= latest'
      BY <1>15, <2>3, Typed DEF PutStamp, Stored, TypeOK
    <3>2. Marked(p) /\ raced' \in BOOLEAN
      BY <1>15, <2>3 DEF PutStamp, TypeOK
    <3>3. QED  BY <1>12, <1>13, <1>15, <2>1, <2>3, <3>1, <3>2 DEF PutStamp, TypeOK, Pending
  <2>4. QED  BY <2>2, <2>3
<1>16. ASSUME NEW p \in Procs, Commit(p) \/ Rollback(p)
       PROVE  TypeOK'
  <2>1. /\ now' \in [Procs -> Times] /\ owed' = owed \ {p} /\ raced' \in BOOLEAN
        /\ pc' \in {[pc EXCEPT ![p] = "increment"], [pc EXCEPT ![p] = "ready"]}
        /\ UNCHANGED <<writes, value, fast, memo, got, answer, before, recent>>
    BY <1>0, <1>16 DEF Commit, Rollback, TypeOK
  <2>2. stamp' \in Times /\ latest' \in Times /\ stamp' <= latest'
    BY <1>16, Typed DEF Commit, Rollback, Stored, TypeOK
  <2>3. pc[p] = "commit"
    BY <1>16 DEF Commit, Rollback
  <2>4. QED  BY <2>1, <2>2, <2>3 DEF TypeOK, Pending
<1>19. ASSUME NEW p \in Procs, Increment(p)
       PROVE  TypeOK'
  <2>1. value' \in 0..writes'
    BY <1>19, Typed DEF Increment, TypeOK, None
  <2>2. /\ before' \in [Procs -> SUBSET Contents] /\ recent' \in [Procs -> SUBSET Contents]
        /\ \A q \in Procs : ~Pending(q) => before'[q] = {}
    BY <1>0, <1>19 DEF Increment, Became, TypeOK, None
  <2>3. /\ pc[p] = "increment" /\ pc' = [pc EXCEPT ![p] = "ready"] /\ raced' \in BOOLEAN
        /\ UNCHANGED <<writes, stamp, fast, memo, got, now, owed, answer, latest>>
    BY <1>19 DEF Increment, TypeOK
  <2>4. \A q \in Procs : ~Pending(q)' => before'[q] = {}
    BY <2>2, <2>3 DEF Pending, TypeOK
  <2>5. QED  BY <2>1, <2>2, <2>3, <2>4 DEF TypeOK
<1>17. ASSUME NEW p \in Procs, pc[p] = "ready", Goto(p, "now"), owed' \in {owed, owed \cup {p}},
              Answered(p, Unknown), UNCHANGED <<writes, shared, memo, got, now, history>>
       PROVE  TypeOK'
  BY <1>17 DEF TypeOK, Pending
<1>18. QED
  BY <1>2, <1>3, <1>4, <1>5, <1>6, <1>7, <1>8, <1>9, <1>10, <1>11, <1>14, <1>15, <1>16, <1>17, <1>19
     DEF Next, Set, Delete, DeleteAll, InvalidateTags

-----------------------------------------------------------------------------
(* The invariant.                                                          *)

LEMMA Initially ==
  Init => IInv
<1> SUFFICES ASSUME Init PROVE IInv
  OBVIOUS
<1> USE BoundsAssumption
<1>1. TypeOK
  <2>1. 0 \in Contents /\ 0 \in Times
    BY DEF Contents, Times
  <2>2. stamp \in Times /\ latest \in Times /\ stamp <= latest
    BY <2>1 DEF Init
  <2>3. fast \in [Servers -> Item \cup {Missing}]
    BY DEF Init, Missing
  <2>4. /\ pc \in [Procs -> Labels] /\ \A p \in Procs : pc[p] = "idle"
        /\ memo \in [Procs -> Times \cup {Unknown}] /\ got \in [Procs -> Contents]
        /\ now \in [Procs -> Times] /\ answer \in [Procs -> Contents \cup {Unknown}]
    BY <2>1 DEF Init, Labels, None
  <2>5. before \in [Procs -> SUBSET Contents] /\ recent \in [Procs -> SUBSET Contents]
        /\ \A p \in Procs : before[p] = {}
    BY DEF Init
  <2>6. writes \in 0..MaxWrites /\ value \in 0..writes
    BY DEF Init, None
  <2>7. raced \in BOOLEAN /\ owed = {}
    BY DEF Init
  <2>8. QED
    BY <2>7, <2>2, <2>3, <2>4, <2>5, <2>6 DEF TypeOK
<1>2. Unraced
  BY DEF Init, Unraced, Ordered, Explained, Served, Early, Storing, None, Unknown
<1>3. QED  BY <1>1, <1>2 DEF IInv

\* Races are remembered.
LEMMA RacedStays ==
  ASSUME TypeOK, Next, ~raced'
  PROVE  ~raced
<1>1. CASE UNCHANGED raced
  BY <1>1
<1>2. CASE \E p \in Procs, time \in Clock : Fill(p, time) \/ Now(p, time)
  BY <1>2 DEF Fill, Now
<1>3. CASE \E p \in Procs : PutStamp(p)
  BY <1>3 DEF PutStamp
<1>4. CASE \E p \in Procs : Commit(p) \/ Rollback(p) \/ Increment(p) \/ Kill(p)
  BY <1>4 DEF Commit, Rollback, Increment, Kill
<1>5. QED
  BY <1>1, <1>2, <1>3, <1>4
     DEF Next, Evict, Begin, End, Get, FastGet, SlowGet, Set, Delete, DeleteAll,
         InvalidateTags, Change, Compare, locals, history

\* What does not touch a change under way keeps the reasons why items are there.
LEMMA ExplainedQuiet ==
  ASSUME TypeOK, NEW s \in Servers, Explained(s),
         UNCHANGED <<value, before>>, latest' \in Int, latest' >= latest,
         fast'[s] = fast[s] \/ fast'[s] = Missing,
         \A q \in Procs : Pending(q) => /\ pc'[q] = pc[q] /\ now'[q] = now[q]
                                        /\ q \notin owed'
  PROVE  Explained(s)'
<1>1. fast[s].created \in Nat /\ latest \in Nat
  BY Typed
<1>2. QED  BY <1>1 DEF TypeOK, Explained, Untimed, Pending, Marking

\* What other requests do keeps what request q may be served.
LEMMA ServedOther ==
  ASSUME TypeOK, TypeOK', NEW q \in Procs, Served(q), latest' >= latest,
         value' = value, \A r \in Procs : before'[r] \subseteq before[r],
         \A s \in Servers : fast'[s] = fast[s] \/ fast'[s] = Missing,
         pc'[q] = pc[q], memo'[q] = memo[q], now'[q] = now[q],
         answer'[q] = answer[q], recent'[q] = recent[q]
  PROVE  Served(q)'
<1>1. \A s \in Servers : fast[s].created \in Nat
  BY Typed
<1>2. latest \in Nat /\ latest' \in Nat
  BY BoundsAssumption DEF TypeOK, Times
<1>3. SUFFICES ASSUME pc[q] # "idle", NEW s \in Servers, fast'[s] # Missing
               PROVE  \/ fast[s].data \in recent[q]
                      \/ fast[s].created < memo[q]
                      \/ fast[s].created < latest' /\ (memo[q] \in {Unknown, 0} \/ Early(q))
  BY DEF Served, Early, Storing
<1>4. QED  BY <1>1, <1>2, <1>3 DEF Served

\* What request p may be served when it asks for the timestamp.
LEMMA ServedMemo ==
  ASSUME TypeOK, Ordered, NEW p \in Procs, Served(p), pc[p] # "idle", ~Early(p),
         NEW s \in Servers, fast[s] # Missing
  PROVE  \/ fast[s].data \in recent[p]
         \/ fast[s].created < LastWrite(p)
         \/ fast[s].created < latest /\ LastWrite(p) = 0
BY Typed DEF Ordered, Served, LastWrite, Unknown

\* Every step without a race keeps the invariant.
LEMMA UnracedKept ==
  ASSUME TypeOK, TypeOK', Unraced, Next, ~raced'
  PROVE  Unraced'
<1> USE BoundsAssumption DEF Goto, Answered, Holds, shared, locals, history
<1>t. /\ latest \in Nat /\ stamp \in Nat
      /\ \A p \in Procs : now[p] \in Nat /\ memo[p] \in Int /\ (memo[p] >= 0 \/ memo[p] = Unknown)
      /\ \A s \in Servers : fast[s].created \in Nat
  BY Typed
<1>o. Ordered /\ \A p \in Procs : LastWrite(p) \in Nat /\ (~Early(p) => LastWrite(p) <= latest)
  BY <1>t DEF Unraced, Ordered, LastWrite
<1>e. \A s \in Servers : Explained(s)
  BY DEF Unraced
<1>r. \A p \in Procs : Served(p)
  BY DEF Unraced
<1>q. SUFFICES Ordered' /\ (\A s \in Servers : Explained(s)')
                 /\ \A p \in Procs : Served(p)'
  BY DEF Unraced
<1>2. ASSUME NEW s \in Servers, Evict(s)
      PROVE  Ordered' /\ (\A t \in Servers : Explained(t)') /\ \A p \in Procs : Served(p)'
  <2>1. Ordered'
    BY <1>2, <1>o DEF Evict, Ordered, Early, Storing
  <2>2. \A t \in Servers : fast'[t] = fast[t] \/ fast'[t] = Missing
    BY <1>2 DEF Evict, TypeOK
  <2>3. \A t \in Servers : Explained(t)'
    BY <1>2, <1>e, <2>2, <1>t, ExplainedQuiet DEF Evict, Pending
  <2>4. \A p \in Procs : Served(p)'
    BY <1>2, <1>r, <1>t, <2>2, ServedOther DEF Evict
  <2>5. QED  BY <2>1, <2>3, <2>4
<1>3. ASSUME NEW p \in Procs, Begin(p)
      PROVE  Ordered' /\ (\A s \in Servers : Explained(s)') /\ \A q \in Procs : Served(q)'
  <2>0. /\ pc' = [pc EXCEPT ![p] = "ready"] /\ pc[p] = "idle" /\ UNCHANGED memo
        /\ pc'[p] = "ready" /\ \A q \in Procs \ {p} : pc'[q] = pc[q]
    BY <1>3 DEF Begin, TypeOK
  <2>1. Ordered'
    BY <1>3, <1>o, <2>0 DEF Begin, Ordered, Early, Storing
  <2>2. \A s \in Servers : Explained(s)'
    BY <1>3, <1>e, <2>0, <1>t, ExplainedQuiet DEF Begin, Pending, Marking
  <2>3. \A q \in Procs \ {p} : Served(q)'
    BY <1>3, <1>r, <1>t, <2>0, ServedOther DEF Begin, TypeOK
  <2>4. /\ value \in Current /\ (\A q \in Procs : before[q] \subseteq Current)
        /\ \A s \in Servers : fast[s] # Missing => fast[s].data \in Current \/ fast[s].created < latest
    BY <1>e DEF Current, Explained, Untimed
  <2>5. recent'[p] = Current /\ answer'[p] = Unknown /\ memo'[p] = Unknown
    BY <1>3, <1>o, <1>r, <2>0 DEF Begin, TypeOK, Ordered, Served
  <2>6. Served(p)'
    BY <1>3, <2>4, <2>5 DEF Begin, Served
  <2>7. QED  BY <2>1, <2>2, <2>3, <2>6
<1>4. ASSUME NEW p \in Procs, End(p) \/ Kill(p)
      PROVE  Ordered' /\ (\A s \in Servers : Explained(s)') /\ \A q \in Procs : Served(q)'
  <2>0. /\ pc'[p] = "idle" /\ memo'[p] = Unknown /\ answer'[p] = Unknown
        /\ \A q \in Procs \ {p} : /\ pc'[q] = pc[q] /\ memo'[q] = memo[q] /\ now'[q] = now[q]
                                /\ answer'[q] = answer[q] /\ recent'[q] = recent[q]
        /\ owed' = owed \ {p}
    BY <1>4 DEF End, Kill, Forget, TypeOK
  <2>1. ~Pending(p)
    <3>1. CASE End(p)
      BY <3>1 DEF End, Pending, Marking
    <3>2. CASE Kill(p)
      BY <3>2 DEF Kill
    <3>3. QED  BY <1>4, <3>1, <3>2
  <2>2. /\ UNCHANGED <<value, stamp, fast, latest>> /\ before' = before
    <3>1. CASE End(p)
      BY <3>1 DEF End
    <3>2. CASE Kill(p)
      <4>1. UNCHANGED <<value, stamp, fast, latest>> /\ before' = [before EXCEPT ![p] = {}]
        BY <3>2 DEF Kill
      <4>2. before[p] = {} /\ before \in [Procs -> SUBSET Contents]
        BY <2>1 DEF TypeOK
      <4>3. QED  BY <4>1, <4>2
    <3>3. QED  BY <1>4, <3>1, <3>2
  <2>3. Ordered'
    BY <1>o, <1>t, <2>0, <2>2 DEF Ordered, Early, Storing, Unknown
  <2>4. \A s \in Servers : Explained(s)'
    BY <1>e, <2>0, <2>1, <2>2, <1>t, ExplainedQuiet DEF Pending
  <2>5. \A q \in Procs \ {p} : Served(q)'
    BY <1>r, <1>t, <2>0, <2>2, ServedOther
  <2>6. Served(p)'
    BY <2>0 DEF Served
  <2>7. QED  BY <2>3, <2>4, <2>5, <2>6
<1>5. ASSUME NEW p \in Procs, Get(p)
      PROVE  Ordered' 
              /\ (\A s \in Servers : Explained(s)') /\ \A q \in Procs : Served(q)'
  <2>0. /\ pc[p] = "ready" /\ pc'[p] \in {"fast", "slow"} /\ memo'[p] = LastWrite(p)
        /\ (pc'[p] = "fast" => LastWrite(p) > 0)
        /\ answer'[p] = Unknown
        /\ \A q \in Procs \ {p} : pc'[q] = pc[q] /\ memo'[q] = memo[q] /\ answer'[q] = answer[q]
    BY <1>5 DEF Get, TypeOK
  <2>1. UNCHANGED <<value, stamp, fast, latest, before, recent, now, owed>>
    BY <1>5 DEF Get
  <2>2. Ordered'
    BY <1>o, <2>0, <2>1 DEF Ordered, Early, Storing
  <2>3. \A s \in Servers : Explained(s)'
    BY <1>e, <2>0, <2>1, <1>t, ExplainedQuiet DEF Pending, Marking
  <2>4. \A q \in Procs \ {p} : Served(q)'
    BY <1>r, <1>t, <2>0, <2>1, ServedOther
  <2>5. \A s \in Servers : fast[s] # Missing =>
          \/ fast[s].data \in recent[p]
          \/ fast[s].created < LastWrite(p)
          \/ fast[s].created < latest /\ LastWrite(p) = 0
    BY <1>o, <1>r, <2>0, ServedMemo DEF Early, Storing
  <2>6. Served(p)'
    BY <1>r, <2>0, <2>1, <2>5 DEF Served
  <2>7. QED  BY <2>2, <2>3, <2>4, <2>6
<1>6. ASSUME NEW p \in Procs, FastGet(p) \/ SlowGet(p)
      PROVE  Ordered' 
              /\ (\A s \in Servers : Explained(s)') /\ \A q \in Procs : Served(q)'
  <2>0. /\ pc[p] \in {"fast", "slow"} /\ pc'[p] \in {"ready", "slow", "fill"}
        /\ \A q \in Procs \ {p} : pc'[q] = pc[q] /\ answer'[q] = answer[q]
    BY <1>6 DEF FastGet, SlowGet, TypeOK
  <2>1. UNCHANGED <<value, stamp, fast, latest, before, recent, now, owed, memo>>
    BY <1>6 DEF FastGet, SlowGet
  <2>2. Ordered'
    BY <1>o, <2>0, <2>1 DEF Ordered, Early, Storing
  <2>3. \A s \in Servers : Explained(s)'
    BY <1>e, <2>0, <2>1, <1>t, ExplainedQuiet DEF Pending, Marking
  <2>4. \A q \in Procs \ {p} : Served(q)'
    BY <1>r, <1>t, <2>0, <2>1, ServedOther
  <2>5. answer'[p] \in recent[p] \cup {Unknown}
    <3>1. CASE FastGet(p) /\ Valid(Host[p], memo[p])
      <4>1. /\ pc[p] = "fast" /\ memo[p] > 0 /\ answer'[p] = fast[Host[p]].data
            /\ fast[Host[p]] # Missing /\ fast[Host[p]].created >= memo[p]
        BY <1>o, <3>1 DEF FastGet, Valid, TypeOK, Ordered
      <4>2. Host[p] \in Servers
        BY HostAssumption
      <4>3. QED  BY <1>r, <1>t, <4>1, <4>2 DEF Served, Early, Storing, Unknown
    <3>2. CASE FastGet(p) /\ ~Valid(Host[p], memo[p])
      <4>1. answer'[p] = answer[p]
        BY <3>2 DEF FastGet
      <4>2. QED  BY <1>r, <2>0, <4>1 DEF Served
    <3>3. CASE SlowGet(p)
      <4>1. answer'[p] = value
        BY <3>3 DEF SlowGet, TypeOK
      <4>2. QED  BY <1>r, <2>0, <4>1 DEF Served
    <3>4. QED  BY <1>6, <3>1, <3>2, <3>3
  <2>6. Served(p)'
    BY <1>r, <2>0, <2>1, <2>5 DEF Served, Early, Storing
  <2>7. QED  BY <2>2, <2>3, <2>4, <2>6
<1>7. ASSUME NEW p \in Procs, NEW time \in Clock, Fill(p, time)
      PROVE  Ordered' 
              /\ (\A s \in Servers : Explained(s)') /\ \A q \in Procs : Served(q)'
  <2>0. /\ pc[p] = "fill" /\ pc'[p] = "ready" /\ \A q \in Procs \ {p} : pc'[q] = pc[q]
        /\ UNCHANGED <<value, stamp, memo, now, owed, answer, before, recent, latest>>
    BY <1>7 DEF Fill, TypeOK
  <2>1. \A s \in Servers : fast'[s] = fast[s] \/ fast'[s].data = got[p]
    BY <1>7 DEF Fill, TypeOK
  <2>2. got[p] = value \/ \E q \in Procs : pc[q] = "now" /\ q \notin owed /\ got[p] \in before[q]
    BY <1>7 DEF Fill, Untimed
  <2>3. Ordered'
    BY <1>o, <2>0 DEF Ordered, Early, Storing
  <2>4. \A s \in Servers : Explained(s)'
    BY <1>e, <2>0, <2>1, <2>2 DEF Explained, Untimed
  <2>5. ASSUME NEW q \in Procs
        PROVE  Served(q)'
    <3>1. pc[q] # "idle" => got[p] \in recent[q]
      BY <1>r, <2>2 DEF Served
    <3>2. (pc'[q] # "idle" => pc[q] # "idle") /\ (Early(q) => Early(q)')
      BY <2>0 DEF Early, Storing
    <3>3. QED  BY <1>r, <2>0, <2>1, <3>1, <3>2 DEF Served
  <2>6. QED  BY <2>3, <2>4, <2>5
<1>8. ASSUME NEW p \in Procs, NEW v, NEW all, Change(p, v, all)
      PROVE  Ordered' 
              /\ (\A s \in Servers : Explained(s)') /\ \A q \in Procs : Served(q)'
  <2>0. /\ pc[p] = "ready" /\ pc'[p] = "now" /\ \A q \in Procs \ {p} : pc'[q] = pc[q]
        /\ UNCHANGED <<fast, memo, now, owed, latest>>
        /\ value' = v /\ (stamp' = stamp \/ stamp' = 0)
        /\ answer'[p] = Unknown /\ \A q \in Procs \ {p} : answer'[q] = answer[q]
    BY <1>8 DEF Change, TypeOK
  <2>1. /\ before'[p] = before[p] \cup {value}
        /\ \A q \in Procs : Pending(q) => before'[q] = before[q] \cup {value}
        /\ \A q \in Procs : before'[q] \subseteq before[q] \cup {value}
    BY <1>8 DEF Change
  <2>2. \A q \in Procs : pc[q] # "idle" => recent'[q] = recent[q] \cup {v}
    BY <1>8 DEF Change, Became
  <2>3. Ordered'
    BY <1>o, <2>0 DEF Ordered, Early, Storing
  <2>4. \A s \in Servers : Explained(s)'
    <3>1. p \notin owed /\ \A q \in Procs : before[q] # {} => Pending(q)
      BY <2>0 DEF TypeOK, Marking
    <3>2. QED  BY <1>e, <2>0, <2>1, <3>1 DEF Explained, Untimed, Pending, Marking
  <2>5. ASSUME NEW q \in Procs
        PROVE  Served(q)'
    <3>1. (pc'[q] # "idle" => pc[q] # "idle") /\ (Early(q) => Early(q)')
      BY <2>0 DEF Early, Storing
    <3>2. QED  BY <1>r, <2>0, <2>1, <2>2, <3>1 DEF Served
  <2>6. QED  BY <2>3, <2>4, <2>5
<1>9. ASSUME NEW p \in Procs, NEW time \in Clock, Now(p, time)
      PROVE  Ordered'
              /\ (\A s \in Servers : Explained(s)') /\ \A q \in Procs : Served(q)'
  <2>0. /\ pc[p] = "now" /\ pc'[p] = "compare" /\ \A q \in Procs \ {p} : pc'[q] = pc[q]
        /\ now'[p] = time + 1 /\ \A q \in Procs \ {p} : now'[q] = now[q]
        /\ UNCHANGED <<value, stamp, fast, memo, owed, answer, before, recent, latest>>
        /\ ~Ahead(p, time) /\ time \in Nat
    <3>1. ~Ahead(p, time)
      BY <1>9, Zenon DEF Now
    <3>2. QED  BY <1>9, <3>1 DEF Now, TypeOK, Clock
  <2>1. Ordered'
    BY <1>o, <2>0 DEF Ordered, Early, Storing
  <2>2. ASSUME NEW s \in Servers
        PROVE  Explained(s)'
    <3>1. fast[s] # Missing /\ fast[s].data \in before[p] => fast[s].created < now'[p]
      BY <1>t, <2>0 DEF Ahead
    <3>2. QED  BY <1>e, <2>0, <3>1 DEF Explained, Untimed
  <2>3. \A q \in Procs \ {p} : Served(q)'
    BY <1>r, <1>t, <2>0, ServedOther
  <2>4. Served(p)'
    BY <1>r, <2>0 DEF Served, Early, Storing
  <2>5. QED  BY <2>1, <2>2, <2>3, <2>4
<1>10. \A p \in Procs : AfterMark(p) = "commit" \/ (p \notin owed /\ AfterMark(p) \in {"ready", "fill"})
  BY DEF AfterMark
<1>11. ASSUME NEW p \in Procs, Compare(p), now[p] > LastWrite(p)
       PROVE  Ordered' 
              /\ (\A s \in Servers : Explained(s)') /\ \A q \in Procs : Served(q)'
  <2>0. /\ pc[p] = "compare" /\ pc'[p] = "put" /\ \A q \in Procs \ {p} : pc'[q] = pc[q]
        /\ memo'[p] = now[p] /\ \A q \in Procs \ {p} : memo'[q] = memo[q]
        /\ UNCHANGED <<value, stamp, fast, now, owed, answer, before, recent, latest>>
    BY <1>11 DEF Compare, TypeOK
  <2>1. Ordered'
    <3>1. Early(p)' => memo'[p] = now'[p] /\ now'[p] > 0
      BY <1>o, <1>t, <1>11, <2>0
    <3>2. Early(p)' /\ \A q \in Procs \ {p} : Early(q)' <=> Early(q)
      BY <2>0 DEF Early, Storing
    <3>3. QED  BY <1>o, <2>0, <3>1, <3>2 DEF Ordered
  <2>2. \A s \in Servers : Explained(s)'
    BY <1>e, <2>0 DEF Explained, Untimed
  <2>3. \A q \in Procs \ {p} : Served(q)'
    BY <1>r, <1>t, <2>0, ServedOther
  <2>4. \A s \in Servers : fast[s] # Missing =>
          \/ fast[s].data \in recent[p]
          \/ fast[s].created < now[p]
          \/ fast[s].created < latest
    <3>1. \A s \in Servers : fast[s] # Missing =>
            \/ fast[s].data \in recent[p]
            \/ fast[s].created < LastWrite(p)
            \/ fast[s].created < latest /\ LastWrite(p) = 0
      BY <1>o, <1>r, <2>0, ServedMemo DEF Early, Storing
    <3>2. QED  BY <1>t, <1>o, <1>11, <3>1
  <2>5. Served(p)'
    <3>1. \A s \in Servers : fast'[s] # Missing =>
            \/ fast'[s].data \in recent'[p]
            \/ fast'[s].created < memo'[p]
            \/ fast'[s].created < latest' /\ pc'[p] = "put"
      BY <2>0, <2>4
    <3>2. QED  BY <1>r, <2>0, <3>1 DEF Served, Early
  <2>6. QED  BY <2>1, <2>2, <2>3, <2>5
<1>12. ASSUME NEW p \in Procs, Compare(p), ~(now[p] > LastWrite(p))
       PROVE  Ordered' 
              /\ (\A s \in Servers : Explained(s)') /\ \A q \in Procs : Served(q)'
  <2>0. /\ pc[p] = "compare" /\ pc'[p] \in {"ready", "fill", "commit"} /\ now'[p] = 0
        /\ \A q \in Procs \ {p} : pc'[q] = pc[q] /\ now'[q] = now[q] /\ before'[q] = before[q]
        /\ memo'[p] = LastWrite(p) /\ \A q \in Procs \ {p} : memo'[q] = memo[q]
        /\ before'[p] = {}
        /\ UNCHANGED <<value, stamp, fast, owed, answer, recent, latest>>
    BY <1>10, <1>12 DEF Compare, Marked, TypeOK
  <2>1. Ordered'
    BY <1>o, <2>0 DEF Ordered, Early, Storing
  <2>2. now[p] <= latest
    BY <1>o, <1>t, <1>12, <2>0 DEF Early, Storing
  <2>3. \A s \in Servers : Explained(s)'
    BY <1>e, <1>t, <2>0, <2>2 DEF Explained, Untimed
  <2>4. \A q \in Procs \ {p} : Served(q)'
    BY <1>r, <1>t, <2>0, ServedOther
  <2>5. \A s \in Servers : fast[s] # Missing =>
          \/ fast[s].data \in recent[p]
          \/ fast[s].created < LastWrite(p)
          \/ fast[s].created < latest /\ LastWrite(p) = 0
    BY <1>o, <1>r, <2>0, ServedMemo DEF Early, Storing
  <2>6. Served(p)'
    BY <1>r, <2>0, <2>5 DEF Served
  <2>7. QED  BY <2>1, <2>3, <2>4, <2>6
<1>13. ASSUME NEW p \in Procs, PutStamp(p), p \notin owed
       PROVE  Ordered' 
              /\ (\A s \in Servers : Explained(s)') /\ \A q \in Procs : Served(q)'
  <2>0. /\ pc[p] = "put" /\ pc'[p] \in {"ready", "fill"} /\ stamp' = now[p]
        /\ \A q \in Procs \ {p} : pc'[q] = pc[q] /\ now'[q] = now[q] /\ before'[q] = before[q]
        /\ before'[p] = {}
        /\ UNCHANGED <<value, fast, memo, owed, answer, recent>>
    BY <1>13 DEF PutStamp, Stored, Marked, AfterMark, TypeOK
  <2>1. ~(now[p] < latest)
    BY <1>13 DEF PutStamp
  <2>2. latest' = now[p] /\ latest' >= latest /\ memo[p] = now[p]
    BY <1>o, <1>t, <1>13, <2>0, <2>1 DEF PutStamp, Stored, Ordered, Early
  <2>3. Ordered'
    <3>1. \A q \in Procs : memo'[q] <= latest' \/ Early(q)'
      BY <1>o, <1>t, <2>0, <2>2 DEF Ordered, Early, Storing
    <3>2. QED  BY <1>o, <2>0, <2>2, <3>1 DEF Ordered, Early, Storing
  <2>4. \A s \in Servers : Explained(s)'
    BY <1>e, <1>t, <2>0, <2>2 DEF Explained, Untimed
  <2>5. \A q \in Procs \ {p} : Served(q)'
    BY <1>r, <1>t, <2>0, <2>2, ServedOther
  <2>6. \A s \in Servers : fast[s] # Missing =>
          fast[s].data \in recent[p] \/ fast[s].created < memo[p]
    BY <1>r, <1>t, <2>0, <2>2 DEF Served
  <2>7. Served(p)'
    BY <1>r, <2>0, <2>6 DEF Served
  <2>8. QED  BY <2>3, <2>4, <2>5, <2>7
<1>14. ASSUME NEW p \in Procs, PutStamp(p), p \in owed
       PROVE  Ordered'
              /\ (\A s \in Servers : Explained(s)') /\ \A q \in Procs : Served(q)'
  <2>0. /\ pc[p] = "put" /\ pc'[p] = "commit" /\ \A q \in Procs \ {p} : pc'[q] = pc[q]
        /\ UNCHANGED <<value, stamp, fast, memo, now, owed, answer, before, recent, latest>>
    BY <1>14 DEF PutStamp, AfterMark, TypeOK
  <2>1. Early(p) /\ Early(p)' /\ \A q \in Procs \ {p} : Early(q)' <=> Early(q)
    BY <1>o, <2>0 DEF Early, Storing, Ordered
  <2>2. Ordered'
    BY <1>o, <2>0, <2>1 DEF Ordered
  <2>3. \A s \in Servers : Explained(s)'
    BY <1>14, <1>e, <2>0, <1>t, ExplainedQuiet DEF Pending
  <2>4. \A q \in Procs \ {p} : Served(q)'
    BY <1>r, <1>t, <2>0, ServedOther
  <2>5. Served(p)'
    BY <1>r, <2>0, <2>1 DEF Served
  <2>6. QED  BY <2>2, <2>3, <2>4, <2>5
<1>15. ASSUME NEW p \in Procs, Commit(p)
       PROVE  Ordered'
              /\ (\A s \in Servers : Explained(s)') /\ \A q \in Procs : Served(q)'
  <2>0. /\ pc[p] = "commit" /\ pc'[p] = "increment" /\ \A q \in Procs \ {p} : pc'[q] = pc[q]
        /\ \A q \in Procs \ {p} : now'[q] = now[q]
        /\ owed' = owed \ {p}
        /\ UNCHANGED <<value, fast, memo, answer, before, recent>>
    BY <1>15 DEF Commit, TypeOK
  <2>1. \/ stamp' = latest' /\ latest' = memo[p] /\ latest' >= latest
        \/ stamp' = stamp /\ latest' = latest /\ memo[p] <= latest /\ ~Early(p)
    <3>1. CASE Storing(p)
      <4>1. Stored(p) /\ ~(now[p] < latest)
        BY <1>15, <3>1, Zenon DEF Commit
      <4>2. memo[p] = now[p]
        BY <1>o, <3>1 DEF Ordered, Early
      <4>3. QED  BY <1>t, <4>1, <4>2 DEF Stored
    <3>2. CASE ~Storing(p)
      BY <1>15, <1>o, <2>0, <3>2 DEF Commit, Ordered, Early
    <3>3. QED  BY <3>1, <3>2
  <2>2. latest' \in Nat /\ latest' >= latest /\ memo[p] <= latest'
    BY <1>t, <2>1
  <2>3. ~Early(p)' /\ \A q \in Procs \ {p} : Early(q)' <=> Early(q)
    BY <2>0 DEF Early, Storing
  <2>4. Ordered'
    <3>1. \A q \in Procs : memo'[q] <= latest' \/ Early(q)'
      BY <1>o, <1>t, <2>0, <2>2, <2>3 DEF Ordered
    <3>2. \A q \in Procs : Early(q)' => memo'[q] = now'[q] /\ now'[q] > 0
      BY <1>o, <2>0, <2>3 DEF Ordered
    <3>3. QED  BY <1>o, <2>0, <2>1, <3>1, <3>2 DEF Ordered
  <2>5. \A s \in Servers : Explained(s)'
    BY <1>e, <2>0, <2>2, <1>t, ExplainedQuiet DEF Pending, Marking
  <2>6. \A q \in Procs \ {p} : Served(q)'
    BY <1>r, <1>t, <2>0, <2>2, ServedOther
  <2>7. Served(p)'
    <3>1. \A s \in Servers : fast[s] # Missing =>
            \/ fast[s].data \in recent[p]
            \/ fast[s].created < memo[p]
            \/ fast[s].created < latest' /\ memo[p] \in {Unknown, 0}
      BY <1>r, <1>t, <2>0, <2>1, <2>2 DEF Served
    <3>2. QED  BY <1>r, <2>0, <3>1 DEF Served
  <2>8. QED  BY <2>4, <2>5, <2>6, <2>7
<1>18. ASSUME NEW p \in Procs, Increment(p)
       PROVE  Ordered'
              /\ (\A s \in Servers : Explained(s)') /\ \A q \in Procs : Served(q)'
  <2>0. /\ pc[p] = "increment" /\ pc'[p] = "ready" /\ \A q \in Procs \ {p} : pc'[q] = pc[q]
        /\ value' = None
        /\ UNCHANGED <<stamp, fast, memo, now, owed, answer, latest>>
    BY <1>18 DEF Increment, TypeOK
  <2>1. /\ \A q \in Procs : Pending(q) => before'[q] = before[q] \cup {value}
        /\ \A q \in Procs : before'[q] \subseteq before[q] \cup {value}
        /\ \A q \in Procs : pc[q] # "idle" => recent'[q] = recent[q] \cup {None}
    BY <1>18 DEF Increment, Became
  <2>2. \A q \in Procs : Early(q)' <=> Early(q)
    BY <2>0 DEF Early, Storing
  <2>3. memo[p] <= latest
    BY <1>o, <2>0 DEF Ordered, Early, Storing
  <2>6. Ordered'
    BY <1>o, <2>0, <2>2 DEF Ordered
  <2>7. \A s \in Servers : fast[s] # Missing /\ fast[s].data = value => fast[s].created < memo[p]
    <3>1. ~Young(p)
      BY <1>18, Zenon DEF Increment
    <3>2. QED  BY <1>t, <3>1 DEF Young
  <2>8. ASSUME NEW s \in Servers
        PROVE  Explained(s)'
    <3>1. \A q \in Procs : Pending(q) => q # p /\ q \notin owed' /\ before[q] \subseteq before'[q]
      BY <2>0, <2>1 DEF Pending, Marking
    <3>2. CASE fast[s].data = value
      BY <1>t, <2>0, <2>3, <2>7, <3>2 DEF Explained
    <3>3. CASE \E q \in Untimed : fast[s].data \in before[q]
      BY <2>0, <3>1, <3>3 DEF Explained, Untimed, Pending, Marking
    <3>4. CASE \E q \in Procs : /\ pc[q] \in {"compare", "put"}
                                /\ fast[s].data \in before[q]
                                /\ fast[s].created < now[q]
      <4>1. PICK q \in Procs : /\ pc[q] \in {"compare", "put"}
                               /\ fast[s].data \in before[q]
                               /\ fast[s].created < now[q]
        BY <3>4
      <4>2. Pending(q)
        BY <4>1 DEF TypeOK
      <4>3. QED  BY <2>0, <3>1, <4>1, <4>2 DEF Explained
    <3>5. CASE fast[s].created < latest
      BY <1>t, <2>0, <2>3, <3>5 DEF Explained
    <3>6. CASE fast[s] = Missing
      BY <2>0, <3>6 DEF Explained
    <3>7. QED  BY <1>e, <3>2, <3>3, <3>4, <3>5, <3>6 DEF Explained
  <2>9. ASSUME NEW q \in Procs
        PROVE  Served(q)'
    <3>0. /\ pc'[q] # "idle" => pc[q] # "idle"
          /\ pc'[q] = "idle" => answer'[q] = Unknown
      BY <1>r, <2>0 DEF Served
    <3>1. pc[q] # "idle" => /\ value' \in recent'[q] /\ answer'[q] \in recent'[q] \cup {Unknown}
                            /\ \A r \in Procs : before'[r] \subseteq recent'[q]
                            /\ recent[q] \subseteq recent'[q]
      BY <1>r, <2>0, <2>1 DEF Served
    <3>2. ASSUME pc[q] # "idle", NEW s \in Servers, fast[s] # Missing
          PROVE  \/ fast[s].data \in recent'[q]
                 \/ fast[s].created < memo[q]
                 \/ fast[s].created < latest' /\ (memo[q] \in {Unknown, 0} \/ Early(q)')
      <4>1. \/ fast[s].data \in recent[q]
            \/ fast[s].created < memo[q]
            \/ fast[s].created < latest /\ (memo[q] \in {Unknown, 0} \/ Early(q))
        BY <1>r, <3>2 DEF Served
      <4>2. CASE q # p
        BY <1>t, <2>0, <2>2, <3>1, <3>2, <4>1, <4>2
      <4>3. CASE q = p
        BY <1>t, <2>0, <2>2, <2>3, <3>1, <3>2, <4>1, <4>3
      <4>4. QED  BY <4>2, <4>3
    <3>3. QED  BY <2>0, <3>0, <3>1, <3>2 DEF Served
  <2>10. QED  BY <2>6, <2>8, <2>9
<1>16. ASSUME NEW p \in Procs,
              \/ Rollback(p)
              \/ /\ pc[p] = "ready" /\ Goto(p, "now") /\ owed' \in {owed, owed \cup {p}}
                 /\ Answered(p, Unknown)
                 /\ UNCHANGED <<writes, shared, memo, got, now, history>>
       PROVE  Ordered'
              /\ (\A s \in Servers : Explained(s)') /\ \A q \in Procs : Served(q)'
  <2>0. /\ \/ pc[p] = "commit" /\ ~Storing(p) /\ pc'[p] = "ready" /\ now'[p] = 0
           \/ pc[p] = "ready" /\ pc'[p] = "now" /\ now'[p] = now[p]
        /\ \A q \in Procs \ {p} : pc'[q] = pc[q] /\ now'[q] = now[q]
        /\ owed' \subseteq owed \cup {p} /\ answer'[p] \in {answer[p], Unknown}
        /\ \A q \in Procs \ {p} : answer'[q] = answer[q]
        /\ UNCHANGED <<value, stamp, fast, memo, before, recent, latest>>
    BY <1>16 DEF Rollback, TypeOK
  <2>1. ~Early(p) /\ ~Early(p)' /\ \A q \in Procs \ {p} : Early(q)' <=> Early(q)
    BY <2>0 DEF Early, Storing
  <2>2. Ordered'
    BY <1>o, <2>0, <2>1 DEF Ordered
  <2>3. \A s \in Servers : Explained(s)'
    BY <1>e, <2>0, <1>t, ExplainedQuiet DEF Pending, Marking
  <2>4. \A q \in Procs \ {p} : Served(q)'
    BY <1>r, <1>t, <2>0, ServedOther
  <2>5. Served(p)'
    BY <1>r, <2>0, <2>1 DEF Served
  <2>6. QED  BY <2>2, <2>3, <2>4, <2>5
<1>17. QED
  BY <1>2, <1>3, <1>4, <1>5, <1>6, <1>7, <1>8, <1>9, <1>11, <1>12, <1>13, <1>14, <1>15, <1>16, <1>18
     DEF Next, Set, Delete, DeleteAll, InvalidateTags

\* The invariant holds in every state.
LEMMA Invariant ==
  Spec => []IInv
<1>1. ASSUME IInv, [Next]_vars
      PROVE  IInv'
  <2>1. CASE Next
    <3>1. TypeOK'
      BY <1>1, <2>1, TypeKept DEF IInv
    <3>2. ~raced' => Unraced'
      BY <1>1, <2>1, <3>1, RacedStays, UnracedKept DEF IInv
    <3>3. QED  BY <3>1, <3>2 DEF IInv
  <2>2. CASE UNCHANGED vars
    BY <1>1, <2>2
       DEF vars, shared, locals, history, IInv, TypeOK, Pending, Unraced, Ordered,
           Explained, Untimed, Served, Early, Storing
  <2>3. QED  BY <1>1, <2>1, <2>2
<1>2. QED  BY <1>1, Initially, PTL DEF Spec

-----------------------------------------------------------------------------
(* Theorems.                                                               *)

\* Every variable keeps its type; in particular what is to be filled is an item,
\* values replaced are remembered only for changes that are not marked yet, and
\* the timestamp is never later than the latest one stored (markAsOutdated() of
\* ChainedFastBackend).
THEOREM TypeCorrect ==
  Spec => []TypeOK
<1>1. IInv => TypeOK
  BY DEF IInv
<1>2. QED  BY <1>1, Invariant, PTL

\* Without one of the races that the module names, an item that the stored
\* timestamp lets through getMultiple() is the one in the consistent cache, for
\* any number of servers and requests and whatever the clocks show.
THEOREM FastIsFresh ==
  Spec => []Fresh
<1>1. IInv => Fresh
  <2>1. SUFFICES ASSUME IInv, ~raced, stamp > 0, \A p \in Procs : ~Pending(p),
                        NEW s \in Servers, Valid(s, stamp)
                 PROVE  fast[s].data = value
    BY DEF Fresh
  <2>2. Explained(s) /\ stamp = latest
    BY <2>1 DEF IInv, Unraced, Ordered
  <2>3. fast[s] # Missing /\ fast[s].created >= stamp /\ fast[s].created \in Nat /\ stamp \in Nat
    BY <2>1, Typed DEF Valid, IInv
  <2>4. \A q \in Procs : before[q] = {}
    BY <2>1 DEF IInv, TypeOK
  <2>5. ~(fast[s].created < latest)
    BY <2>2, <2>3
  <2>6. QED  BY <2>2, <2>3, <2>4, <2>5 DEF Explained, Untimed
<1>2. QED  BY <1>1, Invariant, PTL

\* And without one of them, what get() returns was current at some time since
\* the request began, or its replacement had not been marked by then.
THEOREM AnswersAreRecent ==
  Spec => []Recent
<1>1. IInv => Recent
  BY DEF IInv, Unraced, Served, Recent
<1>2. QED  BY <1>1, Invariant, PTL
=============================================================================
