----------------------------- MODULE BatchProofs -----------------------------
(***************************************************************************)
(* Proofs about Batch and BatchPage, for any sets, operations and bounds:  *)
(* what holds however requests meet or are killed, what holds of a batch   *)
(* that nobody disturbs, and what the page makes of it.                    *)
(***************************************************************************)
EXTENDS BatchPage, FiniteSetTheorems, TLAPS

\* What is left of each set: in the queue, or not yet finished.
Remaining == [s \in 1..Sets |-> queue[s] \cup {i \in Ops[s] : ~Last(i)}]

\* Batch c does not count less than is left, nor calls a set successful while
\* something is.
Covers(c, R) ==
  \A s \in 1..Sets :
    /\ c.count[s] >= Cardinality(R[s])
    /\ c.success[s] => R[s] = {}

\* A request that is about to take an operation off its queue counts it on top
\* of what else is left.
OwnCounted(p) ==
  /\ pc[p] \in {"work", "delete"} =>
       copy[p].count[copy[p].cur] >= Cardinality(Remaining[copy[p].cur] \ {item[p]}) + 1
  /\ pc[p] = "delete" => Last(item[p])

IInv ==
  /\ BatchTypeOK
  /\ Covers(row, Remaining)
  /\ \A p \in Requests : Covers(copy[p], Remaining) /\ OwnCounted(p)
  /\ HonestReport

-----------------------------------------------------------------------------
\* What is left of a set is finite.
LEMMA RemainingFinite ==
  ASSUME BatchTypeOK, NEW s \in 1..Sets
  PROVE  /\ Remaining[s] \subseteq Ops[s]
         /\ IsFiniteSet(Remaining[s])
         /\ Cardinality(Remaining[s]) \in Nat
<1>1. Remaining[s] \subseteq Ops[s]
  BY DEF Remaining, BatchTypeOK
<1>2. IsFiniteSet(Ops[s])
  BY OpsAssumption
<1>3. IsFiniteSet(Remaining[s])
  BY <1>1, <1>2, FS_Subset
<1>4. QED  BY <1>1, <1>3, FS_CardinalityType

\* What covers a remainder covers a smaller one.
LEMMA CoversLess ==
  ASSUME NEW c \in Batches, NEW R, NEW Q,
         \A s \in 1..Sets : IsFiniteSet(R[s]) /\ Q[s] \subseteq R[s],
         Covers(c, R)
  PROVE  Covers(c, Q)
<1> SUFFICES ASSUME NEW s \in 1..Sets
             PROVE  c.count[s] >= Cardinality(Q[s]) /\ (c.success[s] => Q[s] = {})
  BY DEF Covers
<1>1. /\ Cardinality(Q[s]) <= Cardinality(R[s])
      /\ Cardinality(Q[s]) \in Nat /\ Cardinality(R[s]) \in Nat
  BY FS_Subset, FS_CardinalityType
<1>2. c.count[s] \in Nat /\ c.count[s] >= Cardinality(R[s])
  BY DEF Covers, Batches
<1>3. c.success[s] => Q[s] = {}
  BY DEF Covers
<1>4. QED  BY <1>1, <1>2, <1>3

\* Nothing comes back to what is left while queues lose items and calls are made.
LEMMA RemainingShrinks ==
  ASSUME BatchTypeOK, BatchTypeOK',
         \A s \in 1..Sets : queue'[s] \subseteq queue[s],
         ran \subseteq ran'
  PROVE  /\ \A s \in 1..Sets : Remaining'[s] \subseteq Remaining[s]
         /\ \A i : Last(i) => Last(i)'
<1>1. \A i : Last(i) => Last(i)'
  BY DEF Last
<1>2. ASSUME NEW s \in 1..Sets
      PROVE  Remaining'[s] \subseteq Remaining[s]
  BY <1>1, <1>2 DEF Remaining
<1>3. QED  BY <1>1, <1>2

\* The counting of a request that does nothing holds on.
LEMMA OwnCountedKept ==
  ASSUME BatchTypeOK, BatchTypeOK', NEW q \in Requests,
         \A s \in 1..Sets : queue'[s] \subseteq queue[s],
         ran \subseteq ran',
         pc'[q] = pc[q], copy'[q] = copy[q], item'[q] = item[q],
         OwnCounted(q)
  PROVE  OwnCounted(q)'
<1>1. (pc[q] = "delete" => Last(item[q]))'
  BY DEF OwnCounted, Last
<1>2. ASSUME pc[q] \in {"work", "delete"}
      PROVE  copy[q].count[copy[q].cur]
               >= Cardinality(Remaining'[copy[q].cur] \ {item[q]}) + 1
  <2> DEFINE s == copy[q].cur
             R == Remaining[s] \ {item[q]}
             Q == Remaining'[s] \ {item[q]}
  <2>1. s \in 1..Sets /\ copy[q].count[s] \in Nat
    BY DEF BatchTypeOK, Batches
  <2>2. Q \subseteq R
    BY <2>1, RemainingShrinks
  <2>3. IsFiniteSet(R)
    BY <2>1, RemainingFinite, FS_RemoveElement
  <2>4. Cardinality(Q) <= Cardinality(R) /\ Cardinality(Q) \in Nat /\ Cardinality(R) \in Nat
    BY <2>2, <2>3, FS_Subset, FS_CardinalityType
  <2>5. copy[q].count[s] >= Cardinality(R) + 1
    BY <1>2 DEF OwnCounted
  <2>6. QED  BY <2>1, <2>4, <2>5
<1>3. QED  BY <1>1, <1>2 DEF OwnCounted

\* A step of one request keeps the invariant if it keeps the types, takes no
\* item back, stores its own copy at most, and covers what is left by its copy.
LEMMA StepKeeps ==
  ASSUME IInv, BatchTypeOK', NEW p \in Requests,
         \A s \in 1..Sets : queue'[s] \subseteq queue[s],
         ran \subseteq ran',
         row' = row \/ row' = copy[p],
         \A q \in Requests \ {p} :
           pc'[q] = pc[q] /\ copy'[q] = copy[q] /\ item'[q] = item[q],
         Covers(copy'[p], Remaining'),
         OwnCounted(p)',
         HonestReport'
  PROVE  IInv'
<1>1. \A s \in 1..Sets : IsFiniteSet(Remaining[s]) /\ Remaining'[s] \subseteq Remaining[s]
  BY RemainingFinite, RemainingShrinks DEF IInv
<1>2. Covers(row, Remaining') /\ \A q \in Requests : Covers(copy[q], Remaining')
  BY <1>1, CoversLess DEF IInv, BatchTypeOK
<1>3. Covers(row', Remaining')
  BY <1>2
<1>4. ASSUME NEW q \in Requests
      PROVE  Covers(copy'[q], Remaining') /\ OwnCounted(q)'
  <2>1. CASE q = p
    BY <2>1
  <2>2. CASE q # p
    BY <1>2, <2>2, OwnCountedKept DEF IInv
  <2>3. QED  BY <2>1, <2>2
<1>5. QED  BY <1>3, <1>4 DEF IInv

\* Reports stay true as calls are made.
LEMMA ReportsKept ==
  ASSUME IInv, BatchTypeOK',
         \A s \in 1..Sets : queue'[s] \subseteq queue[s],
         ran \subseteq ran', reported' = reported
  PROVE  HonestReport'
<1> SUFFICES ASSUME NEW r \in reported', r.success
             PROVE  /\ ~r.left
                    /\ \A i \in Ops[r.set] : \E c \in ran' : c[1] = i /\ c[2] >= Passes[i]
  BY DEF HonestReport, Last
<1>1. QED  BY DEF IInv, HonestReport, Last

-----------------------------------------------------------------------------
\* A new batch is a batch, and counts all its operations.
LEMMA NewBatchCovers ==
  /\ NewBatch \in Batches
  /\ BatchTypeOK => Covers(NewBatch, Remaining)
<1>1. NewBatch \in Batches
  <2>1. \A s \in 1..Sets : Cardinality(Ops[s]) \in Nat
    BY OpsAssumption, FS_CardinalityType
  <2>2. 1 \in 1..Sets
    BY SetsAssumption
  <2>3. QED  BY <2>1, <2>2 DEF NewBatch, Batches
<1>2. ASSUME BatchTypeOK, NEW s \in 1..Sets
      PROVE  NewBatch.count[s] >= Cardinality(Remaining[s]) /\ ~NewBatch.success[s]
  <2>1. Remaining[s] \subseteq Ops[s] /\ IsFiniteSet(Ops[s])
    BY <1>2, RemainingFinite, OpsAssumption
  <2>2. /\ Cardinality(Remaining[s]) <= Cardinality(Ops[s])
        /\ Cardinality(Remaining[s]) \in Nat /\ Cardinality(Ops[s]) \in Nat
    BY <2>1, FS_Subset, FS_CardinalityType
  <2>3. QED  BY <2>2 DEF NewBatch
<1>3. QED  BY <1>1, <1>2 DEF Covers

\* The invariant holds of a new batch.
LEMMA Initially == BatchInit => IInv
<1> SUFFICES ASSUME BatchInit PROVE IInv
  OBVIOUS
<1>1. BatchTypeOK
  <2>1. queue \in [1..Sets -> SUBSET Items] /\ \A s \in 1..Sets : queue[s] \subseteq Ops[s]
    BY DEF BatchInit, Items
  <2>2. faults \in 0..MaxFaults /\ kills \in 0..MaxKills
    BY BoundsAssumption DEF BatchInit
  <2>3. /\ pc \in [Requests -> Labels] /\ \A p \in Requests : pc[p] \notin {"work", "delete"}
        /\ op \in [Requests -> Operations]
        /\ answer \in [Requests -> Answers]
    BY DEF BatchInit, Labels, Operations, Answers
  <2>4. /\ row \in Batches /\ copy \in [Requests -> Batches]
        /\ item \in [Requests -> Items \cup {0}]
        /\ fin \in [Requests -> {-1, 0, 1}]
    BY NewBatchCovers DEF BatchInit
  <2>5. QED  BY <2>1, <2>2, <2>3, <2>4 DEF BatchInit, BatchTypeOK
<1>2. Covers(row, Remaining) /\ \A p \in Requests : Covers(copy[p], Remaining)
  BY <1>1, NewBatchCovers DEF BatchInit
<1>3. \A p \in Requests : OwnCounted(p)
  BY DEF BatchInit, OwnCounted
<1>4. HonestReport
  BY DEF BatchInit, HonestReport
<1>5. QED  BY <1>1, <1>2, <1>3, <1>4 DEF IInv

\* The changes that a request makes to its copy give a batch again.
LEMMA BatchChanges ==
  ASSUME NEW c \in Batches, NEW s \in 1..Sets, NEW b \in BOOLEAN, NEW n \in Nat
  PROVE  /\ [c EXCEPT !.running = b] \in Batches
         /\ [c EXCEPT !.cur = s] \in Batches
         /\ [c EXCEPT !.count = [c.count EXCEPT ![s] = n]] \in Batches
         /\ [c EXCEPT !.success = [c.success EXCEPT ![s] = b]] \in Batches
         /\ [c EXCEPT !.box = [c.box EXCEPT ![s] = n]] \in Batches
<1>1. [c.success EXCEPT ![s] = b] \in [1..Sets -> BOOLEAN]
  BY DEF Batches
<1>2. [c.count EXCEPT ![s] = n] \in [1..Sets -> Nat] /\ [c.box EXCEPT ![s] = n] \in [1..Sets -> Nat]
  BY DEF Batches
<1>3. QED  BY <1>1, <1>2 DEF Batches

\* A request that ends, or is killed, keeps its types.
LEMMA ForgetType ==
  ASSUME BatchTypeOK, NEW p \in Requests, Forget(p)
  PROVE  /\ copy' \in [Requests -> Batches]
         /\ item' \in [Requests -> Items \cup {0}]
         /\ fin' \in [Requests -> {-1, 0, 1}]
         /\ \A q \in Requests \ {p} : copy'[q] = copy[q] /\ item'[q] = item[q]
         /\ copy'[p] = NewBatch
BY NewBatchCovers DEF Forget, BatchTypeOK

\* The copy of a request that has finished an operation.
LEMMA DeleteItemCopy ==
  ASSUME IInv, NEW p \in Requests, DeleteItem(p)
  PROVE  /\ copy' \in [Requests -> Batches]
         /\ \A q \in Requests \ {p} : copy'[q] = copy[q]
         /\ copy'[p].cur = copy[p].cur
         /\ copy'[p].success = copy[p].success
         /\ copy'[p].count =
              [copy[p].count EXCEPT ![copy[p].cur] = copy[p].count[copy[p].cur] - 1]
         /\ copy'[p].box = [copy[p].box EXCEPT ![copy[p].cur] = 0]
<1> DEFINE s == copy[p].cur
           c == [copy[p] EXCEPT !.count = [copy[p].count EXCEPT ![s] = copy[p].count[s] - 1]]
           d == [c EXCEPT !.box = [c.box EXCEPT ![s] = 0]]
<1>1. copy[p] \in Batches /\ s \in 1..Sets /\ copy[p].count[s] \in Nat
  BY DEF IInv, BatchTypeOK, Batches
<1>2. copy[p].count[s] - 1 \in Nat
  <2>1. copy[p].count[s] >= Cardinality(Remaining[s] \ {item[p]}) + 1
    BY DEF IInv, OwnCounted, DeleteItem
  <2>2. Cardinality(Remaining[s] \ {item[p]}) \in Nat
    BY <1>1, RemainingFinite, FS_RemoveElement, FS_CardinalityType DEF IInv
  <2>3. QED  BY <1>1, <2>1, <2>2
<1>3. c \in Batches
  BY <1>1, <1>2, BatchChanges
<1>4. d \in Batches
  BY <1>1, <1>3, BatchChanges
<1>5. copy' = [copy EXCEPT ![p] = d]
  BY <1>1 DEF DeleteItem, IInv, BatchTypeOK, Batches
<1>6. d.cur = s /\ d.success = copy[p].success /\ d.count = c.count
      /\ d.box = [c.box EXCEPT ![s] = 0]
  BY <1>1, <1>3 DEF Batches
<1>7. /\ c.count = [copy[p].count EXCEPT ![s] = copy[p].count[s] - 1]
      /\ c.box = copy[p].box
  BY <1>1 DEF Batches
<1>8. QED  BY <1>4, <1>5, <1>6, <1>7 DEF IInv, BatchTypeOK

\* The copy of a request that goes on to the next set.
LEMMA NextSetCopy ==
  ASSUME BatchTypeOK, NEW p \in Requests, NextSet(p)
  PROVE  /\ copy' \in [Requests -> Batches]
         /\ \A q \in Requests \ {p} : copy'[q] = copy[q]
         /\ copy'[p].count = copy[p].count
         /\ copy'[p].success = [copy[p].success EXCEPT ![copy[p].cur] = TRUE]
         /\ copy'[p].box = copy[p].box
         /\ copy'[p].cur = copy[p].cur + 1
<1> DEFINE s == copy[p].cur
           c == [copy[p] EXCEPT !.success = [copy[p].success EXCEPT ![s] = TRUE]]
           d == [c EXCEPT !.cur = s + 1]
<1>1. copy[p] \in Batches /\ s \in 1..Sets /\ s + 1 \in 1..Sets
  BY SetsAssumption DEF BatchTypeOK, Batches, NextSet
<1>2. c \in Batches
  BY <1>1, BatchChanges
<1>3. d \in Batches
  BY <1>1, <1>2, BatchChanges
<1>4. copy' = [copy EXCEPT ![p] = d]
  BY <1>1 DEF NextSet, BatchTypeOK, Batches
<1>5. d.count = copy[p].count /\ d.success = c.success /\ d.box = copy[p].box /\ d.cur = s + 1
  BY <1>1, <1>2 DEF Batches
<1>6. c.success = [copy[p].success EXCEPT ![s] = TRUE]
  BY <1>1 DEF Batches
<1>7. QED  BY <1>3, <1>4, <1>5, <1>6 DEF BatchTypeOK

\* Every step keeps the types.
LEMMA TypeKept ==
  ASSUME IInv, BatchNext
  PROVE  BatchTypeOK'
<1> USE DEF IInv, Goto, Answer, table, locals, history
<1>1. ASSUME NEW p \in Requests, NEW o \in Operations, Arrive(p, o)
      PROVE  BatchTypeOK'
  BY <1>1 DEF Arrive, BatchTypeOK, Labels
<1>2. ASSUME NEW p \in Requests, Load(p)
      PROVE  BatchTypeOK'
  <2>1. copy' \in [Requests -> Batches]
    <3> DEFINE b == row.running \/ op[p] = "start"
    <3>1. \/ copy' = copy
          \/ copy' = [copy EXCEPT ![p] = [row EXCEPT !.running = b]]
      BY <1>2 DEF Load
    <3>2. b \in BOOLEAN /\ row \in Batches /\ 1 \in 1..Sets /\ 0 \in Nat
      BY SetsAssumption DEF BatchTypeOK
    <3>3. [row EXCEPT !.running = b] \in Batches
      BY <3>2, BatchChanges
    <3>4. QED  BY <3>1, <3>3 DEF BatchTypeOK
  <2>2. /\ pc' \in [Requests -> Labels] /\ answer' \in [Requests -> Answers]
        /\ pc'[p] \notin {"work", "delete"}
        /\ \A q \in Requests \ {p} : pc'[q] = pc[q] /\ copy'[q] = copy[q]
    BY <1>2 DEF Load, BatchTypeOK, Labels, Processing, Finishing, Answers
  <2>3. QED  BY <1>2, <2>1, <2>2 DEF Load, BatchTypeOK
<1>3. ASSUME NEW p \in Requests, Claim(p)
      PROVE  BatchTypeOK'
  <2>1. copy[p].cur \in 1..Sets
    BY DEF BatchTypeOK, Batches
  <2>2. CASE queue[copy[p].cur] # {}
    <3>1. PICK i \in queue[copy[p].cur] : item' = [item EXCEPT ![p] = i]
      BY <1>3, <2>2 DEF Claim
    <3>2. i \in Ops[copy[p].cur] /\ i \in Items
      BY <2>1 DEF BatchTypeOK, Items
    <3>3. pc' = [pc EXCEPT ![p] = "work"] /\ fin' = fin
      BY <1>3, <2>2 DEF Claim
    <3>4. QED  BY <1>3, <3>1, <3>2, <3>3 DEF Claim, BatchTypeOK, Labels, Processing
  <2>3. CASE queue[copy[p].cur] = {}
    BY <1>3, <2>3 DEF Claim, BatchTypeOK, Labels, Processing
  <2>4. QED  BY <2>2, <2>3
<1>4. ASSUME NEW p \in Requests, Call(p)
      PROVE  BatchTypeOK'
  <2> DEFINE s == copy[p].cur
             n == copy[p].box[s] + 1
  <2>1. copy[p] \in Batches /\ s \in 1..Sets /\ n \in Nat /\ item[p] \in Items
    <3>1. copy[p] \in Batches
      BY DEF BatchTypeOK
    <3>2. s \in 1..Sets /\ copy[p].box[s] \in Nat
      BY <3>1 DEF Batches
    <3>3. item[p] \in Ops[s]
      BY <1>4 DEF Call, BatchTypeOK
    <3>4. QED  BY <3>1, <3>2, <3>3 DEF Items
  <2>2. /\ copy' \in [Requests -> Batches]
        /\ \A q \in Requests : copy'[q].cur = copy[q].cur
    <3> DEFINE c == [copy[p] EXCEPT !.box = [copy[p].box EXCEPT ![s] = n]]
    <3>1. copy' = [copy EXCEPT ![p] = c]
      BY <1>4, <2>1 DEF Call, BatchTypeOK, Batches
    <3>2. c \in Batches
      BY <2>1, BatchChanges
    <3>3. c.cur = s
      BY <2>1 DEF Batches
    <3>4. QED  BY <3>1, <3>2, <3>3 DEF BatchTypeOK
  <2>3. ran' \subseteq (Items \X Nat)
    BY <1>4, <2>1 DEF Call, BatchTypeOK
  <2>4. QED  BY <1>4, <2>2, <2>3 DEF Call, BatchTypeOK, Labels, Processing
<1>5. ASSUME NEW p \in Requests, CallFails(p)
      PROVE  BatchTypeOK'
  BY <1>5, BoundsAssumption DEF CallFails, BatchTypeOK, Labels, Processing, Answers
<1>6. ASSUME NEW p \in Requests, DeleteItem(p)
      PROVE  BatchTypeOK'
  <2>1. copy' \in [Requests -> Batches]
    BY <1>6, DeleteItemCopy
  <2>2. /\ queue' \in [1..Sets -> SUBSET Items]
        /\ \A s \in 1..Sets : queue'[s] \subseteq Ops[s]
    BY <1>6 DEF DeleteItem, BatchTypeOK
  <2>3. QED  BY <1>6, <2>1, <2>2, DeleteItemCopy DEF DeleteItem, BatchTypeOK, Labels, Processing
<1>7. ASSUME NEW p \in Requests, NextSet(p)
      PROVE  BatchTypeOK'
  BY <1>7, NextSetCopy DEF NextSet, BatchTypeOK
<1>8. ASSUME NEW p \in Requests, EndTurn(p)
      PROVE  BatchTypeOK'
  BY <1>8 DEF EndTurn, BatchTypeOK, Batches, Labels, Processing, Answers
<1>9. ASSUME NEW p \in Requests, Save(p)
      PROVE  BatchTypeOK'
  BY <1>9, ForgetType DEF Save, BatchTypeOK, Labels
<1>10. ASSUME NEW p \in Requests, Callbacks(p)
       PROVE  BatchTypeOK'
  <2>1. \A s \in 1..Sets : copy[p].success[s] \in BOOLEAN
    BY DEF BatchTypeOK, Batches
  <2>2. reported' \subseteq [set : 1..Sets, success : BOOLEAN, left : BOOLEAN]
    <3>1. \A s \in 1..Sets :
            [set |-> s, success |-> copy[p].success[s], left |-> queue[s] # {}]
              \in [set : 1..Sets, success : BOOLEAN, left : BOOLEAN]
      BY <2>1
    <3>2. \A r \in reported' : r \in reported \/ \E s \in 1..Sets :
            r = [set |-> s, success |-> copy[p].success[s], left |-> queue[s] # {}]
      BY <1>10 DEF Callbacks
    <3>3. reported \subseteq [set : 1..Sets, success : BOOLEAN, left : BOOLEAN]
      BY DEF BatchTypeOK
    <3>4. QED  BY <3>1, <3>2, <3>3
  <2>3. QED  BY <1>10, <2>2 DEF Callbacks, BatchTypeOK, Labels, Finishing
<1>11. ASSUME NEW p \in Requests, DeleteRow(p)
       PROVE  BatchTypeOK'
  BY <1>11 DEF DeleteRow, BatchTypeOK, Labels, Finishing
<1>12. ASSUME NEW p \in Requests, DeleteQueues(p)
       PROVE  BatchTypeOK'
  BY <1>12, ForgetType DEF DeleteQueues, BatchTypeOK, Labels, Answers
<1>13. ASSUME NEW p \in Requests, Respond(p)
       PROVE  BatchTypeOK'
  BY <1>13 DEF Respond, BatchTypeOK, Labels, Answers
<1>14. ASSUME NEW p \in Requests, Kill(p)
       PROVE  BatchTypeOK'
  BY <1>14, ForgetType, BoundsAssumption DEF Kill, BatchTypeOK, Labels, Answers
<1>15. QED  BY <1>1, <1>2, <1>3, <1>4, <1>5, <1>6, <1>7, <1>8, <1>9, <1>10, <1>11, <1>12, <1>13, <1>14 DEF BatchNext, Work

-----------------------------------------------------------------------------
\* What is left stays as it is while no queue changes and no call is made.
LEMMA RemainingSame ==
  ASSUME queue' = queue, ran' = ran
  PROVE  Remaining' = Remaining
BY DEF Remaining, Last

\* A step that makes no call and no report, and leaves the table alone.
LEMMA PrivateStepKeeps ==
  ASSUME IInv, BatchTypeOK', NEW p \in Requests,
         queue' = queue, ran' = ran, row' = row \/ row' = copy[p],
         reported' = reported,
         \A q \in Requests \ {p} :
           pc'[q] = pc[q] /\ copy'[q] = copy[q] /\ item'[q] = item[q],
         Covers(copy'[p], Remaining),
         pc'[p] \notin {"work", "delete"}
  PROVE  IInv'
<1>1. Covers(copy'[p], Remaining')
  BY RemainingSame
<1>2. OwnCounted(p)'
  BY DEF OwnCounted
<1>3. HonestReport'
  BY ReportsKept
<1>4. QED  BY <1>1, <1>2, <1>3, StepKeeps

\* A counter at 0 leaves nothing: the set can be marked successful.
LEMMA NothingLeft ==
  ASSUME IInv, NEW p \in Requests, NEW s \in 1..Sets, copy[p].count[s] = 0
  PROVE  Remaining[s] = {}
<1>1. Cardinality(Remaining[s]) = 0
  BY RemainingFinite DEF IInv, Covers
<1>2. QED  BY <1>1, RemainingFinite, FS_EmptySet DEF IInv

\* Every step keeps the invariant.
LEMMA InvKept ==
  ASSUME IInv, BatchNext
  PROVE  IInv'
<1> USE DEF Goto, Answer, table, locals, history
<1>0. BatchTypeOK' /\ BatchTypeOK
  BY TypeKept DEF IInv
<1>a. \A p \in Requests :
        copy[p] \in Batches /\ Covers(copy[p], Remaining) /\ copy[p].cur \in 1..Sets
  BY DEF IInv, BatchTypeOK, Batches
<1>1. ASSUME NEW p \in Requests, NEW o \in Operations, Arrive(p, o)
      PROVE  IInv'
  BY <1>0, <1>1, <1>a, PrivateStepKeeps DEF Arrive, BatchTypeOK
<1>2. ASSUME NEW p \in Requests, Load(p)
      PROVE  IInv'
  <2>1. Covers(copy'[p], Remaining)
    <3>1. \/ copy' = copy
          \/ copy' = [copy EXCEPT ![p] = [row EXCEPT !.running = row.running \/ op[p] = "start"]]
      BY <1>2 DEF Load
    <3>2. \/ copy'[p] = copy[p]
          \/ copy'[p].count = row.count /\ copy'[p].success = row.success
      BY <1>0, <3>1 DEF BatchTypeOK, Batches
    <3>3. Covers(row, Remaining)
      BY DEF IInv
    <3>4. QED  BY <1>a, <3>2, <3>3 DEF Covers
  <2>2. /\ pc'[p] \notin {"work", "delete"}
        /\ \A q \in Requests \ {p} :
             pc'[q] = pc[q] /\ copy'[q] = copy[q] /\ item'[q] = item[q]
    BY <1>0, <1>2 DEF Load, BatchTypeOK
  <2>3. QED  BY <1>0, <1>2, <2>1, <2>2, PrivateStepKeeps DEF Load
<1>3. ASSUME NEW p \in Requests, Claim(p)
      PROVE  IInv'
  <2> DEFINE s == copy[p].cur
  <2>1. \A q \in Requests \ {p} :
          pc'[q] = pc[q] /\ copy'[q] = copy[q] /\ item'[q] = item[q]
    BY <1>0, <1>3 DEF Claim, BatchTypeOK
  <2>2. CASE queue[s] = {}
    <3>1. pc'[p] = "sets"
      BY <1>0, <1>3, <2>2 DEF Claim, BatchTypeOK
    <3>2. QED  BY <1>0, <1>3, <1>a, <2>1, <3>1, PrivateStepKeeps DEF Claim
  <2>3. CASE queue[s] # {}
    <3>1. item'[p] \in queue[s] /\ pc'[p] = "work"
      BY <1>0, <1>3, <2>3 DEF Claim, BatchTypeOK
    <3>2. item'[p] \in Remaining[s]
      BY <1>a, <3>1 DEF Remaining
    <3>3. /\ IsFiniteSet(Remaining[s]) /\ Cardinality(Remaining[s]) \in Nat
          /\ copy[p].count[s] \in Nat /\ copy[p].count[s] >= Cardinality(Remaining[s])
      BY <1>0, <1>a, RemainingFinite DEF Covers, Batches
    <3>4. Cardinality(Remaining[s] \ {item'[p]}) = Cardinality(Remaining[s]) - 1
      BY <3>2, <3>3, FS_RemoveElement
    <3>5. copy[p].count[s] >= Cardinality(Remaining[s] \ {item'[p]}) + 1
      BY <3>3, <3>4
    <3>6. Remaining' = Remaining
      BY <1>3, RemainingSame DEF Claim
    <3>7. OwnCounted(p)'
      BY <1>3, <3>1, <3>5, <3>6 DEF OwnCounted, Claim
    <3>8. HonestReport'
      BY <1>0, <1>3, ReportsKept DEF Claim
    <3>9. QED  BY <1>0, <1>3, <1>a, <2>1, <3>6, <3>7, <3>8, StepKeeps DEF Claim
  <2>4. QED  BY <2>2, <2>3
<1>4. ASSUME NEW p \in Requests, Call(p)
      PROVE  IInv'
  <2> DEFINE s == copy[p].cur
             i == item[p]
             n == copy[p].box[s] + 1
  <2>1. /\ queue' = queue /\ row' = row /\ item' = item /\ reported' = reported
        /\ ran' = ran \cup {<<i, n>>}
        /\ \A q \in Requests \ {p} :
             pc'[q] = pc[q] /\ copy'[q] = copy[q] /\ item'[q] = item[q]
    BY <1>0, <1>4 DEF Call, BatchTypeOK
  <2>2. copy'[p].count = copy[p].count /\ copy'[p].success = copy[p].success /\ copy'[p].cur = s
    <3> DEFINE c == [copy[p] EXCEPT !.box = [copy[p].box EXCEPT ![s] = n]]
    <3>1. copy' = [copy EXCEPT ![p] = c]
      BY <1>0, <1>4, <1>a DEF Call, BatchTypeOK, Batches
    <3>2. copy'[p] = c
      BY <1>0, <3>1 DEF BatchTypeOK
    <3>3. c.count = copy[p].count /\ c.success = copy[p].success /\ c.cur = s
      BY <1>a DEF Batches
    <3>4. QED  BY <3>2, <3>3
  <2>3. \A t \in 1..Sets : Remaining'[t] \subseteq Remaining[t] /\ IsFiniteSet(Remaining[t])
    BY <1>0, <2>1, RemainingShrinks, RemainingFinite
  <2>4. Covers(copy'[p], Remaining')
    <3>1. Covers(copy[p], Remaining')
      BY <1>a, <2>3, CoversLess
    <3>2. QED  BY <2>2, <3>1 DEF Covers
  <2>5. OwnCounted(p)'
    <3> DEFINE R == Remaining[s] \ {i}
               Q == Remaining'[s] \ {i}
    <3>1. copy[p].count[s] >= Cardinality(R) + 1 /\ copy[p].count[s] \in Nat
      BY <1>4, <1>a DEF IInv, OwnCounted, Call, Batches
    <3>2. Q \subseteq R /\ IsFiniteSet(R)
      BY <1>a, <2>3, FS_RemoveElement
    <3>3. Cardinality(Q) <= Cardinality(R) /\ Cardinality(Q) \in Nat /\ Cardinality(R) \in Nat
      BY <3>2, FS_Subset, FS_CardinalityType
    <3>4. copy[p].count[s] >= Cardinality(Q) + 1
      BY <3>1, <3>3
    <3>5. pc'[p] = "delete" => n >= Passes[i]
      BY <1>0, <1>4 DEF Call, BatchTypeOK
    <3>6. <<i, n>> \in ran'
      BY <2>1
    <3>7. pc'[p] = "delete" => \E c \in ran' : c[1] = i /\ c[2] >= Passes[i]
      BY <3>5, <3>6
    <3>8. QED  BY <2>1, <2>2, <3>4, <3>7 DEF OwnCounted, Last
  <2>6. HonestReport'
    BY <1>0, <2>1, ReportsKept
  <2>7. QED  BY <1>0, <2>1, <2>4, <2>5, <2>6, StepKeeps
<1>5. ASSUME NEW p \in Requests, CallFails(p)
      PROVE  IInv'
  BY <1>0, <1>5, <1>a, PrivateStepKeeps DEF CallFails, BatchTypeOK
<1>6. ASSUME NEW p \in Requests, DeleteItem(p)
      PROVE  IInv'
  <2> DEFINE s == copy[p].cur
             i == item[p]
  <2>1. /\ queue' = [queue EXCEPT ![s] = queue[s] \ {i}]
        /\ row' = row /\ item' = item /\ ran' = ran /\ reported' = reported
        /\ pc'[p] = "sets"
        /\ \A q \in Requests \ {p} :
             pc'[q] = pc[q] /\ copy'[q] = copy[q] /\ item'[q] = item[q]
    BY <1>0, <1>6, DeleteItemCopy DEF DeleteItem, BatchTypeOK
  <2>2. \A t \in 1..Sets : queue'[t] \subseteq queue[t]
    BY <1>0, <2>1 DEF BatchTypeOK
  <2>3. \A t \in 1..Sets : Remaining'[t] \subseteq Remaining[t] /\ IsFiniteSet(Remaining[t])
    BY <1>0, <2>1, <2>2, RemainingShrinks, RemainingFinite
  <2>4. Remaining'[s] \subseteq Remaining[s] \ {i}
    <3>1. \E c \in ran' : c[1] = i /\ c[2] >= Passes[i]
      BY <1>6, <2>1 DEF IInv, OwnCounted, DeleteItem, Last
    <3>2. i \notin queue'[s]
      BY <1>0, <1>a, <2>1 DEF BatchTypeOK
    <3>3. i \notin Remaining'[s]
      BY <1>a, <3>1, <3>2 DEF Remaining, Last
    <3>4. QED  BY <1>a, <2>3, <3>3
  <2>5. copy'[p].count[s] >= Cardinality(Remaining'[s])
    <3> DEFINE R == Remaining[s] \ {i}
    <3>1. copy[p].count[s] >= Cardinality(R) + 1 /\ copy[p].count[s] \in Nat
      BY <1>6, <1>a DEF IInv, OwnCounted, DeleteItem, Batches
    <3>2. IsFiniteSet(R)
      BY <1>a, <2>3, FS_RemoveElement
    <3>3. /\ Cardinality(Remaining'[s]) <= Cardinality(R)
          /\ Cardinality(Remaining'[s]) \in Nat /\ Cardinality(R) \in Nat
      BY <2>4, <3>2, FS_Subset, FS_CardinalityType
    <3>4. copy'[p].count[s] = copy[p].count[s] - 1
      BY <1>6, <1>a, DeleteItemCopy DEF Batches
    <3>5. QED  BY <3>1, <3>3, <3>4
  <2>6. Covers(copy'[p], Remaining')
    <3>1. Covers(copy[p], Remaining')
      BY <1>a, <2>3, CoversLess
    <3>2. copy'[p].success = copy[p].success
      BY <1>6, DeleteItemCopy
    <3>3. \A t \in 1..Sets : t # s => copy'[p].count[t] = copy[p].count[t]
      BY <1>6, <1>a, DeleteItemCopy DEF Batches
    <3>4. QED  BY <2>5, <3>1, <3>2, <3>3 DEF Covers
  <2>7. OwnCounted(p)'
    BY <2>1 DEF OwnCounted
  <2>8. HonestReport'
    BY <1>0, <2>1, <2>2, ReportsKept
  <2>9. QED  BY <1>0, <2>1, <2>2, <2>6, <2>7, <2>8, StepKeeps
<1>7. ASSUME NEW p \in Requests, NextSet(p)
      PROVE  IInv'
  <2> DEFINE s == copy[p].cur
  <2>1. Remaining[s] = {}
    BY <1>7, <1>a, NothingLeft DEF NextSet
  <2>2. /\ copy'[p].count = copy[p].count
        /\ copy'[p].success = [copy[p].success EXCEPT ![s] = TRUE]
        /\ \A q \in Requests \ {p} : copy'[q] = copy[q]
    BY <1>0, <1>7, NextSetCopy
  <2>3. Covers(copy'[p], Remaining)
    <3> SUFFICES ASSUME NEW t \in 1..Sets
                 PROVE  /\ copy'[p].count[t] >= Cardinality(Remaining[t])
                        /\ copy'[p].success[t] => Remaining[t] = {}
      BY DEF Covers
    <3>1. copy[p].count[t] >= Cardinality(Remaining[t])
      BY <1>a DEF Covers
    <3>2. t # s => copy'[p].success[t] = copy[p].success[t]
      BY <1>a, <2>2 DEF Batches
    <3>3. copy[p].success[t] => Remaining[t] = {}
      BY <1>a DEF Covers
    <3>4. QED  BY <2>1, <2>2, <3>1, <3>2, <3>3
  <2>4. /\ pc' = pc /\ item' = item /\ queue' = queue /\ ran' = ran /\ row' = row
        /\ reported' = reported /\ pc[p] = "sets"
    BY <1>7 DEF NextSet
  <2>5. QED  BY <1>0, <2>2, <2>3, <2>4, PrivateStepKeeps
<1>8. ASSUME NEW p \in Requests, EndTurn(p)
      PROVE  IInv'
  <2> DEFINE s == copy[p].cur
             b == copy[p].success[s] \/ copy[p].count[s] = 0
             c == [copy[p] EXCEPT !.success[s] = b]
  <2>1. copy' = [copy EXCEPT ![p] = c]
    BY <1>8 DEF EndTurn
  <2>2. b => Remaining[s] = {}
    BY <1>a, NothingLeft DEF Covers
  <2>3. c.count = copy[p].count /\ c.success = [copy[p].success EXCEPT ![s] = b]
    BY <1>a DEF Batches
  <2>4. Covers(c, Remaining)
    BY <1>a, <2>2, <2>3 DEF Covers, Batches
  <2>5. copy'[p] = c /\ \A q \in Requests \ {p} : copy'[q] = copy[q]
    BY <1>0, <2>1 DEF BatchTypeOK
  <2>6. pc'[p] \notin {"work", "delete"} /\ \A q \in Requests \ {p} : pc'[q] = pc[q]
    BY <1>0, <1>8 DEF EndTurn, BatchTypeOK
  <2>7. QED  BY <1>0, <1>8, <2>4, <2>5, <2>6, PrivateStepKeeps DEF EndTurn
<1>9. ASSUME NEW p \in Requests, Save(p)
      PROVE  IInv'
  BY <1>0, <1>9, ForgetType, NewBatchCovers, PrivateStepKeeps DEF Save, BatchTypeOK
<1>10. ASSUME NEW p \in Requests, Callbacks(p)
       PROVE  IInv'
  <2> DEFINE told(s) ==
        [set |-> s, success |-> copy[p].success[s], left |-> queue[s] # {}]
  <2>1. /\ queue' = queue /\ row' = row /\ item' = item /\ copy' = copy /\ ran' = ran
        /\ reported' = reported \cup {told(s) : s \in 1..Sets}
        /\ pc'[p] = "deleteRow"
        /\ \A q \in Requests \ {p} : pc'[q] = pc[q]
    BY <1>0, <1>10 DEF Callbacks, BatchTypeOK
  <2>2. Remaining' = Remaining
    BY <2>1, RemainingSame
  <2>3. HonestReport'
    <3> SUFFICES ASSUME NEW r \in reported', r.success
                 PROVE  /\ ~r.left
                        /\ \A i \in Ops[r.set] : \E c \in ran : c[1] = i /\ c[2] >= Passes[i]
      BY <2>1 DEF HonestReport, Last
    <3>1. CASE r \in reported
      BY <3>1 DEF IInv, HonestReport, Last
    <3>2. ASSUME NEW s \in 1..Sets, r = told(s)
          PROVE  /\ ~r.left
                 /\ \A i \in Ops[r.set] : \E c \in ran : c[1] = i /\ c[2] >= Passes[i]
      <4>1. Remaining[s] = {}
        BY <1>a, <3>2 DEF Covers
      <4>2. queue[s] = {} /\ \A i \in Ops[s] : Last(i)
        BY <4>1 DEF Remaining
      <4>3. QED  BY <3>2, <4>2 DEF Last
    <3>3. QED  BY <2>1, <3>1, <3>2
  <2>4. Covers(copy'[p], Remaining') /\ OwnCounted(p)'
    BY <1>a, <2>1, <2>2 DEF OwnCounted
  <2>5. QED  BY <1>0, <2>1, <2>3, <2>4, StepKeeps
<1>11. ASSUME NEW p \in Requests, DeleteRow(p)
       PROVE  IInv'
  BY <1>0, <1>11, <1>a, PrivateStepKeeps DEF DeleteRow, BatchTypeOK
<1>12. ASSUME NEW p \in Requests, DeleteQueues(p)
       PROVE  IInv'
  <2>1. /\ queue' = [s \in 1..Sets |-> {}] /\ row' = row /\ ran' = ran /\ reported' = reported
        /\ pc'[p] = "reply" /\ copy'[p] = NewBatch
        /\ \A q \in Requests \ {p} :
             pc'[q] = pc[q] /\ copy'[q] = copy[q] /\ item'[q] = item[q]
    BY <1>0, <1>12, ForgetType DEF DeleteQueues, BatchTypeOK
  <2>2. \A s \in 1..Sets : queue'[s] \subseteq queue[s]
    BY <2>1
  <2>3. \A t \in 1..Sets : Remaining'[t] \subseteq Remaining[t] /\ IsFiniteSet(Remaining[t])
    BY <1>0, <2>1, <2>2, RemainingShrinks, RemainingFinite
  <2>4. Covers(NewBatch, Remaining')
    BY <1>0, <2>3, NewBatchCovers, CoversLess
  <2>5. OwnCounted(p)'
    BY <2>1 DEF OwnCounted
  <2>6. HonestReport'
    BY <1>0, <2>1, <2>2, ReportsKept
  <2>7. QED  BY <1>0, <2>1, <2>2, <2>4, <2>5, <2>6, StepKeeps
<1>13. ASSUME NEW p \in Requests, Respond(p)
       PROVE  IInv'
  BY <1>0, <1>13, <1>a, PrivateStepKeeps DEF Respond, BatchTypeOK
<1>14. ASSUME NEW p \in Requests, Kill(p)
       PROVE  IInv'
  BY <1>0, <1>14, ForgetType, NewBatchCovers, PrivateStepKeeps DEF Kill, BatchTypeOK
<1>15. QED  BY <1>1, <1>2, <1>3, <1>4, <1>5, <1>6, <1>7, <1>8, <1>9, <1>10, <1>11, <1>12, <1>13, <1>14 DEF BatchNext, Work

\* The invariant implies what the runs check of it.
LEMMA InvMeans == IInv => BatchTypeOK /\ CountersCover /\ HonestReport
<1> SUFFICES ASSUME IInv, NEW s \in 1..Sets
             PROVE  row.count[s] >= Cardinality(queue[s]) /\ (row.success[s] => queue[s] = {})
  BY DEF IInv, CountersCover
<1>1. queue[s] \subseteq Remaining[s]
  BY DEF Remaining
<1>2. IsFiniteSet(Remaining[s]) /\ Cardinality(Remaining[s]) \in Nat
  BY RemainingFinite DEF IInv
<1>3. Cardinality(queue[s]) <= Cardinality(Remaining[s]) /\ Cardinality(queue[s]) \in Nat
  BY <1>1, <1>2, FS_Subset, FS_CardinalityType
<1>4. row.count[s] \in Nat /\ row.count[s] >= Cardinality(Remaining[s])
  BY DEF IInv, Covers, BatchTypeOK, Batches
<1>5. row.success[s] => Remaining[s] = {}
  BY DEF IInv, Covers
<1>6. QED  BY <1>1, <1>2, <1>3, <1>4, <1>5

\* The invariant is kept by every behaviour of the specification.
LEMMA Invariant == BatchSpec => []IInv
<1>1. IInv /\ [BatchNext]_batchVars => IInv'
  <2>1. ASSUME IInv, UNCHANGED batchVars
        PROVE  IInv'
    <3> USE <2>1 DEF batchVars, table, locals, history
    <3>1. BatchTypeOK'
      BY DEF IInv, BatchTypeOK
    <3>2. Remaining' = Remaining
      BY RemainingSame
    <3>3. Covers(row', Remaining') /\ \A p \in Requests : Covers(copy'[p], Remaining')
      BY <3>2 DEF IInv
    <3>4. \A p \in Requests : OwnCounted(p)'
      BY <3>2 DEF IInv, OwnCounted, Last
    <3>5. HonestReport'
      BY DEF IInv, HonestReport, Last
    <3>6. QED  BY <3>1, <3>3, <3>4, <3>5 DEF IInv
  <2>2. QED  BY <2>1, InvKept
<1>2. QED  BY Initially, <1>1, PTL DEF BatchSpec

\* The types hold in every behaviour; what is not obvious of it is that no
\* counter is taken below 0 by requests that finish the same operation.
THEOREM TypeCorrect == BatchSpec => []BatchTypeOK
BY Invariant, InvMeans, PTL

\* Whatever requests meet on a batch and whichever are killed, the stored
\* counters cover what is left in the queues, and a set is only marked
\* successful with an empty queue.
THEOREM CountersAreSafe == BatchSpec => []CountersCover
BY Invariant, InvMeans, PTL

\* Whatever requests meet on a batch and whichever are killed, a finished
\* callback is told of success only when each operation of its set has made its
\* last call and nothing of it is left.
THEOREM ReportsAreHonest == BatchSpec => []HonestReport
BY Invariant, InvMeans, PTL

-----------------------------------------------------------------------------
(* The page and the server: the browser's steps are requests that arrive,  *)
(* responses, and steps of its own that the server does not see.           *)

\* A step of the page and the server is a step of the server or none.
LEMMA PageStep == [Next]_vars => [BatchNext]_batchVars
<1> SUFFICES ASSUME [Next]_vars PROVE [BatchNext]_batchVars
  OBVIOUS
<1>1. ASSUME NEW p \in Requests, Serve(p) \/ Stop(p)
      PROVE  BatchNext
  BY <1>1 DEF Serve, Stop, BatchNext
<1>2. ASSUME NEW p \in Requests, Discard(p) \/ Receive(p)
      PROVE  BatchNext
  BY <1>2 DEF Discard, Receive, BatchNext
<1>3. ASSUME NEW p \in Requests, Open(p) \/ SendPing(p) \/ Leave(p)
      PROVE  BatchNext
  <2>1. \E o \in Operations : Arrive(p, o)
    BY <1>3 DEF Open, SendPing, Leave, Request, Operations
  <2>2. QED  BY <2>1 DEF BatchNext
<1>4. ASSUME Reload \/ FollowLink \/ Disconnect \/ Over \/ UNCHANGED vars
      PROVE  UNCHANGED batchVars
  BY <1>4 DEF Reload, FollowLink, Disconnect, Over, vars
<1>5. QED  BY <1>1, <1>2, <1>3, <1>4 DEF Next, Browse

\* The server behind the page is the server of Batch: what holds for clients
\* that send any requests in any order holds for the progress page.
THEOREM PageRunsBatch == Spec => BatchSpec
<1>1. Init => BatchInit
  BY DEF Init
<1>2. QED  BY <1>1, PageStep, PTL DEF Spec, BatchSpec

\* The page's part of its type invariant.
PageTypeOK ==
  /\ page \in Pages
  /\ conn \in Requests \cup {NoConn}
  /\ page = "wait" <=> conn # NoConn
  /\ conn # NoConn => pc[conn] # "idle"
  /\ impatience \in 0..MaxImpatience
  /\ gaveUp \in BOOLEAN

\* A request that is at work stays at work or replies: it ends by its response.
LEMMA WorkGoesOn ==
  ASSUME BatchTypeOK, NEW p \in Requests, Work(p) \/ Kill(p), NEW q \in Requests,
         pc[q] # "idle"
  PROVE  pc'[q] # "idle"
<1> USE DEF Goto, BatchTypeOK
<1>1. CASE Load(p)
  BY <1>1 DEF Load
<1>2. CASE Claim(p) \/ Call(p) \/ CallFails(p) \/ DeleteItem(p)
  BY <1>2 DEF Claim, Call, CallFails, DeleteItem
<1>3. CASE NextSet(p) \/ EndTurn(p) \/ Save(p)
  BY <1>3 DEF NextSet, EndTurn, Save
<1>4. CASE Callbacks(p) \/ DeleteRow(p) \/ DeleteQueues(p) \/ Kill(p)
  BY <1>4 DEF Callbacks, DeleteRow, DeleteQueues, Kill
<1>5. QED  BY <1>1, <1>2, <1>3, <1>4 DEF Work

\* Every step of the page and the server keeps the page's types.
LEMMA PageTypeKept ==
  ASSUME BatchTypeOK, PageTypeOK, [Next]_vars
  PROVE  PageTypeOK'
<1> USE DEF pageVars
<1>1. ASSUME NEW p \in Requests, Serve(p) \/ Stop(p)
      PROVE  PageTypeOK'
  <2>1. conn # NoConn => pc'[conn] # "idle"
    BY <1>1, WorkGoesOn DEF PageTypeOK, Serve, Stop
  <2>2. QED  BY <1>1, <2>1 DEF PageTypeOK, Serve, Stop
<1>2. ASSUME NEW p \in Requests, Discard(p)
      PROVE  PageTypeOK'
  BY <1>2 DEF PageTypeOK, BatchTypeOK, Discard, Respond, Goto
<1>3. ASSUME NEW p \in Requests, Open(p) \/ SendPing(p) \/ Leave(p)
      PROVE  PageTypeOK'
  <2>1. pc'[p] = "load" /\ page' = "wait" /\ conn' = p /\ UNCHANGED <<impatience, gaveUp>>
    BY <1>3 DEF Open, SendPing, Leave, Request, Arrive, Goto, BatchTypeOK
  <2>2. QED  BY <2>1, ConnAssumption DEF PageTypeOK, Pages
<1>4. ASSUME NEW p \in Requests, Receive(p)
      PROVE  PageTypeOK'
  <2>1. page' \in Pages \ {"wait"}
    BY <1>4 DEF Receive, AfterAnswer, Pages
  <2>2. QED  BY <1>4, <2>1 DEF Receive, PageTypeOK
<1>5. ASSUME Reload
      PROVE  PageTypeOK'
  BY <1>5, ImpatienceAssumption DEF Reload, PageTypeOK, Pages
<1>6. ASSUME FollowLink
      PROVE  PageTypeOK'
  BY <1>6 DEF FollowLink, PageTypeOK, Pages, batchVars
<1>7. ASSUME Disconnect
      PROVE  PageTypeOK'
  BY <1>7, ImpatienceAssumption DEF Disconnect, PageTypeOK, Pages
<1>8. ASSUME Over \/ UNCHANGED vars
      PROVE  PageTypeOK'
  BY <1>8 DEF Over, vars, batchVars, PageTypeOK
<1>9. QED  BY <1>1, <1>2, <1>3, <1>4, <1>5, <1>6, <1>7, <1>8 DEF Next, Browse

\* The page waits exactly for a request that the server has not answered yet,
\* and all types hold, whatever its user and the network do.
THEOREM PageTypeCorrect == Spec => []TypeOK
<1>1. Init => PageTypeOK
  <2>1. Init => impatience \in 0..MaxImpatience
    BY ImpatienceAssumption DEF Init
  <2>2. Init => /\ page \in Pages /\ page # "wait"
                /\ conn = NoConn /\ gaveUp \in BOOLEAN
    BY DEF Init, Pages
  <2>3. QED  BY <2>1, <2>2 DEF PageTypeOK
<1>2. BatchTypeOK /\ PageTypeOK /\ [Next]_vars => PageTypeOK'
  BY PageTypeKept
<1>3. BatchTypeOK /\ PageTypeOK => TypeOK
  BY DEF TypeOK, PageTypeOK
<1>4. QED  BY <1>1, <1>2, <1>3, PageRunsBatch, TypeCorrect, PTL DEF Spec

-----------------------------------------------------------------------------
(* What holds while requests neither meet nor are killed: the counters and *)
(* sandboxes of the batch in use say exactly how far the operations are.   *)

\* The operation at the head of a queue.
Head(i, Q) == i \in Q /\ \A j \in Q : i <= j

\* The calls that operation i of set s has had, as batch b with the queues Q
\* has it.
Made(b, Q, s, i) ==
  IF i \notin Q[s] THEN Passes[i] ELSE IF Head(i, Q[s]) THEN b.box[s] ELSE 0

\* Set s of batch b with the queues Q: as many operations to go as the queue
\* has, and the calls R that were made are the first ones of each operation.
SetInStep(b, Q, R, s) ==
  /\ b.count[s] = Cardinality(Q[s])
  /\ \A i \in Ops[s], n \in Nat : <<i, n>> \in R <=> (1 <= n /\ n <= Made(b, Q, s, i))

InStep(b, Q, R) == \A s \in 1..Sets : SetInStep(b, Q, R, s)

\* The operation at the head of set s's queue needs another call.
Unfinished(b, Q, s) == \A i \in Q[s] : Head(i, Q[s]) => b.box[s] < Passes[i]

\* The request works at the head of the current set's queue, and takes an
\* operation off it after the last of its calls.
Turn(p) ==
  /\ pc[p] \in {"work", "delete"} => Head(item[p], queue[copy[p].cur])
  /\ pc[p] = "delete" => copy[p].box[copy[p].cur] = Passes[item[p]]
  /\ \A s \in 1..Sets :
       (pc[p] = "delete" /\ s = copy[p].cur) \/ Unfinished(copy[p], queue, s)

\* Nobody is in _batch_process(): the row is the batch.
AtRest == stored /\ \A p \in Requests : pc[p] \notin Processing

InStepAtRest == AtRest => InStep(row, queue, ran) /\ \A s \in 1..Sets : Unfinished(row, queue, s)

InStepAtWork(p) == pc[p] \in Processing => stored /\ InStep(copy[p], queue, ran) /\ Turn(p)

Alone == \A p, q \in Requests : AtWork(p) /\ AtWork(q) => p = q

OnceInv ==
  /\ \A p \in Requests : pc[p] = "deleteQueues" => ~stored
  /\ ~disturbed =>
       /\ ~again
       /\ Alone
       /\ InStepAtRest
       /\ \A p \in Requests : InStepAtWork(p)

\* In step and with the last call made, an operation that has left its queue
\* has had all its calls.
LEMMA OnceMeans == BatchTypeOK /\ OnceInv => ExactlyOnce
<1> SUFFICES ASSUME BatchTypeOK, OnceInv, ~disturbed
             PROVE  /\ ~again
                    /\ stored => \A s \in 1..Sets : \A i \in Ops[s] \ queue[s] : Done(i)
  BY DEF ExactlyOnce
<1>1. ~again
  BY DEF OnceInv
<1>2. ASSUME stored, NEW s \in 1..Sets, NEW i \in Ops[s] \ queue[s], NEW n \in 1..Passes[i]
      PROVE  <<i, n>> \in ran
  <2>1. i \in Items /\ Passes[i] \in Nat /\ n \in Nat /\ 1 <= n /\ n <= Passes[i]
    BY PassesAssumption DEF Items
  <2>2. PICK b : InStep(b, queue, ran)
    BY <1>2 DEF OnceInv, InStepAtRest, InStepAtWork, AtRest
  <2>3. Made(b, queue, s, i) = Passes[i]
    BY DEF Made
  <2>4. QED  BY <2>1, <2>2, <2>3 DEF InStep, SetInStep
<1>3. QED  BY <1>1, <1>2 DEF Done

\* While nothing is disturbed, a request at work has the server for itself.
LEMMA OthersRest ==
  ASSUME BatchTypeOK, OnceInv, ~disturbed, NEW p \in Requests, AtWork(p),
         NEW q \in Requests \ {p}
  PROVE  pc[q] \in {"idle", "reply"} /\ pc[q] \notin Processing
BY DEF OnceInv, Alone, AtWork, Processing

\* The operation at the head of a queue is one.
LEMMA OneHead ==
  ASSUME NEW Q \in SUBSET Nat, NEW i, NEW j, Head(i, Q), Head(j, Q)
  PROVE  i = j
<1>1. i \in Nat /\ j \in Nat /\ i <= j /\ j <= i
  BY DEF Head
<1>2. QED  BY <1>1

\* How far a batch is depends on its counters and sandboxes, not on the rest.
LEMMA SameProgress ==
  ASSUME NEW b, NEW c, NEW Q, NEW R, c.count = b.count, c.box = b.box
  PROVE  /\ InStep(b, Q, R) => InStep(c, Q, R)
         /\ \A s \in 1..Sets : Unfinished(b, Q, s) => Unfinished(c, Q, s)
BY DEF InStep, SetInStep, Made, Unfinished

\* A call of the operation at the head of a set's queue is the next one, has not
\* been made before, and keeps the batch in step.
LEMMA CallInStep ==
  ASSUME NEW b \in Batches, NEW c, NEW Q, NEW R, NEW s \in 1..Sets, NEW i,
         \A u \in 1..Sets : Q[u] \subseteq Ops[u],
         InStep(b, Q, R), Head(i, Q[s]), Unfinished(b, Q, s),
         c.count = b.count, c.box = [b.box EXCEPT ![s] = b.box[s] + 1]
  PROVE  /\ <<i, b.box[s] + 1>> \notin R
         /\ InStep(c, Q, R \cup {<<i, b.box[s] + 1>>})
         /\ b.box[s] + 1 <= Passes[i]
<1> DEFINE n == b.box[s] + 1
           S == R \cup {<<i, n>>}
<1>1. /\ b.box[s] \in Nat /\ n \in Nat /\ i \in Ops[s] /\ i \in Nat /\ i \in Q[s]
      /\ Passes[i] \in Nat /\ Q[s] \in SUBSET Nat
  <2>1. i \in Q[s] /\ i \in Ops[s] /\ i \in Items /\ i \in Nat
    BY OpsAssumption DEF Head, Items
  <2>2. Q[s] \in SUBSET Nat
    BY OpsAssumption
  <2>3. b.box[s] \in Nat
    BY DEF Batches
  <2>4. QED  BY <2>1, <2>2, <2>3, PassesAssumption
<1>2. Made(b, Q, s, i) = b.box[s] /\ Made(c, Q, s, i) = n
  <2>1. c.box[s] = n
    BY DEF Batches
  <2>2. QED  BY <1>1, <2>1 DEF Made
<1>3. \A m \in Nat : <<i, m>> \in R <=> (1 <= m /\ m <= b.box[s])
  BY <1>1, <1>2 DEF InStep, SetInStep
<1>4. <<i, n>> \notin R
  BY <1>1, <1>3
<1>5. n <= Passes[i]
  BY <1>1 DEF Unfinished
<1>6. ASSUME NEW u \in 1..Sets
      PROVE  SetInStep(c, Q, S, u)
  <2>1. c.count[u] = Cardinality(Q[u])
    BY DEF InStep, SetInStep
  <2>2. ASSUME NEW j \in Ops[u], NEW m \in Nat
        PROVE  <<j, m>> \in S <=> (1 <= m /\ m <= Made(c, Q, u, j))
    <3>1. CASE j = i
      <4>1. u = s
        BY <1>1, <3>1, OpsAssumption
      <4>2. <<j, m>> \in S <=> ((1 <= m /\ m <= b.box[s]) \/ m = n)
        BY <1>3, <3>1
      <4>3. QED  BY <1>1, <1>2, <3>1, <4>1, <4>2
    <3>2. CASE j # i
      <4>1. Made(c, Q, u, j) = Made(b, Q, u, j)
        <5>1. CASE u = s
          BY <1>1, <3>2, <5>1, OneHead DEF Made
        <5>2. CASE u # s
          BY <5>2 DEF Made, Batches
        <5>3. QED  BY <5>1, <5>2
      <4>2. <<j, m>> \in S <=> <<j, m>> \in R
        BY <3>2
      <4>3. QED  BY <4>1, <4>2 DEF InStep, SetInStep
    <3>3. QED  BY <3>1, <3>2
  <2>3. QED  BY <2>1, <2>2 DEF SetInStep
<1>7. QED  BY <1>4, <1>5, <1>6 DEF InStep

\* Taking the finished operation off the head of the queue, with the counter and
\* the sandbox, keeps the batch in step and leaves a new operation at the head.
LEMMA DeleteInStep ==
  ASSUME NEW b \in Batches, NEW c, NEW Q, NEW R, NEW s \in 1..Sets, NEW i,
         Q \in [1..Sets -> SUBSET Items],
         \A u \in 1..Sets : Q[u] \subseteq Ops[u],
         InStep(b, Q, R), Head(i, Q[s]), b.box[s] = Passes[i],
         \A u \in 1..Sets \ {s} : Unfinished(b, Q, u),
         c.count = [b.count EXCEPT ![s] = b.count[s] - 1],
         c.box = [b.box EXCEPT ![s] = 0]
  PROVE  /\ InStep(c, [Q EXCEPT ![s] = Q[s] \ {i}], R)
         /\ \A u \in 1..Sets : Unfinished(c, [Q EXCEPT ![s] = Q[s] \ {i}], u)
<1> DEFINE P == [Q EXCEPT ![s] = Q[s] \ {i}]
<1>1. /\ i \in Q[s] /\ i \in Ops[s] /\ Q[s] \in SUBSET Nat
      /\ IsFiniteSet(Q[s])
  BY OpsAssumption, FS_Subset DEF Head
<1>2. ASSUME NEW u \in 1..Sets, u # s
      PROVE  SetInStep(c, P, R, u) /\ Unfinished(c, P, u)
  <2>1. P[u] = Q[u] /\ c.count[u] = b.count[u] /\ c.box[u] = b.box[u]
    BY <1>2 DEF Batches
  <2>2. SetInStep(b, Q, R, u) /\ Unfinished(b, Q, u)
    BY <1>2 DEF InStep
  <2>3. QED  BY <2>1, <2>2 DEF SetInStep, Unfinished, Made
<1>3. P[s] = Q[s] \ {i} /\ c.box[s] = 0 /\ c.count[s] = b.count[s] - 1
  BY DEF Batches
<1>4. c.count[s] = Cardinality(P[s])
  <2>1. Cardinality(Q[s] \ {i}) = Cardinality(Q[s]) - 1
    BY <1>1, FS_RemoveElement
  <2>2. b.count[s] = Cardinality(Q[s])
    BY DEF InStep, SetInStep
  <2>3. QED  BY <1>3, <2>1, <2>2
<1>5. ASSUME NEW j \in Ops[s]
      PROVE  Made(c, P, s, j) = Made(b, Q, s, j)
  <2>1. CASE j = i
    BY <1>1, <1>3, <2>1 DEF Made
  <2>2. CASE j # i /\ j \in Q[s]
    <3>1. ~Head(j, Q[s])
      BY <1>1, <2>2, OneHead
    <3>2. QED  BY <1>3, <2>2, <3>1 DEF Made
  <2>3. CASE j # i /\ j \notin Q[s]
    BY <1>3, <2>3 DEF Made
  <2>4. QED  BY <2>1, <2>2, <2>3
<1>6. SetInStep(c, P, R, s)
  BY <1>4, <1>5 DEF InStep, SetInStep
<1>7. Unfinished(c, P, s)
  <2>1. \A j \in P[s] : Passes[j] \in Nat \ {0}
    BY <1>3, PassesAssumption
  <2>2. QED  BY <1>3, <2>1 DEF Unfinished
<1>8. QED  BY <1>2, <1>6, <1>7 DEF InStep

\* A step of the request at work keeps the invariant if it repeats no call and
\* leaves the batch in step where it is: in the copy or in the row.
LEMMA OnceStep ==
  ASSUME BatchTypeOK, OnceInv, disturbed' = disturbed, stored' => stored,
         NEW p \in Requests, AtWork(p),
         \A q \in Requests \ {p} : pc'[q] = pc[q],
         pc'[p] = "deleteQueues" => ~stored',
         ~disturbed => ~again' /\ InStepAtRest' /\ InStepAtWork(p)'
  PROVE  OnceInv'
<1>1. \A q \in Requests : pc'[q] = "deleteQueues" => ~stored'
  BY DEF OnceInv
<1>2. ASSUME ~disturbed
      PROVE  Alone' /\ \A q \in Requests : InStepAtWork(q)'
  <2>1. \A q \in Requests \ {p} : pc[q] \in {"idle", "reply"} /\ pc[q] \notin Processing
    BY <1>2, OthersRest
  <2>2. Alone'
    BY <2>1 DEF Alone, AtWork
  <2>3. \A q \in Requests \ {p} : InStepAtWork(q)'
    BY <2>1 DEF InStepAtWork
  <2>4. QED  BY <1>2, <2>2, <2>3
<1>3. QED  BY <1>1, <1>2 DEF OnceInv

\* The invariant holds of a new batch.
LEMMA OnceInitially == BatchInit => OnceInv
<1> SUFFICES ASSUME BatchInit PROVE OnceInv
  OBVIOUS
<1>1. \A p \in Requests : pc[p] = "idle"
  BY DEF BatchInit
<1>2. InStep(row, queue, ran)
  <2> SUFFICES ASSUME NEW s \in 1..Sets PROVE SetInStep(row, queue, ran, s)
    BY DEF InStep
  <2>1. queue[s] = Ops[s] /\ row.count[s] = Cardinality(Ops[s]) /\ row.box[s] = 0 /\ ran = {}
    BY DEF BatchInit, NewBatch
  <2>2. \A i \in Ops[s] : Made(row, queue, s, i) = 0
    BY <2>1 DEF Made
  <2>3. QED  BY <2>1, <2>2 DEF SetInStep
<1>3. ASSUME NEW s \in 1..Sets, NEW i \in queue[s]
      PROVE  row.box[s] < Passes[i]
  <2>1. i \in Items /\ row.box[s] = 0
    BY DEF BatchInit, NewBatch, Items
  <2>2. QED  BY <2>1, PassesAssumption
<1>4. InStepAtRest
  BY <1>2, <1>3 DEF InStepAtRest, Unfinished
<1>5. Alone /\ ~again /\ \A p \in Requests : InStepAtWork(p)
  BY <1>1 DEF Alone, AtWork, InStepAtWork, Processing, BatchInit
<1>6. QED  BY <1>1, <1>4, <1>5 DEF OnceInv

\* The copy of a request that loads the row.
LEMMA LoadCopy ==
  ASSUME BatchTypeOK, NEW p \in Requests, Load(p), stored
  PROVE  /\ copy'[p].count = row.count /\ copy'[p].box = row.box
         /\ copy'[p].success = row.success /\ copy'[p].cur = row.cur
<1> DEFINE b == row.running \/ op[p] = "start"
           c == [row EXCEPT !.running = b]
<1>1. copy' = [copy EXCEPT ![p] = c]
  BY DEF Load
<1>2. copy'[p] = c
  BY <1>1 DEF BatchTypeOK
<1>3. c.count = row.count /\ c.box = row.box /\ c.success = row.success /\ c.cur = row.cur
  BY DEF BatchTypeOK, Batches
<1>4. QED  BY <1>2, <1>3

\* The copy of a request that has called an operation.
LEMMA CallCopy ==
  ASSUME BatchTypeOK, NEW p \in Requests, Call(p)
  PROVE  /\ copy'[p].count = copy[p].count /\ copy'[p].success = copy[p].success
         /\ copy'[p].cur = copy[p].cur
         /\ copy'[p].box = [copy[p].box EXCEPT ![copy[p].cur] = copy[p].box[copy[p].cur] + 1]
<1> DEFINE s == copy[p].cur
           c == [copy[p] EXCEPT !.box = [copy[p].box EXCEPT ![s] = copy[p].box[s] + 1]]
<1>1. copy[p] \in Batches
  BY DEF BatchTypeOK
<1>2. copy' = [copy EXCEPT ![p] = c]
  BY <1>1 DEF Call, BatchTypeOK, Batches
<1>3. copy'[p] = c
  BY <1>2 DEF BatchTypeOK
<1>4. /\ c.count = copy[p].count /\ c.success = copy[p].success /\ c.cur = s
      /\ c.box = [copy[p].box EXCEPT ![s] = copy[p].box[s] + 1]
  BY <1>1 DEF Batches
<1>5. QED  BY <1>3, <1>4

\* The copy of a request at the end of a turn of the loop.
LEMMA EndTurnCopy ==
  ASSUME BatchTypeOK, NEW p \in Requests, EndTurn(p)
  PROVE  /\ copy'[p].count = copy[p].count /\ copy'[p].box = copy[p].box
         /\ copy'[p].cur = copy[p].cur
         /\ copy'[p].success =
              [copy[p].success EXCEPT ![copy[p].cur] =
                 copy[p].success[copy[p].cur] \/ copy[p].count[copy[p].cur] = 0]
<1> DEFINE s == copy[p].cur
           b == copy[p].success[s] \/ copy[p].count[s] = 0
           c == [copy[p] EXCEPT !.success[s] = b]
<1>1. copy[p] \in Batches
  BY DEF BatchTypeOK
<1>2. copy' = [copy EXCEPT ![p] = c]
  BY DEF EndTurn
<1>3. copy'[p] = c
  BY <1>2 DEF BatchTypeOK
<1>4. /\ c.count = copy[p].count /\ c.box = copy[p].box /\ c.cur = s
      /\ c.success = [copy[p].success EXCEPT ![s] = b]
  BY <1>1 DEF Batches
<1>5. QED  BY <1>3, <1>4

\* A step of a request in _batch_process() that stays there, with the counters
\* and sandboxes, the queues and the calls as they are.
LEMMA OnceInside ==
  ASSUME BatchTypeOK, OnceInv, disturbed' = disturbed, again' = again, stored' = stored,
         NEW p \in Requests, pc[p] \in Processing, pc'[p] \in Processing \ {"delete"},
         \A q \in Requests \ {p} : pc'[q] = pc[q],
         pc[p] # "delete",
         copy'[p].count = copy[p].count, copy'[p].box = copy[p].box,
         queue' = queue, ran' = ran,
         pc'[p] = "work" => Head(item'[p], queue[copy'[p].cur])
  PROVE  OnceInv'
<1>1. AtWork(p) /\ pc'[p] # "deleteQueues"
  BY DEF AtWork, Processing
<1>2. ASSUME ~disturbed
      PROVE  ~again' /\ InStepAtRest' /\ InStepAtWork(p)'
  <2>1. ~again' /\ stored' /\ InStep(copy[p], queue, ran)
        /\ \A s \in 1..Sets : Unfinished(copy[p], queue, s)
    BY <1>2 DEF OnceInv, InStepAtWork, Turn
  <2>2. InStep(copy'[p], queue', ran') /\ \A s \in 1..Sets : Unfinished(copy'[p], queue', s)
    BY <2>1, SameProgress
  <2>3. Turn(p)'
    BY <2>2 DEF Turn
  <2>4. InStepAtRest'
    BY DEF InStepAtRest, AtRest
  <2>5. QED  BY <2>1, <2>2, <2>3, <2>4 DEF InStepAtWork
<1>3. QED  BY <1>1, <1>2, OnceStep

\* A step outside of _batch_process() that leaves the row, the queues and the
\* calls as they are.
LEMMA OnceOutside ==
  ASSUME BatchTypeOK, OnceInv, disturbed' = disturbed, again' = again, stored' => stored,
         NEW p \in Requests, pc[p] \notin Processing, pc'[p] \notin Processing, AtWork(p),
         \A q \in Requests \ {p} : pc'[q] = pc[q],
         pc'[p] = "deleteQueues" => ~stored',
         stored' => (row' = row /\ queue' = queue /\ ran' = ran)
  PROVE  OnceInv'
<1>1. ASSUME ~disturbed
      PROVE  ~again' /\ InStepAtRest' /\ InStepAtWork(p)'
  <2>1. ~again'
    BY <1>1 DEF OnceInv
  <2>2. AtRest' => AtRest
    BY DEF AtRest
  <2>3. InStepAtRest
    BY <1>1 DEF OnceInv
  <2>4. InStepAtRest'
    BY <2>2, <2>3 DEF InStepAtRest, AtRest
  <2>5. QED  BY <2>1, <2>4 DEF InStepAtWork
<1>2. QED  BY <1>1, OnceStep

\* Every step keeps the invariant.
LEMMA OnceKept ==
  ASSUME IInv, OnceInv, BatchNext
  PROVE  OnceInv'
<1> USE DEF Goto, Answer, table, locals, history
<1>0. BatchTypeOK
  BY DEF IInv
<1>1. ASSUME NEW p \in Requests, NEW o \in Operations, Arrive(p, o)
      PROVE  OnceInv'
  <2>1. /\ stored' = stored /\ row' = row /\ queue' = queue /\ copy' = copy /\ item' = item
        /\ ran' = ran /\ again' = again /\ pc'[p] = "load"
        /\ \A q \in Requests \ {p} : pc'[q] = pc[q]
    BY <1>0, <1>1 DEF Arrive, BatchTypeOK
  <2>2. \A q \in Requests : pc'[q] = "deleteQueues" => ~stored'
    BY <2>1 DEF OnceInv
  <2>3. ASSUME ~disturbed'
        PROVE  ~again' /\ Alone' /\ InStepAtRest' /\ \A q \in Requests : InStepAtWork(q)'
    <3>1. ~disturbed /\ \A q \in Requests : ~AtWork(q)
      BY <1>1, <2>3 DEF Arrive
    <3>2. \A q \in Requests : pc[q] \notin Processing /\ pc'[q] \notin Processing
      BY <2>1, <3>1 DEF AtWork, Processing
    <3>3. Alone'
      BY <2>1, <3>1 DEF Alone, AtWork
    <3>4. InStepAtRest'
      BY <2>1, <3>1, <3>2 DEF OnceInv, InStepAtRest, AtRest
    <3>5. ~again'
      BY <2>1, <3>1 DEF OnceInv
    <3>6. QED  BY <3>2, <3>3, <3>4, <3>5 DEF InStepAtWork
  <2>4. QED  BY <2>2, <2>3 DEF OnceInv
<1>2. ASSUME NEW p \in Requests, Load(p)
      PROVE  OnceInv'
  <2>1. /\ stored' = stored /\ row' = row /\ queue' = queue /\ ran' = ran /\ again' = again
        /\ disturbed' = disturbed /\ pc[p] = "load" /\ AtWork(p) /\ pc[p] \notin Processing
        /\ pc'[p] \in {"reply", "callbacks", "save", "loop"}
        /\ \A q \in Requests \ {p} : pc'[q] = pc[q]
    BY <1>0, <1>2 DEF Load, BatchTypeOK, AtWork, Processing
  <2>2. CASE pc'[p] \in {"reply", "callbacks"}
    BY <1>0, <2>1, <2>2, OnceOutside DEF Processing
  <2>3. CASE pc'[p] \in {"save", "loop"}
    <3>1. stored /\ pc'[p] \in Processing
      BY <1>0, <1>2, <2>3 DEF Load, BatchTypeOK, Processing
    <3>2. ASSUME ~disturbed
          PROVE  ~again' /\ InStepAtRest' /\ InStepAtWork(p)'
      <4>1. AtRest
        BY <1>0, <2>1, <3>1, <3>2, OthersRest DEF AtRest
      <4>2. InStep(row, queue, ran) /\ \A s \in 1..Sets : Unfinished(row, queue, s)
        BY <3>2, <4>1 DEF OnceInv, InStepAtRest
      <4>3. /\ InStep(copy'[p], queue', ran')
            /\ \A s \in 1..Sets : Unfinished(copy'[p], queue', s)
        BY <1>0, <1>2, <2>1, <3>1, <4>2, LoadCopy, SameProgress
      <4>4. InStepAtWork(p)'
        BY <2>1, <2>3, <3>1, <4>3 DEF InStepAtWork, Turn
      <4>5. InStepAtRest'
        BY <3>1 DEF InStepAtRest, AtRest
      <4>6. ~again'
        BY <2>1, <3>2 DEF OnceInv
      <4>7. QED  BY <4>4, <4>5, <4>6
    <3>3. QED  BY <1>0, <2>1, <2>3, <3>2, OnceStep
  <2>4. QED  BY <2>1, <2>2, <2>3
<1>3. ASSUME NEW p \in Requests, Claim(p)
      PROVE  OnceInv'
  <2>1. /\ stored' = stored /\ copy' = copy /\ queue' = queue /\ ran' = ran /\ again' = again
        /\ disturbed' = disturbed /\ pc[p] = "loop" /\ pc'[p] \in {"work", "sets"}
        /\ \A q \in Requests \ {p} : pc'[q] = pc[q]
    BY <1>0, <1>3 DEF Claim, BatchTypeOK
  <2>2. pc'[p] = "work" => Head(item'[p], queue[copy'[p].cur])
    BY <1>0, <1>3, <2>1 DEF Claim, Head, BatchTypeOK
  <2>3. QED  BY <1>0, <2>1, <2>2, OnceInside DEF Processing
<1>4. ASSUME NEW p \in Requests, Call(p)
      PROVE  OnceInv'
  <2> DEFINE s == copy[p].cur
             i == item[p]
             n == copy[p].box[s] + 1
  <2>1. /\ stored' = stored /\ queue' = queue /\ item' = item /\ disturbed' = disturbed
        /\ ran' = ran \cup {<<i, n>>} /\ again' = (again \/ <<i, n>> \in ran)
        /\ pc[p] = "work" /\ AtWork(p) /\ pc[p] \in Processing
        /\ pc'[p] = IF n >= Passes[i] THEN "delete" ELSE "sets"
        /\ \A q \in Requests \ {p} : pc'[q] = pc[q]
    BY <1>0, <1>4 DEF Call, BatchTypeOK, AtWork, Processing
  <2>2. /\ copy[p] \in Batches /\ s \in 1..Sets /\ copy[p].box[s] \in Nat /\ n \in Nat
        /\ i \in Items /\ Passes[i] \in Nat
    <3>1. copy[p] \in Batches /\ s \in 1..Sets /\ copy[p].box[s] \in Nat
      BY <1>0 DEF BatchTypeOK, Batches
    <3>2. i \in Items
      BY <1>0, <2>1, <3>1 DEF BatchTypeOK, Items
    <3>3. QED  BY <3>1, <3>2, PassesAssumption
  <2>3. ASSUME ~disturbed
        PROVE  ~again' /\ InStepAtRest' /\ InStepAtWork(p)'
    <3>1. /\ stored /\ InStep(copy[p], queue, ran) /\ Head(i, queue[s])
          /\ \A u \in 1..Sets : Unfinished(copy[p], queue, u)
      BY <2>1, <2>3 DEF OnceInv, InStepAtWork, Turn
    <3>2. /\ copy'[p].count = copy[p].count /\ copy'[p].cur = s
          /\ copy'[p].box = [copy[p].box EXCEPT ![s] = n]
      BY <1>0, <1>4, CallCopy
    <3>3. \A u \in 1..Sets : queue[u] \subseteq Ops[u]
      BY <1>0 DEF BatchTypeOK
    <3>4. /\ <<i, n>> \notin ran /\ InStep(copy'[p], queue, ran \cup {<<i, n>>})
          /\ n <= Passes[i]
      BY <2>2, <3>1, <3>2, <3>3, CallInStep
    <3>5. ~again'
      BY <2>1, <2>3, <3>4 DEF OnceInv
    <3>6. InStepAtRest'
      BY <2>1 DEF InStepAtRest, AtRest, Processing
    <3>7. copy'[p].box[s] = n /\ \A u \in 1..Sets \ {s} : copy'[p].box[u] = copy[p].box[u]
      BY <2>2, <3>2 DEF Batches
    <3>8. \A u \in 1..Sets \ {s} : Unfinished(copy'[p], queue, u)
      BY <3>1, <3>7 DEF Unfinished
    <3>9. pc'[p] = "sets" => Unfinished(copy'[p], queue, s)
      <4> SUFFICES ASSUME pc'[p] = "sets", NEW j \in queue[s], Head(j, queue[s])
                   PROVE  copy'[p].box[s] < Passes[j]
        BY DEF Unfinished
      <4>1. j = i
        <5>1. queue[s] \in SUBSET Nat
          BY <2>2, <3>3, OpsAssumption
        <5>2. QED  BY <3>1, <5>1, OneHead
      <4>2. ~(n >= Passes[i])
        BY <2>1
      <4>3. QED  BY <2>2, <3>7, <4>1, <4>2
    <3>10. pc'[p] = "delete" => n = Passes[i]
      <4>1. pc'[p] = "delete" => n >= Passes[i]
        BY <2>1
      <4>2. QED  BY <2>2, <3>4, <4>1
    <3>11. Turn(p)'
      <4>1. pc'[p] \in {"delete", "sets"}
        BY <2>1
      <4>2. QED  BY <2>1, <3>1, <3>2, <3>7, <3>8, <3>9, <3>10, <4>1 DEF Turn
    <3>12. QED  BY <2>1, <3>1, <3>4, <3>5, <3>6, <3>11 DEF InStepAtWork
  <2>4. pc'[p] # "deleteQueues"
    BY <2>1
  <2>5. QED  BY <1>0, <2>1, <2>3, <2>4, OnceStep
<1>5. ASSUME NEW p \in Requests, CallFails(p)
      PROVE  OnceInv'
  <2>1. /\ stored' = stored /\ copy' = copy /\ queue' = queue /\ ran' = ran /\ again' = again
        /\ disturbed' = disturbed /\ pc[p] = "work" /\ pc'[p] = "fail"
        /\ \A q \in Requests \ {p} : pc'[q] = pc[q]
    BY <1>0, <1>5 DEF CallFails, BatchTypeOK
  <2>2. QED  BY <1>0, <2>1, OnceInside DEF Processing
<1>6. ASSUME NEW p \in Requests, DeleteItem(p)
      PROVE  OnceInv'
  <2> DEFINE s == copy[p].cur
             i == item[p]
  <2>1. /\ stored' = stored /\ ran' = ran /\ again' = again /\ disturbed' = disturbed
        /\ queue' = [queue EXCEPT ![s] = queue[s] \ {i}]
        /\ pc[p] = "delete" /\ AtWork(p) /\ pc[p] \in Processing /\ pc'[p] = "sets"
        /\ \A q \in Requests \ {p} : pc'[q] = pc[q]
    BY <1>0, <1>6 DEF DeleteItem, BatchTypeOK, AtWork, Processing
  <2>2. ASSUME ~disturbed
        PROVE  ~again' /\ InStepAtRest' /\ InStepAtWork(p)'
    <3>1. /\ stored /\ InStep(copy[p], queue, ran) /\ Head(i, queue[s])
          /\ copy[p].box[s] = Passes[i]
          /\ \A u \in 1..Sets \ {s} : Unfinished(copy[p], queue, u)
      BY <2>1, <2>2 DEF OnceInv, InStepAtWork, Turn
    <3>2. /\ copy'[p].count = [copy[p].count EXCEPT ![s] = copy[p].count[s] - 1]
          /\ copy'[p].box = [copy[p].box EXCEPT ![s] = 0]
      BY <1>6, DeleteItemCopy
    <3>3. /\ copy[p] \in Batches /\ s \in 1..Sets
          /\ queue \in [1..Sets -> SUBSET Items] /\ \A u \in 1..Sets : queue[u] \subseteq Ops[u]
      BY <1>0 DEF BatchTypeOK, Batches
    <3>4. InStep(copy'[p], queue', ran) /\ \A u \in 1..Sets : Unfinished(copy'[p], queue', u)
      <4>1. queue' = [queue EXCEPT ![s] = queue[s] \ {i}]
        BY <2>1
      <4>2. /\ InStep(copy'[p], [queue EXCEPT ![s] = queue[s] \ {i}], ran)
            /\ \A u \in 1..Sets : Unfinished(copy'[p], [queue EXCEPT ![s] = queue[s] \ {i}], u)
        BY <3>1, <3>2, <3>3, DeleteInStep
      <4>3. QED  BY <4>1, <4>2
    <3>5. ~again'
      BY <2>1, <2>2 DEF OnceInv
    <3>6. InStepAtRest'
      BY <2>1 DEF InStepAtRest, AtRest, Processing
    <3>7. QED  BY <2>1, <3>1, <3>4, <3>5, <3>6 DEF InStepAtWork, Turn
  <2>3. QED  BY <1>0, <2>1, <2>2, OnceStep
<1>7. ASSUME NEW p \in Requests, NextSet(p)
      PROVE  OnceInv'
  <2>1. /\ stored' = stored /\ queue' = queue /\ ran' = ran /\ again' = again
        /\ disturbed' = disturbed /\ pc' = pc /\ pc[p] = "sets"
    BY <1>7 DEF NextSet
  <2>2. QED  BY <1>0, <1>7, <2>1, NextSetCopy, OnceInside DEF Processing
<1>8. ASSUME NEW p \in Requests, EndTurn(p)
      PROVE  OnceInv'
  <2>1. /\ stored' = stored /\ queue' = queue /\ ran' = ran /\ again' = again
        /\ disturbed' = disturbed /\ pc[p] = "sets" /\ pc'[p] \in {"loop", "save"}
        /\ \A q \in Requests \ {p} : pc'[q] = pc[q]
    BY <1>0, <1>8 DEF EndTurn, BatchTypeOK
  <2>2. QED  BY <1>0, <1>8, <2>1, EndTurnCopy, OnceInside DEF Processing
<1>9. ASSUME NEW p \in Requests, Save(p)
      PROVE  OnceInv'
  <2>1. /\ stored' = stored /\ queue' = queue /\ ran' = ran /\ again' = again
        /\ disturbed' = disturbed /\ row' = IF stored THEN copy[p] ELSE row
        /\ pc[p] \in {"save", "fail"} /\ pc[p] \in Processing /\ AtWork(p) /\ pc'[p] = "reply"
        /\ \A q \in Requests \ {p} : pc'[q] = pc[q]
    BY <1>0, <1>9 DEF Save, BatchTypeOK, Processing, AtWork
  <2>2. ASSUME ~disturbed
        PROVE  ~again' /\ InStepAtRest' /\ InStepAtWork(p)'
    <3>1. /\ stored /\ InStep(copy[p], queue, ran)
          /\ \A s \in 1..Sets : Unfinished(copy[p], queue, s)
      BY <2>1, <2>2 DEF OnceInv, InStepAtWork, Turn
    <3>2. InStepAtRest'
      BY <2>1, <3>1 DEF InStepAtRest
    <3>3. ~again' /\ InStepAtWork(p)'
      BY <2>1, <2>2 DEF OnceInv, InStepAtWork, Processing
    <3>4. QED  BY <3>2, <3>3
  <2>3. QED  BY <1>0, <2>1, <2>2, OnceStep
<1>10. ASSUME NEW p \in Requests, Callbacks(p)
       PROVE  OnceInv'
  BY <1>0, <1>10, OnceOutside DEF Callbacks, BatchTypeOK, Processing, AtWork
<1>11. ASSUME NEW p \in Requests, DeleteRow(p)
       PROVE  OnceInv'
  BY <1>0, <1>11, OnceOutside DEF DeleteRow, BatchTypeOK, Processing, AtWork
<1>12. ASSUME NEW p \in Requests, DeleteQueues(p)
       PROVE  OnceInv'
  <2>1. ~stored'
    BY <1>12 DEF OnceInv, DeleteQueues
  <2>2. QED  BY <1>0, <1>12, <2>1, OnceOutside DEF DeleteQueues, BatchTypeOK, Processing, AtWork
<1>13. ASSUME NEW p \in Requests, Respond(p)
       PROVE  OnceInv'
  <2>1. /\ stored' = stored /\ row' = row /\ queue' = queue /\ copy' = copy /\ item' = item
        /\ ran' = ran /\ again' = again /\ disturbed' = disturbed
        /\ pc[p] = "reply" /\ pc'[p] = "idle"
        /\ \A q \in Requests \ {p} : pc'[q] = pc[q]
    BY <1>0, <1>13 DEF Respond, BatchTypeOK
  <2>2. /\ \A q \in Requests : pc'[q] = "deleteQueues" => ~stored'
        /\ \A q \in Requests : pc'[q] \in Processing => pc'[q] = pc[q]
        /\ \A q \in Requests : pc[q] \in Processing => pc'[q] = pc[q]
        /\ \A q \in Requests : AtWork(q)' => AtWork(q)
    BY <2>1 DEF OnceInv, Processing, AtWork
  <2>3. ASSUME ~disturbed
        PROVE  ~again' /\ Alone' /\ InStepAtRest' /\ \A q \in Requests : InStepAtWork(q)'
    <3>1. ~again' /\ Alone'
      BY <2>1, <2>2, <2>3 DEF OnceInv, Alone
    <3>2. InStepAtRest'
      BY <2>1, <2>2, <2>3 DEF OnceInv, InStepAtRest, AtRest
    <3>3. ASSUME NEW q \in Requests, pc'[q] \in Processing
          PROVE  stored' /\ InStep(copy'[q], queue', ran') /\ Turn(q)'
      BY <2>1, <2>2, <2>3, <3>3 DEF OnceInv, InStepAtWork, Turn
    <3>4. QED  BY <3>1, <3>2, <3>3 DEF InStepAtWork
  <2>4. QED  BY <2>1, <2>2, <2>3 DEF OnceInv
<1>14. ASSUME NEW p \in Requests, Kill(p)
       PROVE  OnceInv'
  BY <1>0, <1>14 DEF Kill, BatchTypeOK, OnceInv
<1>15. QED  BY <1>1, <1>2, <1>3, <1>4, <1>5, <1>6, <1>7, <1>8, <1>9, <1>10, <1>11, <1>12, <1>13, <1>14 DEF BatchNext, Work

\* The invariant is kept by every behaviour of the specification.
LEMMA OnceInvariant == BatchSpec => []OnceInv
<1>1. OnceInv /\ UNCHANGED batchVars => OnceInv'
  <2> SUFFICES ASSUME OnceInv, UNCHANGED batchVars PROVE OnceInv'
    OBVIOUS
  <2> USE DEF batchVars, table, locals, history
  <2>1. InStepAtRest => InStepAtRest'
    BY DEF InStepAtRest, AtRest
  <2>2. \A p \in Requests : InStepAtWork(p) => InStepAtWork(p)'
    BY DEF InStepAtWork, Turn
  <2>3. Alone => Alone'
    BY DEF Alone, AtWork
  <2>4. QED  BY <2>1, <2>2, <2>3 DEF OnceInv
<1>2. IInv /\ OnceInv /\ [BatchNext]_batchVars => OnceInv'
  BY <1>1, OnceKept
<1>3. QED  BY OnceInitially, <1>2, Invariant, PTL DEF BatchSpec

\* Unless requests meet or are killed, no operation is called twice for one of
\* its passes and none leaves its queue before the last: across requests, sets
\* and fatal errors, for any sets and operations.
THEOREM OperationsRunOnce == BatchSpec => []ExactlyOnce
BY TypeCorrect, OnceInvariant, OnceMeans, PTL

-----------------------------------------------------------------------------
(* The percentage.  A claim that gets nothing counts as a finished         *)
(* operation.  An undisturbed request claims nothing only where a batch    *)
(* begins with sets of no operations; the operation that is counted then   *)
(* completes the percentage of the next set only if it has just one, which *)
(* is EarlyHundred.                                                        *)

\* The sets before the current one are successful, and no other is but the last.
Placed(b) ==
  \A s \in 1..Sets :
    /\ s < b.cur => b.success[s]
    /\ b.success[s] => (s < b.cur \/ (s = b.cur /\ s = Sets))

\* The first set has no operations and nothing has been processed.
Untouched(b) ==
  Ops[1] = {} /\ b.cur = 1 /\ \A s \in 1..Sets : b.count[s] = Cardinality(Ops[s])

\* No set up to the current one has had an operation, nothing has been processed.
Opening(b) ==
  /\ Ops[1] = {}
  /\ \A s \in 1..Sets : b.count[s] = Cardinality(Ops[s])
  /\ \A s \in 1..Sets : s < b.cur => Ops[s] = {}

\* The current set has operations left, or the batch is complete, or it begins
\* with a set that is empty and has not been worked on.
Ready(b) == Placed(b) /\ (b.success[b.cur] \/ b.count[b.cur] # 0 \/ Untouched(b))

Complete(b) == \A s \in 1..Sets : b.success[s]

\* The request turns the loop only while the current set has operations left or
\* the batch is untouched, counts an operation it has not called only over sets
\* that never had one, and is about to answer "100" only with a complete batch.
Honest(p) ==
  /\ Placed(copy[p])
  /\ \A s \in 1..Sets : row.success[s] => copy[p].success[s]
  /\ pc[p] \in {"loop", "save"} => Ready(copy[p])
  /\ pc[p] \in {"work", "delete", "fail"} => copy[p].count[copy[p].cur] # 0
  /\ pc[p] \in {"loop", "work", "delete"} => ~copy[p].success[copy[p].cur]
  /\ pc[p] = "sets" => fin[p] \in {-1, 0} \/ (fin[p] = 1 /\ Opening(copy[p]))
  /\ pc[p] = "save" /\ answer[p] = "hundred" => Complete(copy[p])
  /\ pc[p] = "fail" => answer[p] = "error"

HonestAtWork(p) == pc[p] \in Processing => Honest(p)

ReadyAtRest == AtRest => Ready(row)

HundredInv ==
  ~disturbed =>
    /\ ReadyAtRest
    /\ \A p \in Requests : HonestAtWork(p)
    /\ NoFalseHundred

\* A step of the request at work keeps the invariant if it keeps what is said of
\* that request, leaves the row alone and does not answer "100".
LEMMA HundredStep ==
  ASSUME BatchTypeOK, OnceInv, HundredInv, disturbed' = disturbed,
         NEW p \in Requests, AtWork(p),
         \A q \in Requests \ {p} : pc'[q] = pc[q] /\ answer'[q] = answer[q],
         row' = row,
         pc'[p] = "reply" => answer'[p] # "hundred",
         ~disturbed => ReadyAtRest' /\ HonestAtWork(p)'
  PROVE  HundredInv'
<1> SUFFICES ASSUME ~disturbed
             PROVE  NoFalseHundred' /\ \A q \in Requests : HonestAtWork(q)'
  BY DEF HundredInv
<1>1. ASSUME NEW q \in Requests
      PROVE  HonestAtWork(q)'
  <2>1. CASE q = p
    BY <2>1
  <2>2. CASE q # p
    BY <2>2, OthersRest DEF HonestAtWork
  <2>3. QED  BY <2>1, <2>2
<1>2. ASSUME NEW q \in Requests, pc'[q] = "reply", answer'[q] = "hundred", NEW s \in 1..Sets
      PROVE  row'.success[s]
  <2>1. q # p
    BY <1>2
  <2>2. pc[q] = "reply" /\ answer[q] = "hundred"
    BY <1>2, <2>1
  <2>3. QED  BY <2>2 DEF HundredInv, NoFalseHundred
<1>3. QED  BY <1>1, <1>2 DEF NoFalseHundred

\* A step inside of _batch_process() keeps the invariant if it keeps what is said
\* of the request.
LEMMA HundredInside ==
  ASSUME BatchTypeOK, OnceInv, HundredInv, disturbed' = disturbed,
         NEW p \in Requests, pc[p] \in Processing, pc'[p] \in Processing,
         \A q \in Requests \ {p} : pc'[q] = pc[q] /\ answer'[q] = answer[q],
         row' = row,
         ~disturbed => Honest(p)'
  PROVE  HundredInv'
<1>1. AtWork(p) /\ pc'[p] # "reply" /\ ~AtRest'
  BY DEF AtWork, AtRest, Processing
<1>2. QED  BY <1>1, HundredStep DEF ReadyAtRest, HonestAtWork

\* A step outside of _batch_process() keeps the invariant if it leaves the row
\* alone and does not answer "100".
LEMMA HundredOutside ==
  ASSUME BatchTypeOK, OnceInv, HundredInv, disturbed' = disturbed, stored' => stored,
         NEW p \in Requests, AtWork(p), pc[p] \notin Processing, pc'[p] \notin Processing,
         \A q \in Requests \ {p} : pc'[q] = pc[q] /\ answer'[q] = answer[q],
         row' = row,
         pc'[p] = "reply" => answer'[p] # "hundred"
  PROVE  HundredInv'
<1>1. AtRest' => AtRest
  BY DEF AtRest
<1>2. ~disturbed => ReadyAtRest' /\ HonestAtWork(p)'
  BY <1>1 DEF HundredInv, ReadyAtRest, HonestAtWork
<1>3. QED  BY <1>2, HundredStep

\* A batch that is ready with its current set complete is complete.
LEMMA ReadyComplete ==
  ASSUME NEW b \in Batches, Placed(b), b.success[b.cur]
  PROVE  Complete(b)
<1>1. b.cur \in 1..Sets /\ b.cur = Sets
  BY DEF Placed, Batches
<1>2. \A s \in 1..Sets : s < b.cur \/ s = b.cur
  BY <1>1, SetsAssumption
<1>3. QED  BY <1>2 DEF Placed, Complete

\* The invariant holds of a new batch.
LEMMA HundredInitially == BatchInit => HundredInv
<1> SUFFICES ASSUME BatchInit PROVE HundredInv
  OBVIOUS
<1>1. Ready(row)
  <2>1. 1 \in 1..Sets /\ (Ops[1] = {} \/ Cardinality(Ops[1]) # 0)
    <3>1. 1 \in 1..Sets
      BY SetsAssumption
    <3>2. QED  BY <3>1, OpsAssumption, FS_EmptySet
  <2>2. /\ row.cur = 1 /\ \A s \in 1..Sets : ~row.success[s]
        /\ \A s \in 1..Sets : row.count[s] = Cardinality(Ops[s])
    BY DEF BatchInit, NewBatch
  <2>3. Placed(row)
    BY <2>2 DEF Placed
  <2>4. QED  BY <2>1, <2>2, <2>3 DEF Ready, Untouched
<1>2. \A p \in Requests : pc[p] = "idle"
  BY DEF BatchInit
<1>3. QED  BY <1>1, <1>2 DEF HundredInv, ReadyAtRest, HonestAtWork, NoFalseHundred, Processing

\* Placed, ready and complete are said of counters, successes and current set.
LEMMA SamePlace ==
  ASSUME NEW b, NEW c, c.success = b.success, c.cur = b.cur
  PROVE  /\ Placed(b) => Placed(c)
         /\ Complete(b) => Complete(c)
         /\ Ready(b) /\ c.count = b.count => Ready(c)
BY DEF Placed, Complete, Ready, Untouched

\* An undisturbed request that turns the loop has an operation to claim exactly
\* if it has one to count; if not, the batch is untouched.
LEMMA ClaimGetsOne ==
  ASSUME BatchTypeOK, OnceInv, HundredInv, ~disturbed,
         NEW p \in Requests, pc[p] = "loop"
  PROVE  /\ queue[copy[p].cur] # {} => copy[p].count[copy[p].cur] # 0
         /\ queue[copy[p].cur] = {} => Untouched(copy[p])
<1>1. copy[p].cur \in 1..Sets
  BY DEF BatchTypeOK, Batches
<1>2. pc[p] \in Processing
  BY DEF Processing
<1>3. copy[p].count[copy[p].cur] # 0 \/ Untouched(copy[p])
  BY <1>2 DEF HundredInv, HonestAtWork, Honest, Ready
<1>4. copy[p].count[copy[p].cur] = Cardinality(queue[copy[p].cur])
  BY <1>1, <1>2 DEF OnceInv, InStepAtWork, InStep, SetInStep
<1>5. IsFiniteSet(queue[copy[p].cur])
  <2>1. queue[copy[p].cur] \subseteq Ops[copy[p].cur]
    BY <1>1 DEF BatchTypeOK
  <2>2. QED  BY <1>1, <2>1, OpsAssumption, FS_Subset
<1>6. QED  BY <1>3, <1>4, <1>5, FS_EmptySet

\* An untouched batch is at its opening.
LEMMA UntouchedOpens ==
  ASSUME NEW b, Untouched(b)
  PROVE  Opening(b)
<1>1. \A s \in 1..Sets : ~(s < 1)
  BY SetsAssumption
<1>2. QED  BY <1>1 DEF Untouched, Opening

\* A batch at its opening that goes on to the next set is at its opening.
LEMMA OpeningGoesOn ==
  ASSUME NEW b \in Batches, NEW c, Opening(b), b.count[b.cur] = 0,
         c.count = b.count, c.cur = b.cur + 1
  PROVE  Opening(c)
<1>1. b.cur \in 1..Sets /\ b.cur \in Int /\ \A s \in 1..Sets : s \in Int
  BY SetsAssumption DEF Batches
<1>2. Ops[b.cur] = {}
  <2>1. Cardinality(Ops[b.cur]) = 0
    BY <1>1 DEF Opening
  <2>2. QED  BY <1>1, <2>1, OpsAssumption, FS_EmptySet
<1>3. \A s \in 1..Sets : s < c.cur => s < b.cur \/ s = b.cur
  BY <1>1
<1>4. QED  BY <1>2, <1>3 DEF Opening

\* The copy of a request that goes on to the next set is placed again.
LEMMA NextPlaced ==
  ASSUME NEW b \in Batches, NEW c, Placed(b), b.cur < Sets,
         c.success = [b.success EXCEPT ![b.cur] = TRUE], c.cur = b.cur + 1
  PROVE  Placed(c)
<1> SUFFICES ASSUME NEW s \in 1..Sets
             PROVE  /\ s < c.cur => c.success[s]
                    /\ c.success[s] => (s < c.cur \/ (s = c.cur /\ s = Sets))
  BY DEF Placed
<1>1. /\ b.cur \in 1..Sets /\ b.cur \in Int /\ s \in Int /\ Sets \in Int
      /\ b.success \in [1..Sets -> BOOLEAN]
  BY SetsAssumption DEF Batches
<1>2. CASE s = b.cur
  BY <1>1, <1>2
<1>3. CASE s # b.cur
  <2>1. c.success[s] = b.success[s]
    BY <1>1, <1>3
  <2>2. s < c.cur <=> s < b.cur
    BY <1>1, <1>3
  <2>3. b.success[s] => s < b.cur
    BY <1>3 DEF Placed
  <2>4. s < b.cur => b.success[s]
    BY DEF Placed
  <2>5. QED  BY <2>1, <2>2, <2>3, <2>4
<1>4. QED  BY <1>2, <1>3

\* At the end of a turn of any batch but those of EarlyHundred, the answer is
\* "100" only if the last set is complete.
LEMMA TurnHonest ==
  ASSUME ~EarlyHundred,
         NEW b \in Batches, NEW c, NEW Q, NEW R, NEW f,
         f \in {-1, 0} \/ (f = 1 /\ Opening(b)),
         \A u \in 1..Sets : Q[u] \subseteq Ops[u],
         InStep(b, Q, R), Placed(b),
         b.count[b.cur] = 0 => b.cur = Sets,
         c.count = b.count, c.cur = b.cur,
         c.success = [b.success EXCEPT ![b.cur] = b.success[b.cur] \/ b.count[b.cur] = 0]
  PROVE  /\ Ready(c)
         /\ Hundred(c, f) => Complete(c)
         /\ \A s \in 1..Sets : b.success[s] => c.success[s]
<1> DEFINE k == b.cur
<1>1. /\ k \in 1..Sets /\ b.success \in [1..Sets -> BOOLEAN] /\ b.count[k] \in Nat
      /\ Sets \in Int
  BY SetsAssumption DEF Batches
<1>2. c.success[k] <=> (b.success[k] \/ b.count[k] = 0)
  BY <1>1
<1>3. \A s \in 1..Sets \ {k} : c.success[s] = b.success[s]
  BY <1>1
<1>4. Placed(c)
  <2>1. \A s \in 1..Sets : s < k => (s # k /\ b.success[s])
    BY <1>1 DEF Placed
  <2>2. \A s \in 1..Sets \ {k} : b.success[s] => s < k
    BY DEF Placed
  <2>3. c.success[k] => k = Sets
    BY <1>1, <1>2 DEF Placed
  <2>4. QED  BY <1>3, <2>1, <2>2, <2>3 DEF Placed
<1>5. c.success[c.cur] \/ c.count[c.cur] # 0
  BY <1>2
<1>6. ASSUME Hundred(c, f)
      PROVE  Complete(c)
  <2>1. b.count[k] = 0
    <3>1. CASE Ops[k] = {}
      <4>1. Q[k] = {}
        BY <1>1, <3>1
      <4>2. b.count[k] = Cardinality(Q[k])
        BY <1>1 DEF InStep, SetInStep
      <4>3. QED  BY <4>1, <4>2, FS_EmptySet
    <3>2. CASE f = c.count[k]
      <4>1. CASE f = 1 /\ Opening(b)
        <5>1. Cardinality(Ops[k]) = 1
          BY <1>1, <3>2, <4>1 DEF Opening
        <5>2. \A s \in 1..(k-1) : s \in 1..Sets /\ s < k
          BY <1>1
        <5>3. \A s \in 1..(k-1) : Ops[s] = {}
          BY <4>1, <5>2 DEF Opening
        <5>4. QED  BY <1>1, <4>1, <5>1, <5>3 DEF Opening, EarlyHundred
      <4>2. CASE f \in {-1, 0}
        BY <1>1, <3>2, <4>2
      <4>3. QED  BY <4>1, <4>2
    <3>3. QED  BY <1>6, <3>1, <3>2 DEF Hundred
  <2>2. c.success[k] /\ k = Sets
    BY <1>2, <2>1
  <2>3. \A s \in 1..Sets : s = k \/ s < k
    BY <1>1, <2>2
  <2>4. QED  BY <1>4, <2>2, <2>3 DEF Placed, Complete
<1>7. \A s \in 1..Sets : b.success[s] => c.success[s]
  BY <1>2, <1>3
<1>8. QED  BY <1>4, <1>5, <1>6, <1>7 DEF Ready

\* Every step keeps the invariant.
LEMMA HundredKept ==
  ASSUME ~EarlyHundred, IInv, OnceInv, HundredInv, BatchNext
  PROVE  HundredInv'
<1> USE DEF Goto, Answer, table, locals, history
<1>0. BatchTypeOK /\ \A p \in Requests : copy[p] \in Batches /\ copy[p].cur \in 1..Sets
  BY DEF IInv, BatchTypeOK, Batches
<1>1. ASSUME NEW p \in Requests, NEW o \in Operations, Arrive(p, o)
      PROVE  HundredInv'
  <2>1. /\ stored' = stored /\ row' = row /\ answer' = answer /\ pc'[p] = "load"
        /\ \A q \in Requests \ {p} : pc'[q] = pc[q]
    BY <1>0, <1>1 DEF Arrive, BatchTypeOK
  <2>2. ASSUME ~disturbed'
        PROVE  ReadyAtRest' /\ NoFalseHundred' /\ \A q \in Requests : HonestAtWork(q)'
    <3>1. ~disturbed /\ \A q \in Requests : ~AtWork(q)
      BY <1>1, <2>2 DEF Arrive
    <3>2. \A q \in Requests : pc[q] \notin Processing /\ pc'[q] \notin Processing
      BY <2>1, <3>1 DEF AtWork, Processing
    <3>3. ReadyAtRest'
      BY <2>1, <3>1, <3>2 DEF HundredInv, ReadyAtRest, AtRest
    <3>4. \A q \in Requests : pc'[q] = "reply" => pc[q] = "reply"
      BY <2>1
    <3>5. NoFalseHundred'
      BY <2>1, <3>1, <3>4 DEF HundredInv, NoFalseHundred
    <3>6. QED  BY <3>2, <3>3, <3>5 DEF HonestAtWork
  <2>3. QED  BY <2>2 DEF HundredInv
<1>2. ASSUME NEW p \in Requests, Load(p)
      PROVE  HundredInv'
  <2>1. /\ stored' = stored /\ row' = row /\ disturbed' = disturbed
        /\ pc[p] = "load" /\ AtWork(p) /\ pc[p] \notin Processing
        /\ pc'[p] \in {"reply", "callbacks", "save", "loop"}
        /\ \A q \in Requests \ {p} : pc'[q] = pc[q] /\ answer'[q] = answer[q]
    BY <1>0, <1>2 DEF Load, BatchTypeOK, AtWork, Processing
  <2>2. CASE pc'[p] \in {"reply", "callbacks"}
    <3>1. pc'[p] = "reply" => answer'[p] = "noBatch"
      BY <1>0, <1>2, <2>2 DEF Load, BatchTypeOK
    <3>2. QED  BY <1>0, <2>1, <2>2, <3>1, HundredOutside DEF Processing
  <2>3. CASE pc'[p] \in {"save", "loop"}
    <3>1. stored /\ pc'[p] \in Processing
      BY <1>0, <1>2, <2>3 DEF Load, BatchTypeOK, Processing
    <3>2. ASSUME ~disturbed
          PROVE  Honest(p)'
      <4>1. AtRest
        BY <1>0, <2>1, <3>1, <3>2, OthersRest DEF AtRest
      <4>2. Ready(row) /\ Placed(row)
        BY <3>2, <4>1 DEF HundredInv, ReadyAtRest, Ready
      <4>3. /\ copy'[p].count = row.count /\ copy'[p].success = row.success
            /\ copy'[p].cur = row.cur
        BY <1>0, <1>2, <3>1, LoadCopy
      <4>4. Ready(copy'[p]) /\ Placed(copy'[p])
        BY <4>2, <4>3, SamePlace
      <4>5. pc'[p] = "loop" => ~row.success[row.cur]
        BY <1>0, <1>2, <3>1 DEF Load, BatchTypeOK
      <4>6. pc'[p] = "save" /\ answer'[p] = "hundred" => row.success[row.cur]
        BY <1>0, <1>2, <3>1 DEF Load, BatchTypeOK
      <4>7. pc'[p] = "save" /\ answer'[p] = "hundred" => Complete(copy'[p])
        <5>1. row \in Batches
          BY <1>0 DEF BatchTypeOK
        <5>2. QED  BY <4>2, <4>3, <4>6, <5>1, ReadyComplete, SamePlace
      <4>8. \A s \in 1..Sets : row'.success[s] => copy'[p].success[s]
        BY <2>1, <4>3
      <4>9. QED  BY <2>3, <4>3, <4>4, <4>5, <4>7, <4>8 DEF Honest
    <3>3. /\ pc'[p] # "reply" /\ ~AtRest'
      BY <2>3, <3>1 DEF AtRest
    <3>4. QED  BY <1>0, <2>1, <3>2, <3>3, HundredStep DEF ReadyAtRest, HonestAtWork
  <2>4. QED  BY <2>1, <2>2, <2>3
<1>3. ASSUME NEW p \in Requests, Claim(p)
      PROVE  HundredInv'
  <2>1. /\ row' = row /\ copy' = copy /\ answer' = answer /\ disturbed' = disturbed
        /\ pc[p] = "loop" /\ pc[p] \in Processing /\ pc'[p] \in Processing
        /\ queue[copy[p].cur] # {} => pc'[p] = "work"
        /\ queue[copy[p].cur] = {} => pc'[p] = "sets" /\ fin'[p] = 1
        /\ \A q \in Requests \ {p} : pc'[q] = pc[q]
    BY <1>0, <1>3 DEF Claim, BatchTypeOK, Processing
  <2>2. ASSUME ~disturbed
        PROVE  Honest(p)'
    <3>1. Honest(p)
      BY <2>1, <2>2 DEF HundredInv, HonestAtWork
    <3>2. CASE queue[copy[p].cur] # {}
      <4>1. copy[p].count[copy[p].cur] # 0
        BY <1>0, <2>1, <2>2, <3>2, ClaimGetsOne
      <4>2. QED  BY <2>1, <3>1, <3>2, <4>1 DEF Honest
    <3>3. CASE queue[copy[p].cur] = {}
      <4>1. Opening(copy[p])
        BY <1>0, <2>1, <2>2, <3>3, ClaimGetsOne, UntouchedOpens
      <4>2. QED  BY <2>1, <3>1, <3>3, <4>1 DEF Honest
    <3>4. QED  BY <3>2, <3>3
  <2>3. QED  BY <1>0, <2>1, <2>2, HundredInside
<1>4. ASSUME NEW p \in Requests, Call(p)
      PROVE  HundredInv'
  <2>1. /\ row' = row /\ answer' = answer /\ disturbed' = disturbed
        /\ pc[p] = "work" /\ pc[p] \in Processing /\ pc'[p] \in {"delete", "sets"}
        /\ pc'[p] = "sets" => fin'[p] = -1
        /\ \A q \in Requests \ {p} : pc'[q] = pc[q]
    BY <1>0, <1>4 DEF Call, BatchTypeOK, Processing
  <2>2. /\ copy'[p].count = copy[p].count /\ copy'[p].success = copy[p].success
        /\ copy'[p].cur = copy[p].cur
    BY <1>0, <1>4, CallCopy
  <2>3. ASSUME ~disturbed
        PROVE  Honest(p)'
    <3>1. /\ Placed(copy[p]) /\ ~copy[p].success[copy[p].cur]
          /\ copy[p].count[copy[p].cur] # 0
          /\ \A s \in 1..Sets : row.success[s] => copy[p].success[s]
      BY <2>1, <2>3 DEF HundredInv, HonestAtWork, Honest
    <3>2. Placed(copy'[p])
      BY <2>2, <3>1, SamePlace
    <3>3. QED  BY <2>1, <2>2, <3>1, <3>2 DEF Honest
  <2>4. QED  BY <1>0, <2>1, <2>3, HundredInside DEF Processing
<1>5. ASSUME NEW p \in Requests, CallFails(p)
      PROVE  HundredInv'
  <2>1. /\ row' = row /\ copy' = copy /\ disturbed' = disturbed
        /\ pc[p] = "work" /\ pc[p] \in Processing /\ pc'[p] = "fail" /\ answer'[p] = "error"
        /\ \A q \in Requests \ {p} : pc'[q] = pc[q] /\ answer'[q] = answer[q]
    BY <1>0, <1>5 DEF CallFails, BatchTypeOK, Processing
  <2>2. ASSUME ~disturbed
        PROVE  Honest(p)'
    <3>1. Honest(p)
      BY <2>1, <2>2 DEF HundredInv, HonestAtWork
    <3>2. QED  BY <2>1, <3>1 DEF Honest
  <2>3. QED  BY <1>0, <2>1, <2>2, HundredInside DEF Processing
<1>6. ASSUME NEW p \in Requests, DeleteItem(p)
      PROVE  HundredInv'
  <2>1. /\ row' = row /\ answer' = answer /\ disturbed' = disturbed
        /\ pc[p] = "delete" /\ pc[p] \in Processing /\ pc'[p] = "sets" /\ fin'[p] = 0
        /\ \A q \in Requests \ {p} : pc'[q] = pc[q]
    BY <1>0, <1>6 DEF DeleteItem, BatchTypeOK, Processing
  <2>2. copy'[p].success = copy[p].success /\ copy'[p].cur = copy[p].cur
    BY <1>6, DeleteItemCopy
  <2>3. ASSUME ~disturbed
        PROVE  Honest(p)'
    <3>1. /\ Placed(copy[p])
          /\ \A s \in 1..Sets : row.success[s] => copy[p].success[s]
      BY <2>1, <2>3 DEF HundredInv, HonestAtWork, Honest
    <3>2. Placed(copy'[p])
      BY <2>2, <3>1, SamePlace
    <3>3. QED  BY <2>1, <2>2, <3>1, <3>2 DEF Honest
  <2>4. QED  BY <1>0, <2>1, <2>3, HundredInside DEF Processing
<1>7. ASSUME NEW p \in Requests, NextSet(p)
      PROVE  HundredInv'
  <2>1. /\ row' = row /\ answer' = answer /\ fin' = fin /\ disturbed' = disturbed /\ pc' = pc
        /\ pc[p] = "sets" /\ pc[p] \in Processing /\ copy[p].cur < Sets
        /\ copy[p].count[copy[p].cur] = 0
    BY <1>7 DEF NextSet, Processing
  <2>2. /\ copy'[p].success = [copy[p].success EXCEPT ![copy[p].cur] = TRUE]
        /\ copy'[p].cur = copy[p].cur + 1 /\ copy'[p].count = copy[p].count
    BY <1>0, <1>7, NextSetCopy
  <2>3. ASSUME ~disturbed
        PROVE  Honest(p)'
    <3>1. /\ Placed(copy[p]) /\ (fin[p] \in {-1, 0} \/ (fin[p] = 1 /\ Opening(copy[p])))
          /\ \A s \in 1..Sets : row.success[s] => copy[p].success[s]
      BY <2>1, <2>3 DEF HundredInv, HonestAtWork, Honest
    <3>2. Placed(copy'[p])
      BY <1>0, <2>1, <2>2, <3>1, NextPlaced
    <3>3. \A s \in 1..Sets : copy[p].success[s] => copy'[p].success[s]
      BY <1>0, <2>2 DEF Batches
    <3>4. Opening(copy[p]) => Opening(copy'[p])
      BY <1>0, <2>1, <2>2, OpeningGoesOn
    <3>5. QED  BY <2>1, <3>1, <3>2, <3>3, <3>4 DEF Honest
  <2>4. QED  BY <1>0, <2>1, <2>3, HundredInside
<1>8. ASSUME NEW p \in Requests, EndTurn(p)
      PROVE  HundredInv'
  <2> DEFINE s == copy[p].cur
             c == [copy[p] EXCEPT !.success[s] = copy[p].success[s] \/ copy[p].count[s] = 0]
  <2>1. /\ row' = row /\ fin' = fin /\ disturbed' = disturbed
        /\ pc[p] = "sets" /\ pc[p] \in Processing /\ pc'[p] \in {"loop", "save"}
        /\ \A q \in Requests \ {p} : pc'[q] = pc[q] /\ answer'[q] = answer[q]
        /\ copy[p].count[s] = 0 => s = Sets
    BY <1>0, <1>8 DEF EndTurn, BatchTypeOK, Processing
  <2>2. copy'[p] = c
    BY <1>0, <1>8 DEF EndTurn, BatchTypeOK
  <2>3. pc'[p] = "loop" => ~c.success[s]
    BY <1>0, <1>8 DEF EndTurn, BatchTypeOK
  <2>4. pc'[p] = "save" /\ answer'[p] = "hundred" => Hundred(c, fin[p])
    BY <1>0, <1>8 DEF EndTurn, BatchTypeOK
  <2>5. c.cur = s
    BY <1>0 DEF Batches
  <2> HIDE DEF c
  <2>6. ASSUME ~disturbed
        PROVE  Honest(p)'
    <3>1. /\ Placed(copy[p]) /\ (fin[p] \in {-1, 0} \/ (fin[p] = 1 /\ Opening(copy[p])))
          /\ \A u \in 1..Sets : row.success[u] => copy[p].success[u]
      BY <2>1, <2>6 DEF HundredInv, HonestAtWork, Honest
    <3>2. InStep(copy[p], queue, ran) /\ \A u \in 1..Sets : queue[u] \subseteq Ops[u]
      BY <1>0, <2>1, <2>6 DEF OnceInv, InStepAtWork, BatchTypeOK
    <3>3. /\ c.count = copy[p].count /\ c.cur = s
          /\ c.success = [copy[p].success EXCEPT ![s] =
                            copy[p].success[s] \/ copy[p].count[s] = 0]
      BY <1>0, <1>8, <2>2, EndTurnCopy
    <3>4. /\ Ready(c) /\ (Hundred(c, fin[p]) => Complete(c))
          /\ \A u \in 1..Sets : copy[p].success[u] => c.success[u]
      BY <1>0, <2>1, <3>1, <3>2, <3>3, TurnHonest
    <3>5. Placed(c)
      BY <3>4 DEF Ready
    <3>6. QED  BY <2>1, <2>2, <2>3, <2>4, <2>5, <3>1, <3>4, <3>5 DEF Honest
  <2>7. QED  BY <1>0, <2>1, <2>6, HundredInside DEF Processing
<1>9. ASSUME NEW p \in Requests, Save(p)
      PROVE  HundredInv'
  <2>1. /\ stored' = stored /\ answer' = answer /\ disturbed' = disturbed
        /\ row' = IF stored THEN copy[p] ELSE row
        /\ pc[p] \in {"save", "fail"} /\ pc[p] \in Processing /\ AtWork(p) /\ pc'[p] = "reply"
        /\ \A q \in Requests \ {p} : pc'[q] = pc[q]
    BY <1>0, <1>9 DEF Save, BatchTypeOK, Processing, AtWork
  <2>2. ASSUME ~disturbed
        PROVE  ReadyAtRest' /\ NoFalseHundred' /\ \A q \in Requests : HonestAtWork(q)'
    <3>1. /\ stored /\ Ready(copy[p]) /\ Honest(p)
      BY <2>1, <2>2 DEF OnceInv, InStepAtWork, HundredInv, HonestAtWork, Honest, Ready
    <3>2. row' = copy[p]
      BY <2>1, <3>1
    <3>3. \A q \in Requests : pc'[q] \notin Processing
      BY <1>0, <2>1, <2>2, OthersRest DEF Processing
    <3>4. ASSUME NEW q \in Requests, pc'[q] = "reply", answer'[q] = "hundred", NEW s \in 1..Sets
          PROVE  row'.success[s]
      <4>1. CASE q = p
        <5>1. pc[p] = "save" /\ answer[p] = "hundred"
          BY <2>1, <3>1, <3>4, <4>1 DEF Honest
        <5>2. QED  BY <3>1, <3>2, <5>1 DEF Honest, Complete
      <4>2. CASE q # p
        <5>1. row.success[s]
          BY <2>1, <2>2, <3>4, <4>2 DEF HundredInv, NoFalseHundred
        <5>2. QED  BY <3>1, <3>2, <5>1 DEF Honest
      <4>3. QED  BY <4>1, <4>2
    <3>5. QED  BY <3>1, <3>2, <3>3, <3>4 DEF ReadyAtRest, NoFalseHundred, HonestAtWork
  <2>3. QED  BY <2>1, <2>2 DEF HundredInv
<1>10. ASSUME NEW p \in Requests, Callbacks(p)
       PROVE  HundredInv'
  BY <1>0, <1>10, HundredOutside DEF Callbacks, BatchTypeOK, Processing, AtWork
<1>11. ASSUME NEW p \in Requests, DeleteRow(p)
       PROVE  HundredInv'
  BY <1>0, <1>11, HundredOutside DEF DeleteRow, BatchTypeOK, Processing, AtWork
<1>12. ASSUME NEW p \in Requests, DeleteQueues(p)
       PROVE  HundredInv'
  BY <1>0, <1>12, HundredOutside DEF DeleteQueues, BatchTypeOK, Processing, AtWork
<1>13. ASSUME NEW p \in Requests, Respond(p)
       PROVE  HundredInv'
  <2>1. /\ stored' = stored /\ row' = row /\ copy' = copy /\ fin' = fin /\ disturbed' = disturbed
        /\ pc[p] = "reply" /\ pc'[p] = "idle"
        /\ \A q \in Requests \ {p} : pc'[q] = pc[q] /\ answer'[q] = answer[q]
    BY <1>0, <1>13 DEF Respond, BatchTypeOK
  <2>2. ASSUME ~disturbed
        PROVE  ReadyAtRest' /\ NoFalseHundred' /\ \A q \in Requests : HonestAtWork(q)'
    <3>1. AtRest' => AtRest
      BY <2>1 DEF AtRest, Processing
    <3>2. ReadyAtRest'
      BY <2>1, <2>2, <3>1 DEF HundredInv, ReadyAtRest
    <3>3. NoFalseHundred'
      BY <2>1, <2>2 DEF HundredInv, NoFalseHundred
    <3>4. ASSUME NEW q \in Requests, pc'[q] \in Processing
          PROVE  Honest(q)'
      <4>1. q # p
        BY <2>1, <3>4 DEF Processing
      <4>2. Honest(q)
        BY <2>1, <2>2, <3>4, <4>1 DEF HundredInv, HonestAtWork
      <4>3. QED  BY <2>1, <4>1, <4>2 DEF Honest
    <3>5. QED  BY <3>2, <3>3, <3>4 DEF HonestAtWork
  <2>3. QED  BY <2>1, <2>2 DEF HundredInv
<1>14. ASSUME NEW p \in Requests, Kill(p)
       PROVE  HundredInv'
  BY <1>14 DEF Kill, HundredInv
<1>15. QED  BY <1>1, <1>2, <1>3, <1>4, <1>5, <1>6, <1>7, <1>8, <1>9, <1>10, <1>11, <1>12, <1>13, <1>14 DEF BatchNext, Work

\* The invariant is kept by every behaviour of the specification, for every
\* batch but those of EarlyHundred.
LEMMA HundredInvariant ==
  ASSUME ~EarlyHundred
  PROVE  BatchSpec => []HundredInv
<1>1. HundredInv /\ UNCHANGED batchVars => HundredInv'
  <2> SUFFICES ASSUME HundredInv, UNCHANGED batchVars PROVE HundredInv'
    OBVIOUS
  <2> USE DEF batchVars, table, locals, history
  <2>1. ReadyAtRest => ReadyAtRest'
    BY DEF ReadyAtRest, AtRest
  <2>2. \A p \in Requests : HonestAtWork(p) => HonestAtWork(p)'
    BY DEF HonestAtWork, Honest
  <2>3. NoFalseHundred => NoFalseHundred'
    BY DEF NoFalseHundred
  <2>4. QED  BY <2>1, <2>2, <2>3 DEF HundredInv
<1>2. IInv /\ OnceInv /\ HundredInv /\ [BatchNext]_batchVars => HundredInv'
  BY <1>1, HundredKept
<1>3. QED  BY HundredInitially, <1>2, Invariant, OnceInvariant, PTL DEF BatchSpec

\* Unless requests meet or are killed, "100" is answered only for a complete
\* batch, for any sets and operations but those of EarlyHundred: sets without
\* operations, at the beginning too, and then one with a single operation.
THEOREM HundredIsComplete == BatchSpec => []HundredIsLast
<1>1. ASSUME ~EarlyHundred
      PROVE  BatchSpec => []HundredIsLast
  <2>1. HundredInv => HundredIsLast
    BY DEF HundredInv, HundredIsLast, NoFalseHundred
  <2>2. QED  BY <1>1, <2>1, HundredInvariant, PTL
<1>2. ASSUME EarlyHundred
      PROVE  BatchSpec => []HundredIsLast
  <2>1. HundredIsLast
    BY <1>2 DEF HundredIsLast
  <2>2. QED  BY <2>1, PTL
<1>3. QED  BY <1>1, <1>2

-----------------------------------------------------------------------------
(* The page leaves for op=finished when it reads "100", and the server     *)
(* finishes the batch that it is asked to finish: together they call the   *)
(* finished callbacks no earlier than the batch is complete, if it is not  *)
(* one of EarlyHundred.                                                    *)

\* Unless requests meet, are killed or the user gives up, no finished callback
\* is told of a failure or of operations that are left, for every batch but
\* those of EarlyHundred.
NoEarlyFinish ==
  ~EarlyHundred /\ ~disturbed /\ ~gaveUp => \A r \in reported : r.success /\ ~r.left

\* Who leaves for op=finished, or asks for it, does so with a complete batch.
FinishInv ==
  ~disturbed /\ ~gaveUp =>
    /\ page \in {"leave", "broken"} => Complete(row)
    /\ \A p \in Requests : pc[p] # "idle" /\ op[p] = "finished" => Complete(row)
    /\ \A p \in Requests : pc[p] = "callbacks" => Complete(copy[p])
    /\ \A r \in reported : r.success

\* What a request at work does to the request and to the reports.
LEMMA WorkTowardsEnd ==
  ASSUME BatchTypeOK, NEW p \in Requests, Work(p)
  PROVE  /\ op' = op /\ disturbed' = disturbed /\ pc[p] # "idle"
         /\ \A q \in Requests \ {p} : pc'[q] = pc[q] /\ copy'[q] = copy[q]
         /\ row' = row \/ (pc[p] \in Processing /\ row' = copy[p])
         /\ pc'[p] = "callbacks" =>
              op[p] = "finished" /\ copy'[p].success = row.success
         /\ \A r \in reported' :
              r \in reported \/ (pc[p] = "callbacks" /\ \E s \in 1..Sets : r.success = copy[p].success[s])
<1> USE DEF Goto, Answer, table, locals, history, BatchTypeOK
<1>1. CASE Load(p)
  <2>1. pc'[p] = "callbacks" => stored /\ op[p] = "finished"
    BY <1>1 DEF Load
  <2>2. pc'[p] = "callbacks" => copy'[p].success = row.success
    BY <1>1, <2>1, LoadCopy
  <2>3. QED  BY <1>1, <2>1, <2>2 DEF Load
<1>2. CASE Claim(p)
  BY <1>2 DEF Claim
<1>3. CASE Call(p)
  BY <1>3 DEF Call
<1>4. CASE CallFails(p)
  BY <1>4 DEF CallFails
<1>5. CASE DeleteItem(p)
  BY <1>5 DEF DeleteItem
<1>6. CASE NextSet(p)
  BY <1>6 DEF NextSet
<1>7. CASE EndTurn(p)
  BY <1>7 DEF EndTurn
<1>8. CASE Save(p)
  BY <1>8 DEF Save, Forget, Processing
<1>9. CASE Callbacks(p)
  BY <1>9 DEF Callbacks
<1>10. CASE DeleteRow(p)
  BY <1>10 DEF DeleteRow
<1>11. CASE DeleteQueues(p)
  BY <1>11 DEF DeleteQueues, Forget
<1>12. QED  BY <1>1, <1>2, <1>3, <1>4, <1>5, <1>6, <1>7, <1>8, <1>9, <1>10, <1>11 DEF Work

\* Every step of the page and the server keeps the invariant.
LEMMA FinishKept ==
  ASSUME BatchTypeOK, PageTypeOK, HundredInv, FinishInv, Next
  PROVE  FinishInv'
<1> SUFFICES ASSUME ~disturbed', ~gaveUp'
             PROVE  /\ page' \in {"leave", "broken"} => Complete(row')
                    /\ \A q \in Requests : pc'[q] # "idle" /\ op'[q] = "finished" => Complete(row')
                    /\ \A q \in Requests : pc'[q] = "callbacks" => Complete(copy'[q])
                    /\ \A r \in reported' : r.success
  BY DEF FinishInv, Complete
<1> USE DEF Goto, Answer, table, locals, history, pageVars
<1>1. ASSUME NEW p \in Requests, Serve(p)
      PROVE  /\ page' \in {"leave", "broken"} => Complete(row')
             /\ \A q \in Requests : pc'[q] # "idle" /\ op'[q] = "finished" => Complete(row')
             /\ \A q \in Requests : pc'[q] = "callbacks" => Complete(copy'[q])
             /\ \A r \in reported' : r.success
  <2>1. Work(p) /\ page' = page /\ gaveUp' = gaveUp
    BY <1>1 DEF Serve
  <2>2. /\ op' = op /\ disturbed' = disturbed /\ pc[p] # "idle"
        /\ \A q \in Requests \ {p} : pc'[q] = pc[q] /\ copy'[q] = copy[q]
        /\ row' = row \/ (pc[p] \in Processing /\ row' = copy[p])
        /\ pc'[p] = "callbacks" => op[p] = "finished" /\ copy'[p].success = row.success
        /\ \A r \in reported' :
             r \in reported \/ (pc[p] = "callbacks" /\ \E s \in 1..Sets : r.success = copy[p].success[s])
    BY <2>1, WorkTowardsEnd
  <2>3. ~disturbed /\ ~gaveUp
    BY <2>1, <2>2
  <2>4. Complete(row) => Complete(row')
    BY <2>2, <2>3 DEF HundredInv, HonestAtWork, Honest, Complete
  <2>5. \A q \in Requests : pc'[q] # "idle" => pc[q] # "idle"
    BY <2>2
  <2>6. pc'[p] = "callbacks" => Complete(copy'[p])
    BY <2>2, <2>3 DEF FinishInv, Complete
  <2>7. \A r \in reported' : r.success
    BY <2>2, <2>3 DEF FinishInv, Complete
  <2>8. QED  BY <2>1, <2>2, <2>3, <2>4, <2>5, <2>6, <2>7 DEF FinishInv
<1>2. ASSUME NEW p \in Requests, Stop(p)
      PROVE  FALSE
  BY <1>2 DEF Stop, Kill
<1>3. ASSUME NEW p \in Requests, Respond(p), gaveUp' = gaveUp,
             page' \in {"leave", "broken"} => page \in {"leave", "broken"} \/ Complete(row)
      PROVE  /\ page' \in {"leave", "broken"} => Complete(row')
             /\ \A q \in Requests : pc'[q] # "idle" /\ op'[q] = "finished" => Complete(row')
             /\ \A q \in Requests : pc'[q] = "callbacks" => Complete(copy'[q])
             /\ \A r \in reported' : r.success
  <2>1. /\ row' = row /\ op' = op /\ copy' = copy /\ reported' = reported
        /\ disturbed' = disturbed
        /\ \A q \in Requests : pc'[q] # "idle" => pc'[q] = pc[q]
    BY <1>3 DEF Respond, BatchTypeOK
  <2>2. QED  BY <1>3, <2>1 DEF FinishInv
<1>4. ASSUME NEW p \in Requests, Receive(p)
      PROVE  page' \in {"leave", "broken"} => Complete(row)
  <2>1. /\ pc[p] = "reply" /\ page' = AfterAnswer(op[p], answer[p])
        /\ disturbed' = disturbed /\ gaveUp' = gaveUp
    BY <1>4 DEF Receive, Respond
  <2>2. page' = "leave" => answer[p] = "hundred"
    BY <2>1 DEF AfterAnswer
  <2>3. page' = "broken" => op[p] = "finished"
    BY <2>1 DEF AfterAnswer
  <2>4. answer[p] = "hundred" => Complete(row)
    BY <2>1 DEF HundredInv, NoFalseHundred, Complete
  <2>5. QED  BY <2>1, <2>2, <2>3, <2>4 DEF FinishInv
<1>5. ASSUME NEW p \in Requests, Open(p) \/ SendPing(p) \/ Leave(p)
      PROVE  /\ page' \in {"leave", "broken"} => Complete(row')
             /\ \A q \in Requests : pc'[q] # "idle" /\ op'[q] = "finished" => Complete(row')
             /\ \A q \in Requests : pc'[q] = "callbacks" => Complete(copy'[q])
             /\ \A r \in reported' : r.success
  <2>1. /\ row' = row /\ copy' = copy /\ reported' = reported /\ page' = "wait"
        /\ gaveUp' = gaveUp /\ ~disturbed /\ pc'[p] = "load"
        /\ \A q \in Requests \ {p} : pc'[q] = pc[q] /\ op'[q] = op[q]
        /\ op'[p] = "finished" => page = "leave"
    BY <1>5 DEF Open, SendPing, Leave, Request, Arrive, BatchTypeOK
  <2>2. QED  BY <2>1 DEF FinishInv
<1>6. ASSUME Reload \/ FollowLink \/ Disconnect \/ Over
      PROVE  /\ page' \in {"leave", "broken"} => Complete(row')
             /\ \A q \in Requests : pc'[q] # "idle" /\ op'[q] = "finished" => Complete(row')
             /\ \A q \in Requests : pc'[q] = "callbacks" => Complete(copy'[q])
             /\ \A r \in reported' : r.success
  <2>1. UNCHANGED batchVars
    BY <1>6 DEF Reload, FollowLink, Disconnect, Over, vars
  <2>2. UNCHANGED <<row, copy, reported, pc, op, disturbed>>
    BY <2>1 DEF batchVars
  <2>3. ~disturbed /\ ~gaveUp
    BY <1>6, <2>2 DEF Reload, FollowLink, Disconnect, Over, vars
  <2>4. page' \in {"leave", "broken"} =>
          page \in {"leave", "broken"} \/ (page = "wait" /\ op[conn] = "finished")
    BY <1>6 DEF Reload, FollowLink, Disconnect, Over, vars
  <2>5. page = "wait" => conn \in Requests /\ pc[conn] # "idle"
    BY DEF PageTypeOK
  <2>6. QED  BY <2>2, <2>3, <2>4, <2>5 DEF FinishInv
<1>7. ASSUME NEW p \in Requests, Discard(p)
      PROVE  Respond(p) /\ gaveUp' = gaveUp /\ page' = page
  BY <1>7 DEF Discard
<1>8. ASSUME NEW p \in Requests, Receive(p)
      PROVE  Respond(p) /\ gaveUp' = gaveUp
  BY <1>8 DEF Receive
<1>9. QED  BY <1>1, <1>2, <1>3, <1>4, <1>5, <1>6, <1>7, <1>8 DEF Next, Browse

\* A batch that nobody disturbs or gives up on tells no finished callback of a
\* failure or of operations that are left, as its page leaves for the end only
\* when it is complete: across reloads, lost connections and fatal errors, for
\* any sets and operations but those of EarlyHundred.
LEMMA FinishInvariant ==
  ASSUME ~EarlyHundred
  PROVE  Spec => []NoEarlyFinish
<1>1. Init => FinishInv
  BY DEF Init, BatchInit, FinishInv
<1>2. BatchTypeOK /\ TypeOK => PageTypeOK
  BY DEF TypeOK, PageTypeOK
<1>3. FinishInv /\ UNCHANGED vars => FinishInv'
  <2>1. UNCHANGED vars => UNCHANGED <<page, gaveUp, row, copy, reported, pc, op, disturbed>>
    BY DEF vars, batchVars, pageVars, table, locals, history
  <2>2. QED  BY <2>1 DEF FinishInv, Complete
<1>4. BatchTypeOK /\ PageTypeOK /\ HundredInv /\ FinishInv /\ [Next]_vars => FinishInv'
  BY <1>3, FinishKept
<1>5. BatchTypeOK /\ HonestReport /\ FinishInv => NoEarlyFinish
  BY DEF HonestReport, FinishInv, NoEarlyFinish
<1>6. QED
  BY <1>1, <1>2, <1>4, <1>5, PageRunsBatch, TypeCorrect, ReportsAreHonest, PageTypeCorrect,
     HundredInvariant, PTL DEF Spec

\* No finished callback of a batch that nobody disturbs or gives up on is told
\* of a failure or of operations that are left, unless the batch begins with
\* sets without operations and goes on with one of a single operation.
THEOREM FinishIsNotEarly == Spec => []NoEarlyFinish
<1>1. ASSUME EarlyHundred
      PROVE  Spec => []NoEarlyFinish
  <2>1. NoEarlyFinish
    BY <1>1 DEF NoEarlyFinish
  <2>2. QED  BY <2>1, PTL
<1>2. QED  BY <1>1, FinishInvariant

-----------------------------------------------------------------------------
(* Operations are called in order.                                         *)

\* A batch has completed the sets before its current one.
Passed(b) == \A s \in 1..Sets : s < b.cur => b.success[s]

\* As long as anything is queued, an operation that is not has been finished:
\* only the end of the batch empties queues otherwise.
GoneLast ==
  (\E s \in 1..Sets : queue[s] # {}) =>
    \A s \in 1..Sets : \A i \in Ops[s] \ queue[s] : Last(i)

\* What comes before the operation of a request in its set has been finished.
EarlierLast(p) ==
  pc[p] \in {"work", "delete"} => \A j \in Ops[copy[p].cur] : j < item[p] => Last(j)

OrderInv ==
  /\ Passed(row)
  /\ GoneLast
  /\ \A p \in Requests : Passed(copy[p]) /\ EarlierLast(p)

\* A step of request p that leaves the queues as they are keeps the order, if
\* the batches it touches and its own operation do.
LEMMA OrderKeeps ==
  ASSUME OrderInv, NEW p \in Requests,
         ran \subseteq ran', queue' = queue,
         \A q \in Requests \ {p} : pc'[q] = pc[q] /\ copy'[q] = copy[q] /\ item'[q] = item[q],
         Passed(row'), Passed(copy'[p]), EarlierLast(p)'
  PROVE  OrderInv'
<1>1. \A i : Last(i) => Last(i)'
  BY DEF Last
<1>2. GoneLast'
  BY <1>1 DEF OrderInv, GoneLast
<1>3. ASSUME NEW q \in Requests, q # p
      PROVE  Passed(copy'[q]) /\ EarlierLast(q)'
  BY <1>1, <1>3 DEF OrderInv, EarlierLast
<1>4. QED  BY <1>2, <1>3 DEF OrderInv

\* The same for a step that makes no call and does not take up an operation.
LEMMA OrderAside ==
  ASSUME OrderInv, NEW p \in Requests,
         ran' = ran, queue' = queue, pc'[p] \notin {"work", "delete"},
         \A q \in Requests \ {p} : pc'[q] = pc[q] /\ copy'[q] = copy[q] /\ item'[q] = item[q],
         Passed(row'), Passed(copy'[p])
  PROVE  OrderInv'
BY OrderKeeps DEF EarlierLast

\* A batch keeps its place in the order of the sets.
LEMMA PassedSame ==
  ASSUME NEW b, NEW c, Passed(b), c.cur = b.cur,
         \A s \in 1..Sets : b.success[s] => c.success[s]
  PROVE  Passed(c)
BY DEF Passed

\* A new batch has no sets before its current one.
LEMMA NewPassed == Passed(NewBatch)
BY DEF Passed, NewBatch

\* The order holds in a new batch.
LEMMA OrderInitially == BatchInit => OrderInv
<1> SUFFICES ASSUME BatchInit
             PROVE  OrderInv
  OBVIOUS
<1>1. GoneLast
  BY DEF BatchInit, GoneLast
<1>2. QED  BY <1>1, NewPassed DEF BatchInit, OrderInv, EarlierLast

\* Every step keeps the order.
LEMMA OrderKept ==
  ASSUME IInv, OrderInv, BatchNext
  PROVE  OrderInv'
<1> USE DEF Goto, Answer, table, locals, history
<1>0. BatchTypeOK
  BY DEF IInv
<1>a. Passed(row) /\ \A p \in Requests : Passed(copy[p]) /\ copy[p] \in Batches
  BY DEF OrderInv, IInv, BatchTypeOK
<1>1. ASSUME NEW p \in Requests, NEW o \in Operations, Arrive(p, o)
      PROVE  OrderInv'
  BY <1>0, <1>1, <1>a, OrderAside DEF Arrive, BatchTypeOK
<1>2. ASSUME NEW p \in Requests, Load(p)
      PROVE  OrderInv'
  <2>1. Passed(copy'[p])
    <3>1. CASE stored
      BY <1>0, <1>2, <1>a, <3>1, LoadCopy, PassedSame
    <3>2. CASE ~stored
      BY <1>2, <1>a, <3>2 DEF Load
    <3>3. QED  BY <3>1, <3>2
  <2>2. /\ pc'[p] \notin {"work", "delete"}
        /\ \A q \in Requests \ {p} : pc'[q] = pc[q] /\ copy'[q] = copy[q] /\ item'[q] = item[q]
    BY <1>0, <1>2 DEF Load, BatchTypeOK
  <2>3. QED  BY <1>2, <1>a, <2>1, <2>2, OrderAside DEF Load
<1>3. ASSUME NEW p \in Requests, Claim(p)
      PROVE  OrderInv'
  <2> DEFINE s == copy[p].cur
  <2>1. /\ ran' = ran /\ queue' = queue /\ row' = row /\ copy' = copy
        /\ \A q \in Requests \ {p} : pc'[q] = pc[q] /\ item'[q] = item[q]
    BY <1>0, <1>3 DEF Claim, BatchTypeOK
  <2>2. EarlierLast(p)'
    <3> SUFFICES ASSUME pc'[p] \in {"work", "delete"}, NEW j \in Ops[s], j < item'[p]
                 PROVE  Last(j)'
      BY <2>1 DEF EarlierLast
    <3>1. s \in 1..Sets
      BY <1>a DEF Batches
    <3>2. item'[p] \in queue[s] /\ \A k \in queue[s] : item'[p] <= k
      BY <1>0, <1>3 DEF Claim, BatchTypeOK
    <3>3. j \notin queue[s]
      <4>1. item'[p] \in Nat /\ j \in Nat
        BY <1>0, <3>1, <3>2, OpsAssumption DEF BatchTypeOK
      <4>2. QED  BY <3>2, <4>1
    <3>4. Last(j)
      BY <3>1, <3>2, <3>3 DEF OrderInv, GoneLast
    <3>5. QED  BY <2>1, <3>4 DEF Last
  <2>3. QED  BY <1>a, <2>1, <2>2, OrderKeeps
<1>4. ASSUME NEW p \in Requests, Call(p)
      PROVE  OrderInv'
  <2>1. /\ ran \subseteq ran' /\ queue' = queue /\ row' = row /\ item' = item
        /\ \A q \in Requests \ {p} : pc'[q] = pc[q] /\ copy'[q] = copy[q]
    BY <1>0, <1>4 DEF Call, BatchTypeOK
  <2>2. Passed(copy'[p])
    BY <1>0, <1>4, <1>a, CallCopy, PassedSame
  <2>3. EarlierLast(p)'
    <3>1. \A j \in Ops[copy[p].cur] : j < item[p] => Last(j)
      BY <1>4 DEF OrderInv, EarlierLast, Call
    <3>2. copy'[p].cur = copy[p].cur
      BY <1>0, <1>4, CallCopy
    <3>3. QED  BY <2>1, <3>1, <3>2 DEF EarlierLast, Last
  <2>4. QED  BY <1>a, <2>1, <2>2, <2>3, OrderKeeps
<1>5. ASSUME NEW p \in Requests, CallFails(p)
      PROVE  OrderInv'
  BY <1>0, <1>5, <1>a, OrderAside DEF CallFails, BatchTypeOK
<1>6. ASSUME NEW p \in Requests, DeleteItem(p)
      PROVE  OrderInv'
  <2> DEFINE s == copy[p].cur
  <2>1. /\ queue' = [queue EXCEPT ![s] = queue[s] \ {item[p]}]
        /\ row' = row /\ item' = item /\ ran' = ran /\ pc'[p] = "sets"
        /\ \A q \in Requests \ {p} : pc'[q] = pc[q] /\ copy'[q] = copy[q]
    BY <1>0, <1>6, DeleteItemCopy DEF DeleteItem, BatchTypeOK
  <2>2. Passed(copy'[p])
    BY <1>6, <1>a, DeleteItemCopy, PassedSame
  <2>3. Last(item[p])
    BY <1>6 DEF IInv, OwnCounted, DeleteItem
  <2>4. \A t \in 1..Sets : queue'[t] \subseteq queue[t] /\ queue[t] \subseteq queue'[t] \cup {item[p]}
    BY <1>0, <2>1 DEF BatchTypeOK
  <2>5. GoneLast'
    <3> SUFFICES ASSUME \E t \in 1..Sets : queue'[t] # {},
                        NEW t \in 1..Sets, NEW i \in Ops[t], i \notin queue'[t]
                 PROVE  Last(i)'
      BY DEF GoneLast
    <3>1. \E u \in 1..Sets : queue[u] # {}
      BY <2>4
    <3>2. i = item[p] \/ i \notin queue[t]
      BY <2>4
    <3>3. Last(i)
      BY <2>3, <3>1, <3>2 DEF OrderInv, GoneLast
    <3>4. QED  BY <2>1, <3>3 DEF Last
  <2>6. \A q \in Requests : EarlierLast(q)'
    BY <2>1 DEF OrderInv, EarlierLast, Last
  <2>7. QED  BY <1>a, <2>1, <2>2, <2>5, <2>6 DEF OrderInv
<1>7. ASSUME NEW p \in Requests, NextSet(p)
      PROVE  OrderInv'
  <2> DEFINE s == copy[p].cur
  <2>1. /\ copy'[p].success = [copy[p].success EXCEPT ![s] = TRUE] /\ copy'[p].cur = s + 1
        /\ \A q \in Requests \ {p} : copy'[q] = copy[q]
    BY <1>0, <1>7, NextSetCopy
  <2>2. Passed(copy'[p])
    <3> SUFFICES ASSUME NEW t \in 1..Sets, t < s + 1
                 PROVE  copy'[p].success[t]
      BY <2>1 DEF Passed
    <3>1. copy[p].success \in [1..Sets -> BOOLEAN] /\ s \in 1..Sets
      BY <1>a DEF Batches
    <3>2. CASE t = s
      BY <2>1, <3>1, <3>2
    <3>3. CASE t # s
      <4>1. t < s
        BY <3>1, <3>3
      <4>2. QED  BY <1>a, <2>1, <3>1, <3>3, <4>1 DEF Passed
    <3>4. QED  BY <3>2, <3>3
  <2>3. QED  BY <1>7, <1>a, <2>1, <2>2, OrderAside DEF NextSet
<1>8. ASSUME NEW p \in Requests, EndTurn(p)
      PROVE  OrderInv'
  <2>1. Passed(copy'[p])
    <3> DEFINE b == copy[p].success[copy[p].cur] \/ copy[p].count[copy[p].cur] = 0
    <3>1. /\ copy'[p].cur = copy[p].cur
          /\ copy'[p].success = [copy[p].success EXCEPT ![copy[p].cur] = b]
      BY <1>0, <1>8, EndTurnCopy
    <3>2. \A s \in 1..Sets : copy[p].success[s] => copy'[p].success[s]
      BY <1>a, <3>1 DEF Batches
    <3>3. QED  BY <1>a, <3>1, <3>2, PassedSame
  <2>2. /\ pc'[p] \notin {"work", "delete"}
        /\ \A q \in Requests \ {p} : pc'[q] = pc[q] /\ copy'[q] = copy[q] /\ item'[q] = item[q]
    BY <1>0, <1>8 DEF EndTurn, BatchTypeOK
  <2>3. QED  BY <1>8, <1>a, <2>1, <2>2, OrderAside DEF EndTurn
<1>9. ASSUME NEW p \in Requests, Save(p)
      PROVE  OrderInv'
  BY <1>0, <1>9, <1>a, ForgetType, NewPassed, OrderAside DEF Save, BatchTypeOK
<1>10. ASSUME NEW p \in Requests, Callbacks(p)
       PROVE  OrderInv'
  BY <1>0, <1>10, <1>a, OrderAside DEF Callbacks, BatchTypeOK
<1>11. ASSUME NEW p \in Requests, DeleteRow(p)
       PROVE  OrderInv'
  BY <1>0, <1>11, <1>a, OrderAside DEF DeleteRow, BatchTypeOK
<1>12. ASSUME NEW p \in Requests, DeleteQueues(p)
       PROVE  OrderInv'
  <2>1. /\ queue' = [s \in 1..Sets |-> {}] /\ row' = row /\ ran' = ran
        /\ pc'[p] = "reply" /\ copy'[p] = NewBatch
        /\ \A q \in Requests \ {p} : pc'[q] = pc[q] /\ copy'[q] = copy[q] /\ item'[q] = item[q]
    BY <1>0, <1>12, ForgetType DEF DeleteQueues, BatchTypeOK
  <2>2. GoneLast'
    BY <2>1 DEF GoneLast
  <2>3. \A q \in Requests : EarlierLast(q)'
    BY <2>1 DEF OrderInv, EarlierLast, Last
  <2>4. QED  BY <1>a, <2>1, <2>2, <2>3, NewPassed DEF OrderInv
<1>13. ASSUME NEW p \in Requests, Respond(p)
       PROVE  OrderInv'
  BY <1>0, <1>13, <1>a, OrderAside DEF Respond, BatchTypeOK
<1>14. ASSUME NEW p \in Requests, Kill(p)
       PROVE  OrderInv'
  BY <1>0, <1>14, <1>a, ForgetType, NewPassed, OrderAside DEF Kill, BatchTypeOK
<1>15. QED  BY <1>1, <1>2, <1>3, <1>4, <1>5, <1>6, <1>7, <1>8, <1>9, <1>10, <1>11, <1>12, <1>13, <1>14 DEF BatchNext, Work

\* The order is kept by every behaviour of the specification.
LEMMA OrderInvariant == BatchSpec => []OrderInv
<1>1. OrderInv /\ UNCHANGED batchVars => OrderInv'
  BY DEF OrderInv, Passed, GoneLast, EarlierLast, Last, batchVars, table, locals, history
<1>2. IInv /\ OrderInv /\ [BatchNext]_batchVars => OrderInv'
  BY <1>1, OrderKept
<1>3. QED  BY OrderInitially, <1>2, Invariant, PTL DEF BatchSpec

\* Whatever requests meet on a batch and whichever are killed, an operation is
\* called only after those before it in its set and all those of earlier sets
\* have made their last call.
THEOREM CallsInOrder == BatchSpec => InOrder
<1> DEFINE Ordered ==
      \A c \in ran' \ ran : \A s \in 1..Sets : c[1] \in Ops[s] =>
        \A t \in 1..s : \A j \in Ops[t] : (t < s \/ j < c[1]) => Last(j)
<1>1. ASSUME IInv, OrderInv, BatchNext
      PROVE  Ordered
  <2>1. ran' = ran \/ \E p \in Requests : Call(p)
    BY <1>1 DEF BatchNext, Work, Arrive, Load, Claim, CallFails, DeleteItem, NextSet, EndTurn,
      Save, Callbacks, DeleteRow, DeleteQueues, Respond, Kill, history
  <2>2. ASSUME NEW p \in Requests, Call(p)
        PROVE  Ordered
    <3> DEFINE u == copy[p].cur
    <3> SUFFICES ASSUME NEW c \in ran' \ ran, NEW s \in 1..Sets, c[1] \in Ops[s],
                        NEW t \in 1..s, NEW j \in Ops[t], t < s \/ j < c[1]
                 PROVE  Last(j)
      OBVIOUS
    <3>1. c[1] = item[p]
      BY <2>2 DEF Call
    <3>2. u \in 1..Sets /\ item[p] \in Ops[u]
      BY <1>1, <2>2 DEF IInv, BatchTypeOK, Batches, Call
    <3>3. s = u
      BY <3>1, <3>2, OpsAssumption
    <3>4. t \in 1..Sets
      BY SetsAssumption
    <3>5. CASE t < s
      <4>1. copy[p].success[t]
        BY <1>1, <3>3, <3>4, <3>5 DEF OrderInv, Passed
      <4>2. Remaining[t] = {}
        BY <1>1, <3>4, <4>1 DEF IInv, Covers
      <4>3. QED  BY <3>4, <4>2 DEF Remaining
    <3>6. CASE t = s /\ j < item[p]
      BY <1>1, <2>2, <3>3, <3>6 DEF OrderInv, EarlierLast, Call
    <3>7. QED  BY <3>1, <3>5, <3>6
  <2>3. QED  BY <2>1, <2>2
<1>2. IInv /\ OrderInv /\ [BatchNext]_batchVars => [Ordered]_batchVars
  BY <1>1
<1>3. QED  BY <1>2, Invariant, OrderInvariant, PTL DEF BatchSpec, InOrder

\* What the runs check of the server behind the page holds of it for any
\* sets, operations, requests and bounds.
THEOREM PageIsSafe == Spec => [](CountersCover /\ HonestReport /\ ExactlyOnce) /\ InOrder
BY PageRunsBatch, CountersAreSafe, ReportsAreHonest, OperationsRunOnce, CallsInOrder, PTL
=============================================================================
