-------------------------- MODULE CacheTagsProofs --------------------------
(***************************************************************************)
(* Proofs about CacheTags, on top of those about Transactions: any         *)
(* contents, depth and number of invalidations.                            *)
(***************************************************************************)
EXTENDS CacheTags, TransactionsProofs

-----------------------------------------------------------------------------
(* The request's transactions are those of Transactions.                   *)

\* Every step is one of Transactions, or changes nothing of it.
LEMMA StepIsTransaction == [CNext]_cvars => [Next]_vars
<1> SUFFICES ASSUME [CNext]_cvars PROVE [Next]_vars
  OBVIOUS
<1>1. ASSUME NEW contents \in Data, Save(contents) PROVE Next
  BY <1>1, Zenon DEF Save, Next
<1>2. CASE InvalidateOnce \/ InvalidateNow \/ Get \/ Set \/ Read \/ Store
  BY <1>2, Zenon DEF InvalidateOnce, InvalidateNow, Get, Set, Read, Store
<1>3. CASE InvalidateLater
  BY <1>3, Zenon DEF InvalidateLater, Next
<1>4. CASE Invalidated
  BY <1>4, Zenon DEF Invalidated, Next
<1>5. CASE Nesting
  BY <1>5, Zenon DEF Nesting, Next
<1>6. CASE RequestEnds
  BY <1>6, Zenon DEF RequestEnds, Next
<1>7. CASE UNCHANGED cvars
  BY <1>7, Zenon DEF cvars
<1>8. QED
  BY <1>1, <1>2, <1>3, <1>4, <1>5, <1>6, <1>7, Zenon DEF CNext

\* A request that uses cache tags uses transactions as Transactions says, so
\* all that is proved of Spec is true of CSpec.
THEOREM Composition == CSpec => Spec
<1>1. CInit => Init
  BY DEF CInit
<1>2. QED  BY <1>1, StepIsTransaction, PTL DEF CSpec, Spec

-----------------------------------------------------------------------------
(* What transactions do to the contents.                                   *)

\* The contents, and those that a rollback of a layer would restore, are the
\* durable ones.
Untouched ==
  /\ data = durable
  /\ \A k \in 1..(Len(layers) - 1) : saves[k].data = durable

\* Popping leaves the transaction as it is or commits it.
LEMMA PopCommits ==
  ASSUME NEW stack, NEW sv, NEW contents, pc = "run",
         popCommittableTransactions(stack, sv, contents)
  PROVE  \/ open' = open /\ pc' = "run"
         \/ ~open' /\ pc' \in {"run", "committed"}
            /\ (pc' = "committed" => callbacks > 0)
  BY Zenon DEF popCommittableTransactions, doCommit

\* What starting, rolling back and ending do to the callbacks and to the state
\* of the request.
LEMMA NestingRuns ==
  ASSUME Start \/ \E i \in DOMAIN objects : RollBack(i) \/ End(i)
  PROVE  /\ pc = "run" /\ pc' \in {"run", "committed"}
         /\ callbacks' \in {callbacks, 0}
         /\ open' => callbacks' = callbacks
         /\ pc' = "committed" => ~open' /\ callbacks' = callbacks /\ callbacks > 0
<1>1. CASE Start
  BY <1>1, Zenon DEF Start
<1>2. ASSUME NEW i \in DOMAIN objects, RollBack(i)
      PROVE  /\ pc = "run" /\ pc' \in {"run", "committed"}
             /\ \/ callbacks' = 0 /\ ~open' /\ pc' = "run"
                \/ callbacks' = callbacks /\ pc' = "run"
                \/ callbacks' = callbacks /\ ~open' /\ callbacks > 0
  <2>1. pc = "run"
    BY <1>2, Zenon DEF RollBack
  <2>2. CASE RollBackNothing(i)
    BY <2>1, <2>2, Zenon DEF RollBackNothing
  <2>3. CASE rollBack(objects[i].name)
    <3>1. CASE RollBackAll /\ callbacks' = 0 /\ UNCHANGED pc
      BY <2>1, <3>1, Zenon DEF RollBackAll
    <3>2. CASE /\ UNCHANGED callbacks
               /\ \E stack, sv, contents : popCommittableTransactions(stack, sv, contents)
      BY <2>1, <3>2, PopCommits, Zenon
    <3>3. QED  BY <2>3, <3>1, <3>2, Zenon DEF rollBack
  <2>4. QED  BY <1>2, <2>1, <2>2, <2>3, Zenon DEF RollBack
<1>3. ASSUME NEW i \in DOMAIN objects, End(i)
      PROVE  /\ pc = "run" /\ callbacks' = callbacks
             /\ \/ pc' = "run"
                \/ pc' = "committed" /\ ~open' /\ callbacks > 0
  <2>1. pc = "run" /\ callbacks' = callbacks
    BY <1>3, Zenon DEF End
  <2>2. CASE popTransaction(objects[i].name)
    BY <2>1, <2>2, PopCommits, Zenon DEF popTransaction
  <2>3. CASE UNCHANGED pc
    BY <2>1, <2>3, Zenon
  <2>4. QED  BY <1>3, <2>1, <2>2, <2>3, Zenon DEF End
<1>4. QED  BY <1>1, <1>2, <1>3, Zenon

\* A transaction that has changed nothing restores and commits what was there.
LEMMA NestingUntouched ==
  ASSUME ScopedInv, Scoped, Untouched,
         Start \/ \E i \in DOMAIN objects : RollBack(i) \/ End(i)
  PROVE  Untouched' /\ durable' = durable
<1> DEFINE n == Len(layers)
<1>1. n \in Nat
  BY ScopedTypes
<1>2. CASE Start
  <2>1. /\ Len(layers') = n + 1
        /\ data' = data /\ durable' = durable
    BY <1>2, ScopedStart, ScopedTypes
  <2>2. CASE layers = <<>>
    BY <2>1, <2>2 DEF Untouched
  <2>3. CASE layers # <<>>
    <3>1. /\ \A k \in 1..(n - 1) : saves'[k] = saves[k]
          /\ saves'[n].data = data
      BY <1>2, <2>3, ScopedStart
    <3>2. ASSUME NEW k \in 1..(Len(layers') - 1)
          PROVE  saves'[k].data = durable
      <4>1. k = n \/ k \in 1..(n - 1)
        BY <1>1, <2>1
      <4>2. QED  BY <3>1, <4>1, Zenon DEF Untouched
    <3>3. QED  BY <2>1, <3>2, Zenon DEF Untouched
  <2>4. QED  BY <2>1, <2>2, <2>3
<1>3. ASSUME Popped, data' = durable, durable' = durable
      PROVE  Untouched'
  <2>1. Len(layers') = n - 1
    BY <1>3, Zenon DEF Popped
  <2>2. ASSUME NEW k \in 1..(Len(layers') - 1)
        PROVE  saves'[k].data = durable
    <3>1. n > 1 /\ k \in 1..(n - 2) /\ k \in 1..(n - 1)
      BY <1>1, <2>1
    <3>2. saves'[k] = saves[k]
      BY <1>3, <3>1, Zenon DEF Popped
    <3>3. QED  BY <3>1, <3>2, Zenon DEF Untouched
  <2>3. QED  BY <1>3, <2>2, Zenon DEF Untouched
<1>4. ASSUME NEW i \in DOMAIN objects, RollBack(i)
      PROVE  Untouched' /\ durable' = durable
  <2>1. Popped /\ data' = Begun(objects[i]) /\ durable' = durable
    BY <1>4, ScopedRollBack
  <2>2. Begun(objects[i]) = durable
    <3>1. ~objects[i].rolledBack
      BY <1>4, Zenon DEF RollBack
    <3>2. QED  BY <3>1, BegunIs, Zenon DEF Untouched
  <2>3. QED  BY <1>3, <2>1, <2>2, Zenon
<1>5. ASSUME NEW i \in DOMAIN objects, End(i)
      PROVE  Untouched' /\ durable' = durable
  <2>1. CASE objects[i].rolledBack
    <3>1. UNCHANGED <<layers, saves, data, durable>>
      BY <1>5, <2>1, Zenon DEF End
    <3>2. QED  BY <3>1 DEF Untouched
  <2>2. CASE ~objects[i].rolledBack
    <3>1. Popped /\ data' = data /\ durable' \in {durable, data}
      <4>1. /\ i = Len(objects) /\ Popped /\ data' = data
            /\ n > 1 => durable' = durable
            /\ n = 1 => durable' = data
        BY <1>5, <2>2, ScopedEnd
      <4>2. n > 0
        <5>1. open
          BY <2>2, OpenIsOwned
        <5>2. Len(layers) > 0
          BY <5>1, Zenon DEF ScopedInv, IInv, Stacked
        <5>3. QED  BY <5>2
      <4> HIDE DEF n
      <4>3. n = 1 \/ n > 1
        BY <1>1, <4>2
      <4>4. QED  BY <4>1, <4>3, Zenon
    <3>2. QED  BY <1>3, <3>1, Zenon DEF Untouched
  <2>3. QED  BY <2>1, <2>2
<1>6. QED  BY <1>2, <1>4, <1>5, Zenon

-----------------------------------------------------------------------------
(* The invariant.                                                          *)

\* As long as no tag is delayed, the request has changed nothing that is not
\* durable, but for what it is about to invalidate the tag of.
Quiet ==
  ~delayedTags => /\ \A k \in 1..(Len(layers) - 1) : saves[k].data = durable
                  /\ ~saving => data = durable

\* The callbacks are called before anything else is done.
CallbacksNext == pc = "committed" => callbacks > 0 /\ ~open /\ ~saving

\* What the trait knows of the tag.
TraitSane ==
  /\ delayedTags => tagCache = None
  /\ tagCache \in {None, invalidations}
  /\ saving /\ invalidatedTags => delayedTags
  /\ saving \/ delayedTags => invalidations < MaxInvalidations

\* An item's checksum is not ahead of the counter.
ItemBehind == item # None => item.checksum <= invalidations

CInv ==
  /\ ScopedInv
  /\ CTypeOK
  /\ Quiet
  /\ CallbacksNext
  /\ TraitSane
  /\ ItemBehind
  /\ OthersSeeTheChange

\* A tag is delayed only in a transaction that is open or was just committed.
LEMMA DelayedIsOpen ==
  ASSUME CInv, delayedTags
  PROVE  open \/ pc = "committed"
<1>1. callbacks > 0 /\ pc \in {"run", "committed"}
  BY Zenon DEF CInv, CTypeOK, TypeOK
<1>2. pc = "run" => layers # <<>>
  <2>1. pc = "run" /\ layers = <<>> => callbacks = 0
    BY Zenon DEF CInv, ScopedInv, IInv, CallbacksOnlyInside, inTransaction
  <2>2. callbacks # 0
    BY <1>1
  <2>3. QED  BY <2>1, <2>2, Zenon
<1>3. QED  BY <1>1, <1>2, Zenon DEF CInv, ScopedInv

\* When nothing is open the contents are durable, and no layer is left.
LEMMA ClosedIsDurable ==
  ASSUME ScopedInv, ~open
  PROVE  layers = <<>> /\ data = durable
  BY Zenon DEF ScopedInv

\* An item of the counter's value is lost when the counter goes up.
LEMMA CounterUp ==
  ASSUME CInv, doInvalidateTags, invalidations < MaxInvalidations,
         UNCHANGED <<item, durable>>
  PROVE  /\ invalidations' \in 0..MaxInvalidations /\ owed' \in BOOLEAN
         /\ ItemBehind' /\ OthersSeeTheChange'
<1>1. invalidations \in Nat /\ invalidations' = invalidations + 1
  BY DEF CInv, CTypeOK, doInvalidateTags
<1>2. invalidations' \in 0..MaxInvalidations
  BY <1>1, LimitAssumption
<1>3. item # None => item.checksum \in Nat /\ item.checksum <= invalidations
  BY DEF CInv, CTypeOK, ItemBehind
<1>4. item # None => item.checksum <= invalidations' /\ item.checksum # invalidations'
  BY <1>1, <1>3
<1>5. item' = item
  OBVIOUS
<1>6. ItemBehind' /\ OthersSeeTheChange'
  BY <1>4, <1>5, Zenon DEF ItemBehind, OthersSeeTheChange
<1>7. owed' \in BOOLEAN
  BY Zenon DEF doInvalidateTags
<1>8. QED  BY <1>2, <1>6, <1>7

-----------------------------------------------------------------------------
(* The steps.                                                              *)

\* A save outside a transaction is durable, and its invalidation is pending.
LEMMA SaveKeeps ==
  ASSUME ~SaveAgain, CInv, ScopedInv', NEW contents \in Data, Save(contents)
  PROVE  CInv'
<1>1. /\ ~saving /\ saving' /\ saving' \in BOOLEAN /\ pc = "run"
      /\ invalidations < MaxInvalidations /\ (~invalidatedTags \/ delayedTags)
      /\ UNCHANGED <<layers, callbacks, pc, open, saves, invalidations, item,
                     invalidatedTags, delayedTags, tagCache, reader, owed>>
  BY Zenon DEF Save, Query, php, tables, trait
<1>2. CTypeOK'
  <2>1. TypeOK'
    BY Zenon DEF ScopedInv, IInv
  <2>2. QED  BY <1>1, <2>1 DEF CInv, CTypeOK
<1>3. Quiet'
  <2>1. durable' = durable \/ Len(layers) = 0
    BY ClosedIsDurable DEF CInv, Save, Query
  <2>2. CASE durable' = durable
    BY <1>1, <2>2, Zenon DEF CInv, Quiet
  <2>3. CASE Len(layers) = 0
    <3>1. 1..(Len(layers') - 1) = {}
      BY <1>1, <2>3
    <3>2. QED  BY <1>1, <3>1, Zenon DEF Quiet
  <2>4. QED  BY <2>1, <2>2, <2>3
<1>4. CallbacksNext'
  BY <1>1 DEF CallbacksNext
<1>5. TraitSane' /\ ItemBehind'
  BY <1>1, Zenon DEF CInv, TraitSane, ItemBehind
<1>6. OthersSeeTheChange'
  <2>1. open => durable' = durable
    BY Zenon DEF Save, Query
  <2>2. CASE open
    BY <1>1, <2>1, <2>2, Zenon DEF CInv, OthersSeeTheChange
  <2>3. CASE ~open
    BY <1>1, <2>3, Zenon DEF OthersSeeTheChange
  <2>4. QED  BY <2>2, <2>3
<1>7. QED  BY <1>2, <1>3, <1>4, <1>5, <1>6 DEF CInv

\* An invalidation is skipped only while the tag is delayed.
LEMMA InvalidateOnceKeeps ==
  ASSUME CInv, ScopedInv', InvalidateOnce
  PROVE  CInv'
<1>1. /\ saving /\ invalidatedTags /\ ~saving' /\ saving' \in BOOLEAN
      /\ UNCHANGED <<layers, callbacks, pc, open, saves, data, durable, invalidations,
                     item, invalidatedTags, delayedTags, tagCache, reader, owed>>
  BY Zenon DEF InvalidateOnce, vars, tables, trait
<1>2. delayedTags /\ pc # "committed"
  BY <1>1, Zenon DEF CInv, TraitSane, CallbacksNext
<1>3. open
  BY <1>2, DelayedIsOpen
<1>4. CTypeOK'
  <2>1. TypeOK'
    BY Zenon DEF ScopedInv, IInv
  <2>2. QED  BY <1>1, <2>1 DEF CInv, CTypeOK
<1>5. Quiet' /\ CallbacksNext'
  BY <1>1, <1>2, Zenon DEF Quiet, CallbacksNext
<1>6. TraitSane' /\ ItemBehind'
  BY <1>1, Zenon DEF CInv, TraitSane, ItemBehind
<1>7. OthersSeeTheChange'
  BY <1>1, <1>3, Zenon DEF CInv, OthersSeeTheChange
<1>8. QED  BY <1>4, <1>5, <1>6, <1>7 DEF CInv

\* In a transaction the tag is delayed, and nothing of the change is durable.
LEMMA InvalidateLaterKeeps ==
  ASSUME CInv, ScopedInv', InvalidateLater
  PROVE  CInv'
<1>1. /\ saving /\ layers # <<>> /\ ~saving' /\ saving' \in BOOLEAN
      /\ delayedTags' /\ delayedTags' \in BOOLEAN /\ invalidatedTags' \in BOOLEAN
      /\ tagCache' = None
      /\ UNCHANGED <<layers, pc, open, saves, data, durable, invalidations,
                     item, reader, owed>>
  BY Zenon DEF InvalidateLater, inTransaction, vars, db, tables, addRootTransactionEndCallback
<1>2. callbacks' > 0
  <2>1. CASE delayedTags
    BY <2>1 DEF InvalidateLater, vars, CInv, CTypeOK
  <2>2. CASE ~delayedTags
    BY <2>2 DEF InvalidateLater, addRootTransactionEndCallback, CInv, CTypeOK, TypeOK
  <2>3. QED  BY <2>1, <2>2
<1>3. open /\ pc # "committed"
  BY <1>1, Zenon DEF CInv, ScopedInv, CallbacksNext
<1>4. CTypeOK'
  <2>1. TypeOK'
    BY Zenon DEF ScopedInv, IInv
  <2>2. QED  BY <1>1, <1>2, <2>1 DEF CInv, CTypeOK
<1>5. Quiet' /\ CallbacksNext'
  BY <1>1, <1>3, Zenon DEF Quiet, CallbacksNext
<1>6. TraitSane' /\ ItemBehind'
  BY <1>1, Zenon DEF CInv, TraitSane, ItemBehind
<1>7. OthersSeeTheChange'
  BY <1>1, <1>3, Zenon DEF CInv, OthersSeeTheChange
<1>8. QED  BY <1>4, <1>5, <1>6, <1>7 DEF CInv

\* Outside a transaction the counter goes up, past every item's checksum.
LEMMA InvalidateNowKeeps ==
  ASSUME CInv, ScopedInv', InvalidateNow
  PROVE  CInv'
<1>1. /\ saving /\ ~invalidatedTags /\ layers = <<>> /\ ~saving' /\ saving' \in BOOLEAN
      /\ invalidatedTags' \in BOOLEAN /\ tagCache' = None
      /\ doInvalidateTags
      /\ UNCHANGED <<layers, callbacks, pc, open, saves, data, durable,
                     item, delayedTags, reader>>
  BY Zenon DEF InvalidateNow, inTransaction, vars
<1>2. ~open /\ pc # "committed"
  <2>1. open => Len(layers) > 0
    BY Zenon DEF CInv, ScopedInv, IInv, Stacked
  <2>2. Len(layers) = 0
    BY <1>1
  <2>3. ~open
    BY <2>1, <2>2
  <2>4. QED  BY <1>1, <2>3, Zenon DEF CInv, CallbacksNext
<1>3. ~delayedTags
  BY <1>2, DelayedIsOpen
<1>4. invalidations < MaxInvalidations
  BY <1>1, Zenon DEF CInv, TraitSane
<1>5. /\ invalidations' \in 0..MaxInvalidations /\ owed' \in BOOLEAN
      /\ ItemBehind' /\ OthersSeeTheChange'
  BY <1>1, <1>4, CounterUp
<1>6. CTypeOK'
  <2>1. TypeOK'
    BY Zenon DEF ScopedInv, IInv
  <2>2. QED  BY <1>1, <1>5, <2>1 DEF CInv, CTypeOK
<1>7. Quiet'
  <2>1. data = durable
    BY <1>2, ClosedIsDurable DEF CInv
  <2>2. QED  BY <1>1, <2>1, Zenon DEF CInv, Quiet
<1>8. CallbacksNext' /\ TraitSane'
  BY <1>1, <1>2, <1>3, Zenon DEF CallbacksNext, TraitSane
<1>9. QED  BY <1>5, <1>6, <1>7, <1>8 DEF CInv

\* So it does when the callbacks are called after the commit.
LEMMA InvalidatedKeeps ==
  ASSUME CInv, ScopedInv', Invalidated
  PROVE  CInv'
<1>1. /\ pc = "committed" /\ pc' = "run" /\ callbacks' = 0
      /\ ~delayedTags' /\ delayedTags' \in BOOLEAN
      /\ UNCHANGED <<layers, open, saves, data, durable, item, invalidatedTags,
                     tagCache, saving, reader>>
  BY Zenon DEF Invalidated, CallBack, db
<1>2. ~open /\ ~saving /\ callbacks > 0
  BY <1>1, Zenon DEF CInv, CallbacksNext
<1>3. delayedTags
  BY <1>2, Zenon DEF CInv, CTypeOK
<1>4. doInvalidateTags /\ invalidations < MaxInvalidations /\ tagCache = None
  BY <1>3, Zenon DEF Invalidated, CInv, TraitSane
<1>5. /\ invalidations' \in 0..MaxInvalidations /\ owed' \in BOOLEAN
      /\ ItemBehind' /\ OthersSeeTheChange'
  BY <1>1, <1>4, CounterUp
<1>6. CTypeOK'
  <2>1. TypeOK'
    BY Zenon DEF ScopedInv, IInv
  <2>2. QED  BY <1>1, <1>5, <2>1 DEF CInv, CTypeOK
<1>7. Quiet'
  <2>1. layers = <<>> /\ data = durable
    BY <1>2, ClosedIsDurable DEF CInv
  <2>2. 1..(Len(layers') - 1) = {}
    BY <1>1, <2>1
  <2>3. QED  BY <1>1, <2>1, <2>2, Zenon DEF Quiet
<1>8. CallbacksNext'
  BY <1>1 DEF CallbacksNext
<1>9. TraitSane'
  BY <1>1, <1>2, <1>4, Zenon DEF TraitSane
<1>10. QED  BY <1>5, <1>6, <1>7, <1>8, <1>9 DEF CInv

\* What a transaction commits without callbacks was durable before; what it rolls
\* back with its callbacks is as it was.
LEMMA NestingKeeps ==
  ASSUME Scoped, ~DDL, CInv, ScopedInv', Nesting
  PROVE  CInv'
<1>1. /\ ~saving /\ ~saving'
      /\ delayedTags' = (delayedTags /\ callbacks' > 0)
      /\ UNCHANGED <<invalidations, item, invalidatedTags, tagCache, saving, reader, owed>>
  BY Zenon DEF Nesting, tables
<1>2. Start \/ \E i \in DOMAIN objects : RollBack(i) \/ End(i)
  BY Zenon DEF Nesting, CreateTable
<1>3. /\ pc = "run" /\ pc' \in {"run", "committed"}
      /\ callbacks' \in {callbacks, 0}
      /\ open' => callbacks' = callbacks
      /\ pc' = "committed" => ~open' /\ callbacks' = callbacks /\ callbacks > 0
  BY <1>2, NestingRuns, Zenon
<1>4. (delayedTags' <=> callbacks' > 0) /\ delayedTags' \in BOOLEAN
  <2>1. delayedTags <=> callbacks > 0
    BY Zenon DEF CInv, CTypeOK
  <2>2. callbacks' > 0 => callbacks > 0
    BY <1>3
  <2>3. QED  BY <1>1, <2>1, <2>2, Zenon
<1>5. CTypeOK'
  <2>1. TypeOK'
    BY Zenon DEF ScopedInv, IInv
  <2>2. QED  BY <1>1, <1>4, <2>1, Zenon DEF CInv, CTypeOK
<1>6. CASE ~delayedTags
  <2>1. Untouched
    BY <1>1, <1>6, Zenon DEF CInv, Quiet, Untouched
  <2>2. Untouched' /\ durable' = durable
    BY <1>2, <2>1, NestingUntouched DEF CInv
  <2>3. ~delayedTags' /\ pc' = "run"
    <3>1. ~(callbacks > 0)
      BY <1>6, Zenon DEF CInv, CTypeOK
    <3>2. QED  BY <1>1, <1>3, <1>6, <3>1, Zenon
  <2>4. Quiet' /\ CallbacksNext'
    <3>1. pc' # "committed"
      BY <2>3
    <3>2. QED  BY <2>2, <3>1, Zenon DEF Quiet, Untouched, CallbacksNext
  <2>5. TraitSane' /\ ItemBehind'
    BY <1>1, <2>3, Zenon DEF CInv, TraitSane, ItemBehind
  <2>6. OthersSeeTheChange'
    BY <1>1, <1>3, <2>2, Zenon DEF CInv, OthersSeeTheChange
  <2>7. QED  BY <1>5, <2>4, <2>5, <2>6 DEF CInv
<1>7. CASE delayedTags
  <2>1. open
    <3>1. pc # "committed"
      BY <1>3
    <3>2. QED  BY <1>7, <3>1, DelayedIsOpen
  <2>2. ~delayedTags' => ~open'
    <3>1. callbacks > 0
      BY <1>7, Zenon DEF CInv, CTypeOK
    <3>2. QED  BY <1>1, <1>3, <1>7, <3>1, Zenon
  <2>3. Quiet'
    <3>1. CASE ~delayedTags'
      <4>1. layers' = <<>> /\ data' = durable'
        BY <2>2, <3>1, Zenon DEF ScopedInv
      <4>2. 1..(Len(layers') - 1) = {}
        BY <4>1
      <4>3. QED  BY <4>1, <4>2, Zenon DEF Quiet
    <3>2. QED  BY <3>1, Zenon DEF Quiet
  <2>4. CallbacksNext'
    BY <1>1, <1>3, Zenon DEF CallbacksNext
  <2>5. TraitSane' /\ ItemBehind'
    BY <1>1, <1>7, Zenon DEF CInv, TraitSane, ItemBehind
  <2>6. pc' = "run" => durable' = durable
    <3>1. pc' = "run" /\ callbacks' = callbacks => layers' # <<>>
      <4>1. callbacks # 0
        <5>1. callbacks > 0
          BY <1>7, Zenon DEF CInv, CTypeOK
        <5>2. QED  BY <5>1
      <4>2. QED
        BY <4>1, Zenon DEF ScopedInv, IInv, CallbacksOnlyInside, inTransaction
    <3>2. CASE Start
      BY <3>2, Zenon DEF Start
    <3>3. ASSUME NEW i \in DOMAIN objects, RollBack(i) PROVE durable' = durable
      BY <3>3, ScopedRollBack DEF CInv
    <3>4. ASSUME NEW i \in DOMAIN objects, End(i), pc' = "run" PROVE durable' = durable
      <4>1. callbacks' = callbacks
        BY <3>4, Zenon DEF End
      <4>2. CASE objects[i].rolledBack
        BY <3>4, <4>2, Zenon DEF End
      <4>3. CASE ~objects[i].rolledBack
        <5>1. Popped /\ (Len(layers) > 1 => durable' = durable)
          BY <3>4, <4>3, ScopedEnd DEF CInv
        <5>2. Len(layers') = Len(layers) - 1 /\ layers' # <<>>
          BY <3>1, <3>4, <4>1, <5>1, Zenon DEF Popped
        <5>3. Len(layers) \in Nat /\ layers' \in Seq(Layer)
          BY ScopedTypes DEF CInv, ScopedInv, IInv, TypeOK, Layer
        <5>4. Len(layers) > 1
          BY <5>2, <5>3
        <5>5. QED  BY <5>1, <5>4
      <4>4. QED  BY <4>2, <4>3
    <3>5. QED  BY <1>2, <3>2, <3>3, <3>4, Zenon
  <2>7. OthersSeeTheChange'
    BY <1>1, <1>3, <2>6, Zenon DEF CInv, OthersSeeTheChange
  <2>8. QED  BY <1>5, <2>3, <2>4, <2>5, <2>7 DEF CInv
<1>8. QED  BY <1>6, <1>7

\* A lookup loads the counter as it is.
LEMMA GetKeeps ==
  ASSUME CInv, ScopedInv', Get
  PROVE  CInv'
<1>1. /\ ~delayedTags /\ tagCache' = invalidations
      /\ UNCHANGED <<layers, callbacks, pc, open, saves, data, durable, invalidations,
                     item, invalidatedTags, delayedTags, saving, reader, owed>>
  BY Zenon DEF Get, vars, tables
<1>2. CTypeOK'
  <2>1. TypeOK'
    BY Zenon DEF ScopedInv, IInv
  <2>2. QED  BY <1>1, <2>1 DEF CInv, CTypeOK
<1>3. Quiet' /\ CallbacksNext' /\ ItemBehind' /\ OthersSeeTheChange'
  BY <1>1, Zenon DEF CInv, Quiet, CallbacksNext, ItemBehind, OthersSeeTheChange
<1>4. TraitSane'
  BY <1>1, Zenon DEF CInv, TraitSane
<1>5. QED  BY <1>2, <1>3, <1>4 DEF CInv

\* The item the request stores has the counter's value as its checksum, and as
\* nothing is open its contents are the durable ones.
LEMMA SetKeeps ==
  ASSUME CInv, ScopedInv', Set
  PROVE  CInv'
<1>1. /\ ~saving /\ ~open /\ ~delayedTags
      /\ ~invalidatedTags' /\ invalidatedTags' \in BOOLEAN
      /\ tagCache' = calculateChecksum
      /\ item' = Item(data, calculateChecksum)
      /\ UNCHANGED <<layers, callbacks, pc, open, saves, data, durable, invalidations,
                     delayedTags, saving, reader, owed>>
  BY Zenon DEF Set, vars
<1>2. calculateChecksum = invalidations
  BY Zenon DEF CInv, TraitSane, calculateChecksum
<1>3. data = durable /\ data \in Data
  BY <1>1, ClosedIsDurable DEF CInv, CTypeOK, TypeOK
<1>4. /\ item' = Item(data, invalidations) /\ invalidations \in 0..MaxInvalidations
      /\ item'.contents = durable /\ item'.checksum = invalidations
      /\ item' \in [contents : Data, checksum : 0 .. MaxInvalidations, current : BOOLEAN]
  BY <1>1, <1>2, <1>3 DEF Item, CInv, CTypeOK
<1>5. CTypeOK'
  <2>1. TypeOK'
    BY Zenon DEF ScopedInv, IInv
  <2>2. QED  BY <1>1, <1>2, <1>4, <2>1 DEF CInv, CTypeOK
<1>6. Quiet' /\ CallbacksNext'
  BY <1>1, Zenon DEF CInv, Quiet, CallbacksNext
<1>7. TraitSane'
  BY <1>1, <1>2, Zenon DEF CInv, TraitSane
<1>8. ItemBehind' /\ OthersSeeTheChange'
  <2>1. invalidations <= invalidations
    BY <1>4
  <2>2. QED  BY <1>1, <1>4, <2>1, Zenon DEF ItemBehind, OthersSeeTheChange
<1>9. QED  BY <1>5, <1>6, <1>7, <1>8 DEF CInv

\* Another request's item has the counter's value, and says whether it is current.
LEMMA ReadStoreKeep ==
  ASSUME CInv, ScopedInv', Read \/ Store
  PROVE  CInv'
<1>1. UNCHANGED <<layers, callbacks, pc, open, saves, data, durable, invalidations,
                  invalidatedTags, delayedTags, tagCache, saving, owed>>
  BY Zenon DEF Read, Store, vars, tables, request
<1>2. /\ reader' \in Data \union {None}
      /\ \/ item' = item
         \/ /\ item' = Item(reader, invalidations)
            /\ reader \in Data
  BY DEF Read, Store, tables, CInv, CTypeOK, TypeOK
<1>3. CASE item' = item
  <2>1. CTypeOK'
    <3>1. TypeOK'
      BY Zenon DEF ScopedInv, IInv
    <3>2. QED  BY <1>1, <1>2, <1>3, <3>1 DEF CInv, CTypeOK
  <2>2. /\ Quiet' /\ CallbacksNext' /\ TraitSane' /\ ItemBehind'
        /\ OthersSeeTheChange'
    BY <1>1, <1>3, Zenon DEF CInv, Quiet, CallbacksNext, TraitSane, ItemBehind,
                             OthersSeeTheChange
  <2>3. QED  BY <2>1, <2>2 DEF CInv
<1>4. CASE item' = Item(reader, invalidations) /\ reader \in Data
  <2>1. /\ invalidations \in 0..MaxInvalidations
        /\ item'.contents = reader /\ item'.checksum = invalidations
        /\ item'.current = (reader = durable)
        /\ item' \in [contents : Data, checksum : 0 .. MaxInvalidations, current : BOOLEAN]
    BY <1>4 DEF Item, CInv, CTypeOK
  <2>2. CTypeOK'
    <3>1. TypeOK'
      BY Zenon DEF ScopedInv, IInv
    <3>2. QED  BY <1>1, <1>2, <2>1, <3>1 DEF CInv, CTypeOK
  <2>3. Quiet' /\ CallbacksNext' /\ TraitSane'
    BY <1>1, Zenon DEF CInv, Quiet, CallbacksNext, TraitSane
  <2>4. ItemBehind' /\ OthersSeeTheChange'
    <3>1. invalidations <= invalidations
      BY <2>1
    <3>2. item'.current => item'.contents = durable
      BY <2>1
    <3>3. QED  BY <1>1, <2>1, <3>1, <3>2, Zenon DEF ItemBehind, OthersSeeTheChange
  <2>5. QED  BY <2>2, <2>3, <2>4 DEF CInv
<1>5. QED  BY <1>2, <1>3, <1>4

\* What a request still owes when it ends is remembered.
LEMMA RequestEndsKeeps ==
  ASSUME CInv, ScopedInv', RequestEnds
  PROVE  CInv'
<1>1. /\ layers' = <<>> /\ callbacks' = 0 /\ pc' = "run" /\ ~open' /\ saves' = <<>>
      /\ data' = durable /\ durable' = durable
      /\ ~invalidatedTags' /\ ~delayedTags' /\ tagCache' = None /\ ~saving'
      /\ UNCHANGED <<invalidations, item, reader>>
  BY Zenon DEF RequestEnds, Die, RollBackAll, tables
<1>2. /\ invalidatedTags' \in BOOLEAN /\ delayedTags' \in BOOLEAN /\ saving' \in BOOLEAN
      /\ owed' \in BOOLEAN
  BY Zenon DEF RequestEnds, CInv, CTypeOK
<1>3. CTypeOK'
  <2>1. TypeOK'
    BY Zenon DEF ScopedInv, IInv
  <2>2. ~(callbacks' > 0)
    BY <1>1
  <2>3. QED  BY <1>1, <1>2, <2>1, <2>2, Zenon DEF CInv, CTypeOK
<1>4. Quiet'
  <2>1. 1..(Len(layers') - 1) = {}
    BY <1>1
  <2>2. QED  BY <1>1, <2>1, Zenon DEF Quiet
<1>5. CallbacksNext'
  BY <1>1 DEF CallbacksNext
<1>6. TraitSane' /\ ItemBehind'
  BY <1>1, Zenon DEF CInv, TraitSane, ItemBehind
<1>7. OthersSeeTheChange'
  <2>1. CASE owed'
    BY <2>1, Zenon DEF OthersSeeTheChange
  <2>2. CASE ~owed'
    <3>1. /\ ~owed
          /\ ~(pc = "committed" /\ delayedTags)
          /\ ~(saving /\ ~open /\ ~invalidatedTags)
      BY <2>2, Zenon DEF RequestEnds
    <3>2. pc # "committed"
      BY <3>1, Zenon DEF CInv, CallbacksNext, CTypeOK
    <3>3. pc = "run"
      BY <3>2 DEF CInv, CTypeOK, TypeOK
    <3>4. ~(saving /\ ~open)
      <4>1. saving /\ ~open => invalidatedTags
        BY <3>1, Zenon
      <4>2. saving /\ invalidatedTags => delayedTags
        BY Zenon DEF CInv, TraitSane
      <4>3. delayedTags => open
        BY <3>2, DelayedIsOpen
      <4>4. QED  BY <4>1, <4>2, <4>3, Zenon
    <3>5. QED  BY <1>1, <3>1, <3>3, <3>4, Zenon DEF CInv, OthersSeeTheChange
  <2>3. QED  BY <2>1, <2>2
<1>8. QED  BY <1>3, <1>4, <1>5, <1>6, <1>7 DEF CInv

-----------------------------------------------------------------------------
(* The theorems.                                                           *)

\* At first nothing was saved or stored.
LEMMA CInitially == CInit => CInv
<1> SUFFICES ASSUME CInit PROVE CInv
  OBVIOUS
<1>1. /\ Init /\ layers = <<>> /\ callbacks = 0 /\ pc = "run" /\ data = durable
      /\ invalidations = 0 /\ item = None /\ tagCache = None /\ reader = None
  BY DEF CInit, Init
<1>2. /\ ~invalidatedTags /\ ~delayedTags /\ ~saving
      /\ invalidatedTags \in BOOLEAN /\ delayedTags \in BOOLEAN
      /\ saving \in BOOLEAN /\ owed \in BOOLEAN
  BY Zenon DEF CInit
<1>3. ScopedInv /\ TypeOK
  BY <1>1, ScopedInitially, Zenon DEF ScopedInv, IInv
<1>4. CTypeOK
  <2>1. 0 \in 0..MaxInvalidations /\ ~(callbacks > 0)
    BY <1>1, LimitAssumption
  <2>2. QED  BY <1>1, <1>2, <1>3, <2>1, Zenon DEF CTypeOK
<1>5. Quiet
  <2>1. 1..(Len(layers) - 1) = {}
    BY <1>1
  <2>2. QED  BY <1>1, <2>1, Zenon DEF Quiet
<1>6. CallbacksNext
  BY <1>1 DEF CallbacksNext
<1>7. TraitSane /\ ItemBehind /\ OthersSeeTheChange
  BY <1>1, <1>2, Zenon DEF TraitSane, ItemBehind, OthersSeeTheChange
<1>8. QED  BY <1>3, <1>4, <1>5, <1>6, <1>7 DEF CInv

\* Every step keeps the invariant.
LEMMA CInductive ==
  ASSUME Scoped, ~DDL, ~SaveAgain, CInv, [CNext]_cvars
  PROVE  CInv'
<1>1. ScopedInv'
  BY StepIsTransaction, ScopedInductive DEF CInv
<1>2. ASSUME NEW contents \in Data, Save(contents) PROVE CInv'
  BY <1>1, <1>2, SaveKeeps
<1>3. CASE InvalidateOnce
  BY <1>1, <1>3, InvalidateOnceKeeps
<1>4. CASE InvalidateLater
  BY <1>1, <1>4, InvalidateLaterKeeps
<1>5. CASE InvalidateNow
  BY <1>1, <1>5, InvalidateNowKeeps
<1>6. CASE Invalidated
  BY <1>1, <1>6, InvalidatedKeeps
<1>7. CASE Nesting
  BY <1>1, <1>7, NestingKeeps
<1>8. CASE Get
  BY <1>1, <1>8, GetKeeps
<1>9. CASE Set
  BY <1>1, <1>9, SetKeeps
<1>10. CASE Read \/ Store
  BY <1>1, <1>10, ReadStoreKeep
<1>11. CASE RequestEnds
  BY <1>1, <1>11, RequestEndsKeeps
<1>12. CASE UNCHANGED cvars
  <2>1. UNCHANGED <<layers, callbacks, pc, open, saves, data, durable, invalidations,
                    item, invalidatedTags, delayedTags, tagCache, saving, reader, owed>>
    BY <1>12, Zenon DEF cvars, vars, request
  <2>2. CTypeOK'
    <3>1. TypeOK'
      BY <1>1, Zenon DEF ScopedInv, IInv
    <3>2. QED  BY <2>1, <3>1 DEF CInv, CTypeOK
  <2>3. /\ Quiet' /\ CallbacksNext' /\ TraitSane' /\ ItemBehind'
        /\ OthersSeeTheChange'
    BY <2>1, Zenon DEF CInv, Quiet, CallbacksNext, TraitSane, ItemBehind,
                       OthersSeeTheChange
  <2>4. QED  BY <1>1, <2>2, <2>3 DEF CInv
<1>13. QED
  BY <1>2, <1>3, <1>4, <1>5, <1>6, <1>7, <1>8, <1>9, <1>10, <1>11, <1>12, Zenon
  DEF CNext

\* The invariant holds when scopes are nested, no tables are created, and the
\* request does not save again after an invalidation was carried out.
LEMMA CAlways ==
  ASSUME Scoped, ~DDL, ~SaveAgain
  PROVE  CSpec => []CInv
<1>1. CInv /\ [CNext]_cvars => CInv'
  BY CInductive
<1>2. QED  BY <1>1, CInitially, PTL DEF CSpec

\* The variables keep their types, and a tag is delayed just while there is a
\* callback that will invalidate it or a rollback that will drop it.
THEOREM CTypeCorrect ==
  ASSUME Scoped, ~DDL, ~SaveAgain
  PROVE  CSpec => []CTypeOK
<1>1. CInv => CTypeOK
  BY DEF CInv
<1>2. QED  BY <1>1, CAlways, PTL

\* Without saves after an invalidation was carried out: once a change is durable
\* and its tag invalidated, an item that was stored for the contents as they were
\* has another checksum than the counter.  Items outdated when they were stored,
\* and invalidations that a dead request owes, are left aside.
THEOREM ChangesAreSeen ==
  ASSUME Scoped, ~DDL, ~SaveAgain
  PROVE  CSpec => []OthersSeeTheChange
<1>1. CInv => OthersSeeTheChange
  BY DEF CInv
<1>2. QED  BY <1>1, CAlways, PTL

\* Under the same assumptions an item that is valid for the request has the
\* contents the request sees, in its transactions, after them and after rolling
\* back a part of them.
THEOREM OwnWritesAreRead ==
  ASSUME Scoped, ~DDL, ~SaveAgain
  PROVE  CSpec => []ReadYourWrites
<1>1. CInv => ReadYourWrites
  <2> SUFFICES ASSUME CInv, pc = "run", ~saving, ~owed, isValid, item.current
               PROVE  item.contents = data
    BY Zenon DEF ReadYourWrites
  <2>1. item # None /\ ~delayedTags /\ item.checksum = invalidations
    BY Zenon DEF isValid, calculateChecksum, CInv, TraitSane
  <2>2. item.contents = durable
    BY <2>1, Zenon DEF CInv, OthersSeeTheChange
  <2>3. data = durable
    BY <2>1, Zenon DEF CInv, Quiet
  <2>4. QED  BY <2>2, <2>3
<1>2. QED  BY <1>1, CAlways, PTL
=============================================================================
