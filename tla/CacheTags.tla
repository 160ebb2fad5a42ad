----------------------------- MODULE CacheTags -----------------------------
(***************************************************************************)
(* Cache items that depend on the contents of the database through a cache *)
(* tag: CacheTagsChecksumTrait with the counters DatabaseCacheTagsChecksum *)
(* keeps, on top of the transactions of the request that saves.  Other     *)
(* requests read the contents and store the item meanwhile.                *)
(*                                                                         *)
(* There is one tag and one item, the cache item any request may store.    *)
(***************************************************************************)
EXTENDS Transactions

CONSTANTS
  None,              \* nothing
  MaxInvalidations,  \* bound: the tag's counter
  SaveAgain          \* TRUE: a request may save on after its invalidation of
                     \* the tag was carried out, or dropped by a rollback

ASSUME NoneAssumption   == None \notin Data /\ None \notin Nat
ASSUME LimitAssumption  == MaxInvalidations \in Nat /\ SaveAgain \in BOOLEAN

VARIABLES
  invalidations,   \* the tag's row of {cachetags}
  item,            \* the cache item, with its checksum
  invalidatedTags, \* the tag is in the trait's $invalidatedTags
  delayedTags,     \* the tag is in the trait's $delayedTags
  tagCache,        \* the trait's $tagCache for the tag
  saving,          \* the request has written and is to invalidate the tag
  reader,          \* contents another request has read and not cached yet
  owed             \* a request died between its change and its invalidation

trait   == <<invalidatedTags, delayedTags, tagCache>>
request == <<invalidatedTags, delayedTags, tagCache, saving>>
tables  == <<invalidations, item>>
cvars   == <<vars, invalidations, item, request, reader, owed>>

\* "current": the contents were still the contents when the item was stored.
Item(contents, sum) == [contents |-> contents, checksum |-> sum,
                        current  |-> contents = durable]

-----------------------------------------------------------------------------
\* calculateChecksum(): the counter, as this request has loaded it.
calculateChecksum == IF tagCache = None THEN invalidations ELSE tagCache

\* Mutant of isValid: a delayed tag does not count.
isValidDelayed == item # None /\ item.checksum = calculateChecksum

\* isValid(), as called by DatabaseBackend::prepareItem().
isValid == item # None /\ ~delayedTags /\ item.checksum = calculateChecksum

\* doInvalidateTags().
doInvalidateTags == invalidations' = invalidations + 1 /\ owed' = FALSE

CInit == /\ Init
         /\ invalidations = 0 /\ item = None
         /\ invalidatedTags = FALSE /\ delayedTags = FALSE /\ tagCache = None
         /\ saving = FALSE /\ reader = None /\ owed = FALSE

\* The request saves something the item depends on.
Save(contents) ==
  /\ ~saving /\ invalidations < MaxInvalidations
  /\ SaveAgain \/ ~invalidatedTags \/ delayedTags
  /\ Query(contents)
  /\ saving' = TRUE
  /\ UNCHANGED <<tables, trait, reader, owed>>

\* invalidateTags(), when the tag was invalidated before in this request.
InvalidateOnce == /\ saving /\ invalidatedTags
                  /\ saving' = FALSE
                  /\ UNCHANGED <<vars, tables, trait, reader, owed>>

\* Mutant of InvalidateLater: the counter goes up inside the transaction.
InvalidateEarly ==
  /\ saving /\ ~invalidatedTags /\ inTransaction
  /\ invalidatedTags' = TRUE /\ tagCache' = None
  /\ saving' = FALSE
  /\ doInvalidateTags
  /\ UNCHANGED <<vars, item, delayedTags, reader>>

\* invalidateTags() in a transaction: the callback is registered with the
\* first delayed tag.
InvalidateLater ==
  /\ saving /\ ~invalidatedTags /\ inTransaction
  /\ IF delayedTags THEN UNCHANGED vars ELSE addRootTransactionEndCallback
  /\ invalidatedTags' = TRUE /\ delayedTags' = TRUE /\ tagCache' = None
  /\ saving' = FALSE
  /\ UNCHANGED <<tables, reader, owed>>

\* invalidateTags() outside a transaction.
InvalidateNow ==
  /\ saving /\ ~invalidatedTags /\ ~inTransaction
  /\ invalidatedTags' = TRUE /\ tagCache' = None
  /\ saving' = FALSE
  /\ doInvalidateTags
  /\ UNCHANGED <<vars, item, delayedTags, reader>>

\* rootTransactionEndCallback(TRUE).
Invalidated ==
  /\ CallBack
  /\ delayedTags' = FALSE
  /\ IF delayedTags THEN doInvalidateTags ELSE UNCHANGED <<invalidations, owed>>
  /\ UNCHANGED <<item, invalidatedTags, tagCache, saving, reader>>

\* Mutant of Nesting: the callback forgets its tags after a success only.
NestingKeepsTags ==
  /\ ~saving
  /\ Start \/ CreateTable \/ \E i \in DOMAIN objects : RollBack(i) \/ End(i)
  /\ UNCHANGED <<tables, trait, saving, reader, owed>>

\* A transaction starts, is rolled back or ends.  Rolling the root back calls
\* rootTransactionEndCallback(FALSE).
Nesting ==
  /\ ~saving
  /\ Start \/ CreateTable \/ \E i \in DOMAIN objects : RollBack(i) \/ End(i)
  /\ delayedTags' = (delayedTags /\ callbacks' > 0)
  /\ UNCHANGED <<tables, invalidatedTags, tagCache, saving, reader, owed>>

\* The request looks the item up: DatabaseBackend::get().
Get == /\ pc = "run" /\ ~saving
       /\ item # None /\ ~delayedTags /\ tagCache = None
       /\ tagCache' = invalidations
       /\ UNCHANGED <<vars, tables, invalidatedTags, delayedTags, saving, reader, owed>>

\* The request stores the item: DatabaseBackend::set(), with the checksum from
\* getCurrentChecksum().  With the tag delayed it stores nothing.  (In an open
\* transaction the item would be stored with the transaction: not modelled.)
Set == /\ pc = "run" /\ ~saving /\ ~open /\ ~delayedTags
       /\ invalidatedTags' = FALSE
       /\ tagCache' = calculateChecksum
       /\ item' = Item(data, calculateChecksum)
       /\ UNCHANGED <<vars, invalidations, delayedTags, saving, reader, owed>>

\* Another request reads the contents, and then stores the item.
Read  == /\ reader = None
         /\ reader' = durable
         /\ UNCHANGED <<vars, tables, request, owed>>

Store == /\ reader # None
         /\ item' = Item(reader, invalidations)
         /\ reader' = None
         /\ UNCHANGED <<vars, invalidations, request, owed>>

\* The request ends, or is cut off; the next one has a fresh service.
RequestEnds ==
  /\ Die
  /\ owed' = \/ owed
             \/ pc = "committed" /\ delayedTags
             \/ saving /\ ~open /\ ~invalidatedTags
  /\ invalidatedTags' = FALSE /\ delayedTags' = FALSE /\ tagCache' = None
  /\ saving' = FALSE
  /\ UNCHANGED <<tables, reader>>

CNext ==
  \/ \E contents \in Data : Save(contents)
  \/ InvalidateOnce \/ InvalidateLater \/ InvalidateNow \/ Invalidated
  \/ Nesting \/ Get \/ Set \/ Read \/ Store \/ RequestEnds

CSpec == CInit /\ [][CNext]_cvars

-----------------------------------------------------------------------------
(* Properties. *)

\* The types of the variables; and of a transaction's changes the tag is still
\* to be invalidated when, and only when, there is a callback to do it.
CTypeOK ==
  /\ TypeOK
  /\ invalidations \in 0 .. MaxInvalidations
  /\ item \in {None} \union [contents : Data, checksum : 0 .. MaxInvalidations,
                             current : BOOLEAN]
  /\ invalidatedTags \in BOOLEAN /\ delayedTags \in BOOLEAN
  /\ tagCache \in {None} \union (0 .. MaxInvalidations)
  /\ saving \in BOOLEAN /\ reader \in Data \union {None} /\ owed \in BOOLEAN
  /\ delayedTags <=> callbacks > 0

\* The request that saves does not get its own changes hidden by the cache, in
\* the transaction, after it, or after rolling back a part of it.
ReadYourWrites ==
  pc = "run" /\ ~saving /\ ~owed /\ isValid /\ item.current => item.contents = data

\* An item that was right when it was stored is not served to a new request
\* once a change of the contents has been made durable and its tag invalidated.
OthersSeeTheChange ==
  /\ pc = "run" /\ ~(saving /\ ~open) /\ ~owed
  /\ item # None /\ item.checksum = invalidations /\ item.current
  => item.contents = durable
=============================================================================
