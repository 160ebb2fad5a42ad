# Specifications of the site's concurrency and consistency

The repository is one Drupal 10.0 site: Drupal core (`src/docroot/web/core`),
vendored PHP packages, four contributed modules and three modules of the site's
own. Every page request is a PHP process of its own. Requests share nothing but
the MySQL database and a server's fast cache, so what is hard in this code are
the *orders* in which the SQL statements of several requests, PHP destructors,
shutdown functions and process deaths can happen; and in the browser, the orders
in which answers and scripts arrive. These specifications are about that.

Paths below are relative to `src/docroot/web/`; `lib/` stands for
`core/lib/Drupal/Core/`.

## Inventory

| Component | State | Operations | What is hard | What makes it correct |
|---|---|---|---|---|
| Locks (`lib/Lock`) | table `semaphore`; `$this->locks` of each request | acquire (also renews), lockMayBeAvailable, wait, release, releaseAll at shutdown | read-then-delete of expired rows, one retry, requests that die, table made on demand | two requests never rely on one lock; nobody breaks a lock that has not expired; a dead request's lock can be taken |
| Queues (`lib/Queue/DatabaseQueue.php`) | table `queue` | create, claim (SELECT, then UPDATE), release, delay, delete, collect garbage | leases that lapse while a consumer works, operations by id only | an item leaves only after its worker succeeded; leases are respected |
| Cron (`lib/Cron.php`) | lock `cron`, `system.cron_last` | hooks, then every queue for a limited time | runs longer than their lock, exceptions, fatal errors | one run per item until both the lock and a lease are over; items are done in the end, behind a hopeless one excepted |
| Transactions (`lib/Database/Transaction.php`, `Connection.php`, the MySQL driver) | objects in scope, `$transactionLayers`, callbacks, the server's transaction and savepoints | start, roll back, destructor, callbacks | three stacks tied together by names; implicit commits by DDL; destruction in any order | nested functions do not disturb each other's transactions; nothing is left open or registered |
| Cache tags (`lib/Cache/CacheTagsChecksumTrait.php`, `DatabaseCacheTagsChecksum.php`, `DatabaseBackend.php`) | table `cachetags`, `cache_*` items, per-request `$invalidatedTags`, `$delayedTags`, `$tagCache` | invalidate, validate, store, root-transaction callback | invalidation delayed to the end of the transaction while others read and store | no outdated item is served after a committed and invalidated change |
| Registration (`modules/custom/custom/custom_module`, `modules/dependency_injection_services`) | tables `reg_form`, `custom_form`, uploaded files | submit, edit, delete | look up and insert in separate statements, a lookup of text in an int column, forms that stay open | a mail or roll number is given once; deleted rows stay deleted |
| Batch (`core/includes/batch.inc`, `form.inc`, `lib/Queue/Batch.php`, `lib/Batch`, `core/misc/progress.js`, `batch.js`) | table `batch`, a queue per set, the copy of each request, the page | start, do, finished; claim, call, delete, next set, store; ping, reload | each request overwrites the whole row; work, queue and counter move apart when a request dies or meets another | success is reported only of finished sets; an operation makes each call once; the batch is completed |
| Ajax (`core/misc/ajax.js`, jQuery, `lib/Ajax`) | `drupalSettings.ajaxPageState.libraries`, `ajaxing`, `disabled`, `$.active`, scripts of the page | send, answer, commands, load, error | several objects share the page's list and count; answers and files come in any order and fail | no element stays dead, no script runs twice, new content gets its behaviors |
| Chained fast cache (`lib/Cache/ChainedFastBackend.php`) | consistent cache, last write timestamp, a fast cache per server, `$lastWriteTimestamp` of each request | get, set, delete, delete all, invalidate tags, mark as outdated | the change and its mark, the read and its fill are separate steps; servers' clocks differ; tags invalidated in a transaction take effect after their mark | what the timestamp lets through is current |
| Custom entity (`modules/custom/custom_entity_module`) | content entities | mail check on add, user_cancel | same race as registration | not modelled |
| Cache collector, temp stores, router rebuild, flood control, configuration import | see `PROJECT.json` | | locks around read-modify-write, work spread over requests | not modelled, see the plan |
| Rendering, forms, themes, kernel, sessions | derived or per-user | | little shared state | not modelled |
| Contributed modules, vendored packages | | | third-party code | not modelled |

How they interact: `Cron` takes the lock `cron` and consumes the queues, whose
garbage is collected by a hook of the same run. The cache tag service asks the
connection whether it is in a transaction and, if so, registers a callback that
the connection calls after the outermost commit or before the outermost
rollback. The batch page calls the server through jQuery and leaves when it is
told 100; the server moves the operations into queues. An Ajax answer carries
the scripts that the page's list of libraries lacks, and the new list. Locks, queues, caches and tag counters create their tables on demand,
and in MySQL that commits an open transaction. The registration forms use
single statements.

`PROJECT.json` lists the hazards with their source lines and the properties
that guard them, and those no property covers with the reason.

## Modules

| Module | What it is |
|---|---|
| `Lease` | abstract: requests hold leases on names, never two at a time |
| `DatabaseLock` | the semaphore table, one step per SQL statement |
| `DatabaseLockProofs` | theorems about `DatabaseLock` |
| `DatabaseQueue` | operations on the queue table |
| `Cron` | cron runs over `DatabaseQueue`; takes the lock as `Lease` grants it |
| `CronProofs` | theorems about `Cron` |
| `NestedTransactions` | abstract: each function can undo its own changes and no other's |
| `Transactions` | PHP objects, connection stack, server savepoints |
| `TransactionsProofs` | theorems about `Transactions`, the refinement among them |
| `CacheTags` | cache tags on top of `Transactions` (composition: every transaction step of the request is a step of this module) |
| `CacheTagsProofs` | theorems about `CacheTags`, on top of those about `Transactions` |
| `DataTable`, `Registration` | a table with a serial id, and the forms over it |
| `RegistrationProofs` | theorems about `Registration` |
| `Batch`, `BatchPage` | the Batch API on the server; composed with the page in the browser |
| `BatchProofs` | theorems about `Batch`, and about it behind `BatchPage` (composition: every step of the page and its server is a step of `Batch` or leaves it alone) |
| `Ajax`, `AjaxProofs` | `Drupal.Ajax` objects in one page, and theorems |
| `FastCache`, `FastCacheProofs` | `ChainedFastBackend` on several servers, and theorems |
| `MC*` | small instances for TLC |

A definition named "Mutant of X" is a deliberately wrong variant of X. The
properties are checked to notice it; it is no part of a specification.

### DatabaseLock
`semaphore[n]` is the row of lock `n`, `locks[p]` is `$this->locks`, `call[p]`
holds the locals of the call request `p` is in, `pc[p]` the statement it is at.
`granted` and `last` are history. acquire() is `Acquire`, then `Renew` or
`RenewBroken`, or `InsertRow`, `InsertDuplicate`, `InsertNoTable` and the retry;
lockMayBeAvailable() is `SelectRow`/`SelectNoRow`/`SelectNoTable`, then
`NotExpired` or `DeleteExpired`, and is entered from acquire(), from wait() and
by itself. A request may end in the middle of any call (`Shutdown`, `Purge`),
between the INSERT and the bookkeeping after it (`InsertCut`), or be killed
(`Crash`). `Tick` advances the clock all requests share. The loop in wait() is
bounded by `Polls`.

### DatabaseQueue and Cron
A row's `expire` is only compared with 0 and with two clocks: the current time
and the start of the request that collects garbage. So a row is *ready*,
*leased* or *lapsed*, and `stale[p]` are the rows that had lapsed when `p`
began. Claiming is two steps, `SelectItem` and `UpdateItem`. `ProcessFails`
leads to each `catch` of processQueues(); `Die` is an error none of them
catches (the shutdown function releases the lock), `Crash` a killed process.
`LockLapses` lets a run outlive its 900 seconds and go on without knowing.
The history variable `lost` holds the runs at work on an item whose lease is over
or was given back by another run.
A missing queue table behaves as an empty one and is not told apart from it.

### Transactions
`objects` are the `Transaction` objects alive, `layers` is
`$transactionLayers`, `saves` the savepoints of the server with the contents
they would restore. `Start`, `RollBack(i)`, `End(i)` are constructor,
`rollBack()` and destructor; `popCommittableTransactions` and `doCommit` are
those of the MySQL driver, error 1305 included. With `Scoped` the objects end
innermost first, as local variables do; without, in any order, which the end of
a request and object cycles bring about. With `DDL` a statement may commit the
transaction behind the connection's back. Out-of-order exceptions are modelled
by what they leave behind.
Drupal core requires PHP 8.1 (`core/composer.json`), where
`PDO::inTransaction()` tells the truth after an implicit commit; the model
relies on that. Nothing in core passes a name of its own to
`startTransaction()`, so names are depths.

### CacheTags
One tag, one item, one request that saves, and all others as "another request"
that reads (`Read`) and stores (`Store`) in two steps. A save is a change of the
contents followed by `invalidateTags()` (`InvalidateOnce`, `InvalidateLater`,
`InvalidateNow`); the callback after the commit is a step of its own
(`Invalidated`), so that other requests, or death, can come in between. `owed`
marks a death between change and invalidation, which nothing in the code
repairs. `current` records whether an item was right when it was stored; one
that was read before and stored after a change is outdated from the start, and
the checksum cannot tell. Storing inside an open transaction is not modelled.

### DataTable and Registration
A row keeps, for the properties only, which rows existed when its form looked
each column up, and the values the form was given. `Stored` is what a column makes
of them: a mail is stored as it is, but the roll number, which the form takes as
text, is rounded by its int column. `Select` is one lookup, of the value given, `Insert` the insert; `InsertFails` is
a row the server refuses (the form admits longer values than the columns hold).
`Columns` and `Uploads` give the two instances: mail and roll number with an
upload (`reg_form`), mail alone without (`custom_form`).

### Batch and BatchPage
`stored` and `row` are the row of `{batch}`, `queue[s]` the operations of set
`s`, `copy[p]` is `batch_get()` in request `p`: the current set, and of each set
its counter, its success and its sandbox. `Load` is BatchStorage::load() and the
switch over `op`; `Claim`, `Call`, `DeleteItem`, `NextSet`, `EndTurn` are one
turn of the loop in _batch_process(), where `EndTurn` also decides whether the
second is up; `Save` is BatchStorage::update(), from _batch_page() or, after a
fatal error, from _batch_shutdown(). `Callbacks`, `DeleteRow`, `DeleteQueues`
are _batch_finished(). `Call` is an operation that counts its passes in the
sandbox, as multi-pass operations do. In `Batch` requests arrive in any order
and number; `BatchPage` composes it with one page: `Open`, `SendPing`, `Leave`
send op=start, do and finished, `AfterAnswer` is what batch.js and progress.js
make of an answer, and the user reloads, follows the link of the error page or
loses the connection while the server works on.

### Ajax
An exchange is `unsent`, on the `wire`, `loading` a script, `inserted` or
`dropped`. JavaScript runs to completion, so each callback is one step; a
command queue gives way to others only where it waits for a file. `Send` is
eventResponse() with beforeSerialize() and beforeSend(); `Fail` an answer
jQuery takes for an error, `Refuse` one that fails verification; `Insert`,
`AddJs` and `AddJsAgain` are the queue's commands up to its end or to the
script; `Loaded` and `LoadFails` the rest. `Counted` is jQuery's decrement of
`$.active` and Drupal's correction of it in ajaxComplete. What the server
computes from the request's list (`New`, `NewList`) is the answer's. The
libraries are the only data: settings, mark-up and effects are left out.

### FastCache
One item of a bin. `value` is the item in the consistent cache, `stamp` the
last write timestamp there, `fast[s]` the item in the fast cache of server `s`.
A read is `Get` (the timestamp), `FastGet`, `SlowGet`, `Fill`; a change is
`Change`, then `Now`, `Compare`, `PutStamp` (markAsOutdated()), then `Fill` for
set(). `InvalidateTags` changes nothing in the bin itself. Outside a transaction
the tags' counters have been incremented by then, which is the change; within
one the request is in `owed`: it takes its time now, stores it for itself only,
and `Commit` makes it visible, after which `Increment` outdates the item at last;
`Rollback` drops both. `memo[p]` is `$lastWriteTimestamp` of the request.

Nothing is assumed of clocks: every use of microtime() gives any time, as the
comment in markAsOutdated() asks for (`ChainedFastBackend.php:296-298`). The
history variables say which items a request may be served.

The class comment promises too much ("we can guarantee that the cache entries we
return are all up-to-date", `ChainedFastBackend.php:29`). Seven steps can break
it, and each says when it does by setting `raced`:

| Step | The race |
|---|---|
| `Fill` | the item has been replaced by a change that has its time already |
| `Now` | a server whose clock is ahead has stored the replaced item at a time that this one has yet to reach |
| `PutStamp` | a later time has been stored already, perhaps by a clock ahead, and the timestamp goes back |
| `Commit` | the same, for the time stored in a transaction |
| `Rollback` | a time that was stored in the transaction is gone, and the request takes it for the last write |
| `Increment` | the item was stored in a fast cache after the transaction had taken its time |
| `Kill` | a process dies between the change and its mark |

TLC finds `Fresh` violated when any one of the seven is not counted as a race, so
each is needed; that they are enough is what `Fresh` and `Recent` say.

## Runs

| Run | Question | Bounds and why they are enough |
|---|---|---|
| `Locks` | exclusion, nobody breaks a live lock, no stray rows; implements `Lease`; a crashed request's lock can be had again | 2 requests (with liveness 3 take too long; the theorems cover any number), 1 lock, as locks do not interact (releaseAll() apart, where one more row shows nothing new); timeouts 0 and 2, waits of one poll, clock to 4: hold, expire, hold again |
| `Cron` | when do two runs share an item; at least once, leases respected; every item that is not behind a hopeless one is done in the end | 2 runs, 2 queues, an item in each, the first requeued every time, 1 crash or fatal error: the second queue must not suffer. Within one queue the same was checked with a hopeless item after another; two items in one queue and one in the other are beyond the time of a run |
| `TxnAnyOrder` | do the three stacks agree, whatever the order and the DDL; are callbacks told of their own transaction only? | 4 objects, so that a layer can be ended below two others; 3 contents, so that before, within and after differ |
| `TxnDdl` (violated) | is the connection out of the transaction when the last scope is left? | 3 objects |
| `CacheTags` | nested transactions are what they promise; no outdated item is served | depth 3, 3 contents, counter to 3; no DDL, which `TxnAnyOrder` and `TxnDdl` are about |
| `CacheTagsAgain` (violated) | ... also when a request saves twice? | as above |
| `Registration` | where duplicates come from; deletions last | 2 requests, 2 rows, 3 values per column, of which the int column stores two alike: two rows are the least that can be duplicates, and the second request or the fraction the least that can bring them about |
| `RegistrationRace` (violated) | is a mail given once? | 2 submissions |
| `Batch` | counters, honest reports, each call once and in order, no early 100; the batch is completed | 2 processes, so that a reloaded page meets its own earlier request; an empty set, an operation of two calls and one of one, another empty set, and a set of one operation after it; 1 fatal error, 1 kill, 1 reload or lost connection |
| `BatchEarly` (violated) | no early 100 when the first set is empty and the next has one operation? | 1 process |
| `Ajax` | flags, behaviors, libraries and counts; nobody waits for ever | 2 objects, 3 exchanges, 2 libraries: two answers can overlap in both libraries, in one or in none, and an object can ask again |
| `FastCache` | apart from the races, is what is served current? | a process on each of 2 servers, 2 changes, times 0 to 2 on every clock, so that clocks are equal, behind and ahead and 3 is the latest mark: each of the seven races happens; states after a race are not extended, as nothing is promised of them |

The violated runs are findings; `PROJECT.json` quotes the line of the
repository that says otherwise and the course of events.

Requests, contents and servers are interchangeable and symmetric where a run
says so. Deadlock is checked except in the run of the locks, where every request may
have ended with the clock at its bound.

### Fairness
`DatabaseLock`: a request inside a call goes on (PHP does not stop in the middle
of one, other than by ending) and the clock ticks. Nothing obliges a request to
begin a call. `Cron`: cron is triggered again and again, runs and leases pass
their time, and a worker that can succeed does so if it gets its item often
enough. `BatchPage`: a process that works goes on, scripts run (one fairness
condition for whichever request the page has to send or to read), and the user
of a page that shows an error reloads it or follows the link. `Ajax`: a request
is answered or fails in the end, a file loads or fails to; nothing obliges an
object to send. `SF(TimeUp)` is the `while` condition on the clock: a loop that is
entered for ever meets it after its time. Faults are bounded, so that they do
not come for ever. `TxnAnyOrder`,
`CacheTags`, `Registration` and `FastCache` assume no fairness.

## Proofs

`DatabaseLockProofs` proves, for any number of requests and locks, any timeouts
and any bound on the clock: `TypeOK`, `LeaseBacked`, `MutualExclusion`,
`NobodyBreaksEarly`, `NoStrayRow`, and that `DatabaseLock` implements `Lease`.
The assumptions are those `DatabaseLock` states: no request is called `None`,
there is a name, timeouts and bounds are naturals.

`LeaseBacked` is not inductive by itself. The inductive invariant `IInv` adds
- `GrantsSane`, `CallsSane`: a lock in `$this->locks` was granted to an instant
  other than 0, and a request at a renewal or INSERT is in an acquire() whose
  expiry is not 0;
- `ReleasedFirst`: a request in release() has already taken the name out of
  `$this->locks`, and one that is purging or gone has emptied it;
- `OwnRowsKnown`: a running request knows of every row it has in the table, but
  for the one it is releasing (this is what makes `NoStrayRow` true, although
  releaseAll() only looks at `$this->locks`);
- `RowIsLast`: a row belongs to the request that inserted it last.

A late DELETE does no harm, as it hits only a row whose owner is the one read
and whose expiry is no later than the one read, which had passed already: such a
row is expired *now*, whatever has happened since the SELECT. There is one step per action and
below it one per part the action can disturb. Exclusion follows from
`LeaseBacked`, as a row has one value. The refinement uses the invariant for the
one step that grants a lease, `InsertRow`: the row was absent, so nobody held it.

`CronProofs` proves, for any items, queues, number of runs and faults: `TypeOK`,
`OneConsumer`, `AtLeastOnce` and `NoStealing`. The invariant adds `LeasesHeld` (the
item of a run that has not lost its lease can be claimed by nobody, and of two
runs at work on one item one has lost it),
`AtWorkHasLock` (until a run outlives it, the lock is that of every run past
acquire(), so there is one), `AtWorkExecuted` and `DeletesDone` (a run about to
delete has seen its worker return). The latter is local to a run, so the
deletions of overlapping runs lose nothing: releases and delays of a deleted row
do not bring it back. That claimItem() finds an item at all rests on the
least element of a set of naturals.

`RegistrationProofs` proves, for any checked columns, values, requests and
number of rows, whatever the columns store: `TypeOK`, `DuplicatesExplained` and
`DeletedStaysDeleted`. The
inductive invariant adds `FormsFilled` (a submission under way has its fields),
`OlderGiven` (a form or row remembers ids given before it), `StoredAsColumn` (a row holds what
its columns make of what its form was given) and `LookupsHold`:
while a form's lookups have found nothing, no row it has seen in a column it has
looked up has its value there. That is what the INSERT turns into
`DuplicatesExplained` for the new row; edits keep it as they do not touch the
checked columns, deletions as they only remove rows. In a column that stores what
it is given, as that of the mails does, `OnlyOverlapsDuplicate` leaves one cause.
`DeletedStaysDeleted` rests on AUTO_INCREMENT, which MySQL before 8 starts anew
from the largest id left when the server is restarted.

`BatchProofs` proves, for any sets of operations, processes, faults and kills,
and requests that arrive in any order: `BatchTypeOK`, `CountersCover`,
`HonestReport` and `InOrder`; of a batch nobody disturbs, `ExactlyOnce` and
`HundredIsLast`. That the stored counter covers the queue is not inductive: a
request that has deleted an item stores a copy made before another request's
deletions. The invariant says that of every copy: each copy's counter covers what
is left of its queue, the one at work counts the item it has claimed, and what
has left a queue has made its last call, as nothing ever adds to a queue. So
whichever copy is stored last, its counter is only too high, which costs turns
and never success. That the counter falls to 0 with nothing left is what makes
`HonestReport` true of reports by requests that met others, or whose
predecessor was killed.

`InOrder` needs three more facts (`OrderInv`): the sets before the current one of
any copy are successful (`Passed`), so that nothing is left of them; while
anything is queued, what is not has been finished (`GoneLast`); and so has all
that comes before an operation some request has claimed (`EarlierLast`). The
second is what a claim turns into the third, as it takes the least item.

`ExactlyOnce` is about batches that no second request and no kill disturbs, and
its invariant is about where the truth is (`OnceInv`): in the copy of the one
request that processes, or else in the row. There counter, sandbox and queue
tell exactly which calls have been made (`InStep`): all of an operation that has
left its queue, as many as the sandbox says of the first in the queue, none of
the others. An operation that throws or dies before it has recorded anything
leaves this as it is, and `Turn` says how far the request is between a last call
and the deletion of its item. `HundredIsLast` adds (`HundredInv`) that sets are
marked successful in order and up to the current one (`Placed`), and that a
request calls, fails or is asked for more only in a set with a counter above 0, or
in a batch that has not been worked on and begins with an empty set (`Ready`,
`Untouched`). In the first case it never gets to the percentage with `$finished`
at 1. In the second it does: the claim of nothing leaves `$finished` at 1
(`batch.inc:283`), _batch_next_set() goes on to a set with operations, and if the
turn ends there its total minus remaining plus finished is one more than is done
(`Opening`). With two operations or more that is not the total. With one it is:
100 is answered, the page leaves and the operation is never called. So
`HundredIsLast` holds of every batch but those (`EarlyHundred`), and the run
`BatchEarly` is a finding. Later empty sets do no harm: they are passed in the
turn that deletes an item, which sets `$finished` to 0.

`PageRunsBatch` carries all this over to `BatchPage` (`PageIsSafe`), whose own
`TypeOK` is proved with it. `FinishIsNotEarly` is what the safety of the parts
amounts to for the whole, again but for the batches of `EarlyHundred`: unless it is
disturbed or its user follows the link to the error page, whatever the reloads,
lost connections and fatal errors, no finished callback is told of a failure or
of operations that are left (`NoEarlyFinish`); its invariant says that the page
leaves for the end only when every set is complete. That it gets there is `Completes`, which TLC checks.

`AjaxProofs` proves, for any objects, libraries and number of exchanges:
`TypeOK`, `Restored`, `ContentBound`, `LibrariesOnce` and `StopWaits`. The
invariant adds `Numbered` (exchanges are sent in order, those to come have left
nothing behind), `NothingUnknown` (a library the page lists has run, is coming
or has failed, also when requests overlap), `NeedsMet` (content inserted is
bound to every library it needs that is running) and `InTurn` (without overlap
a request on the wire knows the page's list as it is, so that its answer brings
nothing that is coming). `StopWaits` counts with the cardinality of the
exchanges under way; each step adds or removes one.

`FastCacheProofs` proves, for any processes and servers, any number of changes and
whatever the clocks show: `TypeOK`, `Fresh` and `Recent`. Up to a race, `Ordered` says that the
timestamp is the latest ever stored or gone, and that a request knows none later
but the one it is about to store; `Explained` why an item is in a fast cache:
it is current, or replaced by a change that is still to take its time, or by one
whose time is later than the item, stored or not; `Served` the same of what a
request may still be served with the timestamp it knows. The millisecond that
markAsOutdated() adds is what makes the step from the second case to the third.
After a commit the change itself comes last: then only items older than the mark
can be what is replaced, or it is a race.

`TransactionsProofs` proves, for any contents and depth, whatever the order in
which objects end and with tables created between: `TypeOK`, `Accounted`,
`NoDangling` and `NoOrphanCallbacks`. The last is about steps: no transaction of the
server begins while callbacks of an earlier one wait, and callbacks are told of a
failure, or forgotten, only with the contents back to what is durable. (A layer
that stays behind, as in `TxnDdl`, keeps its callbacks until a later RELEASE
fails; they are called then, with no transaction of the server between.) It
follows from `CallbacksOnlyInside`: between operations callbacks wait only while
there are layers. The invariant is stronger than `Accounted`
in one point, `Stacked`: the server has at most one savepoint more than there
are layers above the root, that of a layer rolled back to, which the next
SAVEPOINT replaces. A rollback enters popCommittableTransactions() with layers
and savepoints already cut, so `Stacked` and the lemma about it speak of those
it is given. For scopes that are nested (`Scoped`) and without implicit commits
(`~DDL`), as in the `CacheTags` run, it proves `StillAlive`, `ClosedWhenDone` and that
`Transactions` implements `NestedTransactions`. `ScopedInv` says that every layer
is active and the objects not rolled back are named after them in order; with
it a rollback or an end pops one layer (`Popped`), which is what keeps each
object further out at what it would restore. `TxnDdl` shows that the second
assumption is needed.

`CacheTagsProofs` proves that a step of `CacheTags` is one of `Transactions`
(`Composition`), so all this is true of requests that use cache tags; and, with
`Scoped`, `~DDL` and `~SaveAgain`, for any depth and number of invalidations:
`CTypeOK`, `OthersSeeTheChange` and `ReadYourWrites`. The invariant adds `Quiet`
(while no tag is delayed, no transaction or savepoint holds anything but the
durable contents), `CallbacksNext` (nothing happens between a commit and its
callbacks) and `TraitSane` (what the trait caches of the counter is the counter, and
nothing while the tag is delayed). So a commit without callbacks changes nothing,
and one with callbacks is followed by the increment that outdates every item.

Only model-checked: the liveness properties `CrashRecovery`, `EventuallyDone`,
`Completes` and `Responsive`, as TLAPS does not reason about fairness. Every
other property of a passing run is a theorem. Only proved, and in no run:
`LeaseBacked`, as a run of `MutualExclusion` and `ImplementsLease` asks no less of
what a request can see, `NoEarlyFinish` and the compositions.

## Not modelled
- acquire() within an open database transaction of the same connection (its row
  is not visible to others until the commit).
- Wall clocks that differ between web servers, but for the fast caches; locks and
  queues assume they agree.
- Cache expiry, garbage collection of cache bins, deletion by cache id.
- Isolation levels: each statement sees what is committed and its own changes.
- Nested `batch_set()` calls in an operation, control sets of form submissions,
  batches in one pass (`progressive` FALSE) and the page without JavaScript.
- Ajax scripts in the header, whose add_js attaches behaviors to `<head>` only;
  requests that are aborted; commands other than settings, add_js and insert;
  one `ajax.settings` per object (settings without `merge`).
- The aggregated scripts under `sites/default/files/js`: generated copies of
  core's scripts, several times over, and most of the JavaScript in the
  repository by size.
- jQuery, other than its handling of an answer, and the other scripts of
  `core/misc`, themes and vendored editors: each page's state is its own and
  events are handled one at a time.
- The components marked `not_modelled` in `PROJECT.json`.

## Plan
Done: locks, queues and cron, transactions, cache tags on transactions,
registration, batches with their page, Ajax, the chained fast cache. Left, most
important first:
1. `SharedTempStore` and `CacheCollector`: read, lock and write again; both on
   top of `Lease`.
2. `RouteBuilder` (lock, wait, rebuild flag) and `ConfigImporter` with the
   persistent lock, on top of `Batch`.
3. Locks inside transactions: `DatabaseLock` composed with `Transactions`.
4. Proofs: that `Cron` takes and loses its lock as `Lease` allows, which needs a
   history of the leases that lapse. No module uses RECURSIVE operators, so all
   can be proved about as they stand.
