# Verification of the Drupal site's coordination services and page scripts

The repository is a Drupal 9.2.10 site (core, contributed modules, themes).
PHP serves every request in a process of its own that shares nothing with the
others but the database and the caches. What is hard to get right, and
next to impossible to test, is therefore in the few services through which
requests coordinate: locks, queues, transactions, and the rules that say when
a cached item is still good. In the browser a page is one thread of handlers,
callbacks and answers, and the hard parts are the scripts whose state outlives
a handler: Ajax, editing in place, dragging rows. This directory holds TLA+
models of those services and scripts, TLC configurations that check them, and
proofs for TLAPS.

All paths below are relative to `core/lib/Drupal/Core/` unless they say
otherwise; scripts are modelled from their sources, `*.es6.js`. `PROJECT.json` maps every definition to its lines, and lists runs,
findings, hazards and theorems.

    tlc -config MCDatabaseLock.cfg MCDatabaseLock     # one run
    tlapm DatabaseLock_proofs.tla                     # the proofs of one component

## 1. Inventory

| Component | State | Operations | Interacts with | Here |
|---|---|---|---|---|
| Lock service (`Lock/`) | table `semaphore`; per request `$this->locks` and a lock id | `acquire`, `wait`, `lockMayBeAvailable`, `release`, `releaseAll` at shutdown | cron, router rebuild, cache collectors, temporary storage, config import | modelled, proved |
| Reliable queue (`Queue/DatabaseQueue.php`) | table `queue`: `name`, `expire` per item | `createItem`, `claimItem`, `releaseItem`, `delayItem`, `deleteItem`, `garbageCollection` | cron, batch | modelled but for `deleteQueue`, `numberOfItems` and the batch clean-up; proved with cron |
| Cron (`Cron.php`) | lock `cron`, `system.cron_last` | `run`, `invokeCronHandlers`, `processQueues` | lock service, queue, queue workers | modelled, proved |
| Nested transactions (`Database/Connection.php`, `Transaction.php`, MySQL driver) | stack of layers, callbacks; the server's savepoints | start, destruct, roll back, end callbacks | every writer; cache tags | modelled for MySQL; the other drivers not; proved |
| Cache tags (`Cache/CacheTagsChecksumTrait.php`, `DatabaseCacheTagsChecksum.php`) | table `cachetags`; three static caches per request | `invalidateTags`, `getCurrentChecksum`, `isValid`, `reset` | cache bins, transactions | modelled but for `reset()`, which tests call; proved |
| Chained fast cache (`Cache/ChainedFastBackend.php`) | a consistent bin with a timestamp, a fast bin per web node | `get`, `set`, `delete*`, `invalidate*` | two cache bins, the nodes' clocks | modelled but for garbage collection and `removeBin`; proved |
| Quick Edit (`core/modules/quickedit/`, `core/modules/editor/js/editor.formattedTextEditor.es6.js`) | states of entities and fields, editors, deferred callbacks, requests; the copy in `PrivateTempStore` | `set` of a state and its listeners, loads, saves, answers | Ajax, the user, the server | modelled but for toolbars, loading of the page, image editor; types, commits and exceptions proved |
| Ajax framework (`core/misc/ajax.es6.js`, `drupal.es6.js`) | `Drupal.ajax.instances`, a flag, a form and an indicator per object; the page | `execute`, `eventResponse`, `beforeSerialize`, `beforeSend`, `success`, `error`, commands; attach and detach | every behaviour, forms | modelled but for what section 7 lists; proved |
| Table drag (`core/misc/tabledrag.es6.js`) | order and indentation of rows, the moving row with its interval, form fields | `dragStart`, `dragRow`, `dropRow`, arrow keys | the user; the form that is submitted | modelled for tables with indentation; proved |
| Cache bins (`DatabaseBackend`, `ApcuBackend`, ...) | items with checksum and expiry | `get`, `set`, `delete`, `invalidate` | cache tags | get and set, inside CacheTags |
| Cache collectors (`CacheCollector.php`) | one cache item merged from many requests | resolve, `updateCache` at the end | lock service, cache | planned |
| Temporary storage (`TempStore/`) | expirable key-value items with owner | `setIfNotExists`, `setIfOwner`, `set`, `delete*` | lock service, key-value store | planned |
| Batch API (`core/includes/batch.inc`, `Batch/`, `Queue/Batch.php`) | batch row, its queue | process, progress, finish | queue, several requests | planned |
| Router rebuild (`Routing/RouteBuilder.php`) | router table, state | `rebuild` under a lock | lock service, transactions | planned |
| Flood control (`Flood/`) | table of events | `register`, `isAllowed`, `clear` | callers that check, then register | planned |
| Config import (`Config/ConfigImporter.php`) | steps carried over batch requests | `validate`, `doSyncStep` | persistent lock, batch | planned |
| Everything else | | rendering, forms, entities, plugins, modules, other scripts, contributed code | | not modelled, reasons in section 7 |

### What is hard, and what makes each part correct

- **Lock service.** Every query of a call may interleave with those of other
  requests; an expired lock is broken by a DELETE whose condition was read
  earlier; a request may die holding a lock, or find that the table is not
  there yet. Correct means: two requests never hold the same unexpired lock; a
  request's record of its locks and the table agree, or `releaseAll()` leaves
  rows behind; a renewal succeeds only while nobody else has the lock; every
  call returns; a lock of a dead request is broken in the end.
- **Queue and cron.** Runs overlap in `processQueues()` by design, with only
  the leases of the items between them; release, delay and delete go by item id
  whoever claimed it; garbage collection works with the time its request began.
  Correct means: one item is not with two runs inside their leases, an item
  leaves only after it was processed, a delay is waited for, the loop ends unless
  other runs snatch for ever what it is about to claim.
- **Transactions.** `Transaction` objects are destroyed in whatever order PHP
  frees them, names of savepoints repeat, DDL commits behind the connection's
  back, the server may refuse a commit. Correct means: the layers describe the
  server's savepoints, nothing stays open when no object is left, rows and
  callbacks end up as the nested-transaction promise says.
- **Cache tags.** Counts come partly from a request's static cache and partly
  from the table; a transaction delays invalidations to its end and may be
  rolled back; repeated invalidations are dropped. Correct means: an item
  invalidated before a request began is never accepted by it, and no item that
  may hold uncommitted data is ever accepted.
- **Chained fast cache.** A value reaches the fast bin in a step of its own
  after the consistent one; only a timestamp discards old values; clocks of
  nodes differ. Correct means: what a fast bin returns is what the consistent
  bin has.

- **Quick Edit.** A click sets a state, whose listeners set others before it
  returns; the rest is deferred or asked of the server, and comes back after the
  user has gone on. Correct means: one save at a time, never without the
  server's copy (but after a lost answer, section 5), nothing typed is left out of it; one active field; no field moves
  while its entity is closed; an entity that began to change its state arrives.
- **Ajax.** Several requests are out at once, and the answer to one replaces the
  form, the element or the wrapper of another. Correct means: one request per
  object, no object that refuses events for ever, no element left disabled or
  marked as busy, every behaviour detached for sending attached again, every
  element bound once.
- **Table drag.** Dropping a row writes few fields and trusts the others to be
  right still; the interval of legal indentations is computed at one event and
  used at later ones; keys skip the checks that the pointer makes. Correct means:
  the table always shows a tree, and what is submitted is what is shown.

## 2. Modules

| Module | Models | Extends |
|---|---|---|
| `LeaseLock` | what the lock service promises: leases by name, no table | |
| `DatabaseLock` | the two database lock backends, query by query | |
| `DatabaseQueue` | the queue table and its operations | |
| `Cron` | cron runs over the queue, with the cron lock as a lease | `DatabaseQueue` |
| `NestedTransactions` | what the database API promises about nested transactions | |
| `Transactions` | layers, savepoints, Transaction objects, the MySQL server | |
| `CacheTags` | invalidation counts, static caches, stored items | |
| `ChainedFast` | consistent bin, timestamp, fast bins, clocks | |
| `QuickEditModels` | the states of entities and fields, and what each `set` sets off, as operators on the page | |
| `QuickEdit` | the user, the event loop, requests and the server around them | `QuickEditModels` |
| `Ajax` | Ajax objects, behaviours, answers that replace elements | |
| `TableDrag` | rows, indentation, moving rows, fields | |
| `MC*` | values for the constants, symmetry | the module named |
| `*_proofs` | lemmas and theorems about the module named: `DatabaseLock`, `Cron`, `Transactions`, `CacheTags`, `ChainedFast`, `QuickEdit`, `Ajax`, `TableDrag` | the module named, `TLAPS` |

An action is one atomic query (or one access to a shared store) together with
the local code that follows it, up to the next one. Definitions keep the names
of the methods where that is possible. Definitions marked "Mutation" are
variants of the one below them with a plausible bug; nothing uses them in the
specifications. They show that a property notices the bug.

**`DatabaseLock`.** `call[p]` is the call that request `p` is in: where it is,
its method, and the PHP variables `$name`, `$expire`, `$retry`, the row read
and the polls that `wait()` has left. `Acquire` fixes `$expire`, as the code
does, before the first query. `Extend` is the UPDATE, `InsertRow`,
`InsertConflict` and `InsertNoTable` the three outcomes of the INSERT, `Select`
and `Break` the two queries of `lockMayBeAvailable()`, `EnsureTable`,
`CreateTable` and `Recheck` what happens when the table is missing. `locks[p]`
keeps the lifetime instead of TRUE, which the code does not read: it is history
for the properties. Time counts milliseconds or more, so the 0.0001 s in the
DELETE is less than a tick. A fatal error in the middle of a call is `Crash`;
`Shutdown` comes only between calls or after an exception. Locks are
taken outside database transactions. `Persistent` selects the backend whose
lock id is the same for everybody and which has no shutdown function.

**`DatabaseQueue` and `Cron`.** A run is a slot that is used again, so any
number of runs follow each other. `claimItem()` is `ClaimSelect` and
`ClaimUpdate`. A worker is what it makes `processQueues()` do: return
(`WorkSucceeds`, `DeleteDone`) or throw (`WorkDelays`, `WorkRequeues`,
`WorkSuspends`, `WorkFails`). `InvokeHandlers` includes garbage collection,
which `system_cron()` does, or not if a handler throws before. The lock is used
as `LeaseLock` promises it. `created` is read in the step of the INSERT, so
items are ordered by id.

**`Transactions`.** One request on one connection; PHP runs one call at a
time, so a call is a step. `layers` is `$transactionLayers` as a sequence of
names with a flag; `server` the server's transaction as a sequence of
savepoints with the rows written since each. The server is external and
behaves as MySQL does: a SAVEPOINT replaces an older one of that name, ROLLBACK
TO keeps the savepoint, both are ignored outside a transaction, DDL commits.
PHP 8 is assumed (the repository requires 7.3 or later), where `rollBack()`
without a server transaction is refused. `doCommit()` and
`rootTransactionEndCallback` are one step; `CacheTags` takes them apart.

**`CacheTags`.** Any number of concurrent requests. `tagCache`, `invalidated`
and `delayed` are the static caches of the checksum service. `GetRow` and
`Validate` are a cache `get`, `CurrentChecksum` and `Store` a `set`,
`InvalidateTags` and one `Merge` per tag an invalidation. An item carries as
history which counts its tags had when an invalidation reached it (`marked`),
which requests began after that (`late`), and whose uncommitted changes it may
contain (`by`). `late` counts only invalidations that were carried out: a
request that dies before its MERGE has invalidated nothing. Bins are stores
outside the transaction, as APCu and the like are; a bin in the same database
shows the items of a transaction later, if at all. Counts are read as
committed.

**`ChainedFast`.** `items` and `stamp` are the consistent bin, `fast[n]` the
fast bin of node `n`. `Get`, `GetFast`, `GetConsistent`, `StoreFast` are the
steps of `get`; `Set` or `Delete` or `DeleteAll`, `MarkAsOutdated`,
`WriteStamp` and (for `set`) `StoreFast` those of a write. Values are numbered,
so two writes are never confused. `met` records as history that an operation
overlapped a write of another request, `unmarked` which items have changed
without a timestamp written since.

**`QuickEditModels` and `QuickEdit`.** JavaScript runs a handler to its end and
Backbone calls listeners inside `set()`, so a step is one task of the event
loop, and `QuickEditModels` has an operator for each call, from the page before
to the page after it: `SetField` and `SetEntity` validate and then notify,
`EnterField` and `EnterEntity` are the listeners in the order they were added.
`page.deferred` is the queue of `_.defer()`, run in order; `page.requests` the
requests that are out, answered in any order. The server is the `PrivateTempStore`
copy: `copied` says whether it exists, `held` which fields it has. `trouble`,
chosen at the start and fixed, is what may go wrong: a hasty user acts while
something is pending, values are refused, requests fail (the server may have handled
a form or a field all the same), or the answer to the save of an entity is lost after the server has
saved and deleted its copy.

**`Ajax`.** A thing has a name, and every time its markup is put on the page
it is another copy of it, with objects of its own; that is what tells a late
answer's element from the one in its place. The commands of an answer are one
`insert` (or a `remove`) and `settings`, then the form is attached as `success()` does.
`Success`, `Error`, `Unverified` (the answer is refused, and `error()` throws out
of jQuery's `done()`) and `CommandThrows` are the ways a request ends. All
behaviours but AJAX itself are one, attached, detached or serialized. `trouble`
is fixed: settings with the same id, answers not verified, commands that throw,
answers without the wrapper of others.

**`TableDrag`.** `table` is what is shown, `fields` what will be submitted.
`rowObject` keeps its group, the height of its tree and its interval from the
time they were computed, as the code does. A pointer has a place and a direction,
which the code finds by comparing coordinates that are not those of the press
at the first move (`Direction`). One press is one event. `DragOver` is
`findDropTargetRow()` with `isValidSwap()` and the swap, `KeyUp` and `KeyDown` the
arrow keys, `Dropped` all that `dropRow()` does to fields: parent by `match`,
depth for the group, weights by `order` in a select. Fixed `settings` say which
rows are fixed, leaves and roots, and the limit. Rows have one height and are all
visible.

## 3. Abstract specifications

- `LeaseLock` says that a free lease may be granted, only its owner renews it,
  it is taken away only after it ran out, and a request is told it lost it only
  if it did. `DatabaseLock!LeaseSpec` maps rows to leases and `$this->locks` to
  what was granted. TLC checks it and `Refinement` proves it.
- `NestedTransactions` has scopes that open and end (`live`), changes that
  belong to the scopes open when they were made (`around`), and one end at which
  the remaining changes are saved together. `Transactions!PromiseSpec` maps
  layers to scopes, and a row that the server has pending to the scopes whose
  savepoint is at or below the level that holds it (`ScopesAt`). TLC checks it
  and `PromiseKept` proves it.

## 4. Runs, bounds and fairness

Runs that are expected to pass:

| Run | Instance | Shows |
|---|---|---|
| `lock_safety` | 3 requests, 1 name, lifetimes 1 and 2, clock to 3 | `LeaseExclusive`, `RecordBacked`, `NoRowAfterShutdown`, `RenewalTruthful`, crashes and a missing table included; `LeaseSpec`: the table implements the leases |
| `lock_liveness` | 2 requests, waits of 1 and 2 polls, clock to 3 | `CallsReturn`, `AbandonedLockBroken` under `FairSpec` |
| `persistent_lock` | 3 requests, fixed lock id | `KeptUntilReleased`: the step that removes an unexpired lock is `Release` of its name, never the end of a request or a stale DELETE |
| `cron` | 2 slots for runs, 1 item, crashes, clock to 4; workers that end within their lease, and workers that overstay it | within the lease `ClaimExclusive` and `DelayHonoured`; in both cases `NoItemLost`; `LoopsEnd` under `FairSpec`, for workers that may overstay |
| `transactions_promise` | 3 objects destroyed in any order, one given name, 3 rows, 1 callback, commits may fail | `StackMatches`, `NothingOpenAtEnd`, `PromiseSpec` |
| `transactions_ddl` | 3 objects destroyed in order, DDL | `CleanAfterDdl`: all is cleaned up unless a rollback was refused |
| `cache_tags` | 2 requests, 2 tags on one item, 2 calls of `invalidateTags()`, rollbacks, requests that die | `StaleNeverServed`, `UncommittedNeverServed`, while a request does not repeat an invalidation |
| `chained_fast` | 2 requests on 2 nodes, one item, 2 writes and any number of deletions, 3 ms, crashes | `UpToDateUnlessOverlapped` |
| `quick_edit` | 1 entity with a form field and a filtered text field, 1 callback and 2 requests pending when the user acts; no trouble, failures with refused values, the same with lost answers to saves, haste with refused values | `OneCommit`, `NothingThrown` in all four; `CopyExists` unless answers to saves are lost; `OneActiveField`, `QuietWhenClosed`, `NothingUnsaved`, and `TransitionsEnd` under `FairSpec`, without trouble |
| `ajax` | a form with a button that replaces it, in it a wrapper with a button that replaces that, a link outside that replaces it too; 3 copies of each | `OneRequest`, `NothingLeftBehind`, `BehavioursAttached`, `BoundOnce` |
| `table_drag` | 4 rows in every tree, moved without end; a free table, one with a leaf and a root row, one with limit 1 and a fixed first row | `TreeShown` in all three (allowed depths; a tree and an unchanged group where there is no limit); `FieldsMatch` where there is no limit and no fixed row |

Every module's type invariant is checked in the first of its runs. The type
invariant of `CacheTags` also says that no static count is ahead of the table,
that of `ChainedFast` that no timestamp is more than a millisecond ahead of
every clock; that of `QuickEdit` that no form outlives its editor, that of
`Ajax` that `once()` binds once, that of `TableDrag` that no row is lost or doubled.
Invariants that are claimed only for some of the fixed settings of a run
(`overstay`, `trouble`, `settings`) say so in their first conjunct.

**Why the bounds are enough.** Requests and run slots are symmetric and the
services know no numbers of them: a conflict has a holder, one that breaks the
lock and one that takes it, hence three requests for the lock; the other modules
need two, and a slot is used again by new requests. Lock names do not interact
except in the record of a request, which `releaseAll()` treats as a whole; the
proofs cover any number of them. The clock runs far enough to outlive one lifetime and
a renewal of it. Three Transaction objects are the least with a layer that
is neither outermost nor innermost. Two tags are the least with one known and
one unknown count. Three milliseconds are the least with a fill, a later
write and an access after it. Two fields are the least for a hop from one to another
and for a save that waits for both; the two editors differ in when they load.
Three copies are one that is replaced under a request, the one that replaces it,
and one more made by the late answer; three elements are the two ways of being
inside a replaced part and one outside of it. Four rows are the least with a
group of two that passes a parent with its child. `MaxStart`, `MaxTime`, `MaxItems`, `MaxDepth`,
`MaxCalls`, `MaxWrites`, `MaxDeferred`, `MaxRequests` and `MaxCopies` are bounds of the models, not of the code, and occur
only in guards (`MaxItems` and `MaxWrites` also as the ranges of ids).

**Deadlock.** The runs of `DatabaseLock` and `Cron` say
`CHECK_DEADLOCK FALSE`: the clock has reached its bound, and all requests have
ended or no run may start any more. So does the run of `Transactions` with
DDL, where layers left behind fill the stack up to `MaxDepth`. So do `QuickEdit`,
as a page may be reloaded and done with, and `Ajax`, where all copies may have been made.
All other runs check for deadlock.

**Symmetry** is used for requests, run slots, objects, rows and tags in runs
without liveness properties. `ChainedFast` has none, as requests are bound to
nodes.

**Fairness.** `FairSpec` assumes that time goes on and that a request or run in
the middle of a call goes on executing it (`WF` of `Tick` and of `Step(p)`): PHP
runs every process until it ends. A crash ends the assumption, because no step
is enabled any more. Nobody is obliged to make a call, so
`AbandonedLockBroken` supposes that somebody asks for the lock again and again,
and nothing is assumed of how a queue worker ends, so `LoopsEnd` holds
even if every item is requeued for ever. It does not say that `claimItem()` gives up: its
`while (TRUE)` (`Queue/DatabaseQueue.php:121`) looks at no clock, so `LoopsEnd` has the exception that
others snatch for ever the item a run has selected (`Snatched`). In the instance no run
starts after `MaxStart`, so in the end nobody snatches and the exception does not occur:
what the run shows is that requeuing alone keeps no loop going. `QuickEdit!FairSpec` assumes that the browser
runs deferred callbacks and that every request gets an answer, or a failure; it
writes weak fairness out, as a callback can run whenever one is deferred and
evaluating ENABLED of such large operators is slow. The user is obliged to nothing.
`Ajax` needs no liveness: that a request is over exactly when the object accepts the
next one is an invariant. The other modules state no liveness.

## 5. Where the code departs from what it says

One run checks a property that the repository states and finds it violated;
`PROJECT.json` quotes the text. `cron_lease_time` checks `ExclusiveForCronTime`:
by `Cron.php:179` `isset(...) ?: NULL` is TRUE, so every item is leased for one
second, whatever the queue's `time`, and two runs work on one item.

The other departures were found with the same modules. They have no run of
their own; each is had by changing a configuration as said and checking the one
property:

| Change | Property | What happens |
|---|---|---|
| `MCTransactions.cfg` with `RollBackAny = TRUE` | `InTransactionTruthful` | `Connection.php:1481`: rolling back an outer transaction stops at a layer whose value is FALSE, as it waited to be committed. `inTransaction()` stays TRUE with no transaction open. |
| `MCCacheTags.cfg` with one request, one tag (`ItemTags` too), `Repeats = TRUE` | `StaleNeverServed` | `CacheTagsChecksumTrait.php:47`: a rollback cancels the delayed invalidations but not the memory of them: the same tags cannot be invalidated again in that request. |
| `MCPersistentLock.cfg`, two requests, `MaxTime = 4` | `RenewalTruthful` | A request renews, with success, a lock that another request acquired meanwhile: all share one lock id (`LockBackendInterface.php:42` says a failure to renew tells of that). |
| `MCPersistentLock.cfg` | `LeaseExclusive` | By the same id a request that never had the lock, or has lost it, releases the lock of another, and a third acquires it while the second still counts on it. |
| `MCCron.cfg`, without `~overstay =>` | `ClaimExclusive`, `DelayHonoured` | `Queue/DatabaseQueue.php:158-213`: a consumer whose lease ran out releases, delays or deletes by item id, and so resets the claim, or the delay, of the one that has the item by now. |
| `MCDatabaseLock.cfg` | `NoFailureOnRace` | Two requests find `semaphore` missing. One that asks whether the table exists after the other has created it gets the exception it should have been spared (`DatabaseLockBackend.php:92`, `186`). |
| `MCTransactionsDdl.cfg` | `NothingOpenAtEnd` | A rollback after DDL is refused with a warning (`mysql/Connection.php:448`), its object counts as rolled back, and its layer stays on the stack for the rest of the request. |
| `MCCacheTags.cfg` with `Repeats = TRUE`, `Rollbacks = FALSE`, one tag (`ItemTags` too), `MaxCalls = 3` | `StaleNeverServed` | A second invalidation of a tag is dropped, although another request has stored an item since the first. |
| `MCCacheTags.cfg` with three requests, `Rollbacks = FALSE`, `Apcu = {}` | `KnownInvalidationsCount` | A checksum is a sum. An old count of one tag and a new count of another add up to that of an invalidated item. |
| `MCCacheTags.cfg` with one tag (`ItemTags` too) | `InvalidatedBeforeCommit` | Invalidations are carried out after the commit (`CacheTagsChecksumTrait.php:36`), not before it (`CacheTagsChecksumInterface.php:28`). In between old items are accepted, forever if the request dies there. |
| `MCChainedFast.cfg` | `UpToDate` | A value on its way to the fast bin arrives after another request's change and timestamp, and stays. |
| `MCChainedFast.cfg` with `Ahead <- OneLate` | `UpToDateUnlessOverlapped` | An item of a node whose clock is ahead outlives a `deleteAll()` of another node. |
| `MCChainedFast.cfg` with `Delays = TRUE` | `StampAdvances` | A request that read the clock earlier writes its timestamp later: the timestamp goes back. |
| `MCQuickEdit.cfg` with `Revisits = TRUE`, `Troubles <- NoTroubles`, fields `FormAndPlain` | `CopyExists` | `EntityModel.es6.js:521`: after a save the two `set()` calls that should clear what was kept come while `isCommitting` refuses every `set()`. Edited again without a change and saved, the entity is committed with no copy on the server (`QuickEditController.php:341` relies on one). |
| `MCQuickEdit.cfg` with `PageOrder <- TwoEntities`, `FieldsOf <- FieldsOfBoth` | `CopyExists`, `OneActiveField`, `QuietWhenClosed`, `TransitionsEnd` | The default `fieldsInTempStore: []` is one array that all entities share, so one entity takes the other's fields for saved. |
| The same with `OtherModes` giving `g` the instance `f1` in another view mode | `NothingThrown` | `AppView.es6.js:520`: "this field is not being actively edited and hence no state changes are necessary". But an instance in an entity that is being edited is a `candidate`, and `destroy()` throws (`FieldModel.es6.js:139`): the new HTML is not shown. |
| `MCQuickEdit.cfg`, without `"lost" \notin trouble =>` | `CopyExists` | `QuickEditController.php:343-344` saves the copy, then deletes it. If the answer is lost after that, `EntityModel.es6.js:440-458` opens the entity again for the user to "try again"; the next save finds no copy and calls `save()` on NULL. |
| `MCQuickEdit.cfg` with `Troubles` the one set `{"hasty", "invalid", "failure"}` | `CopyExists` | `util.es6.js:140`: a form that fails to load takes whichever field is active by then to `candidate`. |
| `MCQuickEdit.cfg`, without `trouble = {} =>` | `OneActiveField`, `QuietWhenClosed`, `NothingUnsaved`, `TransitionsEnd` | Answers that come after a hasty user moved on, or failures, leave an entity in between states, or a field active in a closed entity. |
| `MCAjax.cfg` with `Troubles <- NoWrapper`, `MaxCopies = 2` | `UnloadedOnlyWhenRemoved` | `ajax.es6.js:1248`: the wrapper of a late answer is gone, `detachBehaviors(undefined)` means the document (`drupal.es6.js:216`): the behaviours of the whole page are unloaded and stay so (`drupal.es6.js:194`: "the context element is being removed"). |
| `MCAjax.cfg`, last part of `OneRequest` without its condition | `OneRequest` | `ajax.es6.js:551`: `error()` throws out of the success handler, jQuery never calls `complete()`, and `ajaxing` stays TRUE: the element ignores every later event. The same if a command throws. |
| `MCAjax.cfg`, without the condition on `"same id"` | `NothingLeftBehind` | Objects whose settings have the same id share one `progress` object, so one removes the other's indicator and its own stays. |
| `MCTableDrag.cfg` with `Fast = TRUE` | `TreeShown`, `FieldsMatch` | `tabledrag.es6.js:759`: the first move of a pointer counts as one up although it goes down. The interval is computed with the moving row as its own predecessor, and the first row of the table can be indented (line 1473: "do not indent the first row in the table"). |
| `MCTableDrag.cfg`, without `settings.limit = 0` | `FieldsMatch`, `TreeShown` | `tabledrag.es6.js:579`, `634`: keys swap rows without `isValidSwap()`. With a limit the interval may be empty, the next row is adopted by the moved one (line 1463: "do not orphan the next row"), and its parent field keeps the old value. Nor is such a table always a tree: with limit 2, rows `a` 0, `p` 1, `q` 2, `d` 0, `e` 1, `g` 2, `f` 1 and a leaf `f`, the key "up" on `d` puts `q`, at depth 2, after the leaf `f`, at depth 1. A group that changed its rows shows already in four rows, this in seven. |
| `MCTableDrag.cfg`, without `settings.fixed = {}` | `FieldsMatch` | `tabledrag.es6.js:1070`: if the first row is not draggable, no sibling at the root is found, jQuery searches the document, and a row moved to the root gets the parent of the first field on the page. |
| `MCTableDrag.cfg` with `BothAtOnce = TRUE` | `TreeShown`, `FieldsMatch` | Arrow keys act on the row that a pointer is dragging. |

These determine what the passing runs may assume, and it is said there: workers
end within their lease (`Overstays`), no refused rollback (`warned`), innermost
objects are rolled back first (`RollBackAny`), no repeated invalidation
(`Repeats`), clocks in step (`Ahead`), no overlapping write (`met`), time does
not pass between reading the clock and writing the timestamp (`Delays`), an entity
is not edited again after it was saved (`Revisits`), one entity on the page and one view mode of each field (`PageOrder`, `OtherModes`), the troubles of a page, no lost answer to a save (`"lost"`), a pointer
that reports every row it passes (`Fast`), no keys during a drag (`BothAtOnce`).
`Repeats` matters to both invariants: an invalidation dropped in a transaction
is not delayed either, so an item stored in that transaction may be accepted
before the commit.

## 6. Proofs

Eight components have theorems, each in a module `*_proofs` of its own. They hold
for all values of the constants: any sets of requests, runs, objects, rows,
tags, nodes, elements, any bounds. They rest only on the named assumptions that
the models declare and TLC evaluates, which say of what type the constants are
and little else (`TimeoutsAssumption`, `BoundsAssumption`, `IdsAssumption`,
`MaxItemsAssumption`, `QueueAssumption`, `CronAssumption`, `SwitchesAssumption`,
`GivenAssumption`, the `ParametersAssumption` of `CacheTags` and of `ChainedFast`,
the `PageAssumption` of `QuickEditModels` and of `Ajax`, `UserAssumption`, the `RowsAssumption` of `TableDrag`). Where a theorem is about
one setting of a switch (`~Overstays`, `~Repeats`, ...) or one shape of page the setting is a
hypothesis of the theorem, never an assumption of the model; section 5 shows
that without it the property fails (for `OneMode`, see `QuickEdit` below).

Every proof has the same form. `Init` gives the invariant; one lemma per action,
or per step of a call, shows that it is kept, from the fields and elements
that the action changes; the theorem joins them (`PTL`).

| Module | Theorem | States | Under |
|---|---|---|---|
| `DatabaseLock_proofs` | `TypeCorrect` | `[]TypeOK` | both backends |
| | `RecordsAreBacked` | `[]RecordBacked` | default backend |
| | `MutualExclusion` | `[]LeaseExclusive` | default backend |
| | `NothingLeaks` | `[]NoRowAfterShutdown` | default backend |
| | `RenewalsAreTruthful` | `RenewalTruthful` | default backend |
| | `OnlyReleaseEnds` | `KeptUntilReleased` | persistent backend |
| | `Refinement` | `LeaseSpec` | default backend |
| `Cron_proofs` | `TypeCorrect` | `[]TypeOK` | |
| | `NothingLost` | `[]NoItemLost` | |
| | `ClaimsExclusive` | `[]ClaimExclusive` | |
| | `DelaysHonoured` | `[]DelayHonoured` | |
| `Transactions_proofs` | `TypeCorrect` | `[]TypeOK` | |
| | `StacksMatch` | `[]StackMatches` | |
| | `NothingLeftOpen` | `[]NothingOpenAtEnd` | no DDL, innermost scope rolled back first |
| | `DdlLeavesNothingOpen` | `[]CleanAfterDdl` | innermost first; with DDL, objects destroyed in order |
| | `InTransactionTells` | `inTransaction()` is TRUE exactly while a transaction is open | no DDL, innermost first |
| | `PromiseKept` | `PromiseSpec` | no DDL, innermost first |
| `CacheTags_proofs` | `TypeCorrect` | `[]TypeOK` | |
| | `StaleItemsRefused` | `[]StaleNeverServed` | no repeated invalidation |
| | `UncommittedRefused` | `[]UncommittedNeverServed` | no repeated invalidation |
| `ChainedFast_proofs` | `TypeCorrect` | `[]TypeOK` | |
| | `Guarantee` | `[]UpToDateUnlessOverlapped` | clocks in step, no delay before the write of a timestamp |
| | `StampsAdvance` | the timestamp never goes back | the same |
| `QuickEdit_proofs` | `TypeCorrect` | `[]TypeOK` | |
| | `OneCommitAtATime` | `[]OneCommit` | |
| | `OneSaveAtATime` | at most one request saves a field, and it is `saving` meanwhile | |
| | `FormsAreThere` | no form is saved that is not on the page | |
| | `NothingIsThrown` | `[]NothingThrown` | each field in one view mode |
| | `OneFieldIsActive` | `[]OneActiveField` | one entity, each field in one view mode, no revisits |
| | `ClosedIsQuiet` | `[]QuietWhenClosed` | the same |
| | `AllIsSent` | `[]NothingUnsaved` | the same |
| | `CopyIsSaved` | `[](trouble = {} => CopyExists)` | the same |
| `Ajax_proofs` | `TypeCorrect` | `[]TypeOK` | |
| | `OneRequestAtATime` | `[]OneRequest` | |
| | `NothingLeft` | `[]NothingLeftBehind` | |
| | `FormsAttached` | `[]BehavioursAttached` | |
| | `ElementsBound` | `[]BoundOnce` | |
| `TableDrag_proofs` | `TypeCorrect` | `[]TypeOK` | |
| | `DepthsAlwaysAllowed` | the first part of `TreeShown` | |
| | `TreeAlwaysShown` | `[]TreeShown` | a pointer passes one row at a time, no keys during a drag |
| | `FieldsAlwaysMatch` | `[]FieldsMatch` | the same |

`InTransactionTells`, `StampsAdvance`, `OneSaveAtATime` and `FormsAreThere` state what no passing run checks
as a property; section 5 has what their hypotheses exclude. Conditions
that a property itself begins with (`overstay`, `trouble`, `warned`) are not repeated here.
`CopyIsSaved` says less than the run checks: `CopyExists` has a condition on `"lost"` only, and the run
finds it true with failures and refused values and with haste and refused values, but with these three together it is
false (section 5).

**`DatabaseLock`.** `TypeCorrect` is about both backends, `OnlyReleaseEnds` about the persistent
one. The others are about the default backend; for the persistent one, where every
request has the same lock id, they are false, or empty in the case of `NothingLeaks`. `TypeOK` is not inductive alone: a
`wait()` counts its polls down, and only `FramesOK` says that one is left when it
sleeps. `LeaseExclusive` says nothing about a request that is in the middle of
breaking a lock. What carries it is `RecordBacked`: as long as a granted lifetime
runs, the row bears the holder's id, and a row bears one id. That
survives the conditional DELETE of a stale reader for two reasons:
`expire` never exceeds what was read when the DELETE hits, and that had
passed already; and a row with the reader's value belongs to a request whose
record has the same `expire`, so it holds nothing any more. For this rows must
not end at time 0, which stands for "no lock" in the record, and a finished
request must hold nothing:

    Inv == TypeOK /\ FramesOK /\ RowsOK /\ FinishedForgets /\ RecordBacked

The refinement adds `LifetimesOK`, that no lifetime ends later than `MaxTimeout`
from now, and maps each action to one of `LeaseLock` or to a stutter
(`StepRefines`, `CallRefines`); the conditional DELETE must be a `Reclaim`: the
row it hits has run out.

`OnlyReleaseEnds` needs only `TypeOK`: the persistent backend has no shutdown function, so the
end of a request deletes nothing; the conditional DELETE of a stale reader asks
that `expire` has not grown since it was read, and that time had passed already. What
remains is a step of `Release`, and of the same name, as it touches one row.

**`Cron`.** `CronInv == TypeOK /\ RowsOK /\ RunsOK /\ LeasesOK /\ NoItemLost`.
`RowsOK` and `RunsOK` tie what a run remembers of its item to the table: the
item was created, what it read is not in the future, an item that is being deleted was
processed, a deleted row has no lease. `LeasesOK` strengthens
`ClaimExclusive`: while a run's lease lasts, the row's `expire` is the lease of that
run and no delay is pending, so the UPDATE of another run, whose condition is
`expire = 0`, and garbage collection, which works with the time its request began, miss it;
and while a delay lasts, `expire` is not before it.

**`Transactions`.** The invariant is `TypeInv /\ ScopesInv`. `TypeInv` has `Matches`: if the
server has a transaction, its first level has the name of the first layer, every layer has a
level, and levels come in the order of the layers. It is enough for `StackMatches`, in whatever
order objects end, as a layer that ends out of order stays and waits. `ScopesInv` is needed
for the rest: no layer waits and the objects that are scopes have the layers, one each and in
order (`ScopesMatch`). It holds if only the innermost scope is rolled back (`Orderly`), and
with DDL as long as no rollback was refused. Without the hypothesis it is
false, and so are the theorems that rest on it (section 5).

The refinement maps objects that were not rolled back to scopes. A row written at
level `l` belongs to the scopes whose savepoint is at or below `l`. The lemmas
follow what one call does to that mapping: a new savepoint moves no row
(`SavepointKeepsPending`), a savepoint that is released hands its rows down and they
stay within the same scopes but for the one that ended (`MergeKeepsPending`),
a rollback removes exactly the rows within the scope (`RollBackForgets`). `PromisedBegin` and
`PromisedClose` put them together, and each action implements one of
`NestedTransactions` or a stutter.

**`CacheTags`.** `HistoryInv == TypeInv /\ ItemsOK /\ ChangesWait`. A checksum is
a sum of counts, which does not tell which counts. So `ItemsOK` says that some
counts (`Base`) add up to the item's checksum, none above the table's, those of tags that an
invalidation reached below what these had then, and for a request that began after that none
above what it sees, one of them below. If one of them has grown, so has the sum. That a sum over a set is monotone, and grows when one count does, is proved
by well-founded induction along the way the fold of the community modules
takes the set apart (`FoldInduction`). `ChangesWait` says that a tag
with uncommitted changes has its invalidation delayed, so the request stores items
with an invalid checksum; an item by a request with such changes is one of those.

**`ChainedFast`.** `GuaranteeInv == TypeInv /\ StampsOK /\ CreatedOK /\ PendingOK /\
SingleValues /\ UpToDateUnlessOverlapped`. A timestamp is rounded up, so it is at most
a millisecond ahead of the clock, and one that is ahead was written in this millisecond
(`StampsOK`); an item's `created` is at most the clock of its node (`CreatedOK`); a value on
its way into a fast bin is what the consistent bin has, or its operation has met a
write (`PendingOK`). With clocks in step, what was stored before a change is then
not newer than the timestamp written after it.

**`QuickEdit`.** A handler is an operator from a page to a page, and some fold other operators
over all fields of an entity, so the invariant is a set of pages, `Good(X)`, and every operator has
a lemma that says when it leads from `Good` to `Good`. For the folds that is induction over the
sequence; the induction theorems of the library cannot be instantiated here, so `FoldExists` and
`FoldStays` derive it from well-foundedness for a function, and each operator that is folded
has its instance (`SetupFold`, ...). `Good` has, besides the types: a form is on the page only
for a form editor that is set up, and is there as long as its field has a value that is not saved
(`FormsKept`, `FormsThere`); one request at most saves a field, which is `saving` (`SavesOK`); an
entity is marked as committing exactly while one request saves it (`CommitsOK`).

    Inv == page \in Good({}) /\ ServerOK

`X` are the fields that are just being replaced. Such a field is taken to `inactive` even while it
is saving, and only then is its old model's request made void (`ReplaceGood`, `RenderFieldGood`).
`SavesOK` is kept because a field leaves `saving` for `saved` or `invalid` only (`SavingWaits`),
which only the answer to its own request sets; because `closing` asks that all fields be
ready; and because a submission is sent in the step in which the hidden form arrives. `FormsThere`
is kept because only a loaded form can be typed into, and an answer that comes after its
form was removed finds no place (`OrphanLoads`, `FormGood`).

The last four theorems are about the order of things on a page with one entity (`OneEntity`: any
number of fields, editors of any kind), whose fields have one view mode each (`OneMode`), with a user
who does not edit a saved field again (`~Revisits`). No `trouble` has happened: requests succeed
and the user waits for them. Then it can be stated what is left to come:

    IInv == Inv /\ (trouble = {} => Orderly(page, copied))
    Orderly(p, C) == Fits(p) /\ Phase(p) /\ Copied(p, C) /\ Asked(p)

`Fits`: a field that is `activating`, `saving` or `saved` waits for exactly one deferred callback or one
answer, and it says which (`Waits`); other fields wait for nothing, except that one at
rest may still have to be replaced; the field that is edited is the application's active field,
and one at rest has no form and no typed value (`Sits`). `Once`: no field has two callbacks in the queue. `Phase` says
for each state of the entity where its fields may be and which of its own callbacks can be in the
queue. `OneActiveField` is in `Sits`, `QuietWhenClosed` in the phases `Closed` and `Launching`.

The hard phases are these. While the entity is `opened`, a field left for
another one may be saving or be replaced, but then another one is active (`Settles`). So the
answer to the last save finds all fields ready, or finds another field active, which decides whether
it is followed by a save of the entity. While it is `committing`, it is marked as such exactly if all fields are
ready, so the request that saves it was sent when no value was left on the page, which
is `NothingUnsaved`. While it is `deactivating`, fields that must be replaced come in the queue before what closes the entity
(`Ordered`): a field is never replaced after its entity was closed. And a callback to an entity
that is closed already changes nothing. `Copied` adds that the server has a copy once a field was kept or, while the entity is
committing, that a field is still being saved and will make one. That is `CopyExists`, and it needs
that what is kept is cleared only with the entity (`Clean`), which fails for a field that is edited again.

There is a lemma for each operator on a page, then for each answer, callback and step of the user;
`NextOrderly` joins them. A step that is taken with `trouble # {}`, or that is the trouble, has
nothing to keep. `OneEntity` and `~Revisits` cannot be dropped (section 5). With several
view modes a rerendered instance is taken back whatever state it is in, so `Fits` is false. TLC
finds the four properties true all the same on one such page (one entity, two form
editors that are views of one field, no troubles), so the hypothesis may be needed by this proof only.

**`Ajax`.** `PageOK(p) == p \in PageType /\ ObjectsOK(p) /\ RequestsOK(p) /\ BehavioursOK(p)` is
a predicate of a page, as each handler is a composition of operators on pages: every operator
(insert, remove, attach, detach, a request that is over) has a lemma that says what it
keeps, and a handler's proof follows the order of its calls. `ObjectsOK` says that
elements have one object each, with a number of its own, and that wrappers stay where they were;
`RequestsOK` that an object has one request out exactly while it is `ajaxing`, and its
indicator only then; `BehavioursOK` that every part of the document is attached, or
serialized while an object of its form has a request out.

**`TableDrag`.** During a move the table is a group `g` put into the other rows `os` after the
`k`-th of them (`Insert`, `Holds`); no event changes `os`, its depths or `g`, only `k` and how far
`g` is indented. `MoveOK`, which holds with whatever events: the group is where it is and deeper
than its first row, no depth is forbidden, the height and the kept interval leave room
for that. `Placed` is about tables without a limit: `os` is a tree of its own (`Nested`), so is `g` (`Steps`), the
depth of `g` is between that of the row after it and what the row before it allows (`Lo`, `Hi`),
and an interval that is kept is exactly `Lo..Hi` (`Known`). That makes the stale interval right:
`LoBelowHi` says it is never empty where `os` is a tree. It needs a pointer that is
`Near` the group, as then it meets only neighbours of the group (`NearOver`); a root row is
placed as long as the next row is at the root. `TreeParts` and `TreeAgain` lead from a tree to
`Placed` and back, `GroupAgain` shows that the group is still what `findChildren()` would find.
Without the hypotheses the second part of `TreeShown` fails (section 5), not the first.

`FieldsMatch` is about the end of a move, and a drop writes few fields: the parent of the first row of
the group and the weights of its siblings. So the invariant remembers, while a move goes on, the table
`u` at which it began: the fields say what `u` shows, and the table is `u` with the group carried elsewhere
(`Began`, `Carried`). Then wherever it goes only its first row gets another parent (`SameParents`), and the
row from which a drop at the root copies the parent is at the root (`RootIs`). In a tree the rows that
`findSiblings()` finds are those with the same parent (`SiblingsAre`), in whatever direction it
searches, so their new weights count up (`CountsGrow`), and rows that got no new weight keep their order
(`SiblingsKeep`). A drop that changes nothing writes nothing, and rightly: then the table is `u`.

**Only model-checked.** `CopyExists` with a trouble, as far as it is true. The four properties of
`QuickEdit` on a page with one entity that shows a field in several view modes: `MCQuickEdit.cfg` has
no such page, they were checked on the small one named above. Liveness (`CallsReturn`, `AbandonedLockBroken`, `LoopsEnd`, `TransitionsEnd`), which the
prover does not reach (nor `ENABLED`). No module declares a recursive
operator.

## 7. Not modelled, and why

- The length of the sleeps in `wait()` (25 ms growing to 500): only that their number is bounded.
- Float times and rounding below a millisecond.
- `deleteQueue()`, the deletion of old batch items, the creation of the queue
  table (the race is that of the lock table), the in-memory queues.
- The transactions of PostgreSQL and SQLite, and connections to replicas.
- The moment at which a cached item's data was read: the API has no call for
  it, so an invalidation between reading and `set()` is lost without the code
  being able to tell.
- Expiry, garbage collection and bin creation of cache backends; rendering, the
  entity and field system, forms, sessions, plugins, the kernel, schema and
  query builders: sequential processing of data within one request, whose
  concurrency is that of the services above.
- The modules, contributed code and themes. Of the scripts: everything but
  the three modelled; most compute what is shown from the fields and keep no state.
- Quick Edit: toolbars, the metadata and attachments loaded with the page, the image
  editor. The two editors whose loads are modelled are the form and the formatted text.
- Ajax: form submissions vetoed by others, `settings` commands that do not merge, objects
  without an element, focus, form build ids, and commands that change no element. A request that ends with status `timeout` or
  `abort`, for which `complete()` does not call `error()` (`ajax.es6.js:559`): the repository sets no timeout,
  and aborts only a request of its own in `machine-name.es6.js`, not one of an Ajax object. The
  timer by which a progress bar asks the server runs while the bar is in `shown`.
- Table drag: tables without indentation, hidden rows, scrolling, stripes, and
  selects with fewer weights than siblings. A press that the browser reports as several events.
- What goes wrong by design of an interface, without a property: the two requests
  that find `semaphore` missing, the invalidations after the commit, the timestamp that
  goes back (section 5), a request that dies between its change to a bin and the timestamp.
- Time is a single clock for all requests except in `ChainedFast`.

## 8. Plan

Next modules, most important first:

1. `TempStore`: `SharedTempStore` over `DatabaseStorageExpirable`, composed with
   `LeaseLock`: who owns an item under concurrent `setIfNotExists`
   (has, then set), `setIfOwner` and `deleteIfOwner` (owner asked before the lock
   is taken), expiry of the item and of the lock. An abstract specification of
   ownership; runs with two users and one key.
2. `CacheCollector`: load, merge and write back under the lock, with the rules
   for an item another request changed; the property that no key set by a
   request is overwritten with an older value.
3. `Rebuild`: `RouteBuilder` with `LeaseLock` and the transaction around the dump;
   the property that a request that waited finds a router no older than its
   request to rebuild; liveness of the waiting requests.
4. `Batch`: `batch.inc` with `BatchStorage` and `Queue/Batch`: operations
   worked off over requests that die or are repeated; at-least-once, order,
   progress; then `ConfigImporter` on top of it with the persistent lock.
5. `Flood` and `State`, small modules about check-then-act and collected caches.
6. `BigPipe` on top of `Ajax`: placeholders replaced while the document still loads.

Next theorems: in `QuickEdit`, the order of things on a page with several view modes, and with two
entities if each had an array of its own; in the modules above, what they promise.
