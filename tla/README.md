# Verification of easystore-services

TLA+ models of the store's backend (NestJS with CQRS, GraphQL, Prisma on
PostgreSQL, Redis, Kafka), model-checked with TLC and partly proved with TLAPS.
Everything here is written from the code under `src/src`; paths below are
relative to it.

1. [The system](#1-the-system)
2. [What is modelled, and how it corresponds to the code](#2-what-is-modelled)
3. [The runs, and what they show](#3-the-runs)
4. [The proofs](#4-the-proofs)
5. [What the code does differently from what it says](#5-findings)
6. [What is not modelled](#6-what-is-not-modelled)

## 1. The system

A GraphQL mutation reaches a resolver, which sends a command on the CQRS bus. Its
handler loads an aggregate through a repository, edits it in memory, and saves it
through the repository, which writes the rows of the aggregate in one Prisma
transaction (PostgreSQL, READ COMMITTED). Domain events are published in the
process once the save has returned. Node runs one handler at a time between two
`await`s, and several processes may run: **between the load and the save any other
command may run, and between two statements of a transaction any other statement.**

Two patterns carry most of the hazards.

* *Save the whole aggregate.* Repositories do not write what a command changed
  but make the tables equal to the aggregate, which was loaded before the
  transaction and may be stale. Rows that the aggregate does not know are
  deleted (cart items, subcategories, variants), and rows it does know are
  written back (stock, identities).
* *Find, then write.* Uniqueness and existence are looked up and relied on some
  statements later; what protects them, if anything, is a row lock taken for
  another reason, or a foreign key.

| Component | State | Operations | Hard behaviour | Correct when |
| --- | --- | --- | --- | --- |
| Inventory (`domains/inventory`) | rows of `Warehouse`, `StockPerWarehouse` (unique per warehouse and variant, soft-deleted), `StockMovement` (journal) | create, update, delete of warehouses and of stock | stale aggregates written back row by row; a second path (`updateSingleStock`) that takes other locks; cascade and restrict; deadlock of the two paths; validation inside the transaction | one row per variant, no orphans, the journal explains the quantities, a rename changes no stock, a deleted warehouse stays deleted |
| Category (`domains/category`) | `Category` rows with `parentId` (ON DELETE SET NULL) | create with subcategories, update with parent and subcategories, delete with subcategories | subcategories missing from a stale aggregate are deleted, recursively; the depth limit in two formulas; checks before and after the writes; result mapped after the commit | the rows form a forest no deeper than the limit, a command edits it where it says, a failure changes nothing |
| Cart (`domains/cart`) | `Cart`, `CartItem` (no unique key) | create, add item, set quantity, remove one, remove many | diff against a stale aggregate of one page; variants deleted meanwhile | one row per variant, no item without its variant, an edit changes what it names, a save is one aggregate |
| Circuit breaker (`infrastructure/redis/circuit-breaker.ts`) | state, failure count, timer | `execute`, the timer's callback | calls in flight across state changes | the timer is armed exactly while open; recovers; late answers do no harm |
| Product (`domains/product`) | a product with its variants and their children, its categories; isArchived of both | create, update, soft delete, restore, hard delete; archive, restore, remove of a variant | variants missing from a stale aggregate are deleted, and by cascade cart items; orders and movements restrict; what exists is read before the lock is taken | no reference dangles, nothing committed under the lock is undone, an edit does what it names, the listing agrees with the page |
| Authentication (`domains/authentication`) | identities with failure count and lock; in-memory token blacklist and reset limiter | register, sign in, sign out, forgot and update password, the hourly job | bcrypt between read and write; whole-row writes; the expiry of the lock; process-local state | lock and count agree, the mail limit holds, a command nobody overtook does what it promises |
| Tenant, Address (`domains/tenant`, `domains/address`) | one row per tenant; addresses, unique by name | creation by event, update; create, update, delete | creation by an event after the registration was answered; a warehouse comes to an address being deleted | a tenant is missing only for a reason; a warehouse keeps its address |
| Redis cache, invalidation (`infrastructure/redis`) | an entry with a time to live, subscribers | get, set, invalidate, invalidatePattern | refills race deletions; errors are swallowed; a command given up may still run | the cache is fresh in the end |
| Kafka (`infrastructure/microservices/kafka`) | breakers, topics, offsets | send, sendBatch, sendTransaction; consume | failures are swallowed, and the message passed | callers are told the truth; a message is passed once |
| Replenishment dates (`estimated-replenishment-date.vo.ts`) | a bound computed when the module is loaded | `create`, also on reading | restart | what was stored can be read (not modelled) |
| Media tokens, e-mail, metrics, health, Elasticsearch, GraphQL, configuration, shared value objects | none that other parts depend on | | | |

Interactions: the product domain's deletion of a variant reaches the cart by a
cascading foreign key; registration makes a tenant through an event handler; the
breaker wraps Redis and Kafka calls; a category's deletion takes products out of it;
a warehouse keeps its address by a restricting key; inventory and category meet other
domains through foreign keys, and the listings through queries on the bus.

`PROJECT.json` lists every component with its status, every hazard at its line,
and the lines each definition stands for.

## 2. What is modelled

| Module | Stands for |
| --- | --- |
| `Inventory` | the six inventory commands, statement by statement |
| `WarehouseShelves` | abstract: what a client sees, one step per command |
| `InventoryInv`, `InventoryProofs` | the inductive invariants and the proofs |
| `InventoryQueries`, `InventoryQueriesProofs` | what the three inventory queries show of the tables; that two of them agree |
| `CategoryTree` | the three category commands, statement by statement |
| `CategoryForest` | abstract: one edit of the forest per command, which leaves a forest |
| `CategoryInv`, `CategoryProofs` | the inductive invariants of its references and of its commands in turn; the proofs, also of its listing |
| `CategoryQueries` | the listing of categories |
| `CartItems` | the cart commands, statement by statement |
| `CartInv`, `CartProofs` | inductive invariant and proofs |
| `ProductVariants` | the eight product commands on one product, read by read and write by write |
| `ProductCatalogue` | abstract: what each product command promises |
| `ProductInv`, `ProductProofs` | inductive invariant and proofs |
| `ProductQueries` | the product listing and the product by its id |
| `Identities` | the identities of one e-mail address: registration, sign-in, resets, sign-out, the limiter, restarts |
| `Tenancy` | composes `Identities` with tenants and addresses |
| `AccountPolicy` | abstract: what each account command promises |
| `TenancyInv`, `TenancyProofs` | inductive invariant and proofs for both |
| `CircuitBreaker` | the breaker and its invariant |
| `Backplane` | composes the breaker with its owners: cache adapter, producers, consumers |
| `BackplaneProofs` | the breaker's invariants, alone and in its owners, and the invariants of producers and consumers |
| `Listing`, `ListingProofs` | OFFSET and LIMIT over the rows of a where clause, shared by the queries; what cutting rows into pages keeps of them |
| `MCInventory`, `MCCategoryTree`, `MCCartItems`, `MCProductVariants`, `MCTenancy` | the commands requests carry in TLC's instances |

### Conventions

*Requests.* `Requests` are the executions of commands, each of which runs once:
`pc[r]` says where in its handler `r` is, `cmd[r]` what it executes, and the other
functions of `Requests` are the handler's locals and its transaction's
uncommitted writes. Leaving a handler clears them. `r` also serves as the
identifier that `Id.generate` makes for the new entity of `r`.

*Transactions.* READ COMMITTED: a statement reads the committed rows with the
transaction's own writes over them (`View`); a write of a row another transaction
has written waits (the action is disabled); commit publishes the writes in one
step, and every exit by an error (`Fail`) drops them. Foreign keys are checked
where PostgreSQL checks them, with their `ON DELETE` actions.

*Crashes.* `Abort(r)` ends a handler at any step without a trace in the tables:
the process dies, the connection is lost, the interactive transaction runs into
Prisma's timeout, or the deadlock detector picks it.

*Overlap.* `Overlap = FALSE` starts a command only when none is open. Properties
that need this are true of each command alone and false of overlapping ones; the
comment of each says so.

*Validation.* What value objects refuse is refused before anything is written, so
it is the choice of the inputs in `Commands`, except where it happens inside a
transaction (the movement's reason and the quantities of `updateSingleStock`).

### Inventory

| State | Code |
| --- | --- |
| `names` | `Warehouse.name`, unique per tenant; `None` where there is no row |
| `stocks` | `StockPerWarehouse`: warehouse, variant, available, reserved, deleted |
| `moves` | `StockMovement` per stock row: how many, and the sum of their deltas |

`UpdateWarehouse` and `CreateStock` load an aggregate (`Enter`) and go through
`WarehouseRepository.update`: `LockWarehouse` (the `UPDATE` of the warehouse row),
then for each stock of the aggregate `PickStock` (`findFirst` by variant), and
`InsertStock` or `OverwriteStock` with its movement, then `CommitUpdate`.
`EditStock` goes through `updateSingleStock`: `ReadStock`, `ChangeStock`. It does
not lock the warehouse. `DeleteWarehouse` is `PurgeMovements`, `DeleteRows`,
`DropWarehouse`. Refusals are actions of their own, collected in `Refuse`.

Abstractions: one tenant; the address's uniqueness is like the name's; the other
columns of a stock row are represented by `reserved`; `findById`'s two selects are
one; `updateSingleStock`'s last write and commit are one; the foreign keys to
variant and address hold. A warehouse rename locks the row `FOR UPDATE`, since it
writes a unique key, and then blocks foreign-key checks (`WarehouseKeyLocked`).

### Category

`parent` is the table: `parentId`, `Root` for null and `Absent` for no row. A
request `r` may make the category `Main(r)` and a subcategory `Sub(r)`.
`CategoryRepository.update` is `WriteRow`, then `updateSubCategories` as a stack of
frames (`frames[r]`), one per level of its recursion: `Validate` (the depth check),
`Prune` (deletes the subcategories the aggregate does not have), `WriteChild` and
`Return`, then `CommitUpdate`, whose mapping of the result may fail after the
commit (`Gone`).

Abstractions: names are dropped (a taken name is an `Abort`); `findById`'s nested
selects are atomic, and so are the walk to the root and `create`'s insertions with
the commit; other tenants' categories are ignored; subcategories are written in any
order. `"tooDeep"` distinguishes the refusal for depth, which the code reports as
one of its database errors. `MaxDepth` and `WalkLimit` stand for the code's 10 and
20.

### Cart

`cart` is the set of committed `CartItem` rows, `variants` the variants there are.
`EditCart` is a handler up to its repository call: one page (`Pages`), the `Map` by
variant (`ByVariant`), the aggregate's method (`Edit`, or `Refuse`).
`CartRepository.update` is `LockCart`, `CompareItems` (the three lists) and, item by
item, `WriteItem` or `WriteRefused`, then `CommitCart`. `DropVariant` is the product
domain's deletion of a variant with the items that cascade.

Abstractions: promotions are dropped; the select of the cart and of its items is
one; one customer; `removeItemFromCart` is `removeManyItemsFromCart` of one variant.
`createCart` is sent by the
handler of a customer's creation, hence once.

### Product

`product` is the row of `Product` (`Unborn` before, `None` after its life), `variants`
and `categories` the tables that hang on it, `carts` and `held` the variants that cart
items (cascade) and orders, returns and movements (restrict) refer to. A command is
`LoadProduct` (the read of the product, then in `Loaded` that of its children), one of
the eight edits (`UpdateProduct`, `SoftDeleteProduct`, ... `RemoveVariant`, or
`Refuse`), and `ProductRepository.update`: `ReadExisting` (which variants exist, read
before any lock), `LockProduct` (the first write), `WriteVariants` or `WriteRefused`,
`CommitUpdate`. `InsertProduct` and `HardDelete` are the other two writes. The
environment adds cart items and references and deletes categories; each waits for an
open transaction where PostgreSQL's locks make it wait.

Abstractions: `brand` stands for the optional columns (`Dto`: a null in memory leaves
the column as it is), `cats` for every child of the product, the row of a variant for
its own children, which are always rewritten with it; writes of the variants are one
step, since nobody sees them before the commit; a taken name, SKU or code is an
`Abort`.

### Accounts

`identity[i]` is the row of `AuthIdentity`: the password (of what it is the hash, with
which salt), the count of failures, the end of the lock. `Compare` is the await of
bcrypt, `ReadStored` the read of the stored row in `AuthenticationRepository.update`,
`WriteFailure`, `WriteSuccess` and `WriteReset` its write, which hashes what differs
from the stored password (`Rehashed`). `limiter` and `blacklist` live in the process:
`Restart` empties them, ends every handler and loses the published events. `CreateTenant`
is the event's handler; `LoseTenant` its failure, which nobody hears of. Tenants and
addresses are loaded, edited (`EditTenant`, `EditAddress`) and written back whole.
`SpeaksFor` is the guard: a token that verifies, for the tenant it names.

Abstractions: one e-mail address and account type per behaviour (EMPLOYEE is like
CUSTOMER); `now` is a clock of a few units, in which the lock, the window and tokens
live for one each; what clients send in one behaviour is one of `Workloads`, which
keeps unrelated commands apart; the mail is the token that is issued; validation of
values chooses the inputs; the tenant that a customer's session speaks for has no
row of its own.

### Circuit breaker, cache, producers, consumers

`call[c]` is what caller `c` is doing: `execute` checks the state and enters the
guarded function in one step (`Execute`, or `Reject`), and its settling is another
(`Succeed` with `onSuccess`, `FailCall` with `onFailure`). The timer's callback is
`Reset`. `MaxFailures` bounds the counter.

Each step of `Backplane` is a step of the breaker, by its own actions, together with
what its owner does in it, or leaves it alone. `adapter` says which owner a behaviour
is about. *Cache:* the repository has no caller of the adapter besides tests, so the
callers are external: they read through it (`Command`, `ReadSource`) and invalidate
after a change. `late` holds the commands that `commandTimeout` gave up and that may
still reach Redis. With the key prefix that the configuration sets, a pattern deletes
nothing: `SCAN` is not given the prefix and `DEL` adds it twice (`AfterInvalidation`).
*Producers:* `Send`, `SendDone`, `SendFailed` go through the breaker. `SendTransaction`
goes past it and does nothing: `message-producer.service.ts:53` creates the producer
without the transactional id that kafkajs wants, so `transaction()` throws (`:177`), and
what follows it is not modelled since it is never reached. *Consumers:* `EachMessage` to `CommitOffset`; a failure is logged and the message
passed; `Rebalance` gives it to another consumer before its offset is committed.

### Queries

A query changes nothing: it is an operator on the committed tables, and its
properties are invariants of the runs of its component. `FindAll` of the warehouses
cuts the page first and filters its stock afterwards, as the code does; `Shown` and
`WarehouseById` show how two handlers treat archived and unknown variants;
`AllMovements` is the journal of a warehouse. `AllCategories` has the roots with the
levels below them that the query includes. A page's rows and its count come from two
statements, and pages are read one after the other: over several states a client may
see a row twice or not at all, which the model leaves aside. Searches by name, and
the order of what is listed, are left out (`Ordered` is some order).

## 3. The runs

| Run | Instance | Question |
| --- | --- | --- |
| `inventory_concurrent` | 2 requests, any of the six commands, one warehouse with one stock row, 2 variants, 2 names, quantities to 2 | do the locks and keys suffice when statements interleave? One row per variant, no resurrected warehouse, silent renames; every command is answered; the inductive invariant of the proofs, with types and references in it |
| `inventory_aggregate` | 2 requests that lock the warehouse row, two stock rows | are stale aggregates harmless? The journal balances (so a rename, which posts nothing, moves no quantity), and `createStock` does what it reports |
| `inventory_serial` | 3 commands in turn | does each command do one thing, and do the queries tell the truth about it? Every command is a step of `WarehouseShelves`; a client who pages through a filtered listing misses no match before a page that the filter empties, the journal explains what is shown, the two queries agree |
| `inventory_audit` | 2 overlapping requests | finding: the journal and the quantity drift apart |
| `category_serial` | 2 commands in turn over every forest of 4 categories | every command is a step of `CategoryForest`, which has no circles; creations fit, and the listing shows every category once |
| `category_overlap` | 2 overlapping requests, 3 categories | no dangling parent in the table or in an open transaction (the inductive invariant of the proofs, with types, locks and references in it), and every command is answered |
| `category_depth` | as `category_serial` | finding: a leaf moved below the lowest level |
| `cart_overlap` | 2 overlapping requests and deletions of variants, 3 variants, a page of 2 | one row per variant, uncontested edits do what they say, a save leaves one aggregate and no mixture of two; the inductive invariant, with types, references, the bound and the course of an edit in it |
| `cart_page` | commands in turn, a page of 2 | finding: items beyond the page |
| `product_overlap` | 2 overlapping requests, any of the eight commands, 2 variants at first and 2 more by creation, one category, one reference by an order and carts | the inductive invariant of the proofs, with types and references in it: stale aggregates leave no dangling reference; what is written under the lock is not undone, the product is listed in the mode and under the categories its page says, uncontested edits do what `ProductCatalogue` promises, every command is answered |
| `accounts` | 2 overlapping requests of one e-mail address, a clock of 3 instants, restarts, lost events | the inductive invariant of the proofs, with types and references in it (a warehouse keeps its address); lock and count agree, the mail limit holds, a tenant is missing only for a reason and comes otherwise, uncontested commands are steps of `AccountPolicy` |
| `backplane` | 2 callers of one owner, threshold 2, count to 3 | the breaker in each owner keeps its invariant and recovers; the cache is fresh in the end; sends tell the truth; messages are passed, and handled once while the partition stays |

*Why the bounds are enough.* What can go wrong between two handlers takes two
handlers: the locks are on one warehouse, cart, product or identity, the stale data
that of one other command, and every step of one is interleaved with every step of
the other, crashes included. Sequences need one command more than the state they
start from reaches: the inventory starts with active and removed rows and runs
three, and the category and the cart start from every forest and every cart. Two
variants suffice for "the named and another"; the cart takes three, so that a page,
an item beyond it and an addition exist at once. A chain of four categories reaches
`MaxDepth = 4`; a creation adds one or two. `MaxTime = 1` lets a cart item be newer
than another, which is all that the order of a page looks at. `WalkLimit = 8` is
longer than any chain of the instance, as 20 is longer than 10.

Product: `MaxVariants = 1` makes an update with two variants one too many, and
`MaxNew = 2` lets a creation and an update each bring one; `MaxReferences = 1` is one
order or cart item that comes while commands run. Accounts: `Threshold = 2` tells the
first failure from the last; `MaxCount = 3` is one past it; `MaxAttempts = 2` mails and
`MaxTime = 2` let a window, a lock and a token end within a behaviour. A
`Workload` keeps commands apart that touch no common row. Backplane:
`FailureThreshold = 2` with `MaxFailures = 3` lets a failure be counted past the
threshold and the count stick above it; `MaxMessages = 3` is a batch of two and one
more; one version more than the first and one move of the partition suffice for "old
and new" and "before and after". `KeyPrefix = TRUE` is what `redis.service.ts` sets. The
listing of `inventory_serial` is over two warehouses, both with stock, and pages of one
and of two: pages of one are emptied by the filter while more follow, or not. A page of
two that comes out short while more follow takes three warehouses with stock and is
left to the theorem `MatchesListedUntilGapAlways`. The theorems of section 4
lift the safety properties they cover from these bounds.

*Symmetry* is used only in runs without liveness: requests (inventory), the
initial categories (category), neither of which any definition tells apart.

*Deadlock* is checked in every run. `Served` lets a run end when every command has.

*Fairness.* `WF(Step(r))`: a handler that can continue does, since the event loop
and PostgreSQL run what is runnable. `WF(Blocked(r) /\ Abort(r))` (inventory and
category): a transaction that stays blocked on a lock is ended, by PostgreSQL's
deadlock detector or Prisma's timeout for interactive transactions. The
product needs only the first: its one lock is taken first. Accounts: only that the event's
handler runs (`CreateTenant`), as the event bus calls it in the same process, unless the
process dies first. The cart's run has no liveness property and assumes nothing.
Backplane: the reset timer fires; what a call awaits settles (`Answer`), as each command
of the Redis and Kafka clients has a timeout, while for a consumer it is an assumption
about the subclass's `handle`, whose await at `base-consumer.ts:100` nothing bounds; Redis
expires entries (`Expire`); kafkajs calls the consumer while there are messages. No
fairness makes a client send a command, a lost event come back, or a failing
dependency recover: `Recovers` has the first and the last as hypotheses.

## 4. The proofs

Each proved for every value of the constants, under their named assumptions, which
TLC evaluates in the runs.

| Theorem | States |
| --- | --- |
| `InventoryProofs!TypeCorrect`, `VariantsUnique`, `NoOrphans`, `InductiveInvariant` | `TypeOK`, `OneRowPerVariant`, `ReferentialIntegrity`, `IInv` always hold |
| `InventoryProofs!NoResurrection` | `DeletedStaysDeleted` |
| `InventoryProofs!RenamesAreSilent` | `RenamePostsNothing` |
| `InventoryProofs!JournalInvariant`, `AuditTrailKept`, `CreatedStockOnShelf` | if `Undisturbed`: `JournalInv` and `AuditTrailBalances` always hold; `CreatedStockIsActive` |
| `InventoryProofs!SerialCommandsRefineShelves` | if `~Overlap`: `CommandsChangeOneShelf`, the refinement of `WarehouseShelves` |
| `InventoryQueriesProofs!ListingExplained` | if `Undisturbed`: `JournalExplainsListing` always holds |
| `InventoryQueriesProofs!MatchesListedUntilGapAlways` | if `WarehouseId` is finite: `MatchesListedUntilGap` always holds |
| `InventoryQueriesProofs!QueriesShowAlike` | if `WarehouseId` is finite: `QueriesAgree` holds whenever there are at most 25 warehouses, which is what one page of the listing holds |
| `CategoryProofs!InductiveInvariant`, `NoDanglingParent`, `TransactionsWhole` | `HierarchyInv`, `ParentsExist`, and `ViewsWhole /\ RowLocks` always hold |
| `CategoryProofs!NoCategoryDropsOut` | if `Category` is finite and `WalkLimit > MaxDepth + 1`: `TreeShowsEveryCategory` always holds |
| `CategoryProofs!CreationsFitInTurn` | if `~Overlap`: `CreationsFit` |
| `CategoryProofs!CommandsEditForestInTurn` | if `~Overlap` and `ProperMoves` (no update names the category itself as its parent): `CommandsEditForest`, the refinement of `CategoryForest` |
| `CategoryProofs!NoCircleInTurn` | under the same: `IsForest(parent)` always holds |
| `CartProofs!TypeCorrect`, `VariantsUnique`, `NoOrphans`, `CartsFit`, `InductiveInvariant` | `TypeOK`, `OneItemPerVariant`, `ItemsHaveVariants`, `CartFits`, `CartInvariant` always hold |
| `CartProofs!UncontestedEditsAlways`, `SavesAreWholeAlways` | `UncontestedEdits`, `SavesAreWhole` |
| `ProductProofs!InductiveInvariant`, `ReferencesAlwaysHold`, `LockedRowsAlwaysStand` | `ProductInvariant`, `ReferencesHold`, `LockedRowsStand` always hold |
| `ProductProofs!ListedWhereShownAlways` | `ListedWhereShown` always holds |
| `ProductProofs!UncontestedEditsAlways` | `UncontestedEdits`: steps of `ProductCatalogue` |
| `TenancyProofs!InductiveInvariant`, `LockMatchesCountAlways`, `LimitRespectedAlways`, `TenantlessForReasonAlways` | `AccountInv`, `LockMatchesCount`, `LimitRespected`, `TenantlessForReason` always hold |
| `TenancyProofs!UncontestedCommandsAlways` | `UncontestedCommands`: steps of `AccountPolicy` |
| `BackplaneProofs!BreakerInvariant`, `TimerArmed`, `ClosedHasRoom`, `OpenUntilReset` | `BreakerInv`, `TimerIffOpen`, `ClosedBelowThreshold` always hold; `LateAnswersKeepItOpen` |
| `BackplaneProofs!OwnersBreakerInvariant` | `BreakerInv` always holds in the cache adapter, the producers and the consumers |
| `BackplaneProofs!AnswersAreTrue`, `HandledOnceAlways` | `AnswersMatchLog`, `HandledOnce` always hold |

**Inventory, any overlap.** `OneRowPerVariant` is not inductive: that `InsertStock`
finds no row for its variant was read a step earlier. `IInv` adds what makes the
reading last. Two updates of one warehouse exclude each other
(`UpdatesExcludeEachOther`, by the row lock), what was read still holds when it is
written (`ReadsHold`), an open update's rows are rows of its warehouse, and its own
row is for a variant that has none (`Drafts`, `NewStockIsLast`).
`ReferentialIntegrity` rests on `Postings` (an inserted row brings its movement) and
on the movements' restricting key when a deletion meets an update. `FreshIdentifiers`
says that a generated identifier is nobody's until its request ends. One lemma per
action shows each keeps `IInv`; `NextIInv` combines them. `NoResurrection` follows
because the warehouse of an update past its lock exists (`UpdatesExcludeEachOther`);
`RenamesAreSilent` adds `RenamesPostNothingYet`.

**Inventory, undisturbed.** `AuditTrailBalances` is false as soon as `updateStock`
overlaps with anything that writes the same row, which is the finding of
`inventory_audit`. The theorems about the journal therefore assume `Undisturbed`: with
`Overlap`, no command is `updateStock` or `deleteStock`, the two that read a row without
locking it. `inventory_aggregate` is an instance that overlaps, `inventory_serial` one
that has all commands in turn. `JournalInv` says that what a statement read is still
there when it is written from (`ReadsAreCurrent`, from the lock on the warehouse or from
being alone), that the posted movements lead from the committed quantity to the drafted
one (`DraftsBalance`), and where the new stock of a `createStock` is between its first
statement and its commit (`NewStockOnItsWay`). For the listing, `RemovedInv` adds that a
removed row is empty: what brings a row to an end empties it, and what writes to a
removed row has read it as removed and brings it back. A warehouse and a variant have
one row at most (`OneRowPerVariant`), so each sum of `JournalExplainsListing` is over no
row or over one.

`SerialCommandsRefineShelves` is about commands in turn, as `CommandsChangeOneShelf` is
false of overlapping ones (a rename writes stale quantities back). `SerialInv` says that
a stock of a loaded aggregate is still the row it was loaded from (`LoadedAsIs`), so that
writing it back changes nothing, and that an open update has drafted no other change than
the last row of `createStock` (`DraftsChangeOneRow`). A commit thus changes one row, and
`OneRowOneShelf` turns a change of one row into a change of one shelf, since the shelf's
`CHOOSE` is over one row at most.

**Listings.** The rows of a page are put in order by a fold over a set of any size and
filtered by a recursive function, so what a page shows is a fact by induction over data.
The library's induction theorem takes an operator, which the provers cannot instantiate;
`ListingProofs!Induction` states it for a set of natural numbers instead, and proves it as
the absence of a least counterexample, from the library's `WFMin`. By it the fold exists
and lists each row once (`OrderedLists`), each row has one place on one page
(`PlaceExists`, `PlaceUnique`), the pages before it are full and say that there are more
(`PagesShowAll`), and the filter keeps of a page exactly the rows that pass
(`KeptKeeps`). The handler answers a page that the filter leaves empty like the end of
the listing (`EmptiedPage`), so that a client never reaches what is behind it
(`BehindGap`); a warehouse before any such page is on one page that is reached and on no
other (`CutsApart`, `ListedOnce`). `MatchesListedUntilGapAlways` puts these together; it
needs no invariant, since a query is a function of the tables. The number of warehouses
must be finite: an infinite table has no last page.

**Cart.** `OneItemPerVariant` is not inductive either: a commit mixes rows that
stayed with items of a stale aggregate. `ItemsInvariant` says that an item keeps its
variant for life (`ItemsDistinct`), so a row and an item of the aggregate that
share an identifier share the variant; that one transaction is past the lock
(`OneWriter`), so nobody else writes between the comparison and the commit; and
that the writes lead from the table to the aggregate (`WritesReachAggregate`): every
row the aggregate does not have is deleted. After the commit each row thus has an
identifier of the aggregate, and two rows of a variant would be two items of the
aggregate. The same map from rows to the aggregate's items, which is injective,
bounds the cart (`CartsFit`), with `AggregatesFit`. `DropVariant` only shrinks the
table, and waits for uncommitted items of its variant. For `UncontestedEdits`,
`EditsArrive` adds the other direction: what is saved is the edit of what was loaded
(`Edits`), and each item of it is a row, or written, or was a row whose variant has gone
(`Arrives`); the identifier of an added item is in no other hand (`OwnItem`).
`SavesAreWhole` is both directions at once (`CommitIsWhole`): at the commit every row the
aggregate does not have is deleted, and every item of it is there or its variant is not.

**Category.** `ParentsExist` is not inductive: a commit publishes what a transaction
saw when it wrote, and others have committed since. `HierarchyInv` says that the table
as each transaction sees it is whole (`ViewsWhole`), that no row has two writers
(`RowLocks`), and that nobody refers to what another transaction deletes
(`DeletionsUnreferred`). The last is what the foreign key's waits are for: a reference
waits for an uncommitted deletion of its target, a deletion for uncommitted references
and for the locks on the rows it detaches. `CommitKeepsViews` is the heart: what one
transaction publishes leaves every other one's view whole. `FreshIdentifiers` keeps
new rows out of everybody's sight, and `HandlerState` has every open call of the
recursion below a row that its transaction has locked. Neither `Depth` nor the depth
check takes part: references are sound even where the hierarchy is too deep.

**Category, listing.** `Below` and `Depth` are recursive functions of the table. The
lemmas turn both into the way from a category to its root (`Walk`, one parent at each
step, by `Induction` on naturals over a set): what the levels included below `e` show is
what has `e` on its way (`BelowOnWay`), the depth is where the way ends (`DepthOfWalk`,
`FirstRoot`), a way that starts at a row stays on rows, since `ParentsExist`
(`WalkStands`), and only its end is a root, so no two roots show a category
(`OneRootOver`) and one does if the way is short enough (`RootOver`). That pages cut and
joined are the rows is `ListingProofs`. The walk must be allowed to go at least as far as
the included levels reach, hence `WalkLimit > MaxDepth + 1` (20 and 10 in the code).

**Category, in turn.** With `~Overlap` only one request works (`Alone`), so the table
under a creation is the one it checked (`CreationFits`), and the ways of the rows that
were there stay what they were (`DepthKept`, `DepthOfChild`): `CreationsFit`. For the
refinement, `EditInv` says what update has written after each of its calls: without new
subcategories the table with the category at its new place, whatever has been rewritten
so far (`Rewriting`), and with new ones the same, then without the old ones, then with
those inserted so far (`Replacing`). It rests on the absence of circles (`IsForest`: from
every set of categories a parentId leads out), in the table, since a rewritten grandchild
could otherwise be the category itself, and in what the transaction has written once past
the first depth check. That check is where it comes from: if the category comes to lie
below itself, the circle takes in a subcategory, so there is something to check, and the
walk from it does not end (`DepthOfCircle`, `CheckStopsCircle`). With new subcategories a
circle would lead through one of the old, which are deleted. A leaf that names itself as
the parent has no subcategories to check and gets through, which is why the theorem
assumes `ProperMoves` and `category_serial` has only such moves (section 5).

**Product.** `ReferencesHold` needs the order of locks: one transaction is past the
product's row (`OneAtATime`), so the variants stay as they were when the lock was taken,
and what has come to refer to one of them is not deleted (`LockedRowsStand`). That an
update's insertions never collide with a row is `NothingFromTheFuture`: a variant named by
a request is in no table and no other request's memory until that request ends. For
`UncontestedEdits`, `UncontestedIsCurrent` says of each place in a handler that nobody
overtook that its aggregate is the edit of the product that is there. Categories are the
exception, since they go without a command: the aggregate may name some that have gone
(`Standing(cats)`), and then the insertion of their rows fails; when it succeeds all of
them exist, so none was lost meanwhile. `ListedWhereShown` follows from `ReferencesHold`
and `CategoriesExist`: the listing and the page read the same row, by where clauses and
relations of their own.

**Accounts.** `AccountInv` relates what a handler has in memory to the tables. `Handler`
says it for any overlap: a whole row that is written back has a lock that agrees with its
count, however stale it is, and this is all that `LockMatchesCount` needs.
`UncontestedIsCurrent` says more of a handler that no commit overtook: the row is the one
that was loaded, with the outcome of the attempt as `Compare` left it, the tenant's and
the address's aggregates are the edit of what is there. `UncontestedCommands` follows
action by action. Most actions leave most of the state alone; the frame lemmas say once
what a step of one request does to the others (it contests them, or leaves what they hold
as it is), and `OneStep` splits `Next`.

**Breaker.** `TypeOK`, `TimerIffOpen` and `ClosedBelowThreshold` together are
inductive (`BreakerInv`).

**Backplane.** `Backplane` is composed so that every step of an owner is a step of the
breaker or leaves it alone (the lemma `Driven` says no more than that); it is what carries
`BreakerInv` over to the owners. `AnswersMatchLog` is not inductive: that a refused
send's messages are not in the topic holds only while nobody else sends them.
`ProducerInv` adds that a message has one sender (`OneSender`), for any number of callers
and messages. `HandledOnce` rests on the consumer's
place in the topic: what has been handled lies before the next message it reads, or is the
one in hand.

*Only model-checked.* Liveness (`EveryCommandAnswered` of inventory, category and
product, `TenantComes`, `Recovers`, `FreshInTheEnd`, `EveryMessagePassed`) is out of the
prover's reach. Every safety property of the passing runs is stated by a theorem, some
under the assumptions named in the table, and the run is an instance of them. The
violated properties of section 5 are false, and stay with TLC.

## 5. Findings

Each is a run whose property quotes what the repository says and that the code
violates.

* `inventory_audit`: `updateSingleStock` reads the row without a lock and journals
  the difference to what it read; two overlapping updates journal from the same
  quantity, and the "audit trail" no longer sums up.
* `category_depth`: `update` checks the depth only for categories with
  subcategories in memory; a leaf can be moved below the lowest level.
* `cart_page`: the aggregate holds one page of items, and saving it deletes the
  items beyond the page.

Other behaviours that the models reproduce and that a reader of the code may not
expect. No run is about them, mostly because no document says what should happen.

* *Overlaps.* A rename deletes a subcategory created under its category meanwhile; two
  moves, each below the other's category, close a circle that the tree shows nowhere;
  a soft delete, restore or archive of a product whose aggregate was loaded before an
  update's commit deletes the variants the update brought; a sign-in that overlaps a
  password reset restores the old password or stores the hash of a hash
  (`authentication.repository.ts:74`); overlapping failed sign-ins count once; two
  registrations of one address may both succeed, since there is no unique key on
  e-mail and account type; the later of two edits of a tenant or an address undoes the
  earlier.
* *Category.* A category made its own parent is deleted by its own update, which
  commits and then reports a failure (`category.repository.ts:147`). The search by name
  of the nested listing looks at the roots only.
* *Product.* `removeVariant` takes the last variant away although the entity says that a
  product must have at least one (`product.entity.ts:97`, `:206`). Optional columns
  cannot be cleared, since `toDto` makes null undefined. A product that does not exist
  is reported as a database error: the handlers' not-found branch is never reached.
  Without a mode the listing shows the active products, where `product.interface.ts:64`
  says it shows all.
* *Accounts.* After a reset only the token that was used is invalid, while
  `update-password.handler.ts:65` answers "All reset tokens have been invalidated."; a
  reset does not lift a lock; when a lock expires the count stays at its threshold, so
  one more failure locks again. Blacklist, limiter and published events are lost at a
  restart. A customer's session carries both ids, so that address edits are refused.
  `updateTenant` answers default ids that it never stores.
* *Cache and Kafka.* With the key prefix, `invalidatePattern` deletes nothing.
  `sendTransaction` always throws, since the producer is created without a transactional
  id (`message-producer.service.ts:53`, `:177`); were it given one, its `Promise.all` would
  abort at the first failed send while others are still under way.
* *Listings.* The filtered listing of warehouses answers 404, without `hasMore`, for a
  page that the filter empties although later pages match (`all-warehouses.handler.ts:61`):
  a client that stops there never sees them, and this is the gap of
  `MatchesListedUntilGap`. `total` counts the page. Listed movements get a fresh id and an empty warehouse id.

## 6. What is not modelled

* *Over several states.* A query is evaluated on one committed state: its statements,
  and a client's pages, may in fact see several.
* *Replenishment dates* (`estimated-replenishment-date.vo.ts:5`): the earliest date
  accepted is computed when the module is loaded, so that a stored date that has passed
  is readable until a restart and makes its warehouse unreadable afterwards. The columns
  are otherwise read by nothing that the models have.
* *Order and search.* Sorting of stock and products in memory, and searches by name.
* *Values.* The formats that value objects refuse, and the wording of mappers, DTOs and
  GraphQL types: they choose the models' inputs and outputs.
* *Not reachable.* The handlers that create, update and add variants one by one are not
  registered in `product.module.ts`.
* *Infrastructure without state of its own*: media tokens, e-mail, metrics, health
  probes, the Elasticsearch client, the GraphQL module, configuration, logging, seed
  data, bootstrap.

`DepthLimit` and `RemovalKeepsOthers` are stated for the code as it should be, as is
`AuditTrailBalances` in `inventory_audit`; once repaired, their runs become passing
ones.
