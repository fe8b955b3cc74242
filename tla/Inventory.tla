----------------------------- MODULE Inventory -----------------------------
(***************************************************************************)
(* The inventory domain of one tenant: warehouses, the stock rows they     *)
(* hold (one per product variant) and the StockMovement rows that journal  *)
(* every quantity change, as the six command handlers of                   *)
(* src/domains/inventory and the transactions of WarehouseRepository drive *)
(* them.  Several handlers run concurrently; a step below is one database  *)
(* statement (or a run of statements no other transaction can tell apart), *)
(* under PostgreSQL's READ COMMITTED isolation: a statement reads what is  *)
(* committed plus the writes of its own transaction, a written row stays   *)
(* locked until the transaction ends, and a commit is atomic.              *)
(***************************************************************************)
EXTENDS Integers, FiniteSets

CONSTANTS
  Requests,        \* the commands' executions, each runs once
  InitWarehouses,  \* identifiers of the warehouses that may exist at start
  InitStocks,      \* identifiers of the stock rows that may exist at start
  Variants,        \* product variants
  Names,           \* warehouse names
  MaxQty,          \* the largest quantity (999999999 in QtyAvailable)
  Commands,        \* the commands clients send
  Overlap,         \* FALSE: a command starts only when no other is open
  None             \* no row, no name, no value given

\* Id.generate() is a fresh UUID: a row made by request r carries r itself.
WarehouseId == InitWarehouses \cup Requests
StockId == InitStocks \cup Requests

Qty == 0 .. MaxQty

\* A StockPerWarehouse row.  `reserved' stands for every column besides
\* qtyAvailable, which are all copied, overwritten and defaulted alike.
Row == [wh : WarehouseId, variant : Variants, avail : Qty, reserved : Qty,
        deleted : BOOLEAN]

\* A StockPerWarehouse entity inside an in-memory Warehouse aggregate.
Item == [id : StockId, variant : Variants, avail : Qty, reserved : Qty]

\* A row as a statement returned it.
Found == [id : StockId, row : Row]

\* The StockMovement rows of one stock: how many, and the sum of deltaQty.
Movements == [n : Nat, sum : Int]

NoMovements == [n |-> 0, sum |-> 0]

Given == Qty \cup {None}

\* reasonOk: the reason satisfies LongDescription (20 to 2000 characters).
Command ==
  [kind : {"createWarehouse"}, name : Names]
    \cup [kind : {"updateWarehouse"}, wh : WarehouseId, name : Names]
    \cup [kind : {"deleteWarehouse"}, wh : WarehouseId]
    \cup [kind : {"createStock"}, wh : WarehouseId, variant : Variants,
          avail : Qty, reserved : Qty, reasonOk : BOOLEAN]
    \cup [kind : {"updateStock"}, wh : WarehouseId, stock : StockId,
          avail : Given, reserved : Given, reasonOk : BOOLEAN]
    \cup [kind : {"deleteStock"}, wh : WarehouseId, stock : StockId,
          avail : {0}, reserved : {None}, reasonOk : BOOLEAN]

ASSUME MaxQtyAssumption == MaxQty \in Nat
ASSUME OverlapAssumption == Overlap \in BOOLEAN
ASSUME CommandsAssumption == Commands \subseteq Command
ASSUME IdentifiersAssumption ==
  /\ InitWarehouses \cap Requests = {}
  /\ InitStocks \cap Requests = {}
ASSUME NoneAssumption ==
  /\ None \notin Names
  /\ None \notin Variants
  /\ None \notin Qty
  /\ None \notin Row
  /\ None \notin Found
  /\ None \notin Item
  /\ None \notin Commands
  /\ None \notin [Variants -> Qty \cup {None}]

VARIABLES
  names,   \* committed Warehouse rows: the name, or None when absent
  stocks,  \* committed StockPerWarehouse rows, None when absent
  moves,   \* committed StockMovement rows, per stock
  pc,      \* where each request is in its handler
  cmd,     \* the command it executes
  agg,     \* the name in its in-memory aggregate
  todo,    \* the aggregate's stocks the update loop has still to write
  item,    \* the stock the update loop is writing
  seen,    \* the row its last read returned, None for "no row"
  held,    \* the stock rows its open transaction has written and locked
  draft,   \* the uncommitted contents of those rows
  posted   \* its uncommitted movements (for a delete: the ones it removes)

tables == <<names, stocks, moves>>
locals == <<cmd, agg, todo, item, seen, held, draft, posted>>
vars == <<tables, pc, locals>>

NoDraft == [s \in StockId |-> None]
NoPosts == [s \in StockId |-> NoMovements]

\* Inside WarehouseRepository.update after its warehouse row was locked.
InLoop == {"loop", "write"}
Working == {"lock", "loop", "write", "read", "change", "purge", "rows", "drop"}

----------------------------------------------------------------------------
\* Committed rows, as the queries select them.

RowsOf(w) == {s \in StockId : stocks[s] # None /\ stocks[s].wh = w}

ActiveRowsOf(w) == {s \in RowsOf(w) : ~stocks[s].deleted}

\* What a statement of r's own transaction reads.
View(r, s) == IF s \in held[r] THEN draft[r][s] ELSE stocks[s]

AsItem(s) == [id |-> s, variant |-> stocks[s].variant,
              avail |-> stocks[s].avail, reserved |-> stocks[s].reserved]

\* Mutant: the aggregate is loaded with its removed rows as well.
EveryItem(w) == {AsItem(s) : s \in RowsOf(w)}

\* The stocks of the Warehouse aggregate findById returns.
LoadedItems(w) == {AsItem(s) : s \in ActiveRowsOf(w)}

NameTaken(w, n) == \E x \in WarehouseId \ {w} : names[x] = n

\* An uncommitted rename leaves or takes n: the unique index waits for it.
NamePending(w, n) ==
  \E q \in Requests :
    pc[q] \in InLoop /\ cmd[q].wh # w /\ n \in {agg[q], names[cmd[q].wh]}

\* Mutant: warehouse.update is left out, so nothing locks the row.
NeverLocked(r, w) == FALSE

WarehouseLocked(r, w) ==
  \E q \in Requests \ {r} : pc[q] \in InLoop /\ cmd[q].wh = w

\* A lock that also stops foreign key checks: the update changes a unique key.
WarehouseKeyLocked(r, w) ==
  \E q \in Requests \ {r} :
    pc[q] \in InLoop /\ cmd[q].wh = w /\ agg[q] # names[w]

RowLocked(r, s) == \E q \in Requests \ {r} : s \in held[q]

OrElse(given, old) == IF given = None THEN old ELSE given

\* qtyAvailable 0 removes the stock (deleteStock always passes 0).
Removes(c) == c.avail = 0

ChangeDelta(c, read) == OrElse(c.avail, read.avail) - read.avail

ChangePosts(c, read) == Removes(c) \/ ChangeDelta(c, read) # 0

\* The statement r is about to run waits for a lock of another transaction.
Blocked(r) ==
  \/ /\ pc[r] = "lock"
     /\ WarehouseLocked(r, cmd[r].wh) \/ NamePending(cmd[r].wh, agg[r])
  \/ /\ pc[r] = "write" /\ seen[r] # None
     /\ RowLocked(r, seen[r].id)
  \/ /\ pc[r] = "change"
     /\ \/ RowLocked(r, cmd[r].stock)
        \/ /\ ChangePosts(cmd[r], seen[r].row)
           /\ WarehouseKeyLocked(r, cmd[r].wh)
  \/ pc[r] = "rows" /\ \E s \in RowsOf(cmd[r].wh) : RowLocked(r, s)
  \/ pc[r] = "drop" /\ WarehouseLocked(r, cmd[r].wh)

----------------------------------------------------------------------------
\* A database that commands served one after the other can leave behind.
SerialDatabase(ns, rows) ==
  /\ \A s \in InitStocks : rows[s] # None =>
       /\ ns[rows[s].wh] # None
       /\ rows[s].deleted => rows[s].avail = 0 /\ rows[s].reserved = 0
  /\ \A s, t \in InitStocks :
       s # t /\ rows[s] # None /\ rows[t] # None /\ rows[s].wh = rows[t].wh
         => rows[s].variant # rows[t].variant
  /\ \A v, w \in InitWarehouses : v # w /\ ns[v] # None => ns[v] # ns[w]

\* The opening movement of each row, and the closing one of a removed row.
OpeningMovements(row) ==
  IF row = None THEN NoMovements
  ELSE [n |-> IF row.deleted THEN 2 ELSE 1, sum |-> row.avail]

InitRow == [wh : InitWarehouses, variant : Variants, avail : Qty,
            reserved : Qty, deleted : BOOLEAN]

Init ==
  /\ \E ns \in [InitWarehouses -> Names \cup {None}],
        rows \in [InitStocks -> InitRow \cup {None}] :
       /\ SerialDatabase(ns, rows)
       /\ names = [w \in WarehouseId |->
                     IF w \in InitWarehouses THEN ns[w] ELSE None]
       /\ stocks = [s \in StockId |->
                      IF s \in InitStocks THEN rows[s] ELSE None]
  /\ moves = [s \in StockId |-> OpeningMovements(stocks[s])]
  /\ pc = [r \in Requests |-> "idle"]
  /\ cmd = [r \in Requests |-> None]
  /\ agg = [r \in Requests |-> None]
  /\ todo = [r \in Requests |-> {}]
  /\ item = [r \in Requests |-> None]
  /\ seen = [r \in Requests |-> None]
  /\ held = [r \in Requests |-> {}]
  /\ draft = [r \in Requests |-> NoDraft]
  /\ posted = [r \in Requests |-> NoPosts]

----------------------------------------------------------------------------
\* The request is over; its in-memory state and its transaction go with it.
End(r, outcome) ==
  /\ pc' = [pc EXCEPT ![r] = outcome]
  /\ cmd' = [cmd EXCEPT ![r] = None]
  /\ agg' = [agg EXCEPT ![r] = None]
  /\ todo' = [todo EXCEPT ![r] = {}]
  /\ item' = [item EXCEPT ![r] = None]
  /\ seen' = [seen EXCEPT ![r] = None]
  /\ held' = [held EXCEPT ![r] = {}]
  /\ draft' = [draft EXCEPT ![r] = NoDraft]
  /\ posted' = [posted EXCEPT ![r] = NoPosts]

\* An exception leaves the handler: the transaction rolls back.
Fail(r) == End(r, "failed") /\ UNCHANGED tables

Begin(r, c) ==
  /\ pc[r] = "idle"
  /\ c \in Commands
  /\ Overlap \/ \A q \in Requests : pc[q] \notin Working

Enter(r, c, place) ==
  /\ pc' = [pc EXCEPT ![r] = place]
  /\ cmd' = [cmd EXCEPT ![r] = c]
  /\ UNCHANGED <<tables, item, seen, held, draft, posted>>

\* CreateWarehouseHandler.execute: one INSERT, refused on a taken name.
CreateWarehouse(r, c) ==
  /\ Begin(r, c) /\ c.kind = "createWarehouse"
  /\ ~NamePending(r, c.name) /\ ~NameTaken(r, c.name)
  /\ names' = [names EXCEPT ![r] = c.name]
  /\ End(r, "ok")
  /\ UNCHANGED <<stocks, moves>>

NameRefused(r, c) ==
  /\ Begin(r, c) /\ c.kind = "createWarehouse"
  /\ ~NamePending(r, c.name) /\ NameTaken(r, c.name)
  /\ Fail(r)

\* Every other handler first loads the aggregate and gives up without it.
NotFound(r, c) ==
  /\ Begin(r, c) /\ c.kind # "createWarehouse"
  /\ names[c.wh] = None
  /\ Fail(r)

\* UpdateWarehouseHandler.execute up to the call of repository.update: the
\* aggregate keeps the stocks it was loaded with.
UpdateWarehouse(r, c) ==
  /\ Begin(r, c) /\ c.kind = "updateWarehouse"
  /\ names[c.wh] # None
  /\ agg' = [agg EXCEPT ![r] = c.name]
  /\ todo' = [todo EXCEPT ![r] = LoadedItems(c.wh)]
  /\ Enter(r, c, "lock")

\* CreateStockPerWarehouseHandler.execute: addStockToWarehouse appends a
\* stock with a fresh identifier and does not look for one of that variant.
NewItem(r, c) == [id |-> r, variant |-> c.variant, avail |-> c.avail,
                  reserved |-> c.reserved]

CreateStock(r, c) ==
  /\ Begin(r, c) /\ c.kind = "createStock"
  /\ names[c.wh] # None
  /\ agg' = [agg EXCEPT ![r] = names[c.wh]]
  /\ todo' = [todo EXCEPT ![r] = LoadedItems(c.wh) \cup {NewItem(r, c)}]
  /\ Enter(r, c, "lock")

\* UpdateStockPerWarehouseHandler and DeleteStockPerWarehouseHandler: the
\* aggregate must hold the stock (getStockOrThrow).
EditStock(r, c) ==
  /\ Begin(r, c) /\ c.kind \in {"updateStock", "deleteStock"}
  /\ names[c.wh] # None /\ c.stock \in ActiveRowsOf(c.wh)
  /\ Enter(r, c, "read")
  /\ UNCHANGED <<agg, todo>>

NoSuchStock(r, c) ==
  /\ Begin(r, c) /\ c.kind \in {"updateStock", "deleteStock"}
  /\ names[c.wh] # None /\ c.stock \notin ActiveRowsOf(c.wh)
  /\ Fail(r)

\* DeleteWarehouseHandler.execute up to the call of repository.delete.
DeleteWarehouse(r, c) ==
  /\ Begin(r, c) /\ c.kind = "deleteWarehouse"
  /\ names[c.wh] # None
  /\ Enter(r, c, "purge")
  /\ UNCHANGED <<agg, todo>>

----------------------------------------------------------------------------
\* WarehouseRepository.update.

\* findUnique, then warehouse.update: takes the warehouse row's lock until
\* the transaction ends; its new name is committed with it.
LockWarehouse(r) ==
  /\ pc[r] = "lock" /\ ~Blocked(r)
  /\ names[cmd[r].wh] # None /\ ~NameTaken(cmd[r].wh, agg[r])
  /\ pc' = [pc EXCEPT ![r] = "loop"]
  /\ UNCHANGED <<tables, locals>>

LockRefused(r) ==
  /\ pc[r] = "lock" /\ ~Blocked(r)
  /\ names[cmd[r].wh] = None \/ NameTaken(cmd[r].wh, agg[r])
  /\ Fail(r)

\* Mutant: the new stock is not appended at the end.
AnyItem(r) == todo[r]

\* The aggregate's array holds the loaded stocks, in any order, and the new
\* one last.
NextItems(r) == {i \in todo[r] : i.id = r => todo[r] = {i}}

\* Mutant: findFirst looks for a row that is not removed.
ExistingActive(r, i) ==
  {s \in StockId : /\ View(r, s) # None /\ ~View(r, s).deleted
                   /\ View(r, s).wh = cmd[r].wh
                   /\ View(r, s).variant = i.variant}

\* The row findFirst returns for the item's variant, removed ones included.
Existing(r, i) ==
  {s \in StockId : /\ View(r, s) # None
                   /\ View(r, s).wh = cmd[r].wh
                   /\ View(r, s).variant = i.variant}

\* Mutant: the loop does not advance.
PickSameStock(r) ==
  /\ pc[r] = "loop"
  /\ \E i \in NextItems(r) :
       /\ item' = [item EXCEPT ![r] = i]
       /\ \/ /\ Existing(r, i) = {}
             /\ seen' = [seen EXCEPT ![r] = None]
          \/ \E s \in Existing(r, i) :
               seen' = [seen EXCEPT ![r] = [id |-> s, row |-> View(r, s)]]
  /\ pc' = [pc EXCEPT ![r] = "write"]
  /\ UNCHANGED <<tables, cmd, agg, todo, held, draft, posted>>

PickStock(r) ==
  /\ pc[r] = "loop"
  /\ \E i \in NextItems(r) :
       /\ todo' = [todo EXCEPT ![r] = @ \ {i}]
       /\ item' = [item EXCEPT ![r] = i]
       /\ \/ /\ Existing(r, i) = {}
             /\ seen' = [seen EXCEPT ![r] = None]
          \/ \E s \in Existing(r, i) :
               seen' = [seen EXCEPT ![r] = [id |-> s, row |-> View(r, s)]]
  /\ pc' = [pc EXCEPT ![r] = "write"]
  /\ UNCHANGED <<tables, cmd, agg, held, draft, posted>>

\* Mutant: updateWarehouse has a reason of its own.
HasSomeReason(c) == c.kind # "updateWarehouse" => c.reasonOk

\* updateWarehouse passes an empty context: no reason, which LongDescription
\* refuses like a reason of the wrong length.
HasReason(c) == c.kind # "updateWarehouse" /\ c.reasonOk

\* Mutant: the whole quantity is recorded, as for a reactivated row.
WholeQuantity(r) == item[r].avail

Delta(r) == IF seen[r] = None THEN item[r].avail
            ELSE item[r].avail - seen[r].row.avail

\* A created row always gets a movement, an existing one when it changes.
PostsMovement(r) == seen[r] = None \/ Delta(r) # 0

\* Writes row x to s in r's open transaction.
Draft(r, s, x) ==
  /\ held' = [held EXCEPT ![r] = @ \cup {s}]
  /\ draft' = [draft EXCEPT ![r][s] = x]
  /\ posted' = IF PostsMovement(r)
               THEN [posted EXCEPT ![r][s] =
                       [n |-> @.n + 1, sum |-> @.sum + Delta(r)]]
               ELSE posted

NextTurn(r) ==
  /\ pc' = [pc EXCEPT ![r] = "loop"]
  /\ item' = [item EXCEPT ![r] = None]
  /\ seen' = [seen EXCEPT ![r] = None]
  /\ UNCHANGED <<tables, cmd, agg, todo>>

InsertStock(r) ==
  /\ pc[r] = "write" /\ seen[r] = None /\ HasReason(cmd[r])
  /\ Draft(r, item[r].id, [wh |-> cmd[r].wh, variant |-> item[r].variant,
                           avail |-> item[r].avail,
                           reserved |-> item[r].reserved, deleted |-> FALSE])
  /\ NextTurn(r)

\* Overwrites the row whatever it holds by now; only a row that was read as
\* removed has its deletedAt reset.
Overwritten(current, i, read) ==
  [wh |-> current.wh, variant |-> current.variant, avail |-> i.avail,
   reserved |-> i.reserved,
   deleted |-> current.deleted /\ ~read.deleted]

OverwriteStock(r) ==
  LET s == seen[r].id IN
  /\ pc[r] = "write" /\ seen[r] # None /\ ~Blocked(r)
  /\ PostsMovement(r) => HasReason(cmd[r])
  /\ Draft(r, s, Overwritten(View(r, s), item[r], seen[r].row))
  /\ NextTurn(r)

\* StockMovement.create throws.
RefuseMovement(r) ==
  /\ pc[r] = "write" /\ ~Blocked(r)
  /\ PostsMovement(r) /\ ~HasReason(cmd[r])
  /\ Fail(r)

CommitUpdate(r) ==
  /\ pc[r] = "loop" /\ todo[r] = {}
  /\ names' = [names EXCEPT ![cmd[r].wh] = agg[r]]
  /\ stocks' = [s \in StockId |-> View(r, s)]
  /\ moves' = [s \in StockId |->
                 [n |-> moves[s].n + posted[r][s].n,
                  sum |-> moves[s].sum + posted[r][s].sum]]
  /\ End(r, "ok")

----------------------------------------------------------------------------
\* WarehouseRepository.updateSingleStock: it reads the row, then writes it
\* from what it read, without locking the row or the warehouse in between.

ReadStock(r) ==
  LET s == cmd[r].stock IN
  /\ pc[r] = "read" /\ s \in ActiveRowsOf(cmd[r].wh)
  /\ seen' = [seen EXCEPT ![r] = [id |-> s, row |-> stocks[s]]]
  /\ pc' = [pc EXCEPT ![r] = "change"]
  /\ UNCHANGED <<tables, cmd, agg, todo, item, held, draft, posted>>

StockGone(r) ==
  /\ pc[r] = "read" /\ cmd[r].stock \notin ActiveRowsOf(cmd[r].wh)
  /\ Fail(r)

ChangedRow(c, read, current) ==
  [wh |-> current.wh, variant |-> current.variant,
   avail |-> OrElse(c.avail, read.avail),
   reserved |-> IF Removes(c) THEN 0 ELSE OrElse(c.reserved, read.reserved),
   deleted |-> current.deleted \/ Removes(c)]

\* The movement and the row are written and committed.
ChangeStock(r) ==
  LET c == cmd[r]
      read == seen[r].row
  IN
  /\ pc[r] = "change" /\ ~Blocked(r)
  /\ stocks[c.stock] # None /\ (ChangePosts(c, read) => c.reasonOk)
  /\ stocks' = [stocks EXCEPT ![c.stock] = ChangedRow(c, read, @)]
  /\ moves' = IF ChangePosts(c, read)
              THEN [moves EXCEPT ![c.stock] =
                      [n |-> @.n + 1, sum |-> @.sum + ChangeDelta(c, read)]]
              ELSE moves
  /\ End(r, "ok")
  /\ UNCHANGED names

\* The row is gone (the movement's foreign key or the update fails), or
\* StockMovement.create throws.
ChangeRefused(r) ==
  /\ pc[r] = "change" /\ ~Blocked(r)
  /\ \/ stocks[cmd[r].stock] = None
     \/ ChangePosts(cmd[r], seen[r].row) /\ ~cmd[r].reasonOk
  /\ Fail(r)

----------------------------------------------------------------------------
\* WarehouseRepository.delete.

\* Reads the warehouse with its stocks and deletes the movements of each.
PurgeMovements(r) ==
  /\ pc[r] = "purge" /\ names[cmd[r].wh] # None
  /\ posted' = [posted EXCEPT ![r] =
       [s \in StockId |->
          IF s \in RowsOf(cmd[r].wh) THEN moves[s] ELSE NoMovements]]
  /\ pc' = [pc EXCEPT ![r] = "rows"]
  /\ UNCHANGED <<tables, cmd, agg, todo, item, seen, held, draft>>

\* stockPerWarehouse.deleteMany: locks the rows the warehouse has by now.
DeleteRows(r) ==
  /\ pc[r] = "rows" /\ ~Blocked(r)
  /\ \A s \in RowsOf(cmd[r].wh) : posted[r][s] = moves[s]
  /\ held' = [held EXCEPT ![r] = RowsOf(cmd[r].wh)]
  /\ pc' = [pc EXCEPT ![r] = "drop"]
  /\ UNCHANGED <<tables, cmd, agg, todo, item, seen, draft, posted>>

\* A movement recorded since the purge restricts the deletion of its row.
DeleteRestricted(r) ==
  /\ pc[r] = "rows" /\ ~Blocked(r)
  /\ \E s \in RowsOf(cmd[r].wh) : posted[r][s] # moves[s]
  /\ Fail(r)

\* Mutant: nothing cascades to the rows inserted since deleteMany.
DropLockedRows(r) ==
  LET w == cmd[r].wh IN
  /\ pc[r] = "drop" /\ ~Blocked(r) /\ names[w] # None
  /\ names' = [names EXCEPT ![w] = None]
  /\ stocks' = [s \in StockId |-> IF s \in held[r] THEN None ELSE stocks[s]]
  /\ moves' = [s \in StockId |->
                 IF s \in held[r] THEN NoMovements ELSE moves[s]]
  /\ End(r, "ok")

\* warehouse.delete and commit; rows a concurrent update inserted meanwhile
\* and their movements go by the cascades of the foreign keys.
DropWarehouse(r) ==
  LET w == cmd[r].wh IN
  /\ pc[r] = "drop" /\ ~Blocked(r) /\ names[w] # None
  /\ names' = [names EXCEPT ![w] = None]
  /\ stocks' = [s \in StockId |-> IF s \in RowsOf(w) THEN None ELSE stocks[s]]
  /\ moves' = [s \in StockId |->
                 IF s \in RowsOf(w) THEN NoMovements ELSE moves[s]]
  /\ End(r, "ok")

\* Another deletion was first.
WarehouseGone(r) ==
  /\ pc[r] \in {"purge", "drop"} /\ ~Blocked(r)
  /\ names[cmd[r].wh] = None
  /\ Fail(r)

----------------------------------------------------------------------------
\* The process dies, the 5 s limit of an interactive transaction passes, or
\* the database picks the transaction as a deadlock's victim.
Abort(r) == pc[r] \in Working /\ Fail(r)

\* The ways a handler throws.
RefuseStart(r, c) == NameRefused(r, c) \/ NotFound(r, c) \/ NoSuchStock(r, c)

Refuse(r) ==
  \/ LockRefused(r) \/ RefuseMovement(r) \/ StockGone(r) \/ ChangeRefused(r)
  \/ DeleteRestricted(r) \/ WarehouseGone(r)

Start(r) ==
  \E c \in Commands :
    \/ CreateWarehouse(r, c) \/ UpdateWarehouse(r, c) \/ DeleteWarehouse(r, c)
    \/ CreateStock(r, c) \/ EditStock(r, c) \/ RefuseStart(r, c)

Step(r) ==
  \/ LockWarehouse(r) \/ PickStock(r) \/ InsertStock(r) \/ OverwriteStock(r)
  \/ CommitUpdate(r) \/ ReadStock(r) \/ ChangeStock(r)
  \/ PurgeMovements(r) \/ DeleteRows(r) \/ DropWarehouse(r)
  \/ Refuse(r)

\* Every command has been served.
Served == (\A r \in Requests : pc[r] \in {"ok", "failed"}) /\ UNCHANGED vars

Next == (\E r \in Requests : Start(r) \/ Step(r) \/ Abort(r)) \/ Served

Spec == Init /\ [][Next]_vars

\* A started handler keeps running, and a transaction that stays blocked is
\* ended by its timeout or by the deadlock detector.
Fairness ==
  \A r \in Requests :
    WF_vars(Step(r)) /\ WF_vars(Blocked(r) /\ Abort(r))

FairSpec == Spec /\ Fairness

----------------------------------------------------------------------------
(***************************************************************************)
(* Properties.                                                             *)
(***************************************************************************)

\* Every variable keeps its type; in particular no quantity leaves the
\* range of QtyAvailable and QtyReserved, whatever commands overlap.
TypeOK ==
  /\ names \in [WarehouseId -> Names \cup {None}]
  /\ stocks \in [StockId -> Row \cup {None}]
  /\ moves \in [StockId -> Movements]
  /\ pc \in [Requests -> Working \cup {"idle", "ok", "failed"}]
  /\ cmd \in [Requests -> Commands \cup {None}]
  /\ agg \in [Requests -> Names \cup {None}]
  /\ todo \in [Requests -> SUBSET Item]
  /\ item \in [Requests -> Item \cup {None}]
  /\ seen \in [Requests -> Found \cup {None}]
  /\ held \in [Requests -> SUBSET StockId]
  /\ draft \in [Requests -> [StockId -> Row \cup {None}]]
  /\ posted \in [Requests -> [StockId -> Movements]]

\* A warehouse never has two rows for one variant, removed ones included:
\* the find-then-insert of WarehouseRepository.update is safe because the
\* warehouse row is locked first, so the unique index never refuses it.
OneRowPerVariant ==
  \A s, t \in StockId :
    s # t /\ stocks[s] # None /\ stocks[t] # None
      /\ stocks[s].wh = stocks[t].wh
    => stocks[s].variant # stocks[t].variant

\* Every stock row lies in an existing warehouse and has at least its opening
\* movement, and no movement outlives its row, also while a deletion races
\* with createStock and updateStock.
ReferentialIntegrity ==
  \A s \in StockId :
    /\ stocks[s] # None => names[stocks[s].wh] # None
    /\ stocks[s] # None <=> moves[s].n > 0

\* The journal explains the quantity on hand: the movements of a row sum up
\* to its qtyAvailable ("serves as an audit trail").
AuditTrailBalances ==
  \A s \in StockId : stocks[s] # None => moves[s].sum = stocks[s].avail

\* The transaction of r commits in this step.
Commits(r, kind) ==
  cmd[r] # None /\ cmd[r].kind = kind /\ pc'[r] = "ok"

\* A warehouse that was deleted stays deleted: only createWarehouse makes a
\* warehouse appear, never an update that loaded it before the deletion.
DeletedStaysDeleted ==
  [][\A w \in WarehouseId :
       names[w] = None /\ names'[w] # None
         => w \in Requests /\ pc[w] = "idle"]_vars

\* updateWarehouse rewrites every stock of the aggregate it loaded, however
\* stale, but it never adds a movement to the journal.
RenamePostsNothing ==
  [][\A r \in Requests :
       Commits(r, "updateWarehouse") => UNCHANGED moves]_vars

\* When createStock reports success its variant is on the shelf with the
\* quantities asked for, whether the row was absent, removed or active.
CreatedStockIsActive ==
  [][\A r \in Requests : Commits(r, "createStock") =>
       \E s \in StockId :
         stocks'[s] = [wh |-> cmd[r].wh, variant |-> cmd[r].variant,
                       avail |-> cmd[r].avail, reserved |-> cmd[r].reserved,
                       deleted |-> FALSE]]_vars

\* Every started command is answered: lock waits, including the deadlock of a
\* deletion (stock rows, then warehouse) with an update (warehouse, then
\* stock rows), do not leave a request pending for ever.
EveryCommandAnswered ==
  \A r \in Requests : pc[r] \in Working ~> pc[r] \in {"ok", "failed"}

----------------------------------------------------------------------------
\* The shelves a client sees: the active rows' quantities.
OnShelf(w, v) ==
  LET rows == {s \in ActiveRowsOf(w) : stocks[s].variant = v}
  IN IF rows = {} THEN None ELSE stocks[CHOOSE s \in rows : TRUE].avail

Shelves ==
  INSTANCE WarehouseShelves WITH
    shelf <- [w \in WarehouseId |->
                IF names[w] = None THEN None
                ELSE [v \in Variants |-> OnShelf(w, v)]]

\* When commands do not overlap, writing back a whole aggregate is the same as
\* changing the one variant the command names: every committed command is one
\* step of WarehouseShelves.
CommandsChangeOneShelf == Shelves!Spec
=============================================================================
