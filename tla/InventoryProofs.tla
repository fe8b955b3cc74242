-------------------------- MODULE InventoryProofs --------------------------
(* Proofs of the safety properties of Inventory, for every instance.        *)
EXTENDS InventoryInv, TLAPS

\* The fields a command of each kind has.
LEMMA CommandFields ==
  ASSUME NEW c \in Commands
  PROVE  /\ c # None
         /\ c.kind \in {"createWarehouse", "updateWarehouse",
                        "deleteWarehouse", "createStock", "updateStock",
                        "deleteStock"}
         /\ c.kind = "createWarehouse" => c.name \in Names
         /\ c.kind # "createWarehouse" => c.wh \in WarehouseId
         /\ c.kind = "updateWarehouse" => c.name \in Names
         /\ c.kind = "createStock" =>
              c.variant \in Variants /\ c.avail \in Qty /\ c.reserved \in Qty
         /\ c.kind \in {"updateStock", "deleteStock"} =>
              /\ c.stock \in StockId
              /\ c.avail \in Qty \cup {None} /\ c.reserved \in Qty \cup {None}
<1>1. c # None
  BY NoneAssumption
<1>2. c \in Command
  BY CommandsAssumption
<1>3. 0 \in Qty
  BY MaxQtyAssumption DEF Qty
<1> QED
  BY <1>1, <1>2, <1>3 DEF Command, Given

\* The tables and locals of Init have their types.
LEMMA InitTypeOK == Init => TypeOK
<1> SUFFICES ASSUME Init PROVE TypeOK
  OBVIOUS
<1>1. PICK ns \in [InitWarehouses -> Names \cup {None}],
           rows \in [InitStocks -> InitRow \cup {None}] :
        /\ names = [w \in WarehouseId |->
                      IF w \in InitWarehouses THEN ns[w] ELSE None]
        /\ stocks = [s \in StockId |->
                       IF s \in InitStocks THEN rows[s] ELSE None]
  BY DEF Init
<1>2. names \in [WarehouseId -> Names \cup {None}]
  BY <1>1 DEF WarehouseId
<1>3. InitRow \subseteq Row
  BY DEF InitRow, Row, WarehouseId
<1>4. stocks \in [StockId -> Row \cup {None}]
  BY <1>1, <1>3 DEF StockId
<1>5. moves \in [StockId -> Movements]
  <2> SUFFICES ASSUME NEW s \in StockId
               PROVE OpeningMovements(stocks[s]) \in Movements
    BY DEF Init
  <2>1. stocks[s] # None => stocks[s].avail \in Nat
    BY <1>4, MaxQtyAssumption DEF Row, Qty
  <2> QED
    BY <2>1 DEF OpeningMovements, Movements, NoMovements
<1> QED
  BY <1>2, <1>4, <1>5
     DEF Init, TypeOK, NoDraft, NoPosts, NoMovements, Movements

\* Leaving a handler keeps the types, whatever it did to the tables.
LEMMA EndTypeOK ==
  ASSUME TypeOK, NEW r \in Requests, NEW o \in {"ok", "failed"}, End(r, o)
  PROVE  /\ pc' \in [Requests -> Working \cup {"idle", "ok", "failed"}]
         /\ cmd' \in [Requests -> Commands \cup {None}]
         /\ agg' \in [Requests -> Names \cup {None}]
         /\ todo' \in [Requests -> SUBSET Item]
         /\ item' \in [Requests -> Item \cup {None}]
         /\ seen' \in [Requests -> Found \cup {None}]
         /\ held' \in [Requests -> SUBSET StockId]
         /\ draft' \in [Requests -> [StockId -> Row \cup {None}]]
         /\ posted' \in [Requests -> [StockId -> Movements]]
BY DEF TypeOK, End, NoDraft, NoPosts, NoMovements, Movements

\* A handler that throws keeps the types.
LEMMA FailTypeOK ==
  ASSUME TypeOK, NEW r \in Requests, Fail(r)
  PROVE  TypeOK'
<1>1. End(r, "failed") /\ UNCHANGED <<names, stocks, moves>>
  BY DEF Fail, tables
<1> QED
  BY <1>1, EndTypeOK DEF TypeOK

\* The stocks of a loaded aggregate are items.
LEMMA LoadedItemsType ==
  ASSUME TypeOK, NEW w \in WarehouseId
  PROVE  LoadedItems(w) \subseteq Item
BY DEF TypeOK, LoadedItems, ActiveRowsOf, RowsOf, AsItem, Item, Row

\* What a transaction reads of a stock is a row or nothing.
LEMMA ViewType ==
  ASSUME TypeOK, NEW r \in Requests, NEW s \in StockId
  PROVE  View(r, s) \in Row \cup {None}
BY DEF TypeOK, View

\* The first step of every command keeps the types.
LEMMA StartTypeOK ==
  ASSUME TypeOK, NEW r \in Requests, Start(r)
  PROVE  TypeOK'
<1>1. PICK c \in Commands :
        \/ CreateWarehouse(r, c) \/ UpdateWarehouse(r, c)
        \/ DeleteWarehouse(r, c) \/ CreateStock(r, c) \/ EditStock(r, c)
        \/ RefuseStart(r, c)
  BY DEF Start
<1> USE CommandFields
<1>2. CASE CreateWarehouse(r, c)
  <2>1. names' \in [WarehouseId -> Names \cup {None}]
    BY <1>2 DEF TypeOK, CreateWarehouse, WarehouseId
  <2> QED
    BY <1>2, <2>1, EndTypeOK DEF TypeOK, CreateWarehouse
<1>3. CASE UpdateWarehouse(r, c)
  BY <1>3, LoadedItemsType
     DEF TypeOK, UpdateWarehouse, Enter, Working, tables
<1>4. CASE DeleteWarehouse(r, c)
  BY <1>4 DEF TypeOK, DeleteWarehouse, Enter, Working, tables
<1>5. CASE CreateStock(r, c)
  <2>1. NewItem(r, c) \in Item
    BY <1>5 DEF NewItem, Item, StockId, CreateStock
  <2>2. LoadedItems(c.wh) \cup {NewItem(r, c)} \subseteq Item
    BY <1>5, <2>1, LoadedItemsType DEF CreateStock
  <2>3. names[c.wh] \in Names \cup {None}
    BY <1>5 DEF TypeOK, CreateStock
  <2> QED
    BY <1>5, <2>2, <2>3 DEF TypeOK, CreateStock, Enter, Working, tables
<1>6. CASE EditStock(r, c)
  BY <1>6 DEF TypeOK, EditStock, Enter, Working, tables
<1>7. CASE RefuseStart(r, c)
  BY <1>7, FailTypeOK DEF RefuseStart, NameRefused, NotFound, NoSuchStock
<1> QED
  BY <1>1, <1>2, <1>3, <1>4, <1>5, <1>6, <1>7

\* The command of a working request is one of Commands.
LEMMA CurrentCommand ==
  ASSUME TypeOK, HandlerState, NEW r \in Requests, pc[r] \in Working
  PROVE  cmd[r] \in Commands
BY DEF TypeOK, HandlerState

\* Writing a row in an open transaction keeps the types.
LEMMA DraftTypeOK ==
  ASSUME TypeOK, NEW r \in Requests, NEW s \in StockId, NEW x \in Row,
         item[r] # None, Draft(r, s, x)
  PROVE  /\ held' \in [Requests -> SUBSET StockId]
         /\ draft' \in [Requests -> [StockId -> Row \cup {None}]]
         /\ posted' \in [Requests -> [StockId -> Movements]]
<1>1. Delta(r) \in Int
  BY MaxQtyAssumption DEF TypeOK, Delta, Item, Found, Row, Qty
<1>2. posted[r][s].n + 1 \in Nat /\ posted[r][s].sum + Delta(r) \in Int
  BY <1>1 DEF TypeOK, Movements
<1>3. posted' \in [Requests -> [StockId -> Movements]]
  BY <1>2 DEF TypeOK, Draft, Movements
<1> QED
  BY <1>3 DEF TypeOK, Draft

\* Going on with the update loop keeps the types.
LEMMA NextTurnTypeOK ==
  ASSUME TypeOK, NEW r \in Requests, NextTurn(r),
         held' \in [Requests -> SUBSET StockId],
         draft' \in [Requests -> [StockId -> Row \cup {None}]],
         posted' \in [Requests -> [StockId -> Movements]]
  PROVE  TypeOK'
BY DEF TypeOK, NextTurn, tables, Working

\* The row an update has read is there for it to overwrite.
LEMMA FoundStillThere ==
  ASSUME Drafts, ReadsHold, NEW r \in Requests,
         pc[r] = "write", seen[r] # None
  PROVE  View(r, seen[r].id) # None
BY DEF Drafts, ReadsHold, InLoop, View, IsRowOf

\* Every later step of a handler keeps the types.
LEMMA StepTypeOK ==
  ASSUME TypeOK, HandlerState, Drafts, ReadsHold, NEW r \in Requests, Step(r)
  PROVE  TypeOK'
<1>1. CASE LockWarehouse(r)
  BY <1>1 DEF TypeOK, LockWarehouse, Working, tables, locals
<1>2. CASE PickStock(r)
  <2>1. PICK i \in NextItems(r) :
          /\ todo' = [todo EXCEPT ![r] = @ \ {i}]
          /\ item' = [item EXCEPT ![r] = i]
          /\ \/ seen' = [seen EXCEPT ![r] = None]
             \/ \E s \in Existing(r, i) :
                  seen' = [seen EXCEPT ![r] = [id |-> s, row |-> View(r, s)]]
    BY <1>2 DEF PickStock
  <2>2. i \in Item
    BY <2>1 DEF TypeOK, NextItems
  <2>3. \A s \in Existing(r, i) : [id |-> s, row |-> View(r, s)] \in Found
    BY ViewType DEF Existing, Found
  <2>4. seen' \in [Requests -> Found \cup {None}]
    BY <2>1, <2>3 DEF TypeOK
  <2> QED
    BY <1>2, <2>1, <2>2, <2>4 DEF TypeOK, PickStock, Working, tables
<1>3. CASE InsertStock(r)
  <2>1. cmd[r] \in Commands /\ cmd[r].wh \in WarehouseId
    BY <1>3, CurrentCommand, CommandFields
       DEF InsertStock, HandlerState, Working
  <2>2. item[r] \in Item
    BY <1>3 DEF TypeOK, HandlerState, InsertStock
  <2> DEFINE x == [wh |-> cmd[r].wh, variant |-> item[r].variant,
                   avail |-> item[r].avail, reserved |-> item[r].reserved,
                   deleted |-> FALSE]
  <2>3. x \in Row /\ item[r].id \in StockId
    BY <2>1, <2>2 DEF Item, Row
  <2>4. Draft(r, item[r].id, x) /\ NextTurn(r)
    BY <1>3 DEF InsertStock
  <2>5. item[r] # None
    BY <2>2, NoneAssumption
  <2> HIDE DEF x
  <2> QED
    BY <2>3, <2>4, <2>5, DraftTypeOK, NextTurnTypeOK
<1>4. CASE OverwriteStock(r)
  <2>1. seen[r] \in Found /\ item[r] \in Item
    BY <1>4 DEF TypeOK, HandlerState, OverwriteStock
  <2> DEFINE s == seen[r].id
             x == Overwritten(View(r, s), item[r], seen[r].row)
  <2>2. s \in StockId
    BY <2>1 DEF Found
  <2>3. Draft(r, s, x) /\ NextTurn(r)
    BY <1>4 DEF OverwriteStock
  <2>4. View(r, s) # None
    BY <1>4, FoundStillThere DEF OverwriteStock
  <2>5. x \in Row
    BY <2>1, <2>2, <2>4, ViewType DEF Item, Row, Overwritten
  <2>6. item[r] # None
    BY <2>1, NoneAssumption
  <2> HIDE DEF s, x
  <2> QED
    BY <2>2, <2>3, <2>5, <2>6, DraftTypeOK, NextTurnTypeOK
<1>5. CASE CommitUpdate(r)
  <2>1. stocks' \in [StockId -> Row \cup {None}]
    BY <1>5, ViewType DEF CommitUpdate
  <2>2. moves' \in [StockId -> Movements]
    BY <1>5 DEF TypeOK, CommitUpdate, Movements
  <2>3. names' \in [WarehouseId -> Names \cup {None}]
    BY <1>5 DEF TypeOK, CommitUpdate
  <2>4. End(r, "ok")
    BY <1>5 DEF CommitUpdate
  <2> QED
    BY <2>1, <2>2, <2>3, <2>4, EndTypeOK DEF TypeOK
<1>6. CASE ReadStock(r)
  <2>1. [id |-> cmd[r].stock, row |-> stocks[cmd[r].stock]] \in Found
    BY <1>6 DEF TypeOK, ReadStock, ActiveRowsOf, RowsOf, Found
  <2> QED
    BY <1>6, <2>1 DEF TypeOK, ReadStock, Working, tables
<1>7. CASE ChangeStock(r)
  <2> DEFINE c == cmd[r]
             s == c.stock
             read == seen[r].row
  <2>1. /\ c \in Commands /\ s \in StockId
        /\ c.avail \in Qty \cup {None} /\ c.reserved \in Qty \cup {None}
    BY <1>7, CurrentCommand, CommandFields
       DEF ChangeStock, HandlerState, Working
  <2>2. read \in Row
    BY <1>7 DEF TypeOK, HandlerState, ChangeStock, Found
  <2>3. /\ OrElse(c.avail, read.avail) \in Qty
        /\ OrElse(c.reserved, read.reserved) \in Qty
    BY <2>1, <2>2 DEF OrElse, Row
  <2>4. ChangeDelta(c, read) \in Int
    BY <2>2, <2>3, MaxQtyAssumption DEF ChangeDelta, Qty, Row
  <2>5. stocks[s] \in Row
    BY <1>7, <2>1 DEF TypeOK, ChangeStock
  <2>6. ChangedRow(c, read, stocks[s]) \in Row
    BY <2>3, <2>5, MaxQtyAssumption DEF ChangedRow, Row, Qty
  <2>7. stocks' \in [StockId -> Row \cup {None}]
    BY <1>7, <2>1, <2>6 DEF TypeOK, ChangeStock
  <2>8. /\ End(r, "ok") /\ UNCHANGED names
        /\ moves' = IF ChangePosts(c, read)
                    THEN [moves EXCEPT ![s] =
                            [n |-> @.n + 1,
                             sum |-> @.sum + ChangeDelta(c, read)]]
                    ELSE moves
    BY <1>7 DEF ChangeStock
  <2> HIDE DEF c, s, read
  <2>9. moves' \in [StockId -> Movements]
    BY <2>1, <2>4, <2>8 DEF TypeOK, Movements
  <2> QED
    BY <2>7, <2>8, <2>9, EndTypeOK DEF TypeOK
<1>8. CASE PurgeMovements(r)
  <2>1. posted' \in [Requests -> [StockId -> Movements]]
    BY <1>8 DEF TypeOK, PurgeMovements, NoMovements, Movements
  <2> QED
    BY <1>8, <2>1 DEF TypeOK, PurgeMovements, Working, tables
<1>9. CASE DeleteRows(r)
  BY <1>9 DEF TypeOK, DeleteRows, Working, tables, RowsOf
<1>10. CASE DropWarehouse(r)
  <2>1. names' \in [WarehouseId -> Names \cup {None}]
    BY <1>10 DEF TypeOK, DropWarehouse
  <2>2. stocks' \in [StockId -> Row \cup {None}]
    BY <1>10 DEF TypeOK, DropWarehouse
  <2>3. moves' \in [StockId -> Movements]
    BY <1>10 DEF TypeOK, DropWarehouse, NoMovements, Movements
  <2> QED
    BY <1>10, <2>1, <2>2, <2>3, EndTypeOK DEF TypeOK, DropWarehouse
<1>11. CASE Refuse(r)
  BY <1>11, FailTypeOK
     DEF Refuse, LockRefused, RefuseMovement, StockGone, ChangeRefused,
         DeleteRestricted, WarehouseGone
<1> QED
  BY <1>1, <1>2, <1>3, <1>4, <1>5, <1>6, <1>7, <1>8, <1>9, <1>10, <1>11
     DEF Step

\* What leaving a handler does to the locals, field by field.
LEMMA EndEffect ==
  ASSUME TypeOK, NEW r \in Requests, NEW o \in {"ok", "failed"}, End(r, o)
  PROVE  /\ pc'[r] = o /\ cmd'[r] = None /\ todo'[r] = {} /\ held'[r] = {}
         /\ posted'[r] = NoPosts
         /\ \A q \in Requests \ {r} :
              /\ pc'[q] = pc[q] /\ cmd'[q] = cmd[q] /\ agg'[q] = agg[q]
              /\ todo'[q] = todo[q] /\ item'[q] = item[q]
              /\ seen'[q] = seen[q] /\ held'[q] = held[q]
              /\ draft'[q] = draft[q] /\ posted'[q] = posted[q]
BY DEF TypeOK, End

\* A handler that throws leaves the tables as they were, and the
\* invariant with them.
LEMMA FailIInv ==
  ASSUME IInv, NEW r \in Requests, Fail(r)
  PROVE  IInv'
<1> USE DEF InLoop, Working
<1>1. TypeOK'
  BY FailTypeOK DEF IInv
<1>2. End(r, "failed") /\ UNCHANGED <<names, stocks, moves>>
  BY DEF Fail, tables
<1>3. /\ pc'[r] = "failed" /\ held'[r] = {} /\ posted'[r] = NoPosts
      /\ \A q \in Requests \ {r} :
              /\ pc'[q] = pc[q] /\ cmd'[q] = cmd[q] /\ agg'[q] = agg[q]
              /\ todo'[q] = todo[q] /\ item'[q] = item[q]
              /\ seen'[q] = seen[q] /\ held'[q] = held[q]
              /\ draft'[q] = draft[q] /\ posted'[q] = posted[q]
  BY <1>2, EndEffect DEF IInv
<1>4. HandlerState'
  BY <1>3 DEF IInv, HandlerState
<1>5. UpdatesExcludeEachOther'
  BY <1>2, <1>3 DEF IInv, UpdatesExcludeEachOther
<1>6. FreshIdentifiers'
  BY <1>2, <1>3 DEF IInv, FreshIdentifiers
<1>7. LoadedStocks'
  BY <1>2, <1>3 DEF IInv, LoadedStocks, Loaded, IsRowOf
<1>8. Drafts'
  BY <1>2, <1>3 DEF IInv, Drafts, NoOtherRow, IsRowOf
<1>9. ReadsHold'
  BY <1>2, <1>3 DEF IInv, ReadsHold, NoOtherRow, IsRowOf
<1>10. Postings'
  BY <1>2, <1>3 DEF IInv, Postings
<1>11. NothingPostedYet'
  BY <1>3 DEF IInv, NothingPostedYet, NoPosts
<1>12. NewStockIsLast'
  BY <1>3 DEF IInv, NewStockIsLast
<1>13. OneRowPerVariant' /\ ReferentialIntegrity'
  BY <1>2 DEF IInv, OneRowPerVariant, ReferentialIntegrity
<1> QED
  BY <1>1, <1>4, <1>5, <1>6, <1>7, <1>8, <1>9, <1>10, <1>11, <1>12, <1>13
     DEF IInv

\* A created warehouse has a fresh identifier: it has no stock yet.
LEMMA CreateWarehouseIInv ==
  ASSUME IInv, NEW r \in Requests, NEW c \in Commands, CreateWarehouse(r, c)
  PROVE  IInv'
<1> USE DEF InLoop, Working
<1>1. TypeOK'
  BY StartTypeOK DEF IInv, Start
<1>2. /\ pc'[r] = "ok" /\ held'[r] = {} /\ posted'[r] = NoPosts
      /\ \A q \in Requests \ {r} :
              /\ pc'[q] = pc[q] /\ cmd'[q] = cmd[q] /\ agg'[q] = agg[q]
              /\ todo'[q] = todo[q] /\ item'[q] = item[q]
              /\ seen'[q] = seen[q] /\ held'[q] = held[q]
              /\ draft'[q] = draft[q] /\ posted'[q] = posted[q]
  BY EndEffect DEF IInv, CreateWarehouse
<1>3. /\ pc[r] = "idle" /\ c.name # None
      /\ stocks' = stocks /\ moves' = moves
      /\ names' = [names EXCEPT ![r] = c.name]
  BY CommandFields, NoneAssumption DEF CreateWarehouse, Begin
<1>4. /\ names'[r] # None
      /\ \A w \in WarehouseId \ {r} : names'[w] = names[w]
  BY <1>3 DEF IInv, TypeOK, WarehouseId
<1>5. \A q \in Requests : pc[q] \in {"lock", "loop", "write"} =>
        cmd[q].wh \in WarehouseId \ {r}
  BY <1>3, CurrentCommand, CommandFields
     DEF IInv, HandlerState, FreshIdentifiers
<1>6. HandlerState'
  BY <1>2 DEF IInv, HandlerState
<1>7. UpdatesExcludeEachOther'
  BY <1>2, <1>4, <1>5 DEF IInv, UpdatesExcludeEachOther
<1>8. FreshIdentifiers'
  BY <1>2, <1>3, <1>4 DEF IInv, FreshIdentifiers, WarehouseId
<1>9. LoadedStocks'
  BY <1>2, <1>3, <1>4, <1>5 DEF IInv, LoadedStocks, Loaded, IsRowOf
<1>10. Drafts'
  BY <1>2, <1>3 DEF IInv, Drafts, NoOtherRow, IsRowOf
<1>11. ReadsHold'
  BY <1>2, <1>3 DEF IInv, ReadsHold, NoOtherRow, IsRowOf
<1>12. Postings' /\ NothingPostedYet'
  BY <1>2, <1>3 DEF IInv, Postings, NothingPostedYet, NoPosts
<1>13. OneRowPerVariant' /\ NewStockIsLast'
  BY <1>2, <1>3 DEF IInv, OneRowPerVariant, NewStockIsLast
<1>14. ReferentialIntegrity'
  <2> SUFFICES ASSUME NEW s \in StockId
               PROVE /\ stocks[s] # None => names'[stocks[s].wh] # None
                     /\ stocks[s] # None <=> moves[s].n > 0
    BY <1>3 DEF ReferentialIntegrity
  <2>1. stocks[s] # None => stocks[s].wh \in WarehouseId
    BY DEF IInv, TypeOK, Row
  <2> QED
    BY <2>1, <1>4 DEF IInv, ReferentialIntegrity
<1> QED
  BY <1>1, <1>6, <1>7, <1>8, <1>9, <1>10, <1>11, <1>12, <1>13, <1>14
     DEF IInv

\* The stocks an aggregate is loaded with are rows of its warehouse.
LEMMA LoadedItemsRows ==
  ASSUME NEW w \in WarehouseId, NEW i \in LoadedItems(w)
  PROVE  IsRowOf(i.id, w, i.variant)
BY DEF LoadedItems, ActiveRowsOf, RowsOf, AsItem, IsRowOf

\* The four handlers that load an aggregate and go on.
LEMMA EnterIInv ==
  ASSUME IInv, NEW r \in Requests, NEW c \in Commands,
         \/ UpdateWarehouse(r, c) \/ DeleteWarehouse(r, c)
         \/ CreateStock(r, c) \/ EditStock(r, c)
  PROVE  IInv'
<1> USE DEF InLoop, Working
<1>1. TypeOK'
  BY StartTypeOK DEF IInv, Start
<1>2. /\ pc[r] = "idle" /\ names[c.wh] # None /\ c # None
      /\ c.wh \in WarehouseId
      /\ UNCHANGED <<names, stocks, moves, item, seen, held, draft, posted>>
      /\ cmd' = [cmd EXCEPT ![r] = c]
  BY CommandFields
     DEF UpdateWarehouse, DeleteWarehouse, CreateStock, EditStock, Begin,
         Enter, tables
<1>3. PICK place \in {"lock", "read", "purge"} :
        /\ pc' = [pc EXCEPT ![r] = place]
        /\ place = "lock" =>
             c.kind \in {"updateWarehouse", "createStock"} /\ agg'[r] # None
        /\ place = "read" => c.kind \in {"updateStock", "deleteStock"}
        /\ place = "purge" => c.kind = "deleteWarehouse"
  <2>1. CASE UpdateWarehouse(r, c)
    <3>1. c.name # None
      BY <2>1, CommandFields, NoneAssumption DEF UpdateWarehouse
    <3> QED
      BY <2>1, <3>1 DEF UpdateWarehouse, Enter, IInv, TypeOK
  <2>2. CASE DeleteWarehouse(r, c)
    BY <2>2 DEF DeleteWarehouse, Enter
  <2>3. CASE CreateStock(r, c)
    BY <2>3, <1>2 DEF CreateStock, Enter, IInv, TypeOK
  <2>4. CASE EditStock(r, c)
    BY <2>4 DEF EditStock, Enter
  <2> QED
    BY <2>1, <2>2, <2>3, <2>4
<1>4. /\ pc'[r] = place /\ cmd'[r] = c
      /\ \A q \in Requests \ {r} :
           /\ pc'[q] = pc[q] /\ cmd'[q] = cmd[q] /\ agg'[q] = agg[q]
           /\ todo'[q] = todo[q]
  BY <1>2, <1>3
     DEF IInv, TypeOK, UpdateWarehouse, DeleteWarehouse, CreateStock,
         EditStock, Enter
<1>5. held[r] = {} /\ posted[r] = NoPosts
  BY <1>2 DEF IInv, NothingPostedYet
<1>6. \A i \in todo'[r] : place = "lock" =>
        i.id = r \/ IsRowOf(i.id, c.wh, i.variant)
  <2>1. CASE UpdateWarehouse(r, c)
    BY <2>1, <1>2, LoadedItemsRows DEF UpdateWarehouse, IInv, TypeOK
  <2>2. CASE CreateStock(r, c)
    BY <2>2, <1>2, LoadedItemsRows DEF CreateStock, NewItem, IInv, TypeOK
  <2>3. CASE DeleteWarehouse(r, c) \/ EditStock(r, c)
    BY <2>3, <1>3, <1>4 DEF DeleteWarehouse, EditStock, Enter
  <2> QED
    BY <2>1, <2>2, <2>3
<1>7. HandlerState'
  BY <1>2, <1>3, <1>4, <1>5 DEF IInv, HandlerState
<1>8. UpdatesExcludeEachOther'
  BY <1>2, <1>4 DEF IInv, UpdatesExcludeEachOther
<1>9. FreshIdentifiers'
  BY <1>2, <1>3, <1>4 DEF IInv, FreshIdentifiers
<1>10. LoadedStocks'
  BY <1>2, <1>3, <1>4, <1>6 DEF IInv, LoadedStocks, Loaded, IsRowOf
<1>11. Drafts'
  BY <1>2, <1>4 DEF IInv, Drafts, NoOtherRow, IsRowOf
<1>12. ReadsHold'
  BY <1>2, <1>4 DEF IInv, ReadsHold, NoOtherRow, IsRowOf
<1>13. Postings' /\ NothingPostedYet'
  BY <1>2, <1>4, <1>5 DEF IInv, Postings, NothingPostedYet, NoPosts
<1>14. OneRowPerVariant' /\ ReferentialIntegrity'
  BY <1>2 DEF IInv, OneRowPerVariant, ReferentialIntegrity
<1>15. NewStockIsLast'
  BY <1>2, <1>4 DEF IInv, NewStockIsLast
<1> QED
  BY <1>1, <1>7, <1>8, <1>9, <1>10, <1>11, <1>12, <1>13, <1>14, <1>15
     DEF IInv

\* The lock of warehouse.update is granted only when no other open update
\* has the warehouse.
LEMMA LockWarehouseIInv ==
  ASSUME IInv, NEW r \in Requests, LockWarehouse(r)
  PROVE  IInv'
<1> USE DEF InLoop, Working
<1>1. TypeOK'
  BY StepTypeOK DEF IInv, Step
<1>2. /\ pc[r] = "lock" /\ names[cmd[r].wh] # None
      /\ pc' = [pc EXCEPT ![r] = "loop"]
      /\ UNCHANGED <<names, stocks, moves, cmd, agg, todo, item, seen, held,
                     draft, posted>>
      /\ \A q \in Requests \ {r} :
           pc[q] \in InLoop => cmd[q].wh # cmd[r].wh
  BY DEF LockWarehouse, Blocked, WarehouseLocked, tables, locals
<1>3. pc'[r] = "loop" /\ \A q \in Requests \ {r} : pc'[q] = pc[q]
  BY <1>2 DEF IInv, TypeOK
<1>4. HandlerState'
  BY <1>2, <1>3 DEF IInv, HandlerState
<1>5. UpdatesExcludeEachOther'
  BY <1>2, <1>3 DEF IInv, UpdatesExcludeEachOther
<1>6. FreshIdentifiers'
  BY <1>2, <1>3 DEF IInv, FreshIdentifiers
<1>7. LoadedStocks'
  BY <1>2, <1>3 DEF IInv, LoadedStocks, Loaded, IsRowOf
<1>8. held[r] = {} /\ posted[r] = NoPosts
  BY <1>2 DEF IInv, NothingPostedYet
<1>9. Drafts'
  BY <1>2, <1>3, <1>8 DEF IInv, Drafts, NoOtherRow, IsRowOf
<1>10. ReadsHold'
  BY <1>2, <1>3 DEF IInv, ReadsHold, NoOtherRow, IsRowOf
<1>11. Postings'
  BY <1>2, <1>3, <1>8 DEF IInv, Postings, NoPosts, NoMovements
<1>12. NothingPostedYet'
  BY <1>2, <1>3 DEF IInv, NothingPostedYet, NoPosts
<1>13. OneRowPerVariant' /\ ReferentialIntegrity'
  BY <1>2 DEF IInv, OneRowPerVariant, ReferentialIntegrity
<1>14. NewStockIsLast'
  BY <1>2, <1>3, <1>8 DEF IInv, NewStockIsLast
<1> QED
  BY <1>1, <1>4, <1>5, <1>6, <1>7, <1>9, <1>10, <1>11, <1>12, <1>13, <1>14
     DEF IInv

\* What findFirst returns is a row of the warehouse for the item's variant.
LEMMA PickStockIInv ==
  ASSUME IInv, NEW r \in Requests, PickStock(r)
  PROVE  IInv'
<1> USE DEF InLoop, Working
<1>1. TypeOK'
  BY StepTypeOK DEF IInv, Step
<1>2. PICK i \in NextItems(r) :
        /\ todo' = [todo EXCEPT ![r] = @ \ {i}]
        /\ item' = [item EXCEPT ![r] = i]
        /\ \/ /\ Existing(r, i) = {}
              /\ seen' = [seen EXCEPT ![r] = None]
           \/ \E s \in Existing(r, i) :
                seen' = [seen EXCEPT ![r] = [id |-> s, row |-> View(r, s)]]
  BY DEF PickStock
<1>3. /\ pc[r] = "loop" /\ pc' = [pc EXCEPT ![r] = "write"]
      /\ UNCHANGED <<names, stocks, moves, cmd, agg, held, draft, posted>>
  BY DEF PickStock, tables
<1>4. i \in todo[r] /\ i \in Item
  BY <1>2 DEF NextItems, IInv, TypeOK
<1>5. /\ pc'[r] = "write" /\ todo'[r] = todo[r] \ {i} /\ item'[r] = i
      /\ \A q \in Requests \ {r} :
           /\ pc'[q] = pc[q] /\ todo'[q] = todo[q] /\ item'[q] = item[q]
           /\ seen'[q] = seen[q]
  BY <1>2, <1>3 DEF IInv, TypeOK
<1>6. names[cmd[r].wh] # None
  BY <1>3 DEF IInv, UpdatesExcludeEachOther
<1>7. Loaded(r, i)
  BY <1>3, <1>4 DEF IInv, LoadedStocks
<1>8. HandlerState'
  BY <1>3, <1>4, <1>5, NoneAssumption DEF IInv, HandlerState
<1>9. UpdatesExcludeEachOther' /\ FreshIdentifiers'
  BY <1>3, <1>5 DEF IInv, UpdatesExcludeEachOther, FreshIdentifiers
<1>10. LoadedStocks'
  BY <1>3, <1>5, <1>7 DEF IInv, LoadedStocks, Loaded, IsRowOf
<1>11. Drafts'
  BY <1>3, <1>5 DEF IInv, Drafts, NoOtherRow, IsRowOf
<1>12. ReadsHold'
  <2>1. CASE Existing(r, i) = {} /\ seen' = [seen EXCEPT ![r] = None]
    <3>1. seen'[r] = None
      BY <2>1 DEF IInv, TypeOK
    <3>2. ASSUME NEW s \in StockId, IsRowOf(s, cmd[r].wh, i.variant)
          PROVE FALSE
      <4>1. s # r
        BY <1>3, <3>2 DEF IsRowOf, IInv, FreshIdentifiers
      <4>2. CASE s \in held[r]
        BY <1>3, <2>1, <3>2, <4>1, <4>2
           DEF Existing, View, IInv, Drafts, IsRowOf
      <4>3. CASE s \notin held[r]
        BY <2>1, <3>2, <4>3 DEF Existing, View, IsRowOf
      <4> QED
        BY <4>2, <4>3
    <3>3. i.id = r
      BY <1>4, <1>6, <1>7, <3>2 DEF Loaded, Item
    <3> QED
      BY <1>3, <1>5, <3>1, <3>2, <3>3
         DEF IInv, ReadsHold, NoOtherRow, IsRowOf
  <2>2. CASE \E s \in Existing(r, i) :
               seen' = [seen EXCEPT ![r] = [id |-> s, row |-> View(r, s)]]
    <3>1. PICK s \in Existing(r, i) :
            seen' = [seen EXCEPT ![r] = [id |-> s, row |-> View(r, s)]]
      BY <2>2
    <3>2. seen'[r] = [id |-> s, row |-> View(r, s)]
      BY <3>1 DEF IInv, TypeOK
    <3>3. s \in StockId /\ View(r, s) # None /\ View(r, s).wh = cmd[r].wh
            /\ View(r, s).variant = i.variant
      BY DEF Existing
    <3>4. IsRowOf(s, cmd[r].wh, i.variant)
      <4>1. CASE s \in held[r]
        <5>1. s # r
          BY <1>3, <1>4, <4>1 DEF IInv, NewStockIsLast
        <5> QED
          BY <1>3, <3>3, <4>1, <5>1 DEF View, IInv, Drafts
      <4>2. CASE s \notin held[r]
        BY <3>3, <4>2 DEF View, IsRowOf
      <4> QED
        BY <4>1, <4>2
    <3>5. seen'[r] # None
      BY <3>2, <3>3, ViewType, NoneAssumption DEF IInv, Found
    <3> QED
      BY <1>3, <1>5, <3>2, <3>4, <3>5
         DEF IInv, ReadsHold, NoOtherRow, IsRowOf
  <2> QED
    BY <1>2, <2>1, <2>2
<1>13. Postings'
  BY <1>3, <1>5 DEF IInv, Postings
<1>14. NothingPostedYet'
  BY <1>3, <1>5 DEF IInv, NothingPostedYet, NoPosts
<1>16. NewStockIsLast'
  BY <1>2, <1>3, <1>4, <1>5 DEF IInv, NewStockIsLast, NextItems
<1>15. OneRowPerVariant' /\ ReferentialIntegrity'
  BY <1>3 DEF IInv, OneRowPerVariant, ReferentialIntegrity
<1> QED
  BY <1>1, <1>8, <1>9, <1>10, <1>11, <1>12, <1>13, <1>14, <1>15, <1>16 DEF IInv

\* What writing row x to s and going on with the loop does, field by field.
LEMMA DraftEffect ==
  ASSUME TypeOK, NEW r \in Requests, NEW s \in StockId, NEW x,
         Draft(r, s, x), NextTurn(r)
  PROVE  /\ UNCHANGED <<names, stocks, moves, cmd, agg, todo>>
         /\ pc'[r] = "loop" /\ held'[r] = held[r] \cup {s}
         /\ draft'[r][s] = x
         /\ \A t \in StockId \ {s} :
              draft'[r][t] = draft[r][t] /\ posted'[r][t] = posted[r][t]
         /\ posted'[r][s].n =
              IF PostsMovement(r) THEN posted[r][s].n + 1 ELSE posted[r][s].n
         /\ \A q \in Requests \ {r} :
              /\ pc'[q] = pc[q] /\ held'[q] = held[q] /\ item'[q] = item[q]
              /\ seen'[q] = seen[q] /\ draft'[q] = draft[q]
              /\ posted'[q] = posted[q]
BY DEF TypeOK, Draft, NextTurn, tables

\* Writing a row of the warehouse that keeps its variant.
LEMMA DraftIInv ==
  ASSUME IInv, NEW r \in Requests, NEW s \in StockId, NEW x \in Row,
         pc[r] = "write", TypeOK', Draft(r, s, x), NextTurn(r),
         x.wh = cmd[r].wh,
         IF s = r THEN NoOtherRow(r, x.variant) /\ PostsMovement(r)
                       /\ todo[r] = {}
         ELSE IsRowOf(s, cmd[r].wh, x.variant)
  PROVE  IInv'
<1> USE DEF InLoop, Working
<1>1. /\ UNCHANGED <<names, stocks, moves, cmd, agg, todo>>
      /\ pc'[r] = "loop" /\ held'[r] = held[r] \cup {s}
      /\ draft'[r][s] = x
      /\ \A t \in StockId \ {s} :
           draft'[r][t] = draft[r][t] /\ posted'[r][t] = posted[r][t]
      /\ posted'[r][s].n =
           IF PostsMovement(r) THEN posted[r][s].n + 1 ELSE posted[r][s].n
      /\ \A q \in Requests \ {r} :
           /\ pc'[q] = pc[q] /\ held'[q] = held[q] /\ item'[q] = item[q]
           /\ seen'[q] = seen[q] /\ draft'[q] = draft[q]
           /\ posted'[q] = posted[q]
  BY DraftEffect DEF IInv
<1>2. HandlerState'
  BY <1>1 DEF IInv, HandlerState
<1>3. UpdatesExcludeEachOther' /\ FreshIdentifiers'
  BY <1>1 DEF IInv, UpdatesExcludeEachOther, FreshIdentifiers
<1>4. LoadedStocks'
  BY <1>1 DEF IInv, LoadedStocks, Loaded, IsRowOf
<1>5. Drafts'
  <2> SUFFICES ASSUME NEW q \in Requests, pc'[q] \in InLoop,
                      NEW t \in held'[q]
               PROVE /\ draft'[q][t] # None
                     /\ draft'[q][t].wh = cmd[q].wh
                     /\ IF t = q
                        THEN \A u \in StockId : u # q =>
                               ~IsRowOf(u, cmd[q].wh, draft'[q][t].variant)
                        ELSE IsRowOf(t, cmd[q].wh, draft'[q][t].variant)
    BY <1>1 DEF Drafts, NoOtherRow, IsRowOf
  <2>1. CASE q = r /\ t = s
    BY <1>1, <2>1, NoneAssumption DEF NoOtherRow
  <2>2. CASE q = r /\ t # s
    <3>1. t \in held[r] /\ t \in StockId
      BY <1>1, <2>2 DEF IInv, TypeOK
    <3> QED
      BY <1>1, <2>2, <3>1 DEF IInv, Drafts, NoOtherRow
  <2>3. CASE q # r
    BY <1>1, <2>3 DEF IInv, Drafts, NoOtherRow
  <2> QED
    BY <2>1, <2>2, <2>3
<1>6. ReadsHold'
  BY <1>1 DEF IInv, ReadsHold, NoOtherRow, IsRowOf
<1>7. NewStockIsLast'
  BY <1>1 DEF IInv, NewStockIsLast
<1>8. Postings'
  <2>1. posted[r][s].n \in Nat
    BY DEF IInv, TypeOK, Movements
  <2> SUFFICES ASSUME NEW q \in Requests, pc'[q] \in InLoop,
                      NEW t \in StockId
               PROVE /\ t \notin held'[q] => posted'[q][t].n = 0
                     /\ t \in held'[q] /\ t = q => posted'[q][t].n > 0
    BY DEF Postings
  <2>2. CASE q = r /\ t = s
    BY <1>1, <2>1, <2>2
  <2>3. CASE q = r /\ t # s
    BY <1>1, <2>3 DEF IInv, Postings
  <2>4. CASE q # r
    BY <1>1, <2>4 DEF IInv, Postings
  <2> QED
    BY <2>2, <2>3, <2>4
<1>9. NothingPostedYet'
  BY <1>1 DEF IInv, NothingPostedYet, NoPosts
<1>10. OneRowPerVariant' /\ ReferentialIntegrity'
  BY <1>1 DEF IInv, OneRowPerVariant, ReferentialIntegrity
<1> QED
  BY <1>2, <1>3, <1>4, <1>5, <1>6, <1>7, <1>8, <1>9, <1>10 DEF IInv

\* The inserted row is the only one of its variant.
LEMMA InsertStockIInv ==
  ASSUME IInv, NEW r \in Requests, InsertStock(r)
  PROVE  IInv'
<1>1. TypeOK'
  BY StepTypeOK DEF IInv, Step
<1> DEFINE x == [wh |-> cmd[r].wh, variant |-> item[r].variant,
                 avail |-> item[r].avail, reserved |-> item[r].reserved,
                 deleted |-> FALSE]
<1>2. /\ pc[r] = "write" /\ seen[r] = None /\ NextTurn(r)
      /\ Draft(r, item[r].id, x)
  BY DEF InsertStock
<1>3. /\ item[r].id = r /\ NoOtherRow(r, item[r].variant) /\ todo[r] = {}
  BY <1>2 DEF IInv, ReadsHold, NewStockIsLast
<1>4. cmd[r] \in Commands /\ cmd[r].wh \in WarehouseId
  BY <1>2, CurrentCommand, CommandFields DEF IInv, HandlerState, Working
<1>5. x \in Row /\ r \in StockId
  BY <1>2, <1>4 DEF IInv, TypeOK, HandlerState, Item, Row, StockId
<1>6. PostsMovement(r)
  BY <1>2 DEF PostsMovement
<1>7. x.wh = cmd[r].wh /\ x.variant = item[r].variant
  OBVIOUS
<1> HIDE DEF x
<1> QED
  BY <1>1, <1>2, <1>3, <1>5, <1>6, <1>7, DraftIInv

\* The overwritten row keeps its variant.
LEMMA OverwriteStockIInv ==
  ASSUME IInv, NEW r \in Requests, OverwriteStock(r)
  PROVE  IInv'
<1>1. TypeOK'
  BY StepTypeOK DEF IInv, Step
<1> DEFINE s == seen[r].id
           x == Overwritten(View(r, s), item[r], seen[r].row)
<1>2. /\ pc[r] = "write" /\ seen[r] # None /\ NextTurn(r) /\ Draft(r, s, x)
  BY DEF OverwriteStock
<1>3. s \in StockId /\ IsRowOf(s, cmd[r].wh, item[r].variant)
  BY <1>2 DEF IInv, TypeOK, Found, ReadsHold
<1>4. s # r
  BY <1>2, <1>3 DEF IInv, FreshIdentifiers, IsRowOf
<1>5. /\ View(r, s) \in Row /\ View(r, s).wh = cmd[r].wh
      /\ IsRowOf(s, cmd[r].wh, View(r, s).variant)
  <2>1. CASE s \in held[r]
    BY <1>2, <1>3, <1>4, <2>1, ViewType
       DEF View, IInv, Drafts, InLoop
  <2>2. CASE s \notin held[r]
    BY <1>3, <2>2, ViewType DEF View, IInv, IsRowOf
  <2> QED
    BY <2>1, <2>2
<1>6. item[r] \in Item
  BY <1>2 DEF IInv, TypeOK, HandlerState
<1>7. x \in Row /\ x.wh = cmd[r].wh /\ x.variant = View(r, s).variant
  BY <1>5, <1>6 DEF Overwritten, Item, Row
<1> HIDE DEF s, x
<1> QED
  BY <1>1, <1>2, <1>3, <1>4, <1>5, <1>7, DraftIInv

\* When r leaves its handler, what the other updates have drafted and read
\* still holds if the rows of their warehouses keep their variants.
LEMMA OthersKeepRows ==
  ASSUME IInv, NEW r \in Requests, pc'[r] \notin {"loop", "write"},
         \A q \in Requests \ {r} :
           /\ pc'[q] = pc[q] /\ cmd'[q] = cmd[q] /\ item'[q] = item[q]
           /\ seen'[q] = seen[q] /\ held'[q] = held[q]
           /\ draft'[q] = draft[q],
         \A q \in Requests \ {r} : pc[q] \in {"loop", "write"} =>
           \A s \in StockId : \A v :
             IsRowOf(s, cmd[q].wh, v) <=>
               stocks'[s] # None /\ stocks'[s].wh = cmd[q].wh
                 /\ stocks'[s].variant = v
  PROVE  Drafts' /\ ReadsHold'
<1> USE DEF InLoop
<1>1. \A q \in Requests \ {r} : pc[q] \in InLoop =>
        /\ \A v : NoOtherRow(q, v) => NoOtherRow(q, v)'
        /\ \A s \in StockId : \A v :
             IsRowOf(s, cmd[q].wh, v) => IsRowOf(s, cmd[q].wh, v)'
  BY DEF NoOtherRow, IsRowOf
<1>2. Drafts'
  <2> SUFFICES ASSUME NEW q \in Requests \ {r}, pc[q] \in InLoop,
                      NEW s \in held[q]
               PROVE /\ draft[q][s] # None
                     /\ draft[q][s].wh = cmd[q].wh
                     /\ IF s = q THEN NoOtherRow(q, draft[q][s].variant)'
                        ELSE IsRowOf(s, cmd[q].wh, draft[q][s].variant)'
    BY DEF Drafts, IsRowOf, NoOtherRow
  <2>1. /\ draft[q][s] # None /\ draft[q][s].wh = cmd[q].wh
        /\ IF s = q THEN NoOtherRow(q, draft[q][s].variant)
           ELSE IsRowOf(s, cmd[q].wh, draft[q][s].variant)
    BY DEF IInv, Drafts
  <2>2. s \in StockId /\ cmd'[q] = cmd[q] /\ draft'[q] = draft[q]
    BY DEF IInv, TypeOK
  <2> QED
    BY <1>1, <2>1, <2>2 DEF NoOtherRow, IsRowOf
<1>3. ReadsHold'
  <2> SUFFICES ASSUME NEW q \in Requests \ {r}, pc[q] = "write"
               PROVE /\ seen[q] = None =>
                          item[q].id = q /\ NoOtherRow(q, item[q].variant)'
                     /\ seen[q] # None =>
                          IsRowOf(seen[q].id, cmd[q].wh, item[q].variant)'
    BY DEF ReadsHold, IsRowOf, NoOtherRow
  <2>1. seen[q] # None => seen[q].id \in StockId
    BY DEF IInv, TypeOK, Found
  <2>2. /\ cmd'[q] = cmd[q] /\ seen'[q] = seen[q] /\ item'[q] = item[q]
    OBVIOUS
  <2> DEFINE v == item[q].variant
             s == seen[q].id
  <2>3. seen[q] = None => item[q].id = q /\ \A t \in StockId :
          t # q => ~(stocks'[t] # None /\ stocks'[t].wh = cmd'[q].wh
                       /\ stocks'[t].variant = v)
    <3>1. seen[q] = None => item[q].id = q /\ NoOtherRow(q, v)
      BY DEF IInv, ReadsHold
    <3> HIDE DEF v
    <3> QED
      BY <1>1, <3>1 DEF NoOtherRow, IsRowOf
  <2>4. seen[q] # None =>
          stocks'[s] # None /\ stocks'[s].wh = cmd'[q].wh
            /\ stocks'[s].variant = v
    <3>1. seen[q] # None => IsRowOf(s, cmd[q].wh, v) /\ s \in StockId
      BY <2>1 DEF IInv, ReadsHold
    <3> HIDE DEF v, s
    <3> QED
      BY <1>1, <3>1 DEF IsRowOf
  <2> QED
    BY <2>2, <2>3, <2>4 DEF NoOtherRow, IsRowOf
<1> QED
  BY <1>2, <1>3

\* Committing the rows of an update: the inserted row is the only new one.
LEMMA CommitUpdateIInv ==
  ASSUME IInv, NEW r \in Requests, CommitUpdate(r)
  PROVE  IInv'
<1> USE DEF InLoop, Working
<1>1. TypeOK'
  BY StepTypeOK DEF IInv, Step
<1> DEFINE w == cmd[r].wh
<1>2. /\ pc[r] = "loop" /\ End(r, "ok")
      /\ names' = [names EXCEPT ![w] = agg[r]]
      /\ stocks' = [s \in StockId |-> View(r, s)]
      /\ moves' = [s \in StockId |->
                     [n |-> moves[s].n + posted[r][s].n,
                      sum |-> moves[s].sum + posted[r][s].sum]]
  BY DEF CommitUpdate
<1>3. /\ pc'[r] = "ok" /\ held'[r] = {} /\ posted'[r] = NoPosts
      /\ \A q \in Requests \ {r} :
              /\ pc'[q] = pc[q] /\ cmd'[q] = cmd[q] /\ agg'[q] = agg[q]
              /\ todo'[q] = todo[q] /\ item'[q] = item[q]
              /\ seen'[q] = seen[q] /\ held'[q] = held[q]
              /\ draft'[q] = draft[q] /\ posted'[q] = posted[q]
  BY <1>2, EndEffect DEF IInv
<1>4. /\ names[w] # None /\ agg[r] # None
      /\ stocks[r] = None /\ r \in StockId
      /\ \A q \in Requests \ {r} : pc[q] \in InLoop => cmd[q].wh # w
  BY <1>2 DEF IInv, HandlerState, UpdatesExcludeEachOther, FreshIdentifiers,
              StockId
<1>5. \A x \in WarehouseId : names'[x] = None <=> names[x] = None
  BY <1>2, <1>4 DEF IInv, TypeOK
<1>6. \A s \in StockId \ {r} : \A x, v :
        IsRowOf(s, x, v) <=> stocks'[s] # None /\ stocks'[s].wh = x
                               /\ stocks'[s].variant = v
  <2> SUFFICES ASSUME NEW s \in StockId \ {r}, NEW x, NEW v
               PROVE IsRowOf(s, x, v) <=>
                       stocks'[s] # None /\ stocks'[s].wh = x
                         /\ stocks'[s].variant = v
    OBVIOUS
  <2>1. CASE s \in held[r]
    <3>1. stocks'[s] = draft[r][s]
      BY <1>2, <2>1 DEF View
    <3>2. draft[r][s] # None /\ draft[r][s].wh = w
            /\ IsRowOf(s, w, draft[r][s].variant)
      BY <1>2, <2>1 DEF IInv, Drafts
    <3> QED
      BY <3>1, <3>2 DEF IsRowOf
  <2>2. CASE s \notin held[r]
    BY <1>2, <2>2 DEF View, IsRowOf
  <2> QED
    BY <2>1, <2>2
<1>7. stocks'[r] # None =>
        /\ r \in held[r] /\ stocks'[r].wh = w
        /\ \A s \in StockId \ {r} : ~IsRowOf(s, w, stocks'[r].variant)
  <2>1. CASE r \in held[r]
    <3>1. stocks'[r] = draft[r][r]
      BY <1>2, <1>4, <2>1 DEF View
    <3>2. draft[r][r].wh = w /\ NoOtherRow(r, draft[r][r].variant)
      BY <1>2, <2>1 DEF IInv, Drafts
    <3> QED
      BY <2>1, <3>1, <3>2 DEF NoOtherRow
  <2>2. CASE r \notin held[r]
    BY <1>2, <1>4, <2>2 DEF View
  <2> QED
    BY <2>1, <2>2
<1>8. r \in held[r] => stocks'[r] # None
  BY <1>2, <1>4 DEF View, IInv, Drafts
<1>9. \A s \in StockId \ {r} : stocks'[s] = None <=> stocks[s] = None
  BY <1>6 DEF IsRowOf
<1>10. HandlerState'
  BY <1>3 DEF IInv, HandlerState
<1>11. UpdatesExcludeEachOther'
  <2>1. \A q \in Requests : pc[q] \in InLoop => cmd[q].wh \in WarehouseId
    BY CurrentCommand, CommandFields DEF IInv, HandlerState
  <2> QED
    BY <1>3, <1>5, <2>1 DEF IInv, UpdatesExcludeEachOther
<1>12. FreshIdentifiers'
  BY <1>3, <1>5, <1>9 DEF IInv, FreshIdentifiers, StockId, WarehouseId
<1>13. LoadedStocks'
  <2> SUFFICES ASSUME NEW q \in Requests \ {r}, NEW i \in Item,
                      Loaded(q, i), pc[q] \in {"lock", "loop", "write"}
               PROVE Loaded(q, i)'
    BY <1>3, NoneAssumption DEF IInv, LoadedStocks, TypeOK, HandlerState
  <2>1. cmd'[q] = cmd[q] /\ cmd[q].wh \in WarehouseId /\ i.id \in StockId
    BY <1>3, CurrentCommand, CommandFields DEF IInv, HandlerState, Item
  <2>2. CASE i.id = q \/ names[cmd[q].wh] = None
    BY <1>5, <2>1, <2>2 DEF Loaded
  <2>3. CASE IsRowOf(i.id, cmd[q].wh, i.variant)
    <3>1. i.id # r
      BY <1>4, <2>3 DEF IsRowOf
    <3> QED
      BY <1>6, <2>1, <2>3, <3>1 DEF Loaded, IsRowOf
  <2> QED
    BY <2>2, <2>3 DEF Loaded
<1>14. \A q \in Requests \ {r} : pc[q] \in InLoop =>
         \A s \in StockId : \A v :
           IsRowOf(s, cmd[q].wh, v) <=>
             stocks'[s] # None /\ stocks'[s].wh = cmd[q].wh
               /\ stocks'[s].variant = v
  BY <1>4, <1>6, <1>7 DEF IsRowOf
<1>15. Drafts' /\ ReadsHold'
  BY <1>3, <1>14, OthersKeepRows
<1>17. NewStockIsLast'
  BY <1>3 DEF IInv, NewStockIsLast
<1>18. Postings'
  BY <1>3 DEF IInv, Postings
<1>19. NothingPostedYet'
  BY <1>3 DEF IInv, NothingPostedYet, NoPosts
<1>20. OneRowPerVariant'
  <2> SUFFICES ASSUME NEW s \in StockId, NEW t \in StockId, s # t,
                      stocks'[s] # None, stocks'[t] # None,
                      stocks'[s].wh = stocks'[t].wh,
                      stocks'[s].variant = stocks'[t].variant
               PROVE FALSE
    BY DEF OneRowPerVariant
  <2>1. CASE s # r /\ t # r
    BY <1>6, <2>1 DEF IInv, OneRowPerVariant, IsRowOf
  <2>2. CASE s = r
    BY <1>6, <1>7, <2>2 DEF IsRowOf
  <2>3. CASE t = r
    BY <1>6, <1>7, <2>3 DEF IsRowOf
  <2> QED
    BY <2>1, <2>2, <2>3
<1>21. ReferentialIntegrity'
  <2> SUFFICES ASSUME NEW s \in StockId
               PROVE /\ stocks'[s] # None => names'[stocks'[s].wh] # None
                     /\ stocks'[s] # None <=> moves'[s].n > 0
    BY DEF ReferentialIntegrity
  <2>1. moves'[s].n = moves[s].n + posted[r][s].n
    BY <1>2
  <2>2. moves[s].n \in Nat /\ posted[r][s].n \in Nat
    BY DEF IInv, TypeOK, Movements
  <2>3. stocks'[s] # None => names'[stocks'[s].wh] # None
    <3>1. stocks'[s] # None => stocks'[s].wh \in WarehouseId
      BY <1>1 DEF TypeOK, Row
    <3>2. CASE s = r
      BY <1>4, <1>5, <1>7, <3>1, <3>2
    <3>3. CASE s # r
      BY <1>5, <1>6, <3>1, <3>3 DEF IInv, ReferentialIntegrity, IsRowOf
    <3> QED
      BY <3>2, <3>3
  <2>4. CASE s = r
    <3>1. r \in held[r] => posted[r][r].n > 0
      BY <1>2, <1>4 DEF IInv, Postings
    <3>2. r \notin held[r] => posted[r][r].n = 0
      BY <1>2, <1>4 DEF IInv, Postings
    <3>3. moves[r].n = 0
      BY <1>4, <2>2, <2>4 DEF IInv, ReferentialIntegrity
    <3> QED
      BY <1>7, <1>8, <2>1, <2>2, <2>3, <2>4, <3>1, <3>2, <3>3
  <2>5. CASE s # r
    <3>1. s \notin held[r] => posted[r][s].n = 0
      BY <1>2 DEF IInv, Postings
    <3>2. s \in held[r] => stocks[s] # None
      BY <1>2, <2>5 DEF IInv, Drafts, IsRowOf
    <3>3. stocks[s] # None <=> moves[s].n > 0
      BY DEF IInv, ReferentialIntegrity
    <3>4. stocks'[s] # None <=> stocks[s] # None
      BY <1>9, <2>5
    <3> QED
      BY <2>1, <2>2, <2>3, <3>1, <3>2, <3>3, <3>4
  <2> QED
    BY <2>4, <2>5
<1> QED
  BY <1>1, <1>10, <1>11, <1>12, <1>13, <1>15, <1>17, <1>18, <1>19, <1>20,
     <1>21 DEF IInv

\* The read of updateSingleStock only remembers a row.
LEMMA ReadStockIInv ==
  ASSUME IInv, NEW r \in Requests, ReadStock(r)
  PROVE  IInv'
<1> USE DEF InLoop, Working
<1>1. TypeOK'
  BY StepTypeOK DEF IInv, Step
<1> DEFINE f == [id |-> cmd[r].stock, row |-> stocks[cmd[r].stock]]
<1>2. /\ pc[r] = "read" /\ pc' = [pc EXCEPT ![r] = "change"]
      /\ seen' = [seen EXCEPT ![r] = f]
      /\ UNCHANGED <<names, stocks, moves, cmd, agg, todo, item, held, draft,
                     posted>>
  BY DEF ReadStock, tables
<1>3. f \in Found
  BY DEF ReadStock, ActiveRowsOf, RowsOf, IInv, TypeOK, Found
<1>4. f # None /\ f.id = cmd[r].stock
  BY <1>3, NoneAssumption
<1> HIDE DEF f
<1>5. /\ pc'[r] = "change" /\ seen'[r] = f
      /\ \A q \in Requests \ {r} : pc'[q] = pc[q] /\ seen'[q] = seen[q]
  BY <1>2 DEF IInv, TypeOK
<1>6. HandlerState'
  BY <1>2, <1>4, <1>5 DEF IInv, HandlerState
<1>7. UpdatesExcludeEachOther' /\ FreshIdentifiers'
  BY <1>2, <1>5 DEF IInv, UpdatesExcludeEachOther, FreshIdentifiers
<1>8. LoadedStocks'
  BY <1>2, <1>5 DEF IInv, LoadedStocks, Loaded, IsRowOf
<1>9. Drafts'
  BY <1>2, <1>5 DEF IInv, Drafts, NoOtherRow, IsRowOf
<1>10. ReadsHold'
  BY <1>2, <1>5 DEF IInv, ReadsHold, NoOtherRow, IsRowOf
<1>11. NewStockIsLast' /\ Postings'
  BY <1>2, <1>5 DEF IInv, NewStockIsLast, Postings
<1>12. NothingPostedYet'
  BY <1>2, <1>5 DEF IInv, NothingPostedYet, NoPosts
<1>13. OneRowPerVariant' /\ ReferentialIntegrity'
  BY <1>2 DEF IInv, OneRowPerVariant, ReferentialIntegrity
<1> QED
  BY <1>1, <1>6, <1>7, <1>8, <1>9, <1>10, <1>11, <1>12, <1>13 DEF IInv

\* Changing one row in place, as every row keeps its warehouse and variant
\* and no request's draft, read or loaded stock looks at more than these.
LEMMA ChangeStockIInv ==
  ASSUME IInv, NEW r \in Requests, ChangeStock(r)
  PROVE  IInv'
<1> USE DEF InLoop, Working
<1>1. TypeOK'
  BY StepTypeOK DEF IInv, Step
<1> DEFINE t == cmd[r].stock
           x == ChangedRow(cmd[r], seen[r].row, stocks[t])
           d == ChangeDelta(cmd[r], seen[r].row)
<1>2. /\ pc[r] = "change" /\ stocks[t] # None /\ End(r, "ok")
      /\ stocks' = [stocks EXCEPT ![t] = x] /\ names' = names
      /\ \/ moves' = moves
         \/ moves' = [moves EXCEPT ![t] = [n |-> @.n + 1, sum |-> @.sum + d]]
  BY DEF ChangeStock
<1>3. t \in StockId
  BY <1>2, CurrentCommand, CommandFields DEF IInv, HandlerState
<1>4. x.wh = stocks[t].wh /\ x.variant = stocks[t].variant
  BY DEF ChangedRow
<1> HIDE DEF t, x, d
<1>5. stocks'[t] = x /\ \A s \in StockId \ {t} : stocks'[s] = stocks[s]
  BY <1>2, <1>3 DEF IInv, TypeOK
<1>6. stocks[t] \in Row
  BY <1>2, <1>3 DEF IInv, TypeOK
<1>7. x \in Row /\ x # None
  <2>1. x \in Row \cup {None}
    BY <1>1, <1>3, <1>5 DEF TypeOK
  <2>3. CASE x = None
    <3>1. x \in Row
      <4>1. cmd[r] \in Commands
        BY <1>2, CurrentCommand DEF IInv
      <4>2. /\ cmd[r].avail \in Qty \cup {None}
            /\ cmd[r].reserved \in Qty \cup {None}
        BY <1>2, <4>1, CommandFields DEF IInv, HandlerState
      <4>3. seen[r].row \in Row
        BY <1>2 DEF IInv, TypeOK, HandlerState, Found
      <4>4. 0 \in Qty
        BY MaxQtyAssumption DEF Qty
      <4> QED
        BY <1>6, <4>2, <4>3, <4>4 DEF x, ChangedRow, OrElse, Row
    <3> QED
      BY <3>1, NoneAssumption
  <2> QED
    BY <2>1, <2>3, NoneAssumption
<1>8. \A s \in StockId : \A w, v :
        IsRowOf(s, w, v) <=> stocks'[s] # None /\ stocks'[s].wh = w
                               /\ stocks'[s].variant = v
  BY <1>2, <1>4, <1>5, <1>7 DEF IsRowOf
<1>9. /\ pc'[r] = "ok" /\ held'[r] = {} /\ posted'[r] = NoPosts
      /\ \A q \in Requests \ {r} :
              /\ pc'[q] = pc[q] /\ cmd'[q] = cmd[q] /\ agg'[q] = agg[q]
              /\ todo'[q] = todo[q] /\ item'[q] = item[q]
              /\ seen'[q] = seen[q] /\ held'[q] = held[q]
              /\ draft'[q] = draft[q] /\ posted'[q] = posted[q]
  BY <1>2, EndEffect DEF IInv
<1>10. HandlerState'
  BY <1>9 DEF IInv, HandlerState
<1>11. UpdatesExcludeEachOther'
  BY <1>2, <1>9 DEF IInv, UpdatesExcludeEachOther
<1>12. FreshIdentifiers'
  BY <1>2, <1>5, <1>9 DEF IInv, FreshIdentifiers, StockId
<1>13. LoadedStocks'
  <2>1. \A q \in Requests \ {r} : pc[q] \in {"lock", "loop", "write"} =>
          todo[q] \subseteq Item
    BY DEF IInv, TypeOK
  <2>2. \A q \in Requests \ {r} : pc[q] = "write" => item[q] \in Item
    BY DEF IInv, TypeOK, HandlerState
  <2>3. \A q \in Requests \ {r}, i \in Item : Loaded(q, i) => Loaded(q, i)'
    BY <1>2, <1>8, <1>9 DEF Loaded, IsRowOf, Item
  <2> QED
    BY <1>9, <2>1, <2>2, <2>3 DEF IInv, LoadedStocks, Loaded, IsRowOf
<1>14. Drafts' /\ ReadsHold'
  BY <1>8, <1>9, OthersKeepRows
<1>16. NewStockIsLast' /\ Postings'
  BY <1>9 DEF IInv, NewStockIsLast, Postings
<1>17. NothingPostedYet'
  BY <1>9 DEF IInv, NothingPostedYet, NoPosts
<1>18. OneRowPerVariant'
  BY <1>8 DEF IInv, OneRowPerVariant, IsRowOf
<1>19. ReferentialIntegrity'
  <2>1. \A s \in StockId : moves'[s].n > 0 <=> moves[s].n > 0 \/ s = t
    <3>1. moves[t].n \in Nat /\ moves[t].n > 0
      BY <1>2, <1>3 DEF IInv, TypeOK, Movements, ReferentialIntegrity
    <3> QED
      BY <1>2, <3>1 DEF IInv, TypeOK
  <2> QED
    BY <1>2, <1>3, <1>8, <2>1 DEF IInv, ReferentialIntegrity, IsRowOf
<1> QED
  BY <1>1, <1>10, <1>11, <1>12, <1>13, <1>14, <1>16, <1>17, <1>18, <1>19
     DEF IInv

\* The first two steps of a deletion only write the transaction's own state.
LEMMA DeletionIInv ==
  ASSUME IInv, NEW r \in Requests, PurgeMovements(r) \/ DeleteRows(r)
  PROVE  IInv'
<1> USE DEF InLoop, Working
<1>1. TypeOK'
  BY StepTypeOK DEF IInv, Step
<1>2. /\ pc[r] \in {"purge", "rows"}
      /\ UNCHANGED <<names, stocks, moves, cmd, agg, todo, item, seen, draft>>
  BY DEF PurgeMovements, DeleteRows, tables
<1>3. /\ pc'[r] \in {"rows", "drop"}
      /\ held'[r] # {} => pc'[r] = "drop"
      /\ \A q \in Requests \ {r} :
           pc'[q] = pc[q] /\ held'[q] = held[q] /\ posted'[q] = posted[q]
  <2>1. CASE PurgeMovements(r)
    <3>1. held[r] = {}
      BY <2>1 DEF PurgeMovements, IInv, NothingPostedYet
    <3> QED
      BY <2>1, <3>1 DEF PurgeMovements, IInv, TypeOK
  <2>2. CASE DeleteRows(r)
    BY <2>2 DEF DeleteRows, IInv, TypeOK
  <2> QED
    BY <2>1, <2>2
<1>4. HandlerState'
  BY <1>2, <1>3 DEF IInv, HandlerState
<1>5. UpdatesExcludeEachOther' /\ FreshIdentifiers'
  BY <1>2, <1>3 DEF IInv, UpdatesExcludeEachOther, FreshIdentifiers
<1>6. LoadedStocks'
  BY <1>2, <1>3 DEF IInv, LoadedStocks, Loaded, IsRowOf
<1>7. Drafts' /\ ReadsHold'
  BY <1>2, <1>3, OthersKeepRows DEF IsRowOf
<1>8. NewStockIsLast' /\ Postings'
  BY <1>2, <1>3 DEF IInv, NewStockIsLast, Postings
<1>9. NothingPostedYet'
  BY <1>2, <1>3 DEF IInv, NothingPostedYet, NoPosts
<1>10. OneRowPerVariant' /\ ReferentialIntegrity'
  BY <1>2 DEF IInv, OneRowPerVariant, ReferentialIntegrity
<1> QED
  BY <1>1, <1>4, <1>5, <1>6, <1>7, <1>8, <1>9, <1>10 DEF IInv

\* Dropping a warehouse with all its rows: it waits for the updates of that
\* warehouse, so the open ones are about others.
LEMMA DropWarehouseIInv ==
  ASSUME IInv, NEW r \in Requests, DropWarehouse(r)
  PROVE  IInv'
<1> USE DEF InLoop, Working
<1>1. TypeOK'
  BY StepTypeOK DEF IInv, Step
<1> DEFINE w == cmd[r].wh
<1>2. /\ pc[r] = "drop" /\ End(r, "ok") /\ ~Blocked(r)
      /\ names' = [names EXCEPT ![w] = None]
      /\ stocks' = [s \in StockId |->
                      IF s \in RowsOf(w) THEN None ELSE stocks[s]]
      /\ moves' = [s \in StockId |->
                     IF s \in RowsOf(w) THEN NoMovements ELSE moves[s]]
  BY DEF DropWarehouse
<1>3. \A q \in Requests \ {r} : pc[q] \in InLoop => cmd[q].wh # w
  BY <1>2 DEF Blocked, WarehouseLocked
<1>4. w \in WarehouseId
  BY <1>2, CurrentCommand, CommandFields DEF IInv, HandlerState
<1>5. /\ pc'[r] = "ok" /\ held'[r] = {} /\ posted'[r] = NoPosts
      /\ \A q \in Requests \ {r} :
              /\ pc'[q] = pc[q] /\ cmd'[q] = cmd[q] /\ agg'[q] = agg[q]
              /\ todo'[q] = todo[q] /\ item'[q] = item[q]
              /\ seen'[q] = seen[q] /\ held'[q] = held[q]
              /\ draft'[q] = draft[q] /\ posted'[q] = posted[q]
  BY <1>2, EndEffect DEF IInv
<1>6. names'[w] = None /\ \A x \in WarehouseId \ {w} : names'[x] = names[x]
  BY <1>2, <1>4 DEF IInv, TypeOK
<1> HIDE DEF w
<1>7. \A s \in StockId : \A x, v :
        (stocks'[s] # None /\ stocks'[s].wh = x /\ stocks'[s].variant = v)
          <=> IsRowOf(s, x, v) /\ x # w
  BY <1>2 DEF RowsOf, IsRowOf
<1>8. HandlerState'
  BY <1>5 DEF IInv, HandlerState
<1>9. UpdatesExcludeEachOther'
  <2>1. \A q \in Requests : pc[q] \in InLoop => cmd[q].wh \in WarehouseId
    BY CurrentCommand, CommandFields DEF IInv, HandlerState
  <2> QED
    BY <1>3, <1>5, <1>6, <2>1 DEF IInv, UpdatesExcludeEachOther
<1>10. FreshIdentifiers'
  BY <1>2, <1>5, <1>6
     DEF IInv, FreshIdentifiers, StockId, WarehouseId
<1>11. LoadedStocks'
  <2>1. \A q \in Requests \ {r} : pc[q] \in {"lock", "loop", "write"} =>
          todo[q] \subseteq Item /\ cmd[q].wh \in WarehouseId
    BY CurrentCommand, CommandFields DEF IInv, TypeOK, HandlerState
  <2>2. \A q \in Requests \ {r} : pc[q] = "write" => item[q] \in Item
    BY DEF IInv, TypeOK, HandlerState
  <2>3. \A q \in Requests \ {r}, i \in Item :
          Loaded(q, i) /\ cmd[q].wh \in WarehouseId => Loaded(q, i)'
    <3> SUFFICES ASSUME NEW q \in Requests \ {r}, NEW i \in Item,
                        Loaded(q, i), cmd[q].wh \in WarehouseId
                 PROVE Loaded(q, i)'
      OBVIOUS
    <3>1. CASE cmd[q].wh = w
      BY <1>5, <1>6, <3>1 DEF Loaded
    <3>2. CASE cmd[q].wh # w
      <4>1. i.id \in StockId /\ cmd'[q] = cmd[q]
              /\ names'[cmd[q].wh] = names[cmd[q].wh]
        BY <1>5, <1>6, <3>2 DEF Item
      <4>2. IsRowOf(i.id, cmd[q].wh, i.variant) =>
              IsRowOf(i.id, cmd[q].wh, i.variant)'
        BY <1>7, <3>2, <4>1 DEF IsRowOf
      <4> QED
        BY <4>1, <4>2 DEF Loaded
    <3> QED
      BY <3>1, <3>2
  <2> QED
    BY <1>5, <2>1, <2>2, <2>3 DEF IInv, LoadedStocks, Loaded, IsRowOf
<1>12. Drafts' /\ ReadsHold'
  BY <1>3, <1>5, <1>7, OthersKeepRows
<1>13. NewStockIsLast' /\ Postings'
  BY <1>5 DEF IInv, NewStockIsLast, Postings
<1>14. NothingPostedYet'
  BY <1>5 DEF IInv, NothingPostedYet, NoPosts
<1>15. OneRowPerVariant'
  BY <1>7 DEF IInv, OneRowPerVariant, IsRowOf
<1>16. ReferentialIntegrity'
  <2> SUFFICES ASSUME NEW s \in StockId
               PROVE /\ stocks'[s] # None => names'[stocks'[s].wh] # None
                     /\ stocks'[s] # None <=> moves'[s].n > 0
    BY DEF ReferentialIntegrity
  <2>1. CASE s \in RowsOf(w)
    BY <1>2, <2>1 DEF NoMovements
  <2>2. CASE s \notin RowsOf(w)
    <3>1. stocks'[s] = stocks[s] /\ moves'[s] = moves[s]
      BY <1>2, <2>2
    <3>2. stocks[s] # None => stocks[s].wh \in WarehouseId \ {w}
      BY <2>2 DEF RowsOf, IInv, TypeOK, Row
    <3> QED
      BY <1>6, <3>1, <3>2 DEF IInv, ReferentialIntegrity
  <2> QED
    BY <2>1, <2>2
<1> QED
  BY <1>1, <1>8, <1>9, <1>10, <1>11, <1>12, <1>13, <1>14, <1>15, <1>16
     DEF IInv

\* The invariant holds in every database a serial history leaves behind.
LEMMA InitIInv == Init => IInv
<1> SUFFICES ASSUME Init PROVE IInv
  OBVIOUS
<1>1. TypeOK
  BY InitTypeOK
<1>2. /\ pc = [r \in Requests |-> "idle"]
      /\ held = [r \in Requests |-> {}]
      /\ posted = [r \in Requests |-> NoPosts]
  BY DEF Init
<1>3. PICK ns \in [InitWarehouses -> Names \cup {None}],
           rows \in [InitStocks -> InitRow \cup {None}] :
        /\ SerialDatabase(ns, rows)
        /\ names = [w \in WarehouseId |->
                      IF w \in InitWarehouses THEN ns[w] ELSE None]
        /\ stocks = [s \in StockId |->
                       IF s \in InitStocks THEN rows[s] ELSE None]
  BY DEF Init
<1>4. \A s \in StockId : stocks[s] # None =>
        /\ s \in InitStocks /\ stocks[s] = rows[s]
        /\ rows[s].wh \in InitWarehouses
  BY <1>3 DEF InitRow
<1>5. HandlerState /\ UpdatesExcludeEachOther /\ LoadedStocks /\ Drafts
        /\ ReadsHold /\ NewStockIsLast /\ Postings /\ NothingPostedYet
  BY <1>2 DEF HandlerState, UpdatesExcludeEachOther, LoadedStocks, Drafts,
              ReadsHold, NewStockIsLast, Postings, NothingPostedYet, Working,
              InLoop
<1>6. FreshIdentifiers
  BY <1>2, <1>3, IdentifiersAssumption
     DEF FreshIdentifiers, StockId, WarehouseId
<1>7. OneRowPerVariant
  BY <1>3, <1>4 DEF OneRowPerVariant, SerialDatabase
<1>8. ReferentialIntegrity
  <2> SUFFICES ASSUME NEW s \in StockId
               PROVE /\ stocks[s] # None => names[stocks[s].wh] # None
                     /\ stocks[s] # None <=> moves[s].n > 0
    BY DEF ReferentialIntegrity
  <2>1. stocks[s] # None => names[stocks[s].wh] # None
    BY <1>3, <1>4 DEF SerialDatabase, WarehouseId
  <2>2. moves[s] = OpeningMovements(stocks[s])
    BY DEF Init
  <2> QED
    BY <2>1, <2>2 DEF OpeningMovements, NoMovements
<1> QED
  BY <1>1, <1>5, <1>6, <1>7, <1>8 DEF IInv

\* Every step of every request keeps the invariant.
LEMMA NextIInv == IInv /\ [Next]_vars => IInv'
<1> SUFFICES ASSUME IInv, [Next]_vars PROVE IInv'
  OBVIOUS
<1>1. CASE UNCHANGED vars
  BY <1>1
     DEF vars, tables, locals, IInv, TypeOK, HandlerState,
         UpdatesExcludeEachOther, FreshIdentifiers, LoadedStocks, Loaded,
         Drafts, ReadsHold, NewStockIsLast, Postings, NothingPostedYet,
         OneRowPerVariant, ReferentialIntegrity, NoOtherRow, IsRowOf
<1>2. CASE Served
  BY <1>1, <1>2 DEF Served
<1>3. ASSUME NEW r \in Requests, Start(r)
      PROVE IInv'
  <2>1. PICK c \in Commands :
          \/ CreateWarehouse(r, c) \/ UpdateWarehouse(r, c)
          \/ DeleteWarehouse(r, c) \/ CreateStock(r, c) \/ EditStock(r, c)
          \/ RefuseStart(r, c)
    BY <1>3 DEF Start
  <2>2. CASE RefuseStart(r, c)
    BY <2>2, FailIInv DEF RefuseStart, NameRefused, NotFound, NoSuchStock
  <2> QED
    BY <2>1, <2>2, CreateWarehouseIInv, EnterIInv
<1>4. ASSUME NEW r \in Requests, Step(r)
      PROVE IInv'
  <2>1. CASE Refuse(r)
    BY <2>1, FailIInv
       DEF Refuse, LockRefused, RefuseMovement, StockGone, ChangeRefused,
           DeleteRestricted, WarehouseGone
  <2> QED
    BY <1>4, <2>1, LockWarehouseIInv, PickStockIInv, InsertStockIInv,
       OverwriteStockIInv, CommitUpdateIInv, ReadStockIInv, ChangeStockIInv,
       DeletionIInv, DropWarehouseIInv DEF Step
<1>5. ASSUME NEW r \in Requests, Abort(r)
      PROVE IInv'
  BY <1>5, FailIInv DEF Abort
<1> QED
  BY <1>1, <1>2, <1>3, <1>4, <1>5 DEF Next

\* The invariant, in every reachable state of every instance.
THEOREM InductiveInvariant == Spec => []IInv
BY InitIInv, NextIInv, PTL DEF Spec

\* Whatever commands overlap, no variable leaves its type: quantities stay in
\* the range of QtyAvailable and QtyReserved.
THEOREM TypeCorrect == Spec => []TypeOK
<1>1. IInv => TypeOK
  BY DEF IInv
<1> QED
  BY <1>1, InductiveInvariant, PTL

\* WarehouseRepository.update never inserts a second row for a variant.
THEOREM VariantsUnique == Spec => []OneRowPerVariant
<1>1. IInv => OneRowPerVariant
  BY DEF IInv
<1> QED
  BY <1>1, InductiveInvariant, PTL

\* No commit of an update or a deletion leaves a stock row without its
\* warehouse or without a movement, or a movement without its row.
THEOREM NoOrphans == Spec => []ReferentialIntegrity
<1>1. IInv => ReferentialIntegrity
  BY DEF IInv
<1> QED
  BY <1>1, InductiveInvariant, PTL

\* An update only commits to a warehouse it keeps locked, hence one that is
\* still there; so only createWarehouse makes a warehouse appear.
THEOREM NoResurrection == Spec => DeletedStaysDeleted
<1> DEFINE Stays == \A w \in WarehouseId :
                      names[w] = None /\ names'[w] # None
                        => w \in Requests /\ pc[w] = "idle"
<1>1. IInv /\ [Next]_vars => [Stays]_vars
  <2> SUFFICES ASSUME IInv, Next PROVE Stays
    OBVIOUS
  <2>1. CASE names' = names
    BY <2>1
  <2>2. ASSUME NEW r \in Requests, NEW c \in Commands, CreateWarehouse(r, c)
        PROVE Stays
    BY <2>2 DEF CreateWarehouse, Begin, IInv, TypeOK
  <2>3. ASSUME NEW r \in Requests, CommitUpdate(r)
        PROVE Stays
    BY <2>3 DEF CommitUpdate, IInv, TypeOK, UpdatesExcludeEachOther, InLoop
  <2>4. ASSUME NEW r \in Requests, DropWarehouse(r)
        PROVE Stays
    BY <2>4 DEF DropWarehouse, IInv, TypeOK
  <2>5. ASSUME NEW r \in Requests, Fail(r)
        PROVE names' = names
    BY <2>5 DEF Fail, tables
  <2>6. ASSUME NEW r \in Requests, Start(r)
        PROVE Stays
    BY <2>1, <2>2, <2>5, <2>6
       DEF Start, UpdateWarehouse, DeleteWarehouse, CreateStock, EditStock,
           Enter, RefuseStart, NameRefused, NotFound, NoSuchStock, tables
  <2>7. ASSUME NEW r \in Requests, Step(r)
        PROVE Stays
    BY <2>1, <2>3, <2>4, <2>5, <2>7
       DEF Step, LockWarehouse, PickStock, InsertStock, OverwriteStock,
           NextTurn, ReadStock, ChangeStock, PurgeMovements, DeleteRows,
           Refuse, LockRefused, RefuseMovement, StockGone, ChangeRefused,
           DeleteRestricted, WarehouseGone, tables
  <2> HIDE DEF Stays
  <2> QED
    BY <2>1, <2>5, <2>6, <2>7 DEF Next, Abort, Served, vars, tables
<1> QED
  BY <1>1, InductiveInvariant, PTL DEF Spec, DeletedStaysDeleted

\* RenamesPostNothingYet is kept: without a reason StockMovement.create
\* throws, so an update of a warehouse only writes rows without a movement.
LEMMA RenamesPostNothingStep ==
  ASSUME IInv, RenamesPostNothingYet, [Next]_vars
  PROVE  RenamesPostNothingYet'
<1> USE DEF Working, InLoop
<1>1. CASE UNCHANGED vars
  BY <1>1 DEF RenamesPostNothingYet, vars, tables, locals, NoPosts
<1>2. ASSUME NEW r \in Requests, NEW o \in {"ok", "failed"}, End(r, o)
      PROVE RenamesPostNothingYet'
  BY <1>2, EndEffect DEF IInv, RenamesPostNothingYet, NoPosts
<1>3. ASSUME NEW r \in Requests, Fail(r)
      PROVE RenamesPostNothingYet'
  BY <1>2, <1>3 DEF Fail
<1>4. ASSUME NEW r \in Requests, NEW c \in Commands, NEW place \in Working,
             place \notin InLoop, Enter(r, c, place)
      PROVE RenamesPostNothingYet'
  BY <1>4 DEF IInv, TypeOK, RenamesPostNothingYet, Enter, NoPosts
<1>5. ASSUME NEW r \in Requests, Start(r)
      PROVE RenamesPostNothingYet'
  BY <1>2, <1>3, <1>4, <1>5
     DEF Start, CreateWarehouse, UpdateWarehouse, DeleteWarehouse,
         CreateStock, EditStock, RefuseStart, NameRefused, NotFound,
         NoSuchStock
<1>6. ASSUME NEW r \in Requests, pc[r] = "write", NextTurn(r),
             NEW s \in StockId, NEW x, Draft(r, s, x),
             PostsMovement(r) => HasReason(cmd[r])
      PROVE RenamesPostNothingYet'
  BY <1>6
     DEF IInv, TypeOK, RenamesPostNothingYet, NextTurn, Draft, HasReason,
         NoPosts
<1>7. ASSUME NEW r \in Requests, Step(r)
      PROVE RenamesPostNothingYet'
  <2>1. CASE LockWarehouse(r)
    BY <2>1 DEF LockWarehouse, IInv, TypeOK, RenamesPostNothingYet, locals,
                NothingPostedYet, NoPosts
  <2>2. CASE PickStock(r)
    BY <2>2 DEF PickStock, IInv, TypeOK, RenamesPostNothingYet, NoPosts
  <2>3. CASE InsertStock(r)
    <3>1. item[r].id \in StockId
      BY <2>3 DEF InsertStock, IInv, TypeOK, HandlerState, Item
    <3> QED
      BY <1>6, <2>3, <3>1 DEF InsertStock
  <2>4. CASE OverwriteStock(r)
    <3>1. seen[r].id \in StockId
      BY <2>4 DEF OverwriteStock, IInv, TypeOK, Found
    <3> QED
      BY <1>6, <2>4, <3>1 DEF OverwriteStock
  <2>5. CASE ReadStock(r)
    BY <2>5 DEF ReadStock, IInv, TypeOK, RenamesPostNothingYet, NoPosts
  <2>6. CASE PurgeMovements(r) \/ DeleteRows(r)
    BY <2>6 DEF PurgeMovements, DeleteRows, IInv, TypeOK,
                RenamesPostNothingYet, NoPosts
  <2>7. CASE CommitUpdate(r) \/ ChangeStock(r) \/ DropWarehouse(r)
    BY <1>2, <2>7 DEF CommitUpdate, ChangeStock, DropWarehouse
  <2>8. CASE Refuse(r)
    BY <1>3, <2>8
       DEF Refuse, LockRefused, RefuseMovement, StockGone, ChangeRefused,
           DeleteRestricted, WarehouseGone
  <2> QED
    BY <1>7, <2>1, <2>2, <2>3, <2>4, <2>5, <2>6, <2>7, <2>8 DEF Step
<1> QED
  BY <1>1, <1>3, <1>5, <1>7 DEF Next, Abort, Served

\* However stale the aggregate it writes back, a rename never adds to the
\* journal nor takes from it.
THEOREM RenamesAreSilent == Spec => RenamePostsNothing
<1> DEFINE Silent == \A r \in Requests :
                       Commits(r, "updateWarehouse") => UNCHANGED moves
<1>1. Init => RenamesPostNothingYet
  BY DEF Init, RenamesPostNothingYet, Working, InLoop
<1>2. IInv /\ RenamesPostNothingYet /\ [Next]_vars => RenamesPostNothingYet'
  BY RenamesPostNothingStep
<1>3. IInv /\ RenamesPostNothingYet /\ [Next]_vars => [Silent]_vars
  <2> SUFFICES ASSUME IInv, RenamesPostNothingYet, [Next]_vars,
                      NEW r \in Requests, Commits(r, "updateWarehouse"),
                      vars' # vars
               PROVE moves' = moves
    OBVIOUS
  <2>1. /\ pc[r] \in Working /\ pc'[r] = "ok"
        /\ cmd[r].kind = "updateWarehouse"
    BY DEF Commits, RenamesPostNothingYet
  <2>2. ASSUME NEW q \in Requests, q # r
        PROVE ~Start(q) /\ ~Step(q) /\ ~Abort(q)
    <3>1. ASSUME Start(q) \/ Step(q) \/ Abort(q)
          PROVE pc'[r] = pc[r]
      BY <2>2, <3>1
         DEF Start, Step, Abort, RefuseStart, Refuse, CreateWarehouse,
             UpdateWarehouse, DeleteWarehouse, CreateStock, EditStock, Enter,
             NameRefused, NotFound, NoSuchStock, LockWarehouse, PickStock,
             InsertStock, OverwriteStock, NextTurn, CommitUpdate, ReadStock,
             ChangeStock, PurgeMovements, DeleteRows, DropWarehouse,
             LockRefused, RefuseMovement, StockGone, ChangeRefused,
             DeleteRestricted, WarehouseGone, Fail, End, IInv, TypeOK
    <3> QED
      BY <2>1, <3>1 DEF Working
  <2>3. CASE CommitUpdate(r)
    <3>1. \A s \in StockId : posted[r][s] = NoMovements
      BY <2>1, <2>3 DEF CommitUpdate, RenamesPostNothingYet, InLoop, NoPosts
    <3>2. \A s \in StockId :
            moves[s] = [n |-> moves[s].n + posted[r][s].n,
                        sum |-> moves[s].sum + posted[r][s].sum]
      BY <3>1 DEF IInv, TypeOK, Movements, NoMovements
    <3> QED
      BY <2>3, <3>2 DEF CommitUpdate, IInv, TypeOK
  <2>4. CASE Step(r)
    BY <2>1, <2>3, <2>4
       DEF Step, LockWarehouse, PickStock, InsertStock, OverwriteStock,
           NextTurn, ReadStock, ChangeStock, PurgeMovements, DeleteRows,
           DropWarehouse, Refuse, LockRefused, RefuseMovement, StockGone,
           ChangeRefused, DeleteRestricted, WarehouseGone, Fail, tables,
           IInv, HandlerState
  <2>5. CASE Start(r) \/ Abort(r)
    BY <2>1, <2>5
       DEF Start, Abort, Fail, tables, CreateWarehouse, UpdateWarehouse,
           DeleteWarehouse, CreateStock, EditStock, RefuseStart, NameRefused,
           NotFound, NoSuchStock, Enter
  <2> QED
    BY <2>2, <2>4, <2>5 DEF Next, Served
<1> QED
  BY <1>1, <1>2, <1>3, InductiveInvariant, PTL DEF Spec, RenamePostsNothing

\* A step of r leaves the other requests' locals alone.
LEMMA OthersStand ==
  ASSUME TypeOK, NEW r \in Requests, Start(r) \/ Step(r) \/ Abort(r),
         NEW q \in Requests \ {r}
  PROVE  /\ pc'[q] = pc[q] /\ cmd'[q] = cmd[q] /\ agg'[q] = agg[q]
         /\ todo'[q] = todo[q] /\ item'[q] = item[q] /\ seen'[q] = seen[q]
         /\ held'[q] = held[q] /\ draft'[q] = draft[q]
         /\ posted'[q] = posted[q]
<1>1. ASSUME NEW o \in {"ok", "failed"}, End(r, o)
      PROVE  /\ pc'[q] = pc[q] /\ cmd'[q] = cmd[q] /\ agg'[q] = agg[q]
             /\ todo'[q] = todo[q] /\ item'[q] = item[q]
             /\ seen'[q] = seen[q] /\ held'[q] = held[q]
             /\ draft'[q] = draft[q] /\ posted'[q] = posted[q]
  BY <1>1, EndEffect
<1>2. CASE Fail(r) \/ Abort(r) \/ CommitUpdate(r) \/ ChangeStock(r)
             \/ DropWarehouse(r) \/ (\E c \in Commands : CreateWarehouse(r, c))
  BY <1>1, <1>2
     DEF Fail, Abort, CommitUpdate, ChangeStock, DropWarehouse,
         CreateWarehouse
<1>3. CASE Start(r)
  BY <1>2, <1>3
     DEF TypeOK, Start, UpdateWarehouse, DeleteWarehouse, CreateStock,
         EditStock, Enter, RefuseStart, NameRefused, NotFound, NoSuchStock
<1>4. CASE Refuse(r)
  BY <1>2, <1>4
     DEF Refuse, LockRefused, RefuseMovement, StockGone, ChangeRefused,
         DeleteRestricted, WarehouseGone
<1>5. CASE LockWarehouse(r) \/ PickStock(r) \/ ReadStock(r)
             \/ PurgeMovements(r) \/ DeleteRows(r)
  BY <1>5 DEF TypeOK, LockWarehouse, PickStock, ReadStock, PurgeMovements,
              DeleteRows, tables, locals
<1>6. CASE InsertStock(r) \/ OverwriteStock(r)
  BY <1>6 DEF TypeOK, InsertStock, OverwriteStock, Draft, NextTurn
<1> QED
  BY <1>2, <1>3, <1>4, <1>5, <1>6 DEF Step

\* Only four steps write the tables of stock.
LEMMA StockWriters ==
  ASSUME NEW r \in Requests, Start(r) \/ Step(r) \/ Abort(r)
  PROVE  \/ CommitUpdate(r) \/ ChangeStock(r) \/ DropWarehouse(r)
         \/ stocks' = stocks /\ moves' = moves
BY DEF Start, Step, Abort, RefuseStart, Refuse, CreateWarehouse,
       UpdateWarehouse, DeleteWarehouse, CreateStock, EditStock, Enter,
       NameRefused, NotFound, NoSuchStock, LockWarehouse, PickStock,
       InsertStock, OverwriteStock, NextTurn, ReadStock, PurgeMovements,
       DeleteRows, LockRefused, RefuseMovement, StockGone, ChangeRefused,
       DeleteRestricted, WarehouseGone, Fail, tables, locals

\* Requests that do not overlap stay apart.
LEMMA OneAtATimeStep ==
  ASSUME IInv, OneAtATime, NEW r \in Requests,
         Start(r) \/ Step(r) \/ Abort(r)
  PROVE  OneAtATime'
<1> USE DEF Working
<1>1. \A q \in Requests \ {r} : pc'[q] = pc[q]
  BY OthersStand DEF IInv
<1>2. CASE pc[r] \in Working
  BY <1>1, <1>2 DEF OneAtATime
<1>3. CASE pc[r] \notin Working
  <2>1. Start(r)
    BY <1>3 DEF Step, Abort, LockWarehouse, PickStock, InsertStock,
                OverwriteStock, CommitUpdate, ReadStock, ChangeStock,
                PurgeMovements, DeleteRows, DropWarehouse, Refuse,
                LockRefused, RefuseMovement, StockGone, ChangeRefused,
                DeleteRestricted, WarehouseGone
  <2>2. Overlap \/ \A q \in Requests : pc[q] \notin Working
    BY <2>1 DEF Start, RefuseStart, CreateWarehouse, UpdateWarehouse,
                DeleteWarehouse, CreateStock, EditStock, NameRefused,
                NotFound, NoSuchStock, Begin
  <2> QED
    BY <1>1, <2>2 DEF OneAtATime
<1> QED
  BY <1>2, <1>3

\* Who changes a stock row in place is alone, when commands are undisturbed.
LEMMA ChangesAlone ==
  ASSUME IInv, OneAtATime, Undisturbed, NEW r \in Requests,
         pc[r] \in {"read", "change"}, NEW q \in Requests \ {r}
  PROVE  pc[q] \notin Working
<1>1. cmd[r] \in Commands /\ cmd[r].kind \in {"updateStock", "deleteStock"}
  BY CurrentCommand DEF IInv, HandlerState, Working
<1>2. ~Overlap
  BY <1>1 DEF Undisturbed
<1> QED
  BY <1>2 DEF OneAtATime, Working

\* While q has its warehouse locked no other request changes a row q has
\* drafted or read, nor the movements of it.
LEMMA LockedRowsStand ==
  ASSUME IInv, OneAtATime, Undisturbed, DraftsBalance,
         NEW r \in Requests, Start(r) \/ Step(r) \/ Abort(r),
         NEW q \in Requests \ {r}, pc[q] \in InLoop, NEW s \in StockId,
         s = q \/ \E v : IsRowOf(s, cmd[q].wh, v)
  PROVE  stocks'[s] = stocks[s] /\ moves'[s].sum = moves[s].sum
<1> USE DEF InLoop
<1>1. CASE CommitUpdate(r)
  <2>1. pc[r] = "loop" /\ cmd[q].wh # cmd[r].wh
    BY <1>1 DEF CommitUpdate, IInv, UpdatesExcludeEachOther
  <2>2. stocks[r] = None /\ stocks[q] = None
    BY <2>1 DEF IInv, FreshIdentifiers
  <2>3. s \notin held[r]
    BY <2>1, <2>2 DEF IInv, Drafts, IsRowOf
  <2>4. moves[s].sum \in Int /\ posted[r][s].sum = 0
    BY <2>1, <2>3 DEF DraftsBalance, IInv, TypeOK, Movements
  <2> QED
    BY <1>1, <2>3, <2>4 DEF CommitUpdate, View
<1>2. CASE ChangeStock(r)
  BY <1>2, ChangesAlone DEF ChangeStock, Working
<1>3. CASE DropWarehouse(r)
  <2>1. cmd[q].wh # cmd[r].wh
    BY <1>3 DEF DropWarehouse, Blocked, WarehouseLocked
  <2>2. stocks[q] = None
    BY DEF IInv, FreshIdentifiers
  <2>3. s \notin RowsOf(cmd[r].wh)
    BY <2>1, <2>2 DEF RowsOf, IsRowOf
  <2> QED
    BY <1>3, <2>3 DEF DropWarehouse
<1> QED
  BY <1>1, <1>2, <1>3, StockWriters

\* The rows of a draft and of a read are rows of the locked warehouse.
LEMMA DraftedOrRead ==
  ASSUME IInv, NEW q \in Requests
  PROVE  /\ pc[q] \in InLoop => \A s \in held[q] :
              s \in StockId /\ (s = q \/ \E v : IsRowOf(s, cmd[q].wh, v))
         /\ pc[q] = "write" /\ seen[q] # None =>
              /\ seen[q].id \in StockId
              /\ \E v : IsRowOf(seen[q].id, cmd[q].wh, v)
BY DEF IInv, TypeOK, Found, Drafts, ReadsHold

\* What the other requests have read and drafted stays as it was.
LEMMA OthersBalance ==
  ASSUME IInv, JournalInv, Undisturbed, NEW r \in Requests,
         Start(r) \/ Step(r) \/ Abort(r), NEW q \in Requests \ {r}
  PROVE  /\ pc'[q] = "write" /\ seen'[q] # None =>
              seen'[q].row = View(q, seen[q].id)'
         /\ pc'[q] = "change" => seen'[q].row = stocks'[cmd'[q].stock]
         /\ pc'[q] \in InLoop => \A s \in StockId :
              IF s \in held'[q]
              THEN moves'[s].sum + posted'[q][s].sum = draft'[q][s].avail
              ELSE posted'[q][s].sum = 0
<1> USE DEF JournalInv
<1>1. /\ pc'[q] = pc[q] /\ cmd'[q] = cmd[q] /\ seen'[q] = seen[q]
      /\ held'[q] = held[q] /\ draft'[q] = draft[q]
      /\ posted'[q] = posted[q]
  BY OthersStand DEF IInv
<1>2. pc[q] \in InLoop => \A s \in held[q] : moves'[s].sum = moves[s].sum
  BY DraftedOrRead, LockedRowsStand
<1>3. ASSUME pc[q] = "write", seen[q] # None
      PROVE  seen'[q].row = View(q, seen[q].id)'
  <2>1. stocks'[seen[q].id] = stocks[seen[q].id]
    BY <1>3, DraftedOrRead, LockedRowsStand DEF InLoop
  <2> QED
    BY <1>1, <1>3, <2>1 DEF View, ReadsAreCurrent
<1>4. ASSUME pc[q] = "change"
      PROVE  seen'[q].row = stocks'[cmd'[q].stock]
  <2>1. pc[r] \notin Working
    BY <1>4, ChangesAlone
  <2>2. stocks' = stocks
    BY <2>1, StockWriters
       DEF CommitUpdate, ChangeStock, DropWarehouse, Working
  <2> QED
    BY <1>1, <1>4, <2>2 DEF ReadsAreCurrent
<1> QED
  BY <1>1, <1>2, <1>3, <1>4 DEF DraftsBalance

\* What a step of r has to establish of r itself and of the tables.
LEMMA JournalOfOne ==
  ASSUME IInv, JournalInv, Undisturbed, NEW r \in Requests,
         Start(r) \/ Step(r) \/ Abort(r),
         pc'[r] = "write" /\ seen'[r] # None =>
           seen'[r].row = View(r, seen[r].id)',
         pc'[r] = "change" => seen'[r].row = stocks'[cmd'[r].stock],
         pc'[r] \in InLoop => \A s \in StockId :
           IF s \in held'[r]
           THEN moves'[s].sum + posted'[r][s].sum = draft'[r][s].avail
           ELSE posted'[r][s].sum = 0,
         pc'[r] \in {"lock", "loop", "write"} /\ cmd'[r].kind = "createStock"
           => \/ NewItem(r, cmd'[r]) \in todo'[r]
              \/ pc'[r] = "write" /\ item'[r] = NewItem(r, cmd'[r])
              \/ /\ pc'[r] = "loop" /\ todo'[r] = {}
                 /\ \E s \in held'[r] : draft'[r][s] = NewRow(cmd'[r]),
         \A s \in StockId :
           IF stocks'[s] = None THEN moves'[s] = NoMovements
           ELSE moves'[s].sum = stocks'[s].avail
  PROVE  JournalInv'
<1>1. OneAtATime'
  BY OneAtATimeStep DEF JournalInv
<1>2. ReadsAreCurrent' /\ DraftsBalance'
  BY OthersBalance DEF ReadsAreCurrent, DraftsBalance, View
<1>3. NewStockOnItsWay'
  <2> SUFFICES ASSUME NEW q \in Requests, q # r,
                      pc'[q] \in {"lock", "loop", "write"},
                      cmd'[q].kind = "createStock"
               PROVE \/ NewItem(q, cmd'[q]) \in todo'[q]
                     \/ pc'[q] = "write" /\ item'[q] = NewItem(q, cmd'[q])
                     \/ /\ pc'[q] = "loop" /\ todo'[q] = {}
                        /\ \E s \in held'[q] : draft'[q][s] = NewRow(cmd'[q])
    BY DEF NewStockOnItsWay, NewItem, NewRow
  <2> QED
    BY OthersStand DEF IInv, JournalInv, NewStockOnItsWay
<1> QED
  BY <1>1, <1>2, <1>3 DEF JournalInv, NoRowNoJournal, AuditTrailBalances

\* Rows and journal that do not change stay balanced.
LEMMA StandingJournal ==
  ASSUME JournalInv, stocks' = stocks, moves' = moves, NEW s \in StockId
  PROVE  IF stocks'[s] = None THEN moves'[s] = NoMovements
         ELSE moves'[s].sum = stocks'[s].avail
BY DEF JournalInv, NoRowNoJournal, AuditTrailBalances

\* The first steps of the commands.
LEMMA StartJournal ==
  ASSUME IInv, JournalInv, Undisturbed, NEW r \in Requests, Start(r)
  PROVE  JournalInv'
<1> USE DEF InLoop
<1>1. stocks' = stocks /\ moves' = moves
  BY DEF Start, RefuseStart, CreateWarehouse, UpdateWarehouse,
         DeleteWarehouse, CreateStock, EditStock, Enter, NameRefused,
         NotFound, NoSuchStock, Fail, tables
<1>2. CASE pc'[r] \in {"ok", "failed", "read", "purge"}
  BY <1>1, <1>2, JournalOfOne, StandingJournal
<1>3. CASE pc'[r] \notin {"ok", "failed", "read", "purge"}
  <2>1. PICK c \in Commands : UpdateWarehouse(r, c) \/ CreateStock(r, c)
    BY <1>3 DEF Start, RefuseStart, CreateWarehouse, DeleteWarehouse,
                EditStock, Enter, NameRefused, NotFound, NoSuchStock, Fail,
                End, IInv, TypeOK
  <2>2. pc'[r] = "lock" /\ cmd'[r] = c
    BY <2>1 DEF UpdateWarehouse, CreateStock, Enter, IInv, TypeOK
  <2>3. c.kind = "createStock" => NewItem(r, c) \in todo'[r]
    BY <2>1 DEF UpdateWarehouse, CreateStock, IInv, TypeOK
  <2> QED
    BY <1>1, <2>2, <2>3, JournalOfOne, StandingJournal
<1> QED
  BY <1>2, <1>3

\* Steps that neither write a row nor leave an update in the middle.
LEMMA QuietJournal ==
  ASSUME IInv, JournalInv, Undisturbed, NEW r \in Requests,
         Start(r) \/ Step(r) \/ Abort(r),
         \/ Fail(r) \/ LockWarehouse(r) \/ ReadStock(r)
         \/ PurgeMovements(r) \/ DeleteRows(r)
  PROVE  JournalInv'
<1> USE DEF InLoop
<1>1. CASE Fail(r)
  <2>1. pc'[r] = "failed" /\ stocks' = stocks /\ moves' = moves
    BY <1>1 DEF Fail, End, tables, IInv, TypeOK
  <2> QED
    BY <2>1, JournalOfOne, StandingJournal
<1>2. CASE LockWarehouse(r)
  <2>1. /\ pc[r] = "lock" /\ pc'[r] = "loop"
        /\ UNCHANGED <<stocks, moves, cmd, todo, held, posted, draft>>
    BY <1>2 DEF LockWarehouse, tables, locals, IInv, TypeOK
  <2>2. held[r] = {} /\ posted[r] = NoPosts
    BY <2>1 DEF IInv, NothingPostedYet
  <2>3. \A s \in StockId : s \notin held'[r] /\ posted'[r][s].sum = 0
    BY <2>1, <2>2 DEF NoPosts, NoMovements
  <2>4. cmd[r].kind = "createStock" => NewItem(r, cmd[r]) \in todo[r]
    BY <2>1 DEF JournalInv, NewStockOnItsWay
  <2> QED
    BY <2>1, <2>3, <2>4, JournalOfOne, StandingJournal
<1>3. CASE ReadStock(r)
  <2>1. /\ pc'[r] = "change" /\ UNCHANGED <<stocks, moves, cmd>>
        /\ seen'[r].row = stocks[cmd[r].stock]
    BY <1>3 DEF ReadStock, tables, IInv, TypeOK
  <2> QED
    BY <2>1, JournalOfOne, StandingJournal
<1>4. CASE PurgeMovements(r) \/ DeleteRows(r)
  <2>1. pc'[r] \in {"rows", "drop"} /\ UNCHANGED <<stocks, moves>>
    BY <1>4 DEF PurgeMovements, DeleteRows, tables, IInv, TypeOK
  <2> QED
    BY <2>1, JournalOfOne, StandingJournal
<1> QED
  BY <1>1, <1>2, <1>3, <1>4

\* What the loop reads of a row is what its transaction sees of it.
LEMMA PickJournal ==
  ASSUME IInv, JournalInv, Undisturbed, NEW r \in Requests, PickStock(r)
  PROVE  JournalInv'
<1> USE DEF InLoop
<1>1. PICK i \in NextItems(r) :
        /\ todo' = [todo EXCEPT ![r] = @ \ {i}]
        /\ item' = [item EXCEPT ![r] = i]
        /\ \/ seen' = [seen EXCEPT ![r] = None]
           \/ \E s \in Existing(r, i) :
                seen' = [seen EXCEPT ![r] = [id |-> s, row |-> View(r, s)]]
  BY DEF PickStock
<1>2. /\ pc[r] = "loop" /\ pc'[r] = "write"
      /\ UNCHANGED <<stocks, moves, cmd, held, draft, posted>>
      /\ todo'[r] = todo[r] \ {i} /\ item'[r] = i
  BY <1>1 DEF PickStock, tables, IInv, TypeOK
<1>3. seen'[r] # None => seen'[r].row = View(r, seen[r].id)'
  <2>1. CASE seen' = [seen EXCEPT ![r] = None]
    BY <2>1 DEF IInv, TypeOK
  <2>2. ASSUME NEW s \in Existing(r, i),
               seen' = [seen EXCEPT ![r] = [id |-> s, row |-> View(r, s)]]
        PROVE seen'[r].row = View(r, seen[r].id)'
    <3>1. seen'[r] = [id |-> s, row |-> View(r, s)]
      BY <2>2 DEF IInv, TypeOK
    <3> QED
      BY <1>2, <3>1 DEF View
  <2> QED
    BY <1>1, <2>1, <2>2
<1>4. \A s \in StockId :
        IF s \in held'[r]
        THEN moves'[s].sum + posted'[r][s].sum = draft'[r][s].avail
        ELSE posted'[r][s].sum = 0
  BY <1>2 DEF JournalInv, DraftsBalance
<1>5. cmd[r].kind = "createStock" =>
        \/ NewItem(r, cmd[r]) \in todo'[r]
        \/ item'[r] = NewItem(r, cmd[r])
  <2>1. cmd[r].kind = "createStock" =>
          NewItem(r, cmd[r]) \in todo[r] \/ todo[r] = {}
    BY <1>2 DEF JournalInv, NewStockOnItsWay
  <2>2. i \in todo[r]
    BY DEF NextItems
  <2> QED
    BY <1>2, <2>1, <2>2
<1>6. Step(r)
  BY DEF Step
<1> QED
  BY <1>2, <1>3, <1>4, <1>5, <1>6, JournalOfOne, StandingJournal

\* The movement posted with a draft.
LEMMA DraftSum ==
  ASSUME TypeOK, NEW r \in Requests, NEW s \in StockId, NEW x, Draft(r, s, x)
  PROVE  posted'[r][s].sum = IF PostsMovement(r)
                             THEN posted[r][s].sum + Delta(r)
                             ELSE posted[r][s].sum
BY DEF TypeOK, Draft

\* Writing a row the update has read or is to insert keeps the balance.
LEMMA DraftJournal ==
  ASSUME IInv, JournalInv, Undisturbed, NEW r \in Requests, Step(r),
         NEW s \in StockId, NEW x \in Row, pc[r] = "write",
         Draft(r, s, x), NextTurn(r), x.avail = item[r].avail,
         IF seen[r] = None THEN s = r ELSE s = seen[r].id,
         cmd[r].kind = "createStock" /\ item[r] = NewItem(r, cmd[r])
           => todo[r] = {} /\ x = NewRow(cmd[r])
  PROVE  JournalInv'
<1> USE DEF InLoop
<1>1. /\ UNCHANGED <<stocks, moves, cmd, todo>>
      /\ pc'[r] = "loop" /\ held'[r] = held[r] \cup {s}
      /\ draft'[r][s] = x
      /\ \A t \in StockId \ {s} :
           draft'[r][t] = draft[r][t] /\ posted'[r][t] = posted[r][t]
  BY DraftEffect DEF IInv
<1>2. /\ moves[s].sum \in Int /\ posted[r][s].sum \in Int
      /\ item[r].avail \in Int
      /\ seen[r] # None => seen[r].row.avail \in Int
  BY MaxQtyAssumption
     DEF IInv, TypeOK, HandlerState, Movements, Item, Found, Row, Qty
<1>3. moves[s].sum + posted'[r][s].sum = x.avail
  <2>1. posted'[r][s].sum = posted[r][s].sum + Delta(r)
    BY <1>2, DraftSum DEF IInv, PostsMovement, Delta
  <2>2. CASE seen[r] = None
    <3>1. stocks[s] = None /\ s \notin held[r]
      BY <2>2 DEF IInv, FreshIdentifiers, NewStockIsLast
    <3>2. moves[s].sum = 0 /\ posted[r][s].sum = 0
      BY <3>1
         DEF JournalInv, NoRowNoJournal, DraftsBalance, NoMovements
    <3> QED
      BY <1>2, <2>1, <2>2, <3>2 DEF Delta
  <2>3. CASE seen[r] # None
    <3>1. stocks[s] # None
      BY <2>3 DEF IInv, ReadsHold, IsRowOf
    <3>2. seen[r].row = View(r, s)
      BY <2>3 DEF JournalInv, ReadsAreCurrent
    <3>3. moves[s].sum + posted[r][s].sum = seen[r].row.avail
      <4>1. CASE s \in held[r]
        BY <3>2, <4>1 DEF JournalInv, DraftsBalance, View
      <4>2. CASE s \notin held[r]
        BY <1>2, <3>1, <3>2, <4>2
           DEF JournalInv, DraftsBalance, AuditTrailBalances, View
      <4> QED
        BY <4>1, <4>2
    <3> QED
      BY <1>2, <2>1, <2>3, <3>3 DEF Delta
  <2> QED
    BY <2>2, <2>3
<1>4. \A t \in StockId :
        IF t \in held'[r]
        THEN moves'[t].sum + posted'[r][t].sum = draft'[r][t].avail
        ELSE posted'[r][t].sum = 0
  BY <1>1, <1>3 DEF JournalInv, DraftsBalance
<1>5. cmd[r].kind = "createStock" =>
        \/ NewItem(r, cmd[r]) \in todo[r]
        \/ todo[r] = {} /\ draft'[r][s] = NewRow(cmd[r])
  BY <1>1 DEF JournalInv, NewStockOnItsWay
<1> QED
  BY <1>1, <1>4, <1>5, JournalOfOne, StandingJournal

\* Inserting the new stock.
LEMMA InsertJournal ==
  ASSUME IInv, JournalInv, Undisturbed, NEW r \in Requests, InsertStock(r)
  PROVE  JournalInv'
<1> DEFINE x == [wh |-> cmd[r].wh, variant |-> item[r].variant,
                 avail |-> item[r].avail, reserved |-> item[r].reserved,
                 deleted |-> FALSE]
<1>1. /\ pc[r] = "write" /\ seen[r] = None /\ NextTurn(r)
      /\ Draft(r, item[r].id, x)
  BY DEF InsertStock
<1>2. item[r].id = r /\ todo[r] = {}
  BY <1>1 DEF IInv, ReadsHold, NewStockIsLast
<1>3. cmd[r] \in Commands /\ cmd[r].wh \in WarehouseId
  BY <1>1, CurrentCommand, CommandFields DEF IInv, HandlerState, Working
<1>4. x \in Row /\ r \in StockId
  BY <1>1, <1>3 DEF IInv, TypeOK, HandlerState, Item, Row, StockId
<1>5. item[r] = NewItem(r, cmd[r]) => x = NewRow(cmd[r])
  BY DEF NewItem, NewRow
<1>6. x.avail = item[r].avail
  OBVIOUS
<1>7. Step(r)
  BY DEF Step
<1> HIDE DEF x
<1> QED
  BY <1>1, <1>2, <1>4, <1>5, <1>6, <1>7, DraftJournal

\* Overwriting the row that was read.
LEMMA OverwriteJournal ==
  ASSUME IInv, JournalInv, Undisturbed, NEW r \in Requests, OverwriteStock(r)
  PROVE  JournalInv'
<1> DEFINE s == seen[r].id
           x == Overwritten(View(r, s), item[r], seen[r].row)
<1>1. /\ pc[r] = "write" /\ seen[r] # None /\ NextTurn(r) /\ Draft(r, s, x)
  BY DEF OverwriteStock
<1>2. s \in StockId /\ IsRowOf(s, cmd[r].wh, item[r].variant)
  BY <1>1 DEF IInv, TypeOK, Found, ReadsHold
<1>3. s # r
  BY <1>1, <1>2 DEF IInv, FreshIdentifiers, IsRowOf
<1>4. /\ View(r, s) \in Row /\ View(r, s).wh = cmd[r].wh
      /\ View(r, s).variant = item[r].variant
  <2>1. CASE s \in held[r]
    BY <1>1, <1>2, <1>3, <2>1, ViewType
       DEF View, IInv, Drafts, InLoop, IsRowOf
  <2>2. CASE s \notin held[r]
    BY <1>2, <2>2, ViewType DEF View, IInv, IsRowOf
  <2> QED
    BY <2>1, <2>2
<1>5. seen[r].row = View(r, s)
  BY <1>1 DEF JournalInv, ReadsAreCurrent
<1>6. item[r] \in Item
  BY <1>1 DEF IInv, TypeOK, HandlerState
<1>7. x \in Row /\ x.avail = item[r].avail
  BY <1>4, <1>6 DEF Overwritten, Item, Row
<1>8. item[r] = NewItem(r, cmd[r]) => todo[r] = {} /\ x = NewRow(cmd[r])
  <2>1. item[r] = NewItem(r, cmd[r]) => item[r].id = r
    BY DEF NewItem
  <2>2. View(r, s).deleted \in BOOLEAN
    BY <1>4 DEF Row
  <2>3. (View(r, s).deleted /\ ~seen[r].row.deleted) = FALSE
    BY <1>5, <2>2
  <2>4. x = [wh |-> cmd[r].wh, variant |-> item[r].variant,
             avail |-> item[r].avail, reserved |-> item[r].reserved,
             deleted |-> FALSE]
    BY <1>4, <2>3 DEF Overwritten
  <2>5. item[r] = NewItem(r, cmd[r]) => x = NewRow(cmd[r])
    BY <2>4 DEF NewItem, NewRow
  <2> QED
    BY <1>1, <2>1, <2>5 DEF IInv, NewStockIsLast
<1>9. Step(r)
  BY DEF Step
<1> HIDE DEF s, x
<1>10. s = seen[r].id
  BY DEF s
<1> QED
  BY <1>1, <1>2, <1>7, <1>8, <1>9, <1>10, DraftJournal

\* A commit makes the drafts rows and their postings journal.
LEMMA CommitJournal ==
  ASSUME IInv, JournalInv, Undisturbed, NEW r \in Requests, CommitUpdate(r)
  PROVE  JournalInv'
<1> USE DEF InLoop
<1>1. /\ pc[r] = "loop" /\ pc'[r] = "ok"
      /\ stocks' = [s \in StockId |-> View(r, s)]
      /\ moves' = [s \in StockId |->
                     [n |-> moves[s].n + posted[r][s].n,
                      sum |-> moves[s].sum + posted[r][s].sum]]
  BY DEF CommitUpdate, End, IInv, TypeOK
<1>2. ASSUME NEW s \in StockId
      PROVE  IF stocks'[s] = None THEN moves'[s] = NoMovements
             ELSE moves'[s].sum = stocks'[s].avail
  <2>1. CASE s \in held[r]
    <3>1. stocks'[s] = draft[r][s] /\ draft[r][s] # None
      BY <1>1, <2>1 DEF View, IInv, Drafts
    <3>2. moves'[s].sum = draft[r][s].avail
      BY <1>1, <2>1 DEF JournalInv, DraftsBalance
    <3> QED
      BY <3>1, <3>2
  <2>2. CASE s \notin held[r]
    <3>1. stocks'[s] = stocks[s]
      BY <1>1, <2>2 DEF View
    <3>2. posted[r][s].n = 0 /\ posted[r][s].sum = 0
      BY <1>1, <2>2 DEF IInv, Postings, JournalInv, DraftsBalance
    <3>3. moves[s].n \in Nat /\ moves[s].sum \in Int
      BY DEF IInv, TypeOK, Movements
    <3>4. moves'[s] = [n |-> moves[s].n, sum |-> moves[s].sum]
      BY <1>1, <3>2, <3>3
    <3> QED
      BY <3>1, <3>4 DEF JournalInv, NoRowNoJournal, AuditTrailBalances,
                        NoMovements
  <2> QED
    BY <2>1, <2>2
<1>3. Step(r)
  BY DEF Step
<1> QED
  BY <1>1, <1>2, <1>3, JournalOfOne

\* The movement of updateSingleStock leads from the row's quantity, which is
\* the one it read, to the new one.
LEMMA ChangeJournal ==
  ASSUME IInv, JournalInv, Undisturbed, NEW r \in Requests, ChangeStock(r)
  PROVE  JournalInv'
<1> USE DEF InLoop
<1> DEFINE c == cmd[r]
           t == c.stock
           read == seen[r].row
<1>1. /\ pc[r] = "change" /\ pc'[r] = "ok" /\ stocks[t] # None
      /\ stocks' = [stocks EXCEPT ![t] = ChangedRow(c, read, stocks[t])]
      /\ moves' = IF ChangePosts(c, read)
                  THEN [moves EXCEPT ![t] =
                          [n |-> @.n + 1, sum |-> @.sum + ChangeDelta(c, read)]]
                  ELSE moves
  BY DEF ChangeStock, End, IInv, TypeOK
<1>2. c \in Commands /\ t \in StockId /\ c.avail \in Qty \cup {None}
  BY <1>1, CurrentCommand, CommandFields DEF IInv, HandlerState, Working
<1>3. read = stocks[t] /\ read \in Row
  BY <1>1, <1>2 DEF JournalInv, ReadsAreCurrent, IInv, TypeOK
<1>4. moves[t].sum = read.avail
  BY <1>1, <1>2, <1>3 DEF JournalInv, AuditTrailBalances
<1> DEFINE new == OrElse(c.avail, read.avail)
<1>5. new \in Int /\ read.avail \in Int
  BY <1>2, <1>3, MaxQtyAssumption DEF OrElse, Row, Qty
<1>6. ChangedRow(c, read, stocks[t]).avail = new
  BY DEF ChangedRow
<1>7. moves'[t].sum = new
  <2>1. ChangeDelta(c, read) = new - read.avail
    BY DEF ChangeDelta
  <2>2. ~ChangePosts(c, read) => new - read.avail = 0
    BY <2>1 DEF ChangePosts
  <2> HIDE DEF new, read, c, t
  <2> QED
    BY <1>1, <1>2, <1>4, <1>5, <2>1, <2>2 DEF IInv, TypeOK
<1>8. ChangedRow(c, read, stocks[t]) # None
  <2>1. c.reserved \in Qty \cup {None}
    BY <1>1, <1>2, CommandFields DEF IInv, HandlerState
  <2>2. 0 \in Qty
    BY MaxQtyAssumption DEF Qty
  <2>3. ChangedRow(c, read, stocks[t]) \in Row
    BY <1>2, <1>3, <2>1, <2>2 DEF ChangedRow, OrElse, Row
  <2> QED
    BY <2>3, NoneAssumption
<1> HIDE DEF new, read, c, t
<1>9. stocks'[t] # None /\ stocks'[t].avail = new
  BY <1>1, <1>2, <1>6, <1>8 DEF IInv, TypeOK
<1>10. \A s \in StockId \ {t} : stocks'[s] = stocks[s] /\ moves'[s] = moves[s]
  BY <1>1, <1>2 DEF IInv, TypeOK
<1>11. ASSUME NEW s \in StockId
       PROVE  IF stocks'[s] = None THEN moves'[s] = NoMovements
              ELSE moves'[s].sum = stocks'[s].avail
  BY <1>7, <1>9, <1>10 DEF JournalInv, NoRowNoJournal, AuditTrailBalances
<1>12. Step(r)
  BY DEF Step
<1> QED
  BY <1>1, <1>11, <1>12, JournalOfOne

\* A deletion takes the rows of the warehouse and their journal together.
LEMMA DropJournal ==
  ASSUME IInv, JournalInv, Undisturbed, NEW r \in Requests, DropWarehouse(r)
  PROVE  JournalInv'
<1> USE DEF InLoop
<1>1. /\ pc'[r] = "ok"
      /\ stocks' = [s \in StockId |->
                      IF s \in RowsOf(cmd[r].wh) THEN None ELSE stocks[s]]
      /\ moves' = [s \in StockId |->
                     IF s \in RowsOf(cmd[r].wh) THEN NoMovements
                     ELSE moves[s]]
  BY DEF DropWarehouse, End, IInv, TypeOK
<1>2. ASSUME NEW s \in StockId
      PROVE  IF stocks'[s] = None THEN moves'[s] = NoMovements
             ELSE moves'[s].sum = stocks'[s].avail
  BY <1>1 DEF JournalInv, NoRowNoJournal, AuditTrailBalances
<1>3. Step(r)
  BY DEF Step
<1> QED
  BY <1>1, <1>2, <1>3, JournalOfOne

\* Every step of undisturbed commands keeps the journal balanced.
LEMMA NextJournal ==
  ASSUME IInv, JournalInv, Undisturbed, [Next]_vars
  PROVE  JournalInv'
<1>1. CASE UNCHANGED vars
  BY <1>1
     DEF vars, tables, locals, JournalInv, OneAtATime, ReadsAreCurrent,
         DraftsBalance, NoRowNoJournal, NewStockOnItsWay, NewItem, NewRow,
         AuditTrailBalances, View
<1>2. ASSUME NEW r \in Requests, Step(r)
      PROVE  JournalInv'
  <2>1. CASE Refuse(r)
    BY <1>2, <2>1, QuietJournal
       DEF Refuse, LockRefused, RefuseMovement, StockGone, ChangeRefused,
           DeleteRestricted, WarehouseGone
  <2> QED
    BY <1>2, <2>1, QuietJournal, PickJournal, InsertJournal,
       OverwriteJournal, CommitJournal, ChangeJournal, DropJournal DEF Step
<1>3. ASSUME NEW r \in Requests, Abort(r)
      PROVE  JournalInv'
  BY <1>3, QuietJournal DEF Abort
<1> QED
  BY <1>1, <1>2, <1>3, StartJournal DEF Next, Served

\* The journal of the first rows is balanced.
LEMMA InitJournal == Init => JournalInv
<1> SUFFICES ASSUME Init PROVE JournalInv
  OBVIOUS
<1>1. /\ pc = [r \in Requests |-> "idle"]
      /\ moves = [s \in StockId |-> OpeningMovements(stocks[s])]
  BY DEF Init
<1>2. OneAtATime /\ ReadsAreCurrent /\ DraftsBalance /\ NewStockOnItsWay
  BY <1>1 DEF OneAtATime, ReadsAreCurrent, DraftsBalance, NewStockOnItsWay,
              Working, InLoop
<1>3. NoRowNoJournal /\ AuditTrailBalances
  BY <1>1 DEF NoRowNoJournal, AuditTrailBalances, OpeningMovements
<1> QED
  BY <1>2, <1>3 DEF JournalInv

\* The invariant of undisturbed commands.
THEOREM JournalInvariant ==
  ASSUME Undisturbed
  PROVE  Spec => []JournalInv
<1>1. IInv /\ JournalInv /\ [Next]_vars => JournalInv'
  BY NextJournal
<1> QED
  BY <1>1, InitJournal, InductiveInvariant, PTL DEF Spec

\* The journal explains every quantity on hand ("serves as an audit trail")
\* when commands do not overlap, and also when they do if none of them is
\* updateStock or deleteStock: the update of a whole aggregate reads each row
\* behind the lock of its warehouse.
THEOREM AuditTrailKept ==
  ASSUME Undisturbed
  PROVE  Spec => []AuditTrailBalances
<1>1. JournalInv => AuditTrailBalances
  BY DEF JournalInv
<1> QED
  BY <1>1, JournalInvariant, PTL

\* Who asks createStock for a stock finds it on the shelf, whatever row of the
\* variant the warehouse had before.
THEOREM CreatedStockOnShelf ==
  ASSUME Undisturbed
  PROVE  Spec => CreatedStockIsActive
<1> DEFINE Shelved == \A r \in Requests : Commits(r, "createStock") =>
             \E s \in StockId :
               stocks'[s] = [wh |-> cmd[r].wh, variant |-> cmd[r].variant,
                             avail |-> cmd[r].avail,
                             reserved |-> cmd[r].reserved, deleted |-> FALSE]
<1>1. Init => RenamesPostNothingYet
  BY DEF Init, RenamesPostNothingYet, Working, InLoop
<1>2. IInv /\ RenamesPostNothingYet /\ [Next]_vars => RenamesPostNothingYet'
  BY RenamesPostNothingStep
<1>3. IInv /\ JournalInv /\ RenamesPostNothingYet /\ [Next]_vars
        => [Shelved]_vars
  <2> SUFFICES ASSUME IInv, JournalInv, RenamesPostNothingYet, Next,
                      NEW r \in Requests, Commits(r, "createStock"),
                      vars' # vars
               PROVE \E s \in StockId : stocks'[s] = NewRow(cmd[r])
    BY DEF NewRow
  <2>1. /\ pc[r] \in Working /\ pc'[r] = "ok"
        /\ cmd[r].kind = "createStock"
    BY DEF Commits, RenamesPostNothingYet
  <2>2. ASSUME NEW q \in Requests \ {r}
        PROVE ~Start(q) /\ ~Step(q) /\ ~Abort(q)
    BY <2>1, OthersStand DEF IInv, Working
  <2>3. Start(r) \/ Step(r) \/ Abort(r)
    BY <2>2 DEF Next, Served
  <2>4. CommitUpdate(r)
    BY <2>1, <2>3
       DEF Start, Step, Abort, RefuseStart, Refuse, CreateWarehouse,
           UpdateWarehouse, DeleteWarehouse, CreateStock, EditStock, Begin,
           NameRefused, NotFound, NoSuchStock, LockWarehouse, PickStock,
           InsertStock, OverwriteStock, NextTurn, ReadStock, ChangeStock,
           PurgeMovements, DeleteRows, DropWarehouse, LockRefused,
           RefuseMovement, StockGone, ChangeRefused, DeleteRestricted,
           WarehouseGone, Fail, End, IInv, TypeOK, HandlerState, Working
  <2>5. PICK s \in held[r] : draft[r][s] = NewRow(cmd[r])
    BY <2>1, <2>4 DEF CommitUpdate, JournalInv, NewStockOnItsWay
  <2>6. s \in StockId
    BY DEF IInv, TypeOK
  <2> QED
    BY <2>4, <2>5, <2>6 DEF CommitUpdate, View
<1> QED
  BY <1>1, <1>2, <1>3, InductiveInvariant, JournalInvariant, PTL
     DEF Spec, CreatedStockIsActive

\* Without overlap nobody else is in a handler while one takes a step.
LEMMA StepsAlone ==
  ASSUME IInv, JournalInv, ~Overlap, NEW r \in Requests,
         Start(r) \/ Step(r) \/ Abort(r), NEW q \in Requests \ {r}
  PROVE  pc'[q] \notin Working
<1>1. CASE pc[r] \in Working
  BY <1>1, OthersStand DEF IInv, JournalInv, OneAtATime
<1>2. CASE pc[r] \notin Working
  <2>1. Start(r)
    BY <1>2 DEF Working, Step, Abort, LockWarehouse, PickStock, InsertStock,
                OverwriteStock, CommitUpdate, ReadStock, ChangeStock,
                PurgeMovements, DeleteRows, DropWarehouse, Refuse,
                LockRefused, RefuseMovement, StockGone, ChangeRefused,
                DeleteRestricted, WarehouseGone
  <2>2. pc[q] \notin Working
    BY <2>1 DEF Start, RefuseStart, CreateWarehouse, UpdateWarehouse,
                DeleteWarehouse, CreateStock, EditStock, NameRefused,
                NotFound, NoSuchStock, Begin
  <2> QED
    BY <2>2, OthersStand DEF IInv
<1> QED
  BY <1>1, <1>2

\* What a step of r has to establish of r itself.
LEMMA SerialOfOne ==
  ASSUME IInv, JournalInv, ~Overlap, NEW r \in Requests,
         Start(r) \/ Step(r) \/ Abort(r),
         pc'[r] \in {"lock", "loop", "write"} =>
           \A i \in todo'[r] : StillThere(r, i)',
         pc'[r] = "write" => StillThere(r, item[r])',
         pc'[r] = "change" => cmd'[r].stock \in ActiveRowsOf(cmd[r].wh)',
         pc'[r] \in InLoop => \A s \in held'[r] :
           \/ draft'[r][s] = stocks'[s]
           \/ /\ pc'[r] = "loop" /\ todo'[r] = {}
              /\ cmd'[r].kind = "createStock"
              /\ draft'[r][s] = NewRow(cmd'[r])
  PROVE  SerialInv'
<1> USE DEF InLoop, Working
<1>1. LoadedAsIs'
  BY StepsAlone
     DEF LoadedAsIs, StillThere, NewItem, AsItem, ActiveRowsOf, RowsOf
<1>2. DraftsChangeOneRow'
  BY StepsAlone DEF DraftsChangeOneRow, NewRow
<1> QED
  BY <1>1, <1>2 DEF SerialInv

\* What a command has loaded is there.
LEMMA StartSerial ==
  ASSUME IInv, JournalInv, ~Overlap, NEW r \in Requests, Start(r)
  PROVE  SerialInv'
<1> USE DEF InLoop
<1>1. CASE pc'[r] \in {"ok", "failed", "read", "purge"}
  BY <1>1, SerialOfOne
<1>2. CASE pc'[r] \notin {"ok", "failed", "read", "purge"}
  <2>1. PICK c \in Commands : UpdateWarehouse(r, c) \/ CreateStock(r, c)
    BY <1>2 DEF Start, RefuseStart, CreateWarehouse, DeleteWarehouse,
                EditStock, Enter, NameRefused, NotFound, NoSuchStock, Fail,
                End, IInv, TypeOK
  <2>2. /\ pc'[r] = "lock" /\ cmd'[r] = c /\ stocks' = stocks
        /\ c.wh \in WarehouseId
    BY <2>1, CommandFields
       DEF UpdateWarehouse, CreateStock, Enter, tables, IInv, TypeOK
  <2>3. \A i \in LoadedItems(c.wh) :
          i.id \in ActiveRowsOf(c.wh)' /\ i = AsItem(i.id)'
    BY <2>2 DEF LoadedItems, AsItem, ActiveRowsOf, RowsOf
  <2>4. \A i \in todo'[r] :
          \/ i \in LoadedItems(c.wh)
          \/ c.kind = "createStock" /\ i = NewItem(r, c)
    BY <2>1 DEF UpdateWarehouse, CreateStock, IInv, TypeOK
  <2>5. \A i \in todo'[r] : StillThere(r, i)'
    BY <2>2, <2>3, <2>4
       DEF StillThere, NewItem, AsItem, ActiveRowsOf, RowsOf
  <2> QED
    BY <2>2, <2>5, SerialOfOne
<1> QED
  BY <1>1, <1>2

\* Steps that end a handler or only read.
LEMMA QuietSerial ==
  ASSUME IInv, JournalInv, SerialInv, ~Overlap, NEW r \in Requests,
         Start(r) \/ Step(r) \/ Abort(r),
         \/ pc'[r] \in {"ok", "failed", "rows", "drop"}
         \/ LockWarehouse(r) \/ PickStock(r) \/ ReadStock(r)
  PROVE  SerialInv'
<1> USE DEF InLoop
<1>1. CASE pc'[r] \in {"ok", "failed", "rows", "drop"}
  BY <1>1, SerialOfOne
<1>2. CASE LockWarehouse(r)
  <2>1. /\ pc[r] = "lock" /\ pc'[r] = "loop"
        /\ UNCHANGED <<stocks, cmd, todo, held>>
    BY <1>2 DEF LockWarehouse, tables, locals, IInv, TypeOK
  <2>2. held'[r] = {}
    BY <2>1 DEF IInv, NothingPostedYet
  <2>3. \A i \in todo'[r] : StillThere(r, i)'
    BY <2>1
       DEF SerialInv, LoadedAsIs, StillThere, NewItem, AsItem, ActiveRowsOf,
           RowsOf
  <2> QED
    BY <2>1, <2>2, <2>3, SerialOfOne
<1>3. CASE PickStock(r)
  <2>1. PICK i \in todo[r] : todo'[r] = todo[r] \ {i} /\ item'[r] = i
    BY <1>3 DEF PickStock, NextItems, IInv, TypeOK
  <2>2. /\ pc[r] = "loop" /\ pc'[r] = "write"
        /\ UNCHANGED <<stocks, cmd, held, draft>>
    BY <1>3 DEF PickStock, tables, IInv, TypeOK
  <2>3. \A j \in todo[r] : StillThere(r, j)
    BY <2>2 DEF SerialInv, LoadedAsIs
  <2>4. \A j \in todo'[r] : StillThere(r, j)'
    BY <2>1, <2>2, <2>3
       DEF StillThere, NewItem, AsItem, ActiveRowsOf, RowsOf
  <2>5. StillThere(r, item[r])'
    BY <2>1, <2>2, <2>3
       DEF StillThere, NewItem, AsItem, ActiveRowsOf, RowsOf
  <2>6. \A s \in held[r] : draft[r][s] = stocks[s]
    BY <2>1, <2>2 DEF SerialInv, DraftsChangeOneRow
  <2> QED
    BY <2>2, <2>4, <2>5, <2>6, SerialOfOne
<1>4. CASE ReadStock(r)
  <2>1. /\ pc'[r] = "change" /\ UNCHANGED <<stocks, cmd>>
        /\ cmd[r].stock \in ActiveRowsOf(cmd[r].wh)
    BY <1>4 DEF ReadStock, tables, IInv, TypeOK
  <2> QED
    BY <2>1, SerialOfOne DEF ActiveRowsOf, RowsOf
<1> QED
  BY <1>1, <1>2, <1>3, <1>4

\* Writing a row as it was, or the row createStock asks for as the last one.
LEMMA DraftSerial ==
  ASSUME IInv, JournalInv, SerialInv, ~Overlap, NEW r \in Requests, Step(r),
         NEW s \in StockId, NEW x \in Row, pc[r] = "write",
         Draft(r, s, x), NextTurn(r),
         \/ x = stocks[s]
         \/ todo[r] = {} /\ cmd[r].kind = "createStock" /\ x = NewRow(cmd[r])
  PROVE  SerialInv'
<1> USE DEF InLoop
<1>1. /\ UNCHANGED <<stocks, cmd, todo>>
      /\ pc'[r] = "loop" /\ held'[r] = held[r] \cup {s}
      /\ draft'[r][s] = x
      /\ \A t \in StockId \ {s} : draft'[r][t] = draft[r][t]
  BY DraftEffect DEF IInv
<1>2. held[r] \subseteq StockId
  BY DEF IInv, TypeOK
<1>3. \A t \in held[r] : draft[r][t] = stocks[t]
  BY DEF SerialInv, DraftsChangeOneRow
<1>4. \A t \in held'[r] :
        \/ draft'[r][t] = stocks'[t]
        \/ /\ pc'[r] = "loop" /\ todo'[r] = {}
           /\ cmd'[r].kind = "createStock"
           /\ draft'[r][t] = NewRow(cmd'[r])
  BY <1>1, <1>2, <1>3
<1>5. \A i \in todo'[r] : StillThere(r, i)'
  BY <1>1
     DEF SerialInv, LoadedAsIs, StillThere, NewItem, AsItem, ActiveRowsOf,
         RowsOf
<1> QED
  BY <1>1, <1>4, <1>5, SerialOfOne

\* Only the new stock is inserted.
LEMMA InsertSerial ==
  ASSUME IInv, JournalInv, SerialInv, ~Overlap, NEW r \in Requests,
         InsertStock(r)
  PROVE  SerialInv'
<1> DEFINE x == [wh |-> cmd[r].wh, variant |-> item[r].variant,
                 avail |-> item[r].avail, reserved |-> item[r].reserved,
                 deleted |-> FALSE]
<1>1. /\ pc[r] = "write" /\ seen[r] = None /\ NextTurn(r)
      /\ Draft(r, item[r].id, x)
  BY DEF InsertStock
<1>2. item[r].id = r /\ todo[r] = {} /\ stocks[r] = None
  BY <1>1 DEF IInv, ReadsHold, NewStockIsLast, FreshIdentifiers
<1>3. cmd[r] \in Commands /\ cmd[r].wh \in WarehouseId
  BY <1>1, CurrentCommand, CommandFields DEF IInv, HandlerState, Working
<1>4. x \in Row /\ r \in StockId
  BY <1>1, <1>3 DEF IInv, TypeOK, HandlerState, Item, Row, StockId
<1>5. cmd[r].kind = "createStock" /\ item[r] = NewItem(r, cmd[r])
  BY <1>1, <1>2
     DEF SerialInv, LoadedAsIs, StillThere, ActiveRowsOf, RowsOf
<1>6. x = NewRow(cmd[r])
  BY <1>5 DEF NewItem, NewRow
<1>7. Step(r)
  BY DEF Step
<1> HIDE DEF x
<1> QED
  BY <1>1, <1>2, <1>4, <1>5, <1>6, <1>7, DraftSerial

\* A loaded stock is written to the row it was loaded from.
LEMMA OverwriteSerial ==
  ASSUME IInv, JournalInv, SerialInv, ~Overlap, NEW r \in Requests,
         OverwriteStock(r)
  PROVE  SerialInv'
<1> DEFINE s == seen[r].id
           x == Overwritten(View(r, s), item[r], seen[r].row)
<1>1. /\ pc[r] = "write" /\ seen[r] # None /\ NextTurn(r) /\ Draft(r, s, x)
  BY DEF OverwriteStock
<1>2. s \in StockId /\ IsRowOf(s, cmd[r].wh, item[r].variant)
  BY <1>1 DEF IInv, TypeOK, Found, ReadsHold
<1>3. View(r, s) = stocks[s] /\ stocks[s] \in Row
  BY <1>1, <1>2
     DEF View, SerialInv, DraftsChangeOneRow, InLoop, IInv, TypeOK, IsRowOf
<1>4. seen[r].row = stocks[s]
  BY <1>1, <1>3 DEF JournalInv, ReadsAreCurrent
<1>5. (View(r, s).deleted /\ ~seen[r].row.deleted) = FALSE
  BY <1>3, <1>4 DEF Row
<1>6. x = [wh |-> cmd[r].wh, variant |-> item[r].variant,
           avail |-> item[r].avail, reserved |-> item[r].reserved,
           deleted |-> FALSE]
  BY <1>2, <1>3, <1>5 DEF Overwritten, IsRowOf
<1>7. StillThere(r, item[r])
  BY <1>1 DEF SerialInv, LoadedAsIs
<1>8. CASE cmd[r].kind = "createStock" /\ item[r] = NewItem(r, cmd[r])
  <2>1. item[r].id = r /\ x = NewRow(cmd[r])
    BY <1>6, <1>8 DEF NewItem, NewRow
  <2>2. todo[r] = {}
    BY <1>1, <2>1 DEF IInv, NewStockIsLast
  <2>3. x \in Row
    BY <2>1, <1>1, <1>8, CurrentCommand, CommandFields
       DEF NewRow, Row, IInv, HandlerState, Working
  <2>4. Step(r)
    BY DEF Step
  <2> HIDE DEF x, s
  <2> QED
    BY <1>1, <1>2, <1>8, <2>1, <2>2, <2>3, <2>4, DraftSerial
<1>9. CASE /\ item[r].id \in ActiveRowsOf(cmd[r].wh)
           /\ item[r] = AsItem(item[r].id)
  <2>1. s = item[r].id
    BY <1>2, <1>9
       DEF IInv, OneRowPerVariant, IsRowOf, ActiveRowsOf, RowsOf, AsItem
  <2>2. /\ item[r].avail = stocks[s].avail
        /\ item[r].reserved = stocks[s].reserved
        /\ stocks[s].deleted = FALSE
    BY <1>3, <1>9, <2>1 DEF AsItem, ActiveRowsOf, Row
  <2>3. x = stocks[s]
    BY <1>2, <1>3, <1>6, <2>2 DEF IsRowOf, Row
  <2>4. Step(r)
    BY DEF Step
  <2> HIDE DEF x, s
  <2> QED
    BY <1>1, <1>2, <1>3, <2>3, <2>4, DraftSerial
<1> QED
  BY <1>7, <1>8, <1>9 DEF StillThere

\* Every step of commands that do not overlap keeps SerialInv.
LEMMA NextSerial ==
  ASSUME IInv, JournalInv, SerialInv, ~Overlap, [Next]_vars
  PROVE  SerialInv'
<1>1. CASE UNCHANGED vars
  BY <1>1
     DEF vars, tables, locals, SerialInv, LoadedAsIs, DraftsChangeOneRow,
         StillThere, NewItem, NewRow, AsItem, ActiveRowsOf, RowsOf
<1>2. ASSUME NEW r \in Requests, Fail(r) \/ CommitUpdate(r)
                 \/ ChangeStock(r) \/ DropWarehouse(r) \/ PurgeMovements(r)
                 \/ DeleteRows(r)
      PROVE  pc'[r] \in {"ok", "failed", "rows", "drop"}
  BY <1>2 DEF Fail, CommitUpdate, ChangeStock, DropWarehouse, PurgeMovements,
              DeleteRows, End, IInv, TypeOK
<1>3. ASSUME NEW r \in Requests, Step(r)
      PROVE  SerialInv'
  <2>1. CASE Refuse(r)
    <3>1. Fail(r)
      BY <2>1 DEF Refuse, LockRefused, RefuseMovement, StockGone,
                  ChangeRefused, DeleteRestricted, WarehouseGone
    <3> QED
      BY <1>2, <1>3, <3>1, QuietSerial
  <2> QED
    BY <1>2, <1>3, <2>1, QuietSerial, InsertSerial, OverwriteSerial DEF Step
<1>4. ASSUME NEW r \in Requests, Abort(r)
      PROVE  SerialInv'
  BY <1>2, <1>4, QuietSerial DEF Abort
<1> QED
  BY <1>1, <1>3, <1>4, StartSerial DEF Next, Served

\* The shelves as a function of the rows.
ActiveRow(rows, s, w, v) ==
  rows[s] # None /\ rows[s].wh = w /\ ~rows[s].deleted /\ rows[s].variant = v

ShelfOf(rows, w, v) ==
  LET active == {s \in StockId : ActiveRow(rows, s, w, v)}
  IN IF active = {} THEN None ELSE rows[CHOOSE s \in active : TRUE].avail

Shelf == [w \in WarehouseId |->
            IF names[w] = None THEN None
            ELSE [v \in Variants |-> OnShelf(w, v)]]

LEMMA OnShelfIs ==
  ASSUME NEW w, NEW v
  PROVE  /\ OnShelf(w, v) = ShelfOf(stocks, w, v)
         /\ OnShelf(w, v)' = ShelfOf(stocks', w, v)
<1> DEFINE A == {s \in ActiveRowsOf(w) : stocks[s].variant = v}
           B == {s \in StockId : ActiveRow(stocks, s, w, v)}
           C == {s \in StockId : ActiveRow(stocks', s, w, v)}
<1>1. A = B /\ A' = C
  BY DEF ActiveRowsOf, RowsOf, ActiveRow
<1>2. OnShelf(w, v) = IF A = {} THEN None
                      ELSE stocks[CHOOSE s \in A : TRUE].avail
  BY DEF OnShelf
<1>3. OnShelf(w, v)' = IF A' = {} THEN None
                       ELSE stocks'[CHOOSE s \in A' : TRUE].avail
  BY DEF OnShelf
<1>4. ShelfOf(stocks, w, v) = IF B = {} THEN None
                              ELSE stocks[CHOOSE s \in B : TRUE].avail
  BY DEF ShelfOf
<1>5. ShelfOf(stocks', w, v) = IF C = {} THEN None
                               ELSE stocks'[CHOOSE s \in C : TRUE].avail
  BY DEF ShelfOf
<1> HIDE DEF A, B, C
<1> QED
  BY <1>1, <1>2, <1>3, <1>4, <1>5

\* A shelf depends on the active rows of its variant and on nothing else.
LEMMA SameShelf ==
  ASSUME NEW old, NEW new, NEW w, NEW v,
         \A s \in StockId : ActiveRow(old, s, w, v) <=> ActiveRow(new, s, w, v),
         \A s \in StockId :
           ActiveRow(old, s, w, v) => old[s].avail = new[s].avail
  PROVE  ShelfOf(old, w, v) = ShelfOf(new, w, v)
<1> DEFINE A == {s \in StockId : ActiveRow(old, s, w, v)}
           B == {s \in StockId : ActiveRow(new, s, w, v)}
<1>1. A = B
  OBVIOUS
<1>2. ASSUME A # {}
      PROVE  old[CHOOSE s \in A : TRUE].avail = new[CHOOSE s \in A : TRUE].avail
  <2>1. (CHOOSE s \in A : TRUE) \in A
    BY <1>2
  <2> QED
    BY <2>1
<1>3. ShelfOf(old, w, v) = IF A = {} THEN None
                           ELSE old[CHOOSE s \in A : TRUE].avail
  BY DEF ShelfOf
<1>4. ShelfOf(new, w, v) = IF B = {} THEN None
                           ELSE new[CHOOSE s \in B : TRUE].avail
  BY DEF ShelfOf
<1> HIDE DEF A, B
<1> QED
  BY <1>1, <1>2, <1>3, <1>4

\* The only active row of a variant is what the shelf shows.
LEMMA ShelfOfOne ==
  ASSUME NEW rows, NEW w, NEW v, NEW s \in StockId, ActiveRow(rows, s, w, v),
         \A t \in StockId : ActiveRow(rows, t, w, v) => t = s
  PROVE  ShelfOf(rows, w, v) = rows[s].avail
<1> DEFINE A == {t \in StockId : ActiveRow(rows, t, w, v)}
<1>1. A = {s}
  OBVIOUS
<1>2. (CHOOSE t \in {s} : TRUE) = s
  OBVIOUS
<1>3. ShelfOf(rows, w, v) = IF A = {} THEN None
                            ELSE rows[CHOOSE t \in A : TRUE].avail
  BY DEF ShelfOf
<1> HIDE DEF A
<1> QED
  BY <1>1, <1>2, <1>3

\* ... and without one it shows nothing.
LEMMA ShelfOfNone ==
  ASSUME NEW rows, NEW w, NEW v,
         \A t \in StockId : ~ActiveRow(rows, t, w, v)
  PROVE  ShelfOf(rows, w, v) = None
BY DEF ShelfOf

\* A shelf holds a quantity or nothing.
LEMMA ShelfType ==
  ASSUME TypeOK, NEW w \in WarehouseId, NEW v \in Variants
  PROVE  OnShelf(w, v) \in Qty \cup {None}
<1> DEFINE A == {s \in StockId : ActiveRow(stocks, s, w, v)}
<1>1. ShelfOf(stocks, w, v) = IF A = {} THEN None
                              ELSE stocks[CHOOSE s \in A : TRUE].avail
  BY DEF ShelfOf
<1>2. A # {} => (CHOOSE s \in A : TRUE) \in A
  OBVIOUS
<1>3. \A s \in A : stocks[s].avail \in Qty
  BY DEF ActiveRow, TypeOK, Row
<1> HIDE DEF A
<1> QED
  BY <1>1, <1>2, <1>3, OnShelfIs

\* Names and rows that stand leave the shelves as they were.
LEMMA ShelvesStand ==
  ASSUME stocks' = stocks,
         \A w \in WarehouseId : names'[w] = None <=> names[w] = None
  PROVE  Shelf' = Shelf
<1>1. \A w \in WarehouseId, v \in Variants : OnShelf(w, v)' = OnShelf(w, v)
  BY OnShelfIs
<1> QED
  BY <1>1 DEF Shelf

\* One variant of a standing warehouse gets the quantity q, or nothing.
LEMMA ShelfPut ==
  ASSUME NEW w \in WarehouseId, NEW v \in Variants, NEW q,
         names[w] # None,
         \A x \in WarehouseId : names'[x] = None <=> names[x] = None,
         ShelfOf(stocks', w, v) = q,
         \A x \in WarehouseId, y \in Variants :
           x # w \/ y # v => ShelfOf(stocks', x, y) = ShelfOf(stocks, x, y)
  PROVE  Shelf' = [Shelf EXCEPT ![w][v] = q]
<1>1. \A x \in WarehouseId, y \in Variants :
        OnShelf(x, y)' = IF x = w /\ y = v THEN q ELSE OnShelf(x, y)
  BY OnShelfIs
<1>2. Shelf[w] = [y \in Variants |-> OnShelf(w, y)]
  BY DEF Shelf
<1>3. Shelf'[w] = [Shelf[w] EXCEPT ![v] = q]
  BY <1>1, <1>2 DEF Shelf
<1>4. \A x \in WarehouseId \ {w} : Shelf'[x] = Shelf[x]
  BY <1>1 DEF Shelf
<1>5. /\ Shelf = [x \in WarehouseId |-> Shelf[x]]
      /\ Shelf' = [x \in WarehouseId |-> Shelf'[x]]
  BY DEF Shelf
<1>6. [Shelf EXCEPT ![w][v] = q] =
        [x \in WarehouseId |->
           IF x = w THEN [Shelf[w] EXCEPT ![v] = q] ELSE Shelf[x]]
  BY <1>5
<1> QED
  BY <1>3, <1>4, <1>5, <1>6

\* The steps of WarehouseShelves, on the shelves of the inventory.
LEMMA OpenShelf ==
  ASSUME NEW w \in WarehouseId, Shelf[w] = None,
         Shelf' = [Shelf EXCEPT ![w] = [v \in Variants |-> None]]
  PROVE  Shelves!Next
BY DEF Shelf, Shelves!Next, Shelves!OpenWarehouse, Shelves!Empty

LEMMA CloseShelf ==
  ASSUME NEW w \in WarehouseId, Shelf[w] # None,
         Shelf' = [Shelf EXCEPT ![w] = None]
  PROVE  Shelves!Next
BY DEF Shelf, Shelves!Next, Shelves!CloseWarehouse

LEMMA PutOnShelf ==
  ASSUME NEW w \in WarehouseId, NEW v \in Variants, NEW q \in Qty,
         Shelf[w] # None, Shelf' = [Shelf EXCEPT ![w][v] = q]
  PROVE  Shelves!Next
<1>1. Shelves!Put(w, v, q)
  BY DEF Shelf, Shelves!Put
<1> QED
  BY <1>1 DEF Shelves!Next

LEMMA TakeFromShelf ==
  ASSUME NEW w \in WarehouseId, NEW v \in Variants,
         Shelf[w] # None, Shelf[w][v] # None,
         Shelf' = [Shelf EXCEPT ![w][v] = None]
  PROVE  Shelves!Next
<1>1. Shelves!Take(w, v)
  BY DEF Shelf, Shelves!Take
<1> QED
  BY <1>1 DEF Shelves!Next

\* A warehouse has a shelf as long as it has a name.
LEMMA ShelfThere ==
  ASSUME TypeOK, NEW w \in WarehouseId
  PROVE  Shelf[w] = None <=> names[w] = None
<1>1. [v \in Variants |-> OnShelf(w, v)] \in [Variants -> Qty \cup {None}]
  BY ShelfType
<1> QED
  BY <1>1, NoneAssumption DEF Shelf

\* createWarehouse opens an empty warehouse: a fresh identifier has no rows.
LEMMA CreateShelf ==
  ASSUME IInv, NEW r \in Requests, NEW c \in Commands, CreateWarehouse(r, c)
  PROVE  Shelves!Next
<1>1. /\ names' = [names EXCEPT ![r] = c.name] /\ stocks' = stocks
      /\ c.name # None /\ names[r] = None /\ r \in WarehouseId
  BY CommandFields, NoneAssumption
     DEF CreateWarehouse, Begin, IInv, FreshIdentifiers, WarehouseId
<1>2. \A t \in StockId, v \in Variants : ~ActiveRow(stocks, t, r, v)
  BY <1>1 DEF IInv, ReferentialIntegrity, ActiveRow
<1>3. \A w \in WarehouseId, v \in Variants :
        OnShelf(w, v)' = IF w = r THEN None ELSE OnShelf(w, v)
  BY <1>1, <1>2, OnShelfIs, ShelfOfNone
<1>4. /\ names'[r] # None
      /\ \A w \in WarehouseId \ {r} : names'[w] = names[w]
  BY <1>1 DEF IInv, TypeOK
<1>5. Shelf' = [Shelf EXCEPT ![r] = [v \in Variants |-> None]]
  BY <1>1, <1>3, <1>4 DEF Shelf
<1>6. Shelf[r] = None
  BY <1>1 DEF Shelf
<1> QED
  BY <1>1, <1>5, <1>6, OpenShelf

\* deleteWarehouse closes one warehouse.
LEMMA DropShelf ==
  ASSUME IInv, NEW r \in Requests, DropWarehouse(r)
  PROVE  Shelves!Next
<1> DEFINE w == cmd[r].wh
<1>1. /\ names[w] # None /\ names' = [names EXCEPT ![w] = None]
      /\ stocks' = [s \in StockId |->
                      IF s \in RowsOf(w) THEN None ELSE stocks[s]]
      /\ w \in WarehouseId
  BY CurrentCommand, CommandFields
     DEF DropWarehouse, IInv, HandlerState, Working
<1> HIDE DEF w
<1>2. \A x \in WarehouseId \ {w}, v \in Variants, s \in StockId :
        /\ ActiveRow(stocks, s, x, v) <=> ActiveRow(stocks', s, x, v)
        /\ ActiveRow(stocks, s, x, v) => stocks[s].avail = stocks'[s].avail
  BY <1>1 DEF ActiveRow, RowsOf
<1>3. \A x \in WarehouseId \ {w}, v \in Variants :
        OnShelf(x, v)' = OnShelf(x, v)
  BY <1>2, SameShelf, OnShelfIs
<1>4. /\ names'[w] = None
      /\ \A x \in WarehouseId \ {w} : names'[x] = names[x]
  BY <1>1 DEF IInv, TypeOK
<1>5. Shelf' = [Shelf EXCEPT ![w] = None]
  BY <1>1, <1>3, <1>4 DEF Shelf
<1>6. Shelf[w] # None
  BY <1>1, ShelfThere DEF IInv
<1> QED
  BY <1>1, <1>5, <1>6, CloseShelf

\* Changing one active row changes one shelf.
LEMMA OneRowOneShelf ==
  ASSUME IInv, NEW t \in StockId, NEW w \in WarehouseId, NEW v \in Variants,
         names[w] # None,
         \A x \in WarehouseId : names'[x] = None <=> names[x] = None,
         \A s \in StockId \ {t} : stocks'[s] = stocks[s],
         stocks[t] = None \/ IsRowOf(t, w, v),
         \A s \in StockId : s # t => ~IsRowOf(s, w, v),
         stocks'[t] # None, stocks'[t].wh = w, stocks'[t].variant = v,
         stocks'[t].deleted \in BOOLEAN
  PROVE  Shelf' = [Shelf EXCEPT ![w][v] =
                     IF stocks'[t].deleted THEN None ELSE stocks'[t].avail]
<1>1. \A x \in WarehouseId, y \in Variants : x # w \/ y # v =>
        ShelfOf(stocks', x, y) = ShelfOf(stocks, x, y)
  <2> SUFFICES ASSUME NEW x \in WarehouseId, NEW y \in Variants,
                      x # w \/ y # v
               PROVE ShelfOf(stocks', x, y) = ShelfOf(stocks, x, y)
    OBVIOUS
  <2>1. \A s \in StockId :
          /\ ActiveRow(stocks, s, x, y) <=> ActiveRow(stocks', s, x, y)
          /\ ActiveRow(stocks, s, x, y) => stocks[s].avail = stocks'[s].avail
    BY DEF ActiveRow, IsRowOf
  <2> QED
    BY <2>1, SameShelf
<1>2. \A s \in StockId : s # t => ~ActiveRow(stocks', s, w, v)
  BY DEF ActiveRow, IsRowOf
<1>3. CASE stocks'[t].deleted
  <2>1. \A s \in StockId : ~ActiveRow(stocks', s, w, v)
    BY <1>2, <1>3 DEF ActiveRow
  <2>2. ShelfOf(stocks', w, v) = None
    BY <2>1, ShelfOfNone
  <2> QED
    BY <1>1, <1>3, <2>2, ShelfPut
<1>4. CASE ~stocks'[t].deleted
  <2>1. ActiveRow(stocks', t, w, v)
    BY <1>4 DEF ActiveRow
  <2>2. ShelfOf(stocks', w, v) = stocks'[t].avail
    BY <1>2, <2>1, ShelfOfOne
  <2> QED
    BY <1>1, <1>4, <2>2, ShelfPut
<1> QED
  BY <1>3, <1>4

\* Committing an aggregate writes back the rows as they were, but for the one
\* createStock has asked for.
LEMMA CommitShelf ==
  ASSUME IInv, JournalInv, SerialInv, NEW r \in Requests, CommitUpdate(r)
  PROVE  Shelves!Next \/ Shelf' = Shelf
<1> DEFINE w == cmd[r].wh
           v == cmd[r].variant
<1>1. /\ pc[r] = "loop" /\ todo[r] = {} /\ pc[r] \in InLoop
      /\ names' = [names EXCEPT ![w] = agg[r]]
      /\ stocks' = [s \in StockId |-> View(r, s)]
  BY DEF CommitUpdate, InLoop
<1>2. /\ cmd[r] \in Commands /\ w \in WarehouseId
      /\ cmd[r].kind \in {"updateWarehouse", "createStock"}
      /\ agg[r] # None /\ names[w] # None
  BY <1>1, CurrentCommand, CommandFields
     DEF IInv, HandlerState, UpdatesExcludeEachOther, Working
<1>3. \A x \in WarehouseId : names'[x] = None <=> names[x] = None
  BY <1>1, <1>2 DEF IInv, TypeOK
<1>4. \A s \in StockId :
        \/ stocks'[s] = stocks[s]
        \/ /\ s \in held[r] /\ cmd[r].kind = "createStock"
           /\ stocks'[s] = NewRow(cmd[r])
  BY <1>1 DEF View, SerialInv, DraftsChangeOneRow
<1>5. CASE cmd[r].kind = "updateWarehouse"
  <2>1. stocks' = stocks
    BY <1>1, <1>4, <1>5 DEF IInv, TypeOK
  <2> QED
    BY <1>3, <2>1, ShelvesStand
<1>6. CASE cmd[r].kind = "createStock"
  <2>1. PICK t \in held[r] : draft[r][t] = NewRow(cmd[r])
    BY <1>1, <1>6 DEF JournalInv, NewStockOnItsWay
  <2>2. t \in StockId /\ stocks'[t] = NewRow(cmd[r])
    BY <1>1, <2>1 DEF View, IInv, TypeOK
  <2>3. v \in Variants /\ cmd[r].avail \in Qty
    BY <1>2, <1>6, CommandFields
  <2>4. /\ NewRow(cmd[r]).wh = w /\ NewRow(cmd[r]).variant = v
        /\ NewRow(cmd[r]).avail = cmd[r].avail
        /\ NewRow(cmd[r]).deleted = FALSE
    BY DEF NewRow
  <2>5. NewRow(cmd[r]) \in Row
    BY <1>2, <1>6, CommandFields DEF NewRow, Row
  <2>6. NewRow(cmd[r]) # None
    BY <2>5, NoneAssumption
  <2> HIDE DEF w, v
  <2>7. IF t = r THEN NoOtherRow(r, v) ELSE IsRowOf(t, w, v)
    BY <1>1, <2>1, <2>4 DEF IInv, Drafts, w
  <2>8. stocks[t] = None \/ IsRowOf(t, w, v)
    BY <1>1, <2>7 DEF IInv, FreshIdentifiers
  <2>9. \A s \in StockId : s # t => ~IsRowOf(s, w, v)
    <3>1. CASE t = r
      BY <2>7, <3>1 DEF NoOtherRow, w
    <3>2. CASE t # r
      BY <2>2, <2>7, <3>2 DEF IsRowOf, IInv, OneRowPerVariant
    <3> QED
      BY <3>1, <3>2
  <2>10. \A s \in StockId \ {t} : stocks'[s] = stocks[s]
    <3> SUFFICES ASSUME NEW s \in StockId \ {t}, s \in held[r],
                        stocks'[s] = NewRow(cmd[r])
                 PROVE FALSE
      BY <1>4
    <3>1. draft[r][s] = NewRow(cmd[r])
      BY <1>1 DEF View
    <3>2. IF s = r THEN NoOtherRow(r, v) ELSE IsRowOf(s, w, v)
      BY <1>1, <2>4, <3>1 DEF IInv, Drafts, w
    <3> QED
      BY <2>7, <2>9, <2>2, <3>2 DEF NoOtherRow, w
  <2>11. Shelf' = [Shelf EXCEPT ![w][v] = cmd[r].avail]
    <3>1. /\ stocks'[t] # None /\ stocks'[t].wh = w
          /\ stocks'[t].variant = v /\ stocks'[t].deleted = FALSE
          /\ stocks'[t].deleted \in BOOLEAN
          /\ stocks'[t].avail = cmd[r].avail
      BY <2>2, <2>4, <2>6
    <3>2. Shelf' = [Shelf EXCEPT ![w][v] =
                      IF stocks'[t].deleted THEN None ELSE stocks'[t].avail]
      BY <1>2, <1>3, <2>2, <2>3, <2>8, <2>9, <2>10, <3>1, OneRowOneShelf
    <3> QED
      BY <3>1, <3>2
  <2>12. Shelf[w] # None
    BY <1>2, ShelfThere DEF IInv
  <2> QED
    BY <1>2, <2>3, <2>11, <2>12, PutOnShelf
<1> QED
  BY <1>2, <1>5, <1>6

\* updateStock and deleteStock change the active row they have read.
LEMMA ChangeShelf ==
  ASSUME IInv, JournalInv, SerialInv, NEW r \in Requests, ChangeStock(r)
  PROVE  Shelves!Next
<1> DEFINE c == cmd[r]
           t == c.stock
           read == seen[r].row
           w == stocks[t].wh
           v == stocks[t].variant
           x == ChangedRow(c, read, stocks[t])
<1>1. /\ pc[r] = "change" /\ stocks[t] # None
      /\ stocks' = [stocks EXCEPT ![t] = x] /\ names' = names
  BY DEF ChangeStock
<1>2. /\ c \in Commands /\ t \in StockId
      /\ c.avail \in Qty \cup {None} /\ c.reserved \in Qty \cup {None}
  BY <1>1, CurrentCommand, CommandFields DEF IInv, HandlerState, Working
<1>3. /\ read = stocks[t] /\ read \in Row /\ read.deleted = FALSE
  BY <1>1, <1>2
     DEF JournalInv, ReadsAreCurrent, SerialInv, LoadedAsIs, ActiveRowsOf,
         IInv, TypeOK, Row
<1>4. w \in WarehouseId /\ v \in Variants /\ names[w] # None
  BY <1>1, <1>2, <1>3 DEF IInv, ReferentialIntegrity, Row
<1>5. 0 \in Qty
  BY MaxQtyAssumption DEF Qty
<1>6. x \in Row
  BY <1>2, <1>3, <1>5 DEF ChangedRow, OrElse, Row
<1>7. /\ x.wh = w /\ x.variant = v /\ x.avail \in Qty
      /\ x.deleted = Removes(c)
  BY <1>3, <1>6 DEF ChangedRow, Removes, Row
<1>8. IsRowOf(t, w, v) /\ \A s \in StockId : s # t => ~IsRowOf(s, w, v)
  BY <1>1, <1>2 DEF IsRowOf, IInv, OneRowPerVariant
<1>9. ActiveRow(stocks, t, w, v)
  BY <1>1, <1>3 DEF ActiveRow
<1>10. ShelfOf(stocks, w, v) = stocks[t].avail
  BY <1>2, <1>8, <1>9, ShelfOfOne DEF ActiveRow, IsRowOf
<1>11. Shelf[w] # None /\ Shelf[w][v] \in Qty
  <2>1. Shelf[w][v] = stocks[t].avail
    BY <1>4, <1>10, OnShelfIs DEF Shelf
  <2>2. stocks[t].avail \in Qty
    BY <1>3 DEF Row
  <2> QED
    BY <1>4, <2>1, <2>2, ShelfThere DEF IInv
<1>12. x # None
  BY <1>6, NoneAssumption
<1> HIDE DEF c, t, read, w, v, x
<1>13. stocks'[t] = x /\ \A s \in StockId \ {t} : stocks'[s] = stocks[s]
  BY <1>1, <1>2 DEF IInv, TypeOK
<1>14. x.deleted \in BOOLEAN
  BY <1>6 DEF Row
<1>15. Shelf' = [Shelf EXCEPT ![w][v] =
                   IF x.deleted THEN None ELSE x.avail]
  BY <1>1, <1>2, <1>4, <1>7, <1>8, <1>12, <1>13, <1>14, OneRowOneShelf
<1>16. CASE x.deleted
  <2>1. Shelf' = [Shelf EXCEPT ![w][v] = None]
    BY <1>15, <1>16
  <2>2. Shelf[w][v] # None
    BY <1>11, NoneAssumption
  <2> QED
    BY <1>4, <1>11, <2>1, <2>2, TakeFromShelf
<1>17. CASE ~x.deleted
  <2>1. Shelf' = [Shelf EXCEPT ![w][v] = x.avail]
    BY <1>15, <1>17
  <2> QED
    BY <1>4, <1>7, <1>11, <2>1, PutOnShelf
<1> QED
  BY <1>16, <1>17

\* Every step of commands that do not overlap is a step of the shelves.
LEMMA NextShelf ==
  ASSUME IInv, JournalInv, SerialInv, [Next]_vars
  PROVE  Shelves!Next \/ Shelf' = Shelf
<1>1. CASE stocks' = stocks /\ names' = names
  BY <1>1, ShelvesStand
<1>2. ASSUME NEW r \in Requests, Fail(r)
      PROVE  stocks' = stocks /\ names' = names
  BY <1>2 DEF Fail, tables
<1>3. ASSUME NEW r \in Requests, Start(r), stocks' # stocks \/ names' # names
      PROVE  \E c \in Commands : CreateWarehouse(r, c)
  BY <1>2, <1>3
     DEF Start, RefuseStart, UpdateWarehouse, DeleteWarehouse, CreateStock,
         EditStock, Enter, NameRefused, NotFound, NoSuchStock, tables
<1>4. ASSUME NEW r \in Requests, Step(r), stocks' # stocks \/ names' # names
      PROVE  CommitUpdate(r) \/ ChangeStock(r) \/ DropWarehouse(r)
  BY <1>2, <1>4
     DEF Step, LockWarehouse, PickStock, InsertStock, OverwriteStock,
         NextTurn, ReadStock, PurgeMovements, DeleteRows, Refuse,
         LockRefused, RefuseMovement, StockGone, ChangeRefused,
         DeleteRestricted, WarehouseGone, tables
<1>5. ASSUME stocks' # stocks \/ names' # names
      PROVE  \/ \E r \in Requests, c \in Commands : CreateWarehouse(r, c)
             \/ \E r \in Requests :
                  CommitUpdate(r) \/ ChangeStock(r) \/ DropWarehouse(r)
  BY <1>2, <1>3, <1>4, <1>5 DEF Next, Served, Abort, vars, tables
<1> QED
  BY <1>1, <1>5, CommitShelf, ChangeShelf, DropShelf, CreateShelf

\* The shelves of Init are shelves.
LEMMA InitShelf == Init => Shelves!Init
<1> SUFFICES ASSUME Init PROVE Shelves!Init
  OBVIOUS
<1>1. TypeOK
  BY InitTypeOK
<1>2. \A w \in WarehouseId :
        [v \in Variants |-> OnShelf(w, v)] \in [Variants -> Qty \cup {None}]
  BY <1>1, ShelfType
<1> QED
  BY <1>2 DEF Shelves!Init, Shelves!Contents

\* When commands do not overlap, writing back a whole aggregate is the same as
\* changing the one variant the command names: the handlers and
\* WarehouseRepository implement WarehouseShelves.
THEOREM SerialCommandsRefineShelves ==
  ASSUME ~Overlap
  PROVE  Spec => CommandsChangeOneShelf
<1>1. Undisturbed
  BY DEF Undisturbed
<1>2. Init => SerialInv
  BY DEF Init, SerialInv, LoadedAsIs, DraftsChangeOneRow, InLoop
<1>3. IInv /\ JournalInv /\ SerialInv /\ [Next]_vars => SerialInv'
  BY NextSerial
<1>4. IInv /\ JournalInv /\ SerialInv /\ [Next]_vars
        => [Shelves!Next]_Shelf
  BY NextShelf
<1>5. Spec => []JournalInv
  BY <1>1, JournalInvariant
<1> QED
  BY <1>2, <1>3, <1>4, <1>5, InitShelf, InductiveInvariant, PTL
     DEF Spec, CommandsChangeOneShelf, Shelves!Spec, Shelf
=============================================================================
