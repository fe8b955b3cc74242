----------------------- MODULE InventoryQueriesProofs -----------------------
(***************************************************************************)
(* What a client is shown of the stock: the listing of a warehouse and the *)
(* journal of its movements agree, for every instance.                     *)
(***************************************************************************)
EXTENDS InventoryProofs, InventoryQueries, ListingProofs

\* Where a step leaves the rows of r and of the tables, the others keep what
\* they drafted and read.
LEMMA RemovedOfOne ==
  ASSUME IInv, JournalInv, RemovedInv, Undisturbed, NEW r \in Requests,
         Start(r) \/ Step(r) \/ Abort(r),
         RemovedRowsEmpty',
         pc'[r] \in InLoop => \A s \in held'[r] : ~draft'[r][s].deleted,
         pc'[r] = "change" => ~seen'[r].row.deleted
  PROVE  RemovedInv'
<1>1. \A q \in Requests \ {r} :
        /\ pc'[q] = pc[q] /\ held'[q] = held[q] /\ draft'[q] = draft[q]
        /\ seen'[q] = seen[q]
  BY OthersStand DEF IInv
<1> QED
  BY <1>1 DEF RemovedInv, DraftsAreActive, EditsOfActiveRows

\* Steps that write neither the tables nor a draft.
LEMMA QuietRemoved ==
  ASSUME IInv, JournalInv, RemovedInv, Undisturbed, NEW r \in Requests,
         Start(r) \/ Step(r) \/ Abort(r),
         \/ Start(r) \/ Fail(r) \/ LockWarehouse(r) \/ ReadStock(r)
         \/ PickStock(r) \/ PurgeMovements(r) \/ DeleteRows(r)
  PROVE  RemovedInv'
<1> USE DEF InLoop
<1>1. stocks' = stocks
  BY DEF Start, RefuseStart, CreateWarehouse, UpdateWarehouse,
         DeleteWarehouse, CreateStock, EditStock, Enter, NameRefused,
         NotFound, NoSuchStock, Fail, LockWarehouse, ReadStock, PickStock,
         PurgeMovements, DeleteRows, tables
<1>2. RemovedRowsEmpty'
  BY <1>1 DEF RemovedInv, RemovedRowsEmpty
<1>3. CASE Start(r) \/ Fail(r) \/ PurgeMovements(r) \/ DeleteRows(r)
  <2>1. pc'[r] \in {"ok", "failed", "lock", "read", "purge", "rows", "drop"}
    BY <1>3 DEF Start, RefuseStart, CreateWarehouse, UpdateWarehouse,
                DeleteWarehouse, CreateStock, EditStock, Enter, NameRefused,
                NotFound, NoSuchStock, Fail, End, PurgeMovements, DeleteRows,
                IInv, TypeOK
  <2> QED
    BY <1>2, <2>1, RemovedOfOne
<1>4. CASE LockWarehouse(r)
  <2>1. pc[r] = "lock" /\ pc'[r] = "loop" /\ held'[r] = held[r]
    BY <1>4 DEF LockWarehouse, locals, IInv, TypeOK
  <2>2. held'[r] = {}
    BY <2>1 DEF IInv, NothingPostedYet
  <2> QED
    BY <1>2, <2>1, <2>2, RemovedOfOne
<1>5. CASE ReadStock(r)
  <2>1. /\ cmd[r].stock \in ActiveRowsOf(cmd[r].wh)
        /\ pc'[r] = "change" /\ seen'[r].row = stocks[cmd[r].stock]
    BY <1>5 DEF ReadStock, IInv, TypeOK
  <2> QED
    BY <1>2, <2>1, RemovedOfOne DEF ActiveRowsOf
<1>6. CASE PickStock(r)
  <2>1. /\ pc[r] = "loop" /\ pc'[r] = "write" /\ held'[r] = held[r]
        /\ draft'[r] = draft[r]
    BY <1>6 DEF PickStock, IInv, TypeOK
  <2> QED
    BY <1>2, <2>1, RemovedOfOne DEF RemovedInv, DraftsAreActive
<1> QED
  BY <1>3, <1>4, <1>5, <1>6

\* A written row is active: a row that was read as removed is still removed
\* when it is written, and brought back.
LEMMA WriteRemoved ==
  ASSUME IInv, JournalInv, RemovedInv, Undisturbed, NEW r \in Requests,
         InsertStock(r) \/ OverwriteStock(r)
  PROVE  RemovedInv'
<1> USE DEF InLoop
<1>1. Step(r)
  BY DEF Step
<1>2. ASSUME NEW s \in StockId, NEW x, pc[r] = "write", ~x.deleted,
             Draft(r, s, x), NextTurn(r)
      PROVE  RemovedInv'
  <2>1. /\ pc'[r] = "loop" /\ held'[r] = held[r] \cup {s}
        /\ draft'[r][s] = x /\ stocks' = stocks
        /\ \A t \in StockId \ {s} : draft'[r][t] = draft[r][t]
    BY <1>2, DraftEffect DEF IInv
  <2>2. RemovedRowsEmpty'
    BY <2>1 DEF RemovedInv, RemovedRowsEmpty
  <2>3. \A t \in held'[r] : ~draft'[r][t].deleted
    BY <1>2, <2>1 DEF RemovedInv, DraftsAreActive, IInv, TypeOK
  <2> QED
    BY <1>1, <2>1, <2>2, <2>3, RemovedOfOne
<1>3. CASE InsertStock(r)
  <2>1. item[r].id \in StockId
    BY <1>3 DEF InsertStock, IInv, TypeOK, HandlerState, Item
  <2> QED
    BY <1>2, <1>3, <2>1 DEF InsertStock
<1>4. CASE OverwriteStock(r)
  <2>1. seen[r].id \in StockId /\ seen[r].row = View(r, seen[r].id)
    BY <1>4, DraftedOrRead DEF OverwriteStock, JournalInv, ReadsAreCurrent
  <2>2. View(r, seen[r].id).deleted \in BOOLEAN
    <3>1. seen[r].row \in Row
      BY <1>4 DEF OverwriteStock, IInv, TypeOK, Found
    <3> QED
      BY <2>1, <3>1 DEF Row
  <2> DEFINE x == Overwritten(View(r, seen[r].id), item[r], seen[r].row)
  <2>3. ~x.deleted
    BY <2>1, <2>2 DEF Overwritten
  <2>4. /\ pc[r] = "write" /\ Draft(r, seen[r].id, x) /\ NextTurn(r)
    BY <1>4 DEF OverwriteStock
  <2> HIDE DEF x
  <2> QED
    BY <1>2, <2>1, <2>3, <2>4
<1> QED
  BY <1>3, <1>4

\* The steps that write the tables of stock.
LEMMA CommitRemoved ==
  ASSUME IInv, JournalInv, RemovedInv, Undisturbed, NEW r \in Requests,
         CommitUpdate(r) \/ ChangeStock(r) \/ DropWarehouse(r)
  PROVE  RemovedInv'
<1>1. pc'[r] = "ok"
  BY DEF CommitUpdate, ChangeStock, DropWarehouse, End, IInv, TypeOK
<1>2. ASSUME NEW s \in StockId, stocks'[s] # None, stocks'[s].deleted
      PROVE  stocks'[s].avail = 0
  <2>1. CASE stocks'[s] = stocks[s]
    BY <1>2, <2>1 DEF RemovedInv, RemovedRowsEmpty
  <2>2. CASE CommitUpdate(r)
    <3>1. pc[r] = "loop" /\ stocks'[s] = View(r, s)
      BY <2>2 DEF CommitUpdate
    <3> QED
      BY <1>2, <2>1, <3>1 DEF View, RemovedInv, DraftsAreActive, InLoop
  <2>3. CASE DropWarehouse(r)
    <3>1. stocks'[s] = IF s \in RowsOf(cmd[r].wh) THEN None ELSE stocks[s]
      BY <2>3 DEF DropWarehouse
    <3> QED
      BY <1>2, <2>1, <3>1
  <2>4. CASE ChangeStock(r) /\ stocks'[s] # stocks[s]
    <3> DEFINE read == seen[r].row
    <3>1. /\ pc[r] = "change" /\ s = cmd[r].stock
          /\ stocks'[s] = ChangedRow(cmd[r], read, stocks[s])
      BY <2>4 DEF ChangeStock, IInv, TypeOK
    <3>2. read = stocks[s] /\ ~read.deleted
      BY <3>1 DEF JournalInv, ReadsAreCurrent, RemovedInv, EditsOfActiveRows
    <3>3. Removes(cmd[r])
      <4>1. stocks'[s].deleted = (stocks[s].deleted \/ Removes(cmd[r]))
        BY <3>1 DEF ChangedRow
      <4> QED
        BY <1>2, <3>2, <4>1
    <3>4. None # 0
      BY MaxQtyAssumption, NoneAssumption DEF Qty
    <3> QED
      BY <3>1, <3>3, <3>4 DEF ChangedRow, Removes, OrElse
  <2> QED
    BY <2>1, <2>2, <2>3, <2>4
<1>3. Step(r) /\ RemovedRowsEmpty'
  BY <1>2 DEF Step, RemovedRowsEmpty
<1> QED
  BY <1>1, <1>3, RemovedOfOne DEF InLoop

LEMMA NextRemoved ==
  ASSUME IInv, JournalInv, RemovedInv, Undisturbed, [Next]_vars
  PROVE  RemovedInv'
<1>1. CASE UNCHANGED vars
  BY <1>1 DEF vars, tables, locals, RemovedInv, RemovedRowsEmpty,
              DraftsAreActive, EditsOfActiveRows
<1>2. ASSUME NEW r \in Requests, Step(r)
      PROVE  RemovedInv'
  <2>1. CASE Refuse(r)
    BY <1>2, <2>1, QuietRemoved
       DEF Refuse, LockRefused, RefuseMovement, StockGone, ChangeRefused,
           DeleteRestricted, WarehouseGone
  <2> QED
    BY <1>2, <2>1, QuietRemoved, WriteRemoved, CommitRemoved DEF Step
<1>3. ASSUME NEW r \in Requests, Abort(r)
      PROVE  RemovedInv'
  BY <1>3, QuietRemoved DEF Abort
<1> QED
  BY <1>1, <1>2, <1>3, QuietRemoved DEF Next, Served

LEMMA InitRemoved == Init => RemovedInv
<1> SUFFICES ASSUME Init PROVE RemovedInv
  OBVIOUS
<1>1. PICK ns \in [InitWarehouses -> Names \cup {None}],
           rows \in [InitStocks -> InitRow \cup {None}] :
        /\ SerialDatabase(ns, rows)
        /\ stocks = [s \in StockId |->
                       IF s \in InitStocks THEN rows[s] ELSE None]
  BY DEF Init
<1>2. RemovedRowsEmpty
  BY <1>1 DEF RemovedRowsEmpty, SerialDatabase
<1>3. DraftsAreActive /\ EditsOfActiveRows
  BY DEF Init, DraftsAreActive, EditsOfActiveRows, InLoop
<1> QED
  BY <1>2, <1>3 DEF RemovedInv

-----------------------------------------------------------------------------
\* Sums over no row and over one.
LEMMA SumOfNone == ASSUME NEW f PROVE SumFunctionOnSet(f, {}) = 0
BY DEF SumFunctionOnSet, FoldFunctionOnSet, MapThenFoldSet

LEMMA SumOfOne ==
  ASSUME NEW f, NEW a, f[a] \in Int
  PROVE SumFunctionOnSet(f, {a}) = f[a]
<1> DEFINE F(g) == [s \in SUBSET {a} |-> IF s = {} THEN 0
                       ELSE f[CHOOSE x \in s : TRUE] + g[s \ {CHOOSE x \in s : TRUE}]]
       it == CHOOSE g : g = F(g)
       w == [s \in SUBSET {a} |-> IF s = {} THEN 0 ELSE f[a]]
<1>1. SumFunctionOnSet(f, {a}) = it[{a}]
  BY DEF SumFunctionOnSet, FoldFunctionOnSet, MapThenFoldSet
<1>2. SUBSET {a} = {{}, {a}}
  OBVIOUS
<1>3. (CHOOSE x \in {a} : TRUE) = a
  OBVIOUS
<1>4. w = F(w)
  BY <1>2, <1>3
<1>5. it = F(it)
  BY <1>4
<1> HIDE DEF it, w
<1>6. F(it)[{}] = 0
  OBVIOUS
<1>7. F(it)[{a}] = f[CHOOSE x \in {a} : TRUE] + it[{a} \ {CHOOSE x \in {a} : TRUE}]
  OBVIOUS
<1>8. {a} \ {a} = {}
  OBVIOUS
<1> HIDE DEF F
<1>9. it[{}] = 0 /\ it[{a}] = f[a] + it[{}]
  BY <1>3, <1>5, <1>6, <1>7, <1>8
<1> QED
  BY <1>1, <1>9

\* The row of variant v in warehouse w, if it has one.
LEMMA RowOfVariant ==
  ASSUME IInv, NEW w \in WarehouseId, NEW v \in Variants
  PROVE  \/ {s \in RowsOf(w) : stocks[s].variant = v} = {}
         \/ \E a \in RowsOf(w) : /\ stocks[a].variant = v
              /\ {s \in RowsOf(w) : stocks[s].variant = v} = {a}
BY DEF IInv, OneRowPerVariant, RowsOf

\* The journal's answer, when it selects no row, and when it selects one.
LEMMA JournalOfNoRow ==
  ASSUME NEW w, NEW v, NEW d, Journaled(w, v, d) = {}
  PROVE  AllMovements(w, v, d, 1, 25) = NotFoundAnswer
<1>1. ~BadRequest(1, 25)
  BY DEF BadRequest
<1> QED
  BY <1>1, SumOfNone DEF AllMovements

LEMMA JournalOfOneRow ==
  ASSUME IInv, NEW w, NEW v, NEW d, NEW a \in StockId, stocks[a] # None,
         Journaled(w, v, d) = {a}
  PROVE  /\ AllMovements(w, v, d, 1, 25) # NotFoundAnswer
         /\ AllMovements(w, v, d, 1, 25).sum = moves[a].sum
<1>1. ~BadRequest(1, 25)
  BY DEF BadRequest
<1>2. moves[a].n \in Int /\ moves[a].sum \in Int /\ moves[a].n > 0
  BY DEF IInv, TypeOK, Movements, ReferentialIntegrity
<1>3. MovementCounts[a] = moves[a].n /\ DeltaSums[a] = moves[a].sum
  BY DEF MovementCounts, DeltaSums
<1>4. /\ SumFunctionOnSet(MovementCounts, {a}) = moves[a].n
      /\ SumFunctionOnSet(DeltaSums, {a}) = moves[a].sum
  BY <1>2, <1>3, SumOfOne
<1>5. /\ moves[a].n # 0
      /\ AllMovements(w, v, d, 1, 25) =
           [status |-> "ok", total |-> moves[a].n,
            shown |-> Len(Page(Numbered(moves[a].n), 1, 25)),
            hasMore |-> HasMore(Numbered(moves[a].n), 1, 25),
            sum |-> moves[a].sum]
  BY <1>1, <1>2, <1>4 DEF AllMovements
<1>6. /\ AllMovements(w, v, d, 1, 25).status = "ok"
      /\ AllMovements(w, v, d, 1, 25).sum = moves[a].sum
  BY <1>5
<1>7. NotFoundAnswer.status = "not found"
  BY DEF NotFoundAnswer
<1> QED
  BY <1>6, <1>7

\* What follows holds of every reachable state.
LEMMA ListingOfState ==
  ASSUME IInv, AuditTrailBalances, RemovedRowsEmpty
  PROVE  JournalExplainsListing
<1> SUFFICES ASSUME NEW w \in WarehouseId, names[w] # None, NEW v \in Variants
             PROVE  LET rows == {s \in WarehouseById(w, AllKnown, None) :
                                   stocks[s].variant = v}
                        onHand == SumFunctionOnSet(
                                    [s \in rows |-> stocks[s].avail], rows)
                        active == AllMovements(w, v, FALSE, 1, 25)
                        every == AllMovements(w, v, TRUE, 1, 25)
                    IN /\ (rows = {}) <=> (active = NotFoundAnswer)
                       /\ active # NotFoundAnswer => active.sum = onHand
                       /\ every # NotFoundAnswer => every.sum = onHand
  BY DEF JournalExplainsListing
<1> DEFINE rows == {s \in WarehouseById(w, AllKnown, None) :
                      stocks[s].variant = v}
           mine == {s \in RowsOf(w) : stocks[s].variant = v}
           avails == [s \in rows |-> stocks[s].avail]
           onHand == SumFunctionOnSet(avails, rows)
           active == AllMovements(w, v, FALSE, 1, 25)
           every == AllMovements(w, v, TRUE, 1, 25)
<1>1. v # None
  BY NoneAssumption
<1>2. rows = {s \in mine : ~stocks[s].deleted}
  BY DEF WarehouseById, ActiveRowsOf
<1>3. Journaled(w, v, TRUE) = mine
  BY <1>1 DEF Journaled
<1>4. Journaled(w, v, FALSE) = rows
  BY <1>1, <1>2 DEF Journaled
<1>5. CASE mine = {}
  <2>1. rows = {} /\ active = NotFoundAnswer /\ every = NotFoundAnswer
    BY <1>2, <1>3, <1>4, <1>5, JournalOfNoRow
  <2> QED
    BY <2>1
<1>6. CASE \E a \in RowsOf(w) : stocks[a].variant = v /\ mine = {a}
  <2>1. PICK a \in RowsOf(w) : mine = {a}
    BY <1>6
  <2>2. a \in StockId /\ stocks[a] # None
    BY DEF RowsOf
  <2>3. moves[a].sum = stocks[a].avail /\ stocks[a].avail \in Int
    BY <2>2, MaxQtyAssumption DEF AuditTrailBalances, IInv, TypeOK, Row, Qty
  <2>4. every.sum = stocks[a].avail
    <3>1. Journaled(w, v, TRUE) = {a}
      BY <1>3, <2>1
    <3>2. every.sum = moves[a].sum
      BY <2>2, <3>1, JournalOfOneRow, Zenon
    <3> QED
      BY <2>3, <3>2
  <2>5. CASE stocks[a].deleted
    <3>1. rows = {} /\ stocks[a].avail = 0
      BY <1>2, <2>1, <2>2, <2>5 DEF RemovedRowsEmpty
    <3>2. active = NotFoundAnswer /\ onHand = 0
      BY <1>4, <3>1, JournalOfNoRow, SumOfNone
    <3> QED
      BY <2>4, <3>1, <3>2
  <2>6. CASE ~stocks[a].deleted
    <3>1. rows = {a}
      BY <1>2, <2>1, <2>6
    <3>2. active # NotFoundAnswer /\ active.sum = stocks[a].avail
      <4>1. Journaled(w, v, FALSE) = {a}
        BY <1>4, <3>1
      <4>2. active # NotFoundAnswer /\ active.sum = moves[a].sum
        BY <2>2, <4>1, JournalOfOneRow, Zenon
      <4> QED
        BY <2>3, <4>2
    <3>3. avails[a] = stocks[a].avail
      BY <3>1
    <3> HIDE DEF rows, avails
    <3>4. onHand = stocks[a].avail
      BY <2>3, <3>1, <3>3, SumOfOne
    <3> USE DEF rows, avails
    <3> QED
      BY <2>4, <3>1, <3>2, <3>4
  <2> QED
    BY <2>5, <2>6
<1> QED
  BY <1>5, <1>6, RowOfVariant

\* What is on the shelf by one query is explained by the other, for every
\* instance whose commands are undisturbed: WarehouseRepository never hides
\* stock whose journal does not sum up to nothing.
THEOREM ListingExplained ==
  ASSUME Undisturbed
  PROVE  Spec => []JournalExplainsListing
<1>1. IInv /\ JournalInv /\ RemovedInv /\ [Next]_vars => RemovedInv'
  BY NextRemoved
<1>2. IInv /\ JournalInv /\ RemovedInv => JournalExplainsListing
  BY ListingOfState DEF JournalInv, RemovedInv
<1> QED
  BY <1>1, <1>2, InitRemoved, JournalInvariant, InductiveInvariant, PTL
     DEF Spec

-----------------------------------------------------------------------------
\* The filter of a page, row by row.
FiltersBy(f, ws, k, n) ==
  k = [m \in 0 .. n |->
         IF m = 0 THEN <<>>
         ELSE IF Passes(f, ws[m]) THEN Append(k[m - 1], ws[m]) ELSE k[m - 1]]

LEMMA FilterExists ==
  ASSUME NEW f, NEW ws, NEW n \in Nat
  PROVE  \E k : FiltersBy(f, ws, k, n)
<1> DEFINE T == {m \in Nat : \E k : FiltersBy(f, ws, k, m)}
<1>1. 0 \in T
  <2>1. FiltersBy(f, ws, [m \in 0 .. 0 |-> <<>>], 0)
    BY DEF FiltersBy
  <2> QED
    BY <2>1
<1>2. ASSUME NEW m \in T PROVE m + 1 \in T
  <2>1. PICK k : FiltersBy(f, ws, k, m)
    OBVIOUS
  <2> DEFINE h == [i \in 0 .. m + 1 |->
                     IF i = 0 THEN <<>>
                     ELSE IF Passes(f, ws[i]) THEN Append(k[i - 1], ws[i])
                     ELSE k[i - 1]]
  <2>2. ASSUME NEW i \in 0 .. m
        PROVE  k[i] = IF i = 0 THEN <<>>
                      ELSE IF Passes(f, ws[i]) THEN Append(k[i - 1], ws[i])
                      ELSE k[i - 1]
    <3>1. k = [i_1 \in 0 .. m |->
                 IF i_1 = 0 THEN <<>>
                 ELSE IF Passes(f, ws[i_1]) THEN Append(k[i_1 - 1], ws[i_1])
                 ELSE k[i_1 - 1]]
      BY <2>1 DEF FiltersBy
    <3> QED
      BY <3>1
  <2>3. ASSUME NEW i \in 0 .. m PROVE h[i] = k[i]
    <3>1. i \in 0 .. m + 1
      OBVIOUS
    <3> QED
      BY <2>2, <3>1
  <2>4. ASSUME NEW i \in 1 .. m + 1 PROVE h[i - 1] = k[i - 1]
    <3>1. i - 1 \in 0 .. m
      OBVIOUS
    <3> QED
      BY <2>3, <3>1, Zenon
  <2>5. h = [i \in 0 .. m + 1 |->
               IF i = 0 THEN <<>>
               ELSE IF Passes(f, ws[i]) THEN Append(h[i - 1], ws[i])
               ELSE h[i - 1]]
    <3>1. ASSUME NEW i \in 0 .. m + 1
          PROVE  h[i] = IF i = 0 THEN <<>>
                        ELSE IF Passes(f, ws[i]) THEN Append(h[i - 1], ws[i])
                        ELSE h[i - 1]
      <4>1. h[i] = IF i = 0 THEN <<>>
                   ELSE IF Passes(f, ws[i]) THEN Append(k[i - 1], ws[i])
                   ELSE k[i - 1]
        OBVIOUS
      <4>2. i = 0 \/ i \in 1 .. m + 1
        OBVIOUS
      <4> HIDE DEF h
      <4> QED
        BY <2>4, <4>1, <4>2
    <3>2. h = [i \in 0 .. m + 1 |-> h[i]]
      OBVIOUS
    <3> HIDE DEF h
    <3> QED
      BY <3>1, <3>2, Zenon
  <2>6. FiltersBy(f, ws, h, m + 1)
    BY <2>5 DEF FiltersBy
  <2> HIDE DEF h
  <2> QED
    BY <2>6
<1>3. T = Nat
  BY <1>1, <1>2, Induction
<1>4. n \in T
  <2> HIDE DEF T
  <2> QED
    BY <1>3
<1> QED
  BY <1>4

\* Of the first n rows, k has those that pass, each once.
KeepsOf(f, ws, k, n) ==
  /\ k \in Seq(WarehouseId)
  /\ \A i \in 1 .. Len(k) : \E m \in 1 .. n : k[i] = ws[m] /\ Passes(f, ws[m])
  /\ \A m \in 1 .. n : Passes(f, ws[m]) => \E i \in 1 .. Len(k) : k[i] = ws[m]
  /\ \A i, j \in 1 .. Len(k) : k[i] = k[j] => i = j

LEMMA KeepOne ==
  ASSUME NEW f, NEW ws \in Seq(WarehouseId), NEW n \in Nat, n + 1 <= Len(ws),
         \A i, j \in 1 .. Len(ws) : ws[i] = ws[j] => i = j,
         NEW k, KeepsOf(f, ws, k, n)
  PROVE  KeepsOf(f, ws, IF Passes(f, ws[n + 1]) THEN Append(k, ws[n + 1])
                        ELSE k, n + 1)
<1> DEFINE w == ws[n + 1]
<1>1. w \in WarehouseId /\ Len(k) \in Nat
  BY DEF KeepsOf
<1>2. CASE ~Passes(f, w)
  <2>1. \A m \in 1 .. n + 1 : Passes(f, ws[m]) => m \in 1 .. n
    BY <1>2
  <2>2. \A m \in 1 .. n : m \in 1 .. n + 1
    OBVIOUS
  <2>3. KeepsOf(f, ws, k, n + 1)
    BY <2>1, <2>2 DEF KeepsOf
  <2> QED
    BY <1>2, <2>3
<1>3. CASE Passes(f, w)
  <2> DEFINE h == Append(k, w)
  <2>1. /\ h \in Seq(WarehouseId) /\ Len(h) = Len(k) + 1
        /\ h[Len(k) + 1] = w /\ \A i \in 1 .. Len(k) : h[i] = k[i]
    BY <1>1 DEF KeepsOf
  <2> HIDE DEF h
  <2>2. ASSUME NEW i \in 1 .. Len(h)
        PROVE  \E m \in 1 .. n + 1 : h[i] = ws[m] /\ Passes(f, ws[m])
    <3>1. CASE i \in 1 .. Len(k)
      <4>1. PICK m \in 1 .. n : k[i] = ws[m] /\ Passes(f, ws[m])
        BY <3>1 DEF KeepsOf
      <4>2. m \in 1 .. n + 1
        OBVIOUS
      <4> QED
        BY <2>1, <3>1, <4>1, <4>2
    <3>2. CASE i = Len(k) + 1
      <4>1. n + 1 \in 1 .. n + 1
        OBVIOUS
      <4> QED
        BY <1>3, <2>1, <3>2, <4>1
    <3> QED
      BY <1>1, <2>1, <3>1, <3>2
  <2>3. ASSUME NEW m \in 1 .. n + 1, Passes(f, ws[m])
        PROVE  \E i \in 1 .. Len(h) : h[i] = ws[m]
    <3>1. CASE m \in 1 .. n
      <4>1. PICK i \in 1 .. Len(k) : k[i] = ws[m]
        BY <2>3, <3>1 DEF KeepsOf
      <4> QED
        BY <1>1, <2>1, <4>1
    <3>2. CASE m = n + 1
      BY <1>1, <2>1, <3>2
    <3> QED
      BY <3>1, <3>2
  <2>4. ASSUME NEW i \in 1 .. Len(k) PROVE k[i] # w
    <3>1. PICK m \in 1 .. n : k[i] = ws[m]
      BY DEF KeepsOf
    <3>2. m \in 1 .. Len(ws) /\ n + 1 \in 1 .. Len(ws) /\ m # n + 1
      OBVIOUS
    <3> QED
      BY <3>1, <3>2
  <2>5. ASSUME NEW i \in 1 .. Len(h), NEW j \in 1 .. Len(h), h[i] = h[j]
        PROVE  i = j
    <3>1. CASE i \in 1 .. Len(k) /\ j \in 1 .. Len(k)
      BY <2>1, <2>5, <3>1 DEF KeepsOf
    <3>2. CASE i = Len(k) + 1 /\ j \in 1 .. Len(k)
      BY <2>1, <2>4, <2>5, <3>2
    <3>3. CASE j = Len(k) + 1 /\ i \in 1 .. Len(k)
      BY <2>1, <2>4, <2>5, <3>3
    <3> QED
      BY <1>1, <2>1, <3>1, <3>2, <3>3
  <2>6. KeepsOf(f, ws, h, n + 1)
    BY <2>1, <2>2, <2>3, <2>5 DEF KeepsOf
  <2> QED
    BY <1>3, <2>6 DEF h
<1> QED
  BY <1>2, <1>3

\* What is kept of a list is the rows that pass, each once.
LEMMA KeptKeeps ==
  ASSUME NEW f, NEW ws \in Seq(WarehouseId),
         \A i, j \in 1 .. Len(ws) : ws[i] = ws[j] => i = j
  PROVE  KeepsOf(f, ws, Kept(f, ws), Len(ws))
<1> DEFINE F(k) == [n \in 0 .. Len(ws) |->
                      IF n = 0 THEN <<>>
                      ELSE IF Passes(f, ws[n]) THEN Append(k[n - 1], ws[n])
                      ELSE k[n - 1]]
           it == CHOOSE k : k = F(k)
<1>1. Kept(f, ws) = it[Len(ws)]
  BY DEF Kept
<1>2. Len(ws) \in Nat
  OBVIOUS
<1>3. PICK k : FiltersBy(f, ws, k, Len(ws))
  BY <1>2, FilterExists
<1>4. k = F(k)
  BY <1>3 DEF FiltersBy
<1>5. it = F(it)
  BY <1>4
<1> HIDE DEF it
<1>6. ASSUME NEW n \in 0 .. Len(ws)
      PROVE  it[n] = IF n = 0 THEN <<>>
                     ELSE IF Passes(f, ws[n]) THEN Append(it[n - 1], ws[n])
                     ELSE it[n - 1]
  BY <1>5
<1> HIDE DEF F
<1> DEFINE T == {n \in Nat : n <= Len(ws) => KeepsOf(f, ws, it[n], n)}
<1>7. 0 \in T
  <2>1. it[0] = <<>>
    BY <1>2, <1>6
  <2>2. KeepsOf(f, ws, <<>>, 0)
    BY DEF KeepsOf
  <2> QED
    BY <2>1, <2>2
<1>8. ASSUME NEW n \in T PROVE n + 1 \in T
  <2>1. SUFFICES ASSUME n + 1 <= Len(ws)
                 PROVE  KeepsOf(f, ws, it[n + 1], n + 1)
    OBVIOUS
  <2>2. KeepsOf(f, ws, it[n], n)
    BY <1>2, <2>1
  <2>3. it[n + 1] = IF Passes(f, ws[n + 1]) THEN Append(it[n], ws[n + 1])
                    ELSE it[n]
    <3>1. n + 1 \in 0 .. Len(ws) /\ n + 1 # 0 /\ (n + 1) - 1 = n
      BY <1>2, <2>1
    <3> QED
      BY <1>6, <3>1
  <2> QED
    BY <2>1, <2>2, <2>3, KeepOne
<1>9. T = Nat
  BY <1>7, <1>8, Induction
<1>10. Len(ws) \in T
  <2> HIDE DEF T
  <2> QED
    BY <1>2, <1>9
<1> QED
  BY <1>1, <1>2, <1>10

-----------------------------------------------------------------------------
\* The pages of the listing: what each shows of the selected warehouses.
SelectedRows(f) == Ordered(SelectedWarehouses(f))
ShownOn(f, p, limit) == Kept(f, Page(SelectedRows(f), p, limit))

LEMMA SelectedListed ==
  ASSUME IsFiniteSet(WarehouseId), NEW f
  PROVE  /\ SelectedRows(f) \in Seq(WarehouseId)
         /\ Lists(SelectedRows(f), SelectedWarehouses(f))
         /\ SelectedWarehouses(f) \subseteq WarehouseId
<1>1. SelectedWarehouses(f) \subseteq WarehouseId
  BY DEF SelectedWarehouses
<1>2. IsFiniteSet(SelectedWarehouses(f))
  BY <1>1, FS_Subset
<1>3. Lists(SelectedRows(f), SelectedWarehouses(f))
  BY <1>2, OrderedLists DEF SelectedRows
<1>4. SelectedRows(f) \in Seq(SelectedWarehouses(f))
  BY <1>3 DEF Lists
<1> QED
  BY <1>1, <1>3, <1>4

LEMMA PageListed ==
  ASSUME IsFiniteSet(WarehouseId), NEW f,
         NEW p \in Nat \ {0}, NEW limit \in Nat \ {0}
  PROVE  /\ Page(SelectedRows(f), p, limit) \in Seq(WarehouseId)
         /\ \A m \in 1 .. Len(Page(SelectedRows(f), p, limit)) :
              Page(SelectedRows(f), p, limit)[m] \in SelectedWarehouses(f)
         /\ KeepsOf(f, Page(SelectedRows(f), p, limit), ShownOn(f, p, limit),
                    Len(Page(SelectedRows(f), p, limit)))
<1> DEFINE rows == SelectedRows(f)
           ws == Page(rows, p, limit)
<1>1. rows \in Seq(WarehouseId) /\ rows \in Seq(SelectedWarehouses(f))
  BY SelectedListed DEF Lists
<1>2. \A i, j \in 1 .. Len(rows) : rows[i] = rows[j] => i = j
  BY SelectedListed DEF Lists
<1>3. ws \in Seq(WarehouseId)
  <2> HIDE DEF rows
  <2> QED
    BY <1>1, PageRows
<1>4. ws \in Seq(SelectedWarehouses(f))
  <2> HIDE DEF rows
  <2> QED
    BY <1>1, PageRows
<1>5. \A i, j \in 1 .. Len(ws) : ws[i] = ws[j] => i = j
  <2> HIDE DEF rows
  <2> QED
    BY <1>1, <1>2, PagesShowOnce, Zenon
<1> HIDE DEF ws
<1>6. KeepsOf(f, ws, Kept(f, ws), Len(ws))
  BY <1>3, <1>5, KeptKeeps
<1>7. \A m \in 1 .. Len(ws) : ws[m] \in SelectedWarehouses(f)
  BY <1>4
<1> QED
  BY <1>3, <1>6, <1>7 DEF ws, ShownOn

\* A warehouse that matches is on a page that is reached.
LEMMA MatchShown ==
  ASSUME IsFiniteSet(WarehouseId), NEW f, NEW limit \in Nat \ {0},
         NEW w \in SelectedWarehouses(f), Passes(f, w)
  PROVE  \E p \in 1 .. Cardinality(WarehouseId) :
           \E i \in 1 .. Len(ShownOn(f, p, limit)) :
             /\ ShownOn(f, p, limit)[i] = w
             /\ \A r \in 1 .. p - 1 : HasMore(SelectedRows(f), r, limit)
<1> DEFINE rows == SelectedRows(f)
<1>1. rows \in Seq(WarehouseId)
  BY SelectedListed
<1>2. \A i, j \in 1 .. Len(rows) : rows[i] = rows[j] => i = j
  BY SelectedListed DEF Lists
<1>3. PICK j \in 1 .. Len(rows) : rows[j] = w
  BY SelectedListed DEF Lists
<1> HIDE DEF rows
<1>4. /\ Len(rows) \in Nat /\ Cardinality(WarehouseId) \in Nat
      /\ Len(rows) <= Cardinality(WarehouseId)
  BY <1>1, <1>2, ListLength
<1>5. PICK p \in 1 .. j : \E m \in 1 .. Len(Page(rows, p, limit)) :
        /\ Page(rows, p, limit)[m] = rows[j]
        /\ \A r \in 1 .. p - 1 : HasMore(rows, r, limit)
  BY <1>1, PagesShowAll
<1>6. p \in Nat \ {0} /\ p \in 1 .. Cardinality(WarehouseId)
  BY <1>4
<1>7. PICK m \in 1 .. Len(Page(rows, p, limit)) :
        Page(rows, p, limit)[m] = w
  BY <1>3, <1>5
<1>8. KeepsOf(f, Page(rows, p, limit), ShownOn(f, p, limit),
              Len(Page(rows, p, limit)))
  BY <1>6, PageListed DEF rows
<1>9. \E i \in 1 .. Len(ShownOn(f, p, limit)) : ShownOn(f, p, limit)[i] = w
  BY <1>7, <1>8 DEF KeepsOf
<1> QED
  BY <1>5, <1>6, <1>9 DEF rows

LEMMA ShownMatches ==
  ASSUME IsFiniteSet(WarehouseId), NEW f,
         NEW p \in Nat \ {0}, NEW limit \in Nat \ {0},
         NEW i \in 1 .. Len(ShownOn(f, p, limit))
  PROVE  /\ ShownOn(f, p, limit)[i] \in SelectedWarehouses(f)
         /\ Passes(f, ShownOn(f, p, limit)[i])
         /\ i \in 1 .. Cardinality(WarehouseId)
<1> DEFINE ws == Page(SelectedRows(f), p, limit)
           k == ShownOn(f, p, limit)
<1>1. KeepsOf(f, ws, k, Len(ws))
  BY PageListed
<1>2. \A m \in 1 .. Len(ws) : ws[m] \in SelectedWarehouses(f)
  BY PageListed
<1> HIDE DEF ws
<1>3. PICK m \in 1 .. Len(ws) : k[i] = ws[m] /\ Passes(f, ws[m])
  BY <1>1 DEF KeepsOf
<1>4. k \in Seq(WarehouseId) /\ \A j, l \in 1 .. Len(k) : k[j] = k[l] => j = l
  BY <1>1 DEF KeepsOf
<1>5. i \in 1 .. Len(k)
  OBVIOUS
<1> HIDE DEF k
<1>6. /\ Len(k) \in Nat /\ Cardinality(WarehouseId) \in Nat
      /\ Len(k) <= Cardinality(WarehouseId)
  BY <1>4, ListLength
<1>7. i \in 1 .. Cardinality(WarehouseId)
  BY <1>5, <1>6
<1> QED
  BY <1>2, <1>3, <1>7 DEF k

LEMMA ShownOnce ==
  ASSUME IsFiniteSet(WarehouseId), NEW f, NEW limit \in Nat \ {0},
         NEW p \in Nat \ {0}, NEW r \in Nat \ {0},
         NEW i \in 1 .. Len(ShownOn(f, p, limit)),
         NEW j \in 1 .. Len(ShownOn(f, r, limit)),
         ShownOn(f, p, limit)[i] = ShownOn(f, r, limit)[j]
  PROVE  p = r /\ i = j
<1> DEFINE rows == SelectedRows(f)
<1>1. /\ rows \in Seq(WarehouseId)
      /\ \A a, b \in 1 .. Len(rows) : rows[a] = rows[b] => a = b
  BY SelectedListed DEF Lists
<1>2. KeepsOf(f, Page(rows, p, limit), ShownOn(f, p, limit),
              Len(Page(rows, p, limit)))
  BY PageListed
<1>3. KeepsOf(f, Page(rows, r, limit), ShownOn(f, r, limit),
              Len(Page(rows, r, limit)))
  BY PageListed
<1> HIDE DEF rows
<1>4. PICK m \in 1 .. Len(Page(rows, p, limit)) :
        ShownOn(f, p, limit)[i] = Page(rows, p, limit)[m]
  BY <1>2 DEF KeepsOf
<1>5. PICK l \in 1 .. Len(Page(rows, r, limit)) :
        ShownOn(f, r, limit)[j] = Page(rows, r, limit)[l]
  BY <1>3 DEF KeepsOf
<1>6. Page(rows, p, limit)[m] = Page(rows, r, limit)[l]
  BY <1>4, <1>5
<1>7. p = r
  BY <1>1, <1>6, PagesShowOnce
<1>8. i = j
  BY <1>2, <1>7 DEF KeepsOf
<1> QED
  BY <1>7, <1>8

LEMMA AnswerOfPage ==
  ASSUME NEW f, NEW limit \in Nat \ {0}, IsFiniteSet(WarehouseId),
         NEW p \in 1 .. Cardinality(WarehouseId)
  PROVE  /\ Answers(f, limit)[p].status = "ok" <=> Len(ShownOn(f, p, limit)) # 0
         /\ Len(ShownOn(f, p, limit)) # 0 =>
              /\ Answers(f, limit)[p].hasMore = HasMore(SelectedRows(f), p, limit)
              /\ DOMAIN Answers(f, limit)[p].shelves
                   = 1 .. Len(ShownOn(f, p, limit))
              /\ \A i \in 1 .. Len(ShownOn(f, p, limit)) :
                   Answers(f, limit)[p].shelves[i].wh = ShownOn(f, p, limit)[i]
<1> DEFINE k == ShownOn(f, p, limit)
           R(x) == Shown(MatchingRows(f, x), AllKnown, None)
<1>1. /\ FindAll(f, p, limit).warehouses = k
      /\ FindAll(f, p, limit).total = Len(k)
      /\ FindAll(f, p, limit).hasMore = HasMore(SelectedRows(f), p, limit)
  BY DEF FindAll, ShownOn, SelectedRows
<1>2. Cardinality(WarehouseId) \in Nat
  BY FS_CardinalityType
<1>3. p \in Nat \ {0} /\ ~BadRequest(p, limit)
  BY <1>2 DEF BadRequest
<1>4. DOMAIN k = 1 .. Len(k)
  <2>1. k \in Seq(WarehouseId)
    BY <1>3, PageListed DEF KeepsOf
  <2> HIDE DEF k
  <2> QED
    BY <2>1
<1> HIDE DEF k
<1>5. Answers(f, limit)[p] = AllWarehouses(f, p, limit, AllKnown, None)
  BY DEF Answers
<1>6. AllWarehouses(f, p, limit, AllKnown, None) =
        IF Len(k) = 0 THEN NotFoundAnswer
        ELSE [status |-> "ok",
              shelves |-> [i \in 1 .. Len(k) |-> [wh |-> k[i], rows |-> R(k[i])]],
              hasMore |-> HasMore(SelectedRows(f), p, limit)]
  BY <1>1, <1>3, <1>4 DEF AllWarehouses
<1>7. CASE Len(k) = 0
  <2> DEFINE answer == Answers(f, limit)[p]
  <2>1. answer = [status |-> "not found"]
    BY <1>5, <1>6, <1>7 DEF NotFoundAnswer
  <2> HIDE DEF answer
  <2>2. answer.status # "ok"
    BY <2>1
  <2> QED
    BY <1>7, <2>2 DEF answer, k
<1>8. CASE Len(k) # 0
  <2> DEFINE answer == Answers(f, limit)[p]
  <2> HIDE DEF R
  <2>1. answer = [status |-> "ok",
                  shelves |-> [i \in 1 .. Len(k) |-> [wh |-> k[i], rows |-> R(k[i])]],
                  hasMore |-> HasMore(SelectedRows(f), p, limit)]
    BY <1>5, <1>6, <1>8
  <2> HIDE DEF answer
  <2>2. /\ answer.status = "ok"
        /\ answer.hasMore = HasMore(SelectedRows(f), p, limit)
        /\ answer.shelves = [i \in 1 .. Len(k) |-> [wh |-> k[i], rows |-> R(k[i])]]
    BY <2>1
  <2>3. /\ DOMAIN answer.shelves = 1 .. Len(k)
        /\ \A i \in 1 .. Len(k) : answer.shelves[i].wh = k[i]
    BY <2>2
  <2> QED
    BY <1>8, <2>2, <2>3 DEF answer, k
<1> QED
  BY <1>7, <1>8

\* Where the answers show w, on the pages that are reached: no page before is
\* left empty.
LEMMA AppearsWhereShown ==
  ASSUME IsFiniteSet(WarehouseId), NEW f, NEW limit \in Nat \ {0},
         NEW w, NEW p \in 1 .. Cardinality(WarehouseId),
         NEW i \in 1 .. Cardinality(WarehouseId)
  PROVE  <<p, i>> \in Appearances(w, Answers(f, limit)) <=>
           /\ i \in 1 .. Len(ShownOn(f, p, limit))
           /\ ShownOn(f, p, limit)[i] = w
           /\ \A q \in 1 .. p - 1 : /\ Len(ShownOn(f, q, limit)) # 0
                                    /\ HasMore(SelectedRows(f), q, limit)
<1> DEFINE answers == Answers(f, limit)
           k == ShownOn(f, p, limit)
<1>1. Cardinality(WarehouseId) \in Nat
  BY FS_CardinalityType
<1>2. p \in Nat \ {0} /\ DOMAIN answers = 1 .. Cardinality(WarehouseId)
  BY <1>1 DEF Answers
<1>3. Len(k) \in Nat
  <2>1. k \in Seq(WarehouseId)
    BY <1>2, PageListed DEF KeepsOf
  <2> HIDE DEF k
  <2> QED
    BY <2>1
<1>4. /\ answers[p].status = "ok" /\ i \in DOMAIN answers[p].shelves
      /\ answers[p].shelves[i].wh = w
      <=> i \in 1 .. Len(k) /\ k[i] = w
  <2>1. i \in 1 .. Len(k) => Len(k) # 0
    BY <1>3
  <2> HIDE DEF answers, k
  <2> QED
    BY <2>1, AnswerOfPage DEF answers, k
<1>5. ASSUME NEW q \in 1 .. p - 1
      PROVE  Continues(answers[q]) <=> /\ Len(ShownOn(f, q, limit)) # 0
                                       /\ HasMore(SelectedRows(f), q, limit)
  <2>1. q \in 1 .. Cardinality(WarehouseId)
    BY <1>1
  <2> QED
    BY <2>1, AnswerOfPage DEF Continues
<1> HIDE DEF answers, k
<1>6. <<p, i>> \in Appearances(w, answers) <=>
        /\ answers[p].status = "ok" /\ i \in DOMAIN answers[p].shelves
        /\ answers[p].shelves[i].wh = w
        /\ \A q \in 1 .. p - 1 : Continues(answers[q])
  BY <1>2 DEF Appearances
<1>7. (\A q \in 1 .. p - 1 : Continues(answers[q])) <=>
        \A q \in 1 .. p - 1 : /\ Len(ShownOn(f, q, limit)) # 0
                              /\ HasMore(SelectedRows(f), q, limit)
  BY <1>5, Zenon
<1> QED
  BY <1>4, <1>6, <1>7 DEF answers, k

\* A page shows nothing exactly if the filter drops all it was cut to.
LEMMA EmptiedPage ==
  ASSUME IsFiniteSet(WarehouseId), NEW f, NEW limit \in Nat \ {0},
         NEW p \in Nat \ {0}
  PROVE  Len(ShownOn(f, p, limit)) # 0 <=>
           \E x \in CutTo(f, p, limit) : Passes(f, x)
<1> DEFINE ws == Page(SelectedRows(f), p, limit)
           k == ShownOn(f, p, limit)
<1>1. ws \in Seq(WarehouseId) /\ KeepsOf(f, ws, k, Len(ws))
  BY PageListed
<1>2. CutTo(f, p, limit) = {ws[i] : i \in DOMAIN ws}
  BY DEF CutTo, SelectedRows
<1> HIDE DEF ws, k
<1>3. k \in Seq(WarehouseId) /\ Len(k) \in Nat /\ DOMAIN ws = 1 .. Len(ws)
  BY <1>1 DEF KeepsOf
<1>4. Len(k) # 0 => 1 \in 1 .. Len(k)
  BY <1>3
<1>5. \A i \in 1 .. Len(k) : Len(k) # 0
  BY <1>3
<1>6. Len(k) # 0 <=> \E x \in CutTo(f, p, limit) : Passes(f, x)
  BY <1>1, <1>2, <1>3, <1>4, <1>5 DEF KeepsOf
<1> QED
  BY <1>6 DEF k

\* What a page shows, it was cut to; and it is cut to what no other page is.
LEMMA ShownIsCut ==
  ASSUME IsFiniteSet(WarehouseId), NEW f, NEW limit \in Nat \ {0},
         NEW p \in Nat \ {0}, NEW i \in 1 .. Len(ShownOn(f, p, limit))
  PROVE  ShownOn(f, p, limit)[i] \in CutTo(f, p, limit)
<1> DEFINE ws == Page(SelectedRows(f), p, limit)
           k == ShownOn(f, p, limit)
<1>1. ws \in Seq(WarehouseId) /\ KeepsOf(f, ws, k, Len(ws))
  BY PageListed
<1>2. CutTo(f, p, limit) = {ws[m] : m \in DOMAIN ws}
  BY DEF CutTo, SelectedRows
<1> HIDE DEF ws
<1>3. PICK m \in 1 .. Len(ws) : k[i] = ws[m]
  BY <1>1 DEF KeepsOf
<1> HIDE DEF k
<1>4. k[i] \in CutTo(f, p, limit)
  BY <1>1, <1>2, <1>3
<1> QED
  BY <1>4 DEF k

LEMMA CutsApart ==
  ASSUME IsFiniteSet(WarehouseId), NEW f, NEW limit \in Nat \ {0},
         NEW p \in Nat \ {0}, NEW q \in Nat \ {0},
         NEW w \in CutTo(f, p, limit), w \in CutTo(f, q, limit)
  PROVE  p = q
<1> DEFINE rows == SelectedRows(f)
           P == Page(rows, p, limit)
           Q == Page(rows, q, limit)
<1>1. /\ rows \in Seq(WarehouseId)
      /\ \A a, b \in 1 .. Len(rows) : rows[a] = rows[b] => a = b
  BY SelectedListed DEF Lists
<1>2. P \in Seq(WarehouseId) /\ Q \in Seq(WarehouseId)
  BY PageListed
<1>3. /\ CutTo(f, p, limit) = {P[m] : m \in DOMAIN P}
      /\ CutTo(f, q, limit) = {Q[m] : m \in DOMAIN Q}
  BY DEF CutTo, SelectedRows
<1> HIDE DEF rows, P, Q
<1>4. PICK i \in 1 .. Len(P) : P[i] = w
  BY <1>2, <1>3
<1>5. PICK j \in 1 .. Len(Q) : Q[j] = w
  BY <1>2, <1>3
<1> QED
  BY <1>1, <1>4, <1>5, PagesShowOnce DEF P, Q

LEMMA MatchesAreSelected ==
  ASSUME NEW f, NEW w \in WarehouseId
  PROVE  names[w] # None /\ Passes(f, w) <=>
           w \in SelectedWarehouses(f) /\ Passes(f, w)
BY DEF SelectedWarehouses, Passes, MatchingRows, ActiveRowsOf, RowsOf

LEMMA ListedOnce ==
  ASSUME IsFiniteSet(WarehouseId), NEW f, NEW limit \in Nat \ {0},
         NEW w \in WarehouseId
  PROVE  Cardinality(Appearances(w, Answers(f, limit))) =
           IF names[w] # None /\ Passes(f, w) /\ ~BehindGap(w, f, limit)
           THEN 1 ELSE 0
<1> DEFINE places == Appearances(w, Answers(f, limit))
           N == Cardinality(WarehouseId)
           Selected == w \in SelectedWarehouses(f) /\ Passes(f, w)
<1>1. places \subseteq (1 .. N) \X (1 .. N)
  BY DEF Appearances, Answers
<1>2. N \in Nat
  BY FS_CardinalityType
<1>3. ASSUME NEW at \in places
      PROVE  /\ at[1] \in 1 .. N /\ at[2] \in 1 .. N
             /\ at[1] \in Nat \ {0}
             /\ at[2] \in 1 .. Len(ShownOn(f, at[1], limit))
             /\ ShownOn(f, at[1], limit)[at[2]] = w
             /\ \A q \in 1 .. at[1] - 1 : Len(ShownOn(f, q, limit)) # 0
  <2>1. at[1] \in 1 .. N /\ at[2] \in 1 .. N /\ at = <<at[1], at[2]>>
    BY <1>1
  <2>2. <<at[1], at[2]>> \in places
    BY <2>1
  <2> HIDE DEF places
  <2>3. at[1] \in Nat \ {0}
    BY <1>2, <2>1
  <2> QED
    BY <2>1, <2>2, <2>3, AppearsWhereShown DEF places
<1>4. ASSUME NEW a \in places, NEW b \in places PROVE a = b
  <2>1. a = <<a[1], a[2]>> /\ b = <<b[1], b[2]>>
    BY <1>1
  <2> HIDE DEF places
  <2>2. a[1] = b[1] /\ a[2] = b[2]
    BY <1>3, ShownOnce
  <2> QED
    BY <2>1, <2>2
<1>5. CASE Selected /\ ~BehindGap(w, f, limit)
  <2>1. PICK p \in 1 .. N :
          \E i \in 1 .. Len(ShownOn(f, p, limit)) :
            /\ ShownOn(f, p, limit)[i] = w
            /\ \A r \in 1 .. p - 1 : HasMore(SelectedRows(f), r, limit)
    BY <1>5, MatchShown
  <2>2. PICK i \in 1 .. Len(ShownOn(f, p, limit)) :
          /\ ShownOn(f, p, limit)[i] = w
          /\ \A r \in 1 .. p - 1 : HasMore(SelectedRows(f), r, limit)
    BY <2>1
  <2>3. p \in Nat \ {0}
    BY <1>2
  <2>4. i \in 1 .. N
    BY <2>3, ShownMatches
  <2>5. w \in CutTo(f, p, limit)
    BY <2>2, <2>3, ShownIsCut
  <2>6. ASSUME NEW r \in 1 .. p - 1 PROVE Len(ShownOn(f, r, limit)) # 0
    <3>1. \E x \in CutTo(f, r, limit) : Passes(f, x)
      BY <1>5, <2>5 DEF BehindGap
    <3>2. r \in Nat \ {0}
      BY <2>3
    <3> QED
      BY <3>1, <3>2, EmptiedPage
  <2>7. <<p, i>> \in places
    BY <2>2, <2>4, <2>6, AppearsWhereShown
  <2> HIDE DEF places
  <2>8. places = {<<p, i>>}
    BY <1>4, <2>7
  <2>9. Cardinality(places) = 1
    BY <2>8, FS_Singleton
  <2> QED
    BY <1>5, <2>9, MatchesAreSelected DEF places
<1>6. CASE ~(Selected /\ ~BehindGap(w, f, limit))
  <2>1. ASSUME NEW at \in places PROVE FALSE
    <3> HIDE DEF places
    <3>1. /\ ShownOn(f, at[1], limit)[at[2]] \in SelectedWarehouses(f)
          /\ Passes(f, ShownOn(f, at[1], limit)[at[2]])
      BY <1>3, ShownMatches
    <3>2. BehindGap(w, f, limit)
      BY <1>3, <1>6, <3>1
    <3>3. PICK q \in 1 .. N :
            /\ w \in CutTo(f, q, limit)
            /\ \E p \in 1 .. q - 1 : \A x \in CutTo(f, p, limit) : ~Passes(f, x)
      BY <3>2 DEF BehindGap
    <3>4. w \in CutTo(f, at[1], limit)
      BY <1>3, ShownIsCut
    <3>5. q \in Nat \ {0}
      BY <1>2
    <3>6. at[1] = q
      BY <1>3, <3>3, <3>4, <3>5, CutsApart
    <3>7. PICK p \in 1 .. at[1] - 1 : \A x \in CutTo(f, p, limit) : ~Passes(f, x)
      BY <3>3, <3>6
    <3>8. p \in Nat \ {0}
      BY <1>3
    <3> QED
      BY <1>3, <3>7, <3>8, EmptiedPage
  <2>2. places = {}
    BY <2>1
  <2>3. Cardinality(places) = 0
    BY <2>2, FS_EmptySet
  <2> HIDE DEF places
  <2> QED
    BY <1>6, <2>3, MatchesAreSelected DEF places
<1> QED
  BY <1>5, <1>6

\* A client who asks GetAllWarehousesHandler for one page after the other, as
\* long as the answers say there is more, sees each warehouse that matches once
\* and none else, but for those behind a page the filter leaves empty: in every
\* state of every instance with finitely many warehouses.
THEOREM MatchesListedUntilGapAlways ==
  ASSUME IsFiniteSet(WarehouseId)
  PROVE  Spec => []MatchesListedUntilGap
<1>1. MatchesListedUntilGap
  <2>1. ASSUME NEW f \in Filters, NEW limit \in {1, 2}, NEW w \in WarehouseId
        PROVE  Cardinality(Appearances(w, Answers(f, limit))) =
                 IF names[w] # None /\ Passes(f, w) /\ ~BehindGap(w, f, limit)
                 THEN 1 ELSE 0
    <3>1. limit \in Nat \ {0}
      OBVIOUS
    <3> QED
      BY <3>1, ListedOnce
  <2> QED
    BY <2>1 DEF MatchesListedUntilGap
<1> QED
  BY <1>1, PTL

-----------------------------------------------------------------------------
\* One page of the listing shows all.
OnePage == Cardinality({w \in WarehouseId : names[w] # None}) <= 25

LEMMA FirstPageShows ==
  ASSUME IsFiniteSet(WarehouseId), NEW limit \in Nat \ {0},
         Cardinality({x \in WarehouseId : names[x] # None}) <= limit,
         NEW w \in WarehouseId, names[w] # None
  PROVE  \E i \in 1 .. Len(ShownOn(NoFilter, 1, limit)) :
           ShownOn(NoFilter, 1, limit)[i] = w
<1> DEFINE rows == SelectedRows(NoFilter)
           S == SelectedWarehouses(NoFilter)
<1>1. S = {x \in WarehouseId : names[x] # None} /\ IsFiniteSet(S)
  BY FS_Subset DEF SelectedWarehouses
<1>2. rows \in Seq(S) /\ \A i, j \in 1 .. Len(rows) : rows[i] = rows[j] => i = j
  BY SelectedListed DEF Lists
<1>3. w \in S /\ Passes(NoFilter, w)
  BY <1>1 DEF Passes
<1>4. Cardinality(S) <= limit
  BY <1>1
<1>5. PICK p \in 1 .. Cardinality(WarehouseId) :
        \E i \in 1 .. Len(ShownOn(NoFilter, p, limit)) :
          /\ ShownOn(NoFilter, p, limit)[i] = w
          /\ \A r \in 1 .. p - 1 : HasMore(rows, r, limit)
  BY <1>3, MatchShown
<1> HIDE DEF rows, S
<1>6. Len(rows) \in Nat /\ Len(rows) <= limit
  BY <1>1, <1>2, <1>4, ListLength
<1>7. ASSUME NEW first \in Nat \ {0}, first = 1
      PROVE  ~HasMore(rows, first, limit)
  <2>1. Len(Page(rows, first, limit)) =
          IF Skip(first, limit) + limit < Len(rows) THEN limit
          ELSE IF Skip(first, limit) < Len(rows)
               THEN Len(rows) - Skip(first, limit) ELSE 0
    <3>1. rows \in Seq(S)
      BY <1>2
    <3> QED
      BY <3>1, PageRows
  <2>2. Skip(first, limit) = 0
    BY <1>7 DEF Skip
  <2> QED
    BY <1>6, <2>1, <2>2 DEF HasMore
<1>8. p = 1
  <2>1. p \in Nat \ {0} /\ (p # 1 => 1 \in 1 .. p - 1)
    BY FS_CardinalityType
  <2> QED
    BY <1>5, <1>7, <2>1
<1> QED
  BY <1>5, <1>8

LEMMA ShelfShown ==
  ASSUME IsFiniteSet(WarehouseId), OnePage,
         NEW catalogue, NEW archived,
         NEW w \in WarehouseId, names[w] # None
  PROVE  LET listing == AllWarehouses(NoFilter, 1, 25, catalogue, archived)
             shelf == CHOOSE i \in DOMAIN listing.shelves :
                        listing.shelves[i].wh = w
         IN listing.shelves[shelf].rows =
              Shown(MatchingRows(NoFilter, w), catalogue, archived)
<1> DEFINE k == ShownOn(NoFilter, 1, 25)
           listing == AllWarehouses(NoFilter, 1, 25, catalogue, archived)
           R(x) == Shown(MatchingRows(NoFilter, x), catalogue, archived)
           shelf == CHOOSE i \in DOMAIN listing.shelves :
                      listing.shelves[i].wh = w
<1>1. PICK i \in 1 .. Len(k) : k[i] = w
  BY FirstPageShows DEF OnePage
<1>2. k \in Seq(WarehouseId)
  <2>1. 1 \in Nat \ {0} /\ 25 \in Nat \ {0}
    OBVIOUS
  <2>2. KeepsOf(NoFilter, Page(SelectedRows(NoFilter), 1, 25), k,
                Len(Page(SelectedRows(NoFilter), 1, 25)))
    BY <2>1, PageListed, Zenon
  <2> QED
    BY <2>2 DEF KeepsOf
<1>3. FindAll(NoFilter, 1, 25).warehouses = k
      /\ FindAll(NoFilter, 1, 25).total = Len(k)
  BY DEF FindAll, ShownOn, SelectedRows
<1> HIDE DEF k
<1>4. Len(k) # 0
  BY <1>1
<1>5. ~BadRequest(1, 25)
  BY DEF BadRequest
<1>6. listing.shelves = [j \in DOMAIN k |-> [wh |-> k[j], rows |-> R(k[j])]]
  BY <1>3, <1>4, <1>5 DEF AllWarehouses
<1>7. i \in DOMAIN k
  BY <1>1, <1>2
<1> HIDE DEF listing, R
<1>8. shelf \in DOMAIN k /\ listing.shelves[shelf].wh = w
  BY <1>1, <1>6, <1>7
<1> HIDE DEF shelf
<1>9. listing.shelves[shelf].rows = R(w)
  BY <1>6, <1>8
<1> QED
  BY <1>9 DEF listing, shelf, R

LEMMA ShownOfShelf ==
  ASSUME NEW catalogue, NEW archived,
         NEW w \in WarehouseId, names[w] # None
  PROVE  Shown(MatchingRows(NoFilter, w), catalogue, archived) =
           {s \in WarehouseById(w, catalogue, archived) :
              stocks[s].variant \in catalogue.known}
<1>1. MatchingRows(NoFilter, w) = ActiveRowsOf(w)
  BY DEF MatchingRows, Matches, NoFilter
<1> DEFINE rows == ActiveRowsOf(w)
           asked == {stocks[s].variant : s \in rows}
<1>2. ASSUME NEW s \in rows
      PROVE  stocks[s].variant \in VariantDetails(asked, catalogue) <=>
               stocks[s].variant \in catalogue.known
  BY DEF VariantDetails
<1>3. WarehouseById(w, catalogue, archived) =
        {s \in rows : archived # None =>
                        /\ stocks[s].variant \in catalogue.known
                        /\ archived <=> stocks[s].variant \in catalogue.archived}
  BY DEF WarehouseById
<1>4. Shown(rows, catalogue, archived) =
        {s \in rows :
           /\ stocks[s].variant \in VariantDetails(asked, catalogue)
           /\ archived # None =>
                (archived <=> stocks[s].variant \in catalogue.archived)}
  BY DEF Shown
<1> HIDE DEF asked
<1>5. Shown(rows, catalogue, archived) =
           {s \in WarehouseById(w, catalogue, archived) :
              stocks[s].variant \in catalogue.known}
  BY <1>2, <1>3, <1>4
<1> QED
  BY <1>1, <1>5

\* The listing and the query for one warehouse show the same stock of it, as
\* long as one page of the listing holds the warehouses, whatever the product
\* domain answers to GetAllWarehousesHandler and GetWarehouseByIdHandler.
THEOREM QueriesShowAlike ==
  ASSUME IsFiniteSet(WarehouseId)
  PROVE  Spec => [](OnePage => QueriesAgree)
<1>1. ASSUME OnePage PROVE QueriesAgree
  <2> SUFFICES ASSUME NEW w \in WarehouseId, NEW catalogue \in Catalogue,
                      NEW archived \in {None, TRUE, FALSE}, names[w] # None
               PROVE  LET listing == AllWarehouses(NoFilter, 1, 25, catalogue,
                                                   archived)
                          shelf == CHOOSE i \in DOMAIN listing.shelves :
                                     listing.shelves[i].wh = w
                      IN listing.shelves[shelf].rows =
                           {s \in WarehouseById(w, catalogue, archived) :
                              stocks[s].variant \in catalogue.known}
    BY DEF QueriesAgree
  <2>1. Shown(MatchingRows(NoFilter, w), catalogue, archived) =
          {s \in WarehouseById(w, catalogue, archived) :
             stocks[s].variant \in catalogue.known}
    BY ShownOfShelf
  <2> QED
    BY <1>1, <2>1, ShelfShown
<1> QED
  BY <1>1, PTL
=============================================================================
