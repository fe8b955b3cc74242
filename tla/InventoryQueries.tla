-------------------------- MODULE InventoryQueries --------------------------
(***************************************************************************)
(* What the queries of the inventory show of its tables: the warehouses    *)
(* page by page with the stock a filter leaves, one warehouse by its id,   *)
(* and the journal of a warehouse.  A query changes nothing; each is an    *)
(* operator on the committed state.  catalogue is what the product domain  *)
(* answers meanwhile: the variants it knows and those that are archived.   *)
(***************************************************************************)
EXTENDS Inventory, Listing

NotFoundAnswer == [status |-> "not found"]
BadRequestAnswer == [status |-> "bad request"]

\* The variant and the low-stock threshold asked for, None when left out.
Filters == [variant : Variants \cup {None}, low : Given]
NoFilter == [variant |-> None, low |-> None]

Catalogue ==
  {c \in [known : SUBSET Variants, archived : SUBSET Variants] :
     c.archived \subseteq c.known}
AllKnown == [known |-> Variants, archived |-> {}]

\* The where clause.  A filter on stock asks for warehouses with any row,
\* removed ones included.
SelectedWarehouses(f) ==
  {w \in WarehouseId : names[w] # None /\ (f = NoFilter \/ RowsOf(w) # {})}

Matches(f, s) ==
  /\ f.low # None => stocks[s].avail <= f.low
  /\ f.variant # None => stocks[s].variant = f.variant

MatchingRows(f, w) == {s \in ActiveRowsOf(w) : Matches(f, s)}

\* A filter on stock drops the warehouses it leaves without any.
Passes(f, w) == f = NoFilter \/ MatchingRows(f, w) # {}

Kept(f, ws) ==
  LET kept[n \in 0 .. Len(ws)] ==
        IF n = 0 THEN <<>>
        ELSE IF Passes(f, ws[n]) THEN Append(kept[n - 1], ws[n])
        ELSE kept[n - 1]
  IN kept[Len(ws)]

\* Mutant: whether more follow is told from what the filter left.
FindAllKept(f, page, limit) ==
  LET kept == Kept(f, Page(Ordered(SelectedWarehouses(f)), page, limit))
  IN [warehouses |-> kept, total |-> Len(kept),
      hasMore |-> Skip(page, limit) + Len(kept) < Len(kept)]

\* WarehouseRepository.findAll: the page is cut first and filtered then, so it
\* may come out shorter, or empty, while more warehouses follow.
FindAll(f, page, limit) ==
  LET rows == Ordered(SelectedWarehouses(f))
      kept == Kept(f, Page(rows, page, limit))
  IN [warehouses |-> kept, total |-> Len(kept),
      hasMore |-> HasMore(rows, page, limit)]

\* findVariantsByIds of the product domain.
VariantDetails(ids, catalogue) ==
  IF ids = {} THEN catalogue.known ELSE ids \cap catalogue.known

\* Mutant: asking for what is not archived is taken for not asking.
ShownTruthy(rows, catalogue, archived) ==
  LET known == VariantDetails({stocks[s].variant : s \in rows}, catalogue)
  IN {s \in rows :
        /\ stocks[s].variant \in known
        /\ archived = TRUE => stocks[s].variant \in catalogue.archived}

\* Stock whose variant the product domain does not know is left out, and so is
\* stock whose variant is archived or not, if the client asks for one of them.
Shown(rows, catalogue, archived) ==
  LET known == VariantDetails({stocks[s].variant : s \in rows}, catalogue)
  IN {s \in rows :
        /\ stocks[s].variant \in known
        /\ archived # None =>
             (archived <=> stocks[s].variant \in catalogue.archived)}

\* GetAllWarehousesHandler.
AllWarehouses(f, page, limit, catalogue, archived) ==
  LET result == FindAll(f, page, limit) IN
  IF BadRequest(page, limit) THEN BadRequestAnswer
  ELSE IF result.total = 0 THEN NotFoundAnswer
  ELSE [status |-> "ok",
        shelves |-> [i \in DOMAIN result.warehouses |->
                       [wh |-> result.warehouses[i],
                        rows |-> Shown(MatchingRows(f, result.warehouses[i]),
                                       catalogue, archived)]],
        hasMore |-> result.hasMore]

\* GetWarehouseByIdHandler: stock is left out only by the archived filter.
WarehouseById(w, catalogue, archived) ==
  IF names[w] = None THEN NotFoundAnswer
  ELSE {s \in ActiveRowsOf(w) :
          archived # None =>
            /\ stocks[s].variant \in catalogue.known
            /\ archived <=> stocks[s].variant \in catalogue.archived}

-----------------------------------------------------------------------------
\* Mutant: the filter is the wrong way round.
JournaledRemoved(w, v, includeDeleted) ==
  {s \in RowsOf(w) : /\ includeDeleted => ~stocks[s].deleted
                     /\ v # None => stocks[s].variant = v}

\* The stock whose movements StockMovementRepository.findAll selects.
Journaled(w, v, includeDeleted) ==
  {s \in RowsOf(w) : /\ stocks[s].deleted => includeDeleted
                     /\ v # None => stocks[s].variant = v}

MovementCounts == [s \in StockId |-> moves[s].n]
DeltaSums == [s \in StockId |-> moves[s].sum]
Numbered(n) == [i \in 1 .. n |-> i]

\* GetAllStockMovementsHandler: how many movements there are, how many of them
\* the page shows, and the sum of all pages' deltas.
AllMovements(w, v, includeDeleted, page, limit) ==
  LET rows == Journaled(w, v, includeDeleted)
      total == SumFunctionOnSet(MovementCounts, rows)
      listed == Numbered(total)
  IN IF BadRequest(page, limit) THEN BadRequestAnswer
     ELSE IF total = 0 THEN NotFoundAnswer
     ELSE [status |-> "ok", total |-> total,
           shown |-> Len(Page(listed, page, limit)),
           hasMore |-> HasMore(listed, page, limit),
           sum |-> SumFunctionOnSet(DeltaSums, rows)]

-----------------------------------------------------------------------------
\* The answers to a client who asks for one page after the other ...
Answers(f, limit) ==
  [p \in 1 .. Cardinality(WarehouseId) |->
     AllWarehouses(f, p, limit, AllKnown, None)]

Continues(answer) == answer.status = "ok" /\ answer.hasMore

\* ... for as long as there is more, and how often they show a warehouse.
Appearances(w, answers) ==
  {at \in (DOMAIN answers) \X (1 .. Cardinality(WarehouseId)) :
     LET answer == answers[at[1]] IN
     /\ answer.status = "ok" /\ at[2] \in DOMAIN answer.shelves
     /\ answer.shelves[at[2]].wh = w
     /\ \A q \in 1 .. at[1] - 1 : Continues(answers[q])}

\* The warehouses a page is cut to before its stock is filtered.
CutTo(f, page, limit) ==
  LET cut == Page(Ordered(SelectedWarehouses(f)), page, limit)
  IN {cut[i] : i \in DOMAIN cut}

\* A page before the one with w is left without any warehouse.
BehindGap(w, f, limit) ==
  \E q \in 1 .. Cardinality(WarehouseId) :
    /\ w \in CutTo(f, q, limit)
    /\ \E p \in 1 .. q - 1 : \A x \in CutTo(f, p, limit) : ~Passes(f, x)

\* The pages of a low-stock listing miss nothing before a gap: although a page is
\* cut before its stock is filtered, a client who goes on while the answers say
\* there is more sees each warehouse with stock that matches on exactly one page,
\* and none without.  A page the filter leaves empty is answered like the end of
\* the listing, and only what is behind such a page is never seen.
MatchesListedUntilGap ==
  \A f \in Filters, limit \in {1, 2} :
    LET answers == Answers(f, limit) IN
    \A w \in WarehouseId :
      Cardinality(Appearances(w, answers)) =
        IF names[w] # None /\ Passes(f, w) /\ ~BehindGap(w, f, limit)
        THEN 1 ELSE 0

\* What is on the shelf by one query is explained by the other: for every
\* variant the listing of a warehouse shows the journal's deltas sum up to its
\* quantity, with and without the removed stock, and a variant that is not
\* shown has no journal unless removed stock is asked for.
JournalExplainsListing ==
  \A w \in WarehouseId : names[w] # None => \A v \in Variants :
    LET rows == {s \in WarehouseById(w, AllKnown, None) : stocks[s].variant = v}
        onHand == SumFunctionOnSet([s \in rows |-> stocks[s].avail], rows)
        active == AllMovements(w, v, FALSE, 1, 25)
        every == AllMovements(w, v, TRUE, 1, 25)
    IN /\ (rows = {}) <=> (active = NotFoundAnswer)
       /\ active # NotFoundAnswer => active.sum = onHand
       /\ every # NotFoundAnswer => every.sum = onHand

\* The two queries show one warehouse alike, whatever the product domain knows,
\* archives and is asked for, but for stock whose variant it does not know.
QueriesAgree ==
  \A w \in WarehouseId, catalogue \in Catalogue, archived \in {None, TRUE, FALSE} :
    names[w] # None =>
      LET listing == AllWarehouses(NoFilter, 1, 25, catalogue, archived)
          single == WarehouseById(w, catalogue, archived)
          shelf == CHOOSE i \in DOMAIN listing.shelves :
                     listing.shelves[i].wh = w
      IN listing.shelves[shelf].rows =
           {s \in single : stocks[s].variant \in catalogue.known}
=============================================================================
