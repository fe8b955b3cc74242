--------------------------- MODULE InventoryInv ---------------------------
(***************************************************************************)
(* The inductive invariant behind OneRowPerVariant and                     *)
(* ReferentialIntegrity, in named parts.  TLC checks it on the instances   *)
(* of MCInventory, InventoryProofs proves it for every instance.           *)
(***************************************************************************)
EXTENDS Inventory

\* Locals by program counter: what a request carries at each place.
HandlerState ==
  \A r \in Requests :
    /\ pc[r] \in Working => cmd[r] # None
    /\ pc[r] \in {"lock", "loop", "write"} =>
         /\ cmd[r].kind \in {"updateWarehouse", "createStock"}
         /\ agg[r] # None
    /\ pc[r] \in {"read", "change"} =>
         cmd[r].kind \in {"updateStock", "deleteStock"}
    /\ pc[r] \in {"purge", "rows", "drop"} => cmd[r].kind = "deleteWarehouse"
    /\ pc[r] = "write" => item[r] # None
    /\ pc[r] = "change" => seen[r] # None /\ seen[r].id = cmd[r].stock
    /\ held[r] # {} => pc[r] \in InLoop \cup {"drop"}

\* Two updates of one warehouse exclude each other and the warehouse exists
\* for as long as one holds its row.
UpdatesExcludeEachOther ==
  \A r \in Requests : pc[r] \in InLoop =>
    /\ names[cmd[r].wh] # None
    /\ \A q \in Requests :
         q # r /\ pc[q] \in InLoop => cmd[q].wh # cmd[r].wh

\* An identifier generated for r appears in the tables only when r is over,
\* and the warehouse a request has loaded is not one still to be created.
FreshIdentifiers ==
  \A r \in Requests :
    /\ pc[r] \notin {"ok", "failed"} => stocks[r] = None /\ names[r] = None
    /\ pc[r] \in {"lock", "loop", "write"} /\ cmd[r].wh \in Requests
         => pc[cmd[r].wh] \in {"ok", "failed"}

\* The row of stock s is one of warehouse w for variant v.
IsRowOf(s, w, v) ==
  stocks[s] # None /\ stocks[s].wh = w /\ stocks[s].variant = v

\* The loaded stocks are still rows of the warehouse, unless it is gone.
Loaded(r, i) ==
  i.id = r \/ names[cmd[r].wh] = None \/ IsRowOf(i.id, cmd[r].wh, i.variant)

LoadedStocks ==
  \A r \in Requests :
    /\ pc[r] \in {"lock", "loop", "write"} =>
         \A i \in todo[r] : Loaded(r, i)
    /\ pc[r] = "write" => Loaded(r, item[r])

\* The variant of i has no row in r's warehouse but r's own.
NoOtherRow(r, v) ==
  \A s \in StockId : s # r => ~IsRowOf(s, cmd[r].wh, v)

\* An open update only rewrites rows of its warehouse, keeps their variant,
\* and inserts at most its own row, for a variant that has none.
Drafts ==
  \A r \in Requests : pc[r] \in InLoop =>
    \A s \in held[r] :
      /\ draft[r][s] # None
      /\ draft[r][s].wh = cmd[r].wh
      /\ IF s = r THEN NoOtherRow(r, draft[r][s].variant)
         ELSE IsRowOf(s, cmd[r].wh, draft[r][s].variant)

\* What the last read of an update returned still holds when it writes.
ReadsHold ==
  \A r \in Requests : pc[r] = "write" =>
    /\ seen[r] = None => item[r].id = r /\ NoOtherRow(r, item[r].variant)
    /\ seen[r] # None => IsRowOf(seen[r].id, cmd[r].wh, item[r].variant)

\* The new stock of createStock is written last, so r's own row, once
\* inserted, is not read again.
NewStockIsLast ==
  \A r \in Requests :
    /\ pc[r] \in InLoop /\ r \in held[r] => pc[r] = "loop" /\ todo[r] = {}
    /\ pc[r] = "write" /\ item[r].id = r => todo[r] = {}

\* Uncommitted movements belong to rows the transaction has written, and an
\* inserted row has one.
Postings ==
  \A r \in Requests : pc[r] \in InLoop =>
    \A s \in StockId :
      /\ s \notin held[r] => posted[r][s].n = 0
      /\ s \in held[r] /\ s = r => posted[r][s].n > 0

NothingPostedYet ==
  \A r \in Requests : pc[r] \notin InLoop \cup {"rows", "drop"} =>
    posted[r] = NoPosts /\ held[r] = {}

\* The inductive invariant: OneRowPerVariant and ReferentialIntegrity follow
\* from what each handler in WarehouseRepository holds locked and has read.
IInv ==
  /\ TypeOK
  /\ HandlerState
  /\ UpdatesExcludeEachOther
  /\ FreshIdentifiers
  /\ LoadedStocks
  /\ Drafts
  /\ ReadsHold
  /\ NewStockIsLast
  /\ Postings
  /\ NothingPostedYet
  /\ OneRowPerVariant
  /\ ReferentialIntegrity

\* What RenamePostsNothing needs besides: a request out of its handler carries
\* no command, and a rename has posted nothing.
RenamesPostNothingYet ==
  \A r \in Requests :
    /\ pc[r] \notin Working => cmd[r] = None
    /\ pc[r] \in InLoop /\ cmd[r].kind = "updateWarehouse" =>
         posted[r] = NoPosts

\* The row a read returned is still the current one when it is written from:
\* so when commands are served one after the other, and also when all of them
\* go through WarehouseRepository.update and .delete, which lock the
\* warehouse first.
Undisturbed ==
  Overlap => \A c \in Commands : c.kind \notin {"updateStock", "deleteStock"}

OneAtATime ==
  ~Overlap => \A q, r \in Requests :
    pc[q] \in Working /\ pc[r] \in Working => q = r

ReadsAreCurrent ==
  \A r \in Requests :
    /\ pc[r] = "write" /\ seen[r] # None =>
         seen[r].row = View(r, seen[r].id)
    /\ pc[r] = "change" => seen[r].row = stocks[cmd[r].stock]

\* The movements of a drafted row, posted ones included, sum up to its draft.
DraftsBalance ==
  \A r \in Requests : pc[r] \in InLoop =>
    \A s \in StockId :
      IF s \in held[r]
      THEN moves[s].sum + posted[r][s].sum = draft[r][s].avail
      ELSE posted[r][s].sum = 0

NoRowNoJournal == \A s \in StockId : stocks[s] = None => moves[s] = NoMovements

\* The row createStock has asked for.
NewRow(c) == [wh |-> c.wh, variant |-> c.variant, avail |-> c.avail,
              reserved |-> c.reserved, deleted |-> FALSE]

\* The new stock of createStock is still to be written, being written, or
\* drafted as the last one.
NewStockOnItsWay ==
  \A r \in Requests :
    pc[r] \in {"lock", "loop", "write"} /\ cmd[r].kind = "createStock" =>
      \/ NewItem(r, cmd[r]) \in todo[r]
      \/ pc[r] = "write" /\ item[r] = NewItem(r, cmd[r])
      \/ /\ pc[r] = "loop" /\ todo[r] = {}
         /\ \E s \in held[r] : draft[r][s] = NewRow(cmd[r])

\* What AuditTrailBalances and CreatedStockIsActive need besides IInv, when
\* commands are undisturbed.
JournalInv ==
  /\ OneAtATime
  /\ ReadsAreCurrent
  /\ DraftsBalance
  /\ NoRowNoJournal
  /\ NewStockOnItsWay
  /\ AuditTrailBalances

\* Commands that do not overlap write from rows nobody has changed since they
\* were loaded: a loaded stock is still the active row it was.
StillThere(r, i) ==
  \/ cmd[r].kind = "createStock" /\ i = NewItem(r, cmd[r])
  \/ i.id \in ActiveRowsOf(cmd[r].wh) /\ i = AsItem(i.id)

LoadedAsIs ==
  \A r \in Requests :
    /\ pc[r] \in {"lock", "loop", "write"} =>
         \A i \in todo[r] : StillThere(r, i)
    /\ pc[r] = "write" => StillThere(r, item[r])
    /\ pc[r] = "change" => cmd[r].stock \in ActiveRowsOf(cmd[r].wh)

\* ... so writing it back changes nothing, but for the row of createStock,
\* which is the last.
DraftsChangeOneRow ==
  \A r \in Requests : pc[r] \in InLoop =>
    \A s \in held[r] :
      \/ draft[r][s] = stocks[s]
      \/ /\ pc[r] = "loop" /\ todo[r] = {} /\ cmd[r].kind = "createStock"
         /\ draft[r][s] = NewRow(cmd[r])

\* What CommandsChangeOneShelf needs besides.
SerialInv == LoadedAsIs /\ DraftsChangeOneRow

\* What removes a row empties it; what writes to a removed row has read it as
\* removed and brings it back.
RemovedRowsEmpty ==
  \A s \in StockId : stocks[s] # None /\ stocks[s].deleted => stocks[s].avail = 0

DraftsAreActive ==
  \A r \in Requests : pc[r] \in InLoop =>
    \A s \in held[r] : ~draft[r][s].deleted

EditsOfActiveRows ==
  \A r \in Requests : pc[r] = "change" => ~seen[r].row.deleted

\* What JournalExplainsListing needs besides JournalInv.
RemovedInv == RemovedRowsEmpty /\ DraftsAreActive /\ EditsOfActiveRows
=============================================================================
