----------------------------- MODULE CartItems -----------------------------
(***************************************************************************)
(* The cart of one customer.  A command loads one page of the cart's       *)
(* items, edits the aggregate in memory, and CartRepository.update makes   *)
(* the table equal to the aggregate, row by row, in a transaction (READ    *)
(* COMMITTED) that locks the cart's row first.  Deleting a variant in the  *)
(* product domain takes its items along.                                   *)
(***************************************************************************)
EXTENDS Naturals, FiniteSets

CONSTANTS
  Requests,   \* the commands' executions, each runs once
  InitItems,  \* identifiers of the items that may be in the cart at start
  Variants,   \* product variants
  Qtys,       \* quantities clients ask for
  PageLimit,  \* items findCartByCustomerId loads (50)
  MaxTime,    \* bound of the clock
  Commands,   \* the commands clients send
  Overlap,    \* FALSE: a command starts only when no other is open
  None        \* no command

\* The item a request adds gets a fresh identifier.
ItemId == InitItems \cup Requests
Time == 0 .. MaxTime
Item == [id : ItemId, variant : Variants, qty : Qtys, updatedAt : Time]

\* removeItemFromCart is removeManyItemsFromCart with one variant.
Command ==
  [kind : {"add"}, variant : Variants]
    \cup [kind : {"setQty"}, variant : Variants, qty : Qtys]
    \cup [kind : {"remove"}, variants : SUBSET Variants]
    \cup [kind : {"create"}]

ASSUME QtyAssumption == Qtys \subseteq Nat \ {0} /\ 1 \in Qtys
ASSUME LimitAssumption == PageLimit \in Nat \ {0} /\ MaxTime \in Nat
ASSUME CommandAssumption == Commands \subseteq Command /\ None \notin Command
ASSUME FreshAssumption ==
  InitItems \cap Requests = {} /\ IsFiniteSet(InitItems)

VARIABLES
  variants,  \* rows of Variant
  exists,    \* the customer has a cart
  cart,      \* committed rows of CartItem
  clock,     \* the time of the process
  pc,        \* where each request is in its handler
  cmd,       \* the command it executes
  found,     \* the items of the aggregate it loaded (cartFound)
  edited,    \* the items of the aggregate it saves (cartWithEvents)
  todo,      \* the writes its transaction has still to make
  done       \* the writes it has made and not committed

tables == <<variants, exists, cart>>
locals == <<cmd, found, edited, todo, done>>
vars == <<tables, clock, pc, locals>>

Write == [op : {"delete", "create", "update"}, item : Item]
Working == {"create", "lock", "diff", "write"}
Ended == {"ok", "failed"}

Ids(S) == {i.id : i \in S}
Written(W) == {w.item : w \in W}

-----------------------------------------------------------------------------
\* A cart that additions leave behind; the items it has are equally old, so any
\* of them may come first.
Init ==
  /\ variants = Variants
  /\ exists \in BOOLEAN
  /\ \E S \in SUBSET InitItems :
       \E variant \in [S -> Variants] :
         cart = {[id |-> i, variant |-> variant[i], qty |-> 1,
                  updatedAt |-> 0] : i \in S}
  /\ \A i, j \in cart : i.variant = j.variant => i = j
  /\ exists \/ cart = {}
  /\ Cardinality(cart) <= PageLimit
  /\ clock = 0
  /\ pc = [r \in Requests |-> "idle"]
  /\ cmd = [r \in Requests |-> None]
  /\ found = [r \in Requests |-> {}]
  /\ edited = [r \in Requests |-> {}]
  /\ todo = [r \in Requests |-> {}]
  /\ done = [r \in Requests |-> {}]

End(r, outcome) ==
  /\ pc' = [pc EXCEPT ![r] = outcome]
  /\ cmd' = [cmd EXCEPT ![r] = None]
  /\ found' = [found EXCEPT ![r] = {}]
  /\ edited' = [edited EXCEPT ![r] = {}]
  /\ todo' = [todo EXCEPT ![r] = {}]
  /\ done' = [done EXCEPT ![r] = {}]

\* An exception leaves the handler: the transaction rolls back.
Fail(r) == End(r, "failed") /\ UNCHANGED <<tables, clock>>

Begin(r, c) ==
  /\ pc[r] = "idle" /\ c \in Commands
  /\ Overlap \/ \A q \in Requests : pc[q] \notin Working

-----------------------------------------------------------------------------
\* findCartByCustomerId: the PageLimit items updated last.
Pages ==
  {S \in SUBSET cart :
     /\ Cardinality(S) = PageLimit \/ (S = cart /\ Cardinality(S) <= PageLimit)
     /\ \A i \in S, j \in cart \ S : i.updatedAt >= j.updatedAt}

\* mapToDomain: a Map by variant, in which a later row replaces an earlier.
ByVariant(S) ==
  {i \in S : \A j \in S : j.variant = i.variant => i.updatedAt <= j.updatedAt}

Named(c) == IF c.kind = "remove" THEN c.variants ELSE {c.variant}

\* What Cart refuses: adding a variant twice, and touching absent ones.
Refuses(items, c) ==
  (c.kind = "add") <=> (\E i \in items : i.variant \in Named(c))

\* Cart.addItemToCart, updateItemQuantity (which keeps updatedAt),
\* removeItem and removeManyItems.
Edit(r, items, c, now) ==
  CASE c.kind = "add" ->
         items \cup {[id |-> r, variant |-> c.variant, qty |-> 1,
                      updatedAt |-> now]}
    [] c.kind = "setQty" ->
         {IF i.variant = c.variant THEN [i EXCEPT !.qty = c.qty] ELSE i :
            i \in items}
    [] c.kind = "remove" -> {i \in items : i.variant \notin c.variants}

\* The handlers up to CartRepository.update.
EditCart(r, c) ==
  /\ Begin(r, c) /\ c.kind # "create" /\ exists
  /\ \E page \in Pages, now \in {clock, clock + 1} \cap Time :
       LET items == ByVariant(page) IN
       /\ ~Refuses(items, c)
       /\ found' = [found EXCEPT ![r] = items]
       /\ edited' = [edited EXCEPT ![r] = Edit(r, items, c, now)]
       /\ clock' = now
  /\ cmd' = [cmd EXCEPT ![r] = c]
  /\ pc' = [pc EXCEPT ![r] = "lock"]
  /\ UNCHANGED <<tables, todo, done>>

\* There is no cart, or the aggregate refuses the command.
Refuse(r, c) ==
  /\ Begin(r, c) /\ c.kind # "create"
  /\ ~exists \/ \E page \in Pages : Refuses(ByVariant(page), c)
  /\ Fail(r)

-----------------------------------------------------------------------------
\* CartRepository.update.

\* Mutant: the cart's row is not written first.
NeverLocked(r) == FALSE

\* Another transaction has written the cart's row.
CartLocked(r) == \E q \in Requests \ {r} : pc[q] \in {"diff", "write"}

\* tx.cart.update writes the customerId it has.
LockCart(r) ==
  /\ pc[r] = "lock" /\ ~CartLocked(r)
  /\ pc' = [pc EXCEPT ![r] = "diff"]
  /\ UNCHANGED <<tables, clock, locals>>

\* Mutant: quantities are not compared.
DiffIds(items) ==
  [op : {"delete"}, item : {i \in cart : i.id \notin Ids(items)}]
    \cup [op : {"create"}, item : {e \in items : e.id \notin Ids(cart)}]

\* Mutant: rows that the aggregate does not have stay.
DiffKept(items) ==
  [op : {"create"}, item : {e \in items : e.id \notin Ids(cart)}]
    \cup [op : {"update"}, item : {e \in items : e.id \in Ids(cart)} \ cart]

\* itemsToDelete, itemsToCreate and itemsToUpdate.
Diff(items) ==
  [op : {"delete"}, item : {i \in cart : i.id \notin Ids(items)}]
    \cup [op : {"create"}, item : {e \in items : e.id \notin Ids(cart)}]
    \cup [op : {"update"}, item : {e \in items : e.id \in Ids(cart)} \ cart]

\* Mutant: the lists are computed against the aggregate as it was loaded.
CompareWithLoaded(r) ==
  /\ pc[r] = "diff"
  /\ todo' = [todo EXCEPT ![r] =
       [op : {"delete"}, item : {i \in found[r] : i.id \notin Ids(edited[r])}]
         \cup [op : {"create"}, item : {e \in edited[r] : e.id \notin Ids(found[r])}]
         \cup [op : {"update"},
                item : {e \in edited[r] : e.id \in Ids(found[r])} \ found[r]]]
  /\ pc' = [pc EXCEPT ![r] = "write"]
  /\ UNCHANGED <<tables, clock, cmd, found, edited, done>>

\* The lists are computed against the rows that are there now.
CompareItems(r) ==
  /\ pc[r] = "diff"
  /\ todo' = [todo EXCEPT ![r] = Diff(edited[r])]
  /\ pc' = [pc EXCEPT ![r] = "write"]
  /\ UNCHANGED <<tables, clock, cmd, found, edited, done>>

\* Deletions first, then insertions, then updates.
NextWrites(r) ==
  {w \in todo[r] :
     /\ w.op # "delete" => \A x \in todo[r] : x.op # "delete"
     /\ w.op = "update" => \A x \in todo[r] : x.op = "update"}

\* The row is still there, or the inserted item's variant is.
Possible(w) ==
  IF w.op = "create" THEN w.item.variant \in variants
  ELSE w.item.id \in Ids(cart)

WriteItem(r) ==
  /\ pc[r] = "write"
  /\ \E w \in NextWrites(r) :
       /\ Possible(w)
       /\ todo' = [todo EXCEPT ![r] = @ \ {w}]
       /\ done' = [done EXCEPT ![r] = @ \cup {w}]
  /\ UNCHANGED <<tables, clock, pc, cmd, found, edited>>

WriteRefused(r) ==
  /\ pc[r] = "write"
  /\ \E w \in NextWrites(r) : ~Possible(w)
  /\ Fail(r)

\* The rows r's transaction sees.
View(r) ==
  {i \in cart : i.id \notin Ids(Written(done[r]))}
    \cup Written({w \in done[r] : w.op # "delete"})

CommitCart(r) ==
  /\ pc[r] = "write" /\ todo[r] = {}
  /\ cart' = View(r)
  /\ End(r, "ok")
  /\ UNCHANGED <<variants, exists, clock>>

-----------------------------------------------------------------------------
\* createCart, which a customer's creation triggers once.
CreateCart(r, c) ==
  /\ Begin(r, c) /\ c.kind = "create"
  /\ ~exists /\ \A q \in Requests : pc[q] # "create"
  /\ pc' = [pc EXCEPT ![r] = "create"]
  /\ cmd' = [cmd EXCEPT ![r] = c]
  /\ UNCHANGED <<tables, clock, found, edited, todo, done>>

InsertCart(r) ==
  /\ pc[r] = "create"
  /\ exists' = TRUE
  /\ End(r, "ok")
  /\ UNCHANGED <<variants, cart, clock>>

\* The product domain deletes a variant: its items go with it (ON DELETE
\* CASCADE), so it waits for uncommitted writes of such items.
DropVariant(v) ==
  /\ v \in variants
  /\ \A q \in Requests, w \in UNION {done[p] : p \in Requests} :
       w.item.variant # v
  /\ variants' = variants \ {v}
  /\ cart' = {i \in cart : i.variant # v}
  /\ UNCHANGED <<exists, clock, pc, locals>>

\* The process dies, or the database ends the transaction.
Abort(r) == pc[r] \in Working /\ Fail(r)

Start(r) ==
  \E c \in Commands : EditCart(r, c) \/ Refuse(r, c) \/ CreateCart(r, c)

Step(r) ==
  \/ LockCart(r) \/ CompareItems(r) \/ WriteItem(r) \/ WriteRefused(r)
  \/ CommitCart(r) \/ InsertCart(r)

\* Every command has been served.
Served == (\A r \in Requests : pc[r] \in Ended) /\ UNCHANGED vars

Next ==
  \/ \E r \in Requests : Start(r) \/ Step(r) \/ Abort(r)
  \/ \E v \in Variants : DropVariant(v)
  \/ Served

Spec == Init /\ [][Next]_vars

-----------------------------------------------------------------------------
\* Every variable has its type.
TypeOK ==
  /\ variants \in SUBSET Variants
  /\ exists \in BOOLEAN
  /\ cart \in SUBSET Item
  /\ clock \in Time
  /\ pc \in [Requests -> Working \cup Ended \cup {"idle"}]
  /\ cmd \in [Requests -> Commands \cup {None}]
  /\ found \in [Requests -> SUBSET Item]
  /\ edited \in [Requests -> SUBSET Item]
  /\ todo \in [Requests -> SUBSET Write]
  /\ done \in [Requests -> SUBSET Write]

\* The table has no key on (cartId, variantId): that two commands never leave
\* two rows of a variant follows from the lock on the cart's row and from
\* update's deleting every row the aggregate does not have.
OneItemPerVariant == \A i, j \in cart : i.variant = j.variant => i = j

\* No item outlives its variant: a stale aggregate inserts the items that were
\* deleted meanwhile once more, and only the foreign key stops those.
ItemsHaveVariants == \A i \in cart : i.variant \in variants

\* The cart never holds more than a page and the item just added: what does
\* not fit the page is deleted by the next command.
CartFits == Cardinality(cart) <= PageLimit + 1

Commits(r) == pc[r] = "write" /\ pc'[r] = "ok"

\* A command whose aggregate is what the table holds when it commits changes
\* the rows of the variants it names and no others, and those as asked.
UncontestedEdits ==
  [][\A r \in Requests : Commits(r) /\ cart = found[r] =>
       /\ \A i \in cart \cup cart' :
            i.variant \notin Named(cmd[r]) => i \in cart /\ i \in cart'
       /\ \A v \in Named(cmd[r]) :
            {i.qty : i \in {j \in cart' : j.variant = v}}
              = CASE cmd[r].kind = "add" -> {1}
                  [] cmd[r].kind = "setQty" -> {cmd[r].qty}
                  [] cmd[r].kind = "remove" -> {}]_vars

\* "Delete only the existing items" (Cart.removeManyItems): a removal leaves
\* the items of the variants it does not name.
RemovalKeepsOthers ==
  [][\A r \in Requests : Commits(r) /\ cmd[r].kind = "remove" =>
       \A i \in cart : i.variant \notin cmd[r].variants => i \in cart']_vars

\* The last save wins as a whole: whatever others saved and whatever variants were
\* deleted since the aggregate was loaded, or in the middle of the writes, what
\* a commit leaves is that aggregate less the items of deleted variants, never a
\* mixture of two aggregates (the three lists of CartRepository.update).
SavesAreWhole ==
  [][\A r \in Requests : Commits(r) =>
       cart' = {e \in edited[r] : e.variant \in variants}]_vars
=============================================================================
