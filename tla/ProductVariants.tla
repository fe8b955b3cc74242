-------------------------- MODULE ProductVariants --------------------------
(***************************************************************************)
(* One product and its variants, from creation to hard deletion.  A        *)
(* command loads the product, edits it in memory and hands the aggregate   *)
(* to ProductRepository.update, which reads the variants there are, locks  *)
(* the product's row and makes the variants equal to the aggregate's       *)
(* (READ COMMITTED).  Cart items go with a deleted variant, the product's  *)
(* place in a category with a deleted category; orders, returns and        *)
(* journaled stock keep a variant from being deleted.                      *)
(***************************************************************************)
EXTENDS Naturals, FiniteSets

CONSTANTS
  Requests,      \* the commands' executions, each runs once
  InitVariants,  \* variants that may exist at start
  MaxNew,        \* bound of the variants one input holds
  MaxVariants,   \* variants an update accepts (20)
  Brands,        \* values of an optional column
  Categories,    \* categories of the tenant
  MaxReferences, \* bound of the references to variants that come about
  Commands,      \* the commands clients send
  Unborn,        \* the product before its creation
  None           \* no row, no value

\* Variant.create gives every variant of an input a fresh identifier.
Variant == InitVariants \cup (Requests \X (1 .. MaxNew))

\* cats: the ProductCategories rows, for all children of a product: media and
\* sustainabilities are written like them and refer to nothing else.
ProductRow == [archived : BOOLEAN, brand : Brands \cup {None},
               cats : SUBSET Categories]
VariantRow == [archived : BOOLEAN]
VariantTable == [Variant -> VariantRow \cup {None}]
Aggregate == [row : ProductRow, vars : VariantTable]

\* An input holds a list of variants; what else it says of each decides nothing.
VariantInputs == 0 .. MaxNew

CreateInput ==
  [kind : {"create"}, n : VariantInputs, brand : Brands \cup {None},
   cats : SUBSET Categories]

\* Each part may be left out.
UpdateInput ==
  [kind : {"update"}, n : VariantInputs \cup {None}, brand : Brands \cup {None},
   cats : (SUBSET Categories) \cup {None}]

Command ==
  CreateInput \cup UpdateInput
    \cup [kind : {"softDelete", "restore", "hardDelete"}]
    \cup [kind : {"archiveVariant", "restoreVariant", "removeVariant"},
          variant : Variant]

ASSUME BoundAssumption == 
  MaxNew \in Nat /\ MaxVariants \in Nat /\ MaxReferences \in Nat
ASSUME CommandAssumption == Commands \subseteq Command /\ None \notin Command
ASSUME FreshAssumption ==
  /\ InitVariants \cap (Requests \X (1 .. MaxNew)) = {}
  /\ Unborn # None /\ None \notin Nat /\ None \notin Brands
  /\ Unborn \notin ProductRow /\ None \notin ProductRow
  /\ None \notin VariantRow /\ None \notin Aggregate

VARIABLES
  product,    \* the committed row of Product, Unborn or None
  variants,   \* the committed rows of its variants
  categories, \* the categories there are
  carts,      \* variants that are in carts
  held,       \* variants that orders, returns or stock movements refer to
  pc,         \* where each request is in its handler
  cmd,        \* the command it executes
  agg,        \* the aggregate in memory
  existing,   \* the variants its transaction read (existingVariantsFull)
  draft,      \* what its transaction has written and not committed
  contested   \* another command has committed since it began to load

tables == <<product, variants, categories, carts, held>>
locals == <<cmd, agg, existing, draft, contested>>
vars == <<tables, pc, locals>>

Working == {"load", "open", "lock", "write", "commit", "insert", "delete"}
Ended == {"ok", "failed"}
Whole == {"update", "softDelete", "restore"}
OnVariant == {"archiveVariant", "restoreVariant", "removeVariant"}

NoVariants == [v \in Variant |-> None]
Live(table) == {v \in Variant : table[v] # None}

\* Mutant: the update of the product's row comes last.
NeverLocked(r) == FALSE

\* The product's row is written by the open transaction of another request.
Locked(r) == \E q \in Requests \ {r} : pc[q] \in {"write", "commit"}

\* The rows of f for v in S, those of g elsewhere.
Override(S, f, g) == [v \in Variant |-> IF v \in S THEN f[v] ELSE g[v]]

-----------------------------------------------------------------------------
Init ==
  /\ \/ product = Unborn /\ variants = NoVariants
     \/ /\ product \in ProductRow /\ product.cats \subseteq Categories
        /\ variants \in [Variant -> {None, [archived |-> FALSE]}]
        /\ Live(variants) \subseteq InitVariants /\ Live(variants) # {}
  /\ categories = Categories /\ carts = {} /\ held = {}
  /\ pc = [r \in Requests |-> "idle"]
  /\ cmd = [r \in Requests |-> None]
  /\ agg = [r \in Requests |-> None]
  /\ existing = [r \in Requests |-> {}]
  /\ draft = [r \in Requests |-> None]
  /\ contested = [r \in Requests |-> FALSE]

\* The locals of a handler go with it; every other command that is open has
\* now loaded a state that is out of date, if this one committed.
Leave(r, outcome, committed) ==
  /\ pc' = [pc EXCEPT ![r] = outcome]
  /\ cmd' = [cmd EXCEPT ![r] = None]
  /\ agg' = [agg EXCEPT ![r] = None]
  /\ existing' = [existing EXCEPT ![r] = {}]
  /\ draft' = [draft EXCEPT ![r] = None]
  /\ contested' = [q \in Requests |->
                     q # r /\ (contested[q] \/ (committed /\ pc[q] \in Working))]

\* An exception leaves the handler: the transaction rolls back.
Fail(r) == Leave(r, "failed", FALSE) /\ UNCHANGED tables

\* The committed variants become new: the items of those that are gone cascade.
Commit(r, row, new) ==
  /\ product' = row
  /\ variants' = new
  /\ carts' = carts \cap Live(new)
  /\ UNCHANGED <<categories, held>>
  /\ Leave(r, "ok", TRUE)

\* Clients name the product and variants they have seen.
Begin(r, c) ==
  /\ pc[r] = "idle" /\ c \in Commands
  /\ IF c.kind = "create" THEN product = Unborn /\ \A q \in Requests : pc[q] # "insert"
     ELSE product # Unborn
  /\ c.kind \in OnVariant => c.variant \in InitVariants \cup Live(variants)

Enter(r, c, place) ==
  /\ pc' = [pc EXCEPT ![r] = place]
  /\ cmd' = [cmd EXCEPT ![r] = c]
  /\ UNCHANGED <<tables, existing, draft, contested>>

-----------------------------------------------------------------------------
\* The aggregate's methods.

\* The variants of an input with n of them.
NewVariants(r, n) ==
  [v \in Variant |-> IF v \in {r} \X (1 .. n) THEN [archived |-> FALSE] ELSE None]

Created(r, c) ==
  [row |-> [archived |-> FALSE, brand |-> c.brand, cats |-> c.cats],
   vars |-> NewVariants(r, c.n)]

\* Product.update: the variants of the input replace the loaded ones.
Updated(r, c, a) ==
  [row |-> [a.row EXCEPT !.brand = IF c.brand = None THEN @ ELSE c.brand,
                         !.cats = IF c.cats = None THEN @ ELSE c.cats],
   vars |-> IF c.n = None THEN a.vars ELSE NewVariants(r, c.n)]

SoftDeleted(a) == [a EXCEPT !.row.archived = TRUE]
Restored(a) == [a EXCEPT !.row.archived = FALSE]

\* Variant.archive and Variant.restore.
Shelved == [archived |-> TRUE]
Unshelved == [archived |-> FALSE]

VariantArchived(a, v) == [a EXCEPT !.vars[v] = Shelved]
VariantRestored(a, v) == [a EXCEPT !.vars[v] = Unshelved]
VariantRemoved(a, v) == [a EXCEPT !.vars[v] = None]

\* The input or the state of the product is refused.
UpdateRefused(c) == c.n # None /\ (c.n = 0 \/ c.n > MaxVariants)
SoftDeleteRefused(a) == a.row.archived
RestoreRefused(a) == ~a.row.archived
VariantMissing(a, v) == a.vars[v] = None
ArchiveRefused(a, v) == a.vars[v] \in {None, Shelved}
VariantRestoreRefused(a, v) == a.vars[v] \in {None, Unshelved}

Refused(r, a) ==
  LET c == cmd[r] IN
  CASE c.kind = "update" -> UpdateRefused(c)
    [] c.kind = "softDelete" -> SoftDeleteRefused(a)
    [] c.kind = "restore" -> RestoreRefused(a)
    [] c.kind = "archiveVariant" -> ArchiveRefused(a, c.variant)
    [] c.kind = "restoreVariant" -> VariantRestoreRefused(a, c.variant)
    [] c.kind = "removeVariant" -> VariantMissing(a, c.variant)

-----------------------------------------------------------------------------
\* CreateProductHandler: a product needs a variant.
CreateProduct(r, c) ==
  /\ Begin(r, c) /\ c.kind = "create" /\ c.n > 0
  /\ agg' = [agg EXCEPT ![r] = Created(r, c)]
  /\ Enter(r, c, "insert")

RefuseCreation(r, c) ==
  Begin(r, c) /\ c.kind = "create" /\ c.n = 0 /\ Fail(r)

\* Mutant: a product is put into a category unchecked.
LinkableBlindly(r) == TRUE

\* The foreign key of ProductCategories: the categories in memory are there.
Linkable(r) == agg[r].row.cats \subseteq categories

\* ProductRepository.create: nobody sees the product before the commit.
InsertProduct(r) ==
  /\ pc[r] = "insert" /\ Linkable(r)
  /\ Commit(r, agg[r].row, agg[r].vars)

InsertRefused(r) == pc[r] = "insert" /\ ~Linkable(r) /\ Fail(r)

\* findById reads the product, ...
LoadProduct(r, c) ==
  /\ Begin(r, c) /\ c.kind \in Whole \cup OnVariant
  /\ product # None
  /\ agg' = [agg EXCEPT ![r] = [row |-> product, vars |-> NoVariants]]
  /\ Enter(r, c, "load")

\* ... and then its variants and categories; the handler edits the aggregate.
Loaded(r) ==
  [agg[r] EXCEPT !.vars = variants,
                 !.row.cats = IF product = None THEN {} ELSE product.cats]

\* The handlers, from the load to the call of ProductRepository.update.
Save(r, kind, edited) ==
  /\ pc[r] = "load" /\ cmd[r].kind = kind /\ ~Refused(r, Loaded(r))
  /\ agg' = [agg EXCEPT ![r] = edited]
  /\ pc' = [pc EXCEPT ![r] = "open"]
  /\ UNCHANGED <<tables, cmd, existing, draft, contested>>

UpdateProduct(r) == Save(r, "update", Updated(r, cmd[r], Loaded(r)))
SoftDeleteProduct(r) == Save(r, "softDelete", SoftDeleted(Loaded(r)))
RestoreProduct(r) == Save(r, "restore", Restored(Loaded(r)))
ArchiveVariant(r) ==
  Save(r, "archiveVariant", VariantArchived(Loaded(r), cmd[r].variant))
RestoreVariant(r) ==
  Save(r, "restoreVariant", VariantRestored(Loaded(r), cmd[r].variant))
RemoveVariant(r) ==
  Save(r, "removeVariant", VariantRemoved(Loaded(r), cmd[r].variant))

Refuse(r) == pc[r] = "load" /\ Refused(r, Loaded(r)) /\ Fail(r)

NotFound(r, c) ==
  Begin(r, c) /\ c.kind \notin {"create"} /\ product = None /\ Fail(r)

-----------------------------------------------------------------------------
\* ProductRepository.update.

\* The transaction reads the product with its variants before it locks it.
ReadExisting(r) ==
  /\ pc[r] = "open" /\ product # None
  /\ existing' = [existing EXCEPT ![r] = Live(variants)]
  /\ pc' = [pc EXCEPT ![r] = "lock"]
  /\ UNCHANGED <<tables, cmd, agg, draft, contested>>

\* toDto makes null undefined, which leaves the column as it is.
Dto(row, old) == [row EXCEPT !.brand = IF @ = None THEN old.brand ELSE @]

LockProduct(r) ==
  /\ pc[r] = "lock" /\ ~Locked(r) /\ product # None
  /\ draft' = [draft EXCEPT ![r] =
                 [row |-> Dto(agg[r].row, product), vars |-> variants]]
  /\ pc' = [pc EXCEPT ![r] = "write"]
  /\ UNCHANGED <<tables, cmd, agg, existing, contested>>

\* Mutant: variants are only written.
SurplusKept(r) == {}

\* manageVariants deletes what it read and the aggregate does not have, ...
Surplus(r) == existing[r] \ Live(agg[r].vars)

\* Mutant: the foreign keys of orders and movements cascade.
WritableHeld(r) ==
  Linkable(r) /\ \A v \in Live(agg[r].vars) : v \in existing[r] <=> v \in Live(variants)

\* A variant is written with its attributes, dimension, media, warranties and
\* payments: those there are deleted, those in memory created.
InMemory(r, rest) == Override(Live(agg[r].vars), agg[r].vars, rest)

\* ... updates what it read, and creates the others.
Writable(r) ==
  /\ Surplus(r) \cap Live(variants) \cap held = {}
  /\ \A v \in Live(agg[r].vars) : v \in existing[r] <=> v \in Live(variants)
  /\ Linkable(r)

WriteVariants(r) ==
  /\ pc[r] = "write" /\ Writable(r)
  /\ draft' = [draft EXCEPT ![r].vars =
                 Override(Surplus(r), NoVariants, InMemory(r, variants))]
  /\ pc' = [pc EXCEPT ![r] = "commit"]
  /\ UNCHANGED <<tables, cmd, agg, existing, contested>>

\* Mutant: a variant that is gone, or there again, is waited for.
RefusedForHeld(r) ==
  pc[r] = "write" /\ Surplus(r) \cap Live(variants) \cap held # {} /\ Fail(r)

\* A variant cannot be deleted, is gone, or is there again.
WriteRefused(r) == pc[r] = "write" /\ ~Writable(r) /\ Fail(r)

CommitUpdate(r) ==
  pc[r] = "commit" /\ Commit(r, draft[r].row, draft[r].vars)

\* The product was deleted after it had been loaded.
Gone(r) == pc[r] \in {"open", "lock"} /\ product = None /\ ~Locked(r) /\ Fail(r)

-----------------------------------------------------------------------------
\* ProductRepository.hardDelete: one statement, and what it cascades to.
AskHardDelete(r, c) ==
  /\ Begin(r, c) /\ c.kind = "hardDelete" /\ product # None
  /\ Enter(r, c, "delete") /\ UNCHANGED agg

HardDelete(r) ==
  /\ pc[r] = "delete" /\ ~Locked(r)
  /\ product # None /\ Live(variants) \cap held = {}
  /\ Commit(r, None, NoVariants)

DeleteRefused(r) ==
  /\ pc[r] = "delete" /\ ~Locked(r)
  /\ product = None \/ Live(variants) \cap held # {}
  /\ Fail(r)

-----------------------------------------------------------------------------
\* A reference to v waits for the transaction that deletes it.
Referable(v) ==
  /\ v \in Live(variants)
  /\ \A q \in Requests : pc[q] = "commit" => v \in Live(draft[q].vars)

MayRefer == Cardinality(carts) + Cardinality(held) < MaxReferences

\* A customer puts v into a cart.
AddToCart(v) ==
  /\ Referable(v) /\ v \notin carts /\ MayRefer
  /\ carts' = carts \cup {v}
  /\ UNCHANGED <<product, variants, categories, held, pc, locals>>

\* A deletion of g waits for the transaction that has rewritten the product's
\* categories, and takes the product's place in g along.
DeleteCategory(g) ==
  /\ g \in categories
  /\ \A q \in Requests : pc[q] = "commit" =>
       g \notin product.cats \cup draft[q].row.cats
  /\ categories' = categories \ {g}
  /\ product' = IF product \in {Unborn, None} THEN product
                ELSE [product EXCEPT !.cats = @ \ {g}]
  /\ UNCHANGED <<variants, carts, held, pc, locals>>

\* Stock of v is journaled, or v is ordered or returned.
Hold(v) ==
  /\ Referable(v) /\ v \notin held /\ MayRefer
  /\ held' = held \cup {v}
  /\ UNCHANGED <<product, variants, categories, carts, pc, locals>>

\* The process dies, a name or a code is taken, or the database ends the
\* transaction.
Abort(r) == pc[r] \in Working /\ Fail(r)

Start(r) ==
  \E c \in Commands :
    \/ CreateProduct(r, c) \/ RefuseCreation(r, c)
    \/ LoadProduct(r, c) \/ AskHardDelete(r, c) \/ NotFound(r, c)

Step(r) ==
  \/ InsertProduct(r) \/ InsertRefused(r)
  \/ UpdateProduct(r) \/ SoftDeleteProduct(r) \/ RestoreProduct(r)
  \/ ArchiveVariant(r) \/ RestoreVariant(r) \/ RemoveVariant(r) \/ Refuse(r)
  \/ ReadExisting(r) \/ LockProduct(r) \/ WriteVariants(r) \/ WriteRefused(r)
  \/ CommitUpdate(r) \/ Gone(r)
  \/ HardDelete(r) \/ DeleteRefused(r)

\* Every command has been served.
Served == (\A r \in Requests : pc[r] \in Ended) /\ UNCHANGED vars

Next ==
  \/ \E r \in Requests : Start(r) \/ Step(r) \/ Abort(r)
  \/ \E v \in Variant : AddToCart(v) \/ Hold(v)
  \/ \E g \in Categories : DeleteCategory(g)
  \/ Served

Spec == Init /\ [][Next]_vars

\* A started handler keeps running.
FairSpec == Spec /\ \A r \in Requests : WF_vars(Step(r))

-----------------------------------------------------------------------------
\* Every variable has its type.
TypeOK ==
  /\ product \in ProductRow \cup {Unborn, None}
  /\ variants \in VariantTable
  /\ categories \in SUBSET Categories
  /\ carts \in SUBSET Variant
  /\ held \in SUBSET Variant
  /\ pc \in [Requests -> Working \cup Ended \cup {"idle"}]
  /\ cmd \in [Requests -> Command \cup {None}]
  /\ agg \in [Requests -> Aggregate \cup {None}]
  /\ existing \in [Requests -> SUBSET Variant]
  /\ draft \in [Requests -> Aggregate \cup {None}]
  /\ contested \in [Requests -> BOOLEAN]

\* Variants have their product, and what refers to a variant refers to one that
\* is there: a stale update does not bring variants back to a product that was
\* hard deleted meanwhile, and does not take away one that an order or a
\* stock movement has come to refer to.
ReferencesHold ==
  /\ (product \notin ProductRow) => Live(variants) = {}
  /\ carts \cup held \subseteq Live(variants)

\* The transaction that has the lock rewrites the rows as they are: nobody has
\* changed them since it took the lock, so its commit undoes nothing that was
\* committed after its own read of the product's row.
LockedRowsStand ==
  \A r \in Requests :
    /\ pc[r] = "write" => draft[r].vars = variants
    /\ pc[r] \in {"write", "commit"} =>
         /\ product \in ProductRow
         /\ \A v \in Live(variants) \ Live(draft[r].vars) : v \notin held

\* A command that no other one overtook between its first read and its commit
\* does exactly what it promises: the aggregate written back whole changes
\* nothing besides.
Catalogue == INSTANCE ProductCatalogue

UncontestedEdits ==
  [][\A r \in Requests :
       pc[r] \in {"insert", "commit", "delete"} /\ pc'[r] = "ok" /\ ~contested[r]
         => Catalogue!Does(cmd[r])]_vars

\* Every started command is answered.
EveryCommandAnswered ==
  \A r \in Requests : pc[r] \in Working ~> pc[r] \in Ended
=============================================================================
