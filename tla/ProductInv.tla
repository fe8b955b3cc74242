----------------------------- MODULE ProductInv -----------------------------
(***************************************************************************)
(* The inductive invariant of products: one transaction past the lock, one *)
(* creation, identifiers that nobody has before their request ends, and    *)
(* what a handler that nobody overtook would commit.                       *)
(***************************************************************************)
EXTENDS ProductVariants

\* Where a handler has an aggregate that it loaded, or edited.
Loading == {"load", "open", "lock", "write", "commit"}
Edited == {"open", "lock", "write", "commit"}

\* The lock on the product's row, and the guess that a creation makes.
OneAtATime ==
  \A q, r \in Requests :
    (\/ pc[q] \in {"write", "commit"} /\ pc[r] \in {"write", "commit"}
     \/ pc[q] = "insert" /\ pc[r] = "insert") => q = r

\* The product's places in categories go with them.
CategoriesExist == product \in ProductRow => product.cats \subseteq categories

\* A handler's command, aggregate and draft.
Handler(r) ==
  /\ pc[r] \in Working => cmd[r] \in Commands
  /\ pc[r] = "insert" =>
       /\ product = Unborn /\ cmd[r].kind = "create"
       /\ agg[r] = Created(r, cmd[r])
  /\ pc[r] \in Loading \cup {"delete"} => product # Unborn
  /\ pc[r] \in Loading => cmd[r].kind \in Whole \cup OnVariant /\ agg[r] \in Aggregate
  /\ pc[r] = "delete" => cmd[r].kind = "hardDelete"
  /\ pc[r] \in {"write", "commit"} =>
       draft[r] \in Aggregate /\ draft[r].row.cats = agg[r].row.cats
  /\ pc[r] = "commit" => draft[r].row.cats \subseteq categories

HandlerState == \A r \in Requests : Handler(r)

\* What r may call its variants.
Names(r) == {r} \X (1 .. MaxNew)

\* The variants that request q has in memory.
InHand(q) ==
  (IF agg[q] \in Aggregate THEN Live(agg[q].vars) ELSE {})
    \cup (IF draft[q] \in Aggregate THEN Live(draft[q].vars) ELSE {})

\* Nobody has a variant of a request that has not ended.
Fresh(r) ==
  pc[r] \notin Ended =>
    /\ Live(variants) \cap Names(r) = {}
    /\ \A q \in Requests \ {r} : InHand(q) \cap Names(r) = {}

NothingFromTheFuture == \A r \in Requests : Fresh(r)

\* What the aggregate's methods make of a.
Edit(r, a) ==
  LET c == cmd[r] IN
  CASE c.kind = "update" -> Updated(r, c, a)
    [] c.kind = "softDelete" -> SoftDeleted(a)
    [] c.kind = "restore" -> Restored(a)
    [] c.kind = "archiveVariant" -> VariantArchived(a, c.variant)
    [] c.kind = "restoreVariant" -> VariantRestored(a, c.variant)
    [] c.kind = "removeVariant" -> VariantRemoved(a, c.variant)

\* The tables' product, in categories some of which may have gone.
Standing(cats) == [row |-> [product EXCEPT !.cats = cats], vars |-> variants]

\* As long as no other command has committed, the aggregate is the edit of the
\* product that is there, and so is what the transaction is about to commit.
Current(r) ==
  ~contested[r] /\ pc[r] \in Loading =>
    /\ product \in ProductRow
    /\ pc[r] = "load" =>
         agg[r].row.archived = product.archived /\ agg[r].row.brand = product.brand
    /\ pc[r] \in Edited =>
         \E cats \in SUBSET Categories :
           /\ cats \cap categories = product.cats
           /\ ~Refused(r, Standing(cats)) /\ agg[r] = Edit(r, Standing(cats))
    /\ pc[r] \in {"lock", "write"} => existing[r] = Live(variants)
    /\ pc[r] = "write" => draft[r].row = agg[r].row
    /\ pc[r] = "commit" => draft[r] = agg[r]

UncontestedIsCurrent == \A r \in Requests : Current(r)

ProductInvariant ==
  /\ TypeOK
  /\ ReferencesHold
  /\ LockedRowsStand
  /\ OneAtATime
  /\ CategoriesExist
  /\ HandlerState
  /\ NothingFromTheFuture
  /\ UncontestedIsCurrent
=============================================================================
