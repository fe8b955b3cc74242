------------------------------ MODULE CartInv ------------------------------
(***************************************************************************)
(* The inductive invariant behind OneItemPerVariant, ItemsHaveVariants,    *)
(* CartFits and UncontestedEdits, in named parts.  TLC checks it on the    *)
(* instance of MCCartItems, CartProofs proves it for every instance.       *)
(***************************************************************************)
EXTENDS CartItems

\* The items in the table and in the aggregates being saved.
AllItems == cart \cup UNION {edited[r] : r \in Requests}

\* S has an item at most once, and a variant at most once.
Distinct(S) ==
  \A i, j \in S : i.id = j.id \/ i.variant = j.variant => i = j

\* Neither the table nor an aggregate has a variant or an identifier twice, and
\* an item keeps its variant for life.
ItemsDistinct ==
  /\ Distinct(cart)
  /\ \A r \in Requests : Distinct(edited[r])
  /\ \A i, j \in AllItems : i.id = j.id => i.variant = j.variant

\* The identifier that r will generate is nobody's yet.
FreshItems ==
  \A r \in Requests : pc[r] = "idle" => r \notin Ids(AllItems)

\* The lock on the cart's row: one transaction past it.
OneWriter ==
  \A q, r \in Requests :
    pc[q] \in {"diff", "write"} /\ pc[r] \in {"diff", "write"} => q = r

Deletions(W) == {w \in W : w.op = "delete"}

\* The writes of an open transaction bring the table to its aggregate: they
\* delete all other rows, write items of the aggregate only, and those written
\* have a variant.
WritesReachAggregate ==
  \A r \in Requests :
    IF pc[r] = "write"
    THEN /\ \A i \in cart :
              \/ i.id \in Ids(edited[r])
              \/ i.id \in Ids(Written(Deletions(todo[r] \cup done[r])))
         /\ \A w \in (todo[r] \cup done[r]) \ Deletions(todo[r] \cup done[r]) :
              w.item \in edited[r]
         /\ \A w \in done[r] \ Deletions(done[r]) : w.item.variant \in variants
    ELSE done[r] = {}

\* An aggregate is a page and at most one item more.
AggregatesFit ==
  \A r \in Requests :
    IsFiniteSet(edited[r]) /\ Cardinality(edited[r]) <= PageLimit + 1

ItemsInvariant ==
  /\ TypeOK
  /\ ItemsDistinct
  /\ ItemsHaveVariants
  /\ FreshItems
  /\ OneWriter
  /\ WritesReachAggregate
  /\ AggregatesFit
  /\ IsFiniteSet(cart) /\ CartFits

\* The identifier of the item that r adds is in no row and in no other aggregate
\* until r ends.
OwnItem(r) ==
  pc[r] \notin Ended =>
    /\ r \notin Ids(cart)
    /\ \A q \in Requests \ {r} : r \notin Ids(edited[q])

\* What r saves is the edit of what it loaded.
Edits(r) ==
  pc[r] \in {"lock", "diff", "write"} =>
    /\ cmd[r] \in Commands /\ cmd[r].kind # "create"
    /\ ~Refuses(found[r], cmd[r])
    /\ \E now \in Time : edited[r] = Edit(r, found[r], cmd[r], now)

\* The writes of r delete nothing that it saves, and each item that it saves is a
\* row, or written, or was a row until its variant was deleted.
Arrives(r) ==
  LET W == todo[r] \cup done[r] IN
  pc[r] = "write" =>
    /\ \A w \in Deletions(W) : w.item.id \notin Ids(edited[r])
    /\ \A e \in edited[r] :
         \/ e \in cart
         \/ e \in Written(W \ Deletions(W))
         \/ e.variant \notin variants /\ e.id # r

EditsArrive == \A r \in Requests : OwnItem(r) /\ Edits(r) /\ Arrives(r)

CartInvariant == ItemsInvariant /\ EditsArrive
=============================================================================
