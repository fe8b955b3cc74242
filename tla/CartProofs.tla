----------------------------- MODULE CartProofs -----------------------------
(* Proofs of the safety properties of CartItems, for every instance.        *)
EXTENDS CartInv, FiniteSetTheorems, TLAPS

\* The fields a command of each kind has.
LEMMA CommandFields ==
  ASSUME NEW c \in Commands
  PROVE  /\ c # None
         /\ c.kind \in {"add", "setQty", "remove", "create"}
         /\ c.kind \in {"add", "setQty"} => c.variant \in Variants
         /\ c.kind = "setQty" => c.qty \in Qtys
         /\ c.kind = "remove" => c.variants \subseteq Variants
<1>1. c \in Command /\ c # None
  BY CommandAssumption
<1> QED
  BY <1>1 DEF Command

\* The aggregate a command loads, and what it makes of it.
LEMMA LoadedItems ==
  ASSUME cart \in SUBSET Item, NEW page \in Pages
  PROVE  /\ ByVariant(page) \subseteq page
         /\ page \subseteq cart
BY DEF Pages, ByVariant

\* Editing yields items, whose identifiers and variants were there before or
\* are the added item's.
LEMMA EditedItems ==
  ASSUME NEW r \in Requests, NEW items \in SUBSET Item, NEW c \in Commands,
         c.kind # "create", NEW now \in Time
  PROVE  /\ Edit(r, items, c, now) \in SUBSET Item
         /\ \A e \in Edit(r, items, c, now) :
              \/ \E i \in items : e.id = i.id /\ e.variant = i.variant
              \/ c.kind = "add" /\ e.id = r /\ e.variant = c.variant
<1>1. CASE c.kind = "add"
  <2>1. [id |-> r, variant |-> c.variant, qty |-> 1, updatedAt |-> now] \in Item
    BY <1>1, CommandFields, QtyAssumption DEF Item, ItemId
  <2> QED
    BY <1>1, <2>1 DEF Edit
<1>2. CASE c.kind = "setQty"
  <2> DEFINE Set(i) ==
        IF i.variant = c.variant THEN [i EXCEPT !.qty = c.qty] ELSE i
  <2>1. ASSUME NEW i \in items
        PROVE /\ Set(i) \in Item
              /\ Set(i).id = i.id /\ Set(i).variant = i.variant
    BY <1>2, <2>1, CommandFields DEF Item
  <2>2. Edit(r, items, c, now) = {Set(i) : i \in items}
    BY <1>2 DEF Edit
  <2> QED
    BY <2>1, <2>2
<1>3. CASE c.kind = "remove"
  BY <1>3 DEF Edit
<1> QED
  BY <1>1, <1>2, <1>3, CommandFields

\* Leaving a handler keeps the types of the locals.
LEMMA EndTypeOK ==
  ASSUME TypeOK, NEW r \in Requests, NEW o \in Ended, End(r, o)
  PROVE  /\ pc' \in [Requests -> Working \cup Ended \cup {"idle"}]
         /\ cmd' \in [Requests -> Commands \cup {None}]
         /\ found' \in [Requests -> SUBSET Item]
         /\ edited' \in [Requests -> SUBSET Item]
         /\ todo' \in [Requests -> SUBSET Write]
         /\ done' \in [Requests -> SUBSET Write]
BY DEF TypeOK, End

\* The types hold when no command has run.
LEMMA InitTypeOK == Init => TypeOK
<1> SUFFICES ASSUME Init PROVE TypeOK
  OBVIOUS
<1>1. cart \in SUBSET Item
  <2>1. PICK S \in SUBSET InitItems :
          \E v \in [S -> Variants] :
            cart = {[id |-> i, variant |-> v[i], qty |-> 1, updatedAt |-> 0] :
                      i \in S}
    BY DEF Init
  <2> QED
    BY <2>1, QtyAssumption, LimitAssumption DEF Item, ItemId, Time
<1> QED
  BY <1>1, LimitAssumption DEF Init, TypeOK, Time

\* Every step keeps the types.
LEMMA NextTypeOK ==
  ASSUME TypeOK, [Next]_vars
  PROVE  TypeOK'
<1>1. ASSUME NEW r \in Requests, Fail(r)
      PROVE TypeOK'
  BY <1>1, EndTypeOK DEF Fail, tables, TypeOK, Ended
<1>2. ASSUME NEW r \in Requests, NEW c \in Commands, EditCart(r, c)
      PROVE TypeOK'
  <2>1. PICK page \in Pages, now \in {clock, clock + 1} \cap Time :
          /\ found' = [found EXCEPT ![r] = ByVariant(page)]
          /\ edited' = [edited EXCEPT ![r] = Edit(r, ByVariant(page), c, now)]
          /\ clock' = now
    BY <1>2 DEF EditCart
  <2>2. ByVariant(page) \in SUBSET Item
    BY LoadedItems DEF TypeOK
  <2>3. Edit(r, ByVariant(page), c, now) \in SUBSET Item
    BY <1>2, <2>2, EditedItems DEF EditCart
  <2> QED
    BY <1>2, <2>1, <2>2, <2>3 DEF EditCart, TypeOK, tables, Working
<1>3. ASSUME NEW r \in Requests, CompareItems(r)
      PROVE TypeOK'
  <2>1. Diff(edited[r]) \in SUBSET Write
    BY DEF Diff, Write, TypeOK
  <2> QED
    BY <1>3, <2>1 DEF CompareItems, TypeOK, tables, Working
<1>4. ASSUME NEW r \in Requests, WriteItem(r)
      PROVE TypeOK'
  BY <1>4 DEF WriteItem, NextWrites, TypeOK, tables
<1>5. ASSUME NEW r \in Requests, CommitCart(r)
      PROVE TypeOK'
  <2>1. View(r) \in SUBSET Item
    BY DEF View, Written, Write, TypeOK
  <2> QED
    BY <1>5, <2>1, EndTypeOK DEF CommitCart, TypeOK, Ended
<1>6. ASSUME NEW r \in Requests, InsertCart(r)
      PROVE TypeOK'
  BY <1>6, EndTypeOK DEF InsertCart, TypeOK, Ended
<1>7. ASSUME NEW r \in Requests, NEW c \in Commands, CreateCart(r, c)
      PROVE TypeOK'
  BY <1>7 DEF CreateCart, TypeOK, tables, Working
<1>8. ASSUME NEW r \in Requests, LockCart(r)
      PROVE TypeOK'
  BY <1>8 DEF LockCart, TypeOK, tables, locals, Working
<1>9. ASSUME NEW v \in Variants, DropVariant(v)
      PROVE TypeOK'
  BY <1>9 DEF DropVariant, TypeOK, locals
<1>10. CASE UNCHANGED vars
  BY <1>10 DEF TypeOK, vars, tables, locals
<1> QED
  BY <1>1, <1>2, <1>3, <1>4, <1>5, <1>6, <1>7, <1>8, <1>9, <1>10
     DEF Next, Start, Step, Refuse, WriteRefused, Abort, Served

-----------------------------------------------------------------------------
\* A set that can be mapped injectively by identifier into a finite one is no
\* larger.
LEMMA NoLarger ==
  ASSUME NEW S, NEW T, IsFiniteSet(T), Ids(S) \subseteq Ids(T),
         \A i, j \in S : i.id = j.id => i = j
  PROVE  IsFiniteSet(S) /\ Cardinality(S) <= Cardinality(T)
<1> DEFINE f == [i \in S |-> CHOOSE e \in T : e.id = i.id]
<1>1. ASSUME NEW i \in S
      PROVE f[i] \in T /\ f[i].id = i.id
  BY DEF Ids
<1>2. f \in Injection(S, T)
  BY <1>1 DEF Injection, IsInjective
<1> QED
  BY <1>2, FS_Injection

\* The invariant holds when no command has run.
LEMMA InitInvariant == Init => ItemsInvariant
<1> SUFFICES ASSUME Init PROVE ItemsInvariant
  OBVIOUS
<1>1. PICK S \in SUBSET InitItems :
        \E v \in [S -> Variants] :
          cart = {[id |-> i, variant |-> v[i], qty |-> 1, updatedAt |-> 0] :
                    i \in S}
  BY DEF Init
<1>2. \A i \in cart : i.id \in InitItems /\ i.variant \in Variants
  BY <1>1
<1>3. \A i, j \in cart : i.id = j.id => i = j
  BY <1>1
<1>4. IsFiniteSet(cart) /\ CartFits
  <2> DEFINE T == {[id |-> i] : i \in S}
             g == [i \in S |-> [id |-> i]]
  <2>1. IsFiniteSet(S)
    BY FreshAssumption, FS_Subset
  <2>2. g \in Surjection(S, T)
    BY DEF Surjection
  <2>3. IsFiniteSet(T)
    BY <2>1, <2>2, FS_Surjection
  <2>4. Ids(cart) \subseteq Ids(T)
    <3>1. \A i \in cart : i.id \in S
      BY <1>1
    <3>2. ASSUME NEW x \in S
          PROVE x \in Ids(T)
      <4>1. [id |-> x] \in T /\ [id |-> x].id = x
        OBVIOUS
      <4> QED
        BY <4>1 DEF Ids
    <3> QED
      BY <3>1, <3>2 DEF Ids
  <2>5. IsFiniteSet(cart)
    BY <1>3, <2>3, <2>4, NoLarger
  <2> QED
    BY <2>5, FS_CardinalityType, LimitAssumption DEF Init, CartFits
<1>5. AllItems = cart
  BY DEF AllItems, Init
<1>6. ItemsDistinct
  BY <1>3, <1>5 DEF ItemsDistinct, Distinct, Init
<1>7. FreshItems
  BY <1>2, <1>5, FreshAssumption DEF FreshItems, Ids
<1>8. AggregatesFit
  BY FS_EmptySet, LimitAssumption DEF AggregatesFit, Init
<1> QED
  BY <1>2, <1>4, <1>6, <1>7, <1>8, InitTypeOK
     DEF ItemsInvariant, ItemsHaveVariants, OneWriter, WritesReachAggregate,
         Init

\* Steps that take items away at most keep what is said of the items.
LEMMA FewerItems ==
  ASSUME ItemsInvariant, cart' \subseteq cart,
         \A q \in Requests : edited'[q] \subseteq edited[q],
         \A q \in Requests : pc'[q] = "idle" => pc[q] = "idle"
  PROVE  /\ ItemsDistinct' /\ FreshItems' /\ AggregatesFit'
         /\ IsFiniteSet(cart)' /\ CartFits'
<1>1. AllItems' \subseteq AllItems
  BY DEF AllItems
<1>2. ItemsDistinct'
  BY <1>1 DEF ItemsInvariant, ItemsDistinct, Distinct
<1>3. FreshItems'
  BY <1>1 DEF ItemsInvariant, FreshItems, Ids
<1>4. AggregatesFit'
  <2> SUFFICES ASSUME NEW q \in Requests
               PROVE /\ IsFiniteSet(edited'[q])
                     /\ Cardinality(edited'[q]) <= PageLimit + 1
    BY DEF AggregatesFit
  <2>1. /\ IsFiniteSet(edited[q]) /\ Cardinality(edited[q]) <= PageLimit + 1
        /\ edited'[q] \in SUBSET edited[q]
    BY DEF ItemsInvariant, AggregatesFit
  <2>2. /\ IsFiniteSet(edited'[q])
        /\ Cardinality(edited'[q]) <= Cardinality(edited[q])
    BY <2>1, FS_Subset
  <2> QED
    BY <2>1, <2>2, FS_CardinalityType, LimitAssumption
<1>5. IsFiniteSet(cart') /\ Cardinality(cart') <= Cardinality(cart)
  BY FS_Subset DEF ItemsInvariant
<1> QED
  BY <1>2, <1>3, <1>4, <1>5, FS_CardinalityType, LimitAssumption
     DEF ItemsInvariant, CartFits

\* An end that leaves the tables alone.
LEMMA FailInvariant ==
  ASSUME ItemsInvariant, NEW r \in Requests, Fail(r)
  PROVE  ItemsInvariant'
<1>1. TypeOK'
  BY EndTypeOK DEF ItemsInvariant, Fail, tables, TypeOK, Ended
<1>2. /\ cart' = cart /\ variants' = variants
      /\ pc' = [pc EXCEPT ![r] = "failed"]
      /\ edited' = [edited EXCEPT ![r] = {}]
      /\ todo' = [todo EXCEPT ![r] = {}]
      /\ done' = [done EXCEPT ![r] = {}]
  BY DEF Fail, End, tables
<1>3. /\ ItemsDistinct' /\ FreshItems' /\ AggregatesFit'
      /\ IsFiniteSet(cart)' /\ CartFits'
  BY <1>2, FewerItems DEF ItemsInvariant, TypeOK
<1>4. ItemsHaveVariants' /\ OneWriter'
  BY <1>2 DEF ItemsInvariant, TypeOK, ItemsHaveVariants, OneWriter
<1>5. WritesReachAggregate'
  BY <1>2 DEF ItemsInvariant, TypeOK, WritesReachAggregate, Deletions
<1> QED
  BY <1>1, <1>3, <1>4, <1>5 DEF ItemsInvariant

\* createCart leaves the items alone.
LEMMA CreateCartInvariant ==
  ASSUME ItemsInvariant, TypeOK', NEW r \in Requests, NEW c \in Commands,
         CreateCart(r, c)
  PROVE  ItemsInvariant'
<1>1. /\ UNCHANGED <<cart, variants, edited, todo, done>>
      /\ pc[r] = "idle" /\ pc' = [pc EXCEPT ![r] = "create"]
  BY DEF CreateCart, Begin, tables
<1>2. /\ ItemsDistinct' /\ FreshItems' /\ AggregatesFit'
      /\ IsFiniteSet(cart)' /\ CartFits'
  BY <1>1, FewerItems DEF ItemsInvariant, TypeOK
<1>3. ItemsHaveVariants' /\ OneWriter'
  BY <1>1 DEF ItemsInvariant, TypeOK, ItemsHaveVariants, OneWriter
<1>4. WritesReachAggregate'
  BY <1>1 DEF ItemsInvariant, TypeOK, WritesReachAggregate, Deletions
<1> QED
  BY <1>2, <1>3, <1>4 DEF ItemsInvariant

\* Loading an aggregate and editing it.
LEMMA EditCartInvariant ==
  ASSUME ItemsInvariant, TypeOK', NEW r \in Requests, NEW c \in Commands,
         EditCart(r, c)
  PROVE  ItemsInvariant'
<1>1. PICK page \in Pages, now \in {clock, clock + 1} \cap Time :
        /\ ~Refuses(ByVariant(page), c)
        /\ edited' = [edited EXCEPT ![r] = Edit(r, ByVariant(page), c, now)]
  BY DEF EditCart
<1> DEFINE items == ByVariant(page)
           new == Edit(r, items, c, now)
<1>2. items \subseteq page /\ page \subseteq cart /\ cart \in SUBSET Item
  BY LoadedItems DEF ItemsInvariant, TypeOK
<1>3. pc[r] = "idle" /\ c.kind \in {"add", "setQty", "remove"}
  BY CommandFields DEF EditCart, Begin
<1>4. /\ new \in SUBSET Item
      /\ \A e \in new :
           \/ \E i \in items : e.id = i.id /\ e.variant = i.variant
           \/ c.kind = "add" /\ e.id = r /\ e.variant = c.variant
  BY <1>2, <1>3, EditedItems
<1>5. \A i \in items : i.id # r
  BY <1>2, <1>3 DEF ItemsInvariant, FreshItems, Ids, AllItems
<1>6. Distinct(items)
  BY <1>2 DEF ItemsInvariant, ItemsDistinct, Distinct
<1>7. Distinct(new)
  <2>1. CASE c.kind = "add"
    <3>1. \A i \in items : i.variant # c.variant
      BY <1>1, <2>1 DEF Refuses, Named
    <3> QED
      BY <1>5, <1>6, <2>1, <3>1 DEF Edit, Distinct
  <2>2. CASE c.kind = "setQty"
    <3> DEFINE Set(i) ==
          IF i.variant = c.variant THEN [i EXCEPT !.qty = c.qty] ELSE i
    <3>1. new = {Set(i) : i \in items}
      BY <2>2 DEF Edit
    <3>2. \A i \in items : Set(i).id = i.id /\ Set(i).variant = i.variant
      BY <1>2 DEF Item
    <3> HIDE DEF Set
    <3> QED
      BY <1>6, <3>1, <3>2 DEF Distinct
  <2>3. CASE c.kind = "remove"
    BY <1>6, <2>3 DEF Edit, Distinct
  <2> QED
    BY <1>3, <2>1, <2>2, <2>3
<1>8. IsFiniteSet(new) /\ Cardinality(new) <= PageLimit + 1
  <2>1. IsFiniteSet(page) /\ Cardinality(page) <= PageLimit
    BY <1>2, FS_Subset, LimitAssumption DEF Pages, ItemsInvariant
  <2>2. IsFiniteSet(items) /\ Cardinality(items) <= PageLimit
    BY <1>2, <2>1, FS_Subset, FS_CardinalityType, LimitAssumption
  <2>3. CASE c.kind = "add"
    <3> DEFINE it == [id |-> r, variant |-> c.variant, qty |-> 1,
                      updatedAt |-> now]
    <3>1. new = items \cup {it}
      BY <2>3 DEF Edit
    <3> HIDE DEF it
    <3>2. /\ IsFiniteSet(items \cup {it})
          /\ Cardinality(items \cup {it}) =
               IF it \in items THEN Cardinality(items)
               ELSE Cardinality(items) + 1
      BY <2>2, FS_AddElement
    <3> QED
      BY <2>2, <3>1, <3>2, FS_CardinalityType, LimitAssumption
  <2>4. CASE c.kind # "add"
    <3>1. Ids(new) \subseteq Ids(items)
      BY <1>4, <2>4 DEF Ids
    <3>2. IsFiniteSet(new) /\ Cardinality(new) <= Cardinality(items)
      BY <1>7, <2>2, <3>1, NoLarger DEF Distinct
    <3> QED
      BY <2>2, <3>2, FS_CardinalityType, LimitAssumption
  <2> QED
    BY <2>3, <2>4
<1> HIDE DEF new, items
<1>9. /\ cart' = cart /\ variants' = variants
      /\ pc' = [pc EXCEPT ![r] = "lock"]
      /\ edited' = [edited EXCEPT ![r] = new]
      /\ UNCHANGED <<todo, done>>
  BY <1>1 DEF EditCart, tables, new, items
<1>10. /\ edited'[r] = new
       /\ \A q \in Requests : q # r => edited'[q] = edited[q]
  BY <1>9 DEF ItemsInvariant, TypeOK
<1>11. \A e \in AllItems' :
         \/ e \in AllItems
         \/ \E i \in AllItems : e.id = i.id /\ e.variant = i.variant
         \/ c.kind = "add" /\ e.id = r /\ e.variant = c.variant
  BY <1>2, <1>4, <1>9, <1>10 DEF AllItems
<1>12. \A i \in AllItems : i.id # r
  BY <1>3 DEF ItemsInvariant, FreshItems, Ids
<1>13. ItemsDistinct'
  <2>1. ASSUME NEW i \in AllItems', NEW j \in AllItems', i.id = j.id
        PROVE i.variant = j.variant
    BY <1>11, <1>12, <2>1 DEF ItemsInvariant, ItemsDistinct
  <2> QED
    BY <1>7, <1>9, <1>10, <2>1 DEF ItemsInvariant, ItemsDistinct, Distinct
<1>14. FreshItems'
  BY <1>9, <1>11 DEF ItemsInvariant, TypeOK, FreshItems, Ids
<1>15. AggregatesFit'
  BY <1>8, <1>10 DEF ItemsInvariant, AggregatesFit
<1>16. ItemsHaveVariants' /\ OneWriter' /\ CartFits' /\ IsFiniteSet(cart)'
  BY <1>9
     DEF ItemsInvariant, TypeOK, ItemsHaveVariants, OneWriter, CartFits
<1>17. WritesReachAggregate'
  BY <1>3, <1>9, <1>10
     DEF ItemsInvariant, TypeOK, WritesReachAggregate, Deletions
<1> QED
  BY <1>13, <1>14, <1>15, <1>16, <1>17 DEF ItemsInvariant

\* The row lock admits one transaction.
LEMMA LockCartInvariant ==
  ASSUME ItemsInvariant, TypeOK', NEW r \in Requests, LockCart(r)
  PROVE  ItemsInvariant'
<1>1. /\ UNCHANGED <<cart, variants, edited, todo, done>>
      /\ pc[r] = "lock" /\ pc' = [pc EXCEPT ![r] = "diff"]
      /\ \A q \in Requests \ {r} : pc[q] \notin {"diff", "write"}
  BY DEF LockCart, CartLocked, tables, locals
<1>2. /\ ItemsDistinct' /\ FreshItems' /\ AggregatesFit'
      /\ IsFiniteSet(cart)' /\ CartFits'
  BY <1>1, FewerItems DEF ItemsInvariant, TypeOK
<1>3. ItemsHaveVariants'
  BY <1>1 DEF ItemsInvariant, ItemsHaveVariants
<1>4. OneWriter'
  BY <1>1 DEF ItemsInvariant, TypeOK, OneWriter
<1>5. WritesReachAggregate'
  BY <1>1 DEF ItemsInvariant, TypeOK, WritesReachAggregate, Deletions
<1> QED
  BY <1>2, <1>3, <1>4, <1>5 DEF ItemsInvariant

\* The writes that update computes lead from the table to the aggregate.
LEMMA CompareItemsInvariant ==
  ASSUME ItemsInvariant, TypeOK', NEW r \in Requests, CompareItems(r)
  PROVE  ItemsInvariant'
<1>1. /\ UNCHANGED <<cart, variants, edited, done>>
      /\ pc[r] = "diff" /\ pc' = [pc EXCEPT ![r] = "write"]
      /\ todo' = [todo EXCEPT ![r] = Diff(edited[r])]
  BY DEF CompareItems, tables
<1>2. /\ ItemsDistinct' /\ FreshItems' /\ AggregatesFit'
      /\ IsFiniteSet(cart)' /\ CartFits'
  BY <1>1, FewerItems DEF ItemsInvariant, TypeOK
<1>3. ItemsHaveVariants'
  BY <1>1 DEF ItemsInvariant, ItemsHaveVariants
<1>4. OneWriter'
  BY <1>1 DEF ItemsInvariant, TypeOK, OneWriter
<1>5. /\ done'[r] = {} /\ todo'[r] = Diff(edited[r]) /\ pc'[r] = "write"
      /\ \A q \in Requests \ {r} : todo'[q] = todo[q] /\ pc'[q] = pc[q]
  BY <1>1 DEF ItemsInvariant, TypeOK, WritesReachAggregate
<1>6. ASSUME NEW i \in cart, i.id \notin Ids(edited[r])
      PROVE i.id \in Ids(Written(Deletions(Diff(edited[r]))))
  <2>1. [op |-> "delete", item |-> i] \in Deletions(Diff(edited[r]))
    BY <1>6 DEF Diff, Deletions
  <2>2. i \in Written(Deletions(Diff(edited[r])))
    BY <2>1 DEF Written
  <2> QED
    BY <2>2 DEF Ids
<1>7. \A w \in Diff(edited[r]) : w.op # "delete" => w.item \in edited[r]
  BY DEF Diff
<1>8. WritesReachAggregate'
  <2> SUFFICES ASSUME NEW q \in Requests
        PROVE IF pc'[q] = "write"
              THEN /\ \A i \in cart :
                        \/ i.id \in Ids(edited[q])
                        \/ i.id \in
                             Ids(Written(Deletions(todo'[q] \cup done[q])))
                   /\ \A w \in (todo'[q] \cup done[q])
                              \ Deletions(todo'[q] \cup done[q]) :
                        w.item \in edited[q]
                   /\ \A w \in done[q] \ Deletions(done[q]) :
                        w.item.variant \in variants
              ELSE done[q] = {}
    BY <1>1 DEF WritesReachAggregate, Deletions
  <2>1. CASE q = r
    <3>1. todo'[q] \cup done[q] = Diff(edited[r]) /\ done[q] = {}
      BY <1>1, <1>5, <2>1
    <3> QED
      BY <1>5, <1>6, <1>7, <2>1, <3>1 DEF Deletions
  <2>2. CASE q # r
    BY <1>5, <2>2 DEF ItemsInvariant, WritesReachAggregate
  <2> QED
    BY <2>1, <2>2
<1> QED
  BY <1>2, <1>3, <1>4, <1>8 DEF ItemsInvariant

\* One write: what it writes has a variant, as the foreign key or the row that
\* is overwritten tells.
LEMMA WriteItemInvariant ==
  ASSUME ItemsInvariant, TypeOK', NEW r \in Requests, WriteItem(r)
  PROVE  ItemsInvariant'
<1>1. PICK w \in NextWrites(r) :
        /\ Possible(w)
        /\ todo' = [todo EXCEPT ![r] = @ \ {w}]
        /\ done' = [done EXCEPT ![r] = @ \cup {w}]
  BY DEF WriteItem
<1>2. /\ UNCHANGED <<cart, variants, edited, pc>>
      /\ pc[r] = "write"
  BY DEF WriteItem, tables
<1>3. /\ ItemsDistinct' /\ FreshItems' /\ AggregatesFit'
      /\ IsFiniteSet(cart)' /\ CartFits'
  BY <1>2, FewerItems DEF ItemsInvariant, TypeOK
<1>4. ItemsHaveVariants' /\ OneWriter'
  BY <1>2 DEF ItemsInvariant, ItemsHaveVariants, OneWriter
<1>5. w \in todo[r] /\ w.op \in {"delete", "create", "update"}
  BY DEF NextWrites, ItemsInvariant, TypeOK, Write
<1>6. /\ todo'[r] \cup done'[r] = todo[r] \cup done[r]
      /\ done'[r] = done[r] \cup {w}
      /\ \A q \in Requests \ {r} : todo'[q] = todo[q] /\ done'[q] = done[q]
  BY <1>1, <1>5 DEF ItemsInvariant, TypeOK
<1>7. ASSUME w.op # "delete"
      PROVE w.item.variant \in variants
  <2>1. w.item \in edited[r]
    BY <1>2, <1>5, <1>7 DEF ItemsInvariant, WritesReachAggregate, Deletions
  <2>2. CASE w.op = "create"
    BY <1>1, <2>2 DEF Possible
  <2>3. CASE w.op = "update"
    <3>1. PICK i \in cart : i.id = w.item.id
      BY <1>1, <2>3 DEF Possible, Ids
    <3>2. i.variant = w.item.variant
      BY <2>1, <3>1 DEF ItemsInvariant, ItemsDistinct, AllItems
    <3> QED
      BY <3>2 DEF ItemsInvariant, ItemsHaveVariants
  <2> QED
    BY <1>5, <1>7, <2>2, <2>3
<1>8. WritesReachAggregate'
  BY <1>2, <1>6, <1>7 DEF ItemsInvariant, WritesReachAggregate, Deletions
<1> QED
  BY <1>3, <1>4, <1>8 DEF ItemsInvariant

\* A commit leaves rows of the old table and items of the aggregate, each under
\* an identifier of the aggregate.
LEMMA CommitCartInvariant ==
  ASSUME ItemsInvariant, TypeOK', NEW r \in Requests, CommitCart(r)
  PROVE  ItemsInvariant'
<1>1. /\ cart' = View(r) /\ variants' = variants
      /\ pc[r] = "write" /\ todo[r] = {}
      /\ pc' = [pc EXCEPT ![r] = "ok"]
      /\ edited' = [edited EXCEPT ![r] = {}]
      /\ todo' = [todo EXCEPT ![r] = {}]
      /\ done' = [done EXCEPT ![r] = {}]
  BY DEF CommitCart, End
<1>2. ASSUME NEW i \in cart'
      PROVE \/ /\ i \in cart /\ i.id \notin Ids(Written(done[r]))
               /\ i.id \in Ids(edited[r])
            \/ /\ i \in edited[r] /\ i.id \in Ids(edited[r])
               /\ i.variant \in variants
               /\ i.id \in Ids(Written(done[r]))
  <2>1. CASE i \in cart /\ i.id \notin Ids(Written(done[r]))
    <3>1. i.id \notin Ids(Written(Deletions(done[r])))
      BY <2>1 DEF Deletions, Written, Ids
    <3> QED
      BY <1>1, <2>1, <3>1 DEF ItemsInvariant, WritesReachAggregate
  <2>2. CASE i \in Written({w \in done[r] : w.op # "delete"})
    BY <1>1, <2>2
       DEF ItemsInvariant, WritesReachAggregate, Deletions, Written, Ids
  <2> QED
    BY <1>1, <2>1, <2>2 DEF View
<1>3. Distinct(cart')
  <2> SUFFICES ASSUME NEW i \in cart', NEW j \in cart',
                      i.id = j.id \/ i.variant = j.variant
               PROVE i = j
    BY DEF Distinct
  <2>1. CASE i \in cart /\ j \in cart
    BY <2>1 DEF ItemsInvariant, ItemsDistinct, Distinct
  <2>2. CASE i \in edited[r] /\ j \in edited[r]
    BY <2>2 DEF ItemsInvariant, ItemsDistinct, Distinct
  <2>3. ASSUME NEW a \in cart, NEW b \in edited[r],
               a.id \notin Ids(Written(done[r])), a.id \in Ids(edited[r]),
               b.id \in Ids(Written(done[r]))
        PROVE a.id # b.id /\ a.variant # b.variant
    <3>1. PICK e \in edited[r] : e.id = a.id
      BY <2>3 DEF Ids
    <3>2. e.variant = a.variant
      BY <3>1 DEF ItemsInvariant, ItemsDistinct, AllItems
    <3> QED
      BY <2>3, <3>1, <3>2 DEF ItemsInvariant, ItemsDistinct, Distinct
  <2> QED
    BY <1>2, <2>1, <2>2, <2>3
<1>4. AllItems' \subseteq AllItems
  <2>1. cart' \subseteq AllItems
    BY <1>2 DEF AllItems
  <2>2. \A q \in Requests : edited'[q] \subseteq edited[q]
    BY <1>1 DEF ItemsInvariant, TypeOK
  <2> QED
    BY <2>1, <2>2 DEF AllItems
<1>5. ItemsDistinct'
  BY <1>1, <1>3, <1>4 DEF ItemsInvariant, TypeOK, ItemsDistinct, Distinct
<1>6. FreshItems'
  BY <1>1, <1>4 DEF ItemsInvariant, TypeOK, FreshItems, Ids
<1>7. ItemsHaveVariants'
  BY <1>1, <1>2 DEF ItemsInvariant, ItemsHaveVariants
<1>8. OneWriter'
  BY <1>1 DEF ItemsInvariant, TypeOK, OneWriter
<1>9. WritesReachAggregate'
  <2> SUFFICES ASSUME NEW q \in Requests
               PROVE pc'[q] # "write" /\ done'[q] = {}
    BY DEF WritesReachAggregate
  <2> QED
    BY <1>1 DEF ItemsInvariant, TypeOK, WritesReachAggregate, OneWriter
<1>10. AggregatesFit'
  BY <1>1, FS_EmptySet, LimitAssumption
     DEF ItemsInvariant, TypeOK, AggregatesFit
<1>11. IsFiniteSet(cart)' /\ CartFits'
  <2>1. Ids(cart') \subseteq Ids(edited[r])
    BY <1>2 DEF Ids
  <2>2. IsFiniteSet(edited[r]) /\ Cardinality(edited[r]) <= PageLimit + 1
    BY DEF ItemsInvariant, AggregatesFit
  <2>3. IsFiniteSet(cart') /\ Cardinality(cart') <= Cardinality(edited[r])
    BY <1>3, <2>1, <2>2, NoLarger DEF Distinct
  <2> QED
    BY <2>2, <2>3, FS_CardinalityType, LimitAssumption DEF CartFits
<1> QED
  BY <1>5, <1>6, <1>7, <1>8, <1>9, <1>10, <1>11 DEF ItemsInvariant

\* A variant goes with its items, and not while one is being written.
LEMMA DropVariantInvariant ==
  ASSUME ItemsInvariant, TypeOK', NEW v \in Variants, DropVariant(v)
  PROVE  ItemsInvariant'
<1>1. /\ variants' = variants \ {v}
      /\ cart' = {i \in cart : i.variant # v}
      /\ UNCHANGED <<pc, edited, todo, done>>
      /\ \A q \in Requests : \A w \in done[q] : w.item.variant # v
  BY DEF DropVariant, locals
<1>2. /\ ItemsDistinct' /\ FreshItems' /\ AggregatesFit'
      /\ IsFiniteSet(cart)' /\ CartFits'
  BY <1>1, FewerItems
<1>3. ItemsHaveVariants' /\ OneWriter'
  BY <1>1 DEF ItemsInvariant, ItemsHaveVariants, OneWriter
<1>4. WritesReachAggregate'
  BY <1>1 DEF ItemsInvariant, WritesReachAggregate, Deletions
<1> QED
  BY <1>2, <1>3, <1>4 DEF ItemsInvariant

\* Every step of every request keeps the invariant.
LEMMA NextInvariant == ItemsInvariant /\ [Next]_vars => ItemsInvariant'
<1> SUFFICES ASSUME ItemsInvariant, [Next]_vars PROVE ItemsInvariant'
  OBVIOUS
<1>1. TypeOK'
  BY NextTypeOK DEF ItemsInvariant
<1>2. CASE UNCHANGED vars
  <2>1. UNCHANGED <<cart, variants, pc, edited, todo, done>>
    BY <1>2 DEF vars, tables, locals
  <2>2. /\ ItemsDistinct' /\ FreshItems' /\ AggregatesFit'
        /\ IsFiniteSet(cart)' /\ CartFits'
    BY <2>1, FewerItems
  <2>3. ItemsHaveVariants' /\ OneWriter' /\ WritesReachAggregate'
    BY <2>1
       DEF ItemsInvariant, ItemsHaveVariants, OneWriter, WritesReachAggregate,
           Deletions
  <2> QED
    BY <1>1, <2>2, <2>3 DEF ItemsInvariant
<1>3. ASSUME NEW r \in Requests, InsertCart(r)
      PROVE ItemsInvariant'
  <2>1. /\ pc[r] = "create"
        /\ UNCHANGED <<cart, variants>>
        /\ pc' = [pc EXCEPT ![r] = "ok"]
        /\ edited' = [edited EXCEPT ![r] = {}]
        /\ todo' = [todo EXCEPT ![r] = {}]
        /\ done' = [done EXCEPT ![r] = {}]
    BY <1>3 DEF InsertCart, End
  <2>2. /\ ItemsDistinct' /\ FreshItems' /\ AggregatesFit'
        /\ IsFiniteSet(cart)' /\ CartFits'
    BY <2>1, FewerItems DEF ItemsInvariant, TypeOK
  <2>3. ItemsHaveVariants' /\ OneWriter' /\ WritesReachAggregate'
    BY <2>1
       DEF ItemsInvariant, TypeOK, ItemsHaveVariants, OneWriter,
           WritesReachAggregate, Deletions
  <2> QED
    BY <1>1, <2>2, <2>3 DEF ItemsInvariant
<1>4. ASSUME NEW r \in Requests, Start(r)
      PROVE ItemsInvariant'
  BY <1>1, <1>4, EditCartInvariant, CreateCartInvariant, FailInvariant
     DEF Start, Refuse
<1>5. ASSUME NEW r \in Requests, Step(r)
      PROVE ItemsInvariant'
  BY <1>1, <1>3, <1>5, LockCartInvariant, CompareItemsInvariant,
     WriteItemInvariant, CommitCartInvariant, FailInvariant
     DEF Step, WriteRefused
<1>6. ASSUME NEW r \in Requests, Abort(r)
      PROVE ItemsInvariant'
  BY <1>6, FailInvariant DEF Abort
<1> QED
  BY <1>1, <1>2, <1>4, <1>5, <1>6, DropVariantInvariant DEF Next, Served

-----------------------------------------------------------------------------
\* What is in the cart, in every reachable state of every instance.
THEOREM ItemsKept == Spec => []ItemsInvariant
BY InitInvariant, NextInvariant, PTL DEF Spec

\* Whatever commands overlap, every variable keeps its type.
THEOREM TypeCorrect == Spec => []TypeOK
<1>1. ItemsInvariant => TypeOK
  BY DEF ItemsInvariant
<1> QED
  BY <1>1, ItemsKept, PTL

\* Without a unique key, and from aggregates however stale,
\* CartRepository.update never leaves two rows of a variant.
THEOREM VariantsUnique == Spec => []OneItemPerVariant
<1>1. ItemsInvariant => OneItemPerVariant
  BY DEF ItemsInvariant, ItemsDistinct, Distinct, OneItemPerVariant
<1> QED
  BY <1>1, ItemsKept, PTL

\* No commit brings an item back whose variant is gone.
THEOREM NoOrphans == Spec => []ItemsHaveVariants
<1>1. ItemsInvariant => ItemsHaveVariants
  BY DEF ItemsInvariant
<1> QED
  BY <1>1, ItemsKept, PTL

\* The cart holds at most a page and one item.
THEOREM CartsFit == Spec => []CartFits
<1>1. ItemsInvariant => CartFits
  BY DEF ItemsInvariant
<1> QED
  BY <1>1, ItemsKept, PTL

-----------------------------------------------------------------------------
\* What the handlers know of other requests survives a step of r that only
\* takes rows away.
LEMMA OthersArrive ==
  ASSUME ItemsInvariant, EditsArrive, NEW q \in Requests,
         pc'[q] = pc[q], cmd'[q] = cmd[q], found'[q] = found[q],
         edited'[q] = edited[q], todo'[q] = todo[q], done'[q] = done[q],
         variants' \subseteq variants,
         pc[q] = "write" => \A i \in cart \ cart' : i.variant \notin variants'
  PROVE  Edits(q)' /\ Arrives(q)'
<1>1. OwnItem(q) /\ Edits(q) /\ Arrives(q)
  BY DEF EditsArrive
<1>2. Edits(q)'
  <2> SUFFICES ASSUME pc[q] \in {"lock", "diff", "write"}
               PROVE  /\ cmd[q] \in Commands /\ cmd[q].kind # "create"
                      /\ ~Refuses(found[q], cmd[q])
                      /\ \E now \in Time : edited[q] = Edit(q, found[q], cmd[q], now)
    BY DEF Edits
  <2> QED BY <1>1 DEF Edits
<1>3. Arrives(q)'
  <2> SUFFICES ASSUME pc[q] = "write" PROVE Arrives(q)'
    BY DEF Arrives
  <2> QED BY <1>1 DEF Arrives, OwnItem, Ended, Deletions, Ids
<1> QED BY <1>2, <1>3

\* Nobody else comes to have the identifier of an item that is yet to be added.
LEMMA OwnItems ==
  ASSUME EditsArrive, NEW r \in Requests,
         \/ Ids(cart') \subseteq Ids(cart)
         \/ Ids(cart') \subseteq Ids(cart) \cup Ids(edited[r]) /\ pc'[r] \in Ended,
         Ids(edited'[r]) \subseteq Ids(edited[r]) \cup Ids(cart) \cup {r},
         pc[r] \in Ended => pc'[r] \in Ended,
         \A q \in Requests \ {r} : pc'[q] = pc[q] /\ edited'[q] = edited[q]
  PROVE  \A q \in Requests : OwnItem(q)'
<1> SUFFICES ASSUME NEW q \in Requests, pc'[q] \notin Ended
             PROVE  /\ q \notin Ids(cart')
                    /\ \A p \in Requests \ {q} : q \notin Ids(edited'[p])
  BY DEF OwnItem, Ids
<1>1. q \notin Ids(cart) /\ \A p \in Requests \ {q} : q \notin Ids(edited[p])
  BY DEF EditsArrive, OwnItem
<1>2. CASE q = r
  BY <1>1, <1>2
<1>3. CASE q # r
  BY <1>1, <1>3
<1> QED BY <1>2, <1>3

\* A handler that ends without a commit, or moves outside its transaction.
LEMMA QuietStep ==
  ASSUME ItemsInvariant, EditsArrive, NEW r \in Requests, UNCHANGED <<variants, cart>>,
         \A q \in Requests \ {r} :
           /\ pc'[q] = pc[q] /\ cmd'[q] = cmd[q] /\ found'[q] = found[q]
           /\ edited'[q] = edited[q] /\ todo'[q] = todo[q] /\ done'[q] = done[q],
         pc[r] \in Ended => pc'[r] \in Ended,
         \/ pc'[r] \notin {"lock", "diff", "write"} /\ edited'[r] \in {{}, edited[r]}
         \/ /\ pc[r] = "lock" /\ pc'[r] = "diff"
            /\ cmd'[r] = cmd[r] /\ found'[r] = found[r] /\ edited'[r] = edited[r]
  PROVE  EditsArrive'
<1>1. \A q \in Requests : OwnItem(q)'
  <2>1. Ids(cart') = Ids(cart) /\ Ids(edited'[r]) \subseteq Ids(edited[r])
    BY DEF Ids
  <2> QED BY <2>1, OwnItems
<1>2. \A q \in Requests \ {r} : Edits(q)' /\ Arrives(q)'
  BY OthersArrive
<1>3. Edits(r)' /\ Arrives(r)'
  <2>1. CASE pc'[r] \notin {"lock", "diff", "write"}
    BY <2>1 DEF Edits, Arrives
  <2>2. CASE /\ pc[r] = "lock" /\ pc'[r] = "diff"
             /\ cmd'[r] = cmd[r] /\ found'[r] = found[r] /\ edited'[r] = edited[r]
    <3>1. Edits(r)
      BY DEF EditsArrive
    <3>2. Arrives(r)'
      BY <2>2 DEF Arrives
    <3>3. Edits(r)'
      <4> SUFFICES /\ cmd[r] \in Commands /\ cmd[r].kind # "create"
                   /\ ~Refuses(found[r], cmd[r])
                   /\ \E now \in Time : edited[r] = Edit(r, found[r], cmd[r], now)
        BY <2>2 DEF Edits
      <4> QED BY <2>2, <3>1 DEF Edits
    <3> QED BY <3>2, <3>3
  <2> QED BY <2>1, <2>2
<1> QED BY <1>1, <1>2, <1>3 DEF EditsArrive

LEMMA FailArrives ==
  ASSUME ItemsInvariant, EditsArrive, NEW r \in Requests, Fail(r)
  PROVE  EditsArrive'
<1>1. /\ UNCHANGED <<variants, cart>> /\ pc'[r] = "failed" /\ edited'[r] = {}
      /\ \A q \in Requests \ {r} :
           /\ pc'[q] = pc[q] /\ cmd'[q] = cmd[q] /\ found'[q] = found[q]
           /\ edited'[q] = edited[q] /\ todo'[q] = todo[q] /\ done'[q] = done[q]
  BY DEF ItemsInvariant, TypeOK, Fail, End, tables
<1> QED BY <1>1, QuietStep DEF Ended

\* Loading and editing.
LEMMA EditCartArrives ==
  ASSUME ItemsInvariant, EditsArrive, NEW r \in Requests, NEW c \in Commands, EditCart(r, c)
  PROVE  EditsArrive'
<1>1. PICK page \in Pages, now \in {clock, clock + 1} \cap Time :
        /\ ~Refuses(ByVariant(page), c)
        /\ found' = [found EXCEPT ![r] = ByVariant(page)]
        /\ edited' = [edited EXCEPT ![r] = Edit(r, ByVariant(page), c, now)]
  BY DEF EditCart
<1> DEFINE items == ByVariant(page)
<1>2. items \subseteq cart /\ items \in SUBSET Item
  BY LoadedItems DEF ItemsInvariant, TypeOK
<1>3. /\ UNCHANGED <<variants, cart>> /\ pc[r] = "idle" /\ pc'[r] = "lock"
      /\ cmd'[r] = c /\ found'[r] = items /\ edited'[r] = Edit(r, items, c, now)
      /\ \A q \in Requests \ {r} :
           /\ pc'[q] = pc[q] /\ cmd'[q] = cmd[q] /\ found'[q] = found[q]
           /\ edited'[q] = edited[q] /\ todo'[q] = todo[q] /\ done'[q] = done[q]
  BY <1>1 DEF ItemsInvariant, TypeOK, EditCart, Begin, tables
<1>4. Ids(edited'[r]) \subseteq Ids(cart) \cup {r}
  <2>1. \A e \in Edit(r, items, c, now) : e.id \in Ids(cart) \cup {r}
    BY <1>2, EditedItems DEF Ids, EditCart
  <2> QED BY <1>3, <2>1 DEF Ids
<1> HIDE DEF items
<1>5. \A q \in Requests : OwnItem(q)'
  BY <1>3, <1>4, OwnItems DEF Ended, Ids
<1>6. \A q \in Requests \ {r} : Edits(q)' /\ Arrives(q)'
  BY <1>3, OthersArrive
<1>7. Edits(r)' /\ Arrives(r)'
  <2>1. Arrives(r)'
    BY <1>3 DEF Arrives
  <2>2. Edits(r)'
    <3> SUFFICES /\ c \in Commands /\ c.kind # "create" /\ ~Refuses(items, c)
                 /\ \E t \in Time : edited'[r] = Edit(r, items, c, t)
      BY <1>3 DEF Edits
    <3> QED BY <1>1, <1>3 DEF EditCart, items
  <2> QED BY <2>1, <2>2
<1> QED BY <1>5, <1>6, <1>7 DEF EditsArrive

\* What update computes brings every item of the aggregate into the table.
LEMMA CompareItemsArrives ==
  ASSUME ItemsInvariant, EditsArrive, NEW r \in Requests, CompareItems(r)
  PROVE  EditsArrive'
<1>1. /\ UNCHANGED <<variants, cart, cmd, found, edited, done>>
      /\ pc[r] = "diff" /\ pc'[r] = "write" /\ todo'[r] = Diff(edited[r])
      /\ \A q \in Requests \ {r} : pc'[q] = pc[q] /\ todo'[q] = todo[q]
  BY DEF CompareItems, tables, ItemsInvariant, TypeOK
<1>2. \A q \in Requests : OwnItem(q)'
  BY <1>1, OwnItems DEF Ended, Ids
<1>3. \A q \in Requests \ {r} : Edits(q)' /\ Arrives(q)'
  BY <1>1, OthersArrive
<1>4. Edits(r)'
  <2>1. Edits(r)
    BY DEF EditsArrive
  <2> SUFFICES /\ cmd[r] \in Commands /\ cmd[r].kind # "create"
               /\ ~Refuses(found[r], cmd[r])
               /\ \E now \in Time : edited[r] = Edit(r, found[r], cmd[r], now)
    BY <1>1 DEF Edits
  <2> QED BY <1>1, <2>1 DEF Edits
<1>5. Arrives(r)'
  <2> DEFINE W == Diff(edited[r])
  <2>1. todo'[r] \cup done'[r] = W
    BY <1>1 DEF ItemsInvariant, WritesReachAggregate
  <2>2. \A w \in Deletions(W) : w.item.id \notin Ids(edited[r])
    BY DEF Deletions, Diff
  <2>3. ASSUME NEW e \in edited[r]
        PROVE  e \in cart \/ e \in Written(W \ Deletions(W))
    <3>1. CASE e.id \notin Ids(cart)
      <4>1. [op |-> "create", item |-> e] \in W \ Deletions(W)
        BY <3>1 DEF Deletions, Diff
      <4> QED BY <4>1 DEF Written
    <3>2. CASE e.id \in Ids(cart) /\ e \notin cart
      <4>1. [op |-> "update", item |-> e] \in W \ Deletions(W)
        BY <3>2 DEF Deletions, Diff
      <4> QED BY <4>1 DEF Written
    <3> QED BY <3>1, <3>2
  <2> HIDE DEF W
  <2> QED BY <1>1, <2>1, <2>2, <2>3 DEF Arrives, Deletions, Written, Ids
<1> QED BY <1>2, <1>3, <1>4, <1>5 DEF EditsArrive

LEMMA WriteItemArrives ==
  ASSUME ItemsInvariant, EditsArrive, NEW r \in Requests, WriteItem(r)
  PROVE  EditsArrive'
<1>1. PICK w \in NextWrites(r) :
        /\ todo' = [todo EXCEPT ![r] = @ \ {w}]
        /\ done' = [done EXCEPT ![r] = @ \cup {w}]
  BY DEF WriteItem
<1>2. /\ UNCHANGED <<variants, cart, pc, cmd, found, edited>> /\ pc[r] = "write"
      /\ \A q \in Requests \ {r} : todo'[q] = todo[q] /\ done'[q] = done[q]
  BY <1>1 DEF WriteItem, tables, ItemsInvariant, TypeOK
<1>3. todo'[r] \cup done'[r] = todo[r] \cup done[r]
  BY <1>1 DEF NextWrites, ItemsInvariant, TypeOK
<1>4. \A q \in Requests : OwnItem(q)'
  BY <1>2, OwnItems DEF Ids
<1>5. \A q \in Requests \ {r} : Edits(q)' /\ Arrives(q)'
  BY <1>2, OthersArrive
<1>6. Edits(r) /\ Arrives(r)
  BY DEF EditsArrive
<1>7. Edits(r)'
  <2> SUFFICES /\ cmd[r] \in Commands /\ cmd[r].kind # "create"
               /\ ~Refuses(found[r], cmd[r])
               /\ \E now \in Time : edited[r] = Edit(r, found[r], cmd[r], now)
    BY <1>2 DEF Edits
  <2> QED BY <1>2, <1>6 DEF Edits
<1>8. Arrives(r)'
  BY <1>2, <1>3, <1>6 DEF Arrives, Deletions, Written, Ids
<1> QED BY <1>4, <1>5, <1>7, <1>8 DEF EditsArrive

\* The transaction that commits is the only one past the lock.
LEMMA CommitCartArrives ==
  ASSUME ItemsInvariant, EditsArrive, NEW r \in Requests, CommitCart(r)
  PROVE  EditsArrive'
<1>1. /\ cart' = View(r) /\ variants' = variants /\ pc[r] = "write" /\ pc'[r] = "ok"
      /\ edited'[r] = {} /\ todo[r] = {}
      /\ \A q \in Requests \ {r} :
           /\ pc'[q] = pc[q] /\ cmd'[q] = cmd[q] /\ found'[q] = found[q]
           /\ edited'[q] = edited[q] /\ todo'[q] = todo[q] /\ done'[q] = done[q]
           /\ pc[q] # "write"
  BY DEF CommitCart, End, ItemsInvariant, TypeOK, OneWriter
<1>2. Ids(cart') \subseteq Ids(cart) \cup Ids(edited[r])
  <2>1. View(r) \subseteq cart \cup edited[r]
    BY <1>1 DEF View, Written, Deletions, ItemsInvariant, WritesReachAggregate
  <2> QED BY <1>1, <2>1 DEF Ids
<1>3. \A q \in Requests : OwnItem(q)'
  BY <1>1, <1>2, OwnItems DEF Ended, Ids
<1>4. \A q \in Requests \ {r} : Edits(q)' /\ Arrives(q)'
  BY <1>1, OthersArrive
<1>5. Edits(r)' /\ Arrives(r)'
  BY <1>1 DEF Edits, Arrives
<1> QED BY <1>3, <1>4, <1>5 DEF EditsArrive

\* Items that go with their variant were in the table, so nobody's own.
LEMMA DropVariantArrives ==
  ASSUME ItemsInvariant, EditsArrive, NEW v \in Variants, DropVariant(v)
  PROVE  EditsArrive'
<1>1. /\ variants' = variants \ {v} /\ cart' = {i \in cart : i.variant # v}
      /\ UNCHANGED <<pc, cmd, found, edited, todo, done>>
  BY DEF DropVariant, locals
<1>2. \A q \in Requests : OwnItem(q)'
  BY <1>1 DEF EditsArrive, OwnItem, Ids
<1>3. \A q \in Requests : Edits(q)' /\ Arrives(q)'
  BY <1>1, OthersArrive
<1> QED BY <1>2, <1>3 DEF EditsArrive

LEMMA NextArrives ==
  ASSUME ItemsInvariant, EditsArrive, [Next]_vars
  PROVE  EditsArrive'
<1>1. CASE UNCHANGED vars
  <2>1. UNCHANGED <<variants, cart, pc, cmd, found, edited, todo, done>>
    BY <1>1 DEF vars, tables, locals
  <2>2. \A q \in Requests : OwnItem(q)'
    BY <2>1 DEF EditsArrive, OwnItem, Ids
  <2> QED BY <2>1, <2>2, OthersArrive DEF EditsArrive
<1>2. ASSUME NEW r \in Requests, NEW c \in Commands, CreateCart(r, c) PROVE EditsArrive'
  <2>1. /\ UNCHANGED <<variants, cart, found, edited, todo, done>>
        /\ pc[r] = "idle" /\ pc'[r] = "create"
        /\ \A q \in Requests \ {r} : pc'[q] = pc[q] /\ cmd'[q] = cmd[q]
    BY <1>2 DEF CreateCart, Begin, tables, ItemsInvariant, TypeOK
  <2> QED BY <2>1, QuietStep DEF Ended
<1>3. ASSUME NEW r \in Requests, InsertCart(r) PROVE EditsArrive'
  <2>1. /\ UNCHANGED <<variants, cart>> /\ pc'[r] = "ok" /\ edited'[r] = {}
        /\ \A q \in Requests \ {r} :
             /\ pc'[q] = pc[q] /\ cmd'[q] = cmd[q] /\ found'[q] = found[q]
             /\ edited'[q] = edited[q] /\ todo'[q] = todo[q] /\ done'[q] = done[q]
    BY <1>3 DEF InsertCart, End, ItemsInvariant, TypeOK
  <2> QED BY <2>1, QuietStep DEF Ended
<1>4. ASSUME NEW r \in Requests, LockCart(r) PROVE EditsArrive'
  <2>1. /\ UNCHANGED <<variants, cart, cmd, found, edited, todo, done>>
        /\ pc[r] = "lock" /\ pc'[r] = "diff"
        /\ \A q \in Requests \ {r} : pc'[q] = pc[q]
    BY <1>4 DEF LockCart, tables, locals, ItemsInvariant, TypeOK
  <2> QED BY <2>1, QuietStep DEF Ended
<1>5. ASSUME NEW r \in Requests, Start(r) PROVE EditsArrive'
  BY <1>2, <1>5, EditCartArrives, FailArrives DEF Start, Refuse
<1>6. ASSUME NEW r \in Requests, Step(r) PROVE EditsArrive'
  BY <1>3, <1>4, <1>6, CompareItemsArrives, WriteItemArrives, CommitCartArrives, FailArrives
     DEF Step, WriteRefused
<1>7. ASSUME NEW r \in Requests, Abort(r) PROVE EditsArrive'
  BY <1>7, FailArrives DEF Abort
<1> QED BY <1>1, <1>5, <1>6, <1>7, DropVariantArrives DEF Next, Served

\* The invariant, in every reachable state of every instance.
THEOREM InductiveInvariant == Spec => []CartInvariant
<1>1. Init => EditsArrive
  <2> SUFFICES ASSUME Init PROVE EditsArrive
    OBVIOUS
  <2>1. \A i \in cart : i.id \in InitItems
    BY DEF Init
  <2>2. \A r \in Requests : pc[r] = "idle" /\ edited[r] = {}
    BY DEF Init
  <2> QED BY <2>1, <2>2, FreshAssumption DEF EditsArrive, OwnItem, Edits, Arrives, Ids
<1>2. ItemsInvariant /\ EditsArrive /\ [Next]_vars => EditsArrive'
  BY NextArrives
<1>3. ItemsInvariant /\ EditsArrive <=> CartInvariant
  BY DEF CartInvariant
<1> QED BY <1>1, <1>2, <1>3, ItemsKept, PTL DEF Spec

\* A commit to the table that the command loaded makes it the edited aggregate.
LEMMA CommitIsEdit ==
  ASSUME CartInvariant, NEW r \in Requests, CommitCart(r), cart = found[r]
  PROVE  /\ cmd[r] \in Commands /\ cmd[r].kind # "create" /\ ~Refuses(cart, cmd[r])
         /\ \E now \in Time : cart' = Edit(r, cart, cmd[r], now)
<1>1. /\ cart' = View(r) /\ pc[r] = "write" /\ todo[r] = {} /\ cart \in SUBSET Item
  BY DEF CommitCart, CartInvariant, ItemsInvariant, TypeOK
<1>2. Edits(r) /\ Arrives(r) /\ OwnItem(r)
  BY DEF CartInvariant, EditsArrive
<1>3. PICK now \in Time : edited[r] = Edit(r, cart, cmd[r], now)
  BY <1>1, <1>2 DEF Edits
<1>4. cmd[r] \in Commands /\ cmd[r].kind # "create" /\ ~Refuses(cart, cmd[r])
  BY <1>1, <1>2 DEF Edits
<1>5. \A e \in edited[r] :
        \/ \E i \in cart : e.id = i.id /\ e.variant = i.variant
        \/ e.id = r
  BY <1>1, <1>3, <1>4, EditedItems
<1>6. /\ Distinct(cart) /\ Distinct(edited[r])
      /\ \A i \in cart, e \in edited[r] : i.id = e.id => i.variant = e.variant
      /\ \A i \in cart : i.variant \in variants
  BY DEF CartInvariant, ItemsInvariant, ItemsDistinct, AllItems, ItemsHaveVariants
<1>7. todo[r] \cup done[r] = done[r]
  BY <1>1
<1> DEFINE made == Written(done[r] \ Deletions(done[r]))
<1>8. /\ \A w \in Deletions(done[r]) : w.item.id \notin Ids(edited[r])
      /\ \A e \in edited[r] : e \in cart \/ e \in made
           \/ (e.variant \notin variants /\ e.id # r)
  BY <1>1, <1>2, <1>7 DEF Arrives
<1>9. /\ made \subseteq edited[r]
      /\ \A i \in cart : i.id \notin Ids(Written(Deletions(done[r]))) => i.id \in Ids(edited[r])
  BY <1>1, <1>7 DEF CartInvariant, ItemsInvariant, WritesReachAggregate, Written
<1>10. View(r) = {i \in cart : i.id \notin Ids(Written(done[r]))} \cup made
  BY DEF View, Deletions
<1>11. ASSUME NEW e \in edited[r] PROVE e \in cart \/ e \in made
  BY <1>5, <1>6, <1>8
<1>12. ASSUME NEW e \in edited[r], e \notin made PROVE e.id \notin Ids(Written(done[r]))
  <2> SUFFICES ASSUME NEW w \in done[r], w.item.id = e.id PROVE FALSE
    BY DEF Ids, Written
  <2>1. CASE w \in Deletions(done[r])
    BY <1>8, <2>1 DEF Ids
  <2>2. CASE w \notin Deletions(done[r])
    <3>1. w.item \in made
      BY <2>2 DEF Written
    <3> QED BY <1>6, <1>9, <1>12, <3>1 DEF Distinct
  <2> QED BY <2>1, <2>2
<1>13. edited[r] \subseteq View(r)
  BY <1>10, <1>11, <1>12
<1>14. ASSUME NEW i \in cart, i.id \notin Ids(Written(done[r])) PROVE i \in edited[r]
  <2>1. i.id \notin Ids(Written(Deletions(done[r]))) /\ i.id \notin Ids(made)
    BY <1>14 DEF Ids, Written, Deletions
  <2>2. PICK e \in edited[r] : e.id = i.id
    BY <1>9, <2>1 DEF Ids
  <2>3. e \in cart
    BY <1>11, <2>1, <2>2 DEF Ids
  <2> QED BY <1>6, <2>2, <2>3 DEF Distinct
<1>15. View(r) = edited[r]
  BY <1>9, <1>10, <1>13, <1>14
<1> QED BY <1>1, <1>3, <1>4, <1>15

\* The edit of each kind, row by row.
LEMMA EditDoes ==
  ASSUME CartInvariant, NEW r \in Requests, cmd[r] \in Commands, cmd[r].kind # "create",
         ~Refuses(cart, cmd[r]), NEW now \in Time, cart' = Edit(r, cart, cmd[r], now)
  PROVE  /\ \A i \in cart \cup cart' :
              i.variant \notin Named(cmd[r]) => i \in cart /\ i \in cart'
         /\ \A v \in Named(cmd[r]) :
              {i.qty : i \in {j \in cart' : j.variant = v}}
                = CASE cmd[r].kind = "add" -> {1}
                    [] cmd[r].kind = "setQty" -> {cmd[r].qty}
                    [] cmd[r].kind = "remove" -> {}
<1> DEFINE c == cmd[r]
           new == cart'
<1>0. c \in Commands /\ ~Refuses(cart, c) /\ new = Edit(r, cart, c, now) /\ c.kind # "create"
  OBVIOUS
<1> HIDE DEF c, new
<1>1. cart \in SUBSET Item /\ Distinct(cart)
  BY DEF CartInvariant, ItemsInvariant, ItemsDistinct, TypeOK
<1>2. CASE c.kind = "add"
  <2> DEFINE it == [id |-> r, variant |-> c.variant, qty |-> 1, updatedAt |-> now]
  <2>1. new = cart \cup {it} /\ Named(c) = {c.variant}
    BY <1>0, <1>2 DEF Edit, Named
  <2>2. \A i \in cart : i.variant # c.variant
    BY <1>0, <1>2 DEF Refuses, Named
  <2>3. it.variant = c.variant /\ it.qty = 1
    OBVIOUS
  <2> HIDE DEF it
  <2>4. {j \in new : j.variant = c.variant} = {it}
    BY <2>1, <2>2, <2>3
  <2>5. {i.qty : i \in {it}} = {1}
    BY <2>3
  <2> QED BY <1>2, <2>1, <2>3, <2>4, <2>5 DEF c, new
<1>3. CASE c.kind = "setQty"
  <2> DEFINE Set(i) == IF i.variant = c.variant THEN [i EXCEPT !.qty = c.qty] ELSE i
  <2>1. new = {Set(i) : i \in cart} /\ Named(c) = {c.variant}
    BY <1>0, <1>3 DEF Edit, Named
  <2>2. PICK i \in cart : i.variant = c.variant
    BY <1>0, <1>3 DEF Refuses, Named
  <2>3. \A j \in cart :
          /\ Set(j).variant = j.variant
          /\ j.variant = c.variant => Set(j).qty = c.qty
          /\ j.variant # c.variant => Set(j) = j
    BY <1>1 DEF Item
  <2> HIDE DEF Set
  <2>4. {k.qty : k \in {j \in new : j.variant = c.variant}} = {c.qty}
    BY <2>1, <2>2, <2>3
  <2>5. \A j \in cart \cup new : j.variant # c.variant => j \in cart /\ j \in new
    BY <2>1, <2>3
  <2> QED BY <1>3, <2>1, <2>4, <2>5 DEF c, new
<1>4. CASE c.kind = "remove"
  <2>1. new = {i \in cart : i.variant \notin c.variants} /\ Named(c) = c.variants
    BY <1>0, <1>4 DEF Edit, Named
  <2> QED BY <1>4, <2>1 DEF c, new
<1> QED BY <1>0, <1>2, <1>3, <1>4, CommandFields

\* A command on items ends well only by the commit of its transaction.
LEMMA Committing ==
  ASSUME TypeOK, NEW r \in Requests, [Next]_vars, Commits(r)
  PROVE  CommitCart(r)
<1>1. pc[r] = "write" /\ pc'[r] = "ok" /\ pc' # pc
      /\ pc \in [Requests -> Working \cup Ended \cup {"idle"}]
  BY DEF Commits, TypeOK
<1>2. ASSUME NEW q \in Requests, NEW place, pc' = [pc EXCEPT ![q] = place]
      PROVE  q = r /\ place = "ok"
  BY <1>1, <1>2
<1>3. ASSUME NEW q \in Requests, Fail(q) PROVE FALSE
  <2>1. pc' = [pc EXCEPT ![q] = "failed"]
    BY <1>3 DEF Fail, End
  <2>2. pc'[r] \in {"failed", "write"}
    BY <1>1, <2>1
  <2> QED BY <1>1, <2>2
<1>4. ASSUME NEW q \in Requests, Start(q) PROVE FALSE
  <2>1. Fail(q) \/ \E place : pc' = [pc EXCEPT ![q] = place] /\ place # "ok"
    BY <1>4 DEF Start, EditCart, Refuse, CreateCart
  <2> QED BY <1>2, <1>3, <2>1
<1>5. ASSUME NEW q \in Requests, Step(q) PROVE CommitCart(r)
  <2>1. CASE LockCart(q) \/ CompareItems(q) \/ WriteItem(q) \/ WriteRefused(q)
    BY <1>1, <1>2, <1>3, <2>1 DEF LockCart, CompareItems, WriteItem, WriteRefused
  <2>2. CASE CommitCart(q)
    BY <1>2, <2>2 DEF CommitCart, End
  <2>3. CASE InsertCart(q)
    BY <1>1, <1>2, <2>3 DEF InsertCart, End
  <2> QED BY <1>5, <2>1, <2>2, <2>3 DEF Step
<1> QED BY <1>1, <1>3, <1>4, <1>5 DEF Next, Abort, DropVariant, Served, vars, locals

\* A command that commits to the table it loaded changes the rows of the variants it
\* names as asked, and no others.
THEOREM UncontestedEditsAlways == Spec => UncontestedEdits
<1>1. ASSUME CartInvariant, [Next]_vars, NEW r \in Requests, Commits(r), cart = found[r]
      PROVE  /\ \A i \in cart \cup cart' :
                  i.variant \notin Named(cmd[r]) => i \in cart /\ i \in cart'
             /\ \A v \in Named(cmd[r]) :
                  {i.qty : i \in {j \in cart' : j.variant = v}}
                    = CASE cmd[r].kind = "add" -> {1}
                        [] cmd[r].kind = "setQty" -> {cmd[r].qty}
                        [] cmd[r].kind = "remove" -> {}
  <2>1. CommitCart(r)
    BY <1>1, Committing DEF CartInvariant, ItemsInvariant
  <2>2. /\ cmd[r] \in Commands /\ cmd[r].kind # "create" /\ ~Refuses(cart, cmd[r])
        /\ \E now \in Time : cart' = Edit(r, cart, cmd[r], now)
    BY <1>1, <2>1, CommitIsEdit
  <2> QED BY <1>1, <2>2, EditDoes
<1>2. CartInvariant /\ [Next]_vars =>
        [\A r \in Requests : Commits(r) /\ cart = found[r] =>
           /\ \A i \in cart \cup cart' :
                i.variant \notin Named(cmd[r]) => i \in cart /\ i \in cart'
           /\ \A v \in Named(cmd[r]) :
                {i.qty : i \in {j \in cart' : j.variant = v}}
                  = CASE cmd[r].kind = "add" -> {1}
                      [] cmd[r].kind = "setQty" -> {cmd[r].qty}
                      [] cmd[r].kind = "remove" -> {}]_vars
  BY <1>1
<1> QED BY <1>2, InductiveInvariant, PTL DEF Spec, UncontestedEdits

-----------------------------------------------------------------------------
\* What a commit leaves: the saved aggregate less the items whose variant is gone.
LEMMA CommitIsWhole ==
  ASSUME CartInvariant, NEW r \in Requests, CommitCart(r)
  PROVE  cart' = {e \in edited[r] : e.variant \in variants}
<1> DEFINE gone == Written(Deletions(done[r]))
           made == Written(done[r] \ Deletions(done[r]))
<1>1. /\ cart' = View(r) /\ pc[r] = "write" /\ todo[r] \cup done[r] = done[r]
  BY DEF CommitCart
<1>2. /\ \A i \in cart : i.id \in Ids(edited[r]) \cup Ids(gone)
      /\ \A e \in made : e \in edited[r] /\ e.variant \in variants
  BY <1>1 DEF CartInvariant, ItemsInvariant, WritesReachAggregate, Written
<1>3. /\ Ids(gone) \cap Ids(edited[r]) = {}
      /\ \A e \in edited[r] : e \in cart \/ e \in made \/ e.variant \notin variants
  <2>1. Arrives(r)
    BY DEF CartInvariant, EditsArrive
  <2> QED BY <1>1, <2>1 DEF Arrives, Written, Ids
<1>4. /\ \A i, j \in cart : i.id = j.id => i = j
      /\ \A i, j \in edited[r] : i.id = j.id => i = j
      /\ \A i \in cart, e \in edited[r] : i.id = e.id => i.variant = e.variant
      /\ \A i \in cart : i.variant \in variants
  BY DEF CartInvariant, ItemsInvariant, ItemsDistinct, Distinct, AllItems,
    ItemsHaveVariants
<1>5. /\ Ids(Written(done[r])) = Ids(gone) \cup Ids(made)
      /\ View(r) = {i \in cart : i.id \notin Ids(Written(done[r]))} \cup made
  BY DEF View, Written, Deletions, Ids
<1> HIDE DEF gone, made
<1>6. ASSUME NEW i \in cart, i.id \notin Ids(gone), i.id \notin Ids(made)
      PROVE  i \in edited[r]
  <2>1. PICK e \in edited[r] : e.id = i.id
    BY <1>2, <1>6 DEF Ids
  <2>2. e \notin made /\ e.variant \in variants
    BY <1>4, <1>6, <2>1 DEF Ids
  <2> QED BY <1>3, <1>4, <2>1, <2>2
<1>7. ASSUME NEW e \in edited[r], e.variant \in variants PROVE e \in View(r)
  <2>1. e \in made \/ e \in cart
    BY <1>3, <1>7
  <2>2. e.id \in Ids(made) => e \in made
    BY <1>2, <1>4 DEF Ids
  <2>3. e.id \notin Ids(gone)
    BY <1>3 DEF Ids
  <2> QED BY <1>5, <2>1, <2>2, <2>3
<1>8. ASSUME NEW i \in View(r) PROVE i \in edited[r] /\ i.variant \in variants
  BY <1>2, <1>4, <1>5, <1>6
<1> QED BY <1>1, <1>7, <1>8

\* For all requests, however stale their aggregates and whatever variants go
\* meanwhile: the last save wins as a whole.
THEOREM SavesAreWholeAlways == Spec => SavesAreWhole
<1>1. ASSUME CartInvariant, [Next]_vars, NEW r \in Requests, Commits(r)
      PROVE  cart' = {e \in edited[r] : e.variant \in variants}
  <2>1. CommitCart(r)
    BY <1>1, Committing DEF CartInvariant, ItemsInvariant
  <2> QED BY <1>1, <2>1, CommitIsWhole
<1>2. CartInvariant /\ [Next]_vars =>
        [\A r \in Requests : Commits(r) =>
           cart' = {e \in edited[r] : e.variant \in variants}]_vars
  BY <1>1
<1> QED BY <1>2, InductiveInvariant, PTL DEF Spec, SavesAreWhole
=============================================================================
