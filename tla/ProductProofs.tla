--------------------------- MODULE ProductProofs ---------------------------
(***************************************************************************)
(* Products, for every set of requests, variants, categories and commands, *)
(* however they overlap with each other, with failures, with customers who *)
(* fill carts and order, and with categories that are deleted.             *)
(***************************************************************************)
EXTENDS ProductInv, ProductQueries, FiniteSetTheorems, TLAPS

\* The types of what requests have in memory.
LocalsTyped ==
  /\ pc \in [Requests -> Working \cup Ended \cup {"idle"}]
  /\ cmd \in [Requests -> Command \cup {None}]
  /\ agg \in [Requests -> Aggregate \cup {None}]
  /\ existing \in [Requests -> SUBSET Variant]
  /\ draft \in [Requests -> Aggregate \cup {None}]
  /\ contested \in [Requests -> BOOLEAN]

\* The types of the tables.
TablesTyped ==
  /\ product \in ProductRow \cup {Unborn, None}
  /\ variants \in VariantTable
  /\ categories \in SUBSET Categories
  /\ carts \in SUBSET Variant
  /\ held \in SUBSET Variant

\* LockedRowsStand of one request.
Stands(r) ==
  /\ pc[r] = "write" => draft[r].vars = variants
  /\ pc[r] \in {"write", "commit"} =>
       /\ product \in ProductRow
       /\ \A v \in Live(variants) \ Live(draft[r].vars) : v \notin held

\* Only r's handler moves.
Alone(r) ==
  \A q \in Requests \ {r} :
    /\ pc'[q] = pc[q] /\ cmd'[q] = cmd[q] /\ agg'[q] = agg[q]
    /\ existing'[q] = existing[q] /\ draft'[q] = draft[q]

LEMMA TypeParts == TypeOK <=> LocalsTyped /\ TablesTyped
BY DEF TypeOK, LocalsTyped, TablesTyped

\* What a command of each kind holds.
LEMMA CommandFacts ==
  ASSUME NEW c \in Commands
  PROVE  /\ c \in Command
         /\ c.kind \in {"create", "update"} =>
              c.brand \in Brands \cup {None}
         /\ c.kind = "create" => c.n \in 0 .. MaxNew /\ c.cats \in SUBSET Categories
         /\ c.kind = "update" =>
              /\ c.n \in (0 .. MaxNew) \cup {None}
              /\ c.cats \in (SUBSET Categories) \cup {None}
         /\ c.kind \in OnVariant => c.variant \in Variant
BY CommandAssumption DEF Command, CreateInput, UpdateInput, VariantInputs, OnVariant

\* A list of n new variants, and who they are.
LEMMA NewVariantsFacts ==
  ASSUME NEW r \in Requests, NEW n \in 0 .. MaxNew
  PROVE  /\ NewVariants(r, n) \in VariantTable
         /\ Live(NewVariants(r, n)) = {r} \X (1 .. n)
         /\ {r} \X (1 .. n) \subseteq Names(r)
         /\ Names(r) \subseteq Variant
<1>1. MaxNew \in Nat
  BY BoundAssumption
<1>2. {r} \X (1 .. n) \subseteq Names(r) /\ Names(r) \subseteq Variant
  BY <1>1 DEF Names, Variant
<1>3. [archived |-> FALSE] \in VariantRow
  BY DEF VariantRow
<1>4. [archived |-> FALSE] # None
  BY <1>3, FreshAssumption
<1> QED BY <1>2, <1>3, <1>4 DEF NewVariants, VariantTable, Live

\* The parts of an aggregate.
LEMMA AggregateFacts ==
  ASSUME NEW a \in Aggregate
  PROVE  /\ a.row \in ProductRow /\ a.vars \in VariantTable
         /\ a.row.archived \in BOOLEAN /\ a.row.brand \in Brands \cup {None}
         /\ a.row.cats \in SUBSET Categories
         /\ Live(a.vars) \subseteq Variant
         /\ a = [row |-> a.row, vars |-> a.vars]
BY DEF Aggregate, ProductRow, Live

\* An edit of an aggregate is an aggregate, and has no variants but those it had
\* and those the request names.
LEMMA EditFacts ==
  ASSUME NEW r \in Requests, NEW a \in Aggregate, cmd[r] \in Commands,
         cmd[r].kind \in Whole \cup OnVariant, ~Refused(r, a)
  PROVE  /\ Edit(r, a) \in Aggregate
         /\ Live(Edit(r, a).vars) \subseteq Live(a.vars) \cup Names(r)
<1> DEFINE c == cmd[r]
<1>1. /\ a.row \in ProductRow /\ a.vars \in VariantTable
      /\ a = [row |-> a.row, vars |-> a.vars]
  BY AggregateFacts
<1>2. CASE c.kind = "update"
  <2> DEFINE row == [a.row EXCEPT !.brand = IF c.brand = None THEN @ ELSE c.brand,
                                  !.cats = IF c.cats = None THEN @ ELSE c.cats]
             new == IF c.n = None THEN a.vars ELSE NewVariants(r, c.n)
  <2>1. Edit(r, a) = [row |-> row, vars |-> new]
    BY <1>2 DEF Edit, Updated
  <2>2. row \in ProductRow
    BY <1>1, <1>2, CommandFacts DEF ProductRow
  <2>3. new \in VariantTable /\ Live(new) \subseteq Live(a.vars) \cup Names(r)
    BY <1>1, <1>2, CommandFacts, NewVariantsFacts
  <2> HIDE DEF row, new
  <2> QED BY <2>1, <2>2, <2>3 DEF Aggregate
<1>3. CASE c.kind \in {"softDelete", "restore"}
  <2>1. Edit(r, a) = [a EXCEPT !.row.archived = (c.kind = "softDelete")]
    BY <1>3 DEF Edit, SoftDeleted, Restored
  <2>2. [a.row EXCEPT !.archived = (c.kind = "softDelete")] \in ProductRow
    BY <1>1 DEF ProductRow
  <2> QED BY <1>1, <2>1, <2>2 DEF Aggregate
<1>4. CASE c.kind \in OnVariant
  <2>1. c.variant \in Variant /\ a.vars[c.variant] # None
    BY <1>4, CommandFacts
       DEF Refused, ArchiveRefused, VariantRestoreRefused, VariantMissing, OnVariant
  <2>2. \E value \in VariantRow \cup {None} :
          Edit(r, a) = [a EXCEPT !.vars[c.variant] = value]
    BY <1>4 DEF Edit, VariantArchived, VariantRestored, VariantRemoved, Shelved, Unshelved,
                VariantRow, OnVariant
  <2>3. PICK value \in VariantRow \cup {None} :
          Edit(r, a) = [a EXCEPT !.vars[c.variant] = value]
    BY <2>2
  <2>4. [a.vars EXCEPT ![c.variant] = value] \in VariantTable
    BY <1>1, <2>1 DEF VariantTable
  <2>5. Live([a.vars EXCEPT ![c.variant] = value]) \subseteq Live(a.vars)
    BY <1>1, <2>1 DEF VariantTable, Live
  <2> QED BY <1>1, <2>3, <2>4, <2>5 DEF Aggregate
<1> QED BY <1>2, <1>3, <1>4 DEF Whole

-----------------------------------------------------------------------------
\* What another handler knows stays true when nothing is committed, and when
\* something is, it has been overtaken.
LEMMA Others ==
  ASSUME ProductInvariant, NEW q \in Requests,
         pc'[q] = pc[q], cmd'[q] = cmd[q], agg'[q] = agg[q], existing'[q] = existing[q],
         draft'[q] = draft[q], UNCHANGED categories,
         pc[q] = "insert" => product' = Unborn,
         product # Unborn => product' # Unborn,
         \/ contested'[q]
         \/ pc[q] \notin Working
         \/ UNCHANGED <<product, variants>> /\ contested'[q] = contested[q]
  PROVE  Handler(q)' /\ Current(q)'
<1>1. Handler(q) /\ Current(q)
  BY DEF ProductInvariant, HandlerState, UncontestedIsCurrent
<1>2. Handler(q)'
  BY <1>1 DEF Handler, Created, NewVariants
<1>3. Current(q)'
  <2> SUFFICES ASSUME ~contested'[q], pc[q] \in Loading PROVE Current(q)'
    BY DEF Current
  <2>1. UNCHANGED <<product, variants, categories>> /\ ~contested[q]
    BY DEF Loading, Working
  <2>2. \A cats : Standing(cats)' = Standing(cats)
    BY <2>1 DEF Standing
  <2>3. ASSUME NEW a PROVE (Refused(q, a)' <=> Refused(q, a)) /\ Edit(q, a)' = Edit(q, a)
    BY DEF Refused, Edit
  <2>4. Live(variants)' = Live(variants)
    BY <2>1 DEF Live
  <2>5. ASSUME pc[q] \in Edited
        PROVE  \E cats \in SUBSET Categories :
                 /\ cats \cap categories' = product'.cats
                 /\ ~Refused(q, Standing(cats))' /\ agg'[q] = Edit(q, Standing(cats))'
    <3>1. PICK cats \in SUBSET Categories :
            /\ cats \cap categories = product.cats
            /\ ~Refused(q, Standing(cats)) /\ agg[q] = Edit(q, Standing(cats))
      BY <1>1, <2>1, <2>5 DEF Current
    <3> WITNESS cats \in SUBSET Categories
    <3>2. Refused(q, Standing(cats))' <=> Refused(q, Standing(cats))
      BY <2>2 DEF Refused
    <3>3. Edit(q, Standing(cats))' = Edit(q, Standing(cats))
      BY <2>2 DEF Edit
    <3> QED BY <2>1, <3>1, <3>2, <3>3
  <2> QED BY <1>1, <2>1, <2>4, <2>5 DEF Current
<1> QED BY <1>2, <1>3

\* Who has whose variants after a step of r.
LEMMA FreshKept ==
  ASSUME ProductInvariant, NEW r \in Requests, Alone(r),
         Live(variants)' \subseteq Live(variants) \cup InHand(r),
         InHand(r)' \subseteq InHand(r) \cup Live(variants) \cup Names(r),
         pc'[r] \in Ended \/ (pc[r] \notin Ended /\ UNCHANGED variants)
  PROVE  NothingFromTheFuture'
<1> SUFFICES ASSUME NEW p \in Requests, pc'[p] \notin Ended
             PROVE  /\ Live(variants)' \cap Names(p) = {}
                    /\ \A q \in Requests \ {p} : InHand(q)' \cap Names(p) = {}
  BY DEF NothingFromTheFuture, Fresh, Names
<1>1. \A q \in Requests \ {r} : InHand(q)' = InHand(q) /\ pc'[q] = pc[q]
  BY DEF Alone, InHand, Live
<1>2. pc[p] \notin Ended
  BY <1>1
<1>3. /\ Live(variants) \cap Names(p) = {}
      /\ \A q \in Requests \ {p} : InHand(q) \cap Names(p) = {}
  BY <1>2 DEF ProductInvariant, NothingFromTheFuture, Fresh
<1>4. CASE p = r
  <2>1. Live(variants)' = Live(variants)
    BY <1>4 DEF Live
  <2> QED BY <1>1, <1>3, <1>4, <2>1
<1>5. CASE p # r
  <2>1. Names(r) \cap Names(p) = {}
    BY <1>5 DEF Names
  <2> QED BY <1>1, <1>3, <1>5, <2>1
<1> QED BY <1>4, <1>5

\* A step of r in its memory alone.
LEMMA MemoryStep ==
  ASSUME ProductInvariant, NEW r \in Requests, pc[r] \notin Ended, Alone(r),
         UNCHANGED tables, LocalsTyped', Handler(r)', Current(r)', Stands(r)',
         \A q \in Requests \ {r} : contested'[q] = contested[q],
         InHand(r)' \subseteq InHand(r) \cup Live(variants) \cup Names(r),
         pc'[r] \in {"write", "commit"} => pc[r] \in {"write", "commit"} \/ ~Locked(r),
         pc'[r] = "insert" => \A q \in Requests : pc[q] # "insert"
  PROVE  ProductInvariant'
<1> USE DEF tables
<1>1. TypeOK'
  <2>1. TablesTyped
    BY TypeParts DEF ProductInvariant
  <2>2. TablesTyped'
    BY <2>1 DEF TablesTyped
  <2> QED BY <2>2 DEF TypeOK, LocalsTyped, TablesTyped
<1>2. ReferencesHold' /\ CategoriesExist'
  BY DEF ProductInvariant, ReferencesHold, CategoriesExist, Live
<1>3. LockedRowsStand'
  <2>1. \A q \in Requests \ {r} : Stands(q)'
    BY DEF ProductInvariant, LockedRowsStand, Alone, Live, Stands
  <2> QED BY <2>1 DEF LockedRowsStand, Stands
<1>4. OneAtATime'
  <2>1. OneAtATime
    BY DEF ProductInvariant
  <2>2. ~Locked(r) => \A q \in Requests \ {r} : pc[q] \notin {"write", "commit"}
    BY DEF Locked
  <2> QED BY <2>1, <2>2 DEF OneAtATime, Alone
<1>5. NothingFromTheFuture'
  BY FreshKept DEF Live
<1>6. \A q \in Requests \ {r} : Handler(q)' /\ Current(q)'
  <2> SUFFICES ASSUME NEW q \in Requests \ {r} PROVE Handler(q)' /\ Current(q)'
    OBVIOUS
  <2>1. pc[q] = "insert" => product = Unborn
    BY DEF ProductInvariant, HandlerState, Handler
  <2> QED BY <2>1, Others DEF Alone
<1> QED BY <1>1, <1>2, <1>3, <1>4, <1>5, <1>6
        DEF ProductInvariant, HandlerState, UncontestedIsCurrent

\* What a request that leaves takes with it.
LEMMA LeaveFacts ==
  ASSUME ProductInvariant, NEW r \in Requests, NEW o \in Ended, NEW b \in BOOLEAN,
         Leave(r, o, b)
  PROVE  /\ LocalsTyped' /\ Alone(r) /\ pc'[r] = o /\ InHand(r)' = {}
         /\ Handler(r)' /\ Current(r)' /\ Stands(r)'
         /\ b = FALSE => \A q \in Requests \ {r} : contested'[q] = contested[q]
         /\ b = TRUE => \A q \in Requests \ {r} : contested'[q] \/ pc[q] \notin Working
<1>1. TypeOK
  BY DEF ProductInvariant
<1>2. /\ pc' = [pc EXCEPT ![r] = o] /\ cmd' = [cmd EXCEPT ![r] = None]
      /\ agg' = [agg EXCEPT ![r] = None] /\ existing' = [existing EXCEPT ![r] = {}]
      /\ draft' = [draft EXCEPT ![r] = None]
      /\ contested' = [q \in Requests |->
                         q # r /\ (contested[q] \/ (b /\ pc[q] \in Working))]
  BY DEF Leave
<1>3. pc' \in [Requests -> Working \cup Ended \cup {"idle"}] /\ pc'[r] = o
  BY <1>1, <1>2 DEF TypeOK
<1>4. /\ cmd' \in [Requests -> Command \cup {None}]
      /\ agg' \in [Requests -> Aggregate \cup {None}] /\ agg'[r] = None
      /\ existing' \in [Requests -> SUBSET Variant]
      /\ draft' \in [Requests -> Aggregate \cup {None}] /\ draft'[r] = None
  BY <1>1, <1>2 DEF TypeOK
<1>5. contested' \in [Requests -> BOOLEAN]
  BY <1>2
<1>6. Alone(r)
  BY <1>1, <1>2 DEF Alone, TypeOK
<1>7. InHand(r)' = {}
  BY <1>4, FreshAssumption DEF InHand
<1>8. Handler(r)' /\ Current(r)' /\ Stands(r)'
  BY <1>3 DEF Handler, Current, Stands, Working, Loading, Edited, Ended
<1>9. b = FALSE => \A q \in Requests \ {r} : contested'[q] = contested[q]
  BY <1>1, <1>2 DEF TypeOK
<1>10. b = TRUE => \A q \in Requests \ {r} : contested'[q] \/ pc[q] \notin Working
  BY <1>2
<1> QED BY <1>3, <1>4, <1>5, <1>6, <1>7, <1>8, <1>9, <1>10 DEF LocalsTyped

LEMMA FailStep ==
  ASSUME ProductInvariant, NEW r \in Requests, pc[r] \notin Ended, Fail(r)
  PROVE  ProductInvariant'
<1>1. Leave(r, "failed", FALSE) /\ UNCHANGED tables
  BY DEF Fail
<1>2. /\ LocalsTyped' /\ Alone(r) /\ pc'[r] = "failed" /\ InHand(r)' = {}
      /\ Handler(r)' /\ Current(r)' /\ Stands(r)'
      /\ \A q \in Requests \ {r} : contested'[q] = contested[q]
  BY <1>1, LeaveFacts DEF Ended
<1> QED BY <1>1, <1>2, MemoryStep

-----------------------------------------------------------------------------
\* A commit of r overtakes whoever is working, and nobody else has the lock or
\* creates the product.
LEMMA CommitStep ==
  ASSUME ProductInvariant, NEW r \in Requests, NEW row \in ProductRow \cup {None},
         NEW new \in VariantTable, Commit(r, row, new), pc[r] \in Working,
         row \in ProductRow => row.cats \subseteq categories,
         row \notin ProductRow => Live(new) = {},
         held \subseteq Live(new), Live(new) \subseteq Live(variants) \cup InHand(r),
         \A q \in Requests \ {r} : pc[q] \notin {"insert", "write", "commit"}
  PROVE  ProductInvariant'
<1>1. /\ product' = row /\ variants' = new /\ carts' = carts \cap Live(new)
      /\ UNCHANGED <<categories, held>> /\ Leave(r, "ok", TRUE) /\ TypeOK
  BY DEF Commit, ProductInvariant
<1>2. /\ LocalsTyped' /\ Alone(r) /\ pc'[r] = "ok" /\ InHand(r)' = {}
      /\ Handler(r)' /\ Current(r)' /\ Stands(r)'
      /\ \A q \in Requests \ {r} : contested'[q] \/ pc[q] \notin Working
  BY <1>1, LeaveFacts DEF Ended
<1>3. Live(variants)' = Live(new)
  BY <1>1 DEF Live
<1>4. TypeOK'
  <2>1. TablesTyped'
    BY <1>1 DEF TypeOK, TablesTyped
  <2> QED BY <1>2, <2>1 DEF TypeOK, LocalsTyped, TablesTyped
<1>5. ReferencesHold' /\ CategoriesExist'
  BY <1>1, <1>3 DEF ReferencesHold, CategoriesExist
<1>6. LockedRowsStand'
  <2>1. \A q \in Requests \ {r} : Stands(q)'
    BY <1>2 DEF Stands, Alone
  <2> QED BY <1>2, <2>1 DEF LockedRowsStand, Stands
<1>7. OneAtATime'
  BY <1>2 DEF OneAtATime, Alone
<1>8. NothingFromTheFuture'
  BY <1>2, <1>3, FreshKept DEF Ended
<1>9. row # Unborn
  BY FreshAssumption
<1>10. \A q \in Requests \ {r} : Handler(q)' /\ Current(q)'
  BY <1>1, <1>2, <1>9, Others DEF Alone
<1> QED BY <1>2, <1>4, <1>5, <1>6, <1>7, <1>8, <1>10
        DEF ProductInvariant, HandlerState, UncontestedIsCurrent

\* Who is where when r is.
LEMMA Places ==
  ASSUME ProductInvariant, NEW r \in Requests
  PROVE  /\ pc[r] = "insert" =>
              \A q \in Requests \ {r} : pc[q] \notin {"insert", "write", "commit"}
         /\ pc[r] \in {"write", "commit"} =>
              \A q \in Requests \ {r} : pc[q] \notin {"insert", "write", "commit"}
         /\ pc[r] = "delete" /\ ~Locked(r) =>
              \A q \in Requests \ {r} : pc[q] \notin {"insert", "write", "commit"}
<1>1. ASSUME NEW q \in Requests, pc[q] = "insert" PROVE product = Unborn
  BY <1>1 DEF ProductInvariant, HandlerState, Handler
<1>2. ASSUME NEW q \in Requests, pc[q] \in {"write", "commit", "delete"}
      PROVE  product # Unborn
  BY <1>2 DEF ProductInvariant, HandlerState, Handler, Loading
<1>3. OneAtATime
  BY DEF ProductInvariant
<1> QED BY <1>1, <1>2, <1>3 DEF OneAtATime, Locked

LEMMA NobodyHeld ==
  ASSUME ProductInvariant
  PROVE  /\ held \subseteq Live(variants) /\ carts \subseteq Live(variants)
         /\ product \notin ProductRow => Live(variants) = {}
BY DEF ProductInvariant, ReferencesHold

\* The creation makes a product of its own variants.
LEMMA CreatedFacts ==
  ASSUME NEW r \in Requests, NEW c \in Commands, c.kind = "create"
  PROVE  /\ Created(r, c) \in Aggregate
         /\ Live(Created(r, c).vars) = {r} \X (1 .. c.n)
         /\ Live(Created(r, c).vars) \subseteq Names(r)
<1>1. c.n \in 0 .. MaxNew /\ c.brand \in Brands \cup {None} /\ c.cats \in SUBSET Categories
  BY CommandFacts
<1>2. /\ NewVariants(r, c.n) \in VariantTable
      /\ Live(NewVariants(r, c.n)) = {r} \X (1 .. c.n)
      /\ {r} \X (1 .. c.n) \subseteq Names(r)
  BY <1>1, NewVariantsFacts
<1>3. [archived |-> FALSE, brand |-> c.brand, cats |-> c.cats] \in ProductRow
  BY <1>1 DEF ProductRow
<1> QED BY <1>2, <1>3 DEF Created, Aggregate

LEMMA InsertProductStep ==
  ASSUME ProductInvariant, NEW r \in Requests, InsertProduct(r)
  PROVE  ProductInvariant'
<1>1. /\ pc[r] = "insert" /\ Linkable(r) /\ Commit(r, agg[r].row, agg[r].vars)
      /\ Handler(r) /\ pc[r] \in Working
  BY DEF InsertProduct, ProductInvariant, HandlerState, Working
<1>2. product = Unborn /\ cmd[r] \in Commands /\ cmd[r].kind = "create"
      /\ agg[r] = Created(r, cmd[r])
  BY <1>1 DEF Handler
<1>3. agg[r] \in Aggregate
  BY <1>2, CreatedFacts
<1>4. agg[r].row \in ProductRow /\ agg[r].vars \in VariantTable
  BY <1>3, AggregateFacts
<1>5. held = {}
  BY <1>2, NobodyHeld, FreshAssumption
<1>6. agg[r].row.cats \subseteq categories
  BY <1>1 DEF Linkable
<1>7. Live(agg[r].vars) \subseteq InHand(r)
  BY <1>3 DEF InHand
<1>8. \A q \in Requests \ {r} : pc[q] \notin {"insert", "write", "commit"}
  BY <1>1, Places
<1> QED BY <1>1, <1>4, <1>5, <1>6, <1>7, <1>8, CommitStep

LEMMA CommitUpdateStep ==
  ASSUME ProductInvariant, NEW r \in Requests, CommitUpdate(r)
  PROVE  ProductInvariant'
<1>1. /\ pc[r] = "commit" /\ Commit(r, draft[r].row, draft[r].vars)
      /\ Handler(r) /\ Stands(r) /\ pc[r] \in Working
  BY DEF CommitUpdate, ProductInvariant, HandlerState, LockedRowsStand, Stands, Working
<1>2. draft[r] \in Aggregate /\ draft[r].row.cats \subseteq categories
  BY <1>1 DEF Handler
<1>3. draft[r].row \in ProductRow /\ draft[r].vars \in VariantTable
  BY <1>2, AggregateFacts
<1>4. held \subseteq Live(draft[r].vars)
  BY <1>1, NobodyHeld DEF Stands
<1>5. Live(draft[r].vars) \subseteq InHand(r)
  BY <1>2 DEF InHand
<1>6. \A q \in Requests \ {r} : pc[q] \notin {"insert", "write", "commit"}
  BY <1>1, Places
<1> QED BY <1>1, <1>2, <1>3, <1>4, <1>5, <1>6, CommitStep

LEMMA HardDeleteStep ==
  ASSUME ProductInvariant, NEW r \in Requests, HardDelete(r)
  PROVE  ProductInvariant'
<1>1. /\ pc[r] = "delete" /\ ~Locked(r) /\ Live(variants) \cap held = {}
      /\ Commit(r, None, NoVariants) /\ pc[r] \in Working
  BY DEF HardDelete, Working
<1>2. held = {}
  BY <1>1, NobodyHeld
<1>3. NoVariants \in VariantTable /\ Live(NoVariants) = {}
  BY DEF NoVariants, VariantTable, Live
<1>4. None \notin ProductRow
  BY FreshAssumption
<1>5. \A q \in Requests \ {r} : pc[q] \notin {"insert", "write", "commit"}
  BY <1>1, Places
<1> QED BY <1>1, <1>2, <1>3, <1>4, <1>5, CommitStep

-----------------------------------------------------------------------------
\* A request that enters its handler, with aggregate a or none.
LEMMA EnterFacts ==
  ASSUME TypeOK, NEW r \in Requests, NEW c \in Commands, NEW p \in Working,
         pc[r] = "idle", Enter(r, c, p), NEW a \in Aggregate \cup {None},
         agg' = [agg EXCEPT ![r] = a]
  PROVE  /\ LocalsTyped' /\ Alone(r) /\ pc'[r] = p /\ cmd'[r] = c /\ agg'[r] = a
         /\ pc[r] \notin Ended
         /\ UNCHANGED <<tables, existing, draft, contested>>
<1>1. c \in Command
  BY CommandAssumption
<1> QED BY <1>1 DEF TypeOK, LocalsTyped, Enter, Alone, Ended

LEMMA CreateProductStep ==
  ASSUME ProductInvariant, NEW r \in Requests, NEW c \in Commands, CreateProduct(r, c)
  PROVE  ProductInvariant'
<1>1. /\ TypeOK /\ pc[r] = "idle" /\ c.kind = "create" /\ Enter(r, c, "insert")
      /\ product = Unborn /\ \A q \in Requests : pc[q] # "insert"
      /\ agg' = [agg EXCEPT ![r] = Created(r, c)]
  BY DEF ProductInvariant, CreateProduct, Begin
<1>2. Created(r, c) \in Aggregate /\ Live(Created(r, c).vars) \subseteq Names(r)
  BY <1>1, CreatedFacts
<1>3. /\ LocalsTyped' /\ Alone(r) /\ pc'[r] = "insert" /\ cmd'[r] = c
      /\ agg'[r] = Created(r, c) /\ pc[r] \notin Ended
      /\ UNCHANGED <<tables, existing, draft, contested>>
  BY <1>1, <1>2, EnterFacts DEF Working
<1>4. Handler(r)'
  BY <1>1, <1>3 DEF Handler, Loading, tables, Created, NewVariants
<1>5. Current(r)' /\ Stands(r)'
  BY <1>3 DEF Current, Stands, Loading
<1>6. InHand(r)' \subseteq InHand(r) \cup Live(variants) \cup Names(r)
  BY <1>2, <1>3 DEF InHand, Live
<1> QED BY <1>1, <1>3, <1>4, <1>5, <1>6, MemoryStep

LEMMA LoadProductStep ==
  ASSUME ProductInvariant, NEW r \in Requests, NEW c \in Commands, LoadProduct(r, c)
  PROVE  ProductInvariant'
<1> DEFINE a == [row |-> product, vars |-> NoVariants]
<1>1. /\ TypeOK /\ pc[r] = "idle" /\ c.kind \in Whole \cup OnVariant /\ Enter(r, c, "load")
      /\ product # Unborn /\ product # None /\ agg' = [agg EXCEPT ![r] = a]
  BY DEF ProductInvariant, LoadProduct, Begin, Whole, OnVariant
<1>2. product \in ProductRow /\ a \in Aggregate /\ Live(a.vars) = {}
  BY <1>1 DEF TypeOK, Aggregate, NoVariants, VariantTable, Live
<1>3. a.row = product
  OBVIOUS
<1> HIDE DEF a
<1>4. /\ LocalsTyped' /\ Alone(r) /\ pc'[r] = "load" /\ cmd'[r] = c
      /\ agg'[r] = a /\ pc[r] \notin Ended
      /\ UNCHANGED <<tables, existing, draft, contested>>
  BY <1>1, <1>2, EnterFacts DEF Working
<1>5. Handler(r)'
  BY <1>1, <1>2, <1>4 DEF Handler, Loading, tables
<1>6. Current(r)'
  BY <1>2, <1>3, <1>4 DEF Current, Edited, tables
<1>7. Stands(r)'
  BY <1>4 DEF Stands
<1>8. InHand(r)' \subseteq InHand(r) \cup Live(variants) \cup Names(r)
  BY <1>2, <1>4 DEF InHand, Live
<1> QED BY <1>1, <1>4, <1>5, <1>6, <1>7, <1>8, MemoryStep

LEMMA AskHardDeleteStep ==
  ASSUME ProductInvariant, NEW r \in Requests, NEW c \in Commands, AskHardDelete(r, c)
  PROVE  ProductInvariant'
<1>1. /\ TypeOK /\ pc[r] = "idle" /\ c.kind = "hardDelete" /\ Enter(r, c, "delete")
      /\ product # Unborn /\ agg' = agg
  BY DEF ProductInvariant, AskHardDelete, Begin
<1>2. agg[r] \in Aggregate \cup {None} /\ agg' = [agg EXCEPT ![r] = agg[r]]
  BY <1>1 DEF TypeOK
<1>3. /\ LocalsTyped' /\ Alone(r) /\ pc'[r] = "delete" /\ cmd'[r] = c
      /\ agg'[r] = agg[r] /\ pc[r] \notin Ended
      /\ UNCHANGED <<tables, existing, draft, contested>>
  BY <1>1, <1>2, EnterFacts DEF Working
<1>4. Handler(r)'
  BY <1>1, <1>3 DEF Handler, Loading, tables
<1>5. Current(r)' /\ Stands(r)'
  BY <1>3 DEF Current, Stands, Loading
<1>6. InHand(r)' = InHand(r)
  BY <1>3 DEF InHand, Live
<1> QED BY <1>1, <1>3, <1>4, <1>5, <1>6, MemoryStep

-----------------------------------------------------------------------------
\* What a handler sees when it loads the variants and categories.
LEMMA LoadedFacts ==
  ASSUME ProductInvariant, NEW r \in Requests, pc[r] = "load"
  PROVE  /\ Loaded(r) \in Aggregate /\ Loaded(r).vars = variants
         /\ ~contested[r] => /\ product \in ProductRow
                             /\ Loaded(r) = Standing(product.cats)
<1>1. TypeOK /\ Handler(r) /\ Current(r)
  BY DEF ProductInvariant, HandlerState, UncontestedIsCurrent
<1>2. agg[r] \in Aggregate /\ product \in ProductRow \cup {None}
  BY <1>1 DEF Handler, Loading, TypeOK
<1> DEFINE gs == IF product = None THEN {} ELSE product.cats
<1>3. gs \in SUBSET Categories
  BY <1>2 DEF ProductRow
<1>4. Loaded(r) = [row |-> [agg[r].row EXCEPT !.cats = gs], vars |-> variants]
  <2>1. Loaded(r) = [agg[r] EXCEPT !.vars = variants, !.row.cats = gs]
    BY DEF Loaded
  <2> HIDE DEF gs
  <2>2. agg[r] = [row |-> agg[r].row, vars |-> agg[r].vars]
    BY <1>2, AggregateFacts
  <2> QED BY <2>1, <2>2
<1>5. [agg[r].row EXCEPT !.cats = gs] \in ProductRow
  BY <1>2, <1>3 DEF Aggregate, ProductRow
<1>6. Loaded(r) \in Aggregate
  BY <1>1, <1>4, <1>5 DEF TypeOK, Aggregate
<1>7. ASSUME ~contested[r]
      PROVE  product \in ProductRow /\ Loaded(r) = Standing(product.cats)
  <2>1. /\ product \in ProductRow /\ agg[r].row.archived = product.archived
        /\ agg[r].row.brand = product.brand
    BY <1>1, <1>7 DEF Current, Loading
  <2>2. gs = product.cats
    BY <2>1, FreshAssumption
  <2>3. /\ [agg[r].row EXCEPT !.cats = gs] =
             [archived |-> agg[r].row.archived, brand |-> agg[r].row.brand, cats |-> gs]
        /\ [product EXCEPT !.cats = product.cats] =
             [archived |-> product.archived, brand |-> product.brand, cats |-> product.cats]
    BY <1>2, <2>1 DEF Aggregate, ProductRow
  <2>4. [agg[r].row EXCEPT !.cats = gs] = [product EXCEPT !.cats = product.cats]
    BY <2>1, <2>2, <2>3
  <2> QED BY <1>4, <2>1, <2>4 DEF Standing
<1> QED BY <1>4, <1>6, <1>7

\* The handlers that edit what they loaded.
LEMMA SaveStep ==
  ASSUME ProductInvariant, NEW r \in Requests,
         \/ UpdateProduct(r) \/ SoftDeleteProduct(r) \/ RestoreProduct(r)
         \/ ArchiveVariant(r) \/ RestoreVariant(r) \/ RemoveVariant(r)
  PROVE  ProductInvariant'
<1> DEFINE a == Edit(r, Loaded(r))
<1>1. /\ TypeOK /\ Handler(r) /\ pc[r] = "load" /\ ~Refused(r, Loaded(r))
      /\ agg' = [agg EXCEPT ![r] = a] /\ pc' = [pc EXCEPT ![r] = "open"]
      /\ UNCHANGED <<tables, cmd, existing, draft, contested>>
  BY DEF ProductInvariant, HandlerState, UpdateProduct, SoftDeleteProduct, RestoreProduct,
         ArchiveVariant, RestoreVariant, RemoveVariant, Save, Edit
<1>2. cmd[r] \in Commands /\ cmd[r].kind \in Whole \cup OnVariant /\ product # Unborn
  BY <1>1 DEF Handler, Loading, Working
<1>3. /\ Loaded(r) \in Aggregate /\ Loaded(r).vars = variants
      /\ ~contested[r] => product \in ProductRow /\ Loaded(r) = Standing(product.cats)
  BY <1>1, LoadedFacts
<1>4. a \in Aggregate /\ Live(a.vars) \subseteq Live(variants) \cup Names(r)
  BY <1>1, <1>2, <1>3, EditFacts
<1>5. ~contested[r] => a = Edit(r, Standing(product.cats)) /\ ~Refused(r, Standing(product.cats))
  BY <1>1, <1>3
<1> HIDE DEF a
<1>7. /\ LocalsTyped' /\ Alone(r) /\ pc'[r] = "open" /\ agg'[r] = a /\ draft'[r] = draft[r]
      /\ pc[r] \notin Ended
  BY <1>1, <1>4 DEF TypeOK, LocalsTyped, Alone, Working, Ended
<1>8. Handler(r)'
  BY <1>1, <1>2, <1>4, <1>7 DEF Handler, Loading, tables
<1>9. Current(r)'
  <2> SUFFICES ASSUME ~contested'[r]
               PROVE  /\ product' \in ProductRow
                      /\ \E cats \in SUBSET Categories :
                           /\ cats \cap categories' = product'.cats
                           /\ ~Refused(r, Standing(cats))'
                           /\ agg'[r] = Edit(r, Standing(cats))'
    BY <1>7 DEF Current
  <2>1. product \in ProductRow /\ ~contested[r] /\ product.cats \in SUBSET Categories
    BY <1>1, <1>3 DEF ProductRow
  <2>2. product.cats \cap categories = product.cats
    BY <2>1 DEF ProductInvariant, CategoriesExist
  <2>3. /\ Refused(r, Standing(product.cats))' <=> Refused(r, Standing(product.cats))
        /\ Edit(r, Standing(product.cats))' = Edit(r, Standing(product.cats))
    BY <1>1 DEF Refused, Edit, Standing, tables
  <2>4. UNCHANGED product /\ UNCHANGED categories
    BY <1>1 DEF tables
  <2>5. /\ product.cats \cap categories' = product'.cats
        /\ ~Refused(r, Standing(product.cats))'
        /\ agg'[r] = Edit(r, Standing(product.cats))'
    BY <1>5, <1>7, <2>1, <2>2, <2>3, <2>4
  <2>6. product'.cats \in SUBSET Categories /\ product'.cats = product.cats
    BY <2>1, <2>4
  <2> QED BY <2>1, <2>4, <2>5, <2>6
<1>10. Stands(r)'
  BY <1>7 DEF Stands
<1>11. InHand(r)' \subseteq InHand(r) \cup Live(variants) \cup Names(r)
  BY <1>4, <1>7 DEF InHand, Live
<1> QED BY <1>1, <1>7, <1>8, <1>9, <1>10, <1>11, MemoryStep

\* An uncontested edit that stays one.
LEMMA EditStands ==
  ASSUME NEW r \in Requests, Current(r), pc[r] \in Edited, pc'[r] \in Edited,
         agg'[r] = agg[r], UNCHANGED <<tables, cmd, contested>>,
         ~contested'[r] /\ pc'[r] \in {"lock", "write"} => existing'[r] = Live(variants),
         ~contested'[r] /\ pc'[r] = "write" => draft'[r].row = agg[r].row,
         ~contested'[r] /\ pc'[r] = "commit" => draft'[r] = agg[r]
  PROVE  Current(r)'
<1> SUFFICES ASSUME ~contested'[r] PROVE Current(r)'
  BY DEF Current
<1>1. /\ product \in ProductRow
      /\ \E cats \in SUBSET Categories :
           /\ cats \cap categories = product.cats
           /\ ~Refused(r, Standing(cats)) /\ agg[r] = Edit(r, Standing(cats))
  BY DEF Current, Loading, Edited
<1>2. \A cats : /\ Refused(r, Standing(cats))' <=> Refused(r, Standing(cats))
                /\ Edit(r, Standing(cats))' = Edit(r, Standing(cats))
  BY DEF Refused, Edit, Standing, tables
<1>3. \E cats \in SUBSET Categories :
        /\ cats \cap categories' = product'.cats
        /\ ~Refused(r, Standing(cats))' /\ agg'[r] = Edit(r, Standing(cats))'
  BY <1>1, <1>2 DEF tables
<1>4. Live(variants)' = Live(variants)
  BY DEF Live, tables
<1> QED BY <1>1, <1>3, <1>4 DEF Current, tables, Edited

LEMMA ReadExistingStep ==
  ASSUME ProductInvariant, NEW r \in Requests, ReadExisting(r)
  PROVE  ProductInvariant'
<1>1. /\ TypeOK /\ Handler(r) /\ Current(r) /\ pc[r] = "open"
      /\ existing' = [existing EXCEPT ![r] = Live(variants)]
      /\ pc' = [pc EXCEPT ![r] = "lock"] /\ UNCHANGED <<tables, cmd, agg, draft, contested>>
  BY DEF ProductInvariant, HandlerState, UncontestedIsCurrent, ReadExisting
<1>2. /\ cmd[r] \in Commands /\ cmd[r].kind \in Whole \cup OnVariant /\ product # Unborn
      /\ agg[r] \in Aggregate
  BY <1>1 DEF Handler, Loading, Working
<1>3. Live(variants) \in SUBSET Variant
  BY DEF Live
<1>4. /\ LocalsTyped' /\ Alone(r) /\ pc'[r] = "lock" /\ agg'[r] = agg[r]
      /\ draft'[r] = draft[r] /\ existing'[r] = Live(variants) /\ pc[r] \notin Ended
  BY <1>1, <1>3 DEF TypeOK, LocalsTyped, Alone, Working, Ended
<1>5. Handler(r)'
  BY <1>1, <1>2, <1>4 DEF Handler, Loading, tables
<1>6. Current(r)'
  BY <1>1, <1>4, EditStands DEF Edited
<1>7. Stands(r)'
  BY <1>4 DEF Stands
<1>8. InHand(r)' = InHand(r)
  BY <1>4 DEF InHand, Live
<1> QED BY <1>1, <1>4, <1>5, <1>6, <1>7, <1>8, MemoryStep

LEMMA LockProductStep ==
  ASSUME ProductInvariant, NEW r \in Requests, LockProduct(r)
  PROVE  ProductInvariant'
<1> DEFINE row == Dto(agg[r].row, product)
           d == [row |-> row, vars |-> variants]
<1>1. /\ TypeOK /\ Handler(r) /\ Current(r) /\ pc[r] = "lock" /\ ~Locked(r)
      /\ product # None /\ draft' = [draft EXCEPT ![r] = d]
      /\ pc' = [pc EXCEPT ![r] = "write"] /\ UNCHANGED <<tables, cmd, agg, existing, contested>>
  BY DEF ProductInvariant, HandlerState, UncontestedIsCurrent, LockProduct
<1>2. /\ cmd[r] \in Commands /\ cmd[r].kind \in Whole \cup OnVariant /\ product # Unborn
      /\ agg[r] \in Aggregate /\ product \in ProductRow
  BY <1>1 DEF Handler, Loading, Working, TypeOK
<1>3. /\ row \in ProductRow /\ row.cats = agg[r].row.cats
      /\ (agg[r].row.brand = None => product.brand = None) => row = agg[r].row
  BY <1>2 DEF Dto, Aggregate, ProductRow
<1>4. d \in Aggregate /\ d.row = row /\ d.vars = variants
  BY <1>1, <1>3 DEF Aggregate, TypeOK
<1>5. ASSUME ~contested[r]
      PROVE  (agg[r].row.brand = None => product.brand = None) /\ existing[r] = Live(variants)
  <2>1. PICK cats \in SUBSET Categories : agg[r] = Edit(r, Standing(cats))
    BY <1>1, <1>5 DEF Current, Loading, Edited
  <2>2. existing[r] = Live(variants)
    BY <1>1, <1>5 DEF Current, Loading
  <2>3. /\ Standing(cats).row \in ProductRow /\ Standing(cats).row.brand = product.brand
        /\ Standing(cats) = [row |-> [product EXCEPT !.cats = cats], vars |-> variants]
    BY <1>2 DEF Standing, ProductRow
  <2>4. CASE cmd[r].kind = "update"
    <3>1. agg[r].row = [Standing(cats).row EXCEPT
                          !.brand = IF cmd[r].brand = None THEN @ ELSE cmd[r].brand,
                          !.cats = IF cmd[r].cats = None THEN @ ELSE cmd[r].cats]
      BY <2>1, <2>4 DEF Edit, Updated
    <3>2. agg[r].row.brand = IF cmd[r].brand = None THEN product.brand ELSE cmd[r].brand
      BY <2>3, <3>1 DEF ProductRow
    <3> QED BY <2>2, <3>2
  <2>5. CASE cmd[r].kind \in {"softDelete", "restore"}
    <3>1. agg[r].row.brand = product.brand
      BY <2>1, <2>3, <2>5 DEF Edit, SoftDeleted, Restored, ProductRow
    <3> QED BY <2>2, <3>1
  <2>6. CASE cmd[r].kind \in OnVariant
    <3>1. agg[r].row.brand = product.brand
      BY <2>1, <2>3, <2>6
         DEF Edit, VariantArchived, VariantRestored, VariantRemoved, OnVariant
    <3> QED BY <2>2, <3>1
  <2> QED BY <1>2, <2>4, <2>5, <2>6 DEF Whole
<1> HIDE DEF d, row
<1>7. /\ LocalsTyped' /\ Alone(r) /\ pc'[r] = "write" /\ agg'[r] = agg[r]
      /\ draft'[r] = d /\ existing'[r] = existing[r] /\ pc[r] \notin Ended
  BY <1>1, <1>4 DEF TypeOK, LocalsTyped, Alone, Working, Ended
<1>8. Handler(r)'
  BY <1>1, <1>2, <1>3, <1>4, <1>7 DEF Handler, Loading, tables
<1>9. Current(r)'
  BY <1>1, <1>3, <1>4, <1>5, <1>7, EditStands DEF Edited
<1>10. Stands(r)'
  BY <1>1, <1>2, <1>4, <1>7 DEF Stands, tables, Live
<1>11. InHand(r)' \subseteq InHand(r) \cup Live(variants) \cup Names(r)
  BY <1>4, <1>7 DEF InHand, Live
<1> QED BY <1>1, <1>7, <1>8, <1>9, <1>10, <1>11, MemoryStep

\* What manageVariants makes of the variants.
LEMMA ManagedFacts ==
  ASSUME TypeOK, NEW r \in Requests, agg[r] \in Aggregate
  PROVE  LET new == Override(Surplus(r), NoVariants, InMemory(r, variants)) IN
         /\ new \in VariantTable
         /\ Live(new) = (Live(variants) \ Surplus(r)) \cup Live(agg[r].vars)
         /\ existing[r] = Live(variants) => new = agg[r].vars
<1> DEFINE new == Override(Surplus(r), NoVariants, InMemory(r, variants))
<1>1. variants \in VariantTable /\ agg[r].vars \in VariantTable
  BY AggregateFacts DEF TypeOK
<1>2. new = [v \in Variant |-> IF v \in Surplus(r) THEN None
                               ELSE IF v \in Live(agg[r].vars) THEN agg[r].vars[v]
                               ELSE variants[v]]
  BY DEF Override, InMemory, NoVariants
<1>3. Surplus(r) \cap Live(agg[r].vars) = {}
  BY DEF Surplus
<1> HIDE DEF new
<1>4. new \in VariantTable
  BY <1>1, <1>2 DEF VariantTable
<1>5. Live(new) = (Live(variants) \ Surplus(r)) \cup Live(agg[r].vars)
  <2>1. \A v \in Variant : new[v] # None <=>
          (v \in Live(variants) /\ v \notin Surplus(r)) \/ v \in Live(agg[r].vars)
    BY <1>2, <1>3 DEF Live
  <2> QED BY <2>1 DEF Live
<1>6. ASSUME existing[r] = Live(variants) PROVE new = agg[r].vars
  <2>1. \A v \in Variant : new[v] = agg[r].vars[v]
    BY <1>2, <1>6 DEF Surplus, Live
  <2> QED BY <1>1, <1>4, <2>1 DEF VariantTable
<1> QED BY <1>4, <1>5, <1>6 DEF new

LEMMA WriteVariantsStep ==
  ASSUME ProductInvariant, NEW r \in Requests, WriteVariants(r)
  PROVE  ProductInvariant'
<1> DEFINE new == Override(Surplus(r), NoVariants, InMemory(r, variants))
           d == [row |-> draft[r].row, vars |-> new]
<1>1. /\ TypeOK /\ Handler(r) /\ Current(r) /\ Stands(r) /\ pc[r] = "write" /\ Writable(r)
      /\ draft' = [draft EXCEPT ![r].vars = new]
      /\ pc' = [pc EXCEPT ![r] = "commit"]
      /\ UNCHANGED <<tables, cmd, agg, existing, contested>>
  BY DEF ProductInvariant, HandlerState, UncontestedIsCurrent, LockedRowsStand, Stands,
         WriteVariants
<1>2. /\ cmd[r] \in Commands /\ cmd[r].kind \in Whole \cup OnVariant /\ product # Unborn
      /\ agg[r] \in Aggregate /\ draft[r] \in Aggregate
      /\ draft[r].row.cats = agg[r].row.cats
  BY <1>1 DEF Handler, Loading, Working
<1>3. /\ new \in VariantTable
      /\ Live(new) = (Live(variants) \ Surplus(r)) \cup Live(agg[r].vars)
      /\ existing[r] = Live(variants) => new = agg[r].vars
  BY <1>1, <1>2, ManagedFacts
<1> HIDE DEF new
<1>4. draft' = [draft EXCEPT ![r] = d] /\ d \in Aggregate /\ d.vars = new
      /\ d.row = draft[r].row
  <2>1. draft[r] = [row |-> draft[r].row, vars |-> draft[r].vars]
        /\ draft[r].row \in ProductRow
    BY <1>2, AggregateFacts
  <2>2. [draft[r] EXCEPT !.vars = new] = d
    BY <2>1
  <2>3. draft' = [draft EXCEPT ![r] = [draft[r] EXCEPT !.vars = new]]
    BY <1>1
  <2>4. d \in Aggregate
    BY <1>3, <2>1 DEF Aggregate
  <2> QED BY <2>2, <2>3, <2>4
<1>5. d.row.cats = agg[r].row.cats /\ agg[r].row.cats \subseteq categories
  BY <1>1, <1>2 DEF Writable, Linkable
<1>6. ~contested[r] => d = agg[r]
  <2>1. ASSUME ~contested[r] PROVE draft[r].row = agg[r].row /\ new = agg[r].vars
    BY <1>1, <1>3, <2>1 DEF Current, Loading
  <2> QED BY <1>2, <2>1, AggregateFacts
<1> HIDE DEF d
<1>7. /\ LocalsTyped' /\ Alone(r) /\ pc'[r] = "commit" /\ agg'[r] = agg[r]
      /\ draft'[r] = d /\ pc[r] \notin Ended
  BY <1>1, <1>4 DEF TypeOK, LocalsTyped, Alone, Working, Ended
<1>8. Handler(r)'
  BY <1>1, <1>2, <1>4, <1>5, <1>7 DEF Handler, Loading, tables
<1>9. Current(r)'
  BY <1>1, <1>6, <1>7, EditStands DEF Edited
<1>10. Stands(r)'
  <2>1. Surplus(r) \cap Live(variants) \cap held = {}
    BY <1>1 DEF Writable
  <2>2. \A v \in Live(variants) \ Live(d.vars) : v \notin held
    BY <1>3, <1>4, <2>1
  <2> QED BY <1>1, <1>7, <2>2 DEF Stands, tables, Live
<1>11. InHand(r)' \subseteq InHand(r) \cup Live(variants) \cup Names(r)
  <2>1. InHand(r)' \subseteq Live(agg[r].vars) \cup Live(d.vars)
    BY <1>7 DEF InHand, Live
  <2>2. Live(agg[r].vars) \subseteq InHand(r)
    BY <1>2 DEF InHand
  <2> QED BY <1>3, <1>4, <2>1, <2>2
<1> QED BY <1>1, <1>7, <1>8, <1>9, <1>10, <1>11, MemoryStep

-----------------------------------------------------------------------------
\* Customers and the category domain.
LEMMA ReferStep ==
  ASSUME ProductInvariant, NEW v \in Variant, AddToCart(v) \/ Hold(v)
  PROVE  ProductInvariant'
<1>1. /\ TypeOK /\ Referable(v) /\ carts' \in {carts, carts \cup {v}}
      /\ held' \in {held, held \cup {v}}
      /\ UNCHANGED <<product, variants, categories, pc, cmd, agg, existing, draft, contested>>
  BY DEF ProductInvariant, AddToCart, Hold, locals
<1>2. TypeOK'
  BY <1>1 DEF TypeOK
<1>3. ReferencesHold' /\ CategoriesExist'
  BY <1>1 DEF ProductInvariant, ReferencesHold, CategoriesExist, Referable, Live
<1>4. LockedRowsStand'
  <2> SUFFICES ASSUME NEW r \in Requests PROVE Stands(r)'
    BY DEF LockedRowsStand, Stands
  <2>1. Stands(r)
    BY DEF ProductInvariant, LockedRowsStand, Stands
  <2>2. CASE pc[r] = "write"
    BY <1>1, <2>1, <2>2 DEF Stands, Live
  <2>3. CASE pc[r] = "commit"
    BY <1>1, <2>1, <2>3 DEF Stands, Live, Referable
  <2>4. CASE pc[r] \notin {"write", "commit"}
    BY <1>1, <2>4 DEF Stands
  <2> QED BY <2>2, <2>3, <2>4
<1>5. OneAtATime'
  BY <1>1 DEF ProductInvariant, OneAtATime
<1>6. NothingFromTheFuture'
  BY <1>1 DEF ProductInvariant, NothingFromTheFuture, Fresh, InHand, Live, Names
<1>7. \A q \in Requests : Handler(q)' /\ Current(q)'
  <2> SUFFICES ASSUME NEW q \in Requests PROVE Handler(q)' /\ Current(q)'
    OBVIOUS
  <2>1. pc[q] = "insert" => product = Unborn
    BY DEF ProductInvariant, HandlerState, Handler
  <2> QED BY <1>1, <2>1, Others
<1> QED BY <1>2, <1>3, <1>4, <1>5, <1>6, <1>7
        DEF ProductInvariant, HandlerState, UncontestedIsCurrent

\* A category that goes takes the product's place in it along, and every edit
\* that nobody overtook stays the edit of the product that is left.
LEMMA DeleteCategoryStep ==
  ASSUME ProductInvariant, NEW g \in Categories, DeleteCategory(g)
  PROVE  ProductInvariant'
<1>1. /\ TypeOK /\ categories' = categories \ {g}
      /\ \A q \in Requests : pc[q] = "commit" => g \notin product.cats \cup draft[q].row.cats
      /\ product' = IF product \in {Unborn, None} THEN product
                    ELSE [product EXCEPT !.cats = @ \ {g}]
      /\ UNCHANGED <<variants, carts, held, pc, cmd, agg, existing, draft, contested>>
  BY DEF ProductInvariant, DeleteCategory, locals
<1>2. /\ product \in {Unborn, None} => product' = product
      /\ product \in ProductRow => /\ product' \in ProductRow
                                   /\ product'.cats = product.cats \ {g}
                                   /\ product'.archived = product.archived
                                   /\ product'.brand = product.brand
                                   /\ \A cats : [product' EXCEPT !.cats = cats]
                                                = [product EXCEPT !.cats = cats]
  <2>1. CASE product \in ProductRow
    <3>1. product \notin {Unborn, None}
      BY <2>1, FreshAssumption
    <3>2. product' = [product EXCEPT !.cats = @ \ {g}]
      BY <1>1, <3>1
    <3> QED BY <2>1, <3>1, <3>2 DEF ProductRow
  <2>2. CASE product \notin ProductRow
    BY <1>1, <2>2
  <2> QED BY <1>1, <2>1, <2>2
<1>3. /\ product \in ProductRow <=> product' \in ProductRow
      /\ product = Unborn <=> product' = Unborn
      /\ product \in ProductRow \cup {Unborn, None}
  BY <1>1, <1>2, FreshAssumption DEF TypeOK
<1>4. Live(variants)' = Live(variants)
  BY <1>1 DEF Live
<1>5. TypeOK'
  BY <1>1, <1>2, <1>3 DEF TypeOK
<1>6. ReferencesHold' /\ CategoriesExist'
  BY <1>1, <1>2, <1>3, <1>4 DEF ProductInvariant, ReferencesHold, CategoriesExist
<1>7. LockedRowsStand'
  BY <1>1, <1>3, <1>4 DEF ProductInvariant, LockedRowsStand, Live
<1>8. OneAtATime'
  BY <1>1 DEF ProductInvariant, OneAtATime
<1>9. NothingFromTheFuture'
  BY <1>1 DEF ProductInvariant, NothingFromTheFuture, Fresh, InHand, Live, Names
<1>10. ASSUME NEW q \in Requests PROVE Handler(q)' /\ Current(q)'
  <2>1. Handler(q) /\ Current(q)
    BY DEF ProductInvariant, HandlerState, UncontestedIsCurrent
  <2>2. Handler(q)'
    BY <1>1, <1>3, <2>1 DEF Handler, Created, NewVariants, Loading
  <2>3. Current(q)'
    <3> SUFFICES ASSUME ~contested[q], pc[q] \in Loading PROVE Current(q)'
      BY <1>1 DEF Current
    <3>1. product \in ProductRow
      BY <2>1 DEF Current
    <3>2. \A cats : Standing(cats)' = Standing(cats)
      BY <1>1, <1>2, <3>1 DEF Standing
    <3>3. ASSUME pc[q] \in Edited
          PROVE  \E cats \in SUBSET Categories :
                   /\ cats \cap categories' = product'.cats
                   /\ ~Refused(q, Standing(cats))' /\ agg'[q] = Edit(q, Standing(cats))'
      <4>1. PICK cats \in SUBSET Categories :
              /\ cats \cap categories = product.cats
              /\ ~Refused(q, Standing(cats)) /\ agg[q] = Edit(q, Standing(cats))
        BY <2>1, <3>3 DEF Current
      <4> WITNESS cats \in SUBSET Categories
      <4>2. Refused(q, Standing(cats))' <=> Refused(q, Standing(cats))
        BY <1>1, <3>2 DEF Refused
      <4>3. Edit(q, Standing(cats))' = Edit(q, Standing(cats))
        BY <1>1, <3>2 DEF Edit
      <4> QED BY <1>1, <1>2, <3>1, <4>1, <4>2, <4>3
    <3> QED BY <1>1, <1>2, <1>4, <2>1, <3>1, <3>3 DEF Current
  <2> QED BY <2>2, <2>3
<1> QED BY <1>5, <1>6, <1>7, <1>8, <1>9, <1>10
        DEF ProductInvariant, HandlerState, UncontestedIsCurrent

-----------------------------------------------------------------------------
LEMMA InitProductInvariant ==
  ASSUME Init
  PROVE  ProductInvariant
<1>1. /\ categories = Categories /\ carts = {} /\ held = {}
      /\ pc = [r \in Requests |-> "idle"]
      /\ cmd = [r \in Requests |-> None] /\ agg = [r \in Requests |-> None]
      /\ existing = [r \in Requests |-> {}] /\ draft = [r \in Requests |-> None]
      /\ contested = [r \in Requests |-> FALSE]
  BY DEF Init
<1>2. /\ product \in ProductRow \cup {Unborn} /\ variants \in VariantTable
      /\ Live(variants) \subseteq InitVariants
      /\ product \notin ProductRow => Live(variants) = {}
      /\ product \in ProductRow => product.cats \subseteq Categories
  <2>1. CASE product = Unborn /\ variants = NoVariants
    <3>1. NoVariants \in VariantTable /\ Live(NoVariants) = {}
      BY DEF NoVariants, VariantTable, Live
    <3> QED BY <2>1, <3>1, FreshAssumption
  <2>2. CASE /\ product \in ProductRow /\ product.cats \subseteq Categories
             /\ variants \in [Variant -> {None, [archived |-> FALSE]}]
             /\ Live(variants) \subseteq InitVariants
    <3>1. [archived |-> FALSE] \in VariantRow
      BY DEF VariantRow
    <3> QED BY <2>2, <3>1 DEF VariantTable
  <2> QED BY <2>1, <2>2 DEF Init
<1>3. TypeOK
  <2>1. LocalsTyped
    BY <1>1 DEF LocalsTyped
  <2>2. TablesTyped
    BY <1>1, <1>2 DEF TablesTyped
  <2> QED BY <2>1, <2>2, TypeParts
<1>4. ReferencesHold /\ CategoriesExist /\ LockedRowsStand /\ OneAtATime
  BY <1>1, <1>2 DEF ReferencesHold, CategoriesExist, LockedRowsStand, OneAtATime
<1>5. HandlerState /\ UncontestedIsCurrent
  BY <1>1 DEF HandlerState, UncontestedIsCurrent, Handler, Current, Working, Loading, Edited
<1>6. NothingFromTheFuture
  <2>1. \A q \in Requests : InHand(q) = {}
    BY <1>1, FreshAssumption DEF InHand
  <2>2. \A r \in Requests : InitVariants \cap Names(r) = {}
    BY FreshAssumption DEF Names
  <2> QED BY <1>2, <2>1, <2>2 DEF NothingFromTheFuture, Fresh
<1> QED BY <1>3, <1>4, <1>5, <1>6 DEF ProductInvariant

LEMMA StutterStep ==
  ASSUME ProductInvariant, UNCHANGED vars
  PROVE  ProductInvariant'
<1>1. UNCHANGED <<product, variants, categories, carts, held, pc, cmd, agg, existing, draft,
                  contested>>
  BY DEF vars, tables, locals
<1>2. TypeOK' /\ ReferencesHold' /\ CategoriesExist' /\ LockedRowsStand' /\ OneAtATime'
  BY <1>1 DEF ProductInvariant, TypeOK, ReferencesHold, CategoriesExist, LockedRowsStand,
              OneAtATime, Live
<1>3. NothingFromTheFuture'
  BY <1>1 DEF ProductInvariant, NothingFromTheFuture, Fresh, InHand, Live, Names
<1>4. \A q \in Requests : Handler(q)' /\ Current(q)'
  <2> SUFFICES ASSUME NEW q \in Requests PROVE Handler(q)' /\ Current(q)'
    OBVIOUS
  <2>1. pc[q] = "insert" => product = Unborn
    BY DEF ProductInvariant, HandlerState, Handler
  <2> QED BY <1>1, <2>1, Others
<1> QED BY <1>2, <1>3, <1>4 DEF ProductInvariant, HandlerState, UncontestedIsCurrent

LEMMA NextProductInvariant ==
  ASSUME ProductInvariant, [Next]_vars
  PROVE  ProductInvariant'
<1>1. CASE UNCHANGED vars
  BY <1>1, StutterStep
<1>2. ASSUME NEW r \in Requests, Start(r) PROVE ProductInvariant'
  <2>1. PICK c \in Commands :
          \/ CreateProduct(r, c) \/ RefuseCreation(r, c)
          \/ LoadProduct(r, c) \/ AskHardDelete(r, c) \/ NotFound(r, c)
    BY <1>2 DEF Start
  <2>2. CASE RefuseCreation(r, c) \/ NotFound(r, c)
    BY <2>2, FailStep DEF RefuseCreation, NotFound, Begin, Ended
  <2> QED BY <2>1, <2>2, CreateProductStep, LoadProductStep, AskHardDeleteStep
<1>3. ASSUME NEW r \in Requests, Step(r) PROVE ProductInvariant'
  <2>1. CASE InsertRefused(r) \/ Refuse(r) \/ WriteRefused(r) \/ Gone(r) \/ DeleteRefused(r)
    BY <2>1, FailStep DEF InsertRefused, Refuse, WriteRefused, Gone, DeleteRefused, Ended
  <2> QED BY <1>3, <2>1, InsertProductStep, SaveStep, ReadExistingStep, LockProductStep,
             WriteVariantsStep, CommitUpdateStep, HardDeleteStep DEF Step
<1>4. ASSUME NEW r \in Requests, Abort(r) PROVE ProductInvariant'
  BY <1>4, FailStep DEF Abort, Working, Ended
<1>5. CASE \E v \in Variant : AddToCart(v) \/ Hold(v)
  BY <1>5, ReferStep
<1>6. CASE \E g \in Categories : DeleteCategory(g)
  BY <1>6, DeleteCategoryStep
<1>7. CASE Served
  BY <1>7, StutterStep DEF Served
<1> QED BY <1>1, <1>2, <1>3, <1>4, <1>5, <1>6, <1>7 DEF Next

-----------------------------------------------------------------------------
\* Whatever overlaps, fails or is deleted meanwhile, the product, its variants and
\* what refers to them keep to ProductInvariant.
THEOREM InductiveInvariant == Spec => []ProductInvariant
<1>1. Init => ProductInvariant
  BY InitProductInvariant
<1>2. ProductInvariant /\ [Next]_vars => ProductInvariant'
  BY NextProductInvariant
<1> QED BY <1>1, <1>2, PTL DEF Spec

\* No variant is without its product, and no cart, order, return or stock movement
\* refers to a variant that is gone.
THEOREM ReferencesAlwaysHold == Spec => []ReferencesHold
<1>1. ProductInvariant => ReferencesHold
  BY DEF ProductInvariant
<1> QED BY <1>1, InductiveInvariant, PTL

\* A transaction past the lock finds the variants as they were when it took the
\* lock, and deletes none that is referred to.
THEOREM LockedRowsAlwaysStand == Spec => []LockedRowsStand
<1>1. ProductInvariant => LockedRowsStand
  BY DEF ProductInvariant
<1> QED BY <1>1, InductiveInvariant, PTL

\* The listing, by mode and by category, and the product's page agree.
LEMMA ListedFacts ==
  ASSUME TypeOK, CategoriesExist
  PROVE  ListedWhereShown
<1> DEFINE Lists(under, mode) == AllProducts(under, mode, 1, 25).status = "ok"
<1>1. ASSUME NEW under, NEW mode
      PROVE  Lists(under, mode) <=> Selected(under, mode) # {}
  <2>1. /\ IsFiniteSet(Selected(under, mode))
        /\ Cardinality(Selected(under, mode)) = 0 <=> Selected(under, mode) = {}
    <3>1. IsFiniteSet({"product"})
      BY FS_Singleton
    <3>2. IsFiniteSet(Selected(under, mode))
      BY <3>1, FS_Subset DEF Selected
    <3> QED BY <3>2, FS_EmptySet
  <2>2. FindAll(under, mode, 1, 25).total = Cardinality(Selected(under, mode))
    BY DEF FindAll
  <2>3. ~BadRequest(1, 25) /\ ~(25 > MaxLimit)
    BY DEF BadRequest, MaxLimit
  <2>4. AllProducts(under, mode, 1, 25) =
          IF FindAll(under, mode, 1, 25).total = 0 THEN NotFoundAnswer
          ELSE [status |-> "ok", answer |-> FindAll(under, mode, 1, 25)]
    BY <2>3 DEF AllProducts
  <2>5. CASE Selected(under, mode) = {}
    <3> DEFINE got == AllProducts(under, mode, 1, 25)
    <3>1. got = [status |-> "not found"]
      BY <2>1, <2>2, <2>4, <2>5 DEF NotFoundAnswer
    <3> HIDE DEF got
    <3>2. got.status = "not found"
      BY <3>1
    <3>3. got.status # "ok"
      BY <3>2
    <3>4. ~Lists(under, mode)
      BY <3>3 DEF got
    <3> QED BY <2>5, <3>4
  <2>6. CASE Selected(under, mode) # {}
    <3> DEFINE all == FindAll(under, mode, 1, 25)
    <3>1. AllProducts(under, mode, 1, 25) = [status |-> "ok", answer |-> all]
      BY <2>1, <2>2, <2>4, <2>6
    <3> HIDE DEF all
    <3>2. AllProducts(under, mode, 1, 25).status = "ok"
      BY <3>1
    <3> QED BY <2>6, <3>2
  <2> QED BY <2>5, <2>6
<1>2. CASE product \in {Unborn, None}
  <2>1. ProductById = NotFoundAnswer
    BY <1>2 DEF ProductById
  <2>2. \A mode \in Modes : Selected({}, mode) = {}
    BY <1>2 DEF Selected
  <2> QED BY <1>1, <2>1, <2>2 DEF ListedWhereShown
<1>3. CASE product \notin {Unborn, None}
  <2>1. product \in ProductRow /\ product.cats \subseteq categories
    BY <1>3 DEF TypeOK, CategoriesExist
  <2>2. ProductById # NotFoundAnswer /\ ProductById.product = Shown
    BY <1>3 DEF ProductById, NotFoundAnswer
  <2>3. /\ InMode(product, "all")
        /\ InMode(product, "archives") <=> product.archived
        /\ \A mode \in {"actives", None} :
             InMode(product, mode) <=> ~product.archived
    BY ModesAssumption DEF InMode
  <2>4. \A under, mode :
          Selected(under, mode) # {} <=>
            (under # {} => product.cats \cap under # {}) /\ InMode(product, mode)
    BY <1>3 DEF Selected
  <2>5. ASSUME NEW g \in Categories, NEW mode \in Modes
        PROVE  Selected({g}, mode) # {} <=>
                 /\ Selected({}, mode) # {}
                 /\ g \in DOMAIN Shown.cats /\ Shown.cats[g] = g
    <3>1. Selected({g}, mode) # {} <=>
            g \in product.cats /\ Selected({}, mode) # {}
      BY <2>4
    <3>2. Shown.cats = [h \in product.cats |-> IF h \in categories THEN h ELSE None]
      BY DEF Shown, Enriched
    <3> QED BY <2>1, <3>1, <3>2
  <2>6. Shown.archived = product.archived
    BY DEF Shown
  <2>7. /\ Lists({}, "all")
        /\ Lists({}, "archives") <=> Shown.archived
        /\ \A mode \in {"actives", None} : Lists({}, mode) <=> ~Shown.archived
        /\ \A g \in Categories, mode \in Modes :
             Lists({g}, mode) <=>
               Lists({}, mode) /\ g \in DOMAIN Shown.cats /\ Shown.cats[g] = g
    <3> HIDE DEF Lists
    <3> QED BY <1>1, <2>3, <2>4, <2>5, <2>6
  <2> QED BY <2>2, <2>7 DEF ListedWhereShown
<1> QED BY <1>2, <1>3

\* Updates, archivings and deletions of categories leave the product listed in the
\* mode of the state and under the categories that its page shows, nowhere else.
THEOREM ListedWhereShownAlways == Spec => []ListedWhereShown
<1>1. ProductInvariant => ListedWhereShown
  BY ListedFacts DEF ProductInvariant
<1> QED BY <1>1, InductiveInvariant, PTL

-----------------------------------------------------------------------------
\* A command that succeeds does so at the end of its transaction.
LEMMA Committing ==
  ASSUME TypeOK, NEW r \in Requests, [Next]_vars,
         pc[r] \in {"insert", "commit", "delete"}, pc'[r] = "ok"
  PROVE  InsertProduct(r) \/ CommitUpdate(r) \/ HardDelete(r)
<1>1. pc \in [Requests -> Working \cup Ended \cup {"idle"}]
  BY DEF TypeOK
<1>2. pc' # pc
  OBVIOUS
<1>3. ASSUME NEW q \in Requests, Start(q) PROVE FALSE
  <2>1. /\ pc[q] = "idle"
        /\ \E place : pc' = [pc EXCEPT ![q] = place] /\ place # "ok"
    BY <1>3 DEF Start, CreateProduct, RefuseCreation, LoadProduct, AskHardDelete, NotFound,
                Begin, Fail, Leave, Enter
  <2> QED BY <1>1, <2>1
<1>4. ASSUME NEW q \in Requests, pc' = [pc EXCEPT ![q] = "ok"] PROVE q = r
  BY <1>1, <1>4
<1>5. ASSUME NEW q \in Requests, NEW place, pc' = [pc EXCEPT ![q] = place]
      PROVE  place = "ok"
  BY <1>1, <1>5
<1>6. ASSUME NEW q \in Requests, Abort(q) PROVE FALSE
  BY <1>5, <1>6 DEF Abort, Fail, Leave
<1>7. ASSUME NEW q \in Requests, Step(q)
      PROVE  InsertProduct(r) \/ CommitUpdate(r) \/ HardDelete(r)
  <2>1. CASE InsertProduct(q) \/ CommitUpdate(q) \/ HardDelete(q)
    <3>1. pc' = [pc EXCEPT ![q] = "ok"]
      BY <2>1 DEF InsertProduct, CommitUpdate, HardDelete, Commit, Leave
    <3> QED BY <1>4, <2>1, <3>1
  <2>2. CASE \/ InsertRefused(q) \/ Refuse(q) \/ WriteRefused(q) \/ Gone(q)
             \/ DeleteRefused(q)
    BY <1>5, <2>2 DEF InsertRefused, Refuse, WriteRefused, Gone, DeleteRefused, Fail, Leave
  <2>3. CASE \/ UpdateProduct(q) \/ SoftDeleteProduct(q) \/ RestoreProduct(q)
             \/ ArchiveVariant(q) \/ RestoreVariant(q) \/ RemoveVariant(q)
    <3>1. pc' = [pc EXCEPT ![q] = "open"]
      BY <2>3 DEF UpdateProduct, SoftDeleteProduct, RestoreProduct, ArchiveVariant,
                  RestoreVariant, RemoveVariant, Save
    <3> QED BY <1>5, <3>1
  <2>4. CASE ReadExisting(q) \/ LockProduct(q) \/ WriteVariants(q)
    BY <1>5, <2>4 DEF ReadExisting, LockProduct, WriteVariants
  <2> QED BY <1>7, <2>1, <2>2, <2>3, <2>4 DEF Step
<1> QED BY <1>2, <1>3, <1>6, <1>7 DEF Next, AddToCart, Hold, DeleteCategory, Served, vars

\* The product gets n new variants in place of those it had.
LEMMA StockedFacts ==
  ASSUME NEW r \in Requests, NEW n \in 0 .. MaxNew,
         variants' = NewVariants(r, n), Live(variants) \cap Names(r) = {}
  PROVE  Catalogue!Stocked(n)
<1>1. Catalogue!There = Live(variants)
  BY DEF Catalogue!There, Live
<1>2. Catalogue!ThereNext = {r} \X (1 .. n)
  <2>1. Catalogue!ThereNext = Live(NewVariants(r, n))
    BY DEF Catalogue!ThereNext, Live
  <2> QED BY <2>1, NewVariantsFacts
<1>3. {r} \X (1 .. n) \subseteq Names(r) /\ Names(r) \subseteq Variant
  BY NewVariantsFacts
<1>4. \E f \in [1 .. n -> {r} \X (1 .. n)] :
        /\ \A i, j \in 1 .. n : f[i] = f[j] => i = j
        /\ {r} \X (1 .. n) = {f[i] : i \in 1 .. n}
  <2> DEFINE f == [i \in 1 .. n |-> <<r, i>>]
  <2>1. f \in [1 .. n -> {r} \X (1 .. n)]
    OBVIOUS
  <2> WITNESS f \in [1 .. n -> {r} \X (1 .. n)]
  <2> QED OBVIOUS
<1>5. \A v \in {r} \X (1 .. n) : ~variants'[v].archived
  <2> TAKE v \in {r} \X (1 .. n)
  <2>1. variants'[v] = [archived |-> FALSE]
    BY <1>3 DEF NewVariants
  <2> QED BY <2>1
<1> QED BY <1>1, <1>2, <1>3, <1>4, <1>5 DEF Catalogue!Stocked

\* A creation makes what it was asked for.
LEMMA CreationDoes ==
  ASSUME ProductInvariant, NEW r \in Requests, InsertProduct(r)
  PROVE  Catalogue!Does(cmd[r])
<1> DEFINE c == cmd[r]
<1>1. /\ product = Unborn /\ c \in Commands /\ c.kind = "create"
      /\ agg[r] = Created(r, c)
  BY DEF ProductInvariant, HandlerState, Handler, InsertProduct, Working
<1>2. c.n \in 0 .. MaxNew
  BY <1>1, CommandFacts
<1>3. /\ product' = [archived |-> FALSE, brand |-> c.brand, cats |-> c.cats]
      /\ variants' = NewVariants(r, c.n)
  BY <1>1 DEF InsertProduct, Commit, Created
<1>4. Live(variants) \cap Names(r) = {}
  BY DEF ProductInvariant, NothingFromTheFuture, Fresh, InsertProduct, Ended
<1>5. Catalogue!Stocked(c.n)
  BY <1>2, <1>3, <1>4, StockedFacts
<1> QED BY <1>1, <1>3, <1>5 DEF Catalogue!Does

\* A hard deletion leaves nothing.
LEMMA DeletionDoes ==
  ASSUME ProductInvariant, NEW r \in Requests, HardDelete(r)
  PROVE  Catalogue!Does(cmd[r])
<1>1. cmd[r].kind = "hardDelete"
  BY DEF ProductInvariant, HandlerState, Handler, HardDelete
<1>2. product' = None /\ variants' = NoVariants
  BY DEF HardDelete, Commit
<1>3. Catalogue!ThereNext = {}
  BY <1>2 DEF Catalogue!ThereNext, NoVariants
<1> QED BY <1>1, <1>2, <1>3 DEF Catalogue!Does

\* What an update commits that nobody overtook is the edit of the product that
\* is there: the categories it has in memory all exist, so none has gone.
LEMMA CommittedEdit ==
  ASSUME ProductInvariant, NEW r \in Requests, CommitUpdate(r), ~contested[r]
  PROVE  /\ product \in ProductRow /\ variants \in VariantTable
         /\ cmd[r] \in Commands /\ cmd[r].kind \in Whole \cup OnVariant
         /\ \E cats \in SUBSET Categories :
              /\ ~Refused(r, Standing(cats))
              /\ product' = Edit(r, Standing(cats)).row
              /\ variants' = Edit(r, Standing(cats)).vars
              /\ product'.cats = cats => cats = product.cats
<1>1. Handler(r) /\ Current(r) /\ pc[r] = "commit" /\ variants \in VariantTable
  BY DEF ProductInvariant, HandlerState, UncontestedIsCurrent, CommitUpdate, TypeOK
<1>2. product' = draft[r].row /\ variants' = draft[r].vars
  BY DEF CommitUpdate, Commit
<1>3. product \in ProductRow /\ draft[r] = agg[r] /\ draft[r].row.cats \subseteq categories
  BY <1>1 DEF Current, Handler, Loading
<1>4. PICK cats \in SUBSET Categories :
        /\ cats \cap categories = product.cats
        /\ ~Refused(r, Standing(cats)) /\ agg[r] = Edit(r, Standing(cats))
  BY <1>1 DEF Current, Loading, Edited
<1>5. product'.cats = cats => cats = product.cats
  BY <1>2, <1>3, <1>4
<1>6. cmd[r] \in Commands /\ cmd[r].kind \in Whole \cup OnVariant
  BY <1>1 DEF Handler, Working, Loading
<1> QED BY <1>1, <1>2, <1>3, <1>4, <1>5, <1>6

\* An update that nobody overtook does what its command promises.
LEMMA UpdateDoes ==
  ASSUME ProductInvariant, NEW r \in Requests, CommitUpdate(r), ~contested[r]
  PROVE  Catalogue!Does(cmd[r])
<1> DEFINE c == cmd[r]
<1>1. /\ product \in ProductRow /\ variants \in VariantTable
      /\ c \in Commands /\ c.kind \in Whole \cup OnVariant
  BY CommittedEdit
<1>2. PICK cats \in SUBSET Categories :
        /\ ~Refused(r, Standing(cats))
        /\ product' = Edit(r, Standing(cats)).row
        /\ variants' = Edit(r, Standing(cats)).vars
        /\ product'.cats = cats => cats = product.cats
  BY CommittedEdit
<1> DEFINE a == Standing(cats)
<1>3. /\ a.row = [product EXCEPT !.cats = cats] /\ a.vars = variants
      /\ a = [row |-> a.row, vars |-> a.vars]
      /\ a.row \in ProductRow /\ a.row.cats = cats
      /\ a.row.archived = product.archived /\ a.row.brand = product.brand
  BY <1>1 DEF Standing, ProductRow
<1>4. cats = product.cats => a.row = product
  BY <1>1, <1>3 DEF ProductRow
<1>5. /\ product' = Edit(r, a).row /\ variants' = Edit(r, a).vars /\ ~Refused(r, a)
  BY <1>2
<1>6. Catalogue!There = Live(variants)
  BY DEF Catalogue!There, Live
<1> HIDE DEF a
<1>7. CASE c.kind = "update"
  <2>1. /\ product' = [a.row EXCEPT !.brand = IF c.brand = None THEN @ ELSE c.brand,
                                    !.cats = IF c.cats = None THEN @ ELSE c.cats]
        /\ variants' = IF c.n = None THEN a.vars ELSE NewVariants(r, c.n)
    BY <1>5, <1>7 DEF Edit, Updated
  <2>2. c.cats = None => a.row = product
    <3> SUFFICES ASSUME c.cats = None PROVE a.row = product
      OBVIOUS
    <3>1. product'.cats = cats
      BY <1>3, <2>1 DEF ProductRow
    <3> QED BY <1>2, <1>4, <3>1
  <2>3. product' = [product EXCEPT !.brand = IF c.brand = None THEN @ ELSE c.brand,
                                   !.cats = IF c.cats = None THEN @ ELSE c.cats]
    <3>1. CASE c.cats = None
      BY <2>1, <2>2, <3>1
    <3>2. CASE c.cats # None
      <4>1. product' = [[product EXCEPT !.cats = cats] EXCEPT
                          !.brand = IF c.brand = None THEN @ ELSE c.brand, !.cats = c.cats]
        BY <1>3, <2>1, <3>2
      <4> QED BY <1>1, <4>1, <3>2 DEF ProductRow
    <3> QED BY <3>1, <3>2
  <2>4. c.n # None => Catalogue!Stocked(c.n)
    <3> SUFFICES ASSUME c.n # None PROVE Catalogue!Stocked(c.n)
      OBVIOUS
    <3>1. c.n \in 0 .. MaxNew
      BY <1>1, <1>7, CommandFacts
    <3>2. variants' = NewVariants(r, c.n)
      BY <2>1
    <3>3. Live(variants) \cap Names(r) = {}
      BY DEF ProductInvariant, NothingFromTheFuture, Fresh, CommitUpdate, Ended
    <3> QED BY <3>1, <3>2, <3>3, StockedFacts
  <2>5. c.n = None => UNCHANGED variants
    BY <1>3, <2>1
  <2> QED BY <1>7, <2>3, <2>4, <2>5 DEF Catalogue!Does
<1>8. CASE c.kind \in {"softDelete", "restore"}
  <2>1. Edit(r, a) = [a EXCEPT !.row.archived = (c.kind = "softDelete")]
    BY <1>8 DEF Edit, SoftDeleted, Restored
  <2>2. /\ product' = [a.row EXCEPT !.archived = (c.kind = "softDelete")]
        /\ variants' = variants
    BY <1>3, <1>5, <2>1
  <2>3. a.row = product
    BY <1>2, <1>3, <1>4, <2>2 DEF ProductRow
  <2>4. product.archived # (c.kind = "softDelete")
    BY <1>3, <1>5, <1>8 DEF Refused, SoftDeleteRefused, RestoreRefused, ProductRow
  <2> QED BY <1>8, <2>2, <2>3, <2>4 DEF Catalogue!Does, Catalogue!Archive
<1>9. CASE c.kind \in OnVariant
  <2>1. c.variant \in Variant /\ variants[c.variant] # None
    BY <1>1, <1>3, <1>5, <1>9, CommandFacts
       DEF Refused, ArchiveRefused, VariantRestoreRefused, VariantMissing, OnVariant
  <2>2. c.variant \in Catalogue!There
    BY <2>1 DEF Catalogue!There
  <2>3. product' = product
    <3>1. product' = a.row
      BY <1>3, <1>5, <1>9 DEF Edit, VariantArchived, VariantRestored, VariantRemoved, OnVariant
    <3> QED BY <1>2, <1>3, <1>4, <3>1
  <2>4. CASE c.kind = "removeVariant"
    <3>1. variants' = [variants EXCEPT ![c.variant] = None]
      BY <1>3, <1>5, <2>4 DEF Edit, VariantRemoved
    <3> QED BY <2>2, <2>3, <2>4, <3>1 DEF Catalogue!Does
  <2>5. variants[c.variant] \in VariantRow
    BY <1>1, <2>1 DEF VariantTable
  <2>6. CASE c.kind \in {"archiveVariant", "restoreVariant"}
    <3> DEFINE b == c.kind = "archiveVariant"
    <3>1. variants' = [variants EXCEPT ![c.variant] = [archived |-> b]]
      BY <1>3, <1>5, <2>6 DEF Edit, VariantArchived, VariantRestored, Shelved, Unshelved
    <3>2. variants[c.variant].archived # b
      BY <1>3, <1>5, <2>5, <2>6
         DEF Refused, ArchiveRefused, VariantRestoreRefused, Shelved, Unshelved, VariantRow
    <3>3. [variants[c.variant] EXCEPT !.archived = b] = [archived |-> b]
      BY <2>5 DEF VariantRow
    <3>4. variants' = [variants EXCEPT ![c.variant].archived = b]
      BY <3>1, <3>3
    <3>5. Catalogue!Flag(c.variant, b)
      BY <2>2, <2>3, <3>2, <3>4 DEF Catalogue!Flag
    <3> QED BY <2>6, <3>5 DEF Catalogue!Does
  <2> QED BY <1>9, <2>4, <2>6 DEF OnVariant
<1> QED BY <1>1, <1>7, <1>8, <1>9 DEF Whole

\* Every command that no other one overtook between its first read and its commit
\* does what it promises, and no more.
THEOREM UncontestedEditsAlways == Spec => UncontestedEdits
<1>1. ASSUME ProductInvariant, [Next]_vars, NEW r \in Requests,
             pc[r] \in {"insert", "commit", "delete"}, pc'[r] = "ok", ~contested[r]
      PROVE  Catalogue!Does(cmd[r])
  <2>1. InsertProduct(r) \/ CommitUpdate(r) \/ HardDelete(r)
    BY <1>1, Committing DEF ProductInvariant
  <2> QED BY <1>1, <2>1, CreationDoes, UpdateDoes, DeletionDoes
<1>2. ProductInvariant /\ [Next]_vars =>
        [\A r \in Requests :
           pc[r] \in {"insert", "commit", "delete"} /\ pc'[r] = "ok" /\ ~contested[r]
             => Catalogue!Does(cmd[r])]_vars
  BY <1>1
<1> QED BY <1>2, InductiveInvariant, PTL DEF Spec, UncontestedEdits
=============================================================================
