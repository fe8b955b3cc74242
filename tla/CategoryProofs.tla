--------------------------- MODULE CategoryProofs ---------------------------
(***************************************************************************)
(* The category hierarchy, for every set of requests and categories, every *)
(* limit and all commands: its references and what the listing shows of    *)
(* it, however commands overlap; the limit that creations keep and the     *)
(* forest that commands edit, when they are served in turn.                *)
(***************************************************************************)
EXTENDS CategoryInv, CategoryQueries, ListingProofs, SequenceTheorems, TLAPS

Tree == [Category -> Category \cup {Root, Absent}]
Ended == {"ok", "failed", "tooDeep"}

\* Nothing of q changes.
Same(q) ==
  /\ pc'[q] = pc[q] /\ cmd'[q] = cmd[q] /\ above'[q] = above[q]
  /\ kids'[q] = kids[q] /\ frames'[q] = frames[q]
  /\ held'[q] = held[q] /\ draft'[q] = draft[q]

\* What a request reads is a tree.
LEMMA ViewType ==
  ASSUME TypeOK, NEW r \in Requests
  PROVE  View(r) \in Tree
BY DEF TypeOK, View, Tree

\* A request of which nothing changes reads what it read, if nobody commits.
LEMMA ViewSame ==
  ASSUME NEW q \in Requests, Same(q), UNCHANGED parent
  PROVE  View(q)' = View(q)
BY DEF Same, View

\* Fresh identifiers are categories, and differ from one request to another.
LEMMA FreshFacts ==
  ASSUME NEW r \in Requests
  PROVE  /\ Fresh(r) \subseteq Category
         /\ Main(r) \in Category /\ Sub(r) \in Category /\ Main(r) # Sub(r)
         /\ \A q \in Requests : q # r => Fresh(r) \cap Fresh(q) = {}
         /\ Fresh(r) \cap InitCategories = {}
BY FreshAssumption DEF Fresh, Main, Sub, Category

\* A step of r keeps the invariant when it leaves the other requests alone,
\* and keeps what they read and made.
LEMMA OneRequest ==
  ASSUME HierarchyInv, NEW r \in Requests, pc[r] \in Open,
         \A q \in Requests \ {r} : Same(q),
         TypeOK', ParentsExist', Handler(r)',
         \A q \in Requests : WholeView(q)',
         \A q \in Requests \ {r} :
           /\ held'[r] \cap held[q] = {}
           /\ Unreferred(r, q)' /\ Unreferred(q, r)',
         \A q \in Requests \ {r} : pc[q] \in Open =>
           \A f \in Fresh(q) : parent'[f] = Absent /\ Untouched(f, r)',
         pc'[r] \in Open => UNCHANGED parent
  PROVE  HierarchyInv'
<1> USE DEF HierarchyInv
<1>1. HandlerState'
  <2> SUFFICES ASSUME NEW q \in Requests, q # r PROVE Handler(q)'
    BY DEF HandlerState
  <2>1. Handler(q) /\ Same(q)
    BY DEF HandlerState
  <2> QED BY <2>1 DEF Handler, Same
<1>2. FreshIdentifiers'
  <2> SUFFICES ASSUME NEW s \in Requests, pc'[s] \in Open, NEW f \in Fresh(s)
               PROVE  /\ parent'[f] = Absent
                      /\ \A q \in Requests \ {s} : Untouched(f, q)'
    BY DEF FreshIdentifiers, Fresh, Main, Sub, Open, Working
  <2>1. pc[s] \in Open
    BY DEF Same
  <2>2. parent[f] = Absent /\ \A q \in Requests \ {s} : Untouched(f, q)
    BY <2>1 DEF FreshIdentifiers
  <2>3. parent'[f] = Absent
    BY <2>1, <2>2
  <2>4. ASSUME NEW q \in Requests, q # s PROVE Untouched(f, q)'
    <3>1. CASE q = r
      BY <2>1, <2>4, <3>1
    <3>2. CASE q # r
      <4>1. Same(q) /\ Untouched(f, q)
        BY <2>2, <2>4, <3>2
      <4> QED BY <4>1 DEF Untouched, Same
    <3> QED BY <3>1, <3>2
  <2> QED BY <2>3, <2>4
<1>3. RowLocks'
  <2> SUFFICES ASSUME NEW p \in Requests, NEW q \in Requests, p # q
               PROVE  held'[p] \cap held'[q] = {}
    BY DEF RowLocks
  <2>1. CASE p = r
    BY <2>1 DEF Same
  <2>2. CASE q = r
    BY <2>2 DEF Same
  <2>3. CASE p # r /\ q # r
    BY <2>3 DEF Same, RowLocks
  <2> QED BY <2>1, <2>2, <2>3
<1>4. DeletionsUnreferred'
  <2> SUFFICES ASSUME NEW p \in Requests, NEW q \in Requests, p # q
               PROVE  Unreferred(p, q)'
    BY DEF DeletionsUnreferred
  <2>1. CASE p = r \/ q = r
    BY <2>1
  <2>2. CASE p # r /\ q # r
    <3>1. Same(p) /\ Same(q) /\ Unreferred(p, q)
      BY <2>2 DEF DeletionsUnreferred
    <3> QED BY <3>1 DEF Unreferred, Same
  <2> QED BY <2>1, <2>2
<1> QED BY <1>1, <1>2, <1>3, <1>4 DEF ViewsWhole

-----------------------------------------------------------------------------
\* Deleting rows of a whole tree leaves a whole tree.
LEMMA CutFacts ==
  ASSUME NEW tree \in Tree, NEW S \in SUBSET Category,
         \A c \in Category : tree[c] \in Category => tree[tree[c]] # Absent
  PROVE  /\ Cut(tree, S) \in Tree
         /\ \A c \in Category : Cut(tree, S)[c] \in Category =>
              /\ Cut(tree, S)[c] = tree[c] /\ tree[c] \notin S
              /\ Cut(tree, S)[Cut(tree, S)[c]] # Absent
         /\ \A c \in Category : Cut(tree, S)[c] = Absent =>
              tree[c] = Absent \/ c \in S
         /\ \A c \in Category : tree[c] = Absent => Cut(tree, S)[c] = Absent
         /\ \A c \in Category : Cut(tree, S)[c] # tree[c] =>
              c \in S \cup ChildrenIn(tree, S)
BY FreshAssumption DEF Cut, Tree, ChildrenIn

\* A deletion that waits for nobody refers to no row that another request
\* has written, and no such row refers to what it deletes.
LEMMA DeletesAlone ==
  ASSUME HierarchyInv, NEW r \in Requests, NEW q \in Requests, q # r,
         NEW S \in SUBSET Category, ~DeleteBlocked(r, S)
  PROVE  /\ held[q] \cap (S \cup ChildrenIn(View(r), S)) = {}
         /\ \A c \in held[q] : draft[q][c] \notin S
<1>1. held[q] \cap (S \cup ChildrenIn(View(r), S)) = {}
  BY DEF DeleteBlocked, Locked
<1>2. ASSUME NEW c \in held[q], draft[q][c] \in S PROVE FALSE
  <2>1. draft[q][c] = parent[c]
    BY <1>2 DEF DeleteBlocked, Referred
  <2>2. c \in Category /\ c \notin held[r]
    BY DEF HierarchyInv, TypeOK, RowLocks
  <2>3. View(r)[c] = parent[c]
    BY <2>2 DEF View
  <2>4. c \in ChildrenIn(View(r), S)
    BY <1>2, <2>1, <2>2, <2>3 DEF ChildrenIn
  <2> QED BY <1>1, <2>4
<1> QED BY <1>1, <1>2

\* The writes of a deletion that waits for nobody.
LEMMA DeletionWrites ==
  ASSUME HierarchyInv, NEW r \in Requests, NEW S \in SUBSET Category,
         ~DeleteBlocked(r, S), Write(r, Cut(View(r), S)), UNCHANGED parent,
         \A q \in Requests \ {r} : Same(q)
  PROVE  /\ held' \in [Requests -> SUBSET Category] /\ draft' \in [Requests -> Tree]
         /\ held[r] \subseteq held'[r]
         /\ WholeView(r)'
         /\ \A f \in Category : View(r)[f] = Absent /\ f \notin held[r] =>
              f \notin held'[r]
         /\ \A q \in Requests \ {r} :
              /\ held'[r] \cap held[q] = {}
              /\ Unreferred(r, q)' /\ Unreferred(q, r)'
<1> DEFINE T == Cut(View(r), S)
           D == {c \in Category : T[c] # View(r)[c]}
<1>1. View(r) \in Tree /\ TypeOK
  BY ViewType DEF HierarchyInv
<1>2. /\ T \in Tree
      /\ \A c \in Category : T[c] \in Category =>
           T[c] = View(r)[c] /\ View(r)[c] \notin S /\ T[T[c]] # Absent
      /\ \A c \in Category : T[c] = Absent => View(r)[c] = Absent \/ c \in S
      /\ \A c \in Category : View(r)[c] = Absent => T[c] = Absent
      /\ D \subseteq S \cup ChildrenIn(View(r), S)
  BY <1>1, CutFacts DEF HierarchyInv, ViewsWhole, WholeView
<1> HIDE DEF T
<1>3. /\ held'[r] = held[r] \cup D /\ \A c \in D : draft'[r][c] = T[c]
      /\ \A c \in Category \ D : draft'[r][c] = draft[r][c]
      /\ held' \in [Requests -> SUBSET Category] /\ draft' \in [Requests -> Tree]
  BY <1>1, <1>2 DEF Write, TypeOK, T, Tree
<1>4. View(r)' = T
  <2>1. \A c \in Category : View(r)'[c] = T[c]
    BY <1>3 DEF View
  <2>2. View(r)' = [c \in Category |-> View(r)'[c]] /\ T = [c \in Category |-> T[c]]
    BY <1>2 DEF View, Tree
  <2> QED BY <2>1, <2>2
<1>5. WholeView(r)'
  BY <1>2, <1>4 DEF WholeView
<1>6. ASSUME NEW f \in Category, View(r)[f] = Absent, f \notin held[r]
      PROVE  f \notin held'[r]
  BY <1>2, <1>3, <1>6
<1>7. ASSUME NEW q \in Requests \ {r}
      PROVE  /\ held'[r] \cap held[q] = {}
             /\ Unreferred(r, q)' /\ Unreferred(q, r)'
  <2>1. /\ held[q] \cap (S \cup ChildrenIn(View(r), S)) = {}
        /\ \A c \in held[q] : draft[q][c] \notin S
    BY DeletesAlone
  <2>2. held'[r] \cap held[q] = {}
    BY <1>2, <1>3, <2>1 DEF HierarchyInv, RowLocks
  <2>3. Same(q) /\ Unreferred(r, q) /\ Unreferred(q, r) /\ held[q] \subseteq Category
    BY DEF HierarchyInv, DeletionsUnreferred, TypeOK
  <2>4. Unreferred(r, q)'
    <3> SUFFICES ASSUME NEW c \in held[q], NEW p \in held'[r], draft[q][c] = p
                 PROVE  draft'[r][p] # Absent
      BY <2>3 DEF Unreferred, Same
    <3>1. CASE p \in D
      <4>1. p \notin S
        BY <2>1
      <4>2. T[p] # View(r)[p] /\ draft'[r][p] = T[p] /\ p \in Category
        BY <1>3, <3>1
      <4> QED BY <1>2, <4>1, <4>2
    <3>2. CASE p \notin D
      BY <1>3, <2>3, <3>2 DEF Unreferred, HierarchyInv, TypeOK
    <3> QED BY <3>1, <3>2
  <2>5. Unreferred(q, r)'
    <3> SUFFICES ASSUME NEW c \in held'[r], NEW p \in held[q], draft'[r][c] = p
                 PROVE  draft[q][p] # Absent
      BY <2>3 DEF Unreferred, Same
    <3>1. CASE c \in D
      <4>1. c \in Category /\ T[c] # View(r)[c] /\ T[c] = p /\ p \in Category
        BY <1>3, <2>3, <3>1
      <4> QED BY <1>2, <4>1
    <3>2. CASE c \notin D
      BY <1>3, <2>3, <3>2 DEF Unreferred, HierarchyInv, TypeOK
    <3> QED BY <3>1, <3>2
  <2> QED BY <2>2, <2>4, <2>5
<1> QED BY <1>3, <1>5, <1>6, <1>7

\* What r commits leaves every other transaction's view whole.
LEMMA CommitKeepsViews ==
  ASSUME HierarchyInv, NEW r \in Requests, NEW q \in Requests, q # r, Same(q),
         NEW S \in SUBSET Category, ~DeleteBlocked(r, S),
         parent' = Cut(View(r), S)
  PROVE  WholeView(q)'
<1> DEFINE T == Cut(View(r), S)
<1>1. View(r) \in Tree /\ View(q) \in Tree /\ TypeOK
  BY ViewType DEF HierarchyInv
<1>2. /\ \A c \in Category : T[c] \in Category =>
           T[c] = View(r)[c] /\ View(r)[c] \notin S /\ T[T[c]] # Absent
      /\ \A c \in Category : T[c] = Absent => View(r)[c] = Absent \/ c \in S
  BY <1>1, CutFacts DEF HierarchyInv, ViewsWhole, WholeView
<1>3. /\ held[q] \cap (S \cup ChildrenIn(View(r), S)) = {}
      /\ \A c \in held[q] : draft[q][c] \notin S
  BY DeletesAlone
<1> HIDE DEF T
<1>4. /\ \A c \in held[q] : View(q)'[c] = draft[q][c]
      /\ \A c \in Category \ held[q] : View(q)'[c] = T[c]
      /\ held[q] \subseteq Category
  BY <1>1 DEF View, Same, T, TypeOK
<1>5. /\ \A c \in Category : c \in held[q] => View(q)[c] = draft[q][c]
      /\ \A c \in Category : c \notin held[q] => View(q)[c] = parent[c]
      /\ \A c \in Category : c \in held[r] => View(r)[c] = draft[r][c]
      /\ \A c \in Category : c \notin held[r] => View(r)[c] = parent[c]
  BY DEF View
<1>6. /\ Unreferred(r, q) /\ Unreferred(q, r) /\ WholeView(r) /\ WholeView(q)
      /\ held[q] \cap held[r] = {}
  BY DEF HierarchyInv, DeletionsUnreferred, ViewsWhole, RowLocks
<1> SUFFICES ASSUME NEW c \in Category, NEW p \in Category, View(q)'[c] = p
             PROVE  View(q)'[p] # Absent
  BY DEF WholeView
<1>7. CASE c \in held[q]
  <2>1. draft[q][c] = p /\ View(q)[c] = p /\ p \notin S
    BY <1>3, <1>4, <1>5, <1>7
  <2>2. View(q)[p] # Absent
    BY <1>6, <2>1 DEF WholeView
  <2>3. CASE p \in held[q]
    BY <1>4, <1>5, <2>2, <2>3
  <2>4. CASE p \notin held[q]
    <3>1. View(r)[p] # Absent
      BY <1>5, <1>6, <1>7, <2>1, <2>2, <2>4 DEF Unreferred
    <3> QED BY <1>2, <1>4, <2>1, <2>4, <3>1
  <2> QED BY <2>3, <2>4
<1>8. CASE c \notin held[q]
  <2>1. T[c] = p /\ View(r)[c] = p /\ T[p] # Absent
    BY <1>2, <1>4, <1>8
  <2>2. CASE p \notin held[q]
    BY <1>4, <2>1, <2>2
  <2>3. CASE p \in held[q]
    <3>1. CASE c \in held[r]
      BY <1>4, <1>5, <1>6, <2>1, <2>3, <3>1 DEF Unreferred
    <3>2. CASE c \notin held[r]
      <4>1. View(q)[c] = p
        BY <1>5, <1>8, <2>1, <3>2
      <4> QED BY <1>4, <1>5, <1>6, <2>3, <4>1 DEF WholeView
    <3> QED BY <3>1, <3>2
  <2> QED BY <2>2, <2>3
<1> QED BY <1>7, <1>8

-----------------------------------------------------------------------------
\* A handler that ends keeps the invariant if what it commits does.
LEMMA EndStep ==
  ASSUME HierarchyInv, NEW r \in Requests, pc[r] \in Open,
         NEW o \in Ended, End(r, o), parent' \in Tree, ParentsExist',
         \A q \in Requests \ {r} : WholeView(q)',
         \A q \in Requests \ {r} : pc[q] \in Open =>
           \A f \in Fresh(q) : parent'[f] = Absent
  PROVE  HierarchyInv'
<1>1. TypeOK
  BY DEF HierarchyInv
<1>2. \A q \in Requests \ {r} : Same(q)
  BY <1>1 DEF End, Same, TypeOK
<1>3. /\ pc'[r] = o /\ held'[r] = {} /\ kids'[r] = NoKids /\ frames'[r] = <<>>
  BY <1>1 DEF End, TypeOK
<1>4. TypeOK'
  <2>1. <<>> \in Seq(FrameType)
    OBVIOUS
  <2> QED BY <1>1, <2>1 DEF End, TypeOK, Tree, Ended, NoKids, NoDraft
<1>5. Handler(r)' /\ pc'[r] \notin Open
  BY <1>3 DEF Handler, Ended, Open, Working, Updating, InTransaction
<1>6. WholeView(r)'
  BY <1>3 DEF WholeView, View, ParentsExist
<1>7. ASSUME NEW q \in Requests \ {r}
      PROVE  /\ held'[r] \cap held[q] = {}
             /\ Unreferred(r, q)' /\ Unreferred(q, r)'
  BY <1>3 DEF Unreferred
<1>8. ASSUME NEW f PROVE Untouched(f, r)'
  BY <1>3 DEF Untouched, NoKids, Ended, Updating
<1> QED BY <1>2, <1>4, <1>5, <1>6, <1>7, <1>8, OneRequest

\* A transaction that rolls back keeps it.
LEMMA FailStep ==
  ASSUME HierarchyInv, NEW r \in Requests, pc[r] \in Open,
         NEW o \in Ended, Fail(r, o)
  PROVE  HierarchyInv'
<1>1. TypeOK /\ ParentsExist /\ parent \in Tree
  BY DEF HierarchyInv, TypeOK, Tree
<1>2. ASSUME NEW q \in Requests \ {r} PROVE WholeView(q)'
  <2>1. Same(q) /\ UNCHANGED parent
    BY <1>1 DEF Fail, End, Same, TypeOK
  <2>2. View(q)' = View(q)
    BY <2>1, ViewSame
  <2> QED BY <2>2 DEF WholeView, HierarchyInv, ViewsWhole
<1>3. \A q \in Requests : pc[q] \in Open => \A f \in Fresh(q) : parent[f] = Absent
  BY DEF HierarchyInv, FreshIdentifiers
<1> QED BY <1>1, <1>2, <1>3, EndStep DEF Fail, ParentsExist

\* A step of r that writes nothing keeps it.
LEMMA MemoryStep ==
  ASSUME HierarchyInv, NEW r \in Requests, pc[r] \in Open,
         \A q \in Requests \ {r} : Same(q),
         UNCHANGED <<parent, held, draft>>, TypeOK', Handler(r)',
         \A q \in Requests \ {r} : pc[q] \in Open =>
           \A f \in Fresh(q) : Untouched(f, r)'
  PROVE  HierarchyInv'
<1>1. ParentsExist'
  BY DEF HierarchyInv, ParentsExist
<1>2. ASSUME NEW q \in Requests PROVE WholeView(q)'
  <2>1. View(q)' = View(q)
    BY DEF View
  <2> QED BY <2>1 DEF WholeView, HierarchyInv, ViewsWhole
<1>3. ASSUME NEW q \in Requests \ {r}
      PROVE  /\ held'[r] \cap held[q] = {}
             /\ Unreferred(r, q)' /\ Unreferred(q, r)'
  BY DEF HierarchyInv, RowLocks, DeletionsUnreferred, Unreferred
<1>4. \A q \in Requests : pc[q] \in Open => \A f \in Fresh(q) : parent'[f] = Absent
  BY DEF HierarchyInv, FreshIdentifiers
<1> QED BY <1>1, <1>2, <1>3, <1>4, OneRequest

\* Identifiers that clients name are made by nobody any more.
LEMMA KnownFacts ==
  /\ Known \subseteq Category
  /\ \A q \in Requests : pc[q] \in Open => Fresh(q) \cap Known = {}
<1>1. Known \subseteq Category
  BY DEF Known, Main, Category
<1>2. ASSUME NEW q \in Requests, pc[q] \in Open, NEW f \in Fresh(q) \cap Known
      PROVE  FALSE
  BY <1>2, FreshAssumption DEF Fresh, Known, Main, Sub, Open, Working
<1> QED BY <1>1, <1>2

\* What a command is.
LEMMA CommandFacts ==
  ASSUME NEW c \in Commands
  PROVE  /\ c \in Command
         /\ c.kind = "create" => c.parent \in Category \cup {Root}
         /\ c.kind \in {"update", "delete"} => c.id \in Category
         /\ c.kind = "update" => c.parent \in Category \cup {None}
BY CommandAssumption DEF Command

-----------------------------------------------------------------------------
\* What is left of a sequence of two or more.
LEMMA TailFacts ==
  ASSUME NEW S, NEW s \in Seq(S), Len(s) > 1
  PROVE  /\ Tail(s) \in Seq(S) /\ Tail(s) # <<>>
         /\ \A i \in DOMAIN Tail(s) : i + 1 \in DOMAIN s /\ Tail(s)[i] = s[i + 1]
<1> DEFINE n == Len(s)
           m == Len(Tail(s))
<1>1. n \in Nat /\ n > 1 /\ DOMAIN s = 1 .. n
  BY LenProperties
<1>2. s # <<>>
  <2>1. Len(<<>>) = 0
    OBVIOUS
  <2>2. Len(s) # 0
    BY <1>1
  <2> QED BY <2>1, <2>2, Zenon
<1>3. Tail(s) \in Seq(S) /\ m = n - 1 /\ \A i \in 1 .. m : Tail(s)[i] = s[i + 1]
  BY <1>2, HeadTailProperties
<1>4. DOMAIN Tail(s) = 1 .. m
  BY <1>3, LenProperties
<1> HIDE DEF n, m
<1>5. m # 0 /\ \A i \in 1 .. m : i + 1 \in 1 .. n
  BY <1>1, <1>3
<1>6. Tail(s) # <<>>
  <2>1. Len(<<>>) = 0
    OBVIOUS
  <2> QED BY <1>5, <2>1, Zenon DEF m
<1> QED BY <1>1, <1>3, <1>4, <1>5, <1>6

\* The head and the tail of a sequence that is not empty.
LEMMA HeadFacts ==
  ASSUME NEW S, NEW s \in Seq(S), s # <<>>
  PROVE  /\ Tail(s) \in Seq(S) /\ Head(s) = s[1] /\ 1 \in DOMAIN s /\ s[1] \in S
         /\ \A i \in DOMAIN Tail(s) : i + 1 \in DOMAIN s /\ Tail(s)[i] = s[i + 1]
<1> DEFINE n == Len(s)
           m == Len(Tail(s))
<1>1. n \in Nat /\ DOMAIN s = 1 .. n
  BY LenProperties
<1>2. Tail(s) \in Seq(S) /\ m = n - 1 /\ \A i \in 1 .. m : Tail(s)[i] = s[i + 1]
  BY HeadTailProperties
<1>3. DOMAIN Tail(s) = 1 .. m
  BY <1>2, LenProperties
<1>4. n # 0
  BY EmptySeq
<1> HIDE DEF n, m
<1>5. 1 \in DOMAIN s
  BY <1>1, <1>4
<1>6. s[1] \in S
  BY <1>1, <1>5, ElementOfSeq DEF n
<1>7. Head(s) = s[1]
  OBVIOUS
<1>8. \A i \in 1 .. m : i + 1 \in 1 .. n
  BY <1>1, <1>2
<1> QED BY <1>1, <1>2, <1>3, <1>5, <1>6, <1>7, <1>8

\* A sequence of one element.
LEMMA OneElement ==
  ASSUME NEW S, NEW f \in S
  PROVE  <<f>> \in Seq(S)
OBVIOUS

\* A sequence with a new first element.
LEMMA PushFacts ==
  ASSUME NEW S, NEW f \in S, NEW s \in Seq(S)
  PROVE  /\ <<f>> \o s \in Seq(S) /\ <<f>> \o s # <<>>
         /\ \A i \in DOMAIN (<<f>> \o s) :
              \/ (<<f>> \o s)[i] = f
              \/ \E j \in DOMAIN s : (<<f>> \o s)[i] = s[j]
<1> DEFINE t == <<f>> \o s
<1>1. <<f>> \in Seq(S) /\ Len(<<f>>) = 1 /\ <<f>>[1] = f
  OBVIOUS
<1>2. /\ t \in Seq(S) /\ Len(t) = 1 + Len(s)
      /\ \A i \in 1 .. 1 + Len(s) : t[i] = IF i <= 1 THEN <<f>>[i] ELSE s[i - 1]
  BY <1>1, ConcatProperties, Zenon
<1>3. Len(s) \in Nat /\ DOMAIN s = 1 .. Len(s) /\ DOMAIN t = 1 .. 1 + Len(s)
  BY <1>2, LenProperties
<1>4. t # <<>>
  BY <1>2, <1>3, EmptySeq
<1> HIDE DEF t
<1>5. ASSUME NEW i \in DOMAIN t
      PROVE  t[i] = f \/ \E j \in DOMAIN s : t[i] = s[j]
  <2>1. CASE i = 1
    BY <1>1, <1>2, <1>3, <2>1
  <2>2. CASE i # 1
    <3>1. i \in 1 .. 1 + Len(s) /\ i - 1 \in 1 .. Len(s) /\ ~(i <= 1)
      BY <1>3, <2>2
    <3>2. t[i] = s[i - 1]
      BY <1>2, <3>1
    <3> QED BY <1>3, <3>1, <3>2
  <2> QED BY <2>1, <2>2
<1> QED BY <1>2, <1>4, <1>5 DEF t

\* Nobody else has what a request is going to make.
LEMMA Quiet ==
  ASSUME HierarchyInv, NEW r \in Requests,
         NEW q \in Requests \ {r}, pc[q] \in Open, NEW f \in Fresh(q)
  PROVE  Untouched(f, r) /\ parent[f] = Absent /\ f \in Category
BY FreshFacts DEF HierarchyInv, FreshIdentifiers

\* create begins.
LEMMA CreateStep ==
  ASSUME HierarchyInv, NEW r \in Requests, NEW c \in Commands, CreateCategory(r, c)
  PROVE  HierarchyInv'
<1>1. TypeOK /\ pc[r] = "idle" /\ c.kind = "create" /\ Handler(r)
  BY DEF HierarchyInv, CreateCategory, Begin, HandlerState
<1>2. /\ pc' = [pc EXCEPT ![r] = "check"] /\ cmd' = [cmd EXCEPT ![r] = c]
      /\ above' = [above EXCEPT ![r] = c.parent]
      /\ kids' = [kids EXCEPT ![r][Main(r)] = Given(r, c)]
      /\ UNCHANGED <<parent, frames, held, draft>>
  BY DEF CreateCategory, Enter
<1>3. /\ c.parent \in Category \cup {Root} /\ Given(r, c) \subseteq {Sub(r)}
      /\ Main(r) \in Category /\ Sub(r) \in Category
  BY <1>1, CommandFacts, FreshFacts DEF Given
<1>4. \A q \in Requests \ {r} : Same(q)
  BY <1>1, <1>2 DEF Same, TypeOK
<1>5. TypeOK'
  BY <1>1, <1>2, <1>3 DEF TypeOK, Working
<1>6. Handler(r)'
  <2>1. kids'[r][Main(r)] = Given(r, c)
    BY <1>1, <1>2, <1>3 DEF TypeOK
  <2> QED BY <1>1, <1>2, <1>3, <2>1
        DEF Handler, TypeOK, InTransaction, Updating, Working
<1>7. ASSUME NEW q \in Requests \ {r}, pc[q] \in Open, NEW f \in Fresh(q)
      PROVE  Untouched(f, r)'
  <2>1. Untouched(f, r) /\ f # Sub(r)
    BY <1>7, Quiet, FreshFacts DEF Fresh
  <2>2. ASSUME NEW d \in Category PROVE f \notin kids'[r][d]
    BY <1>1, <1>2, <1>3, <2>1 DEF Untouched, TypeOK
  <2> QED BY <1>1, <1>2, <2>1, <2>2 DEF Untouched, Updating, TypeOK
<1> QED BY <1>1, <1>2, <1>4, <1>5, <1>6, <1>7, MemoryStep DEF Open

\* update begins.
LEMMA UpdateStep ==
  ASSUME HierarchyInv, NEW r \in Requests, NEW c \in Commands, UpdateCategory(r, c)
  PROVE  HierarchyInv'
<1>1. /\ TypeOK /\ pc[r] = "idle" /\ c.kind = "update" /\ Handler(r)
      /\ c.id \in Known
  BY DEF HierarchyInv, UpdateCategory, Begin, HandlerState
<1> DEFINE a == IF c.parent = None THEN parent[c.id] ELSE c.parent
           k == IF c.subs = None THEN LoadedKids(c.id)
                ELSE [NoKids EXCEPT ![c.id] = Given(r, c)]
<1>2. /\ pc' = [pc EXCEPT ![r] = "row"] /\ cmd' = [cmd EXCEPT ![r] = c]
      /\ above' = [above EXCEPT ![r] = a] /\ kids' = [kids EXCEPT ![r] = k]
      /\ UNCHANGED <<parent, frames, held, draft>>
  BY DEF UpdateCategory, Enter
<1>3. c.id \in Category /\ c.parent \in Category \cup {None}
  BY <1>1, CommandFacts
<1>4. a \in Category \cup {Root}
  BY <1>1, <1>3 DEF UpdateCategory, TypeOK
<1>5. /\ k \in [Category -> SUBSET Category]
      /\ \A d \in Category : \A f \in k[d] :
           f = Sub(r) \/ parent[f] \in Category
  <2>1. CASE c.subs = None
    BY <1>3, <2>1 DEF LoadedKids, ChildrenIn
  <2>2. CASE c.subs # None
    BY <1>3, <2>2, FreshFacts DEF NoKids, Given
  <2> QED BY <2>1, <2>2
<1> HIDE DEF a, k
<1>6. \A q \in Requests \ {r} : Same(q)
  BY <1>1, <1>2 DEF Same, TypeOK
<1>7. TypeOK'
  BY <1>1, <1>2, <1>4, <1>5 DEF TypeOK, Working
<1>8. Handler(r)'
  BY <1>1, <1>2, <1>4 DEF Handler, TypeOK, InTransaction, Updating, Working
<1>9. ASSUME NEW q \in Requests \ {r}, pc[q] \in Open, NEW f \in Fresh(q)
      PROVE  Untouched(f, r)'
  <2>1. /\ Untouched(f, r) /\ f # Sub(r) /\ parent[f] = Absent /\ f # c.id
        /\ Absent \notin Category
    BY <1>1, <1>9, Quiet, FreshFacts, KnownFacts, FreshAssumption DEF Fresh
  <2>2. ASSUME NEW d \in Category PROVE f \notin kids'[r][d]
    BY <1>1, <1>2, <1>5, <2>1 DEF TypeOK
  <2> QED BY <1>1, <1>2, <2>1, <2>2 DEF Untouched, TypeOK
<1> QED BY <1>1, <1>2, <1>6, <1>7, <1>8, <1>9, MemoryStep DEF Open

\* delete begins.
LEMMA DeleteStep ==
  ASSUME HierarchyInv, NEW r \in Requests, NEW c \in Commands, DeleteCategory(r, c)
  PROVE  HierarchyInv'
<1>1. /\ TypeOK /\ pc[r] = "idle" /\ c.kind = "delete" /\ Handler(r)
      /\ c.id \in Known
  BY DEF HierarchyInv, DeleteCategory, Begin, HandlerState
<1>2. /\ pc' = [pc EXCEPT ![r] = "purge"] /\ cmd' = [cmd EXCEPT ![r] = c]
      /\ UNCHANGED <<parent, above, kids, frames, held, draft>>
  BY DEF DeleteCategory, Enter
<1>3. \A q \in Requests \ {r} : Same(q)
  BY <1>1, <1>2 DEF Same, TypeOK
<1>4. TypeOK'
  BY <1>1, <1>2 DEF TypeOK, Working
<1>5. Handler(r)'
  BY <1>1, <1>2 DEF Handler, TypeOK, InTransaction, Updating, Working
<1>6. ASSUME NEW q \in Requests \ {r}, pc[q] \in Open, NEW f \in Fresh(q)
      PROVE  Untouched(f, r)'
  <2>1. Untouched(f, r) /\ f # c.id
    BY <1>1, <1>6, Quiet, KnownFacts
  <2> QED BY <1>1, <1>2, <2>1 DEF Untouched, TypeOK
<1> QED BY <1>1, <1>2, <1>3, <1>4, <1>5, <1>6, MemoryStep DEF Open

\* A depth check that passes, and the end of a call, change nothing but where
\* the handler is.
LEMMA CheckStep ==
  ASSUME HierarchyInv, NEW r \in Requests, CheckDepth(r) \/ Validate(r) \/ Return(r)
  PROVE  HierarchyInv'
<1>1. TypeOK /\ Handler(r) /\ pc[r] \in {"check", "validate", "child"}
  BY DEF HierarchyInv, HandlerState, CheckDepth, Validate, Return
<1>2. /\ pc' \in [Requests -> Working \cup {"idle", "ok", "failed", "tooDeep"}]
      /\ \/ pc[r] = "check" /\ pc'[r] = "insert"
         \/ pc[r] = "validate" /\ pc'[r] = "prune"
         \/ pc[r] = "child" /\ pc'[r] = "child"
      /\ \A q \in Requests \ {r} : pc'[q] = pc[q]
      /\ UNCHANGED <<parent, cmd, above, kids, held, draft>>
  BY <1>1 DEF CheckDepth, Validate, Return, TypeOK, Working, locals
<1>3. /\ frames' \in [Requests -> Seq(FrameType)]
      /\ \A q \in Requests \ {r} : frames'[q] = frames[q]
      /\ pc'[r] # "insert" => frames'[r] # <<>>
      /\ \A i \in DOMAIN frames'[r] :
           \E j \in DOMAIN frames[r] : frames'[r][i] = frames[r][j]
  <2>1. CASE UNCHANGED frames
    BY <1>1, <1>2, <2>1 DEF Handler, TypeOK
  <2>2. CASE Return(r)
    <3>1. /\ frames[r] \in Seq(FrameType) /\ Len(frames[r]) > 1
          /\ frames' = [frames EXCEPT ![r] = Tail(@)]
      BY <1>1, <2>2 DEF Return, TypeOK
    <3>2. Tail(frames[r]) \in Seq(FrameType) /\ Tail(frames[r]) # <<>>
      BY <3>1, TailFacts
    <3>3. ASSUME NEW i \in DOMAIN Tail(frames[r])
          PROVE  i + 1 \in DOMAIN frames[r] /\ Tail(frames[r])[i] = frames[r][i + 1]
      BY <3>1, TailFacts
    <3>4. frames'[r] = Tail(frames[r]) /\ \A q \in Requests \ {r} : frames'[q] = frames[q]
      BY <1>1, <3>1 DEF TypeOK
    <3>5. frames' \in [Requests -> Seq(FrameType)]
      BY <1>1, <3>1, <3>2 DEF TypeOK
    <3> QED BY <3>2, <3>3, <3>4, <3>5
  <2> QED BY <2>1, <2>2 DEF CheckDepth, Validate, locals
<1>4. \A q \in Requests \ {r} : Same(q)
  BY <1>2, <1>3 DEF Same
<1>5. TypeOK'
  BY <1>1, <1>2, <1>3 DEF TypeOK
<1>6. Handler(r)'
  BY <1>1, <1>2, <1>3 DEF Handler, InTransaction, Updating, Working
<1>7. ASSUME NEW q \in Requests \ {r}, pc[q] \in Open, NEW f \in Fresh(q)
      PROVE  Untouched(f, r)'
  <2>1. Untouched(f, r)
    BY <1>7, Quiet
  <2> QED BY <1>2, <1>3, <2>1 DEF Untouched, Updating
<1> QED BY <1>1, <1>2, <1>4, <1>5, <1>6, <1>7, MemoryStep DEF Open, Working

-----------------------------------------------------------------------------
\* A request that is not in its transaction reads the committed table.
LEMMA NothingHeld ==
  ASSUME HierarchyInv, NEW r \in Requests, pc[r] \notin InTransaction
  PROVE  held[r] = {} /\ View(r) = parent
<1>1. held[r] = {} /\ parent \in Tree
  BY DEF HierarchyInv, HandlerState, Handler, TypeOK, Tree
<1>2. View(r) = [c \in Category |-> parent[c]]
  BY <1>1 DEF View
<1> QED BY <1>1, <1>2 DEF Tree

\* The update of the row itself: its new parent is there and not on its way
\* out, and a parent that stays is protected by the lock on the row.
LEMMA WriteRowStep ==
  ASSUME HierarchyInv, NEW r \in Requests, WriteRow(r)
  PROVE  HierarchyInv'
<1> DEFINE id == cmd[r].id
           p == IF above[r] = Root THEN parent[id] ELSE above[r]
<1>1. /\ TypeOK /\ Handler(r) /\ pc[r] = "row" /\ ParentsExist
      /\ held[r] = {} /\ View(r) = parent
  BY NothingHeld DEF HierarchyInv, HandlerState, WriteRow, InTransaction
<1>2. /\ id \in Category /\ above[r] \in Category \cup {Root}
      /\ cmd[r] \in Commands /\ cmd[r].kind = "update"
  BY <1>1, CommandFacts DEF Handler, Working, Updating
<1>3. /\ parent[id] # Absent /\ (above[r] # Root => parent[above[r]] # Absent)
      /\ \A q \in Requests \ {r} : id \notin held[q]
      /\ \A q \in Requests \ {r} :
           ~(above[r] \in held[q] /\ draft[q][above[r]] = Absent)
  BY <1>1 DEF WriteRow, Blocked, Locked, Vanishing
<1>4. /\ held' = [held EXCEPT ![r] = {id}]
      /\ draft' = [draft EXCEPT ![r][id] = p]
      /\ frames' = [frames EXCEPT ![r] = <<Frame(id, kids[r][id], FALSE)>>]
      /\ pc' = [pc EXCEPT ![r] = "validate"]
      /\ UNCHANGED <<parent, cmd, above, kids>>
  BY <1>1 DEF WriteRow
<1>5. /\ p \in Category \cup {Root}
      /\ p \in Category => parent[p] # Absent
  BY <1>1, <1>2, <1>3 DEF TypeOK, ParentsExist
<1>6. \A q \in Requests \ {r} : p \in held[q] => draft[q][p] # Absent
  <2> SUFFICES ASSUME NEW q \in Requests \ {r}, p \in held[q], draft[q][p] = Absent
               PROVE  FALSE
    OBVIOUS
  <2>1. above[r] = Root /\ p = parent[id]
    BY <1>3
  <2>2. View(q)[id] = p /\ p \in Category
    BY <1>1, <1>2, <1>3, <2>1 DEF View, TypeOK
  <2>3. View(q)[p] = Absent
    BY <2>2 DEF View
  <2> QED BY <1>2, <2>2, <2>3 DEF HierarchyInv, ViewsWhole, WholeView
<1> HIDE DEF id, p
<1>7. Frame(id, kids[r][id], FALSE) \in FrameType
  BY <1>1, <1>2 DEF Frame, FrameType, TypeOK
<1>8. \A q \in Requests \ {r} : Same(q)
  BY <1>1, <1>4 DEF Same, TypeOK
<1>9. TypeOK'
  <2>1. held' \in [Requests -> SUBSET Category]
    BY <1>1, <1>2, <1>4 DEF TypeOK
  <2>2. draft' \in [Requests -> Tree]
    BY <1>1, <1>2, <1>4, <1>5 DEF TypeOK, Tree
  <2>3. frames' \in [Requests -> Seq(FrameType)]
    <3>1. <<Frame(id, kids[r][id], FALSE)>> \in Seq(FrameType)
      BY <1>7, OneElement
    <3> QED BY <1>1, <1>4, <3>1 DEF TypeOK
  <2> QED BY <1>1, <1>4, <2>1, <2>2, <2>3 DEF TypeOK, Tree, Working
<1>10. /\ held'[r] = {id} /\ draft'[r][id] = p /\ pc'[r] = "validate"
       /\ frames'[r] = <<Frame(id, kids[r][id], FALSE)>>
  BY <1>1, <1>2, <1>4 DEF TypeOK
<1>11. DOMAIN frames'[r] = {1} /\ frames'[r][1] = Frame(id, kids[r][id], FALSE)
  BY <1>10
<1>12. frames'[r] # <<>>
  BY <1>10
<1>13. Handler(r)'
  BY <1>1, <1>2, <1>4, <1>10, <1>11, <1>12
     DEF Handler, InTransaction, Updating, Working, Frame
<1>14. WholeView(r)'
  <2>1. id \in Category
    BY <1>2 DEF id
  <2>2. /\ View(r)'[id] = p
        /\ \A c \in Category : c # id => View(r)'[c] = parent[c]
    BY <1>4, <1>10, <2>1 DEF View
  <2>3. p # Absent
    BY <1>5, FreshAssumption
  <2> QED BY <1>1, <1>5, <2>1, <2>2, <2>3 DEF WholeView, ParentsExist
<1>15. ASSUME NEW q \in Requests \ {r} PROVE WholeView(q)'
  <2>1. View(q)' = View(q)
    BY <1>4, <1>8, ViewSame
  <2> QED BY <2>1 DEF WholeView, HierarchyInv, ViewsWhole
<1>16. ASSUME NEW q \in Requests \ {r}
       PROVE  /\ held'[r] \cap held[q] = {}
              /\ Unreferred(r, q)' /\ Unreferred(q, r)'
  <2>1. p # Absent /\ Same(q) /\ id \notin held[q]
    BY <1>3, <1>5, <1>8, FreshAssumption DEF id
  <2>2. p \in held[q] => draft[q][p] # Absent
    BY <1>6
  <2> QED BY <1>10, <2>1, <2>2 DEF Unreferred, Same
<1>17. ASSUME NEW q \in Requests \ {r}, pc[q] \in Open, NEW f \in Fresh(q)
       PROVE  parent'[f] = Absent /\ Untouched(f, r)'
  <2>1. Untouched(f, r) /\ parent[f] = Absent /\ f \in Category
    BY <1>17, Quiet
  <2>2. f # id /\ f \notin kids[r][id]
    BY <1>1, <1>2, <2>1 DEF Untouched, Updating, id
  <2> QED BY <1>4, <1>10, <1>11, <2>1, <2>2 DEF Untouched, Frame, Updating, id
<1>18. ParentsExist'
  BY <1>1, <1>4 DEF ParentsExist
<1>19. pc[r] \in Open
  BY <1>1 DEF Open, Working
<1>20. \A q \in Requests : WholeView(q)'
  BY <1>14, <1>15
<1> QED BY <1>4, <1>8, <1>9, <1>13, <1>16, <1>17, <1>18, <1>19, <1>20, OneRequest

\* The deletion of the rows that are not in memory any more.
LEMMA PruneStep ==
  ASSUME HierarchyInv, NEW r \in Requests, Prune(r)
  PROVE  HierarchyInv'
<1> DEFINE S == Stale(r)
           X == ChildrenIn(View(r), {Top(r).at})
           e == [frames[r][1] EXCEPT !.found = X]
<1>1. /\ TypeOK /\ Handler(r) /\ pc[r] = "prune" /\ ~DeleteBlocked(r, S)
      /\ Write(r, Cut(View(r), S)) /\ S \in SUBSET Category /\ X \in SUBSET Category
      /\ frames' = [frames EXCEPT ![r][1].found = X]
      /\ pc' = [pc EXCEPT ![r] = "child"]
      /\ UNCHANGED <<parent, cmd, above, kids>>
  BY DEF HierarchyInv, HandlerState, Prune, Blocked, Stale, ChildrenIn
<1> HIDE DEF S, X
<1>2. /\ frames[r] \in Seq(FrameType) /\ frames[r] # <<>>
      /\ \A i \in DOMAIN frames[r] : frames[r][i].at \in held[r]
  BY <1>1 DEF Handler, TypeOK
<1>3. 1 \in DOMAIN frames[r] /\ frames[r][1] \in FrameType
  BY <1>2, HeadFacts
<1>4. e \in FrameType /\ e.at = frames[r][1].at /\ e.left = frames[r][1].left
  BY <1>1, <1>3 DEF FrameType
<1>5. frames'[r] = [frames[r] EXCEPT ![1] = e]
  BY <1>1 DEF TypeOK
<1> HIDE DEF e
<1>6. /\ frames'[r] \in Seq(FrameType) /\ DOMAIN frames'[r] = DOMAIN frames[r]
      /\ \A i \in DOMAIN frames[r] :
           frames'[r][i].at = frames[r][i].at /\ frames'[r][i].left = frames[r][i].left
  <2>1. 1 \in 1 .. Len(frames[r])
    BY <1>2, <1>3, LenProperties
  <2>2. frames'[r] \in Seq(FrameType)
    BY <1>2, <1>4, <1>5, <2>1, ExceptSeq
  <2> QED BY <1>3, <1>4, <1>5, <2>2
<1>7. frames' \in [Requests -> Seq(FrameType)] /\ frames'[r] # <<>>
  <2>1. frames' = [frames EXCEPT ![r] = frames'[r]]
    BY <1>1 DEF TypeOK
  <2>2. frames'[r] # <<>>
    BY <1>3, <1>6
  <2> QED BY <1>1, <1>6, <2>1, <2>2 DEF TypeOK
<1>8. \A q \in Requests \ {r} : Same(q)
  BY <1>1 DEF Same, TypeOK, Write
<1>9. /\ held' \in [Requests -> SUBSET Category] /\ draft' \in [Requests -> Tree]
      /\ held[r] \subseteq held'[r] /\ WholeView(r)'
      /\ \A f \in Category : View(r)[f] = Absent /\ f \notin held[r] =>
           f \notin held'[r]
      /\ \A q \in Requests \ {r} :
           /\ held'[r] \cap held[q] = {}
           /\ Unreferred(r, q)' /\ Unreferred(q, r)'
  BY <1>1, <1>8, DeletionWrites
<1>10. TypeOK'
  BY <1>1, <1>7, <1>9 DEF TypeOK, Tree, Working
<1>11. Handler(r)'
  BY <1>1, <1>2, <1>6, <1>7, <1>9 DEF Handler, InTransaction, Updating, Working, TypeOK
<1>12. ASSUME NEW q \in Requests PROVE WholeView(q)'
  <2>1. CASE q = r
    BY <1>9, <2>1
  <2>2. CASE q # r
    <3>1. View(q)' = View(q)
      BY <1>1, <1>8, <2>2, ViewSame
    <3> QED BY <3>1 DEF WholeView, HierarchyInv, ViewsWhole
  <2> QED BY <2>1, <2>2
<1>13. ASSUME NEW q \in Requests \ {r}, pc[q] \in Open, NEW f \in Fresh(q)
       PROVE  parent'[f] = Absent /\ Untouched(f, r)'
  <2>1. Untouched(f, r) /\ parent[f] = Absent /\ f \in Category
    BY <1>13, Quiet
  <2>2. f \notin held[r] /\ View(r)[f] = Absent
    BY <2>1 DEF Untouched, View
  <2>3. f \notin held'[r]
    BY <1>9, <2>1, <2>2
  <2> QED BY <1>1, <1>6, <2>1, <2>3 DEF Untouched, Updating, TypeOK
<1>14. ParentsExist' /\ pc[r] \in Open /\ UNCHANGED parent
  BY <1>1 DEF ParentsExist, HierarchyInv, Open, Working
<1> QED BY <1>8, <1>9, <1>10, <1>11, <1>12, <1>13, <1>14, OneRequest

\* The write of a subcategory: the row it hangs below is locked and there.
LEMMA WriteChildStep ==
  ASSUME HierarchyInv, NEW r \in Requests, WriteChild(r)
  PROVE  HierarchyInv'
<1>1. /\ TypeOK /\ Handler(r) /\ pc[r] = "child" /\ UNCHANGED <<parent, cmd, above, kids>>
      /\ frames[r] \in Seq(FrameType) /\ frames[r] # <<>>
      /\ \A i \in DOMAIN frames[r] : frames[r][i].at \in held[r]
  BY DEF HierarchyInv, HandlerState, WriteChild, Handler, TypeOK
<1>2. /\ Tail(frames[r]) \in Seq(FrameType) /\ Top(r) = frames[r][1]
      /\ 1 \in DOMAIN frames[r] /\ Top(r) \in FrameType
      /\ \A i \in DOMAIN Tail(frames[r]) :
           i + 1 \in DOMAIN frames[r] /\ Tail(frames[r])[i] = frames[r][i + 1]
  BY <1>1, HeadFacts DEF Top
<1> DEFINE fresh(c) == c \notin Top(r).found
           less(c) == [Top(r) EXCEPT !.left = @ \ {c}]
           rest(c) == <<less(c)>> \o Tail(frames[r])
           call(c) == Frame(c, kids[r][c], fresh(c))
           a == Top(r).at
<1>3. PICK c \in Top(r).left :
        /\ ~Locked(r, {c}) /\ Writable(r, c)
        /\ held' = [held EXCEPT ![r] = @ \cup {c}]
        /\ draft' = [draft EXCEPT ![r][c] = Top(r).at]
        /\ IF kids[r][c] = {}
           THEN frames' = [frames EXCEPT ![r] = rest(c)] /\ UNCHANGED pc
           ELSE /\ frames' = [frames EXCEPT ![r] = <<call(c)>> \o rest(c)]
                /\ pc' = [pc EXCEPT ![r] = IF fresh(c) THEN "child" ELSE "validate"]
  BY DEF WriteChild
<1>4. c \in Category /\ a \in Category /\ a \in held[r] /\ View(r)[a] # Absent
  BY <1>1, <1>2, <1>3 DEF FrameType, Writable
<1>5. \A q \in Requests \ {r} : c \notin held[q]
  BY <1>3 DEF Locked
<1>6. less(c) \in FrameType /\ call(c) \in FrameType
      /\ less(c).at = a /\ less(c).left \subseteq Top(r).left
      /\ call(c).at = c /\ call(c).left = kids[r][c]
  <2>1. /\ less(c) \in FrameType /\ less(c).at = a
        /\ less(c).left = Top(r).left \ {c}
    BY <1>2 DEF FrameType
  <2>2. kids[r][c] \in SUBSET Category /\ fresh(c) \in BOOLEAN
    BY <1>1, <1>4 DEF TypeOK
  <2> HIDE DEF fresh
  <2>3. /\ call(c) \in FrameType /\ call(c).at = c /\ call(c).left = kids[r][c]
    BY <1>4, <2>2 DEF FrameType, Frame
  <2> QED BY <2>1, <2>3
<1> HIDE DEF less, call, fresh
<1>7. /\ rest(c) \in Seq(FrameType) /\ rest(c) # <<>>
      /\ \A i \in DOMAIN rest(c) :
           \/ rest(c)[i] = less(c)
           \/ \E j \in DOMAIN frames[r] : rest(c)[i] = frames[r][j]
  <2>1. \A i \in DOMAIN rest(c) :
          \/ rest(c)[i] = less(c)
          \/ \E j \in DOMAIN Tail(frames[r]) : rest(c)[i] = Tail(frames[r])[j]
    BY <1>2, <1>6, PushFacts
  <2>2. rest(c) \in Seq(FrameType) /\ rest(c) # <<>>
    BY <1>2, <1>6, PushFacts
  <2> HIDE DEF rest
  <2> QED BY <1>2, <2>1, <2>2
<1> HIDE DEF rest
<1>8. /\ <<call(c)>> \o rest(c) \in Seq(FrameType) /\ <<call(c)>> \o rest(c) # <<>>
      /\ \A i \in DOMAIN (<<call(c)>> \o rest(c)) :
           \/ (<<call(c)>> \o rest(c))[i] = call(c)
           \/ \E j \in DOMAIN rest(c) : (<<call(c)>> \o rest(c))[i] = rest(c)[j]
  BY <1>6, <1>7, PushFacts
<1>9. PICK s \in Seq(FrameType) :
        /\ frames' = [frames EXCEPT ![r] = s] /\ s # <<>>
        /\ \A i \in DOMAIN s :
             \/ s[i] = less(c)
             \/ s[i] = call(c)
             \/ \E j \in DOMAIN frames[r] : s[i] = frames[r][j]
  <2>1. CASE kids[r][c] = {}
    BY <1>3, <1>7, <2>1
  <2>2. CASE kids[r][c] # {}
    <3>1. \A i \in DOMAIN (<<call(c)>> \o rest(c)) :
            \/ (<<call(c)>> \o rest(c))[i] = less(c)
            \/ (<<call(c)>> \o rest(c))[i] = call(c)
            \/ \E j \in DOMAIN frames[r] : (<<call(c)>> \o rest(c))[i] = frames[r][j]
      BY <1>7, <1>8
    <3> QED BY <1>3, <1>8, <2>2, <3>1
  <2> QED BY <2>1, <2>2
<1>10. /\ frames'[r] = s /\ held'[r] = held[r] \cup {c} /\ draft'[r][c] = a
       /\ \A d \in Category : d # c => draft'[r][d] = draft[r][d]
  BY <1>1, <1>3, <1>4, <1>9 DEF TypeOK
<1>11. /\ pc' \in [Requests -> Working \cup {"idle", "ok", "failed", "tooDeep"}]
       /\ pc'[r] \in {"child", "validate"}
       /\ \A q \in Requests \ {r} : pc'[q] = pc[q]
  BY <1>1, <1>3 DEF TypeOK, Working
<1>12. \A q \in Requests \ {r} : Same(q)
  BY <1>1, <1>3, <1>9, <1>11 DEF Same, TypeOK
<1>13. TypeOK'
  <2>1. held' \in [Requests -> SUBSET Category]
    BY <1>1, <1>3, <1>4 DEF TypeOK
  <2>2. draft' \in [Requests -> Tree]
    BY <1>1, <1>3, <1>4 DEF TypeOK, Tree
  <2>3. frames' \in [Requests -> Seq(FrameType)]
    BY <1>1, <1>9 DEF TypeOK
  <2> QED BY <1>1, <1>11, <2>1, <2>2, <2>3 DEF TypeOK, Tree
<1>14. Handler(r)'
  <2>1. \A i \in DOMAIN s : s[i].at \in held'[r]
    BY <1>1, <1>4, <1>6, <1>9, <1>10
  <2> QED BY <1>1, <1>9, <1>10, <1>11, <2>1
       DEF Handler, InTransaction, Updating, Working
<1>15. WholeView(r)'
  <2>1. /\ View(r)'[c] = a
        /\ \A d \in Category : d # c => View(r)'[d] = View(r)[d]
    BY <1>1, <1>4, <1>10 DEF View
  <2>2. WholeView(r) /\ a # Absent
    BY <1>4, FreshAssumption DEF HierarchyInv, ViewsWhole
  <2> QED BY <1>4, <2>1, <2>2 DEF WholeView
<1>16. ASSUME NEW q \in Requests PROVE WholeView(q)'
  <2>1. CASE q = r
    BY <1>15, <2>1
  <2>2. CASE q # r
    <3>1. View(q)' = View(q)
      BY <1>1, <1>12, <2>2, ViewSame
    <3> QED BY <3>1 DEF WholeView, HierarchyInv, ViewsWhole
  <2> QED BY <2>1, <2>2
<1>17. ASSUME NEW q \in Requests \ {r}
       PROVE  /\ held'[r] \cap held[q] = {}
              /\ Unreferred(r, q)' /\ Unreferred(q, r)'
  <2>1. /\ a # Absent /\ Same(q) /\ c \notin held[q] /\ a \notin held[q]
        /\ held[r] \cap held[q] = {} /\ Unreferred(r, q) /\ Unreferred(q, r)
        /\ held[r] \subseteq Category
    BY <1>1, <1>4, <1>5, <1>12, FreshAssumption
       DEF HierarchyInv, RowLocks, DeletionsUnreferred, TypeOK
  <2>2. Unreferred(r, q)'
    BY <1>10, <2>1 DEF Unreferred, Same
  <2>3. Unreferred(q, r)'
    BY <1>10, <2>1 DEF Unreferred, Same
  <2> QED BY <1>10, <2>1, <2>2, <2>3
<1>18. ASSUME NEW q \in Requests \ {r}, pc[q] \in Open, NEW f \in Fresh(q)
       PROVE  parent'[f] = Absent /\ Untouched(f, r)'
  <2>1. Untouched(f, r) /\ parent[f] = Absent
    BY <1>18, Quiet
  <2>2. f # c
    BY <1>2, <1>3, <2>1 DEF Untouched
  <2>3. ASSUME NEW i \in DOMAIN s PROVE f \notin s[i].left
    BY <1>2, <1>4, <1>6, <1>9, <2>1 DEF Untouched
  <2> QED BY <1>1, <1>10, <1>11, <2>1, <2>2, <2>3 DEF Untouched, Updating
<1>19. ParentsExist' /\ pc[r] \in Open /\ UNCHANGED parent
  BY <1>1 DEF ParentsExist, HierarchyInv, Open, Working
<1> QED BY <1>12, <1>13, <1>14, <1>16, <1>17, <1>18, <1>19, OneRequest

\* deleteMany of the subcategories.
LEMMA PurgeStep ==
  ASSUME HierarchyInv, NEW r \in Requests, Purge(r)
  PROVE  HierarchyInv'
<1> DEFINE S == ChildrenIn(parent, {cmd[r].id})
<1>1. /\ TypeOK /\ Handler(r) /\ pc[r] = "purge"
      /\ held[r] = {} /\ View(r) = parent
  BY NothingHeld DEF HierarchyInv, HandlerState, Purge, InTransaction
<1>2. /\ ~DeleteBlocked(r, S) /\ Write(r, Cut(View(r), S)) /\ S \in SUBSET Category
      /\ pc' = [pc EXCEPT ![r] = "drop"]
      /\ UNCHANGED <<parent, cmd, above, kids, frames>>
  BY <1>1 DEF Purge, Blocked, ChildrenIn
<1> HIDE DEF S
<1>3. \A q \in Requests \ {r} : Same(q)
  BY <1>1, <1>2 DEF Same, TypeOK, Write
<1>4. /\ held' \in [Requests -> SUBSET Category] /\ draft' \in [Requests -> Tree]
      /\ WholeView(r)'
      /\ \A f \in Category : View(r)[f] = Absent /\ f \notin held[r] =>
           f \notin held'[r]
      /\ \A q \in Requests \ {r} :
           /\ held'[r] \cap held[q] = {}
           /\ Unreferred(r, q)' /\ Unreferred(q, r)'
  BY <1>1, <1>2, <1>3, DeletionWrites
<1>5. TypeOK'
  BY <1>1, <1>2, <1>4 DEF TypeOK, Tree, Working
<1>6. Handler(r)'
  BY <1>1, <1>2 DEF Handler, InTransaction, Updating, Working, TypeOK
<1>7. ASSUME NEW q \in Requests PROVE WholeView(q)'
  <2>1. CASE q = r
    BY <1>4, <2>1
  <2>2. CASE q # r
    <3>1. View(q)' = View(q)
      BY <1>2, <1>3, <2>2, ViewSame
    <3> QED BY <3>1 DEF WholeView, HierarchyInv, ViewsWhole
  <2> QED BY <2>1, <2>2
<1>8. ASSUME NEW q \in Requests \ {r}, pc[q] \in Open, NEW f \in Fresh(q)
      PROVE  parent'[f] = Absent /\ Untouched(f, r)'
  <2>1. Untouched(f, r) /\ parent[f] = Absent /\ f \in Category
    BY <1>8, Quiet
  <2> QED BY <1>1, <1>2, <1>4, <2>1 DEF Untouched, Updating, TypeOK
<1>9. ParentsExist' /\ pc[r] \in Open /\ UNCHANGED parent
  BY <1>1, <1>2 DEF ParentsExist, HierarchyInv, Open, Working
<1> QED BY <1>3, <1>4, <1>5, <1>6, <1>7, <1>8, <1>9, OneRequest

\* The insert of the new rows and the commit: the parent is there and not on
\* its way out, and nobody else knows the new identifiers.
LEMMA InsertStep ==
  ASSUME HierarchyInv, NEW r \in Requests, InsertCategory(r)
  PROVE  HierarchyInv'
<1> DEFINE m == Main(r)
           K == kids[r][Main(r)]
           p == above[r]
<1>1. /\ TypeOK /\ Handler(r) /\ pc[r] = "insert" /\ ParentsExist /\ End(r, "ok")
      /\ pc[r] \in Open
  BY DEF HierarchyInv, HandlerState, InsertCategory, Open, Working
<1>2. /\ p \in Category \cup {Root} /\ cmd[r].parent = p /\ K \subseteq {Sub(r)}
      /\ m \in Category /\ Sub(r) \in Category /\ m # Sub(r)
  BY <1>1, FreshFacts DEF Handler
<1>3. /\ p # Root => parent[p] # Absent
      /\ \A q \in Requests \ {r} : ~(p \in held[q] /\ draft[q][p] = Absent)
  BY <1>1, <1>2 DEF InsertCategory, Blocked, Vanishing
<1>4. /\ parent[m] = Absent /\ parent[Sub(r)] = Absent
      /\ \A q \in Requests \ {r} : m \notin held[q] /\ Sub(r) \notin held[q]
  BY <1>1 DEF HierarchyInv, FreshIdentifiers, Untouched, Fresh
<1>5. parent' = [c \in Category |-> IF c = m THEN p ELSE IF c \in K THEN m ELSE parent[c]]
  BY DEF InsertCategory
<1>6. m # Absent /\ p # Absent /\ Root \notin Category
  BY <1>2, FreshAssumption
<1> HIDE DEF m, K, p
<1>7. parent' \in Tree
  BY <1>1, <1>2, <1>5 DEF Tree, TypeOK
<1>8. ASSUME NEW c \in Category, parent'[c] \in Category
      PROVE  parent'[parent'[c]] # Absent
  <2>1. CASE c = m \/ c \in K
    BY <1>2, <1>3, <1>4, <1>5, <1>6, <1>8, <2>1
  <2>2. CASE c # m /\ c \notin K
    <3>1. parent'[c] = parent[c] /\ parent[parent[c]] # Absent
      BY <1>1, <1>5, <1>8, <2>2 DEF ParentsExist
    <3> QED BY <1>2, <1>4, <1>5, <1>8, <3>1
  <2> QED BY <2>1, <2>2
<1>9. ASSUME NEW q \in Requests \ {r} PROVE WholeView(q)'
  <2>1. Same(q) /\ WholeView(q) /\ View(q) \in Tree
    BY <1>1, ViewType DEF End, Same, TypeOK, HierarchyInv, ViewsWhole
  <2>2. /\ View(q)'[m] = p /\ View(q)[m] = Absent /\ View(q)[Sub(r)] = Absent
        /\ \A c \in K : View(q)'[c] = m
        /\ \A c \in Category : c # m /\ c \notin K => View(q)'[c] = View(q)[c]
    BY <1>2, <1>4, <1>5, <2>1 DEF View, Same
  <2>3. p \in Category => View(q)[p] # Absent
    BY <1>3, <1>6 DEF View
  <2> SUFFICES ASSUME NEW c \in Category, View(q)'[c] \in Category
               PROVE  View(q)'[View(q)'[c]] # Absent
    BY DEF WholeView
  <2>4. CASE c = m
    BY <1>2, <1>6, <2>2, <2>3, <2>4
  <2>5. CASE c \in K
    BY <1>6, <2>2, <2>5
  <2>6. CASE c # m /\ c \notin K
    <3>1. View(q)'[c] = View(q)[c] /\ View(q)[View(q)[c]] # Absent
      BY <2>1, <2>2, <2>6 DEF WholeView
    <3> QED BY <1>2, <2>2, <3>1
  <2> QED BY <2>4, <2>5, <2>6
<1>10. ASSUME NEW q \in Requests \ {r}, pc[q] \in Open, NEW f \in Fresh(q)
       PROVE  parent'[f] = Absent
  <2>1. parent[f] = Absent /\ f \in Category
    BY <1>10, Quiet
  <2>2. f # m /\ f # Sub(r)
    BY <1>10, FreshFacts DEF Fresh, m
  <2> QED BY <1>2, <1>5, <2>1, <2>2
<1> QED BY <1>1, <1>7, <1>8, <1>9, <1>10, EndStep DEF ParentsExist, Ended

\* The commit of an update.
LEMMA CommitStep ==
  ASSUME HierarchyInv, NEW r \in Requests, CommitUpdate(r)
  PROVE  HierarchyInv'
<1>1. /\ TypeOK /\ pc[r] \in Open /\ parent' = View(r) /\ WholeView(r)
      /\ View(r) \in Tree
  BY ViewType DEF HierarchyInv, CommitUpdate, ViewsWhole, Open, Working
<1>2. PICK o \in Ended : End(r, o)
  BY DEF CommitUpdate, Ended
<1>3. ~DeleteBlocked(r, {}) /\ parent' = Cut(View(r), {})
  <2>1. ChildrenIn(View(r), {}) = {}
    BY DEF ChildrenIn
  <2>2. ~DeleteBlocked(r, {})
    BY <2>1 DEF DeleteBlocked, Locked, Referred
  <2>3. Cut(View(r), {}) = [c \in Category |-> View(r)[c]]
    BY DEF Cut
  <2> QED BY <1>1, <2>2, <2>3 DEF Tree
<1>4. \A q \in Requests \ {r} : Same(q)
  BY <1>1, <1>2 DEF End, Same, TypeOK
<1>5. \A q \in Requests \ {r} : WholeView(q)'
  BY <1>3, <1>4, CommitKeepsViews
<1>6. ParentsExist'
  BY <1>1 DEF ParentsExist, WholeView
<1>7. ASSUME NEW q \in Requests \ {r}, pc[q] \in Open, NEW f \in Fresh(q)
      PROVE  parent'[f] = Absent
  BY <1>1, <1>7, Quiet DEF Untouched, View
<1> QED BY <1>1, <1>2, <1>5, <1>6, <1>7, EndStep

\* The deletion of the category and the commit.
LEMMA DropStep ==
  ASSUME HierarchyInv, NEW r \in Requests, Drop(r)
  PROVE  HierarchyInv'
<1> DEFINE S == {cmd[r].id}
<1>1. /\ TypeOK /\ Handler(r) /\ pc[r] = "drop" /\ ~DeleteBlocked(r, S)
      /\ parent' = Cut(View(r), S) /\ WholeView(r) /\ View(r) \in Tree
      /\ End(r, "ok") /\ pc[r] \in Open
  BY ViewType DEF HierarchyInv, HandlerState, Drop, Blocked, ViewsWhole, Open, Working
<1>2. S \in SUBSET Category
  BY <1>1, CommandFacts DEF Handler, Working
<1> HIDE DEF S
<1>3. /\ Cut(View(r), S) \in Tree
      /\ \A c \in Category : Cut(View(r), S)[c] \in Category =>
           Cut(View(r), S)[Cut(View(r), S)[c]] # Absent
      /\ \A c \in Category : View(r)[c] = Absent => Cut(View(r), S)[c] = Absent
  BY <1>1, <1>2, CutFacts DEF WholeView
<1>4. \A q \in Requests \ {r} : Same(q)
  BY <1>1 DEF End, Same, TypeOK
<1>5. \A q \in Requests \ {r} : WholeView(q)'
  BY <1>1, <1>2, <1>4, CommitKeepsViews
<1>6. ParentsExist'
  BY <1>1, <1>3 DEF ParentsExist
<1>7. ASSUME NEW q \in Requests \ {r}, pc[q] \in Open, NEW f \in Fresh(q)
      PROVE  parent'[f] = Absent
  <2>1. f \in Category /\ View(r)[f] = Absent
    BY <1>7, Quiet DEF Untouched, View
  <2> QED BY <1>1, <1>3, <2>1
<1> QED BY <1>1, <1>3, <1>5, <1>6, <1>7, EndStep DEF Ended

-----------------------------------------------------------------------------
\* The invariant holds at the start.
LEMMA InitHierarchyInv == Init => HierarchyInv
<1> SUFFICES ASSUME Init PROVE HierarchyInv
  OBVIOUS
<1>1. PICK tree \in [InitCategories -> InitCategories \cup {Root, Absent}] :
        parent = [c \in Category |-> IF c \in InitCategories THEN tree[c] ELSE Absent]
  BY DEF Init
<1>2. /\ pc = [r \in Requests |-> "idle"] /\ cmd = [r \in Requests |-> None]
      /\ above = [r \in Requests |-> None] /\ kids = [r \in Requests |-> NoKids]
      /\ frames = [r \in Requests |-> <<>>] /\ held = [r \in Requests |-> {}]
      /\ draft = [r \in Requests |-> NoDraft]
      /\ \A c \in Category : parent[c] \in Category => parent[parent[c]] # Absent
  BY DEF Init
<1>3. InitCategories \subseteq Category
  BY DEF Category
<1>4. TypeOK
  <2>1. <<>> \in Seq(FrameType)
    OBVIOUS
  <2>2. parent \in [Category -> Category \cup {Root, Absent}]
    BY <1>1, <1>3
  <2> QED BY <1>2, <2>1, <2>2 DEF TypeOK, NoKids, NoDraft
<1>5. HandlerState
  BY <1>2 DEF HandlerState, Handler, InTransaction, Updating, Working
<1>6. FreshIdentifiers
  <2> SUFFICES ASSUME NEW r \in Requests, NEW f \in Fresh(r)
               PROVE  parent[f] = Absent /\ \A q \in Requests \ {r} : Untouched(f, q)
    BY DEF FreshIdentifiers
  <2>1. f \in Category /\ f \notin InitCategories
    BY FreshFacts
  <2>2. parent[f] = Absent
    BY <1>1, <2>1
  <2>3. \A q \in Requests \ {r} : Untouched(f, q)
    BY <1>2 DEF Untouched, NoKids, Updating
  <2> QED BY <2>2, <2>3
<1>7. RowLocks /\ DeletionsUnreferred
  BY <1>2 DEF RowLocks, DeletionsUnreferred, Unreferred
<1>8. ParentsExist /\ ViewsWhole
  BY <1>2 DEF ParentsExist, ViewsWhole, WholeView, View
<1> QED BY <1>4, <1>5, <1>6, <1>7, <1>8 DEF HierarchyInv

\* Every step keeps it.
LEMMA NextHierarchyInv == HierarchyInv /\ [Next]_vars => HierarchyInv'
<1> SUFFICES ASSUME HierarchyInv, [Next]_vars PROVE HierarchyInv'
  OBVIOUS
<1>1. CASE UNCHANGED vars
  <2> USE <1>1 DEF vars, locals
  <2>1. /\ parent' = parent /\ pc' = pc /\ cmd' = cmd /\ above' = above
        /\ kids' = kids /\ frames' = frames /\ held' = held /\ draft' = draft
    OBVIOUS
  <2>2. TypeOK' /\ ParentsExist'
    BY <2>1 DEF HierarchyInv, TypeOK, ParentsExist
  <2>3. HandlerState'
    BY <2>1 DEF HierarchyInv, HandlerState, Handler
  <2>4. FreshIdentifiers'
    BY <2>1 DEF HierarchyInv, FreshIdentifiers, Untouched
  <2>5. RowLocks' /\ DeletionsUnreferred'
    BY <2>1 DEF HierarchyInv, RowLocks, DeletionsUnreferred, Unreferred
  <2>6. ViewsWhole'
    <3>1. \A r \in Requests : View(r)' = View(r)
      BY <2>1 DEF View
    <3> QED BY <3>1 DEF HierarchyInv, ViewsWhole, WholeView
  <2> QED BY <2>2, <2>3, <2>4, <2>5, <2>6 DEF HierarchyInv
<1>2. ASSUME NEW r \in Requests, NEW o \in Ended, Fail(r, o), pc[r] \in Open
      PROVE  HierarchyInv'
  BY <1>2, FailStep
<1>3. ASSUME NEW r \in Requests, Start(r) PROVE HierarchyInv'
  <2>1. PICK c \in Commands :
          \/ CreateCategory(r, c) \/ UpdateCategory(r, c) \/ DeleteCategory(r, c)
          \/ NotFound(r, c)
    BY <1>3 DEF Start
  <2>2. CASE NotFound(r, c)
    BY <1>2, <2>2 DEF NotFound, Begin, Open, Ended
  <2> QED BY <2>1, <2>2, CreateStep, UpdateStep, DeleteStep
<1>4. ASSUME NEW r \in Requests, Step(r) PROVE HierarchyInv'
  <2>1. CASE CheckDepth(r) \/ Validate(r) \/ Return(r)
    BY <2>1, CheckStep
  <2>2. CASE InsertCategory(r)
    BY <2>2, InsertStep
  <2>3. CASE WriteRow(r)
    BY <2>3, WriteRowStep
  <2>4. CASE Prune(r)
    BY <2>4, PruneStep
  <2>5. CASE WriteChild(r)
    BY <2>5, WriteChildStep
  <2>6. CASE CommitUpdate(r)
    BY <2>6, CommitStep
  <2>7. CASE Purge(r)
    BY <2>7, PurgeStep
  <2>8. CASE Drop(r)
    BY <2>8, DropStep
  <2>9. CASE RefuseDepth(r)
    BY <1>2, <2>9 DEF RefuseDepth, TooDeep, Open, Working, Ended
  <2>10. CASE ChildRefused(r)
    BY <1>2, <2>10 DEF ChildRefused, Open, Working, Ended
  <2>11. CASE Gone(r)
    BY <1>2, <2>11 DEF Gone, Open, Working, Ended
  <2> QED BY <1>4, <2>1, <2>2, <2>3, <2>4, <2>5, <2>6, <2>7, <2>8, <2>9, <2>10, <2>11
        DEF Step
<1>5. ASSUME NEW r \in Requests, Abort(r) PROVE HierarchyInv'
  BY <1>2, <1>5 DEF Abort, Open, Ended
<1> QED BY <1>1, <1>3, <1>4, <1>5 DEF Next, Served

\* The parentIds of the table and of what open transactions see name
\* categories that are there: the foreign key's waits, the row locks and the
\* fresh identifiers are enough, whatever commands of CategoryRepository
\* overlap, and whether or not the depth check is right.
THEOREM InductiveInvariant == Spec => []HierarchyInv
BY InitHierarchyInv, NextHierarchyInv, PTL DEF Spec

\* No category refers to one that a deletion removed, in CategoryRepository's
\* table, for every number of requests and categories.
THEOREM NoDanglingParent == Spec => []ParentsExist
<1>1. HierarchyInv => ParentsExist
  BY DEF HierarchyInv
<1> QED BY <1>1, InductiveInvariant, PTL

\* What open transactions of CategoryRepository.update and delete would commit
\* has no dangling parentId either, and no two of them write the same row.
THEOREM TransactionsWhole == Spec => [](ViewsWhole /\ RowLocks)
<1>1. HierarchyInv => ViewsWhole /\ RowLocks
  BY DEF HierarchyInv
<1> QED BY <1>1, InductiveInvariant, PTL

-----------------------------------------------------------------------------
\* A function of numbers by recursion on what it was at the number before.
Iterates(f, x, G, N) == f[0] = x /\ \A n \in 1 .. N : f[n] = G[f[n - 1]]

LEMMA IterationExists ==
  ASSUME NEW S, NEW x \in S, NEW G \in [S -> S], NEW N \in Nat
  PROVE  \E f \in [0 .. N -> S] : Iterates(f, x, G, N)
<1> DEFINE T == {m \in Nat : \E f \in [0 .. m -> S] : Iterates(f, x, G, m)}
<1>1. 0 \in T
  <2> DEFINE f == [n \in 0 .. 0 |-> x]
  <2>1. f \in [0 .. 0 -> S] /\ Iterates(f, x, G, 0)
    BY DEF Iterates
  <2> HIDE DEF f
  <2> QED
    BY <2>1
<1>2. ASSUME NEW m \in T PROVE m + 1 \in T
  <2>1. PICK f \in [0 .. m -> S] : Iterates(f, x, G, m)
    OBVIOUS
  <2> DEFINE h == [n \in 0 .. m + 1 |-> IF n = m + 1 THEN G[f[m]] ELSE f[n]]
  <2>2. h \in [0 .. m + 1 -> S] /\ h[0] = x
    BY <2>1 DEF Iterates
  <2>3. ASSUME NEW n \in 1 .. m + 1 PROVE h[n] = G[h[n - 1]]
    BY <2>1 DEF Iterates
  <2> HIDE DEF h
  <2>4. m + 1 \in Nat /\ Iterates(h, x, G, m + 1)
    BY <2>2, <2>3 DEF Iterates
  <2> QED
    BY <2>2, <2>4
<1>3. T = Nat
  BY <1>1, <1>2, Induction
<1>4. N \in T
  <2> HIDE DEF T
  <2> QED
    BY <1>3
<1> QED
  BY <1>4

-----------------------------------------------------------------------------
\* The way from a category to its root, as calculateCategoryDepth walks it.
Walk(tree, c) ==
  CHOOSE up : up = [n \in 0 .. WalkLimit |->
                      IF n = 0 THEN c
                      ELSE IF tree[up[n - 1]] \in Category
                           THEN tree[up[n - 1]]
                      ELSE up[n - 1]]
RootAt(tree, c, n) == tree[Walk(tree, c)[n]] \notin Category

LEMMA WalkSteps ==
  ASSUME NEW tree, NEW c \in Category
  PROVE  /\ Walk(tree, c) \in [0 .. WalkLimit -> Category]
         /\ Walk(tree, c)[0] = c
         /\ \A n \in 1 .. WalkLimit :
              Walk(tree, c)[n] =
                IF RootAt(tree, c, n - 1) THEN Walk(tree, c)[n - 1]
                ELSE tree[Walk(tree, c)[n - 1]]
<1> DEFINE G == [x \in Category |-> IF tree[x] \in Category THEN tree[x]
                                    ELSE x]
           F(up) == [n \in 0 .. WalkLimit |->
                      IF n = 0 THEN c
                      ELSE IF tree[up[n - 1]] \in Category
                           THEN tree[up[n - 1]]
                      ELSE up[n - 1]]
<1>1. WalkLimit \in Nat
  BY DepthAssumption
<1>2. G \in [Category -> Category]
  OBVIOUS
<1>3. PICK f \in [0 .. WalkLimit -> Category] :
        f[0] = c /\ \A n \in 1 .. WalkLimit : f[n] = G[f[n - 1]]
  <2> HIDE DEF G
  <2>1. \E f \in [0 .. WalkLimit -> Category] : Iterates(f, c, G, WalkLimit)
    BY <1>1, <1>2, IterationExists
  <2> QED
    BY <2>1 DEF Iterates
<1>4. f = F(f)
  <2>1. ASSUME NEW n \in 0 .. WalkLimit
        PROVE  f[n] = IF n = 0 THEN c
                      ELSE IF tree[f[n - 1]] \in Category
                           THEN tree[f[n - 1]]
                      ELSE f[n - 1]
    <3>1. CASE n = 0
      BY <1>3, <3>1
    <3>2. CASE n # 0
      <4>1. n \in 1 .. WalkLimit /\ n - 1 \in 0 .. WalkLimit
        BY <1>1, <3>2
      <4>2. f[n] = G[f[n - 1]] /\ f[n - 1] \in Category
        BY <1>3, <4>1
      <4> QED
        BY <3>2, <4>2
    <3> QED
      BY <3>1, <3>2
  <2>2. f = [n \in 0 .. WalkLimit |-> f[n]]
    OBVIOUS
  <2> QED
    BY <2>1, <2>2, Zenon
<1>5. Walk(tree, c) = CHOOSE up : up = F(up)
  BY DEF Walk
<1> DEFINE it == Walk(tree, c)
<1>6. it = F(it)
  BY <1>4, <1>5
<1> HIDE DEF it, F
<1>7. /\ it = [n \in 0 .. WalkLimit |-> it[n]]
      /\ \A n \in 0 .. WalkLimit :
           it[n] = IF n = 0 THEN c
                   ELSE IF tree[it[n - 1]] \in Category
                        THEN tree[it[n - 1]]
                   ELSE it[n - 1]
  BY <1>6 DEF F
<1>8. it[0] = c
  BY <1>1, <1>7
<1>9. ASSUME NEW n \in 1 .. WalkLimit
      PROVE  it[n] = IF tree[it[n - 1]] \in Category THEN tree[it[n - 1]]
                     ELSE it[n - 1]
  <2>1. n \in 0 .. WalkLimit /\ n # 0
    BY <1>1
  <2> QED
    BY <1>7, <2>1, Zenon
<1> DEFINE T == {n \in Nat : n <= WalkLimit => it[n] \in Category}
<1>10. 0 \in T
  BY <1>8
<1>11. ASSUME NEW n \in T PROVE n + 1 \in T
  <2>1. SUFFICES ASSUME n + 1 <= WalkLimit PROVE it[n + 1] \in Category
    OBVIOUS
  <2>2. it[n] \in Category /\ n + 1 \in 1 .. WalkLimit /\ (n + 1) - 1 = n
    BY <1>1, <2>1
  <2> HIDE DEF T
  <2> QED
    BY <1>9, <2>2
<1>12. T = Nat
  BY <1>10, <1>11, Induction
<1>13. ASSUME NEW n \in 0 .. WalkLimit PROVE it[n] \in Category
  <2>1. n \in T
    <3> HIDE DEF T
    <3> QED
      BY <1>1, <1>12
  <2> QED
    BY <2>1
<1>14. it \in [0 .. WalkLimit -> Category]
  BY <1>7, <1>13
<1> QED
  BY <1>8, <1>9, <1>14 DEF it, RootAt

\* What a step of the way starts with is left behind.
LEMMA WalkFromParent ==
  ASSUME NEW tree, NEW c \in Category, tree[c] \in Category,
         NEW n \in Nat, n + 1 <= WalkLimit
  PROVE  Walk(tree, c)[n + 1] = Walk(tree, tree[c])[n]
<1> DEFINE T == {m \in Nat : m + 1 <= WalkLimit =>
                               Walk(tree, c)[m + 1] = Walk(tree, tree[c])[m]}
<1>1. WalkLimit \in Nat /\ WalkLimit >= 1
  BY DepthAssumption
<1>2. 0 \in T
  <2>1. Walk(tree, c)[0 + 1] = tree[c]
    <3>1. 1 \in 1 .. WalkLimit /\ 1 - 1 = 0 /\ 0 + 1 = 1
      BY <1>1
    <3>2. Walk(tree, c)[1] = IF RootAt(tree, c, 0) THEN Walk(tree, c)[0]
                             ELSE tree[Walk(tree, c)[0]]
      BY <3>1, WalkSteps
    <3> QED
      BY <3>1, <3>2, WalkSteps DEF RootAt
  <2> QED
    BY <2>1, WalkSteps
<1>3. ASSUME NEW m \in T PROVE m + 1 \in T
  <2>1. SUFFICES ASSUME (m + 1) + 1 <= WalkLimit
                 PROVE  Walk(tree, c)[(m + 1) + 1] = Walk(tree, tree[c])[m + 1]
    OBVIOUS
  <2>2. /\ (m + 1) + 1 \in 1 .. WalkLimit /\ ((m + 1) + 1) - 1 = m + 1
        /\ m + 1 \in 1 .. WalkLimit /\ (m + 1) - 1 = m
    BY <1>1, <2>1
  <2>3. Walk(tree, c)[m + 1] = Walk(tree, tree[c])[m]
    BY <1>1, <2>1
  <2> HIDE DEF T
  <2>4. Walk(tree, c)[(m + 1) + 1] =
          IF RootAt(tree, c, m + 1) THEN Walk(tree, c)[m + 1]
          ELSE tree[Walk(tree, c)[m + 1]]
    BY <2>2, WalkSteps
  <2>5. Walk(tree, tree[c])[m + 1] =
          IF RootAt(tree, tree[c], m) THEN Walk(tree, tree[c])[m]
          ELSE tree[Walk(tree, tree[c])[m]]
    BY <2>2, WalkSteps
  <2> QED
    BY <2>3, <2>4, <2>5 DEF RootAt
<1>4. T = Nat
  BY <1>2, <1>3, Induction
<1>5. n \in T
  <2> HIDE DEF T
  <2> QED
    BY <1>4
<1> QED
  BY <1>5

\* At a root the way ends.
LEMMA WalkEnds ==
  ASSUME NEW tree, NEW c \in Category, NEW m \in Nat, NEW n \in Nat,
         m <= n, n <= WalkLimit, RootAt(tree, c, m)
  PROVE  Walk(tree, c)[n] = Walk(tree, c)[m]
<1> DEFINE T == {k \in Nat : m + k <= WalkLimit =>
                               Walk(tree, c)[m + k] = Walk(tree, c)[m]}
<1>1. WalkLimit \in Nat
  BY DepthAssumption
<1>2. 0 \in T
  OBVIOUS
<1>3. ASSUME NEW k \in T PROVE k + 1 \in T
  <2>1. SUFFICES ASSUME m + (k + 1) <= WalkLimit
                 PROVE  Walk(tree, c)[m + (k + 1)] = Walk(tree, c)[m]
    OBVIOUS
  <2>2. m + (k + 1) \in 1 .. WalkLimit /\ (m + (k + 1)) - 1 = m + k
    BY <1>1, <2>1
  <2>3. Walk(tree, c)[m + k] = Walk(tree, c)[m]
    BY <1>1, <2>1
  <2> HIDE DEF T
  <2>4. Walk(tree, c)[m + (k + 1)] =
          IF RootAt(tree, c, m + k) THEN Walk(tree, c)[m + k]
          ELSE tree[Walk(tree, c)[m + k]]
    BY <2>2, WalkSteps
  <2> QED
    BY <2>3, <2>4 DEF RootAt
<1>4. T = Nat
  BY <1>2, <1>3, Induction
<1>5. n - m \in T
  <2> HIDE DEF T
  <2> QED
    BY <1>4
<1>6. n - m \in Nat /\ m + (n - m) = n
  OBVIOUS
<1> QED
  BY <1>5, <1>6

\* Nobody on the way is gone.
Standing(tree) ==
  \A c \in Category : tree[c] \in Category => tree[tree[c]] # Absent

LEMMA WalkStands ==
  ASSUME NEW tree, Standing(tree), NEW c \in Category, tree[c] # Absent,
         NEW n \in Nat, n <= WalkLimit
  PROVE  tree[Walk(tree, c)[n]] # Absent
<1> DEFINE T == {m \in Nat : m <= WalkLimit => tree[Walk(tree, c)[m]] # Absent}
<1>1. WalkLimit \in Nat
  BY DepthAssumption
<1>2. 0 \in T
  BY WalkSteps
<1>3. ASSUME NEW m \in T PROVE m + 1 \in T
  <2>1. SUFFICES ASSUME m + 1 <= WalkLimit
                 PROVE  tree[Walk(tree, c)[m + 1]] # Absent
    OBVIOUS
  <2>2. m + 1 \in 1 .. WalkLimit /\ (m + 1) - 1 = m /\ m \in 0 .. WalkLimit
    BY <1>1, <2>1
  <2>3. tree[Walk(tree, c)[m]] # Absent
    BY <1>1, <2>1
  <2> HIDE DEF T
  <2>4. Walk(tree, c)[m + 1] = IF RootAt(tree, c, m) THEN Walk(tree, c)[m]
                         ELSE tree[Walk(tree, c)[m]]
    BY <2>2, WalkSteps
  <2>5. Walk(tree, c)[m] \in Category
    BY <2>2, WalkSteps
  <2> QED
    BY <2>3, <2>4, <2>5 DEF RootAt, Standing
<1>4. T = Nat
  BY <1>2, <1>3, Induction
<1>5. n \in T
  <2> HIDE DEF T
  <2> QED
    BY <1>4
<1> QED
  BY <1>5

\* How long the way is.
LEMMA DepthOfWalk ==
  ASSUME NEW tree, NEW c \in Category
  PROVE  /\ \A n \in 0 .. WalkLimit - 1 :
              /\ RootAt(tree, c, n)
              /\ \A m \in 0 .. n - 1 : ~RootAt(tree, c, m)
              => Depth(tree, c) = 1 + n
         /\ (\A n \in 0 .. WalkLimit - 1 : ~RootAt(tree, c, n)) =>
              Depth(tree, c) = WalkLimit + 1
<1> DEFINE First(n) == /\ RootAt(tree, c, n)
                       /\ \A m \in 0 .. n - 1 : ~RootAt(tree, c, m)
<1>1. Depth(tree, c) =
        IF \E n \in 0 .. WalkLimit - 1 : RootAt(tree, c, n)
        THEN 1 + CHOOSE n \in 0 .. WalkLimit - 1 : First(n)
        ELSE WalkLimit + 1
  BY DEF Depth, Walk, RootAt
<1>2. ASSUME NEW n \in 0 .. WalkLimit - 1, First(n),
             NEW m \in 0 .. WalkLimit - 1, First(m)
      PROVE  n = m
  <2>1. n \in Int /\ m \in Int
    OBVIOUS
  <2>2. ~(n < m) /\ ~(m < n)
    BY <1>2
  <2> QED
    BY <2>1, <2>2
<1>3. ASSUME NEW n \in 0 .. WalkLimit - 1, First(n)
      PROVE  Depth(tree, c) = 1 + n
  <2>1. (CHOOSE m \in 0 .. WalkLimit - 1 : First(m)) = n
    <3> HIDE DEF First
    <3> QED
      BY <1>2, <1>3
  <2> QED
    BY <1>1, <1>3, <2>1
<1> QED
  BY <1>1, <1>3

LEMMA FirstRoot ==
  ASSUME NEW tree, NEW c \in Category
  PROVE  \/ /\ \A n \in 0 .. WalkLimit - 1 : ~RootAt(tree, c, n)
            /\ Depth(tree, c) = WalkLimit + 1
         \/ \E n \in 0 .. WalkLimit - 1 :
              /\ RootAt(tree, c, n) /\ \A m \in 0 .. n - 1 : ~RootAt(tree, c, m)
              /\ Depth(tree, c) = 1 + n
<1>1. WalkLimit \in Nat
  BY DepthAssumption
<1>2. CASE \A n \in 0 .. WalkLimit - 1 : ~RootAt(tree, c, n)
  BY <1>2, DepthOfWalk
<1>3. CASE \E n \in 0 .. WalkLimit - 1 : RootAt(tree, c, n)
  <2> DEFINE T == {k \in Nat : RootAt(tree, c, k)}
  <2>1. PICK n \in 0 .. WalkLimit - 1 : RootAt(tree, c, n)
    BY <1>3
  <2>2. PICK k \in T : \A m \in T : k <= m
    <3>1. n \in T
      BY <1>1, <2>1
    <3>2. T \in SUBSET Nat
      OBVIOUS
    <3> HIDE DEF T
    <3> QED
      BY <3>1, <3>2, LeastNatural
  <2>3. k \in Nat /\ RootAt(tree, c, k) /\ k <= n
    BY <1>1, <2>1, <2>2
  <2>4. \A m \in 0 .. k - 1 : ~RootAt(tree, c, m)
    BY <2>2, <2>3
  <2>5. k \in 0 .. WalkLimit - 1
    BY <1>1, <2>3
  <2>6. Depth(tree, c) = 1 + k
    BY <2>3, <2>4, <2>5, DepthOfWalk
  <2> HIDE DEF T
  <2> QED
    BY <2>3, <2>4, <2>5, <2>6
<1> QED
  BY <1>2, <1>3

\* What is below e has e on its way.
LEMMA BelowOnWay ==
  ASSUME NEW e \in Category
  PROVE  Below(e) = {x \in Category : \E k \in 0 .. IncludeDepth :
                                        parent[Walk(parent, x)[k]] = e}
<1> DEFINE P(n) == {x \in Category :
                      \E k \in 0 .. n : parent[Walk(parent, x)[k]] = e}
           G == [S \in SUBSET Category |-> S \cup ChildrenIn(parent, S)]
           F(f) == [n \in 0 .. IncludeDepth |->
                      IF n = 0 THEN ChildrenIn(parent, {e})
                      ELSE f[n - 1] \cup ChildrenIn(parent, f[n - 1])]
           it == CHOOSE f : f = F(f)
<1>1. /\ IncludeDepth \in Nat /\ WalkLimit \in Nat
      /\ IncludeDepth < WalkLimit
  BY DepthAssumption DEF IncludeDepth
<1>2. Below(e) = it[IncludeDepth]
  BY DEF Below
<1>3. it = F(it)
  <2>1. /\ ChildrenIn(parent, {e}) \in SUBSET Category
        /\ G \in [SUBSET Category -> SUBSET Category]
    BY DEF ChildrenIn
  <2>2. PICK f \in [0 .. IncludeDepth -> SUBSET Category] :
          Iterates(f, ChildrenIn(parent, {e}), G, IncludeDepth)
    <3> HIDE DEF G
    <3> QED
      BY <1>1, <2>1, IterationExists
  <2>3. ASSUME NEW n \in 0 .. IncludeDepth
        PROVE  f[n] = IF n = 0 THEN ChildrenIn(parent, {e})
                      ELSE f[n - 1] \cup ChildrenIn(parent, f[n - 1])
    <3>1. CASE n = 0
      BY <2>2, <3>1 DEF Iterates
    <3>2. CASE n # 0
      <4>1. n \in 1 .. IncludeDepth /\ n - 1 \in 0 .. IncludeDepth
        BY <1>1, <3>2
      <4>2. f[n] = G[f[n - 1]] /\ f[n - 1] \in SUBSET Category
        BY <2>2, <4>1 DEF Iterates
      <4> QED
        BY <3>2, <4>2
    <3> QED
      BY <3>1, <3>2
  <2>4. f = [n \in 0 .. IncludeDepth |-> f[n]]
    OBVIOUS
  <2>5. f = F(f)
    BY <2>3, <2>4, Zenon
  <2> QED
    BY <2>5
<1> HIDE DEF it
<1>4. \A n \in 0 .. IncludeDepth :
        it[n] = IF n = 0 THEN ChildrenIn(parent, {e})
                ELSE it[n - 1] \cup ChildrenIn(parent, it[n - 1])
  BY <1>3
<1> HIDE DEF F, G
<1> DEFINE T == {n \in Nat : n <= IncludeDepth => it[n] = P(n)}
<1>5. 0 \in T
  <2>1. it[0] = {x \in Category : parent[x] = e}
    <3>1. 0 \in 0 .. IncludeDepth
      BY <1>1
    <3>2. it[0] = ChildrenIn(parent, {e})
      BY <1>4, <3>1
    <3> QED
      BY <3>2 DEF ChildrenIn
  <2>2. ASSUME NEW x \in Category
        PROVE  x \in P(0) <=> parent[x] = e
    BY WalkSteps
  <2>3. it[0] = P(0)
    BY <2>1, <2>2
  <2> QED
    BY <2>3
<1>6. ASSUME NEW n \in T PROVE n + 1 \in T
  <2>1. SUFFICES ASSUME n + 1 <= IncludeDepth PROVE it[n + 1] = P(n + 1)
    OBVIOUS
  <2>2. it[n] = P(n) /\ n \in Nat
    BY <1>1, <2>1
  <2>3. n + 1 \in 0 .. IncludeDepth /\ n + 1 # 0 /\ (n + 1) - 1 = n
    BY <1>1, <2>1
  <2> HIDE DEF T
  <2>4. it[n + 1] = P(n) \cup {x \in Category : parent[x] \in P(n)}
    <3>1. it[n + 1] = it[n] \cup ChildrenIn(parent, it[n])
      BY <1>4, <2>3
    <3> HIDE DEF P
    <3> QED
      BY <2>2, <3>1 DEF ChildrenIn
  <2>5. ASSUME NEW x \in Category, parent[x] \in P(n) PROVE x \in P(n + 1)
    <3>1. PICK k \in 0 .. n : parent[Walk(parent, parent[x])[k]] = e
      BY <2>5
    <3>2. /\ Walk(parent, x)[k + 1] = Walk(parent, parent[x])[k]
          /\ k + 1 \in 0 .. n + 1
      BY <1>1, <2>1, <2>2, <2>5, WalkFromParent
    <3> QED
      BY <3>1, <3>2
  <2>6. ASSUME NEW x \in Category, x \in P(n + 1), x \notin P(n)
        PROVE  parent[x] \in P(n)
    <3>1. parent[Walk(parent, x)[n + 1]] = e
      BY <2>2, <2>6
    <3>2. parent[x] \in Category
      <4>1. SUFFICES ASSUME parent[x] \notin Category PROVE FALSE
        OBVIOUS
      <4>2. Walk(parent, x)[0] = x
        BY WalkSteps
      <4>3. RootAt(parent, x, 0)
        BY <4>1, <4>2 DEF RootAt
      <4>4. Walk(parent, x)[n + 1] = x
        BY <1>1, <2>1, <2>2, <4>2, <4>3, WalkEnds
      <4> QED
        BY <3>1, <4>1, <4>4
    <3>3. Walk(parent, x)[n + 1] = Walk(parent, parent[x])[n]
      BY <1>1, <2>1, <2>2, <3>2, WalkFromParent
    <3>4. n \in 0 .. n
      BY <2>2
    <3> QED
      BY <3>1, <3>2, <3>3, <3>4
  <2>7. P(n) \subseteq P(n + 1)
    BY <2>2
  <2>8. P(n + 1) \subseteq Category
    OBVIOUS
  <2> HIDE DEF P
  <2> QED
    BY <2>4, <2>5, <2>6, <2>7, <2>8
<1>7. T = Nat
  BY <1>5, <1>6, Induction
<1>8. IncludeDepth \in T
  <2> HIDE DEF T
  <2> QED
    BY <1>1, <1>7
<1> QED
  BY <1>1, <1>2, <1>8

-----------------------------------------------------------------------------
\* The roots whose entry in the nested listing has c.
Shows(e, c) == c = e \/ c \in Below(e)
RootsOver(c) == {e \in Category : parent[e] = Root /\ Shows(e, c)}

LEMMA ShowsOnWay ==
  ASSUME NEW c \in Category, NEW e \in Category
  PROVE  Shows(e, c) <=> \E n \in 0 .. IncludeDepth + 1 : Walk(parent, c)[n] = e
<1>1. /\ IncludeDepth \in Nat /\ WalkLimit \in Nat
      /\ IncludeDepth < WalkLimit
  BY DepthAssumption DEF IncludeDepth
<1>2. Walk(parent, c)[0] = c /\ 0 \in 0 .. IncludeDepth + 1
  BY <1>1, WalkSteps
<1>3. ASSUME NEW k \in 0 .. IncludeDepth
      PROVE  /\ k \in Nat /\ k + 1 \in 0 .. IncludeDepth + 1
             /\ Walk(parent, c)[k + 1] =
                  IF RootAt(parent, c, k) THEN Walk(parent, c)[k]
                  ELSE parent[Walk(parent, c)[k]]
  <2>1. k + 1 \in 1 .. WalkLimit /\ (k + 1) - 1 = k
    BY <1>1
  <2>2. Walk(parent, c)[k + 1] =
          IF RootAt(parent, c, (k + 1) - 1) THEN Walk(parent, c)[(k + 1) - 1]
          ELSE parent[Walk(parent, c)[(k + 1) - 1]]
    BY <2>1, WalkSteps
  <2>3. k \in Nat /\ k + 1 \in 0 .. IncludeDepth + 1
    BY <1>1
  <2> QED
    BY <2>1, <2>2, <2>3
<1>4. ASSUME c \in Below(e)
      PROVE  \E n \in 0 .. IncludeDepth + 1 : Walk(parent, c)[n] = e
  <2>1. PICK k \in 0 .. IncludeDepth : parent[Walk(parent, c)[k]] = e
    BY <1>4, BelowOnWay
  <2>2. Walk(parent, c)[k + 1] = e
    BY <1>3, <2>1 DEF RootAt
  <2> QED
    BY <1>3, <2>2
<1>5. ASSUME NEW n \in 0 .. IncludeDepth + 1, Walk(parent, c)[n] = e, c # e
      PROVE  c \in Below(e)
  <2> DEFINE T == {k \in Nat : Walk(parent, c)[k] = e}
  <2>1. n \in T
    BY <1>1, <1>5
  <2>2. PICK k \in T : \A m \in T : k <= m
    <3> HIDE DEF T
    <3>1. T # {}
      BY <2>1
    <3>2. T \in SUBSET Nat
      BY DEF T
    <3> QED
      BY <3>1, <3>2, LeastNatural
  <2>3. /\ k \in Nat /\ k # 0 /\ k <= n /\ n <= IncludeDepth + 1
        /\ Walk(parent, c)[k] = e
    BY <1>1, <1>2, <1>5, <2>1, <2>2
  <2>4. k - 1 \in 0 .. IncludeDepth /\ (k - 1) + 1 = k
    BY <1>1, <2>3
  <2>5. k - 1 \notin T
    BY <2>2, <2>3
  <2>6. Walk(parent, c)[k - 1] # e
    BY <2>4, <2>5
  <2> HIDE DEF T
  <2>7. Walk(parent, c)[(k - 1) + 1] =
          IF RootAt(parent, c, k - 1) THEN Walk(parent, c)[k - 1]
          ELSE parent[Walk(parent, c)[k - 1]]
    BY <1>3, <2>4
  <2>8. parent[Walk(parent, c)[k - 1]] = e
    BY <2>3, <2>4, <2>6, <2>7
  <2> QED
    BY <2>4, <2>8, BelowOnWay
<1> QED
  BY <1>2, <1>4, <1>5 DEF Shows

LEMMA OneRootOver ==
  ASSUME NEW c \in Category, NEW e \in RootsOver(c), NEW f \in RootsOver(c)
  PROVE  e = f
<1>1. IncludeDepth \in Nat /\ WalkLimit \in Nat /\ IncludeDepth < WalkLimit
  BY DepthAssumption DEF IncludeDepth
<1>2. /\ e \in Category /\ parent[e] = Root /\ Shows(e, c)
      /\ f \in Category /\ parent[f] = Root /\ Shows(f, c)
  BY DEF RootsOver
<1>3. PICK m \in 0 .. IncludeDepth + 1 : Walk(parent, c)[m] = e
  BY <1>2, ShowsOnWay
<1>4. PICK n \in 0 .. IncludeDepth + 1 : Walk(parent, c)[n] = f
  BY <1>2, ShowsOnWay
<1>5. RootAt(parent, c, m) /\ RootAt(parent, c, n)
  BY <1>2, <1>3, <1>4, FreshAssumption DEF RootAt
<1>6. m \in Nat /\ n \in Nat /\ m <= WalkLimit /\ n <= WalkLimit
  BY <1>1
<1>7. m <= n \/ n <= m
  BY <1>6
<1> QED
  BY <1>3, <1>4, <1>5, <1>6, <1>7, WalkEnds

\* A category within the included levels is below a root, and no other is.
LEMMA RootOver ==
  ASSUME TypeOK, ParentsExist, WalkLimit > MaxDepth + 1, NEW c \in Category
  PROVE  RootsOver(c) # {} <=>
           parent[c] # Absent /\ Depth(parent, c) <= IncludeDepth + 2
<1> DEFINE K == IncludeDepth + 1
<1>1. K \in Nat /\ WalkLimit \in Nat /\ K <= WalkLimit - 1
  BY DepthAssumption DEF IncludeDepth
<1>2. ASSUME NEW n \in Nat, n <= K, RootAt(parent, c, n)
      PROVE  Depth(parent, c) <= K + 1
  <2> DEFINE T == {k \in Nat : RootAt(parent, c, k)}
  <2>1. PICK k \in T : \A m \in T : k <= m
    <3>1. n \in T
      BY <1>2
    <3>2. T \in SUBSET Nat
      OBVIOUS
    <3> HIDE DEF T
    <3> QED
      BY <3>1, <3>2, LeastNatural
  <2>2. k \in Nat /\ RootAt(parent, c, k) /\ k <= n
    BY <1>2, <2>1
  <2>3. ASSUME NEW m \in 0 .. k - 1 PROVE ~RootAt(parent, c, m)
    BY <2>1, <2>2
  <2>4. k \in 0 .. WalkLimit - 1
    BY <1>1, <1>2, <2>2
  <2>5. Depth(parent, c) = 1 + k
    BY <2>2, <2>3, <2>4, DepthOfWalk
  <2> QED
    BY <1>1, <1>2, <2>2, <2>5
<1>3. ASSUME \A n \in 0 .. K : ~RootAt(parent, c, n)
      PROVE  Depth(parent, c) \in Nat /\ Depth(parent, c) > K + 1
  <2>1. CASE Depth(parent, c) = WalkLimit + 1
    BY <1>1, <2>1
  <2>2. ASSUME NEW k \in 0 .. WalkLimit - 1, RootAt(parent, c, k),
               Depth(parent, c) = 1 + k
        PROVE  Depth(parent, c) \in Nat /\ Depth(parent, c) > K + 1
    <3>1. k \in Nat /\ k \notin 0 .. K
      BY <1>1, <1>3, <2>2
    <3> HIDE DEF K
    <3> QED
      BY <1>1, <2>2, <3>1
  <2> HIDE DEF K
  <2> QED
    BY <2>1, <2>2, FirstRoot
<1>4. ASSUME parent[c] # Absent, Depth(parent, c) <= K + 1
      PROVE  RootsOver(c) # {}
  <2>1. PICK n \in 0 .. K : RootAt(parent, c, n)
    <3>1. ASSUME \A n \in 0 .. K : ~RootAt(parent, c, n) PROVE FALSE
      BY <1>1, <1>3, <1>4, <3>1
    <3> QED
      BY <3>1
  <2>2. n \in Nat /\ n \in 0 .. WalkLimit /\ n <= WalkLimit
    BY <1>1
  <2> DEFINE e == Walk(parent, c)[n]
  <2>3. e \in Category /\ parent[e] # Absent /\ parent[e] \notin Category
    <3>1. Standing(parent)
      BY DEF Standing, ParentsExist
    <3>2. e \in Category
      <4>1. Walk(parent, c) \in [0 .. WalkLimit -> Category]
        BY WalkSteps
      <4> QED
        BY <2>2, <4>1
    <3>3. parent[e] # Absent
      BY <1>4, <2>2, <3>1, WalkStands
    <3> QED
      BY <2>1, <3>2, <3>3 DEF RootAt
  <2>4. parent[e] = Root
    BY <2>3 DEF TypeOK
  <2>5. Shows(e, c)
    BY <2>1, <2>3, ShowsOnWay
  <2> QED
    BY <2>3, <2>4, <2>5 DEF RootsOver
<1>5. ASSUME NEW e \in RootsOver(c)
      PROVE  parent[c] # Absent /\ Depth(parent, c) <= K + 1
  <2>1. e \in Category /\ parent[e] = Root
    BY DEF RootsOver
  <2>2. PICK n \in 0 .. K : Walk(parent, c)[n] = e
    BY ShowsOnWay DEF RootsOver
  <2>3. RootAt(parent, c, n) /\ n \in Nat /\ n <= K /\ n <= WalkLimit
    BY <1>1, <2>1, <2>2, FreshAssumption DEF RootAt
  <2>4. ASSUME parent[c] = Absent PROVE FALSE
    <3>1. Walk(parent, c)[0] = c
      BY WalkSteps
    <3>2. RootAt(parent, c, 0)
      BY <2>4, <3>1, FreshAssumption DEF RootAt
    <3>3. Walk(parent, c)[n] = c
      BY <1>1, <2>3, <3>1, <3>2, WalkEnds
    <3> QED
      BY <2>1, <2>2, <2>4, <3>3, FreshAssumption
  <2> QED
    BY <1>2, <2>3, <2>4
<1>6. K + 1 = IncludeDepth + 2
  BY DepthAssumption DEF IncludeDepth
<1> QED
  BY <1>4, <1>5, <1>6

-----------------------------------------------------------------------------
\* What the pages show: an entry for each row that the where clause selects.
Entry(e, nested) == [id |-> e, below |-> IF nested THEN Below(e) ELSE {}]
Rows(under, nested) == Ordered(Selected(under, nested))

LEMMA PageAnswer ==
  ASSUME NEW under, NEW nested, NEW limit \in Nat \ {0},
         NEW p \in Nat \ {0}, Rows(under, nested) # <<>>
  PROVE  /\ AllCategories(under, nested, p, limit).status = "ok"
         /\ AllCategories(under, nested, p, limit).entries =
              [i \in DOMAIN Page(Rows(under, nested), p, limit) |->
                 Entry(Page(Rows(under, nested), p, limit)[i], nested)]
         /\ AllCategories(under, nested, p, limit).hasMore =
              HasMore(Rows(under, nested), p, limit)
<1>1. ~BadRequest(p, limit)
  BY DEF BadRequest
<1> QED
  BY <1>1 DEF AllCategories, Rows, Entry

LEMMA SelectedAreListed ==
  ASSUME IsFiniteSet(Category), NEW under, NEW nested
  PROVE  /\ Rows(under, nested) \in Seq(Selected(under, nested))
         /\ Lists(Rows(under, nested), Selected(under, nested))
<1>1. Selected(under, nested) \subseteq Category
  BY DEF Selected
<1>2. IsFiniteSet(Selected(under, nested))
  BY <1>1, FS_Subset
<1> QED
  BY <1>2, OrderedLists DEF Rows, Lists

LEMMA EntriesAreRows ==
  ASSUME IsFiniteSet(Category), NEW under, NEW nested, NEW limit \in Nat \ {0}
  PROVE  Entries(under, nested, limit) =
           {Entry(e, nested) : e \in Selected(under, nested)}
<1> DEFINE S == Selected(under, nested)
           rows == Rows(under, nested)
           N == Len(rows) + 1
           answer == [p \in 1 .. N |-> AllCategories(under, nested, p, limit)]
           Read(p) == \A q \in 1 .. p - 1 :
                        answer[q].status = "ok" /\ answer[q].hasMore
           shown == Entries(under, nested, limit)
<1>1. rows \in Seq(S) /\ Lists(rows, S)
  BY SelectedAreListed
<1>2. Answers(under, nested, limit) =
        {answer[p] : p \in {p \in 1 .. N : Read(p)}}
  BY DEF Answers, Rows
<1>3. shown = UNION {{a.entries[i] : i \in DOMAIN a.entries} :
                       a \in {a \in Answers(under, nested, limit) :
                                a.status = "ok"}}
  BY DEF Entries
<1>4. Len(rows) \in Nat /\ N \in Nat
  BY <1>1
<1>5. CASE rows = <<>>
  <2>1. S = {}
    BY <1>1, <1>5 DEF Lists
  <2>2. ASSUME NEW p \in 1 .. N PROVE answer[p].status # "ok"
    <3>1. ~BadRequest(p, limit)
      BY <1>4 DEF BadRequest
    <3>2. AllCategories(under, nested, p, limit) = NotFoundAnswer
      BY <1>5, <3>1 DEF AllCategories, Rows
    <3>3. NotFoundAnswer.status # "ok"
      BY DEF NotFoundAnswer
    <3>4. answer[p] = AllCategories(under, nested, p, limit)
      OBVIOUS
    <3> HIDE DEF answer
    <3> QED
      BY <3>2, <3>3, <3>4
  <2> HIDE DEF answer, Read
  <2>3. ASSUME NEW a \in Answers(under, nested, limit) PROVE a.status # "ok"
    BY <1>2, <2>2
  <2>4. shown = {}
    BY <1>3, <2>3
  <2> QED
    BY <2>1, <2>4
<1>6. CASE rows # <<>>
  <2>1. ASSUME NEW p \in 1 .. N
        PROVE  /\ p \in Nat \ {0} /\ answer[p].status = "ok"
               /\ answer[p].entries = [i \in DOMAIN Page(rows, p, limit) |->
                                         Entry(Page(rows, p, limit)[i], nested)]
               /\ answer[p].hasMore = HasMore(rows, p, limit)
    <3>1. p \in Nat \ {0}
      BY <1>4
    <3> QED
      BY <1>6, <3>1, PageAnswer
  <2> HIDE DEF answer
  <2>2. ASSUME NEW x \in shown
        PROVE  \E e \in S : x = Entry(e, nested)
    <3>1. PICK a \in Answers(under, nested, limit) :
            x \in {a.entries[i] : i \in DOMAIN a.entries}
      BY <1>3
    <3>2. PICK p \in 1 .. N : a = answer[p]
      BY <1>2, <3>1
    <3> DEFINE cut == Page(rows, p, limit)
    <3>3. PICK i \in DOMAIN cut : x = Entry(cut[i], nested)
      <4>1. a.entries = [i \in DOMAIN cut |-> Entry(cut[i], nested)]
        BY <2>1, <3>2
      <4>2. PICK i \in DOMAIN a.entries : x = a.entries[i]
        BY <3>1
      <4> HIDE DEF cut
      <4> QED
        BY <4>1, <4>2
    <3>4. Page(rows, p, limit) \in Seq(S)
      <4> HIDE DEF rows, S
      <4> QED
        BY <1>1, <2>1, PageRows
    <3>5. Page(rows, p, limit)[i] \in S
      BY <3>4
    <3> QED
      BY <3>3, <3>5
  <2>3. ASSUME NEW e \in S PROVE Entry(e, nested) \in shown
    <3>1. PICK j \in 1 .. Len(rows) : rows[j] = e
      BY <1>1 DEF Lists
    <3>2. PICK p \in 1 .. j : \E i \in 1 .. Len(Page(rows, p, limit)) :
            /\ Page(rows, p, limit)[i] = rows[j]
            /\ \A r \in 1 .. p - 1 : HasMore(rows, r, limit)
      <4> HIDE DEF rows, S
      <4> QED
        BY <1>1, PagesShowAll
    <3>3. PICK i \in 1 .. Len(Page(rows, p, limit)) :
            Page(rows, p, limit)[i] = e
      BY <3>1, <3>2
    <3>4. p \in 1 .. N
      BY <1>4
    <3>5. Read(p)
      <4>1. ASSUME NEW q \in 1 .. p - 1
            PROVE  answer[q].status = "ok" /\ answer[q].hasMore
        <5>1. q \in 1 .. N
          BY <1>4, <3>4
        <5> QED
          BY <2>1, <3>2, <5>1
      <4> QED
        BY <4>1
    <3>6. answer[p] \in Answers(under, nested, limit)
      BY <1>2, <3>4, <3>5
    <3>7. i \in DOMAIN Page(rows, p, limit)
      <4>1. Page(rows, p, limit) \in Seq(S)
        <5> HIDE DEF rows, S
        <5> QED
          BY <1>1, <2>1, <3>4, PageRows
      <4> QED
        BY <4>1
    <3>8. /\ i \in DOMAIN answer[p].entries
          /\ answer[p].entries[i] = Entry(e, nested)
      <4> DEFINE cut == Page(rows, p, limit)
      <4>1. answer[p].entries = [l \in DOMAIN cut |-> Entry(cut[l], nested)]
        BY <2>1, <3>4
      <4>2. i \in DOMAIN cut /\ cut[i] = e
        BY <3>3, <3>7
      <4> HIDE DEF cut
      <4> QED
        BY <4>1, <4>2
    <3>9. answer[p] \in {a \in Answers(under, nested, limit) : a.status = "ok"}
      BY <2>1, <3>4, <3>6
    <3>10. Entry(e, nested) \in
             {answer[p].entries[l] : l \in DOMAIN answer[p].entries}
      BY <3>8
    <3> HIDE DEF shown
    <3> QED
      BY <1>3, <3>9, <3>10
  <2>4. shown = {Entry(e, nested) : e \in S}
    <3> HIDE DEF shown, S
    <3> QED
      BY <2>2, <2>3
  <2> QED
    BY <2>4
<1> QED
  BY <1>5, <1>6

\* Every category is below one root that the pages show, if it is within the
\* levels that a page includes.
LEMMA TreeOfState ==
  ASSUME IsFiniteSet(Category), WalkLimit > MaxDepth + 1, TypeOK, ParentsExist
  PROVE  TreeShowsEveryCategory
<1> SUFFICES ASSUME NEW limit \in {1, 2}, NEW c \in Category
             PROVE  LET tree == Entries(None, TRUE, limit)
                        flat == {e.id : e \in Entries(None, FALSE, limit)}
                    IN /\ c \in flat <=> parent[c] # Absent
                       /\ Cardinality({e \in tree :
                                         c = e.id \/ c \in e.below}) =
                            IF /\ c \in flat
                               /\ Depth(parent, c) <= IncludeDepth + 2
                            THEN 1 ELSE 0
  BY DEF TreeShowsEveryCategory
<1> DEFINE tree == Entries(None, TRUE, limit)
           flat == {e.id : e \in Entries(None, FALSE, limit)}
           over == {e \in tree : c = e.id \/ c \in e.below}
<1>1. limit \in Nat \ {0}
  OBVIOUS
<1>2. tree = {Entry(e, TRUE) : e \in Selected(None, TRUE)}
  BY <1>1, EntriesAreRows
<1>3. Entries(None, FALSE, limit) =
        {Entry(e, FALSE) : e \in Selected(None, FALSE)}
  BY <1>1, EntriesAreRows
<1>4. Selected(None, TRUE) = {e \in Category : parent[e] = Root}
  BY FreshAssumption DEF Selected
<1>5. Selected(None, FALSE) = {e \in Category : parent[e] # Absent}
  <2>1. ASSUME NEW e \in Category
        PROVE  e \in Selected(None, FALSE) <=> parent[e] # Absent
    BY Zenon DEF Selected
  <2> QED
    BY <2>1, Zenon DEF Selected
<1>6. c \in flat <=> parent[c] # Absent
  <2>1. ASSUME NEW e PROVE Entry(e, FALSE).id = e
    BY DEF Entry
  <2> DEFINE E(e) == Entry(e, FALSE)
             listed == Entries(None, FALSE, limit)
             S == Selected(None, FALSE)
  <2>2. listed = {E(e) : e \in S} /\ \A e : E(e).id = e
    BY <1>3, <2>1
  <2>3. flat = {x.id : x \in listed}
    OBVIOUS
  <2> HIDE DEF E, listed, S, flat
  <2>4. c \in flat <=> c \in S
    BY <2>2, <2>3
  <2> QED
    BY <1>5, <2>4 DEF S
<1>7. over = {Entry(e, TRUE) : e \in RootsOver(c)}
  <2>1. ASSUME NEW e \in Category
        PROVE  c = Entry(e, TRUE).id \/ c \in Entry(e, TRUE).below <=>
                 Shows(e, c)
    BY DEF Entry, Shows
  <2> HIDE DEF tree
  <2> QED
    BY <1>2, <1>4, <2>1 DEF RootsOver
<1> HIDE DEF flat, over, tree
<1>8. CASE RootsOver(c) = {}
  <2>1. over = {}
    BY <1>7, <1>8
  <2>2. Cardinality(over) = 0
    BY <2>1, FS_EmptySet
  <2>3. Cardinality(over) =
          IF c \in flat /\ Depth(parent, c) <= IncludeDepth + 2 THEN 1 ELSE 0
    BY <1>6, <1>8, <2>2, RootOver
  <2> QED
    BY <1>6, <2>3 DEF flat, over, tree
<1>9. CASE RootsOver(c) # {}
  <2>1. PICK e \in RootsOver(c) : TRUE
    BY <1>9
  <2>2. RootsOver(c) = {e}
    BY <2>1, OneRootOver
  <2>3. over = {Entry(e, TRUE)}
    BY <1>7, <2>2
  <2>4. Cardinality(over) = 1
    BY <2>3, FS_Singleton
  <2>5. Cardinality(over) =
          IF c \in flat /\ Depth(parent, c) <= IncludeDepth + 2 THEN 1 ELSE 0
    BY <1>6, <1>9, <2>4, RootOver
  <2> QED
    BY <1>6, <2>5 DEF flat, over, tree
<1> QED
  BY <1>8, <1>9

-----------------------------------------------------------------------------
\* Depths along an edge, in a tree that grows, and in a circle.
LEMMA DepthOfRoot ==
  ASSUME NEW tree, NEW c \in Category, tree[c] \notin Category
  PROVE  Depth(tree, c) = 1
<1>1. RootAt(tree, c, 0)
  BY WalkSteps DEF RootAt
<1>2. 0 \in 0 .. WalkLimit - 1
  BY DepthAssumption
<1>3. \A m \in 0 .. 0 - 1 : ~RootAt(tree, c, m)
  OBVIOUS
<1>4. Depth(tree, c) = 1 + 0
  BY <1>1, <1>2, <1>3, DepthOfWalk
<1> QED
  BY <1>4

LEMMA DepthOfChild ==
  ASSUME NEW tree, NEW c \in Category, tree[c] \in Category,
         Depth(tree, tree[c]) <= MaxDepth
  PROVE  /\ Depth(tree, tree[c]) \in Nat
         /\ Depth(tree, c) = Depth(tree, tree[c]) + 1
<1> DEFINE p == tree[c]
<1>1. MaxDepth \in Nat /\ WalkLimit \in Nat /\ WalkLimit > MaxDepth
  BY DepthAssumption
<1>2. Depth(tree, p) # WalkLimit + 1
  BY <1>1
<1>3. PICK n \in 0 .. WalkLimit - 1 :
        /\ RootAt(tree, p, n) /\ \A m \in 0 .. n - 1 : ~RootAt(tree, p, m)
        /\ Depth(tree, p) = 1 + n
  BY <1>2, FirstRoot
<1>4. n \in Nat /\ n + 1 \in 0 .. WalkLimit - 1
  BY <1>1, <1>3
<1>5. ASSUME NEW m \in Nat, m + 1 <= WalkLimit
      PROVE  RootAt(tree, c, m + 1) <=> RootAt(tree, p, m)
  <2>1. Walk(tree, c)[m + 1] = Walk(tree, tree[c])[m]
    BY <1>5, WalkFromParent
  <2> QED
    BY <2>1 DEF RootAt
<1>6. RootAt(tree, c, n + 1)
  BY <1>1, <1>3, <1>4, <1>5
<1>7. ASSUME NEW m \in 0 .. (n + 1) - 1 PROVE ~RootAt(tree, c, m)
  <2>1. CASE m = 0
    BY <2>1, WalkSteps DEF RootAt
  <2>2. CASE m # 0
    <3>1. m - 1 \in 0 .. n - 1 /\ m - 1 \in Nat /\ (m - 1) + 1 = m
          /\ (m - 1) + 1 <= WalkLimit
      BY <1>1, <1>4, <2>2
    <3>2. ~RootAt(tree, p, m - 1)
      BY <1>3, <3>1
    <3> QED
      BY <1>5, <3>1, <3>2
  <2> QED
    BY <2>1, <2>2
<1>8. Depth(tree, c) = 1 + (n + 1)
  BY <1>4, <1>6, <1>7, DepthOfWalk
<1> QED
  BY <1>3, <1>4, <1>8

LEMMA DepthType ==
  ASSUME NEW tree, NEW c \in Category
  PROVE  Depth(tree, c) \in Nat
<1>1. WalkLimit \in Nat /\ WalkLimit + 1 \in Nat
  BY DepthAssumption
<1>2. CASE Depth(tree, c) = WalkLimit + 1
  BY <1>1, <1>2
<1>3. CASE Depth(tree, c) # WalkLimit + 1
  BY <1>1, <1>3, FirstRoot
<1> QED
  BY <1>2, <1>3

LEMMA DepthKept ==
  ASSUME NEW t, NEW u, Standing(t), NEW c \in Category, t[c] # Absent,
         \A x \in Category : t[x] # Absent => u[x] = t[x]
  PROVE  Depth(u, c) = Depth(t, c)
<1> DEFINE T == {n \in Nat : n <= WalkLimit => Walk(u, c)[n] = Walk(t, c)[n]}
<1>1. WalkLimit \in Nat
  BY DepthAssumption
<1>2. 0 \in T
  BY WalkSteps
<1>3. ASSUME NEW n \in Nat, n <= WalkLimit
      PROVE  /\ Walk(t, c)[n] \in Category
             /\ u[Walk(t, c)[n]] = t[Walk(t, c)[n]]
  <2>1. Walk(t, c) \in [0 .. WalkLimit -> Category]
    BY WalkSteps
  <2>2. Walk(t, c)[n] \in Category
    BY <1>1, <1>3, <2>1
  <2>3. t[Walk(t, c)[n]] # Absent
    BY <1>3, WalkStands
  <2> QED
    BY <2>2, <2>3
<1>4. ASSUME NEW n \in T PROVE n + 1 \in T
  <2>1. SUFFICES ASSUME n + 1 <= WalkLimit
                 PROVE  Walk(u, c)[n + 1] = Walk(t, c)[n + 1]
    OBVIOUS
  <2>2. n + 1 \in 1 .. WalkLimit /\ (n + 1) - 1 = n /\ n <= WalkLimit
    BY <1>1, <2>1
  <2>3. Walk(u, c)[n] = Walk(t, c)[n]
    BY <2>2
  <2>4. Walk(u, c)[n + 1] = IF RootAt(u, c, n) THEN Walk(u, c)[n]
                            ELSE u[Walk(u, c)[n]]
    BY <2>2, WalkSteps
  <2>5. Walk(t, c)[n + 1] = IF RootAt(t, c, n) THEN Walk(t, c)[n]
                            ELSE t[Walk(t, c)[n]]
    BY <2>2, WalkSteps
  <2> QED
    BY <1>3, <2>2, <2>3, <2>4, <2>5 DEF RootAt
<1>5. T = Nat
  BY <1>2, <1>4, Induction
<1>6. ASSUME NEW n \in 0 .. WalkLimit - 1
      PROVE  RootAt(u, c, n) <=> RootAt(t, c, n)
  <2>1. n \in T /\ n \in Nat /\ n <= WalkLimit
    BY <1>1, <1>5
  <2>2. Walk(u, c)[n] = Walk(t, c)[n]
    BY <2>1
  <2> QED
    BY <1>3, <2>1, <2>2 DEF RootAt
<1>7. CASE \A n \in 0 .. WalkLimit - 1 : ~RootAt(t, c, n)
  BY <1>6, <1>7, DepthOfWalk
<1>8. ASSUME NEW n \in 0 .. WalkLimit - 1, RootAt(t, c, n),
             \A m \in 0 .. n - 1 : ~RootAt(t, c, m)
      PROVE  Depth(u, c) = Depth(t, c)
  <2>1. ASSUME NEW m \in 0 .. n - 1 PROVE ~RootAt(u, c, m)
    BY <1>1, <1>6, <1>8
  <2>2. Depth(u, c) = 1 + n
    BY <1>6, <1>8, <2>1, DepthOfWalk
  <2>3. Depth(t, c) = 1 + n
    BY <1>8, DepthOfWalk
  <2> QED
    BY <2>2, <2>3
<1> QED
  BY <1>7, <1>8, FirstRoot

LEMMA DepthOfCircle ==
  ASSUME NEW tree, NEW S \in SUBSET Category, NEW c \in S,
         \A x \in S : tree[x] \in S
  PROVE  Depth(tree, c) = WalkLimit + 1
<1> DEFINE T == {n \in Nat : n <= WalkLimit => Walk(tree, c)[n] \in S}
<1>1. WalkLimit \in Nat
  BY DepthAssumption
<1>2. 0 \in T
  BY WalkSteps
<1>3. ASSUME NEW n \in T PROVE n + 1 \in T
  <2>1. SUFFICES ASSUME n + 1 <= WalkLimit
                 PROVE  Walk(tree, c)[n + 1] \in S
    OBVIOUS
  <2>2. n + 1 \in 1 .. WalkLimit /\ (n + 1) - 1 = n /\ n <= WalkLimit
    BY <1>1, <2>1
  <2>3. Walk(tree, c)[n] \in S
    BY <2>2
  <2>4. Walk(tree, c)[n + 1] = IF RootAt(tree, c, n) THEN Walk(tree, c)[n]
                               ELSE tree[Walk(tree, c)[n]]
    BY <2>2, WalkSteps
  <2> QED
    BY <2>3, <2>4
<1>4. T = Nat
  BY <1>2, <1>3, Induction
<1>5. ASSUME NEW n \in 0 .. WalkLimit - 1 PROVE ~RootAt(tree, c, n)
  <2>1. n \in T /\ n <= WalkLimit
    BY <1>1, <1>4
  <2>2. Walk(tree, c)[n] \in S
    BY <2>1
  <2> QED
    BY <2>2 DEF RootAt
<1> QED
  BY <1>5, DepthOfWalk

\* In a forest nobody is the own parent or grandparent.
LEMMA NoShortCircle ==
  ASSUME NEW tree, Forest!IsForest(tree),
         NEW c \in Category, NEW d \in Category, tree[c] = d
  PROVE  tree[d] # c
<1>1. {c, d} \in (SUBSET Category) \ {{}}
  OBVIOUS
<1>2. PICK x \in {c, d} : tree[x] \notin {c, d}
  BY <1>1 DEF Forest!IsForest
<1> QED
  BY <1>2

-----------------------------------------------------------------------------
\* Commands in turn.

\* Who works does so alone.
LEMMA OthersRest ==
  ASSUME TurnInv, NEW r \in Requests, pc[r] \in Working
  PROVE  \A q \in Requests \ {r} : pc[q] \notin Working
BY DEF TurnInv, Alone

\* A command begins when every other rests.
LEMMA StartsAlone ==
  ASSUME ~Overlap, TypeOK, NEW r \in Requests, Start(r)
  PROVE  /\ UNCHANGED parent /\ pc[r] = "idle"
         /\ \A q \in Requests \ {r} : pc[q] \notin Working /\ pc'[q] = pc[q]
         /\ pc'[r] \in {"check", "row", "purge", "failed"}
<1>1. PICK c \in Commands :
        \/ CreateCategory(r, c) \/ UpdateCategory(r, c) \/ DeleteCategory(r, c)
        \/ NotFound(r, c)
  BY DEF Start
<1>2. /\ UNCHANGED parent /\ pc[r] = "idle"
      /\ \A q \in Requests \ {r} : pc[q] \notin Working
      /\ \E o \in {"check", "row", "purge", "failed"} : pc' = [pc EXCEPT ![r] = o]
  BY <1>1 DEF CreateCategory, UpdateCategory, DeleteCategory, NotFound, Begin,
       Enter, Fail, End
<1> QED
  BY <1>2 DEF TypeOK

\* A step leaves the other requests where they are.
LEMMA StepsAlone ==
  ASSUME TypeOK, TurnInv, NEW r \in Requests, Step(r) \/ Abort(r)
  PROVE  /\ pc[r] \in Working
         /\ \A q \in Requests \ {r} : pc[q] \notin Working /\ pc'[q] = pc[q]
<1>1. /\ pc[r] \in Working
      /\ pc' = pc \/ \E o : pc' = [pc EXCEPT ![r] = o]
  <2>1. CASE CheckDepth(r)
    BY <2>1 DEF CheckDepth, Working
  <2>2. CASE InsertCategory(r)
    BY <2>2 DEF InsertCategory, End, Working
  <2>3. CASE WriteRow(r)
    BY <2>3 DEF WriteRow, Working
  <2>4. CASE Validate(r)
    BY <2>4 DEF Validate, Working
  <2>5. CASE Prune(r)
    BY <2>5 DEF Prune, Working
  <2>6. CASE WriteChild(r)
    BY <2>6 DEF WriteChild, Working
  <2>7. CASE Return(r)
    BY <2>7 DEF Return, Working
  <2>8. CASE CommitUpdate(r)
    BY <2>8 DEF CommitUpdate, End, Working
  <2>9. CASE Purge(r)
    BY <2>9 DEF Purge, Working
  <2>10. CASE Drop(r)
    BY <2>10 DEF Drop, End, Working
  <2>11. CASE RefuseDepth(r)
    BY <2>11 DEF RefuseDepth, TooDeep, Fail, End, Working
  <2>12. CASE ChildRefused(r) \/ Gone(r) \/ Abort(r)
    BY <2>12 DEF ChildRefused, Gone, Abort, Fail, End, Working
  <2> QED
    BY <2>1, <2>2, <2>3, <2>4, <2>5, <2>6, <2>7, <2>8, <2>9, <2>10, <2>11, <2>12
    DEF Step
<1> QED
  BY <1>1, OthersRest DEF TypeOK

LEMMA InitTurn == Init => TurnInv
BY DEF Init, TurnInv, Alone, CreationFits, Working

\* Nobody comes to insert but from the check, and commits in between.
LEMMA NextTurn ==
  ASSUME ~Overlap, HierarchyInv, TurnInv, [Next]_vars
  PROVE  TurnInv'
<1> USE DEF HierarchyInv
<1>1. CASE UNCHANGED vars
  BY <1>1 DEF TurnInv, Alone, CreationFits, SubDepth, vars, locals
<1>2. ASSUME NEW r \in Requests, CreationFits(r)',
             \A q \in Requests \ {r} : pc[q] \notin Working /\ pc'[q] = pc[q]
      PROVE  TurnInv'
  BY <1>2 DEF TurnInv, Alone, CreationFits, Working
<1>3. ASSUME NEW r \in Requests, Start(r) PROVE TurnInv'
  <2>1. CreationFits(r)'
    BY <1>3, StartsAlone DEF CreationFits
  <2> QED
    BY <1>2, <1>3, <2>1, StartsAlone
<1>4. ASSUME NEW r \in Requests, Step(r) \/ Abort(r) PROVE TurnInv'
  <2>1. CASE CheckDepth(r)
    <3>1. /\ UNCHANGED <<parent, above, kids>>
          /\ ~(Walked(r) + 1 + SubDepth(r, Main(r)) > MaxDepth)
          /\ Walked(r) = IF above[r] = Root THEN 0 ELSE Depth(parent, above[r])
      BY <2>1 DEF CheckDepth, TooDeep, Walked, Checked, locals
    <3>2. above[r] \in Category \cup {Root}
      BY <2>1 DEF CheckDepth, HandlerState, Handler
    <3>3. Walked(r) \in Nat
      BY <3>1, <3>2, DepthType
    <3>4. SubDepth(r, Main(r)) \in Nat
      BY DEF SubDepth
    <3>5. MaxDepth \in Nat
      BY DepthAssumption
    <3>6. Walked(r) + 1 + SubDepth(r, Main(r)) <= MaxDepth
      BY <3>1, <3>3, <3>4, <3>5
    <3>7. SubDepth(r, Main(r))' = SubDepth(r, Main(r))
      BY <3>1 DEF SubDepth
    <3>8. CreationFits(r)'
      BY <3>1, <3>6, <3>7 DEF CreationFits
    <3> QED
      BY <1>2, <1>4, <3>8, StepsAlone
  <2>2. CASE ~CheckDepth(r)
    <3>1. pc'[r] # "insert"
      BY <1>4, <2>2
      DEF Step, InsertCategory, WriteRow, Validate, Prune, WriteChild, Return,
          CommitUpdate, Purge, Drop, RefuseDepth, ChildRefused, Gone, Abort,
          Fail, End, TypeOK
    <3> QED
      BY <1>2, <1>4, <3>1, StepsAlone DEF CreationFits
  <2> QED
    BY <2>1, <2>2
<1> QED
  BY <1>1, <1>3, <1>4 DEF Next, Served

\* What a creation that fits adds is within the limit.
LEMMA InsertFits ==
  ASSUME HierarchyInv, NEW r \in Requests, CreationFits(r), InsertCategory(r),
         NEW c \in {Main(r), Sub(r)}
  PROVE  Depth(parent', c) <= MaxDepth
<1> DEFINE m == Main(r)
           s == Sub(r)
           D == IF above[r] = Root THEN 0 ELSE Depth(parent, above[r])
<1>1. /\ pc[r] = "insert" /\ Handler(r) /\ TypeOK
      /\ parent[m] = Absent /\ parent[s] = Absent
  BY DEF HierarchyInv, HandlerState, InsertCategory, FreshIdentifiers, Open,
     Working, Fresh
<1>2. /\ above[r] \in Category \cup {Root} /\ kids[r][m] \subseteq {s}
      /\ above[r] # Root => parent[above[r]] # Absent
  BY <1>1 DEF Handler, InsertCategory
<1>3. m \in Category /\ s \in Category /\ m # s
  BY FreshFacts
<1>4. /\ parent'[m] = above[r]
      /\ parent'[s] = IF s \in kids[r][m] THEN m ELSE Absent
      /\ \A x \in Category : parent[x] # Absent => parent'[x] = parent[x]
  BY <1>1, <1>2, <1>3 DEF InsertCategory
<1>5. Standing(parent)
  BY DEF HierarchyInv, ParentsExist, Standing
<1>6. above[r] # Root => Depth(parent', above[r]) = Depth(parent, above[r])
  BY <1>2, <1>4, <1>5, DepthKept
<1>7. D \in Nat
  BY <1>2, DepthType
<1>8. /\ SubDepth(r, m) \in {0, 1, 2}
      /\ kids[r][m] # {} => SubDepth(r, m) # 0
  BY DEF SubDepth
<1>9. D + 1 + SubDepth(r, m) <= MaxDepth
  BY <1>1 DEF CreationFits
<1>10. MaxDepth \in Nat \ {0} /\ Root \notin Category /\ Absent \notin Category
  BY DepthAssumption, FreshAssumption
<1> DEFINE u == parent'
           k == kids[r][m]
           a == above[r]
           d == SubDepth(r, m)
<1>11. a = Root => D = 0
  OBVIOUS
<1>12. a # Root => D = Depth(u, a) /\ a \in Category
  BY <1>2, <1>6
<1>13. u[m] = a /\ u[s] = IF s \in k THEN m ELSE Absent
  BY <1>4
<1>14. c \in {m, s}
  OBVIOUS
<1>15. d \in {0, 1, 2} /\ (k # {} => d # 0) /\ D + 1 + d <= MaxDepth
  BY <1>8, <1>9
<1> SUFFICES Depth(u, c) <= MaxDepth
  OBVIOUS
<1> HIDE DEF m, s, D, u, k, a, d
<1>16. D <= MaxDepth /\ D + 1 <= MaxDepth /\ (k # {} => D + 2 <= MaxDepth)
  BY <1>7, <1>10, <1>15
<1>17. Depth(u, m) = D + 1
  <2>1. CASE a = Root
    <3>1. Depth(u, m) = 1
      BY <1>3, <1>10, <1>13, <2>1, DepthOfRoot
    <3> QED
      BY <1>11, <2>1, <3>1
  <2>2. CASE a # Root
    <3>1. u[m] \in Category /\ Depth(u, u[m]) <= MaxDepth
      BY <1>12, <1>13, <1>16, <2>2
    <3>2. Depth(u, m) = Depth(u, u[m]) + 1
      BY <1>3, <3>1, DepthOfChild
    <3> QED
      BY <1>12, <1>13, <2>2, <3>2
  <2> QED
    BY <2>1, <2>2
<1>18. CASE c = m
  BY <1>16, <1>17, <1>18
<1>19. CASE c = s /\ s \in k
  <2>1. u[s] \in Category /\ u[s] = m /\ Depth(u, u[s]) <= MaxDepth
    BY <1>3, <1>13, <1>16, <1>17, <1>19
  <2>2. Depth(u, s) = Depth(u, u[s]) + 1
    BY <1>3, <2>1, DepthOfChild
  <2>3. Depth(u, s) = (D + 1) + 1 /\ D + 2 <= MaxDepth
    BY <1>16, <1>17, <1>19, <2>1, <2>2
  <2> QED
    BY <1>7, <1>10, <1>19, <2>3
<1>20. CASE c = s /\ s \notin k
  <2>1. u[s] \notin Category
    BY <1>10, <1>13, <1>20
  <2>2. Depth(u, s) = 1
    BY <1>3, <2>1, DepthOfRoot
  <2> QED
    BY <1>10, <1>20, <2>2
<1> QED
  BY <1>14, <1>18, <1>19, <1>20

\* With commands served in turn, CategoryRepository.create adds nothing beyond
\* the limit it checked when it began, whatever the limit, the hierarchy and
\* the commands: nobody has moved the parent meanwhile.
THEOREM CreationsFitInTurn ==
  ASSUME ~Overlap PROVE Spec => CreationsFit
<1>1. Init => HierarchyInv /\ TurnInv
  BY InitHierarchyInv, InitTurn
<1>2. HierarchyInv /\ TurnInv /\ [Next]_vars => HierarchyInv' /\ TurnInv'
  BY NextHierarchyInv, NextTurn
<1>3. HierarchyInv /\ TurnInv /\ [Next]_vars =>
        [\A r \in Requests :
           pc[r] = "insert" /\ pc'[r] = "ok"
             => \A c \in {Main(r), Sub(r)} : Depth(parent', c) <= MaxDepth]_vars
  <2> SUFFICES ASSUME HierarchyInv, TurnInv, Next, NEW r \in Requests,
                      pc[r] = "insert", pc'[r] = "ok"
               PROVE  \A c \in {Main(r), Sub(r)} : Depth(parent', c) <= MaxDepth
    OBVIOUS
  <2>1. TypeOK /\ pc[r] \in Working /\ pc'[r] # pc[r]
    BY DEF HierarchyInv, Working
  <2>2. ASSUME NEW q \in Requests, Start(q) PROVE FALSE
    BY <2>1, <2>2, StartsAlone DEF Working
  <2>3. ASSUME NEW q \in Requests, Step(q) \/ Abort(q)
        PROVE  q = r
    BY <2>1, <2>3, StepsAlone
  <2>4. Step(r) \/ Abort(r)
    BY <2>1, <2>2, <2>3 DEF Next, Served, vars
  <2>5. InsertCategory(r)
    BY <2>1, <2>4
    DEF Step, CheckDepth, WriteRow, Validate, Prune, WriteChild, Return,
        CommitUpdate, Purge, Drop, RefuseDepth, TooDeep, ChildRefused, Gone,
        Abort, Fail, End, TypeOK
  <2> QED
    BY <2>5, InsertFits DEF TurnInv
<1> QED
  BY <1>1, <1>2, <1>3, PTL DEF Spec, CreationsFit

-----------------------------------------------------------------------------
\* Updates name another category as the parent.
ProperMoves == \A c \in Commands : c.kind = "update" => c.parent # c.id

\* A step of r leaves the others where they rest.
LEMMA OnlyHandler ==
  ASSUME EditInv, NEW r \in Requests,
         \A q \in Requests \ {r} : pc[q] \notin Working /\ pc'[q] = pc[q],
         Forest!IsForest(parent'), EditHandler(r)'
  PROVE  EditInv'
<1>1. ASSUME NEW q \in Requests, q # r PROVE EditHandler(q)'
  <2>1. pc'[q] \notin Working
    BY <1>1
  <2> QED
    BY <2>1 DEF EditHandler, Updating, Working
<1> QED
  BY <1>1 DEF EditInv

\* The end of a handler.
LEMMA EndOfEdit ==
  ASSUME TypeOK, EditInv, NEW r \in Requests, NEW o \in Ended,
         pc' = [pc EXCEPT ![r] = o], Forest!IsForest(parent'),
         \A q \in Requests \ {r} : pc[q] \notin Working
  PROVE  EditInv'
<1>1. pc'[r] = o /\ \A q \in Requests \ {r} : pc'[q] = pc[q]
  BY DEF TypeOK
<1>2. EditHandler(r)'
  BY <1>1 DEF EditHandler, Updating, Ended
<1> QED
  BY <1>1, <1>2, OnlyHandler

LEMMA FailOfEdit ==
  ASSUME TypeOK, EditInv, NEW r \in Requests, NEW o \in Ended, Fail(r, o),
         \A q \in Requests \ {r} : pc[q] \notin Working
  PROVE  EditInv'
<1>1. pc' = [pc EXCEPT ![r] = o] /\ UNCHANGED parent
  BY DEF Fail, End
<1>2. Forest!IsForest(parent')
  BY <1>1 DEF EditInv
<1> QED
  BY <1>1, <1>2, EndOfEdit

LEMMA InitEdit == Init => EditInv
<1> SUFFICES ASSUME Init PROVE EditInv
  OBVIOUS
<1>1. ASSUME NEW S \in SUBSET Category, NEW c \in S, \A x \in S : parent[x] \in S
      PROVE  FALSE
  <2>1. Depth(parent, c) = WalkLimit + 1
    BY <1>1, DepthOfCircle
  <2>2. Depth(parent, c) <= MaxDepth
    BY DEF Init
  <2> QED
    BY <2>1, <2>2, DepthAssumption
<1>2. \A r \in Requests : EditHandler(r)
  BY DEF Init, EditHandler, Updating
<1> QED
  BY <1>1, <1>2 DEF EditInv, Forest!IsForest

LEMMA BeginEdit ==
  ASSUME HierarchyInv, EditInv, ~Overlap, ProperMoves,
         NEW r \in Requests, Start(r)
  PROVE  EditInv'
<1>1. PICK c \in Commands :
        \/ CreateCategory(r, c) \/ UpdateCategory(r, c) \/ DeleteCategory(r, c)
        \/ NotFound(r, c)
  BY DEF Start
<1>2. /\ TypeOK /\ UNCHANGED parent
      /\ \A q \in Requests \ {r} : pc[q] \notin Working /\ pc'[q] = pc[q]
  BY StartsAlone DEF HierarchyInv
<1>3. Forest!IsForest(parent')
  BY <1>2 DEF EditInv
<1>4. CASE ~UpdateCategory(r, c)
  <2>1. pc'[r] \in {"check", "purge", "failed"}
    BY <1>1, <1>2, <1>4 DEF CreateCategory, DeleteCategory, NotFound, Enter,
         Fail, End, TypeOK
  <2>2. EditHandler(r)'
    BY <2>1 DEF EditHandler, Updating
  <2> QED
    BY <1>2, <1>3, <2>2, OnlyHandler
<1>5. CASE UpdateCategory(r, c)
  <2> DEFINE a == IF c.parent = None THEN parent[c.id] ELSE c.parent
             k == IF c.subs = None THEN LoadedKids(c.id)
                  ELSE [NoKids EXCEPT ![c.id] = Given(r, c)]
  <2>1. /\ pc' = [pc EXCEPT ![r] = "row"] /\ cmd' = [cmd EXCEPT ![r] = c]
        /\ above' = [above EXCEPT ![r] = a] /\ kids' = [kids EXCEPT ![r] = k]
        /\ parent[c.id] # Absent /\ c.kind = "update"
    BY <1>5 DEF UpdateCategory, Enter
  <2>2. c.id \in Category /\ c.parent # c.id /\ parent[c.id] # c.id
    BY <2>1, CommandFacts, NoShortCircle DEF ProperMoves, EditInv
  <2>3. /\ pc'[r] = "row" /\ cmd'[r] = c /\ above'[r] = a /\ kids'[r] = k
    BY <1>2, <2>1 DEF TypeOK
  <2>4. Place(r)' \in (Category \cup {Root}) \ {c.id}
    <3>1. parent[c.id] \in Category \cup {Root}
      BY <1>2, <2>1, <2>2 DEF TypeOK
    <3>2. a \in Category \cup {Root}
      BY <2>1, <3>1, CommandFacts
    <3> QED
      BY <1>2, <2>2, <2>3, <3>1, <3>2 DEF Place
  <2>5. k = k'
    BY <1>2 DEF LoadedKids, ChildrenIn
  <2>6. InMemory(r)'
    BY <1>2, <2>1, <2>3, <2>4, <2>5 DEF InMemory
  <2>7. EditHandler(r)'
    BY <2>3, <2>6 DEF EditHandler
  <2> QED
    BY <1>2, <1>3, <2>7, OnlyHandler
<1> QED
  BY <1>4, <1>5

-----------------------------------------------------------------------------
\* What stays while a command is served.
LEMMA MemoryStays ==
  ASSUME NEW r \in Requests, UNCHANGED <<parent, cmd, above, kids>>
  PROVE  /\ Place(r)' = Place(r) /\ Old(r)' = Old(r) /\ Moved(r)' = Moved(r)
         /\ Given(r, cmd[r])' = Given(r, cmd[r])
         /\ InMemory(r) => InMemory(r)'
BY DEF Place, Old, Moved, ChildrenIn, Given, InMemory, LoadedKids

\* What an update knows of its category.
LEMMA UpdateFacts ==
  ASSUME HierarchyInv, EditInv, NEW r \in Requests, pc[r] \in Updating
  PROVE  /\ TypeOK /\ cmd[r].id \in Category
         /\ parent[cmd[r].id] # Absent /\ Place(r) # cmd[r].id
         /\ Place(r) \in Category \cup {Root}
         /\ cmd[r].id \notin Old(r) /\ parent[cmd[r].id] \notin Old(r)
         /\ Old(r) \subseteq Category
         /\ \A x \in Category : x \in Old(r) <=> parent[x] = cmd[r].id
         /\ Given(r, cmd[r]) \subseteq Category
         /\ cmd[r].id \notin Given(r, cmd[r])
         /\ \A x \in Given(r, cmd[r]) : parent[x] = Absent /\ x \notin Old(r)
         /\ \A x \in Category :
              kids[r][x] = IF cmd[r].subs = None
                           THEN IF x = cmd[r].id \/ x \in Old(r)
                                THEN ChildrenIn(parent, {x}) ELSE {}
                           ELSE IF x = cmd[r].id THEN Given(r, cmd[r]) ELSE {}
<1> DEFINE id == cmd[r].id
<1>1. TypeOK /\ Handler(r) /\ pc[r] \in Working /\ InMemory(r)
  BY DEF HierarchyInv, HandlerState, Updating, Working, EditInv, EditHandler
<1>2. id \in Category
  BY <1>1, CommandFacts DEF Handler
<1>3. parent[id] # Absent /\ Place(r) # id /\ parent[id] \in Category \cup {Root}
  BY <1>1, <1>2 DEF InMemory, TypeOK
<1>4. Place(r) \in Category \cup {Root}
  BY <1>1 DEF InMemory
<1>5. Old(r) \subseteq Category /\ \A x \in Category : x \in Old(r) <=> parent[x] = id
  BY DEF Old, ChildrenIn
<1>6. id \notin Old(r) /\ parent[id] \notin Old(r)
  BY <1>2, <1>5, NoShortCircle DEF EditInv
<1>7. /\ Given(r, cmd[r]) \subseteq Category
      /\ \A x \in Given(r, cmd[r]) : parent[x] = Absent
  BY <1>1, FreshFacts DEF Given, HierarchyInv, FreshIdentifiers, Open, Fresh
<1>8. \A x \in Given(r, cmd[r]) : x # id /\ x \notin Old(r)
  BY <1>2, <1>3, <1>5, <1>7, FreshAssumption
<1>9. ASSUME NEW x \in Category
      PROVE  kids[r][x] = IF cmd[r].subs = None
                          THEN IF x = id \/ x \in Old(r)
                               THEN ChildrenIn(parent, {x}) ELSE {}
                          ELSE IF x = id THEN Given(r, cmd[r]) ELSE {}
  <2>1. CASE cmd[r].subs = None
    BY <1>1, <1>5, <2>1 DEF InMemory, LoadedKids
  <2>2. CASE cmd[r].subs # None
    BY <1>1, <1>2, <2>2 DEF InMemory, NoKids
  <2> QED
    BY <2>1, <2>2
<1> QED
  BY <1>1, <1>2, <1>3, <1>4, <1>5, <1>6, <1>7, <1>8, <1>9

\* Where an update that has written its row is.
LEMMA CallFacts ==
  ASSUME HierarchyInv, EditInv, NEW r \in Requests,
         pc[r] \in {"validate", "prune", "child"}
  PROVE  /\ pc[r] \in Updating /\ TypeOK
         /\ frames[r] \in Seq(FrameType) /\ frames[r] # <<>>
         /\ Top(r) = frames[r][1] /\ Top(r) \in FrameType
         /\ Len(frames[r]) \in {1, 2}
         /\ Outer(r) = frames[r][Len(frames[r])] /\ Outer(r) \in FrameType
         /\ Len(frames[r]) = 1 => Outer(r) = Top(r)
         /\ OuterCall(r) /\ InMemory(r)
         /\ Place(r) \in Category => parent[Place(r)] # Absent
         /\ IF cmd[r].subs = None THEN Rewriting(r) ELSE Replacing(r)
         /\ \A x \in Category :
              Moved(r)[x] = IF x = cmd[r].id THEN Place(r) ELSE parent[x]
<1>1. /\ pc[r] \in Updating /\ TypeOK /\ Handler(r) /\ EditHandler(r)
  BY DEF HierarchyInv, HandlerState, Updating, EditInv
<1>2. frames[r] \in Seq(FrameType) /\ frames[r] # <<>>
  BY <1>1 DEF TypeOK, Handler
<1>3. /\ OuterCall(r) /\ InMemory(r)
      /\ Place(r) \in Category => parent[Place(r)] # Absent
      /\ IF cmd[r].subs = None THEN Rewriting(r) ELSE Replacing(r)
  BY <1>1 DEF EditHandler
<1>4. Len(frames[r]) \in {1, 2} /\ DOMAIN frames[r] = 1 .. Len(frames[r])
  BY <1>2, <1>3, LenProperties DEF OuterCall
<1>5. Top(r) = frames[r][1] /\ Top(r) \in FrameType
  BY <1>2, HeadFacts DEF Top
<1>6. Outer(r) = frames[r][Len(frames[r])] /\ Outer(r) \in FrameType
  <2>1. Len(frames[r]) \in 1 .. Len(frames[r])
    BY <1>4
  <2> QED
    BY <1>2, <2>1, ElementOfSeq DEF Outer
<1>8. \A x \in Category :
        Moved(r)[x] = IF x = cmd[r].id THEN Place(r) ELSE parent[x]
  BY DEF Moved
<1>9. Len(frames[r]) = 1 => Outer(r) = Top(r)
  BY <1>5, <1>6
<1>10. Place(r) \in Category => parent[Place(r)] # Absent
  BY <1>3
<1> QED
  BY <1>1, <1>2, <1>3, <1>4, <1>5, <1>6, <1>8, <1>9, <1>10

-----------------------------------------------------------------------------
\* The depth check stops a category that comes to lie below a subcategory of
\* its own.
LEMMA CheckStopsCircle ==
  ASSUME HierarchyInv, EditInv, NEW r \in Requests,
         pc[r] = "validate", Len(frames[r]) = 1, cmd[r].subs = None,
         ~Forest!IsForest(Moved(r))
  PROVE  TooDeep(r)
<1> DEFINE id == cmd[r].id
<1>1. /\ TypeOK /\ id \in Category /\ Top(r).at = id /\ View(r) = Moved(r)
      /\ kids[r][id] = ChildrenIn(parent, {id}) /\ Place(r) # id
      /\ \A x \in Category : Moved(r)[x] = IF x = id THEN Place(r) ELSE parent[x]
  BY CallFacts, UpdateFacts DEF OuterCall, Rewriting
<1>2. PICK S \in (SUBSET Category) \ {{}} : \A x \in S : Moved(r)[x] \in S
  BY DEF Forest!IsForest
<1>3. id \in S
  <2>1. CASE id \notin S
    <3>1. \A x \in S : parent[x] \in S
      BY <1>1, <1>2, <2>1
    <3> QED
      BY <3>1 DEF EditInv, Forest!IsForest
  <2> QED
    BY <2>1
<1>4. Depth(Moved(r), id) = WalkLimit + 1
  BY <1>2, <1>3, DepthOfCircle
<1>5. kids[r][id] # {}
  <2>1. S \ {id} # {}
    BY <1>1, <1>2, <1>3
  <2>2. PICK x \in S \ {id} : parent[x] \notin S \ {id}
    BY <2>1 DEF EditInv, Forest!IsForest
  <2>3. parent[x] = id
    BY <1>1, <1>2, <2>2
  <2> QED
    BY <1>1, <2>2, <2>3 DEF ChildrenIn
<1>6. Walked(r) = WalkLimit + 1 /\ Checked(r) = id
  BY <1>1, <1>4 DEF Walked, Checked
<1>7. SubDepth(r, id) \in {0, 1, 2}
  BY DEF SubDepth
<1>8. Walked(r) + 1 + SubDepth(r, Checked(r)) > MaxDepth
  BY <1>6, <1>7, DepthAssumption
<1> QED
  BY <1>5, <1>6, <1>8 DEF TooDeep

\* Past it the category is not below a subcategory of its own.
LEMMA PlaceOutside ==
  ASSUME HierarchyInv, EditInv, NEW r \in Requests,
         pc[r] \in {"validate", "prune", "child"}, Forest!IsForest(Moved(r))
  PROVE  Place(r) \notin Old(r)
<1> DEFINE id == cmd[r].id
<1>1. /\ id \in Category /\ Old(r) \subseteq Category /\ Place(r) # id
      /\ \A x \in Category : x \in Old(r) <=> parent[x] = id
      /\ \A x \in Category : Moved(r)[x] = IF x = id THEN Place(r) ELSE parent[x]
  BY CallFacts, UpdateFacts
<1>2. CASE Place(r) \in Old(r)
  <2>1. Moved(r)[id] = Place(r) /\ Moved(r)[Place(r)] = id /\ Place(r) \in Category
    BY <1>1, <1>2
  <2> QED
    BY <1>1, <2>1, NoShortCircle
<1> QED
  BY <1>2

LEMMA ValidateEdit ==
  ASSUME HierarchyInv, EditInv, NEW r \in Requests, Validate(r),
         \A q \in Requests \ {r} : pc[q] \notin Working /\ pc'[q] = pc[q]
  PROVE  EditInv'
<1>1. /\ pc[r] = "validate" /\ pc'[r] = "prune" /\ ~TooDeep(r)
      /\ UNCHANGED <<parent, cmd, above, kids, frames, held, draft>>
  BY DEF Validate, HierarchyInv, TypeOK, locals
<1>2. /\ InMemory(r)' /\ Place(r)' = Place(r) /\ Old(r)' = Old(r)
      /\ Moved(r)' = Moved(r) /\ Given(r, cmd[r])' = Given(r, cmd[r])
      /\ View(r)' = View(r) /\ Top(r)' = Top(r) /\ Outer(r)' = Outer(r)
  BY <1>1, MemoryStays, CallFacts DEF View, Top, Outer
<1>3. OuterCall(r)'
  BY <1>1, <1>2, CallFacts DEF OuterCall
<1>4. Place(r) \in Category => parent[Place(r)] # Absent
  BY <1>1, CallFacts, FreshAssumption
<1>5. CASE cmd[r].subs = None
  <2>1. Len(frames[r]) = 1 => Forest!IsForest(Moved(r))
    BY <1>1, <1>5, CheckStopsCircle
  <2>2. Rewriting(r) /\ Len(frames[r]) \in {1, 2}
    BY <1>1, <1>5, CallFacts
  <2>3. Rewriting(r)'
    BY <1>1, <1>2, <2>1, <2>2 DEF Rewriting
  <2>4. EditHandler(r)'
    BY <1>1, <1>2, <1>3, <1>4, <1>5, <2>3 DEF EditHandler
  <2> QED
    BY <1>1, <2>4, OnlyHandler DEF EditInv
<1>6. CASE cmd[r].subs # None
  <2>1. Replacing(r)
    BY <1>1, <1>6, CallFacts
  <2>2. Replacing(r)'
    BY <1>1, <1>2, <2>1 DEF Replacing
  <2>3. EditHandler(r)'
    BY <1>1, <1>2, <1>3, <1>4, <1>6, <2>2 DEF EditHandler
  <2> QED
    BY <1>1, <2>3, OnlyHandler DEF EditInv
<1> QED
  BY <1>5, <1>6

LEMMA ReturnEdit ==
  ASSUME HierarchyInv, EditInv, NEW r \in Requests, Return(r),
         \A q \in Requests \ {r} : pc[q] \notin Working /\ pc'[q] = pc[q]
  PROVE  EditInv'
<1>1. /\ pc[r] = "child" /\ pc'[r] = "child" /\ Len(frames[r]) > 1
      /\ frames'[r] = Tail(frames[r])
      /\ UNCHANGED <<parent, cmd, above, kids, held, draft>>
  BY DEF Return, HierarchyInv, TypeOK
<1>2. /\ InMemory(r)' /\ Place(r)' = Place(r) /\ Old(r)' = Old(r)
      /\ Moved(r)' = Moved(r) /\ View(r)' = View(r)
  BY <1>1, MemoryStays, CallFacts DEF View
<1>3. /\ frames[r] \in Seq(FrameType) /\ Len(frames[r]) = 2
      /\ Outer(r) = frames[r][Len(frames[r])] /\ OuterCall(r)
      /\ Place(r) \in Category => parent[Place(r)] # Absent
      /\ IF cmd[r].subs = None THEN Rewriting(r) ELSE Replacing(r)
  BY <1>1, CallFacts, FreshAssumption
<1>4. Len(Tail(frames[r])) = 1 /\ Tail(frames[r])[1] = frames[r][2]
  BY <1>3
<1>5. Len(frames[r])' = 1 /\ Outer(r)' = Outer(r)
  BY <1>1, <1>3, <1>4 DEF Outer
<1>6. OuterCall(r)'
  BY <1>1, <1>2, <1>3, <1>5 DEF OuterCall
<1>7. cmd[r].subs = None /\ Rewriting(r)
  BY <1>3 DEF Replacing
<1>8. Rewriting(r)'
  BY <1>1, <1>2, <1>3, <1>5, <1>7 DEF Rewriting
<1>9. EditHandler(r)'
  BY <1>1, <1>2, <1>3, <1>6, <1>7, <1>8 DEF EditHandler
<1> QED
  BY <1>1, <1>9, OnlyHandler DEF EditInv

\* The update of the row itself opens the first call.
LEMMA WriteRowEdit ==
  ASSUME HierarchyInv, EditInv, NEW r \in Requests, WriteRow(r),
         \A q \in Requests \ {r} : pc[q] \notin Working /\ pc'[q] = pc[q]
  PROVE  EditInv'
<1> DEFINE id == cmd[r].id
           call == Frame(id, kids[r][id], FALSE)
<1>1. /\ TypeOK /\ pc[r] = "row" /\ pc[r] \in Updating
      /\ held[r] = {} /\ View(r) = parent
  BY NothingHeld DEF WriteRow, HierarchyInv, InTransaction, Updating
<1>2. /\ id \in Category /\ Place(r) \in Category \cup {Root}
      /\ parent[id] # Absent /\ id \notin Old(r) /\ Place(r) # id
      /\ kids[r][id] = IF cmd[r].subs = None THEN ChildrenIn(parent, {id})
                       ELSE Given(r, cmd[r])
  BY <1>1, UpdateFacts
<1>3. /\ pc'[r] = "validate" /\ held'[r] = {id} /\ frames'[r] = <<call>>
      /\ draft'[r][id] = Place(r)
      /\ UNCHANGED <<parent, cmd, above, kids>>
      /\ above[r] # Root => parent[above[r]] # Absent
  BY <1>1, <1>2 DEF WriteRow, TypeOK, Place
<1>4. Place(r) \in Category => parent[Place(r)] # Absent
  <2>1. parent[id] \in Category => parent[parent[id]] # Absent
    BY <1>2 DEF HierarchyInv, ParentsExist
  <2> QED
    BY <1>3, <2>1 DEF Place
<1>5. /\ InMemory(r) /\ InMemory(r)' /\ Place(r)' = Place(r)
      /\ Old(r)' = Old(r) /\ Moved(r)' = Moved(r)
      /\ Given(r, cmd[r])' = Given(r, cmd[r])
  <2>1. InMemory(r)
    BY <1>1 DEF EditInv, EditHandler
  <2> QED
    BY <1>3, <2>1, MemoryStays
<1>6. View(r)' = Moved(r)
  <2>1. View(r)' = [c \in Category |-> IF c \in held'[r] THEN draft'[r][c]
                                       ELSE parent[c]]
    BY <1>3 DEF View
  <2>2. \A c \in Category : (IF c \in held'[r] THEN draft'[r][c] ELSE parent[c])
                              = IF c = id THEN Place(r) ELSE parent[c]
    BY <1>3
  <2> QED
    BY <2>1, <2>2 DEF Moved
<1>7. /\ Len(frames[r])' = 1 /\ Top(r)' = call /\ Outer(r)' = call
      /\ call.at = id /\ call.left = kids[r][id]
  <2>1. Len(<<call>>) = 1 /\ <<call>>[1] = call /\ Head(<<call>>) = call
    OBVIOUS
  <2>2. call.at = id /\ call.left = kids[r][id]
    BY DEF Frame
  <2> QED
    BY <1>3, <2>1, <2>2 DEF Top, Outer
<1> HIDE DEF call
<1>8. OuterCall(r)'
  BY <1>3, <1>5, <1>7 DEF OuterCall
<1>9. CASE cmd[r].subs = None
  <2>1. kids[r][id] = Old(r)
    BY <1>2, <1>9 DEF Old
  <2>2. Rewriting(r)'
    BY <1>3, <1>5, <1>6, <1>7, <2>1 DEF Rewriting
  <2>3. EditHandler(r)'
    BY <1>3, <1>4, <1>5, <1>8, <1>9, <2>2 DEF EditHandler
  <2> QED
    BY <1>3, <2>3, OnlyHandler DEF EditInv
<1>10. CASE cmd[r].subs # None
  <2>1. Replacing(r)'
    BY <1>2, <1>3, <1>5, <1>6, <1>7, <1>10 DEF Replacing
  <2>2. EditHandler(r)'
    BY <1>3, <1>4, <1>5, <1>8, <1>10, <2>1 DEF EditHandler
  <2> QED
    BY <1>3, <2>2, OnlyHandler DEF EditInv
<1> QED
  BY <1>9, <1>10

\* What a transaction reads after it wrote a tree.
LEMMA WriteShows ==
  ASSUME TypeOK, NEW r \in Requests, NEW tree \in Tree, Write(r, tree),
         UNCHANGED parent
  PROVE  View(r)' = tree
<1>1. /\ \A c \in Category : c \in held'[r] <=>
           c \in held[r] \/ tree[c] # View(r)[c]
      /\ \A c \in Category :
           draft'[r][c] = IF tree[c] # View(r)[c] THEN tree[c] ELSE draft[r][c]
  BY DEF Write, TypeOK
<1>2. \A c \in Category : View(r)[c] = IF c \in held[r] THEN draft[r][c]
                                       ELSE parent[c]
  BY DEF View
<1>3. \A c \in Category : View(r)'[c] = tree[c]
  BY <1>1, <1>2 DEF View
<1>4. View(r)' = [c \in Category |-> View(r)'[c]] /\ tree = [c \in Category |-> tree[c]]
  BY DEF View, Tree
<1> QED
  BY <1>3, <1>4

\* The deletion of the direct subcategories.
LEMMA PurgeEdit ==
  ASSUME HierarchyInv, EditInv, NEW r \in Requests, Purge(r),
         \A q \in Requests \ {r} : pc[q] \notin Working /\ pc'[q] = pc[q]
  PROVE  EditInv'
<1>1. /\ TypeOK /\ pc[r] = "purge" /\ pc'[r] = "drop"
      /\ UNCHANGED <<parent, cmd, above, kids>>
      /\ Write(r, Cut(parent, Old(r)))
  BY DEF Purge, HierarchyInv, TypeOK, Old
<1>2. Cut(parent, Old(r)) \in Tree
  BY <1>1 DEF Cut, TypeOK, Tree
<1>3. View(r)' = Cut(parent, Old(r))
  BY <1>1, <1>2, WriteShows
<1>4. Old(r)' = Old(r) /\ parent' = parent
  BY <1>1, MemoryStays
<1>5. Cut(parent, Old(r))' = Cut(parent, Old(r))
  BY <1>4 DEF Cut
<1>6. EditHandler(r)'
  BY <1>1, <1>3, <1>5 DEF EditHandler, Updating
<1> QED
  BY <1>1, <1>6, OnlyHandler DEF EditInv

\* The subcategories that the call of the category itself finds.
LEMMA FoundFacts ==
  ASSUME HierarchyInv, EditInv, NEW r \in Requests,
         pc[r] \in {"validate", "prune", "child"}
  PROVE  /\ ChildrenIn(Moved(r), {cmd[r].id}) = Old(r)
         /\ \A x \in Old(r) : Place(r) \notin Old(r) =>
              ChildrenIn(Moved(r), {x}) \subseteq ChildrenIn(parent, {x})
BY CallFacts, UpdateFacts DEF ChildrenIn

\* The deletion of what is not in memory: nothing, or the old subcategories.
LEMMA PruneEdit ==
  ASSUME HierarchyInv, EditInv, NEW r \in Requests, Prune(r),
         \A q \in Requests \ {r} : pc[q] \notin Working /\ pc'[q] = pc[q]
  PROVE  EditInv'
<1> DEFINE id == cmd[r].id
           found == ChildrenIn(View(r), {Top(r).at})
<1>1. /\ TypeOK /\ pc[r] = "prune" /\ pc'[r] = "child"
      /\ UNCHANGED <<parent, cmd, above, kids>>
      /\ Write(r, Cut(View(r), Stale(r)))
      /\ frames'[r] = [frames[r] EXCEPT ![1].found = found]
  BY DEF Prune, HierarchyInv, TypeOK
<1>2. /\ frames[r] \in Seq(FrameType) /\ Len(frames[r]) \in {1, 2}
      /\ Top(r) = frames[r][1] /\ Top(r) \in FrameType
      /\ Outer(r) = frames[r][Len(frames[r])]
      /\ Len(frames[r]) = 1 => Outer(r) = Top(r)
      /\ OuterCall(r)
      /\ Place(r) \in Category => parent[Place(r)] # Absent
      /\ IF cmd[r].subs = None THEN Rewriting(r) ELSE Replacing(r)
  BY <1>1, CallFacts
<1>3. /\ id \in Category /\ Old(r) \subseteq Category /\ pc[r] \in Updating
      /\ kids[r][id] = IF cmd[r].subs = None THEN ChildrenIn(parent, {id})
                       ELSE Given(r, cmd[r])
      /\ cmd[r].subs = None =>
           \A x \in Old(r) : kids[r][x] = ChildrenIn(parent, {x})
      /\ Given(r, cmd[r]) \cap Old(r) = {}
  <2>1. pc[r] \in Updating
    BY <1>1 DEF Updating
  <2> QED
    BY <2>1, UpdateFacts
<1>4. /\ InMemory(r)' /\ Place(r)' = Place(r) /\ Old(r)' = Old(r)
      /\ Moved(r)' = Moved(r) /\ Given(r, cmd[r])' = Given(r, cmd[r])
  BY <1>1, MemoryStays, CallFacts
<1>5. View(r) \in Tree /\ Cut(View(r), Stale(r)) \in Tree
  <2>1. View(r) \in Tree
    BY <1>1, ViewType
  <2> QED
    BY <2>1 DEF Cut, Tree
<1>6. View(r)' = Cut(View(r), Stale(r))
  BY <1>1, <1>5, WriteShows
<1> DEFINE top == [Top(r) EXCEPT !.found = found]
<1>7. /\ Len(frames[r])' = Len(frames[r]) /\ Top(r)' = top
      /\ Outer(r)' = IF Len(frames[r]) = 1 THEN top ELSE Outer(r)
  <2> DEFINE f == frames[r]
             g == [f EXCEPT ![1] = top]
  <2>1. frames'[r] = g
    BY <1>1, <1>2
  <2>2. top \in FrameType
    BY <1>2 DEF FrameType, ChildrenIn
  <2>3. /\ g \in Seq(FrameType) /\ Len(g) = Len(f) /\ g[1] = top
        /\ Len(f) = 2 => g[2] = f[2]
        /\ g # <<>>
    <3> HIDE DEF top
    <3>1. f \in Seq(FrameType) /\ Len(f) \in {1, 2}
      BY <1>2
    <3> QED
      BY <2>2, <3>1
  <2>4. Top(r)' = g[1]
    <3> HIDE DEF g
    <3> QED
      BY <2>1, <2>3, HeadFacts DEF Top
  <2>5. Outer(r)' = g[Len(g)]
    BY <2>1 DEF Outer
  <2> HIDE DEF f, g, top
  <2>6. Len(frames[r])' = Len(f) /\ Len(frames[r]) = Len(f)
    BY <2>1, <2>3 DEF f
  <2>7. Len(f) = 2 => Outer(r) = f[2]
    BY <1>2 DEF f
  <2> QED
    BY <1>2, <2>3, <2>4, <2>5, <2>6, <2>7
<1>8. top.at = Top(r).at /\ top.left = Top(r).left /\ top.found = found
  BY <1>2 DEF FrameType
<1> HIDE DEF top
<1>9. CASE cmd[r].subs = None
  <2>1. /\ Rewriting(r) /\ View(r) = Moved(r) /\ Forest!IsForest(Moved(r))
        /\ Place(r) \notin Old(r)
    <3>1. Rewriting(r) /\ View(r) = Moved(r) /\ Forest!IsForest(Moved(r))
      BY <1>1, <1>2, <1>9 DEF Rewriting
    <3> QED
      BY <1>1, <3>1, PlaceOutside
  <2>2. Len(frames[r]) = 1 => Top(r).at = id
    BY <1>2 DEF OuterCall
  <2>3. Len(frames[r]) = 1 => found = Old(r)
    BY <1>1, <2>1, <2>2, FoundFacts
  <2>4. Stale(r) = {}
    <3>1. CASE Len(frames[r]) = 1
      BY <1>3, <1>9, <2>2, <2>3, <3>1 DEF Stale, Old
    <3>2. CASE Len(frames[r]) = 2
      <4>1. Top(r).at \in Old(r)
        BY <2>1, <3>2 DEF Rewriting
      <4>2. found \subseteq ChildrenIn(parent, {Top(r).at})
        BY <1>1, <2>1, <4>1, FoundFacts
      <4> QED
        BY <1>3, <1>9, <4>1, <4>2 DEF Stale
    <3> QED
      BY <1>2, <3>1, <3>2
  <2>5. Cut(View(r), {}) = View(r)
    BY <1>5 DEF Cut, Tree
  <2>6. View(r)' = Moved(r)
    BY <1>6, <2>1, <2>4, <2>5
  <2>7. OuterCall(r)'
    BY <1>1, <1>2, <1>4, <1>7, <1>8, <2>2, <2>3 DEF OuterCall
  <2>8. Outer(r)'.left \subseteq Old(r)
    BY <1>2, <1>7, <1>8, <2>1 DEF Rewriting
  <2>9. Rewriting(r)'
    BY <1>1, <1>4, <1>7, <1>8, <2>1, <2>6, <2>8 DEF Rewriting
  <2>10. EditHandler(r)'
    BY <1>1, <1>2, <1>4, <1>9, <2>7, <2>9 DEF EditHandler
  <2> QED
    BY <1>1, <2>10, OnlyHandler DEF EditInv
<1>10. CASE cmd[r].subs # None
  <2>1. /\ Len(frames[r]) = 1 /\ View(r) = Moved(r)
        /\ Top(r).left = Given(r, cmd[r])
    BY <1>1, <1>2, <1>10 DEF Replacing
  <2>2. Top(r).at = id
    BY <1>2, <2>1 DEF OuterCall
  <2>3. found = Old(r)
    BY <1>1, <2>1, <2>2, FoundFacts
  <2>4. Stale(r) = Old(r)
    BY <1>3, <1>10, <2>2, <2>3 DEF Stale
  <2>5. View(r)' = Cut(Moved(r), Old(r))
    BY <1>6, <2>1, <2>4
  <2>6. Cut(Moved(r), Old(r))' = Cut(Moved(r), Old(r))
    BY <1>4 DEF Cut
  <2>7. Top(r)'.left = Given(r, cmd[r])
    BY <1>7, <1>8, <2>1
  <2>8. Replaced(r)' = Cut(Moved(r), Old(r))
    <3>1. Replaced(r)' = [c \in Category |-> Cut(Moved(r), Old(r))[c]]
      BY <1>1, <1>4, <2>6, <2>7 DEF Replaced
    <3> QED
      BY <3>1 DEF Cut
  <2>9. OuterCall(r)'
    BY <1>1, <1>2, <1>4, <1>7, <1>8, <2>1, <2>2, <2>3 DEF OuterCall
  <2>10. Replacing(r)'
    BY <1>1, <1>4, <1>7, <2>1, <2>5, <2>7, <2>8 DEF Replacing
  <2>11. EditHandler(r)'
    BY <1>1, <1>2, <1>4, <1>10, <2>9, <2>10 DEF EditHandler
  <2> QED
    BY <1>1, <2>11, OnlyHandler DEF EditInv
<1> QED
  BY <1>9, <1>10

\* The open calls after one has changed, or has called.
LEMMA ReplaceTop ==
  ASSUME NEW S, NEW f \in Seq(S), NEW t \in S, Len(f) \in {1, 2}
  PROVE  /\ <<t>> \o Tail(f) \in Seq(S) /\ Len(<<t>> \o Tail(f)) = Len(f)
         /\ Head(<<t>> \o Tail(f)) = t /\ (<<t>> \o Tail(f))[1] = t
         /\ Len(f) = 2 => (<<t>> \o Tail(f))[2] = f[2]
OBVIOUS

LEMMA PushTop ==
  ASSUME NEW S, NEW f \in Seq(S), NEW t \in S, Len(f) = 1
  PROVE  /\ Len(<<t>> \o f) = 2 /\ Head(<<t>> \o f) = t
         /\ (<<t>> \o f)[2] = f[1]
OBVIOUS

\* The write of a subcategory: where it was, or new below its category.
LEMMA WriteChildEdit ==
  ASSUME HierarchyInv, EditInv, NEW r \in Requests, WriteChild(r),
         \A q \in Requests \ {r} : pc[q] \notin Working /\ pc'[q] = pc[q]
  PROVE  EditInv'
<1> DEFINE id == cmd[r].id
<1>1. /\ TypeOK /\ pc[r] = "child" /\ pc[r] \in Updating
      /\ UNCHANGED <<parent, cmd, above, kids>>
  BY DEF WriteChild, HierarchyInv, Updating
<1>2. /\ frames[r] \in Seq(FrameType) /\ Len(frames[r]) \in {1, 2}
      /\ Top(r) = frames[r][1] /\ Top(r) \in FrameType
      /\ Outer(r) = frames[r][Len(frames[r])]
      /\ Len(frames[r]) = 1 => Outer(r) = Top(r)
      /\ OuterCall(r)
      /\ Place(r) \in Category => parent[Place(r)] # Absent
      /\ IF cmd[r].subs = None THEN Rewriting(r) ELSE Replacing(r)
      /\ \A x \in Category :
           Moved(r)[x] = IF x = id THEN Place(r) ELSE parent[x]
  BY <1>1, CallFacts
<1>3. /\ id \in Category /\ id \notin Old(r) /\ parent[id] \notin Old(r)
      /\ Old(r) \subseteq Category
      /\ \A x \in Category : x \in Old(r) <=> parent[x] = id
      /\ Given(r, cmd[r]) \subseteq Category /\ id \notin Given(r, cmd[r])
      /\ \A x \in Category :
           kids[r][x] = IF cmd[r].subs = None
                        THEN IF x = id \/ x \in Old(r)
                             THEN ChildrenIn(parent, {x}) ELSE {}
                        ELSE IF x = id THEN Given(r, cmd[r]) ELSE {}
  BY <1>1, UpdateFacts
<1>4. /\ InMemory(r)' /\ Place(r)' = Place(r) /\ Old(r)' = Old(r)
      /\ Moved(r)' = Moved(r) /\ Given(r, cmd[r])' = Given(r, cmd[r])
  BY <1>1, MemoryStays, CallFacts
<1>5. PICK c \in Top(r).left :
        LET fresh == c \notin Top(r).found
            rest == <<[Top(r) EXCEPT !.left = @ \ {c}]>> \o Tail(frames[r])
        IN
        /\ held' = [held EXCEPT ![r] = @ \cup {c}]
        /\ draft' = [draft EXCEPT ![r][c] = Top(r).at]
        /\ IF kids[r][c] = {}
           THEN /\ frames' = [frames EXCEPT ![r] = rest]
                /\ UNCHANGED pc
           ELSE /\ frames' = [frames EXCEPT ![r] =
                                <<Frame(c, kids[r][c], fresh)>> \o rest]
                /\ pc' = [pc EXCEPT ![r] = IF fresh THEN "child"
                                           ELSE "validate"]
  BY DEF WriteChild
<1> DEFINE top == [Top(r) EXCEPT !.left = @ \ {c}]
           rest == <<top>> \o Tail(frames[r])
           call == Frame(c, kids[r][c], c \notin Top(r).found)
<1>6. /\ top \in FrameType /\ top.at = Top(r).at /\ top.found = Top(r).found
      /\ top.left = Top(r).left \ {c} /\ c \in Category
      /\ call \in FrameType /\ call.at = c /\ call.left = kids[r][c]
  <2>1. c \in Category
    BY <1>2 DEF FrameType
  <2>2. kids[r][c] \in SUBSET Category
    BY <1>1, <2>1 DEF TypeOK
  <2> QED
    BY <1>2, <2>1, <2>2 DEF FrameType, Frame
<1>7. /\ held'[r] = held[r] \cup {c}
      /\ \A x \in Category :
           draft'[r][x] = IF x = c THEN Top(r).at ELSE draft[r][x]
      /\ kids[r][c] = {} => frames'[r] = rest /\ pc'[r] = "child"
      /\ kids[r][c] # {} /\ c \in Top(r).found =>
           frames'[r] = <<call>> \o rest /\ pc'[r] = "validate"
  BY <1>1, <1>5 DEF TypeOK
<1> HIDE DEF top, call
<1>8. /\ rest \in Seq(FrameType) /\ Len(rest) = Len(frames[r])
      /\ Head(rest) = top /\ rest[1] = top
      /\ Len(frames[r]) = 2 => rest[2] = frames[r][2]
  BY <1>2, <1>6, ReplaceTop
<1> HIDE DEF rest
<1>9. \A x \in Category : View(r)'[x] = IF x = c THEN Top(r).at ELSE View(r)[x]
  BY <1>1, <1>6, <1>7 DEF View
<1>10. View(r)' = [x \in Category |-> View(r)'[x]]
  BY DEF View
<1>11. Moved(r) = [x \in Category |-> Moved(r)[x]]
  BY DEF Moved
<1>12. CASE cmd[r].subs = None
  <2>1. /\ Rewriting(r) /\ View(r) = Moved(r) /\ Forest!IsForest(Moved(r))
        /\ Outer(r).left \subseteq Old(r)
    BY <1>1, <1>2, <1>12 DEF Rewriting
  <2>2. CASE Len(frames[r]) = 1
    <3>1. Top(r).at = id /\ Top(r).found = Old(r) /\ c \in Old(r)
      BY <1>1, <1>2, <2>1, <2>2 DEF OuterCall
    <3>2. Moved(r)[c] = id
      BY <1>2, <1>3, <1>6, <3>1
    <3>3. View(r)' = Moved(r)
      BY <1>9, <1>10, <1>11, <2>1, <3>1, <3>2
    <3>4. CASE kids[r][c] = {}
      <4>1. Len(frames[r])' = 1 /\ Outer(r)' = top /\ pc'[r] = "child"
        BY <1>7, <1>8, <2>2, <3>4 DEF Outer
      <4>2. OuterCall(r)' /\ Rewriting(r)'
        BY <1>1, <1>2, <1>4, <1>6, <2>1, <2>2, <3>1, <3>3, <4>1
        DEF OuterCall, Rewriting
      <4>3. EditHandler(r)'
        BY <1>1, <1>2, <1>4, <1>12, <4>1, <4>2 DEF EditHandler
      <4> QED
        BY <1>1, <4>3, OnlyHandler DEF EditInv
    <3>5. CASE kids[r][c] # {}
      <4>1. frames'[r] = <<call>> \o rest /\ pc'[r] = "validate"
        BY <1>7, <3>1, <3>5
      <4>2. /\ Len(frames[r])' = 2 /\ Outer(r)' = top /\ Top(r)' = call
        BY <1>6, <1>8, <2>2, <4>1, PushTop DEF Outer, Top
      <4>3. kids[r][c] = ChildrenIn(parent, {c})
        BY <1>3, <1>6, <1>12, <3>1
      <4>4. Top(r)'.left = ChildrenIn(parent, {Top(r).at})'
        BY <1>1, <1>6, <4>2, <4>3 DEF ChildrenIn
      <4>5. OuterCall(r)'
        BY <1>1, <1>4, <1>6, <3>1, <4>1, <4>2 DEF OuterCall
      <4>6. Rewriting(r)'
        <5>1. View(r)' = Moved(r)' /\ Forest!IsForest(Moved(r)')
          BY <1>4, <2>1, <3>3
        <5>2. Outer(r)'.left \subseteq Old(r)'
          BY <1>2, <1>4, <1>6, <2>1, <2>2, <4>2
        <5>3. Top(r)'.at \in Old(r)'
          BY <1>4, <1>6, <3>1, <4>2
        <5>4. Top(r)'.left \subseteq ChildrenIn(parent, {Top(r).at})'
          BY <4>4
        <5> QED
          BY <5>1, <5>2, <5>3, <5>4 DEF Rewriting
      <4>7. EditHandler(r)'
        BY <1>1, <1>2, <1>4, <1>12, <4>1, <4>5, <4>6 DEF EditHandler
      <4> QED
        BY <1>1, <4>7, OnlyHandler DEF EditInv
    <3> QED
      BY <3>4, <3>5
  <2>3. CASE Len(frames[r]) = 2
    <3>1. /\ Top(r).at \in Old(r) /\ parent[c] = Top(r).at
          /\ Top(r).left \subseteq ChildrenIn(parent, {Top(r).at})
      BY <1>5, <2>1, <2>3 DEF Rewriting, ChildrenIn
    <3>2. c # id /\ c \notin Old(r) /\ kids[r][c] = {}
      BY <1>3, <1>6, <1>12, <3>1
    <3>3. Moved(r)[c] = Top(r).at
      BY <1>2, <1>6, <3>1, <3>2
    <3>4. View(r)' = Moved(r)
      BY <1>9, <1>10, <1>11, <2>1, <3>3
    <3>5. /\ frames'[r] = rest /\ pc'[r] = "child"
      BY <1>7, <3>2
    <3>6. Len(frames[r])' = 2 /\ Outer(r)' = Outer(r) /\ Top(r)' = top
      BY <1>2, <1>8, <2>3, <3>5 DEF Outer, Top
    <3>7. OuterCall(r)' /\ Rewriting(r)'
      BY <1>1, <1>2, <1>4, <1>6, <2>1, <2>3, <3>1, <3>4, <3>5, <3>6
      DEF OuterCall, Rewriting
    <3>8. EditHandler(r)'
      BY <1>1, <1>2, <1>4, <1>12, <3>5, <3>7 DEF EditHandler
    <3> QED
      BY <1>1, <3>8, OnlyHandler DEF EditInv
  <2> QED
    BY <1>2, <2>2, <2>3
<1>13. CASE cmd[r].subs # None
  <2>1. /\ Len(frames[r]) = 1 /\ View(r) = Replaced(r)
        /\ Top(r).left \subseteq Given(r, cmd[r])
    BY <1>1, <1>2, <1>13 DEF Replacing
  <2>2. Top(r).at = id /\ Top(r).found = Old(r) /\ c \in Given(r, cmd[r])
    BY <1>1, <1>2, <2>1 DEF OuterCall
  <2>3. kids[r][c] = {}
    BY <1>3, <1>6, <1>13, <2>2
  <2>4. frames'[r] = rest /\ pc'[r] = "child"
    BY <1>7, <2>3
  <2>5. Len(frames[r])' = 1 /\ Outer(r)' = top /\ Top(r)' = top
    BY <1>8, <2>1, <2>4 DEF Outer, Top
  <2>6. Replaced(r)' =
          [x \in Category |-> IF x \in Given(r, cmd[r]) \ top.left THEN id
                              ELSE Cut(Moved(r), Old(r))[x]]
    <3>1. Cut(Moved(r), Old(r))' = Cut(Moved(r), Old(r))
      BY <1>4 DEF Cut
    <3> QED
      BY <1>1, <1>4, <2>5, <3>1 DEF Replaced
  <2>7. \A x \in Category :
          View(r)[x] = IF x \in Given(r, cmd[r]) \ Top(r).left THEN id
                       ELSE Cut(Moved(r), Old(r))[x]
    BY <2>1 DEF Replaced
  <2>8. \A x \in Category :
          View(r)'[x] = IF x \in Given(r, cmd[r]) \ top.left THEN id
                        ELSE Cut(Moved(r), Old(r))[x]
    BY <1>6, <1>9, <2>2, <2>7
  <2>9. View(r)' = Replaced(r)'
    BY <1>10, <2>6, <2>8
  <2>10. OuterCall(r)'
    BY <1>1, <1>4, <1>6, <2>2, <2>4, <2>5 DEF OuterCall
  <2>11. Replacing(r)'
    BY <1>4, <1>6, <2>1, <2>4, <2>5, <2>9 DEF Replacing
  <2>12. EditHandler(r)'
    BY <1>1, <1>2, <1>4, <1>13, <2>4, <2>10, <2>11 DEF EditHandler
  <2> QED
    BY <1>1, <2>12, OnlyHandler DEF EditInv
<1> QED
  BY <1>12, <1>13

-----------------------------------------------------------------------------
\* The three commits are edits of the forest, and close no circle.

LEMMA InsertEdits ==
  ASSUME HierarchyInv, EditInv, NEW r \in Requests, InsertCategory(r)
  PROVE  Forest!IsForest(parent') /\ Forest!Next
<1> DEFINE m == Main(r)
           new == kids[r][m]
<1>1. /\ pc[r] = "insert" /\ Handler(r) /\ TypeOK /\ ParentsExist
      /\ parent[m] = Absent /\ parent[Sub(r)] = Absent
  BY DEF HierarchyInv, HandlerState, InsertCategory, FreshIdentifiers, Open,
     Working, Fresh
<1>2. /\ above[r] \in Category \cup {Root} /\ new \subseteq {Sub(r)}
      /\ above[r] # Root => parent[above[r]] # Absent
  BY <1>1 DEF Handler, InsertCategory
<1>3. m \in Category /\ Sub(r) \in Category /\ m # Sub(r)
  BY FreshFacts
<1>4. parent' = [c \in Category |-> IF c = m THEN above[r]
                                   ELSE IF c \in new THEN m ELSE parent[c]]
  BY DEF InsertCategory
<1>5. /\ \A s \in new : parent[s] = Absent
      /\ new \in {{}} \cup {{s} : s \in Category}
      /\ above[r] \in Category => parent[above[r]] # Absent
  BY <1>1, <1>2, <1>3, FreshAssumption
<1>6. Forest!Create(m, above[r], new)
  BY <1>1, <1>4, <1>5 DEF Forest!Create
<1>7. Forest!Edit
  <2> HIDE DEF m, new
  <2> QED
    BY <1>2, <1>3, <1>5, <1>6 DEF Forest!Edit
<1>8. ASSUME NEW S \in (SUBSET Category) \ {{}}, \A x \in S : parent'[x] \in S
      PROVE  FALSE
  <2>1. \A x \in Category : parent[x] # m /\ parent[x] # Sub(r)
    BY <1>1, <1>3 DEF ParentsExist
  <2>2. above[r] # m /\ above[r] # Sub(r)
    BY <1>1, <1>2, <1>3, FreshAssumption
  <2> HIDE DEF m, new
  <2>3. \A x \in S : parent'[x] = IF x = m THEN above[r]
                                  ELSE IF x \in new THEN m ELSE parent[x]
    BY <1>4
  <2>4. PICK x \in S : x # m /\ x # Sub(r)
    BY <1>2, <1>8, <2>1, <2>2, <2>3, FreshAssumption
  <2>5. \A y \in S \ {m, Sub(r)} : parent[y] \in S \ {m, Sub(r)}
    BY <1>2, <1>8, <2>1, <2>3
  <2> QED
    BY <2>4, <2>5 DEF EditInv, Forest!IsForest
<1> QED
  BY <1>7, <1>8 DEF Forest!IsForest, Forest!Next

LEMMA DropEdits ==
  ASSUME HierarchyInv, EditInv, NEW r \in Requests, Drop(r)
  PROVE  Forest!IsForest(parent') /\ Forest!Next
<1> DEFINE id == cmd[r].id
           cut == Cut(parent, Old(r))
<1>1. /\ TypeOK /\ pc[r] = "drop" /\ Handler(r) /\ View(r) = cut
      /\ View(r)[id] # Absent /\ parent' = Cut(View(r), {id})
  BY DEF Drop, HierarchyInv, HandlerState, EditInv, EditHandler
<1>2. id \in Category
  BY <1>1, CommandFacts DEF Handler, Working
<1>3. /\ Old(r) \subseteq Category
      /\ \A x \in Category : x \in Old(r) <=> parent[x] = id
  BY DEF Old, ChildrenIn
<1>4. \A x \in Category :
        cut[x] = IF x \in Old(r) THEN Absent
                 ELSE IF parent[x] \in Old(r) THEN Root ELSE parent[x]
  BY DEF Cut
<1>5. parent' = [x \in Category |-> IF x = id THEN Absent
                                   ELSE IF cut[x] = id THEN Root ELSE cut[x]]
  BY <1>1 DEF Cut
<1> HIDE DEF cut
<1>6. \A x \in Category : cut[x] # id
  BY <1>2, <1>3, <1>4, FreshAssumption
<1>7. id \notin Old(r) /\ parent[id] # Absent
  BY <1>1, <1>2, <1>3, <1>4, FreshAssumption
<1>8. \A x \in Category :
        parent'[x] = IF x = id \/ x \in Old(r) THEN Absent
                     ELSE IF parent[x] \in Old(r) THEN Root ELSE parent[x]
  BY <1>4, <1>5, <1>6
<1>9. Forest!Delete(id)
  <2> DEFINE old == {id} \cup Forest!Below({id})
             F == [x \in Category |-> IF x \in old THEN Absent
                                      ELSE IF parent[x] \in old THEN Root
                                      ELSE parent[x]]
  <2>1. \A x \in Category : x \in old <=> x = id \/ x \in Old(r)
    BY DEF Forest!Below, Old, ChildrenIn
  <2>2. \A x \in Category : x \notin old =>
          (parent[x] \in old <=> parent[x] \in Old(r))
    BY <1>3, <2>1 DEF Forest!Below, Old, ChildrenIn
  <2> HIDE DEF old
  <2>3. \A x \in Category : parent'[x] = F[x]
    BY <1>8, <2>1, <2>2
  <2>4. parent' = [x \in Category |-> parent'[x]]
    BY <1>5
  <2>5. parent' = F
    BY <2>3, <2>4
  <2> QED
    BY <1>7, <2>5 DEF Forest!Delete, old
<1>10. Forest!Edit
  BY <1>2, <1>9 DEF Forest!Edit
<1>11. ASSUME NEW S \in (SUBSET Category) \ {{}}, \A x \in S : parent'[x] \in S
       PROVE  FALSE
  <2>1. \A x \in S : parent[x] \in S
    BY <1>8, <1>11, FreshAssumption
  <2> QED
    BY <2>1 DEF EditInv, Forest!IsForest
<1> QED
  BY <1>10, <1>11 DEF Forest!IsForest, Forest!Next

LEMMA CommitEdits ==
  ASSUME HierarchyInv, EditInv, NEW r \in Requests, CommitUpdate(r)
  PROVE  Forest!IsForest(parent') /\ Forest!Next
<1> DEFINE id == cmd[r].id
           p == Place(r)
           new == Given(r, cmd[r])
<1>1. /\ TypeOK /\ pc[r] = "child" /\ pc[r] \in Updating /\ Handler(r)
      /\ Len(frames[r]) = 1 /\ Top(r).left = {} /\ parent' = View(r)
  BY DEF CommitUpdate, HierarchyInv, HandlerState, Updating
<1>2. /\ id \in Category /\ parent[id] # Absent /\ p # id
      /\ p \in Category \cup {Root}
      /\ id \notin Old(r) /\ Old(r) \subseteq Category
      /\ \A x \in Category : x \in Old(r) <=> parent[x] = id
      /\ new \subseteq Category /\ id \notin new
      /\ \A x \in new : parent[x] = Absent /\ x \notin Old(r)
  BY <1>1, UpdateFacts
<1>3. /\ p \in Category => parent[p] # Absent
      /\ IF cmd[r].subs = None THEN Rewriting(r) ELSE Replacing(r)
      /\ \A x \in Category : Moved(r)[x] = IF x = id THEN p ELSE parent[x]
  BY <1>1, CallFacts
<1>4. Moved(r) = [x \in Category |-> Moved(r)[x]]
  BY DEF Moved
<1> HIDE DEF p, new
<1>5. CASE cmd[r].subs = None
  <2>1. parent' = Moved(r) /\ Forest!IsForest(Moved(r))
    BY <1>1, <1>3, <1>5 DEF Rewriting
  <2>2. parent' = [parent EXCEPT ![id] = p]
    <3> DEFINE F == [parent EXCEPT ![id] = p]
    <3>1. \A x \in Category : F[x] = Moved(r)[x]
      BY <1>1, <1>2, <1>3 DEF TypeOK
    <3>2. F = [x \in Category |-> F[x]]
      BY <1>1 DEF TypeOK
    <3> HIDE DEF F
    <3>3. F = Moved(r)
      BY <1>4, <3>1, <3>2
    <3> QED
      BY <2>1, <3>3 DEF F
  <2>3. Forest!Move(id, p)
    BY <1>2, <1>3, <2>2 DEF Forest!Move
  <2>4. Forest!Edit
    BY <1>2, <2>3 DEF Forest!Edit
  <2> QED
    BY <2>1, <2>4 DEF Forest!Next
<1>6. CASE cmd[r].subs # None
  <2>1. View(r) = Replaced(r)
    BY <1>1, <1>3, <1>6 DEF Replacing
  <2>2. parent' = [x \in Category |-> IF x \in new THEN id
                                     ELSE Cut(Moved(r), Old(r))[x]]
    BY <1>1, <2>1 DEF Replaced, new
  <2>3. \A x \in Category :
          parent'[x] = IF x \in new THEN id
                       ELSE IF x \in Old(r) THEN Absent
                       ELSE IF Moved(r)[x] \in Old(r) THEN Root ELSE Moved(r)[x]
    BY <2>2 DEF Cut
  <2>4. \A x \in Category :
          parent'[x] = IF x = id THEN IF p \in Old(r) THEN Root ELSE p
                       ELSE IF x \in new THEN id
                       ELSE IF x \in Old(r) THEN Absent
                       ELSE IF parent[x] \in Old(r) THEN Root ELSE parent[x]
    BY <1>2, <1>3, <2>3
  <2>5. parent' = [x \in Category |-> parent'[x]]
    BY <2>2
  <2>6. Forest!Below({id}) = Old(r)
    BY DEF Forest!Below, Old, ChildrenIn
  <2>7. parent' = [x \in Category |->
                     IF x = id THEN IF p \in Old(r) THEN Root ELSE p
                     ELSE IF x \in new THEN id
                     ELSE IF x \in Old(r) THEN Absent
                     ELSE IF parent[x] \in Old(r) THEN Root ELSE parent[x]]
    BY <2>4, <2>5
  <2>8. Forest!Replace(id, p, new)
    BY <1>2, <2>6, <2>7 DEF Forest!Replace
  <2>9. new \in {{}} \cup {{s} : s \in Category}
    BY FreshFacts DEF new, Given
  <2>10. Forest!Edit
    BY <1>2, <2>8, <2>9 DEF Forest!Edit
  <2>11. ASSUME NEW S \in (SUBSET Category) \ {{}}, \A x \in S : parent'[x] \in S
         PROVE  FALSE
    <3>1. \A x \in Category : parent[x] \notin new
      BY <1>1, <1>2 DEF HierarchyInv, ParentsExist
    <3>2. CASE id \notin S
      <4>1. \A x \in S : parent[x] \in S
        BY <2>4, <2>11, <3>2, FreshAssumption
      <4> QED
        BY <4>1 DEF EditInv, Forest!IsForest
    <3>3. CASE id \in S
      <4>1. p \in S /\ p \notin new /\ p # id
        BY <1>2, <1>3, <2>4, <2>11, <3>3, FreshAssumption
      <4>2. \A x \in S \ ({id} \cup new) : parent[x] \in S \ ({id} \cup new)
        BY <1>2, <2>4, <2>11, <3>1, FreshAssumption
      <4> QED
        BY <4>1, <4>2 DEF EditInv, Forest!IsForest
    <3> QED
      BY <3>2, <3>3
  <2> QED
    BY <2>10, <2>11 DEF Forest!IsForest, Forest!Next
<1> QED
  BY <1>5, <1>6

-----------------------------------------------------------------------------
\* Every step keeps what the calls have come to, and edits the forest or
\* leaves it as it is.
LEMMA NextEdit ==
  ASSUME HierarchyInv, TurnInv, EditInv, ~Overlap, ProperMoves, [Next]_vars
  PROVE  EditInv' /\ [Forest!Next]_parent
<1>1. CASE UNCHANGED vars
  <2> USE <1>1 DEF vars, locals
  <2>1. Forest!IsForest(parent')
    BY DEF EditInv
  <2>2. ASSUME NEW r \in Requests PROVE EditHandler(r)'
    <3>1. EditHandler(r) /\ (InMemory(r) => InMemory(r)')
      BY MemoryStays DEF EditInv
    <3>2. /\ Place(r)' = Place(r) /\ Old(r)' = Old(r) /\ Moved(r)' = Moved(r)
          /\ Given(r, cmd[r])' = Given(r, cmd[r])
      BY MemoryStays
    <3>3. View(r)' = View(r) /\ Top(r)' = Top(r) /\ Outer(r)' = Outer(r)
      BY DEF View, Top, Outer
    <3>4. Cut(parent, Old(r))' = Cut(parent, Old(r))
      BY <3>2 DEF Cut
    <3>5. Replaced(r)' = Replaced(r)
      <4>1. Cut(Moved(r), Old(r))' = Cut(Moved(r), Old(r))
        BY <3>2 DEF Cut
      <4> QED
        BY <3>2, <3>3, <4>1 DEF Replaced
    <3>6. OuterCall(r) => OuterCall(r)'
      BY <3>2, <3>3 DEF OuterCall
    <3>7. Rewriting(r) => Rewriting(r)'
      BY <3>2, <3>3 DEF Rewriting, ChildrenIn
    <3>8. Replacing(r) => Replacing(r)'
      BY <3>2, <3>3, <3>5 DEF Replacing
    <3> QED
      BY <3>1, <3>2, <3>3, <3>4, <3>6, <3>7, <3>8 DEF EditHandler
  <2> QED
    BY <2>1, <2>2 DEF EditInv
<1>2. ASSUME NEW r \in Requests, Start(r) PROVE EditInv' /\ UNCHANGED parent
  BY <1>2, BeginEdit, StartsAlone DEF HierarchyInv
<1>3. ASSUME NEW r \in Requests, Step(r) \/ Abort(r)
      PROVE  EditInv' /\ [Forest!Next]_parent
  <2>1. /\ TypeOK /\ pc[r] \in Working
        /\ \A q \in Requests \ {r} : pc[q] \notin Working /\ pc'[q] = pc[q]
    BY <1>3, StepsAlone DEF HierarchyInv
  <2>2. CASE CheckDepth(r)
    <3>1. UNCHANGED parent /\ pc'[r] = "insert"
      BY <2>1, <2>2 DEF CheckDepth, TypeOK
    <3>2. EditHandler(r)' /\ Forest!IsForest(parent')
      BY <3>1 DEF EditHandler, Updating, EditInv
    <3> QED
      BY <2>1, <3>1, <3>2, OnlyHandler
  <2>3. CASE WriteRow(r)
    BY <2>1, <2>3, WriteRowEdit DEF WriteRow
  <2>4. CASE Validate(r)
    BY <2>1, <2>4, ValidateEdit DEF Validate
  <2>5. CASE Prune(r)
    BY <2>1, <2>5, PruneEdit DEF Prune
  <2>6. CASE WriteChild(r)
    BY <2>1, <2>6, WriteChildEdit DEF WriteChild
  <2>7. CASE Return(r)
    BY <2>1, <2>7, ReturnEdit DEF Return
  <2>8. CASE Purge(r)
    BY <2>1, <2>8, PurgeEdit DEF Purge
  <2>9. CASE InsertCategory(r) \/ Drop(r) \/ CommitUpdate(r)
    <3>1. \E o \in Ended : pc' = [pc EXCEPT ![r] = o]
      BY <2>9 DEF InsertCategory, Drop, CommitUpdate, End, Ended
    <3>2. Forest!IsForest(parent') /\ Forest!Next
      BY <2>9, InsertEdits, DropEdits, CommitEdits
    <3>3. EditInv'
      BY <2>1, <3>1, <3>2, EndOfEdit
    <3> QED
      BY <3>2, <3>3
  <2>10. CASE RefuseDepth(r) \/ ChildRefused(r) \/ Gone(r) \/ Abort(r)
    <3>1. \E o \in Ended : Fail(r, o)
      BY <2>10 DEF RefuseDepth, ChildRefused, Gone, Abort, Ended
    <3>2. EditInv' /\ UNCHANGED parent
      BY <2>1, <3>1, FailOfEdit DEF Fail
    <3> QED
      BY <3>2
  <2> QED
    BY <1>3, <2>2, <2>3, <2>4, <2>5, <2>6, <2>7, <2>8, <2>9, <2>10 DEF Step
<1> QED
  BY <1>1, <1>2, <1>3 DEF Next, Served, vars

\* With commands served in turn that name another category as the parent, each
\* command of CategoryRepository is one edit of ICategoryRepository's forest
\* at the category it names, although update rewrites three levels of rows:
\* what it rewrites besides comes out as it was, and the check of the depth
\* keeps a category from coming to lie below its own subcategory.
THEOREM CommandsEditForestInTurn ==
  ASSUME ~Overlap, ProperMoves PROVE Spec => CommandsEditForest
<1>1. Init => HierarchyInv /\ TurnInv /\ EditInv /\ Forest!Init
  <2>1. HierarchyInv /\ EditInv => Forest!Init
    BY DEF HierarchyInv, TypeOK, EditInv, Forest!Init
  <2> QED
    BY <2>1, InitHierarchyInv, InitTurn, InitEdit
<1>2. HierarchyInv /\ TurnInv /\ EditInv /\ [Next]_vars =>
        /\ HierarchyInv' /\ TurnInv' /\ EditInv'
        /\ [Forest!Next]_(Forest!vars)
  BY NextHierarchyInv, NextTurn, NextEdit DEF Forest!vars
<1> QED
  BY <1>1, <1>2, PTL DEF Spec, CommandsEditForest, Forest!Spec

\* No sequence of such commands closes a circle of categories, of any length:
\* validateCategoryDepth after the write is enough.
THEOREM NoCircleInTurn ==
  ASSUME ~Overlap, ProperMoves PROVE Spec => []Forest!IsForest(parent)
<1>1. Init => HierarchyInv /\ TurnInv /\ EditInv
  BY InitHierarchyInv, InitTurn, InitEdit
<1>2. HierarchyInv /\ TurnInv /\ EditInv /\ [Next]_vars =>
        HierarchyInv' /\ TurnInv' /\ EditInv'
  BY NextHierarchyInv, NextTurn, NextEdit
<1>3. EditInv => Forest!IsForest(parent)
  BY DEF EditInv
<1> QED
  BY <1>1, <1>2, <1>3, PTL DEF Spec

\* No category drops out of the tree that GetAllCategoriesHandler shows, nor
\* shows twice, whatever commands of CategoryRepository overlapped before.
THEOREM NoCategoryDropsOut ==
  ASSUME IsFiniteSet(Category), WalkLimit > MaxDepth + 1
  PROVE  Spec => []TreeShowsEveryCategory
<1>1. HierarchyInv => TreeShowsEveryCategory
  BY TreeOfState DEF HierarchyInv
<1> QED
  BY <1>1, InductiveInvariant, PTL
=============================================================================
