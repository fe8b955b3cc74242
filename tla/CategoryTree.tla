---------------------------- MODULE CategoryTree ----------------------------
(***************************************************************************)
(* The category hierarchy of one tenant: create, update and delete as      *)
(* CategoryRepository runs them, statement by statement, under READ        *)
(* COMMITTED.  A category is its parentId; the other columns decide        *)
(* nothing (a name that is taken fails the transaction, see Abort).        *)
(***************************************************************************)
EXTENDS Naturals, Sequences

CONSTANTS
  Requests,        \* the commands' executions, each runs once
  InitCategories,  \* identifiers of the categories that may exist at start
  MaxDepth,        \* levels of the hierarchy (10)
  WalkLimit,       \* steps after which a walk to the root gives up (20)
  Commands,        \* the commands clients send
  Overlap,         \* FALSE: a command starts only when no other is open
  Root,            \* parentId null
  Absent,          \* no such row
  None             \* a field the command leaves out

\* Request r makes at most two categories, each with a fresh identifier.
Main(r) == <<r, "main">>
Sub(r) == <<r, "sub">>
Category == InitCategories \cup (Requests \X {"main", "sub"})

\* subs: the nested subCategories of the input, none, empty or one.
Command ==
  [kind : {"create"}, parent : Category \cup {Root}, subs : {0, 1}]
    \cup [kind : {"update"}, id : Category, parent : Category \cup {None},
          subs : {None, 0, 1}]
    \cup [kind : {"delete"}, id : Category]

ASSUME DepthAssumption ==
  MaxDepth \in Nat \ {0} /\ WalkLimit \in Nat /\ WalkLimit > MaxDepth
ASSUME CommandAssumption == Commands \subseteq Command /\ None \notin Commands
ASSUME FreshAssumption ==
  /\ InitCategories \cap (Requests \X {"main", "sub"}) = {}
  /\ Root \notin Category /\ Absent \notin Category /\ None \notin Category
  /\ Root # Absent /\ None # Root /\ None # Absent

VARIABLES
  parent,  \* committed rows: the parentId, Root or Absent
  pc,      \* where each request is in its handler
  cmd,     \* the command it executes
  above,   \* the parentId of its in-memory category
  kids,    \* the subcategories in memory, per category
  frames,  \* the open calls of updateSubCategories and createSubCategories
  held,    \* the rows its open transaction has written and locked
  draft    \* the uncommitted contents of those rows

locals == <<cmd, above, kids, frames, held, draft>>
vars == <<parent, pc, locals>>

Working == {"check", "insert", "row", "validate", "prune", "child", "purge",
            "drop"}
NoKids == [c \in Category |-> {}]
NoDraft == [c \in Category |-> Absent]

-----------------------------------------------------------------------------
\* What a statement of r's own transaction reads.
View(r) == [c \in Category |-> IF c \in held[r] THEN draft[r][c] ELSE parent[c]]

ChildrenIn(tree, S) == {c \in Category : tree[c] \in S}

\* Mutant: the foreign key does not detach the subcategories.
CutOnly(tree, S) == [c \in Category |-> IF c \in S THEN Absent ELSE tree[c]]

\* ON DELETE SET NULL: the subcategories of a deleted row become roots.
Cut(tree, S) ==
  [c \in Category |-> IF c \in S THEN Absent
                      ELSE IF tree[c] \in S THEN Root ELSE tree[c]]

\* calculateCategoryDepth; more than WalkLimit means that it threw.
Depth(tree, c) ==
  LET up[n \in 0 .. WalkLimit] ==
        IF n = 0 THEN c
        ELSE IF tree[up[n - 1]] \in Category THEN tree[up[n - 1]]
        ELSE up[n - 1]
      Ends(n) == tree[up[n]] \notin Category
  IN IF \E n \in 0 .. WalkLimit - 1 : Ends(n)
     THEN 1 + CHOOSE n \in 0 .. WalkLimit - 1 :
                Ends(n) /\ \A m \in 0 .. n - 1 : ~Ends(m)
     ELSE WalkLimit + 1

\* calculateSubcategoriesDepth of what is in memory below c.
SubDepth(r, c) ==
  IF kids[r][c] = {} THEN 0
  ELSE IF \A k \in kids[r][c] : kids[r][k] = {} THEN 1 ELSE 2

\* Another transaction has written one of these rows.
Locked(r, S) == \E q \in Requests \ {r} : held[q] \cap S # {}

\* A foreign key check waits for an uncommitted deletion of its target, ...
Vanishing(r, p) ==
  \E q \in Requests \ {r} : p \in held[q] /\ draft[q][p] = Absent

\* ... and a deletion for uncommitted rows that came to refer to its targets.
Referred(r, S) ==
  \E q \in Requests \ {r} : \E c \in held[q] :
    draft[q][c] \in S /\ draft[q][c] # parent[c]

DeleteBlocked(r, S) ==
  Locked(r, S \cup ChildrenIn(View(r), S)) \/ Referred(r, S)

Top(r) == Head(frames[r])

\* Rows updateSubCategories deletes: those not in memory any more.
Stale(r) == ChildrenIn(View(r), {Top(r).at}) \ kids[r][Top(r).at]

Blocked(r) ==
  \/ pc[r] = "insert" /\ Vanishing(r, cmd[r].parent)
  \/ pc[r] = "row" /\ (Locked(r, {cmd[r].id}) \/ Vanishing(r, above[r]))
  \/ pc[r] = "prune" /\ DeleteBlocked(r, Stale(r))
  \/ /\ pc[r] = "child" /\ Top(r).left # {}
     /\ \A c \in Top(r).left : Locked(r, {c})
  \/ pc[r] = "purge" /\ DeleteBlocked(r, ChildrenIn(View(r), {cmd[r].id}))
  \/ pc[r] = "drop" /\ DeleteBlocked(r, {cmd[r].id})

-----------------------------------------------------------------------------
\* The hierarchies that creations alone leave behind.
Init ==
  /\ \E tree \in [InitCategories -> InitCategories \cup {Root, Absent}] :
       parent = [c \in Category |->
                   IF c \in InitCategories THEN tree[c] ELSE Absent]
  /\ \A c \in Category :
       /\ parent[c] \in Category => parent[parent[c]] # Absent
       /\ Depth(parent, c) <= MaxDepth
  /\ pc = [r \in Requests |-> "idle"]
  /\ cmd = [r \in Requests |-> None]
  /\ above = [r \in Requests |-> None]
  /\ kids = [r \in Requests |-> NoKids]
  /\ frames = [r \in Requests |-> <<>>]
  /\ held = [r \in Requests |-> {}]
  /\ draft = [r \in Requests |-> NoDraft]

End(r, outcome) ==
  /\ pc' = [pc EXCEPT ![r] = outcome]
  /\ cmd' = [cmd EXCEPT ![r] = None]
  /\ above' = [above EXCEPT ![r] = None]
  /\ kids' = [kids EXCEPT ![r] = NoKids]
  /\ frames' = [frames EXCEPT ![r] = <<>>]
  /\ held' = [held EXCEPT ![r] = {}]
  /\ draft' = [draft EXCEPT ![r] = NoDraft]

\* An exception leaves the handler: the transaction rolls back.
Fail(r, outcome) == End(r, outcome) /\ UNCHANGED parent

\* Clients name identifiers they have seen: the server makes them, and they
\* are visible when the command that made them has ended.
Known == InitCategories \cup {Main(q) : q \in {q \in Requests :
                                          pc[q] \in {"ok", "failed", "tooDeep"}}}

Begin(r, c) ==
  /\ pc[r] = "idle" /\ c \in Commands
  /\ (c.kind \in {"update", "delete"} => c.id \in Known)
  /\ (c.kind \in {"create", "update"} => c.parent \in Known \cup {Root, None})
  /\ Overlap \/ \A q \in Requests : pc[q] \notin Working

Enter(r, c, place) ==
  /\ pc' = [pc EXCEPT ![r] = place]
  /\ cmd' = [cmd EXCEPT ![r] = c]
  /\ UNCHANGED <<parent, frames, held, draft>>

Given(r, c) == IF c.subs = 1 THEN {Sub(r)} ELSE {}

-----------------------------------------------------------------------------
\* validateCategoryDepth.  create passes the parent of the new category;
\* updateSubCategories passes the category itself, so it is counted twice.
Checked(r) == IF pc[r] = "check" THEN Main(r) ELSE Top(r).at

Walked(r) ==
  IF pc[r] = "validate" THEN Depth(View(r), Top(r).at)
  ELSE IF above[r] = Root THEN 0 ELSE Depth(parent, above[r])

\* Mutant: the category itself is not counted.
TooDeepLate(r) ==
  /\ pc[r] = "check" \/ (pc[r] = "validate" /\ kids[r][Checked(r)] # {})
  /\ Walked(r) + SubDepth(r, Checked(r)) > MaxDepth

\* Mutant: update does not check.
TooDeepAtCreation(r) ==
  pc[r] = "check" /\ Walked(r) + 1 + SubDepth(r, Checked(r)) > MaxDepth

TooDeep(r) ==
  /\ pc[r] = "check" \/ (pc[r] = "validate" /\ kids[r][Checked(r)] # {})
  /\ Walked(r) + 1 + SubDepth(r, Checked(r)) > MaxDepth

\* Mutant: the walk to the root has no limit, and does not end in a cycle.
RefuseNoCycle(r) ==
  /\ TooDeep(r) /\ Walked(r) <= WalkLimit
  /\ Fail(r, "tooDeep")

\* The input is refused, or the walk to the root does not end.
RefuseDepth(r) ==
  /\ TooDeep(r)
  /\ Fail(r, IF Walked(r) > WalkLimit THEN "failed" ELSE "tooDeep")

-----------------------------------------------------------------------------
\* CategoryRepository.create.

CreateCategory(r, c) ==
  /\ Begin(r, c) /\ c.kind = "create"
  /\ above' = [above EXCEPT ![r] = c.parent]
  /\ kids' = [kids EXCEPT ![r][Main(r)] = Given(r, c)]
  /\ Enter(r, c, "check")

CheckDepth(r) ==
  /\ pc[r] = "check" /\ ~TooDeep(r)
  /\ pc' = [pc EXCEPT ![r] = "insert"]
  /\ UNCHANGED <<parent, locals>>

\* The new row, its subcategories and the commit.
InsertCategory(r) ==
  /\ pc[r] = "insert" /\ ~Blocked(r)
  /\ above[r] # Root => parent[above[r]] # Absent
  /\ parent' = [c \in Category |->
                  IF c = Main(r) THEN above[r]
                  ELSE IF c \in kids[r][Main(r)] THEN Main(r)
                  ELSE parent[c]]
  /\ End(r, "ok")

-----------------------------------------------------------------------------
\* CategoryRepository.update.

\* findById: the category with two levels of subcategories.
LoadedKids(id) ==
  [c \in Category |->
     IF c = id \/ parent[c] = id THEN ChildrenIn(parent, {c}) ELSE {}]

\* Category.update: subCategories of the input replace the loaded ones and
\* get fresh identifiers; a parentId left out is the loaded one.
UpdateCategory(r, c) ==
  /\ Begin(r, c) /\ c.kind = "update"
  /\ parent[c.id] # Absent
  /\ above' = [above EXCEPT ![r] =
                 IF c.parent = None THEN parent[c.id] ELSE c.parent]
  /\ kids' = [kids EXCEPT ![r] = IF c.subs = None THEN LoadedKids(c.id)
                                 ELSE [NoKids EXCEPT ![c.id] = Given(r, c)]]
  /\ Enter(r, c, "row")

\* A call of updateSubCategories (fresh = FALSE) or createSubCategories.
Frame(c, left, fresh) == [at |-> c, left |-> left, found |-> {}, fresh |-> fresh]

\* category.update: writes the parentId in memory, unless it is gone.  toDto
\* makes null undefined, which leaves the column as it is.
WriteRow(r) ==
  LET id == cmd[r].id IN
  /\ pc[r] = "row" /\ ~Blocked(r)
  /\ parent[id] # Absent /\ (above[r] # Root => parent[above[r]] # Absent)
  /\ held' = [held EXCEPT ![r] = @ \cup {id}]
  /\ draft' = [draft EXCEPT ![r][id] =
                 IF above[r] = Root THEN parent[id] ELSE above[r]]
  /\ frames' = [frames EXCEPT ![r] = <<Frame(id, kids[r][id], FALSE)>>]
  /\ pc' = [pc EXCEPT ![r] = "validate"]
  /\ UNCHANGED <<parent, cmd, above, kids>>

Validate(r) ==
  /\ pc[r] = "validate" /\ ~TooDeep(r)
  /\ pc' = [pc EXCEPT ![r] = "prune"]
  /\ UNCHANGED <<parent, locals>>

\* r's transaction now sees tree.
Write(r, tree) ==
  /\ held' = [held EXCEPT ![r] =
                @ \cup {c \in Category : tree[c] # View(r)[c]}]
  /\ draft' = [draft EXCEPT ![r] =
                 [c \in Category |-> IF tree[c] # View(r)[c] THEN tree[c]
                                     ELSE @[c]]]

\* Reads the subcategories and deletes those that are not in memory.
Prune(r) ==
  /\ pc[r] = "prune" /\ ~Blocked(r)
  /\ Write(r, Cut(View(r), Stale(r)))
  /\ frames' = [frames EXCEPT ![r][1].found =
                  ChildrenIn(View(r), {Top(r).at})]
  /\ pc' = [pc EXCEPT ![r] = "child"]
  /\ UNCHANGED <<parent, cmd, above, kids>>

\* Writes subcategory c: an update when it was found, an insert otherwise.  The
\* foreign key wants its parent there.
Writable(r, c) ==
  /\ View(r)[Top(r).at] # Absent
  /\ IF c \in Top(r).found THEN View(r)[c] # Absent ELSE View(r)[c] = Absent

WriteChild(r) ==
  /\ pc[r] = "child"
  /\ \E c \in Top(r).left :
       LET fresh == c \notin Top(r).found
           rest == <<[Top(r) EXCEPT !.left = @ \ {c}]>> \o Tail(frames[r])
       IN
       /\ ~Locked(r, {c}) /\ Writable(r, c)
       /\ held' = [held EXCEPT ![r] = @ \cup {c}]
       /\ draft' = [draft EXCEPT ![r][c] = Top(r).at]
       /\ IF kids[r][c] = {}
          THEN /\ frames' = [frames EXCEPT ![r] = rest]
               /\ UNCHANGED pc
          ELSE /\ frames' = [frames EXCEPT ![r] =
                               <<Frame(c, kids[r][c], fresh)>> \o rest]
               /\ pc' = [pc EXCEPT ![r] = IF fresh THEN "child"
                                          ELSE "validate"]
  /\ UNCHANGED <<parent, cmd, above, kids>>

\* A subcategory moved or deleted since it was read fails the transaction.
ChildRefused(r) ==
  /\ pc[r] = "child"
  /\ \E c \in Top(r).left : ~Locked(r, {c}) /\ ~Writable(r, c)
  /\ Fail(r, "failed")

Return(r) ==
  /\ pc[r] = "child" /\ Top(r).left = {} /\ Len(frames[r]) > 1
  /\ frames' = [frames EXCEPT ![r] = Tail(@)]
  /\ UNCHANGED <<parent, pc, cmd, above, kids, held, draft>>

\* After the commit the row is mapped to an entity, which throws when it is
\* not there any more.
CommitUpdate(r) ==
  /\ pc[r] = "child" /\ Top(r).left = {} /\ Len(frames[r]) = 1
  /\ parent' = View(r)
  /\ End(r, IF View(r)[cmd[r].id] = Absent THEN "failed" ELSE "ok")

-----------------------------------------------------------------------------
\* CategoryRepository.delete.

DeleteCategory(r, c) ==
  /\ Begin(r, c) /\ c.kind = "delete"
  /\ parent[c.id] # Absent
  /\ Enter(r, c, "purge")
  /\ UNCHANGED <<above, kids>>

\* deleteMany removes the direct subcategories.
Purge(r) ==
  /\ pc[r] = "purge" /\ ~Blocked(r) /\ parent[cmd[r].id] # Absent
  /\ Write(r, Cut(parent, ChildrenIn(parent, {cmd[r].id})))
  /\ pc' = [pc EXCEPT ![r] = "drop"]
  /\ UNCHANGED <<parent, cmd, above, kids, frames>>

Drop(r) ==
  /\ pc[r] = "drop" /\ ~Blocked(r) /\ View(r)[cmd[r].id] # Absent
  /\ parent' = Cut(View(r), {cmd[r].id})
  /\ End(r, "ok")

-----------------------------------------------------------------------------
\* Update and delete give up on a category that is not there.
NotFound(r, c) ==
  /\ Begin(r, c) /\ c.kind \in {"update", "delete"} /\ parent[c.id] = Absent
  /\ Fail(r, "failed")

\* A row or a foreign key's target is gone by now.
Gone(r) ==
  /\ ~Blocked(r)
  /\ \/ /\ pc[r] \in {"insert", "row"}
        /\ above[r] # Root /\ parent[above[r]] = Absent
     \/ pc[r] \in {"row", "purge", "drop"} /\ View(r)[cmd[r].id] = Absent
  /\ Fail(r, "failed")

\* The process dies, the name is taken, or the database ends the transaction.
Abort(r) == pc[r] \in Working /\ Fail(r, "failed")

Start(r) ==
  \E c \in Commands :
    \/ CreateCategory(r, c) \/ UpdateCategory(r, c) \/ DeleteCategory(r, c)
    \/ NotFound(r, c)

Step(r) ==
  \/ CheckDepth(r) \/ InsertCategory(r)
  \/ WriteRow(r) \/ Validate(r) \/ Prune(r) \/ WriteChild(r) \/ Return(r)
  \/ CommitUpdate(r)
  \/ Purge(r) \/ Drop(r)
  \/ RefuseDepth(r) \/ ChildRefused(r) \/ Gone(r)

\* Every command has been served.
Served == (\A r \in Requests : pc[r] \notin Working \cup {"idle"}) /\ UNCHANGED vars

Next == (\E r \in Requests : Start(r) \/ Step(r) \/ Abort(r)) \/ Served

Spec == Init /\ [][Next]_vars

\* A started handler keeps running, and a transaction that stays blocked is
\* ended by its timeout or by the deadlock detector.
FairSpec ==
  Spec /\ \A r \in Requests : WF_vars(Step(r)) /\ WF_vars(Blocked(r) /\ Abort(r))

-----------------------------------------------------------------------------
FrameType == [at : Category, left : SUBSET Category,
              found : SUBSET Category, fresh : BOOLEAN]

\* Every variable has its type.
TypeOK ==
  /\ parent \in [Category -> Category \cup {Root, Absent}]
  /\ pc \in [Requests -> Working \cup {"idle", "ok", "failed", "tooDeep"}]
  /\ cmd \in [Requests -> Commands \cup {None}]
  /\ above \in [Requests -> Category \cup {Root, None}]
  /\ kids \in [Requests -> [Category -> SUBSET Category]]
  /\ frames \in [Requests -> Seq(FrameType)]
  /\ held \in [Requests -> SUBSET Category]
  /\ draft \in [Requests -> [Category -> Category \cup {Root, Absent}]]

\* Every parentId names a category, whichever deletions, moves and stale
\* updates overlap: what a deletion leaves behind is detached in its own
\* transaction, also children it did not know of.
ParentsExist ==
  \A c \in Category : parent[c] \in Category => parent[parent[c]] # Absent

\* "Category hierarchy cannot exceed 10 levels": no category is further than
\* MaxDepth from its root, and every one has a root.
DepthLimit == \A c \in Category : Depth(parent, c) <= MaxDepth

\* What create adds, subcategories included, fits under MaxDepth: the limit it
\* checked when it began still holds for the rows it commits, as long as
\* commands do not overlap.
CreationsFit ==
  [][\A r \in Requests :
       pc[r] = "insert" /\ pc'[r] = "ok"
         => \A c \in {Main(r), Sub(r)} : Depth(parent', c) <= MaxDepth]_vars

\* Every started command is answered: neither the row locks nor the recursion
\* over the subcategories leave a request pending for ever.
EveryCommandAnswered ==
  \A r \in Requests : pc[r] \in Working ~> pc[r] \notin Working

-----------------------------------------------------------------------------
Forest ==
  INSTANCE CategoryForest WITH tree <- parent

\* When commands do not overlap each one is a single edit of the forest: what
\* update rewrites besides the category it names comes out as it was, and its
\* depth check, after the write, refuses the moves that would close a circle.
CommandsEditForest == Forest!Spec
=============================================================================
