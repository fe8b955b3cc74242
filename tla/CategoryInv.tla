----------------------------- MODULE CategoryInv -----------------------------
(***************************************************************************)
(* The inductive invariants of the category hierarchy.  However commands   *)
(* overlap, what an open transaction sees is whole, and no other           *)
(* transaction's deletion takes away what its own writes refer to.  When   *)
(* they are served in turn, what create checked still holds as it inserts, *)
(* and what update and delete have written so far is part of one edit.     *)
(***************************************************************************)
EXTENDS CategoryTree

InTransaction == {"validate", "prune", "child", "drop"}
Updating == {"row", "validate", "prune", "child"}
Open == Working \cup {"idle"}
Fresh(r) == {Main(r), Sub(r)}

\* What a request has in memory and in its transaction, by where it is.
Handler(r) ==
  /\ pc[r] \notin InTransaction => held[r] = {}
  /\ pc[r] \in Working => cmd[r] \in Commands
  /\ pc[r] \in Updating => cmd[r].kind = "update"
  /\ pc[r] \in {"purge", "drop"} => cmd[r].kind = "delete"
  /\ pc[r] \in {"check", "insert", "row"} => above[r] \in Category \cup {Root}
  /\ pc[r] \in {"check", "insert"} =>
       cmd[r].parent = above[r] /\ kids[r][Main(r)] \subseteq {Sub(r)}
  /\ pc[r] \in {"validate", "prune", "child"} =>
       /\ frames[r] # <<>>
       /\ \A i \in DOMAIN frames[r] : frames[r][i].at \in held[r]

HandlerState == \A r \in Requests : Handler(r)

\* The identifiers that a request makes are nobody else's until it ends.
Untouched(f, q) ==
  /\ f \notin held[q]
  /\ \A c \in Category : f \notin kids[q][c]
  /\ \A i \in DOMAIN frames[q] : f \notin frames[q][i].left
  /\ pc[q] \in Updating \cup {"purge", "drop"} => cmd[q].id # f

FreshIdentifiers ==
  \A r \in Requests : pc[r] \in Open =>
    \A f \in Fresh(r) :
      parent[f] = Absent /\ \A q \in Requests \ {r} : Untouched(f, q)

\* No row has two writers.
RowLocks ==
  \A r, q \in Requests : r # q => held[r] \cap held[q] = {}

\* In what a transaction would commit every parentId names a category.
WholeView(r) ==
  \A c \in Category : View(r)[c] \in Category => View(r)[View(r)[c]] # Absent

ViewsWhole == \A r \in Requests : WholeView(r)

\* What r deletes q has not come to refer to.
Unreferred(r, q) ==
  \A c \in held[q], p \in held[r] : draft[q][c] = p => draft[r][p] # Absent

DeletionsUnreferred ==
  \A r, q \in Requests : r # q => Unreferred(r, q)

HierarchyInv ==
  /\ TypeOK
  /\ HandlerState
  /\ FreshIdentifiers
  /\ RowLocks
  /\ ParentsExist
  /\ ViewsWhole
  /\ DeletionsUnreferred

-----------------------------------------------------------------------------
\* When commands are served in turn, what create checked still holds when it
\* inserts.
Alone == \A r, q \in Requests : pc[r] \in Working /\ pc[q] \in Working => r = q

CreationFits(r) ==
  pc[r] = "insert" =>
    (IF above[r] = Root THEN 0 ELSE Depth(parent, above[r]))
      + 1 + SubDepth(r, Main(r)) <= MaxDepth

TurnInv == Alone /\ \A r \in Requests : CreationFits(r)

-----------------------------------------------------------------------------
\* What the calls of update and delete have come to, command by command.

\* Where an update puts its category, and the subcategories it had.
Place(r) == IF above[r] = Root THEN parent[cmd[r].id] ELSE above[r]
Old(r) == ChildrenIn(parent, {cmd[r].id})
Moved(r) ==
  [c \in Category |-> IF c = cmd[r].id THEN Place(r) ELSE parent[c]]

\* What update has in memory is the category as it is, or with its new
\* subcategories.
InMemory(r) ==
  /\ parent[cmd[r].id] # Absent
  /\ Place(r) \in (Category \cup {Root}) \ {cmd[r].id}
  /\ kids[r] = IF cmd[r].subs = None THEN LoadedKids(cmd[r].id)
               ELSE [NoKids EXCEPT ![cmd[r].id] = Given(r, cmd[r])]

\* The calls of updateSubCategories: one for the category and, below it, one
\* for a subcategory.
Outer(r) == frames[r][Len(frames[r])]
OuterCall(r) ==
  /\ Len(frames[r]) \in {1, 2} /\ Outer(r).at = cmd[r].id
  /\ Len(frames[r]) = 2 \/ pc[r] = "child" => Outer(r).found = Old(r)

\* Without new subcategories the calls write what is there already; past the
\* first check of the depth the category is not below itself.
Rewriting(r) ==
  /\ View(r) = Moved(r) /\ Outer(r).left \subseteq Old(r)
  /\ Len(frames[r]) = 2 \/ pc[r] # "validate" => Forest!IsForest(Moved(r))
  /\ Len(frames[r]) = 2 =>
       /\ Top(r).at \in Old(r)
       /\ Top(r).left \subseteq ChildrenIn(parent, {Top(r).at})

\* With new ones, the old are deleted and the new inserted.
Replaced(r) ==
  [c \in Category |-> IF c \in Given(r, cmd[r]) \ Top(r).left THEN cmd[r].id
                      ELSE Cut(Moved(r), Old(r))[c]]
Replacing(r) ==
  /\ Len(frames[r]) = 1
  /\ IF pc[r] = "child"
     THEN Top(r).left \subseteq Given(r, cmd[r]) /\ View(r) = Replaced(r)
     ELSE Top(r).left = Given(r, cmd[r]) /\ View(r) = Moved(r)

EditHandler(r) ==
  /\ pc[r] \in Updating => InMemory(r)
  /\ pc[r] \in {"validate", "prune", "child"} =>
       /\ Place(r) \in Category => parent[Place(r)] # Absent
       /\ OuterCall(r)
       /\ IF cmd[r].subs = None THEN Rewriting(r) ELSE Replacing(r)
  /\ pc[r] = "drop" => View(r) = Cut(parent, Old(r))

EditInv == Forest!IsForest(parent) /\ \A r \in Requests : EditHandler(r)
=============================================================================
