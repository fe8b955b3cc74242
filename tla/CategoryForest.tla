--------------------------- MODULE CategoryForest ---------------------------
(***************************************************************************)
(* What ICategoryRepository promises: the categories form a forest, and    *)
(* each command edits it in one step at the category it names.             *)
(***************************************************************************)
CONSTANTS Category, Root, Absent

VARIABLE tree

vars == tree

\* There is a way out of every set of categories: no circle.
IsForest(t) ==
  \A S \in (SUBSET Category) \ {{}} : \E c \in S : t[c] \notin S

Init == tree \in [Category -> Category \cup {Root, Absent}] /\ IsForest(tree)

Below(S) == {c \in Category : tree[c] \in S}

\* create: a new category, perhaps with new subcategories.
Create(c, p, new) ==
  /\ tree[c] = Absent /\ p \in Category => tree[p] # Absent
  /\ \A s \in new : tree[s] = Absent
  /\ tree' = [x \in Category |-> IF x = c THEN p
                                 ELSE IF x \in new THEN c ELSE tree[x]]

\* update: one category moves, with everything below it.
Move(c, p) ==
  /\ tree[c] # Absent /\ p # c /\ p \in Category => tree[p] # Absent
  /\ tree' = [tree EXCEPT ![c] = p]

\* update with subCategories: new ones replace the old ones.
Replace(c, p, new) ==
  LET old == Below({c}) IN
  /\ tree[c] # Absent /\ p # c
  /\ \A s \in new : tree[s] = Absent
  /\ tree' = [x \in Category |->
                IF x = c THEN IF p \in old THEN Root ELSE p
                ELSE IF x \in new THEN c
                ELSE IF x \in old THEN Absent
                ELSE IF tree[x] \in old THEN Root ELSE tree[x]]

\* delete: a category and its subcategories; what lay below those surfaces.
Delete(c) ==
  LET old == {c} \cup Below({c}) IN
  /\ tree[c] # Absent
  /\ tree' = [x \in Category |->
                IF x \in old THEN Absent
                ELSE IF tree[x] \in old THEN Root ELSE tree[x]]

Edit ==
  \E c \in Category :
    \/ Delete(c)
    \/ \E p \in Category \cup {Root} :
         \/ Move(c, p)
         \/ \E new \in {{}} \cup {{s} : s \in Category} :
              Create(c, p, new) \/ Replace(c, p, new)

Next == Edit /\ IsForest(tree')

Spec == Init /\ [][Next]_vars
=============================================================================
