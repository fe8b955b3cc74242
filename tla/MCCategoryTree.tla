--------------------------- MODULE MCCategoryTree ---------------------------
EXTENDS CategoryQueries, CategoryInv, TLC

CONSTANTS a, b, c, d, r1, r2, r3

MCSymmetry == Permutations(InitCategories)
RequestSymmetry == Permutations(Requests)

\* The categories that exist at start and one that a request makes.
Targets == InitCategories \cup {Main(r1)}

Creates == [kind : {"create"}, parent : Targets \cup {Root}, subs : {0, 1}]
Renames == [kind : {"update"}, id : Targets, parent : {None}, subs : {None}]
Moves == [kind : {"update"}, id : Targets, parent : Targets,
          subs : {None}]
Replaces == [kind : {"update"}, id : Targets,
             parent : Targets \cup {None}, subs : {0, 1}]
Deletes == [kind : {"delete"}, id : Targets]

\* Commands that name another category as the parent.
Proper == {x \in Moves \cup Replaces : x.parent # x.id}

SerialCommands == Creates \cup Renames \cup Proper \cup Deletes
EveryCommand == Creates \cup Renames \cup Moves \cup Replaces \cup Deletes

\* For overlapping requests: creations of single categories, and renames,
\* moves and deletions of those that exist at start.
OverlapCommands ==
  {x \in Creates : x.subs = 0}
    \cup {x \in Renames \cup Deletes : x.id \in InitCategories}
    \cup {x \in Moves : {x.id, x.parent} \subseteq InitCategories}

FixedPlaces == Creates \cup Renames \cup Deletes
=============================================================================
