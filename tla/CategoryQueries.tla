-------------------------- MODULE CategoryQueries --------------------------
(***************************************************************************)
(* What the listing of categories shows of the committed hierarchy: roots, *)
(* or the children of one category, page by page, each with the levels     *)
(* below it that the query includes; or every category by itself.          *)
(***************************************************************************)
EXTENDS CategoryTree, Listing

\* createRecursiveInclude is called with the depth a hierarchy may have.
IncludeDepth == MaxDepth

NotFoundAnswer == [status |-> "not found"]
BadRequestAnswer == [status |-> "bad request"]

\* Mutant: the roots are not asked for.
SelectedEveryLevel(under, nested) ==
  {c \in Category : /\ parent[c] # Absent
                    /\ under # None => parent[c] = under}

\* The where clause: under is the parentId asked for, None when left out.
Selected(under, nested) ==
  {c \in Category : /\ parent[c] # Absent
                    /\ under # None => parent[c] = under
                    /\ under = None /\ nested => parent[c] = Root}

\* What subCategories includes below c: depth 0 still includes one level.
Below(c) ==
  LET within[n \in 0 .. IncludeDepth] ==
        IF n = 0 THEN ChildrenIn(parent, {c})
        ELSE LET upper == within[n - 1] IN upper \cup ChildrenIn(parent, upper)
  IN within[IncludeDepth]

\* CategoryRepository.findAll and GetAllCategoriesHandler.
AllCategories(under, nested, page, limit) ==
  LET rows == Ordered(Selected(under, nested))
      cut == Page(rows, page, limit)
  IN IF BadRequest(page, limit) THEN BadRequestAnswer
     ELSE IF rows = <<>> THEN NotFoundAnswer
     ELSE [status |-> "ok",
           entries |-> [i \in DOMAIN cut |->
                          [id |-> cut[i],
                           below |-> IF nested THEN Below(cut[i]) ELSE {}]],
           total |-> Len(rows),
           hasMore |-> HasMore(rows, page, limit)]

\* The pages a client reads until there is no more, one answer after the other.
Answers(under, nested, limit) ==
  LET pages == 1 .. Len(Ordered(Selected(under, nested))) + 1
      answer == [p \in pages |-> AllCategories(under, nested, p, limit)]
  IN {answer[p] : p \in {p \in pages : \A q \in 1 .. p - 1 :
                           answer[q].status = "ok" /\ answer[q].hasMore}}

Entries(under, nested, limit) ==
  UNION {{a.entries[i] : i \in DOMAIN a.entries} :
           a \in {a \in Answers(under, nested, limit) : a.status = "ok"}}

\* No category drops out of the tree that clients are shown: whatever was
\* moved or deleted, every category is below exactly one of the roots on the
\* pages up to the last (one that moves took below the included levels is
\* not), and the flat listing has the same categories.  Those under a parent
\* that is gone would be in the second listing only.
TreeShowsEveryCategory ==
  \A limit \in {1, 2} :
    LET tree == Entries(None, TRUE, limit)
        flat == {e.id : e \in Entries(None, FALSE, limit)}
    IN \A c \in Category :
         /\ c \in flat <=> parent[c] # Absent
         /\ Cardinality({e \in tree : c = e.id \/ c \in e.below}) =
              IF c \in flat /\ Depth(parent, c) <= IncludeDepth + 2 THEN 1 ELSE 0
=============================================================================
