-------------------------- MODULE ProductQueries ---------------------------
(***************************************************************************)
(* What clients are shown of the product: the listing with its filters by  *)
(* category and by mode, and the product by its id.  Both complete the     *)
(* rows with what the category domain answers for their categories.        *)
(***************************************************************************)
EXTENDS ProductVariants, Listing

NotFoundAnswer == [status |-> "not found"]
BadRequestAnswer == [status |-> "bad request"]

MaxLimit == 50

\* The modes of the listing; actives only if none is given.
Modes == {"all", "actives", "archives", None}

ASSUME ModesAssumption == None \notin {"all", "actives", "archives"}

InMode(row, mode) ==
  /\ mode \in {"actives", None} => ~row.archived
  /\ mode = "archives" => row.archived

\* The where clause: a product in any of the categories asked for, none of
\* them left out.
Selected(under, mode) ==
  {p \in {"product"} :
     /\ product \notin {Unborn, None}
     /\ under # {} => product.cats \cap under # {}
     /\ InMode(product, mode)}

\* enrichWithCategories: what a category is called stays undefined when the
\* category domain does not know it.
Enriched(cats) == [g \in cats |-> IF g \in categories THEN g ELSE None]

\* toDto of the loaded product, with the categories' names.
Shown ==
  [archived |-> product.archived, brand |-> product.brand,
   variants |-> Live(variants), cats |-> Enriched(product.cats)]

\* GetProductByIdHandler: findById fails for a product that is not there.
ProductById ==
  IF product \in {Unborn, None} THEN NotFoundAnswer
  ELSE [status |-> "ok", product |-> Shown]

\* ProductRepository.findAll: both ways of sorting cut the same page out of the
\* same rows, one of them in memory.
FindAll(under, mode, page, limit) ==
  LET rows == Ordered(Selected(under, mode)) IN
  [products |-> [i \in DOMAIN Page(rows, page, limit) |-> Shown],
   total |-> Cardinality(Selected(under, mode)), hasMore |-> HasMore(rows, page, limit)]

\* GetAllProductsHandler.
AllProducts(under, mode, page, limit) ==
  LET result == FindAll(under, mode, page, limit) IN
  IF BadRequest(page, limit) \/ limit > MaxLimit THEN BadRequestAnswer
  ELSE IF result.total = 0 THEN NotFoundAnswer
  ELSE [status |-> "ok", answer |-> result]

\* Whatever updates, archivings and deletions of categories overlap, the product
\* is found where its page says it is: among all; with the archives if its page
\* shows it archived and with the actives, which no mode given stands for, if
\* not; in each of these modes under the categories that its page names and
\* under no other; and no page names a category that is gone.
ListedWhereShown ==
  LET Lists(under, mode) == AllProducts(under, mode, 1, 25).status = "ok"
      page == ProductById.product
  IN IF ProductById = NotFoundAnswer
     THEN \A mode \in Modes : ~Lists({}, mode)
     ELSE /\ Lists({}, "all")
          /\ Lists({}, "archives") <=> page.archived
          /\ \A mode \in {"actives", None} : Lists({}, mode) <=> ~page.archived
          /\ \A g \in Categories, mode \in Modes :
               Lists({g}, mode) <=>
                 Lists({}, mode) /\ g \in DOMAIN page.cats /\ page.cats[g] = g
=============================================================================
