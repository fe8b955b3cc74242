-------------------------- MODULE ProductCatalogue --------------------------
(***************************************************************************)
(* What each product command promises a client: one edit of the product    *)
(* and its variants, at what the command names.                            *)
(***************************************************************************)
EXTENDS Naturals

CONSTANTS Variant, None

VARIABLES
  product,   \* the product, or none
  variants   \* its variants

There == {v \in Variant : variants[v] # None}
ThereNext == {v \in Variant : variants'[v] # None}

Flag(v, archived) ==
  /\ v \in There /\ variants[v].archived # archived
  /\ variants' = [variants EXCEPT ![v].archived = archived]
  /\ UNCHANGED product

Archive(archived) ==
  /\ product.archived # archived
  /\ product' = [product EXCEPT !.archived = archived]
  /\ UNCHANGED variants

\* n variants, none of them archived, none of them there before.
Stocked(n) ==
  /\ ThereNext \cap There = {}
  /\ \E f \in [1 .. n -> ThereNext] :
       /\ \A i, j \in 1 .. n : f[i] = f[j] => i = j
       /\ ThereNext = {f[i] : i \in 1 .. n}
  /\ \A v \in ThereNext : ~variants'[v].archived

Does(c) ==
  CASE c.kind = "create" ->
         /\ product' = [archived |-> FALSE, brand |-> c.brand, cats |-> c.cats]
         /\ Stocked(c.n)
    [] c.kind = "update" ->
         /\ product' =
              [product EXCEPT !.brand = IF c.brand = None THEN @ ELSE c.brand,
                              !.cats = IF c.cats = None THEN @ ELSE c.cats]
         /\ IF c.n = None THEN UNCHANGED variants ELSE Stocked(c.n)
    [] c.kind = "softDelete" -> Archive(TRUE)
    [] c.kind = "restore" -> Archive(FALSE)
    [] c.kind = "hardDelete" -> product' = None /\ ThereNext = {}
    [] c.kind = "archiveVariant" -> Flag(c.variant, TRUE)
    [] c.kind = "restoreVariant" -> Flag(c.variant, FALSE)
    [] c.kind = "removeVariant" ->
         /\ c.variant \in There
         /\ variants' = [variants EXCEPT ![c.variant] = None]
         /\ UNCHANGED product
=============================================================================
