------------------------- MODULE MCProductVariants -------------------------
(* Instances of ProductQueries for TLC.                                     *)
EXTENDS ProductQueries, ProductInv

CONSTANTS v1, v2, b1, g1

Input(kinds, ns, brands, gs) ==
  [kind : kinds, n : ns, brand : brands, cats : gs]

\* Every command: creations with no variant and with one, updates of each part
\* of a product, and two variants, more than the instance allows.
MCCommands ==
  Input({"create"}, {0, 1}, {b1}, {{g1}})
    \cup Input({"update"}, {0, 2}, {None}, {None})
    \cup Input({"update"}, {1}, {b1}, {None})
    \cup Input({"update"}, {None}, {None}, {{}, {g1}})
    \cup [kind : {"softDelete", "restore", "hardDelete"}]
    \cup [kind : OnVariant, variant : {v1}]
=============================================================================
