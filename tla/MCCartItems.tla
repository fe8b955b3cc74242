---------------------------- MODULE MCCartItems ----------------------------
(* Instances of CartItems for TLC.                                          *)
EXTENDS CartInv, TLC

CONSTANTS v1, v2, v3

\* Every command; of the quantities and of the removals of several variants,
\* one.
MCCommands ==
  [kind : {"add"}, variant : Variants]
    \cup [kind : {"setQty"}, variant : Variants, qty : {2}]
    \cup [kind : {"remove"}, variants : {{v} : v \in Variants} \cup {{v1, v2}}]
    \cup [kind : {"create"}]
=============================================================================
