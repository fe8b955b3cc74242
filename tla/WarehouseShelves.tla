-------------------------- MODULE WarehouseShelves --------------------------
(***************************************************************************)
(* What the inventory promises its clients: a warehouse has, for each      *)
(* variant, either nothing on the shelf or a quantity, and a command       *)
(* changes the shelf of one variant of one warehouse, or opens or closes   *)
(* one warehouse.                                                          *)
(***************************************************************************)
CONSTANTS WarehouseId, Variants, Qty, None

VARIABLE shelf  \* per warehouse None, or per variant None or its quantity

Contents == [Variants -> Qty \cup {None}]

Empty == [v \in Variants |-> None]

Init == shelf \in [WarehouseId -> Contents \cup {None}]

\* createWarehouse
OpenWarehouse(w) == shelf[w] = None /\ shelf' = [shelf EXCEPT ![w] = Empty]

\* deleteWarehouse
CloseWarehouse(w) == shelf[w] # None /\ shelf' = [shelf EXCEPT ![w] = None]

\* createStock, updateStock
Put(w, v, q) == shelf[w] # None /\ shelf' = [shelf EXCEPT ![w][v] = q]

\* deleteStock, updateStock with quantity 0
Take(w, v) ==
  /\ shelf[w] # None /\ shelf[w][v] # None
  /\ shelf' = [shelf EXCEPT ![w][v] = None]

Next ==
  \E w \in WarehouseId :
    \/ OpenWarehouse(w) \/ CloseWarehouse(w)
    \/ \E v \in Variants : Take(w, v) \/ \E q \in Qty : Put(w, v, q)

Spec == Init /\ [][Next]_shelf
=============================================================================
