---------------------------- MODULE MCInventory ----------------------------
(* Instances of Inventory for TLC: which commands the requests may carry.   *)
EXTENDS InventoryInv, InventoryQueries, TLC

CONSTANTS w1, s1, s2, v1, v2, n1, n2

MCWarehouses == {w1}
MCOneStock == {s1}
MCTwoStocks == {s1, s2}
MCVariants == {v1, v2}
MCNames == {n1, n2}

Rename(ws) == [kind : {"updateWarehouse"}, wh : ws, name : {n1, n2}]
Create(ws, qs, reasons) ==
  [kind : {"createStock"}, wh : ws, variant : {v1, v2}, avail : qs,
   reserved : {0}, reasonOk : reasons]
Update(ws, ss, qs, rs, reasons) ==
  [kind : {"updateStock"}, wh : ws, stock : ss, avail : qs, reserved : rs,
   reasonOk : reasons]
Remove(ws, ss) ==
  [kind : {"deleteStock"}, wh : ws, stock : ss, avail : {0},
   reserved : {None}, reasonOk : {TRUE}]
Drop(ws) == [kind : {"deleteWarehouse"}, wh : ws]
Open(ns) == [kind : {"createWarehouse"}, name : ns]

\* All six commands on one warehouse.
AllCommands ==
  Rename({w1}) \cup Create({w1}, {1, 2}, {TRUE})
    \cup Update({w1}, {s1}, {None, 1}, {None, 1}, {TRUE})
    \cup Update({w1}, {s1}, {1}, {None}, {FALSE})
    \cup Remove({w1}, {s1}) \cup Drop({w1}) \cup Open({n1})

\* Stock also for the warehouses that requests open: a listing then has several
\* warehouses with stock, and a filter may leave a page of it empty.
SerialCommands == AllCommands \cup Create(Requests, {1}, {TRUE})

\* The commands that go through WarehouseRepository.update and .delete only.
AggregateCommands ==
  Rename({w1}) \cup Create({w1}, {0, 1, 2}, {TRUE}) \cup Drop({w1})

RequestSymmetry == Permutations(Requests)
=============================================================================
