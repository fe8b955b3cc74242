------------------------------ MODULE Listing ------------------------------
(***************************************************************************)
(* Pages of a query's result, as the repositories cut them: OFFSET and     *)
(* LIMIT over the rows the where clause selects, and a count of those rows *)
(* that tells the client whether to ask for another page.                  *)
(***************************************************************************)
EXTENDS Naturals, Sequences, FiniteSetsExt

\* The rows in the order of some column: which one, nothing depends on.
Ordered(rows) == FoldSet(LAMBDA row, seq : Append(seq, row), <<>>, rows)

Skip(page, limit) == (page - 1) * limit

Page(rows, page, limit) ==
  SubSeq(rows, Skip(page, limit) + 1,
         IF Skip(page, limit) + limit < Len(rows) THEN Skip(page, limit) + limit
         ELSE Len(rows))

HasMore(rows, page, limit) ==
  Skip(page, limit) + Len(Page(rows, page, limit)) < Len(rows)

\* A page or a limit below one is refused.
BadRequest(page, limit) == page < 1 \/ limit < 1
=============================================================================
