------------------------------ MODULE ResultList ------------------------------
(***************************************************************************)
(* What the cache of a result model promises: a list of at most Limit rows *)
(* that changes by whole operations.  A batch of fresh results replaces    *)
(* the rows from a given one on in a single step.  ResultCache shows that  *)
(* the block-move algorithm of the code implements this list.              *)
(***************************************************************************)
EXTENDS ResultRows

CONSTANTS Resource,   \* the resources a row can show
          Data,       \* everything else a row holds (score, link status, ...)
          Limit       \* the most rows the query asks for

VARIABLE items        \* the rows

Item == [resource : Resource, data : Data]

(***************************************************************************)
(* The results of one SQL query: at most n rows, no resource twice (the    *)
(* queries group by resource).                                             *)
(***************************************************************************)
Batches(n) == {b \in UNION {[1 .. k -> Item] : k \in 0 .. n} :
                 \A j, k \in DOMAIN b : b[j].resource = b[k].resource => j = k}

ListInit == items = <<>>

Insert(row, x) == /\ ~Shows(items, x.resource)
                  /\ items' = TrimTo(RowsInserted(items, row, <<x>>), Limit)

Remove(row) == items' = RowsRemoved(items, row, row)

Update(row, x, dest) == /\ x.resource = items[row + 1].resource
                        /\ items' = RowsInserted(RowsRemoved(items, row, row), dest, <<x>>)

Clear == items' = <<>>

Install(b, from) == IsInstalled(items, b, from, items')

ListNext == \/ \E x \in Item, row \in 0 .. Len(items) : Insert(row, x)
            \/ \E row \in Rows(items) : Remove(row)
            \/ \E x \in Item, row, dest \in Rows(items) : Update(row, x, dest)
            \/ Clear
            \/ \E from \in {0, Len(items)} : \E b \in Batches(Limit - from) : Install(b, from)

ListSpec == ListInit /\ [][ListNext]_items

===============================================================================
