----------------------------- MODULE ResultCache -----------------------------
(***************************************************************************)
(* The row cache of a result model (class Cache, with removeResult and     *)
(* repositionResult), one row signal at a time, and a view that follows    *)
(* the model by those signals only.                                        *)
(*                                                                         *)
(* replace() turns the listed rows into a freshly queried batch without a  *)
(* model reset: a loop that inserts a row or moves a block of rows in each *)
(* round.  Every round is a step here, since views run between the begin   *)
(* and end calls of a round and the next one.                              *)
(***************************************************************************)
EXTENDS ResultRows

CONSTANTS Resource,   \* the resources a row can show
          Data,       \* everything else a row holds (score, link status, ...)
          Limit       \* m_countLimit, the limit of the query

ASSUME CacheAssumption == Limit \in Nat

VARIABLES
    items,      \* m_items
    view,       \* the rows of an attached view
    replacing,  \* the thread is inside replace()
    batch,      \* its newItems
    from,       \* its from
    next,       \* newBlockStart - newItems.cbegin()
    before      \* auxiliary: m_items when the running replace() was called

cacheVars == <<items, view, replacing, batch, from, next, before>>
loopVars == <<replacing, batch, from, next, before>>

\* The rows as a caller of replace() sees them: the old ones until it returns.
listed == IF replacing THEN before ELSE items

List == INSTANCE ResultList WITH items <- listed

Item == [resource : Resource, data : Data]

CacheInit == /\ items = <<>> /\ view = <<>>
             /\ replacing = FALSE
             /\ batch = <<>> /\ from = 0 /\ next = 0 /\ before = <<>>

-------------------------------------------------------------------------------
\* Mutant: the list is not trimmed.
InsertResultUntrimmed(row, x) ==
    /\ ~replacing
    /\ ~Shows(items, x.resource)
    /\ items' = RowsInserted(items, row, <<x>>)
    /\ view' = RowsInserted(view, row, <<x>>)
    /\ UNCHANGED loopVars

(***************************************************************************)
(* The insertion half of onResultScoreUpdated: a new row, then trim().     *)
(***************************************************************************)
InsertResult(row, x) ==
    /\ ~replacing
    /\ ~Shows(items, x.resource)
    /\ items' = TrimTo(RowsInserted(items, row, <<x>>), Limit)
    /\ view' = RowsTrimmed(RowsInserted(view, row, <<x>>), Limit)
    /\ UNCHANGED loopVars

(***************************************************************************)
(* removeResult without its refetch, which is a replacement from the end.  *)
(***************************************************************************)
RemoveResult(row) ==
    /\ ~replacing
    /\ items' = SubSeq(items, 1, row) \o SubSeq(items, row + 2, Len(items))
    /\ view' = RowsRemoved(view, row, row)
    /\ UNCHANGED loopVars

\* Mutant: the announced destination is the row's final place.
UpdateResultMisannounced(row, x, dest) ==
    /\ ~replacing
    /\ x.resource = items[row + 1].resource
    /\ items' = MoveOne([items EXCEPT ![row + 1] = x], row, dest)
    /\ view' = RowsMoved([view EXCEPT ![row + 1] = x], row, row, dest)
    /\ UNCHANGED loopVars

(***************************************************************************)
(* The update half of onResultScoreUpdated: new data for a listed row,     *)
(* then repositionResult to destination dest.  dataChanged makes the view  *)
(* read the row at its old place.                                          *)
(***************************************************************************)
UpdateResult(row, x, dest) ==
    /\ ~replacing
    /\ x.resource = items[row + 1].resource
    /\ items' = MoveOne([items EXCEPT ![row + 1] = x], row, dest)
    /\ LET position == IF dest > row THEN dest + 1 ELSE dest
           read == [view EXCEPT ![row + 1] = x]
       IN view' = IF dest = row THEN read ELSE RowsMoved(read, row, row, position)
    /\ UNCHANGED loopVars

ClearRows ==
    /\ ~replacing
    /\ items # <<>>
    /\ items' = <<>>
    /\ view' = RowsRemoved(view, 0, Len(items) - 1)
    /\ UNCHANGED loopVars

-------------------------------------------------------------------------------
(***************************************************************************)
(* replace(b, f).  fetch() cuts b to what fits under the limit and calls   *)
(* with f = 0 or with f = m_items.size().                                  *)
(***************************************************************************)
BeginReplace(b, f) ==
    /\ ~replacing
    /\ Limit - f > 0
    /\ replacing' = TRUE
    /\ batch' = b
    /\ from' = f
    /\ next' = 0
    /\ before' = items
    /\ UNCHANGED <<items, view>>

NewEnd == IF Len(batch) <= Limit - from THEN Len(batch) ELSE Limit - from

NewBlockStart == from + next

(***************************************************************************)
(* The rows where std::find_if, started at row "from", finds the resource  *)
(* of the current batch entry: the first one, or none.                     *)
(***************************************************************************)
OldBlockStarts == FindFrom(items, from, batch[next + 1].resource)

(***************************************************************************)
(* n rows from row start on match n batch entries from "next" on, and the  *)
(* entry after them does not match, or one of the lists ends.              *)
(***************************************************************************)
IsBlock(start, n) ==
    /\ start + n <= Len(items)
    /\ next + n <= NewEnd
    /\ \A k \in 1 .. n : items[start + k].resource = batch[next + k].resource
    /\ start + n < Len(items) /\ next + n < NewEnd
          => items[start + n + 1].resource # batch[next + n + 1].resource

\* Mutant: the new row is counted from the start of the batch.
InsertNewAtNext ==
    /\ replacing
    /\ next < NewEnd
    /\ OldBlockStarts = {}
    /\ items' = RowsInserted(items, next, <<batch[next + 1]>>)
    /\ view' = RowsInserted(view, next, <<batch[next + 1]>>)
    /\ next' = next + 1
    /\ UNCHANGED <<replacing, batch, from, before>>

\* The entry is not among the old rows: it becomes a row of its own.
InsertNew ==
    /\ replacing
    /\ next < NewEnd
    /\ OldBlockStarts = {}
    /\ items' = RowsInserted(items, NewBlockStart, <<batch[next + 1]>>)
    /\ view' = RowsInserted(view, NewBlockStart, <<batch[next + 1]>>)
    /\ next' = next + 1
    /\ UNCHANGED <<replacing, batch, from, before>>

\* Mutant: only a block that had to be slid is skipped.
MoveBlockAgain ==
    /\ replacing
    /\ next < NewEnd
    /\ \E start \in OldBlockStarts : \E n \in 1 .. Len(batch) :
          /\ IsBlock(start, n)
          /\ IF start - from = NewBlockStart
             THEN UNCHANGED <<items, view, next>>
             ELSE /\ items' = Slide(items, start, start + n, NewBlockStart)
                  /\ view' = RowsMoved(view, start - from, start - from + n - 1, NewBlockStart)
                  /\ next' = next + n
    /\ UNCHANGED <<replacing, batch, from, before>>

(***************************************************************************)
(* The block is slid to its place in the batch, unless it starts there.    *)
(* The announced source row is counted from "from", the destination from 0.*)
(***************************************************************************)
MoveBlock ==
    /\ replacing
    /\ next < NewEnd
    /\ \E start \in OldBlockStarts : \E n \in 1 .. Len(batch) :
          /\ IsBlock(start, n)
          /\ IF start - from = NewBlockStart
             THEN UNCHANGED <<items, view>>
             ELSE /\ items' = Slide(items, start, start + n, NewBlockStart)
                  /\ view' = RowsMoved(view, start - from, start - from + n - 1, NewBlockStart)
          /\ next' = next + n
    /\ UNCHANGED <<replacing, batch, from, before>>

\* Mutants: the old rows behind the batch stay, or the next call starts inside
\* its batch.
EndReplaceUntrimmed ==
    /\ replacing
    /\ next = NewEnd
    /\ UNCHANGED <<items, view>>
    /\ replacing' = FALSE
    /\ batch' = <<>> /\ from' = 0 /\ next' = 0 /\ before' = <<>>

EndReplaceInside ==
    /\ replacing
    /\ next = NewEnd
    /\ items' = TrimTo(items, from + Len(batch))
    /\ view' = RowsTrimmed(view, from + Len(batch))
    /\ replacing' = FALSE
    /\ batch' = <<>> /\ from' = 0 /\ before' = <<>>
    /\ UNCHANGED next

\* The rows behind the batch are removed.
EndReplace ==
    /\ replacing
    /\ next = NewEnd
    /\ items' = TrimTo(items, from + Len(batch))
    /\ view' = RowsTrimmed(view, from + Len(batch))
    /\ replacing' = FALSE
    /\ batch' = <<>> /\ from' = 0 /\ next' = 0 /\ before' = <<>>

-------------------------------------------------------------------------------
ReplaceStep == InsertNew \/ MoveBlock \/ EndReplace

CacheNext ==
    \/ \E x \in Item : \E row \in 0 .. Len(items) : InsertResult(row, x)
    \/ \E r \in Resource : \E row \in Find(items, r) : RemoveResult(row)
    \/ \E x \in Item : \E row \in Find(items, x.resource), dest \in Rows(items) :
          UpdateResult(row, x, dest)
    \/ ClearRows
    \/ \E f \in {0, Len(items)} : \E b \in List!Batches(Limit - f) : BeginReplace(b, f)
    \/ ReplaceStep

CacheSpec == CacheInit /\ [][CacheNext]_cacheVars

(***************************************************************************)
(* replace() is a plain loop: once entered the thread stays in it.         *)
(***************************************************************************)
FairCacheSpec == CacheSpec /\ WF_cacheVars(ReplaceStep)

-------------------------------------------------------------------------------
(***************************************************************************)
(* Properties.                                                             *)
(***************************************************************************)

\* The variables hold what the code's types say; a replacement that runs was
\* called with a batch that fits under the limit, from row 0 or from the end.
CacheTypeOK ==
    /\ items \in Seq(Item)
    /\ view \in Seq(Item)
    /\ replacing \in BOOLEAN
    /\ batch \in Seq(Item)
    /\ before \in Seq(Item)
    /\ from \in Nat
    /\ next \in 0 .. Len(batch)

\* A view that edits its own rows by the announced insertions, removals and
\* moves shows the model's rows after every signal: the rows given to
\* beginInsertRows, beginRemoveRows and beginMoveRows (block start counted from
\* "from", destination counted before the removal, position + 1 for a single
\* row) describe what slide, move_one, insert and erase did to m_items.
ViewMirrors == view = items

\* Inside replace() the rows up to the start of the next block already are the
\* final ones: first the kept rows, then the batch in its order.  The insertion
\* index and the slide's destination stay inside the list because of it.
LoopPrefix ==
    replacing => /\ from + next <= Len(items)
                 /\ \A p \in 1 .. from : items[p] = before[p]
                 /\ \A k \in 1 .. next : items[from + k].resource = batch[k].resource

\* Outside replace() the model never has more rows than the query's limit,
\* although insertions go over it and replace() counts its rows from "from".
BoundedWhenIdle == ~replacing => Len(items) <= Limit

\* The rows, read as the old ones until replace() is done, change by whole
\* operations: the loop of replace() installs its batch after the first "from"
\* rows, loses none of its rows and leaves no old row behind.
ImplementsList == List!ListSpec

\* The loop of replace() reaches the end of its batch.
ReplaceTerminates == replacing ~> ~replacing

===============================================================================
