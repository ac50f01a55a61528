------------------------- MODULE AsyncBoundedQueue --------------------------
(***************************************************************************)
(* simplicio_loop/async_bounded_queue.py, class AsyncBoundedQueue: the     *)
(* state of one queue and what its operations do to it.                    *)
(*                                                                         *)
(* The queue lives in one event loop and every operation holds its         *)
(* condition, so an operation is atomic up to the point where it waits.    *)
(* Every change notifies all waiters and a waiter tests again, so waiting  *)
(* is a guard of the action that ends it.  An item is its key and value;   *)
(* sizes are left out (no caller sets max_bytes).                          *)
(***************************************************************************)
EXTENDS Naturals, SequencesExt

(* A queue: its items, its _unfinished counter, and whether it is closed.  *)
EmptyQueue == [items |-> <<>>, unfinished |-> 0, closed |-> FALSE]

IsFull(q, maxItems) == Len(q.items) >= maxItems

(* _find_key: the position of the first item with this key, 0 if none.     *)
FindKey(q, key) == SelectInSeq(q.items, LAMBDA item : item.key = key)

\* Faulty variant of Coalesce: a replaced item counts as new work.
CoalesceCounted(q, item) ==
    [q EXCEPT !.items[FindKey(q, item.key)] = item, !.unfinished = @ + 1]

(* put on a coalescing queue that holds the key: the item takes the place  *)
(* of the older one and is no new work.                                    *)
Coalesce(q, item) == [q EXCEPT !.items[FindKey(q, item.key)] = item]

(* put, once there is room.                                                *)
PutItem(q, item) == [q EXCEPT !.items = Append(@, item), !.unfinished = @ + 1]

(* get, once there is an item: popleft.                                    *)
PopItem(q) == [q EXCEPT !.items = Tail(@)]

(* get has nothing to wait for: QueueClosed.                               *)
Drained(q) == q.closed /\ q.items = <<>>

TaskDone(q) == [q EXCEPT !.unfinished = @ - 1]

CloseQueue(q) == [q EXCEPT !.closed = TRUE]
=============================================================================
