---------------------------- MODULE BoundedQueue ----------------------------
(***************************************************************************)
(* BoundedQueue<T> of src/Queues.h, the only structure that the game       *)
(* thread, the database worker and the webhook worker share.  Every        *)
(* operation holds m_mutex from its first line to its last, so each is one *)
(* atomic step of the thread that calls it: the operators below are those  *)
(* steps.  A queue is a sequence, oldest item first.  The deferred lists   *)
(* of ChatCapture and ChatInject follow the same drop-the-oldest rule and  *)
(* use the same operators.                                                 *)
(***************************************************************************)
EXTENDS Naturals, Sequences

(* Mutant: one item too many.                                              *)
RoomForOneMore(q, max) == IF Len(q) > max THEN Tail(q) ELSE q

(* The items that a full queue keeps when one more arrives.                *)
Room(q, max) == IF Len(q) >= max THEN Tail(q) ELSE q

(* Push: pop_front if the queue is full, then push_back.                   *)
Push(q, item, max) == Append(Room(q, max), item)

(* The items that a Push discards (m_drops counts them).                   *)
Dropped(q, max) == IF Len(q) >= max THEN {Head(q)} ELSE {}

(* Mutant: the limit is not looked at.                                     *)
PushAllUnbounded(q, items, max) == q \o items

(* Several pushes in a row, into a queue that is within its limit: the     *)
(* newest items stay.                                                      *)
PushAll(q, items, max) ==
  LET all == q \o items
  IN  SubSeq(all, IF Len(all) > max THEN Len(all) - max + 1 ELSE 1, Len(all))

(* TryPop has an item to return.                                           *)
CanPop(q) == q # <<>>

(* The set of items in a queue.                                            *)
Items(q) == {q[i] : i \in 1 .. Len(q)}
=============================================================================
