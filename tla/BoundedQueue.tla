---------------------------- MODULE BoundedQueue ----------------------------
(***************************************************************************)
(* crates/rumiga-platform/src/lib.rs, BoundedQueue<T>: a queue of fixed     *)
(* capacity, a named overflow policy, and two saturation counters.         *)
(*                                                                         *)
(* The module is a data type: a queue is a record, and every method of the *)
(* Rust type is an operator from the old record to the new one.  The        *)
(* counter `dropped` is a u64 that saturates at DroppedMax.                 *)
(*                                                                         *)
(* Definitions whose name begins with Wrong, in the modules that are run,     *)
(* are deliberate mistakes no specification uses; substituting one for the  *)
(* definition after it shows which property notices.                        *)
(***************************************************************************)
EXTENDS Naturals, Sequences

CONSTANT DroppedMax     \* u64::MAX; small when model checking saturation

ASSUME DroppedMaxAssumption == DroppedMax \in Nat

OverflowPolicy == {"RejectNewest", "DropOldest"}
QueueAdmission == {"Accepted", "AcceptedEvictingOldest", "Rejected"}

Queue(Item) ==
  [items     : Seq(Item),
   capacity  : Nat,
   policy    : OverflowPolicy,
   highWater : Nat,
   dropped   : 0 .. DroppedMax]

\* BoundedQueue::new: no item, both counters at zero.
New(capacity, policy) ==
  [items |-> << >>, capacity |-> capacity, policy |-> policy,
   highWater |-> 0, dropped |-> 0]

SaturatingSucc(n) == IF n = DroppedMax THEN n ELSE n + 1

\* is_full: the next push will hit the overflow policy.
IsFull(q) == Len(q.items) >= q.capacity

\* push, first half: what the policy answers for the next item.  Capacity zero
\* is tested before the policy, because there is nothing to evict.
Admission(q) ==
  CASE q.capacity = 0                        -> "Rejected"
    [] q.capacity # 0 /\ ~IsFull(q)          -> "Accepted"
    [] OTHER -> IF q.policy = "RejectNewest" THEN "Rejected"
                                             ELSE "AcceptedEvictingOldest"

\* push, second half: the queue afterwards.  Only an append with room can raise
\* the high-water mark; only an overflow counts as a loss.
Push(q, item) ==
  CASE Admission(q) = "Accepted" ->
         [q EXCEPT !.items     = Append(@, item),
                   !.highWater = IF @ > Len(q.items) THEN @
                                                     ELSE Len(q.items) + 1]
    [] Admission(q) = "Rejected" ->
         [q EXCEPT !.dropped = SaturatingSucc(@)]
    [] Admission(q) = "AcceptedEvictingOldest" ->
         [q EXCEPT !.items   = Append(Tail(@), item),
                   !.dropped = SaturatingSucc(@)]

\* pop and clear keep both counters: they describe the history of the queue.
Pop(q)   == [q EXCEPT !.items = Tail(@)]
Clear(q) == [q EXCEPT !.items = << >>]
=============================================================================
