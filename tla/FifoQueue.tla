------------------------------ MODULE FifoQueue ------------------------------
(***************************************************************************)
(* What safe_queue promises its callers: a queue shared by threads, on     *)
(* which push and pop take effect one at a time, between call and return,  *)
(* in the order first in, first out; push waits while the queue is full,   *)
(* pop while it is empty.                                                  *)
(***************************************************************************)
EXTENDS Naturals, Sequences

CONSTANTS Pushers, Poppers, Items, NoItem, Capacity

VARIABLES
  items,    \* the content of the queue
  op,       \* of each thread: "idle", "called" or "done"
  value     \* the item a thread pushes, or has popped

qvars == <<items, op, value>>

Threads == Pushers \cup Poppers

QInit ==
  /\ items = <<>>
  /\ op = [t \in Threads |-> "idle"]
  /\ value = [t \in Threads |-> NoItem]

CallPush(t, x) ==
  /\ op[t] = "idle"
  /\ op' = [op EXCEPT ![t] = "called"] /\ value' = [value EXCEPT ![t] = x]
  /\ UNCHANGED items

CallPop(t) ==
  /\ op[t] = "idle"
  /\ op' = [op EXCEPT ![t] = "called"]
  /\ UNCHANGED <<items, value>>

PushEffect(t) ==
  /\ op[t] = "called" /\ Len(items) < Capacity
  /\ items' = Append(items, value[t])
  /\ op' = [op EXCEPT ![t] = "done"] /\ value' = [value EXCEPT ![t] = NoItem]

PopEffect(t) ==
  /\ op[t] = "called" /\ items # <<>>
  /\ value' = [value EXCEPT ![t] = Head(items)]
  /\ items' = Tail(items)
  /\ op' = [op EXCEPT ![t] = "done"]

Return(t) ==
  /\ op[t] = "done"
  /\ op' = [op EXCEPT ![t] = "idle"] /\ value' = [value EXCEPT ![t] = NoItem]
  /\ UNCHANGED items

QNext ==
  \/ \E t \in Pushers : PushEffect(t) \/ \E x \in Items : CallPush(t, x)
  \/ \E t \in Poppers : CallPop(t) \/ PopEffect(t)
  \/ \E t \in Threads : Return(t)

QSpec == QInit /\ [][QNext]_qvars
=============================================================================
