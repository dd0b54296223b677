------------------------------ MODULE SafeQueue ------------------------------
(***************************************************************************)
(* safe_queue (dns-replay-proxy-1.0/safe_queue.cc): a std::queue, one      *)
(* mutex, and one condition variable on which threads that find the queue  *)
(* full and threads that find it empty both wait.  push and pop release    *)
(* the mutex before they notify, and notify_one wakes any waiter.          *)
(***************************************************************************)
EXTENDS Integers, Sequences, FiniteSets

CONSTANTS
  Pushers, Poppers,   \* threads that call push, threads that call pop
  Items, NoItem,
  NoThread,
  m,                  \* the argument of the constructor, an int
  UintMod             \* 2^32: max_len is an unsigned int (small in an instance)

ASSUME QueueAssumption ==
  /\ Pushers \cap Poppers = {} /\ NoThread \notin Pushers \cup Poppers
  /\ NoItem \notin Items
  /\ m \in Int /\ UintMod \in Nat \ {0}

VARIABLES
  q,          \* std::queue
  mtx,        \* the thread that holds the mutex, or NoThread
  pc,         \* of each thread, see TypeOK
  arg         \* the item a thread is to push, or has popped

vars == <<q, mtx, pc, arg>>

Threads == Pushers \cup Poppers

max_len == m % UintMod

(* The threads asleep on the condition variable.                           *)
waiting == {t \in Threads : pc[t] = "waiting"}

(* The types of the state: the queue holds items that were pushed, and no  *)
(* thread but one of the program holds the mutex.                          *)
TypeOK ==
  /\ q \in Seq(Items)
  /\ mtx \in Threads \cup {NoThread}
  /\ pc \in [Threads -> {"idle",      \* outside push and pop
                         "lock",      \* about to take the mutex
                         "held",      \* at the test of the while loop
                         "waiting",   \* in cv.wait
                         "notify",    \* mutex released, before notify_one
                         "return"}]   \* after notify_one
  /\ arg \in [Threads -> Items \cup {NoItem}]

Init ==
  /\ q = <<>> /\ mtx = NoThread
  /\ pc = [t \in Threads |-> "idle"]
  /\ arg = [t \in Threads |-> NoItem]

(* The calls, made by the threads that use the queue.                      *)
Push(t, x) ==
  /\ pc[t] = "idle"
  /\ pc' = [pc EXCEPT ![t] = "lock"] /\ arg' = [arg EXCEPT ![t] = x]
  /\ UNCHANGED <<q, mtx>>

Pop(t) ==
  /\ pc[t] = "idle"
  /\ pc' = [pc EXCEPT ![t] = "lock"]
  /\ UNCHANGED <<q, mtx, arg>>

(* unique_lock, or the end of a wait.                                      *)
Lock(t) ==
  /\ pc[t] = "lock" /\ mtx = NoThread
  /\ mtx' = t
  /\ pc' = [pc EXCEPT ![t] = "held"]
  /\ UNCHANGED <<q, arg>>

FullOffByOne == Len(q) > max_len   \* mutant
Full == Len(q) >= max_len
Empty == q = <<>>

(* cv.wait: the mutex is released as the thread goes to sleep.             *)
Wait(t) ==
  /\ pc[t] = "held" /\ IF t \in Pushers THEN Full ELSE Empty
  /\ mtx' = NoThread
  /\ pc' = [pc EXCEPT ![t] = "waiting"]
  /\ UNCHANGED <<q, arg>>

(* q.push and the unlock.                                                  *)
EnqueueFront(t) ==   \* mutant: a stack
  /\ t \in Pushers /\ pc[t] = "held" /\ ~Full
  /\ q' = <<arg[t]>> \o q
  /\ arg' = [arg EXCEPT ![t] = NoItem]
  /\ mtx' = NoThread
  /\ pc' = [pc EXCEPT ![t] = "notify"]
Enqueue(t) ==
  /\ t \in Pushers /\ pc[t] = "held" /\ ~Full
  /\ q' = Append(q, arg[t])
  /\ arg' = [arg EXCEPT ![t] = NoItem]
  /\ mtx' = NoThread
  /\ pc' = [pc EXCEPT ![t] = "notify"]

(* q.front, q.pop and the unlock.                                          *)
DequeueUnlocked(t) ==   \* mutant: q.front before the lock is taken
  /\ t \in Poppers /\ pc[t] \in {"lock", "held"} /\ ~Empty
  /\ arg' = [arg EXCEPT ![t] = Head(q)]
  /\ q' = IF pc[t] = "held" THEN Tail(q) ELSE q
  /\ mtx' = IF mtx = t THEN NoThread ELSE mtx
  /\ pc' = [pc EXCEPT ![t] = "notify"]
Dequeue(t) ==
  /\ t \in Poppers /\ pc[t] = "held" /\ ~Empty
  /\ arg' = [arg EXCEPT ![t] = Head(q)]
  /\ q' = Tail(q)
  /\ mtx' = NoThread
  /\ pc' = [pc EXCEPT ![t] = "notify"]

(* cv.notify_one: one waiter, if there is one, goes back to the mutex.     *)
NoNotify(t) ==     \* mutant: no notify_one
  /\ pc[t] = "notify"
  /\ pc' = [pc EXCEPT ![t] = "return"]
  /\ UNCHANGED <<q, mtx, arg>>
Notify(t) ==
  /\ pc[t] = "notify"
  /\ \/ /\ waiting = {}
        /\ pc' = [pc EXCEPT ![t] = "return"]
     \/ \E u \in waiting :
          pc' = [pc EXCEPT ![t] = "return", ![u] = "lock"]
  /\ UNCHANGED <<q, mtx, arg>>

(* A wait may end without a notify.                                        *)
SpuriousWake(t) ==
  /\ t \in waiting
  /\ pc' = [pc EXCEPT ![t] = "lock"]
  /\ UNCHANGED <<q, mtx, arg>>

(* The return to the caller, which takes the popped item.                  *)
Return(t) ==
  /\ pc[t] = "return"
  /\ pc' = [pc EXCEPT ![t] = "idle"] /\ arg' = [arg EXCEPT ![t] = NoItem]
  /\ UNCHANGED <<q, mtx>>

Step(t) == Lock(t) \/ Wait(t) \/ Enqueue(t) \/ Dequeue(t) \/ Notify(t)

Next ==
  \/ \E t \in Pushers, x \in Items : Push(t, x)
  \/ \E t \in Poppers : Pop(t)
  \/ \E t \in Threads : Step(t) \/ SpuriousWake(t) \/ Return(t)

Spec == Init /\ [][Next]_vars

-----------------------------------------------------------------------------
(* No wake-up is lost: when an item is queued and a popper sleeps, some    *)
(* thread that will still take an item or notify is awake; and so for a    *)
(* pusher that sleeps while there is room.  With one condition variable    *)
(* for both and notify_one, this needs a limit of at least the number of   *)
(* threads less one, which the proxy's -1 (2^32 - 1) is: with less, the    *)
(* one thread that is woken can be of the kind that must sleep again.      *)
Awake == {t \in Threads : pc[t] \in {"lock", "held", "notify"}}
NoLostWakeup ==
  /\ q # <<>> /\ waiting \cap Poppers # {} => Awake # {}
  /\ ~Full /\ waiting \cap Pushers # {} => Awake # {}

(* The safe_queue implements the queue that FifoQueue describes: waiting,  *)
(* waking and notifying are invisible, and push and pop take effect at     *)
(* one step inside the call.                                               *)
opBar == [t \in Threads |->
            CASE pc[t] = "idle" -> "idle"
              [] pc[t] \in {"lock", "held", "waiting"} -> "called"
              [] OTHER -> "done"]
Abstract == INSTANCE FifoQueue WITH Capacity <- max_len, items <- q,
                                    op <- opBar, value <- arg
ImplementsFifo == Abstract!QSpec
=============================================================================
