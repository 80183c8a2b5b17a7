----------------------------- MODULE CdrawQueue -----------------------------
(***************************************************************************)
(* CdrawQueue<T> (cdrawStruct/queue/CdrawQueue.h): a ring buffer guarded   *)
(* by one mutex.  Every operation but isEmpty and isFull takes the mutex   *)
(* with a lock_guard for its whole body; the body is split at each         *)
(* assignment, so that what the mutex protects is visible.  pc[t]:         *)
(*   "idle"  outside the queue          "lock"  in the lock_guard          *)
(*   "body"  at the first test          "sleep" in the poll loop, asleep   *)
(*   "store", "tail", "up"    enqueue:  data_, tail_, count_ still to do   *)
(*   "take", "head", "down"   dequeue:  item, head_, count_ still to do    *)
(*   "exit"  the result is decided, the mutex not yet released             *)
(***************************************************************************)
EXTENDS Integers, Sequences

CONSTANTS Threads,    \* the threads that share the queue
          Items,      \* the values of T; 0 may be one of them
          Capacity,   \* the constructor's argument "size"
          Calls,      \* Calls[t]: the operations thread t calls
          NoThread    \* the owner of a free mutex

NoItem == 0           \* what "return 0" yields in a T

Removing == {"dequeueNotBlock", "dequeueBlock"}
Draining == {"dequeueAllNotBlock", "dequeueAllBlock"}
Blocking == {"dequeueBlock", "dequeueAllBlock"}
Dequeues == Removing \cup Draining
LockedOps == {"enqueue", "clear"} \cup Dequeues
Ops      == LockedOps \cup {"isEmpty", "isFull"}

ASSUME QueueAssumption == /\ Capacity \in Nat
                          /\ Items \subseteq Int
                          /\ Calls \in [Threads -> SUBSET Ops]
                          /\ NoThread \notin Threads

VARIABLES data_, head_, tail_, count_, mtx_,
          pc, 
          op,         \* op[t]: the operation t called last
          arg,        \* arg[t]: the item given to enqueue
          ret,        \* ret[t]: the value returned, as a sequence
          seen        \* seen[t]: what isEmpty or isFull last told t

ring == <<data_, head_, tail_, count_>>
frame == <<op, arg>>
vars == <<ring, mtx_, pc, frame, ret, seen>>

isEmpty == count_ = 0
isFull  == count_ = Capacity
Slots   == 0 .. Capacity - 1

\* new T[size] leaves the items of a plain T uninitialised.
Init == /\ data_ \in [Slots -> Items]
        /\ head_ = 0 /\ tail_ = 0 /\ count_ = 0
        /\ mtx_ = NoThread
        /\ pc = [t \in Threads |-> "idle"]
        /\ op = [t \in Threads |-> "clear"]
        /\ arg = [t \in Threads |-> NoItem]
        /\ ret = [t \in Threads |-> <<>>]
        /\ seen = [t \in Threads |-> "nothing"]

Goto(t, l) == pc' = [pc EXCEPT ![t] = l]
Answer(t, s) == ret' = [ret EXCEPT ![t] = s]

-----------------------------------------------------------------------------
\* Mutant: the queries compare the cursors, the usual ring-buffer tests.
QueryByCursors(t) ==
    /\ pc[t] = "idle"
    /\ \/ /\ "isEmpty" \in Calls[t]
          /\ seen' = [seen EXCEPT ![t] = IF head_ = tail_ THEN "empty" ELSE "notEmpty"]
       \/ /\ "isFull" \in Calls[t]
          /\ seen' = [seen EXCEPT ![t] = IF (tail_ + 1) % Capacity = head_ THEN "full"
                                                                          ELSE "notFull"]
    /\ UNCHANGED <<ring, mtx_, pc, frame, ret>>

\* The two queries read count_ without the mutex.
Query(t) == /\ pc[t] = "idle"
            /\ \/ /\ "isEmpty" \in Calls[t]
                  /\ seen' = [seen EXCEPT ![t] = IF isEmpty THEN "empty" ELSE "notEmpty"]
               \/ /\ "isFull" \in Calls[t]
                  /\ seen' = [seen EXCEPT ![t] = IF isFull THEN "full" ELSE "notFull"]
            /\ UNCHANGED <<ring, mtx_, pc, frame, ret>>

Call(t, o, x) == /\ pc[t] = "idle"
                 /\ op' = [op EXCEPT ![t] = o]
                 /\ arg' = [arg EXCEPT ![t] = x]
                 /\ Answer(t, <<>>)
                 /\ Goto(t, "lock")
                 /\ UNCHANGED <<ring, mtx_, seen>>

AnyCall(t) == \E o \in Calls[t] \cap LockedOps :
                 \E x \in IF o = "enqueue" THEN Items ELSE {NoItem} : Call(t, o, x)

\* Mutant: the lock_guard is missing.
AcquireUnchecked(t) == /\ pc[t] = "lock"
                       /\ mtx_' = t
                       /\ Goto(t, "body")
                       /\ UNCHANGED <<ring, frame, ret, seen>>

Acquire(t) == /\ pc[t] = "lock"
              /\ mtx_ = NoThread
              /\ mtx_' = t
              /\ Goto(t, "body")
              /\ UNCHANGED <<ring, frame, ret, seen>>

\* The lock_guard leaves its scope and the operation returns; a call uses
\* up what the thread had learnt from a query before it.
Release(t) == /\ pc[t] = "exit"
              /\ mtx_' = NoThread
              /\ seen' = [seen EXCEPT ![t] = "nothing"]
              /\ Goto(t, "idle")
              /\ UNCHANGED <<ring, frame, ret>>

-----------------------------------------------------------------------------
\* Mutant: enqueue does not look whether the queue is full.
EnqueueNoTest(t) == /\ pc[t] = "body"
                    /\ op[t] = "enqueue"
                    /\ Goto(t, "store")
                    /\ UNCHANGED <<ring, mtx_, frame, ret, seen>>

EnqueueTest(t) == /\ pc[t] = "body"
                  /\ op[t] = "enqueue"
                  /\ \/ isFull /\ Answer(t, <<0>>) /\ Goto(t, "exit")
                     \/ ~isFull /\ UNCHANGED ret /\ Goto(t, "store")
                  /\ UNCHANGED <<ring, mtx_, frame, seen>>

StoreItem(t) == /\ pc[t] = "store"
                /\ data_' = [data_ EXCEPT ![tail_] = arg[t]]
                /\ Goto(t, "tail")
                /\ UNCHANGED <<head_, tail_, count_, mtx_, frame, ret, seen>>

\* Mutant: tail_ does not wrap.
AdvanceTailNoWrap(t) == /\ pc[t] = "tail"
                        /\ tail_' = tail_ + 1
                        /\ Goto(t, "up")
                        /\ UNCHANGED <<data_, head_, count_, mtx_, frame, ret, seen>>

AdvanceTail(t) == /\ pc[t] = "tail"
                  /\ tail_' = (tail_ + 1) % Capacity
                  /\ Goto(t, "up")
                  /\ UNCHANGED <<data_, head_, count_, mtx_, frame, ret, seen>>

CountUp(t) == /\ pc[t] = "up"
              /\ count_' = count_ + 1
              /\ Answer(t, <<1>>)
              /\ Goto(t, "exit")
              /\ UNCHANGED <<data_, head_, tail_, mtx_, frame, seen>>

-----------------------------------------------------------------------------
\* Mutant: the non-blocking forms wait too.
DequeueAlwaysWaits(t) == /\ pc[t] = "body"
                         /\ op[t] \in Dequeues
                         /\ Goto(t, IF isEmpty THEN "sleep" ELSE "take")
                         /\ UNCHANGED <<ring, mtx_, frame, ret, seen>>

\* An empty queue: the non-blocking forms return, the blocking forms sleep
\* 5 ms inside the lock_guard's scope and test again.
DequeueTest(t) ==
    /\ pc[t] = "body"
    /\ op[t] \in Dequeues
    /\ \/ ~isEmpty /\ UNCHANGED ret /\ Goto(t, "take")
       \/ isEmpty /\ op[t] \in Blocking /\ UNCHANGED ret /\ Goto(t, "sleep")
       \/ isEmpty /\ op[t] = "dequeueNotBlock" /\ Answer(t, <<NoItem>>) /\ Goto(t, "exit")
       \/ isEmpty /\ op[t] = "dequeueAllNotBlock" /\ Answer(t, <<>>) /\ Goto(t, "exit")
    /\ UNCHANGED <<ring, mtx_, frame, seen>>

WakeUp(t) == /\ pc[t] = "sleep"
             /\ Goto(t, "body")
             /\ UNCHANGED <<ring, mtx_, frame, ret, seen>>

\* Mutant: head_ moves before the item is read.
TakeAfterAdvance(t) == /\ pc[t] = "take"
                       /\ Answer(t, Append(ret[t], data_[(head_ + 1) % Capacity]))
                       /\ Goto(t, "head")
                       /\ UNCHANGED <<ring, mtx_, frame, seen>>

TakeItem(t) == /\ pc[t] = "take"
               /\ Answer(t, Append(ret[t], data_[head_]))
               /\ Goto(t, "head")
               /\ UNCHANGED <<ring, mtx_, frame, seen>>

AdvanceHead(t) == /\ pc[t] = "head"
                  /\ head_' = (head_ + 1) % Capacity
                  /\ Goto(t, "down")
                  /\ UNCHANGED <<data_, tail_, count_, mtx_, frame, ret, seen>>

\* count_-- and, in the drains, the loop's test of what is left.
CountDown(t) == /\ pc[t] = "down"
                /\ count_' = count_ - 1
                /\ Goto(t, IF op[t] \in Draining /\ count_' # 0 THEN "take" ELSE "exit")
                /\ UNCHANGED <<data_, head_, tail_, mtx_, frame, ret, seen>>

-----------------------------------------------------------------------------
\* Mutant: clear forgets tail_.
ClearKeepsTail(t) == /\ pc[t] = "body"
                     /\ op[t] = "clear"
                     /\ head_' = 0 /\ count_' = 0
                     /\ Goto(t, "exit")
                     /\ UNCHANGED <<data_, tail_, mtx_, frame, ret, seen>>

Clear(t) == /\ pc[t] = "body"
            /\ op[t] = "clear"
            /\ head_' = 0 /\ tail_' = 0 /\ count_' = 0
            /\ Goto(t, "exit")
            /\ UNCHANGED <<data_, mtx_, frame, ret, seen>>

Body(t) == \/ EnqueueTest(t) \/ StoreItem(t) \/ AdvanceTail(t) \/ CountUp(t)
           \/ DequeueTest(t) \/ WakeUp(t)
           \/ TakeItem(t) \/ AdvanceHead(t) \/ CountDown(t)
           \/ Clear(t) \/ Release(t)

Next == \E t \in Threads : Query(t) \/ AnyCall(t) \/ Acquire(t) \/ Body(t)

Spec == Init /\ [][Next]_vars

\* A thread inside the queue is scheduled again and again.  Which waiter a
\* std::mutex admits next is not specified: only that a free mutex some
\* thread keeps waiting for is taken by somebody.
Fairness == /\ \A t \in Threads : WF_vars(Body(t))
            /\ WF_vars(\E t \in Threads : Acquire(t))

FairSpec == Spec /\ Fairness
-----------------------------------------------------------------------------
Labels == {"idle", "lock", "body", "sleep", "store", "tail", "up",
           "take", "head", "down", "exit"}

\* Every variable stays in its type: in particular head_ and tail_ always
\* index a slot of the array (0 when there is none) and count_ never leaves
\* 0 .. capacity_.
TypeOK == /\ data_ \in [Slots -> Items \cup {NoItem}]
          /\ head_ \in Slots \cup {0}
          /\ tail_ \in Slots \cup {0}
          /\ count_ \in 0 .. Capacity
          /\ mtx_ \in Threads \cup {NoThread}
          /\ pc \in [Threads -> Labels]
          /\ op \in [Threads -> LockedOps]
          /\ arg \in [Threads -> Items \cup {NoItem}]
          /\ ret \in [Threads -> Seq(Int)]
          /\ seen \in [Threads -> {"nothing", "empty", "notEmpty", "full", "notFull"}]

Inside(t) == pc[t] \notin {"idle", "lock"}

\* Between the lock_guard and its end a thread owns mtx_, so no two threads
\* are ever in the queue's critical sections together.
MutualExclusion == /\ \A t \in Threads : Inside(t) <=> mtx_ = t
                   /\ \A t, u \in Threads : Inside(t) /\ Inside(u) => t = u

At(l) == \E t \in Threads : pc[t] = l
Wrap(i) == IF i < Capacity THEN i ELSE i - Capacity

\* The slots between head_ and tail_: count_ lags behind tail_ in enqueue
\* and behind head_ in the dequeues.
Span == count_ + (IF At("up") THEN 1 ELSE 0) - (IF At("down") THEN 1 ELSE 0)

\* tail_ is always Span slots after head_, an enqueue past its test has a
\* free slot, a dequeue past its test has an item: no item is overwritten
\* and no slot is read that holds none.
RingInv == /\ Span \in 0 .. Capacity
           /\ tail_ = Wrap(head_ + Span)
           /\ \A t \in Threads :
                /\ pc[t] \in {"store", "tail", "up"} => count_ < Capacity
                /\ pc[t] \in {"take", "head", "down"} => count_ > 0

\* The items a removal has read but whose effect is not complete, and the
\* items in the ring that are not yet read.
InHand == IF \E t \in Threads : pc[t] \in {"take", "head", "down"}
          THEN ret[mtx_] ELSE <<>>
Unread == LET skip == IF At("head") THEN 1 ELSE 0
              left == IF At("head") \/ At("down") THEN count_ - 1 ELSE count_
          IN  [i \in 1 .. left |-> data_[Wrap(head_ + skip + i - 1)]]

Fifo == INSTANCE BoundedFifo
            WITH queue   <- InHand \o Unread,
                 phase   <- [t \in Threads |-> IF pc[t] \in {"idle", "exit"}
                                               THEN IF pc[t] = "idle" THEN "idle" ELSE "done"
                                               ELSE "called"],
                 request <- [t \in Threads |-> <<op[t], arg[t]>>],
                 answer  <- [t \in Threads |-> IF pc[t] \in {"idle", "exit"}
                                               THEN ret[t] ELSE <<>>]

\* Every operation takes effect at one instant between its call and its
\* return, as in the first-in first-out queue of BoundedFifo: items come
\* out once each, in the order they went in, and only a full queue refuses.
Linearizable == Fifo!Spec

Removers == {t \in Threads : Calls[t] \cap (Dequeues \cup {"clear"}) # {}}
Adders   == {t \in Threads : "enqueue" \in Calls[t]}

\* isEmpty and isFull are read without the mutex, and their answer may be
\* old when it is used.  It stays true for the only thread that removes
\* (a "not empty") and for the only thread that adds (a "not full").
QueryTrusted ==
    \A t \in Threads : pc[t] \in {"idle", "lock", "body"} =>
       /\ seen[t] = "notEmpty" /\ Removers \subseteq {t} => count_ > 0
       /\ seen[t] = "notFull" /\ Adders \subseteq {t} => count_ < Capacity

\* A non-blocking operation that has the mutex completes, also while others
\* wait for an item.
Completes == \A t \in Threads : Inside(t) /\ op[t] \notin Blocking ~> pc[t] = "idle"

\* A blocking dequeue asleep on an empty queue keeps the mutex: whatever
\* the other threads call, the queue stays empty and the mutex taken.
SleeperHoldsQueue == [][At("sleep") => UNCHANGED <<ring, mtx_>>]_vars

\* CdrawQueue.h:83 calls dequeueBlock the blocking dequeue: a thread asleep
\* in it goes on once some other thread calls enqueue.
BlockedDequeueServed ==
    \A t, u \in Threads :
       pc[t] = "sleep" /\ pc[u] = "lock" /\ op[u] = "enqueue" ~> pc[t] = "idle"
=============================================================================
